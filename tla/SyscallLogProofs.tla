-------------------------- MODULE SyscallLogProofs --------------------------
(***************************************************************************)
(* The interposed system calls of any number of threads and signal         *)
(* handlers, in any interleaving: nobody's items are lost or reordered in  *)
(* the log, the log can be read back, and logger_sz never runs ahead of it.*)
(***************************************************************************)
EXTENDS SyscallLog, FiniteSetTheorems, TLAPS

(* Sequences: the items of one sequence after those of another, ... *)
LEMMA ConcatProperties ==
    ASSUME NEW S, NEW s \in Seq(S), NEW t \in Seq(S)
    PROVE  /\ s \o t \in Seq(S)
           /\ Len(s \o t) = Len(s) + Len(t)
           /\ \A i \in 1 .. Len(s) + Len(t) :
                 (s \o t)[i] = IF i <= Len(s) THEN s[i] ELSE t[i - Len(s)]
  OBVIOUS

(* ... sequences that agree item by item, ... *)
LEMMA SeqEqual ==
    ASSUME NEW S, NEW s \in Seq(S), NEW t \in Seq(S), Len(s) = Len(t),
           \A i \in 1 .. Len(s) : s[i] = t[i]
    PROVE  s = t
  OBVIOUS

(* ... one more item at the end, ... *)
LEMMA AppendProperties ==
    ASSUME NEW S, NEW s \in Seq(S), NEW x \in S
    PROVE  /\ Append(s, x) \in Seq(S)
           /\ Len(Append(s, x)) = Len(s) + 1
           /\ Append(s, x)[Len(s) + 1] = x
           /\ \A i \in 1 .. Len(s) : Append(s, x)[i] = s[i]
  OBVIOUS

LEMMA AppendIsConcat ==
    ASSUME NEW S, NEW s \in Seq(S), NEW x \in S PROVE Append(s, x) = s \o <<x>>
  OBVIOUS

(* ... no item at all, ... *)
LEMMA EmptySeq == ASSUME NEW S PROVE <<>> \in Seq(S) /\ \A s \in Seq(S) : s = <<>> <=> Len(s) = 0
  OBVIOUS

(* ... and the first item and the rest. *)
LEMMA HeadTailProperties ==
    ASSUME NEW S, NEW s \in Seq(S), s # <<>>
    PROVE  /\ Head(s) \in S /\ Head(s) = s[1]
           /\ Tail(s) \in Seq(S)
           /\ Len(Tail(s)) = Len(s) - 1
           /\ \A i \in 1 .. Len(s) - 1 : Tail(s)[i] = s[i + 1]
  OBVIOUS

-----------------------------------------------------------------------------
(* What an item can carry. *)
Names == UNION {UNION {p[c].names : c \in Contexts} : p \in Programs}
Regs == {"ebx", "ecx", "edi", "regs"}
Vals == Names \cup Supported \cup FutexCmds \cup Regs \cup Int
Item == [width : Nat, val : Vals]

-----------------------------------------------------------------------------
(* The post handlers *)

(* What the kernel can answer to each call. *)
LEMMA OutcomesAre ==
    /\ \A n \in EaxOnly :
          Outcomes(n) = [eax : {-1, 1}, p : {0}, q : {0}, cmd : {"FUTEX_WAIT"}]
    /\ Outcomes("gettimeofday") =
          [eax : {-1, 0}, p : {0, 1}, q : {0, 1}, cmd : {"FUTEX_WAIT"}]
    /\ Outcomes("nanosleep") =
          [eax : {-1, 0}, p : {0, 1}, q : {0}, cmd : {"FUTEX_WAIT"}]
    /\ Outcomes("futex") =
          [eax : -1 .. MaxResult, p : {0}, q : {0}, cmd : FutexCmds]
    /\ \A n : n \notin EaxOnly \cup {"gettimeofday", "nanosleep", "futex"} =>
          Outcomes(n) =
             [eax : -1 .. MaxResult, p : {0}, q : {0}, cmd : {"FUTEX_WAIT"}]
  <1>1. {"gettimeofday", "nanosleep", "futex"} \cap EaxOnly = {}
    BY DEF EaxOnly
  <1> QED
    BY <1>1, Zenon DEF Outcomes

LEMMA Fields ==
    ASSUME NEW E, NEW P, NEW Q, NEW C, NEW o \in [eax : E, p : P, q : Q, cmd : C]
    PROVE  o.eax \in E /\ o.p \in P /\ o.q \in Q /\ o.cmd \in C
  OBVIOUS

(* They are of the types the handlers expect. *)
LEMMA OutcomeType ==
    ASSUME NEW n, NEW o \in Outcomes(n)
    PROVE  o.eax \in Int /\ o.p \in Int /\ o.q \in Int /\ o.cmd \in FutexCmds
  <1>1. /\ -1 .. MaxResult \subseteq Int /\ {-1, 0} \subseteq Int /\ {-1, 1} \subseteq Int
        /\ {"FUTEX_WAIT"} \subseteq FutexCmds /\ {0} \subseteq Int /\ {0, 1} \subseteq Int
    BY SyscallLogAssumption DEF FutexCmds
  <1>2. CASE n \in EaxOnly
    <2>1. o \in [eax : {-1, 1}, p : {0}, q : {0}, cmd : {"FUTEX_WAIT"}]
      BY <1>2, OutcomesAre, Zenon
    <2> QED
      BY <1>1, <2>1, Fields
  <1>3. CASE n = "gettimeofday"
    <2>1. o \in [eax : {-1, 0}, p : {0, 1}, q : {0, 1}, cmd : {"FUTEX_WAIT"}]
      BY <1>3, OutcomesAre, Zenon
    <2> QED
      BY <1>1, <2>1, Fields
  <1>4. CASE n = "nanosleep"
    <2>1. o \in [eax : {-1, 0}, p : {0, 1}, q : {0}, cmd : {"FUTEX_WAIT"}]
      BY <1>4, OutcomesAre, Zenon
    <2> QED
      BY <1>1, <2>1, Fields
  <1>5. CASE n = "futex"
    <2>1. o \in [eax : -1 .. MaxResult, p : {0}, q : {0}, cmd : FutexCmds]
      BY <1>5, OutcomesAre, Zenon
    <2> QED
      BY <1>1, <2>1, Fields
  <1>6. CASE n \notin EaxOnly \cup {"gettimeofday", "nanosleep", "futex"}
    <2>1. o \in [eax : -1 .. MaxResult, p : {0}, q : {0}, cmd : {"FUTEX_WAIT"}]
      BY <1>6, OutcomesAre, Zenon
    <2> QED
      BY <1>1, <2>1, Fields
  <1> QED
    BY <1>2, <1>3, <1>4, <1>5, <1>6

(* Each thing a handler writes is an item. *)
LEMMA ItemTypes ==
    ASSUME NEW n, NEW o \in Outcomes(n)
    PROVE  /\ EaxItem(o) \in Item
           /\ ObjItem(o.p) \in Item /\ ObjItem(o.q) \in Item /\ ObjItem(o.cmd) \in Item
  BY OutcomeType DEF EaxItem, ObjItem, Item, Vals

LEMMA MemType == ASSUME NEW reg \in Regs, NEW sz \in Nat PROVE MemItem(reg, sz) \in Item
  BY DEF MemItem, Item, Vals

LEMMA NrType == ASSUME NEW n \in Names \cup Supported PROVE NrItem(n) \in Item
  BY DEF NrItem, Item, Vals

(* An item in front of a sequence of items. *)
LEMMA InFront ==
    ASSUME NEW x \in Item, NEW s \in Seq(Item)
    PROVE  /\ <<x>> \o s \in Seq(Item)
           /\ Len(<<x>> \o s) = Len(s) + 1
           /\ (<<x>> \o s)[1] = x
           /\ \A i \in 1 .. Len(s) : (<<x>> \o s)[i + 1] = s[i]
  <1>1. <<x>> \in Seq(Item) /\ Len(<<x>>) = 1 /\ <<x>>[1] = x /\ Len(s) \in Nat
    OBVIOUS
  <1> QED
    BY <1>1, ConcatProperties

(* Tuples joined to tuples. *)
LEMMA Join11 ==
    ASSUME NEW a, NEW b
    PROVE  <<a>> \o <<b>> = <<a, b>>
  <1> DEFINE S == {a, b}
             r == <<a>> \o <<b>>
             t == <<a, b>>
  <1>1. <<a>> \in Seq(S) /\ <<b>> \in Seq(S) /\ t \in Seq(S) /\ Len(t) = 2
    OBVIOUS
  <1>2. r \in Seq(S) /\ Len(r) = 2 /\ r[1] = a /\ r[2] = b
    BY <1>1, ConcatProperties
  <1>3. \A i \in 1 .. 2 : r[i] = t[i]
    BY <1>2
  <1> HIDE DEF r, S, t
  <1>4. r = t
    BY <1>1, <1>2, <1>3, SeqEqual
  <1> QED
    BY <1>4 DEF r, t

LEMMA Join12 ==
    ASSUME NEW a, NEW b, NEW c
    PROVE  <<a>> \o <<b, c>> = <<a, b, c>>
  <1> DEFINE S == {a, b, c}
             r == <<a>> \o <<b, c>>
             t == <<a, b, c>>
  <1>1. <<a>> \in Seq(S) /\ <<b, c>> \in Seq(S) /\ t \in Seq(S) /\ Len(t) = 3
    OBVIOUS
  <1>2. r \in Seq(S) /\ Len(r) = 3 /\ r[1] = a /\ r[2] = b /\ r[3] = c
    BY <1>1, ConcatProperties
  <1>3. \A i \in 1 .. 3 : r[i] = t[i]
    BY <1>2
  <1> HIDE DEF r, S, t
  <1>4. r = t
    BY <1>1, <1>2, <1>3, SeqEqual
  <1> QED
    BY <1>4 DEF r, t

LEMMA Join13 ==
    ASSUME NEW a, NEW b, NEW c, NEW d
    PROVE  <<a>> \o <<b, c, d>> = <<a, b, c, d>>
  <1> DEFINE S == {a, b, c, d}
             r == <<a>> \o <<b, c, d>>
             t == <<a, b, c, d>>
  <1>1. <<a>> \in Seq(S) /\ <<b, c, d>> \in Seq(S) /\ t \in Seq(S) /\ Len(t) = 4
    OBVIOUS
  <1>2. r \in Seq(S) /\ Len(r) = 4 /\ r[1] = a /\ r[2] = b /\ r[3] = c /\ r[4] = d
    BY <1>1, ConcatProperties
  <1>3. \A i \in 1 .. 4 : r[i] = t[i]
    BY <1>2
  <1> HIDE DEF r, S, t
  <1>4. r = t
    BY <1>1, <1>2, <1>3, SeqEqual
  <1> QED
    BY <1>4 DEF r, t

LEMMA Join14 ==
    ASSUME NEW a, NEW b, NEW c, NEW d, NEW e
    PROVE  <<a>> \o <<b, c, d, e>> = <<a, b, c, d, e>>
  <1> DEFINE S == {a, b, c, d, e}
             r == <<a>> \o <<b, c, d, e>>
             t == <<a, b, c, d, e>>
  <1>1. <<a>> \in Seq(S) /\ <<b, c, d, e>> \in Seq(S) /\ t \in Seq(S) /\ Len(t) = 5
    OBVIOUS
  <1>2. r \in Seq(S) /\ Len(r) = 5 /\ r[1] = a /\ r[2] = b /\ r[3] = c /\ r[4] = d /\ r[5] = e
    BY <1>1, ConcatProperties
  <1>3. \A i \in 1 .. 5 : r[i] = t[i]
    BY <1>2
  <1> HIDE DEF r, S, t
  <1>4. r = t
    BY <1>1, <1>2, <1>3, SeqEqual
  <1> QED
    BY <1>4 DEF r, t

LEMMA Join21 ==
    ASSUME NEW a, NEW b, NEW c
    PROVE  <<a, b>> \o <<c>> = <<a, b, c>>
  <1> DEFINE S == {a, b, c}
             r == <<a, b>> \o <<c>>
             t == <<a, b, c>>
  <1>1. <<a, b>> \in Seq(S) /\ <<c>> \in Seq(S) /\ t \in Seq(S) /\ Len(t) = 3
    OBVIOUS
  <1>2. r \in Seq(S) /\ Len(r) = 3 /\ r[1] = a /\ r[2] = b /\ r[3] = c
    BY <1>1, ConcatProperties
  <1>3. \A i \in 1 .. 3 : r[i] = t[i]
    BY <1>2
  <1> HIDE DEF r, S, t
  <1>4. r = t
    BY <1>1, <1>2, <1>3, SeqEqual
  <1> QED
    BY <1>4 DEF r, t

LEMMA Join31 ==
    ASSUME NEW a, NEW b, NEW c, NEW d
    PROVE  <<a, b, c>> \o <<d>> = <<a, b, c, d>>
  <1> DEFINE S == {a, b, c, d}
             r == <<a, b, c>> \o <<d>>
             t == <<a, b, c, d>>
  <1>1. <<a, b, c>> \in Seq(S) /\ <<d>> \in Seq(S) /\ t \in Seq(S) /\ Len(t) = 4
    OBVIOUS
  <1>2. r \in Seq(S) /\ Len(r) = 4 /\ r[1] = a /\ r[2] = b /\ r[3] = c /\ r[4] = d
    BY <1>1, ConcatProperties
  <1>3. \A i \in 1 .. 4 : r[i] = t[i]
    BY <1>2
  <1> HIDE DEF r, S, t
  <1>4. r = t
    BY <1>1, <1>2, <1>3, SeqEqual
  <1> QED
    BY <1>4 DEF r, t

(* The handlers that log the result, and memory of a given size under a    *)
(* condition on the result.                                                *)
ResultThen(h, o, cond, sz) ==
    /\ h \in Seq(Item)
    /\ h[1] = EaxItem(o)
    /\ cond => Len(h) = 2 /\ h[2].width = sz
    /\ ~cond => Len(h) = 1

LEMMA ResultThenMem ==
    ASSUME NEW o, EaxItem(o) \in Item, NEW cond \in BOOLEAN, NEW reg \in Regs, NEW sz,
           cond => sz \in Nat
    PROVE  ResultThen(<<EaxItem(o)>> \o When(cond, <<MemItem(reg, sz)>>), o, cond, sz)
  <1>1. CASE cond
    <2>1. MemItem(reg, sz) \in Item /\ MemItem(reg, sz).width = sz
      BY <1>1, MemType DEF MemItem
    <2>2. /\ <<MemItem(reg, sz)>> \in Seq(Item) /\ Len(<<MemItem(reg, sz)>>) = 1
          /\ When(cond, <<MemItem(reg, sz)>>) = <<MemItem(reg, sz)>>
      BY <1>1, <2>1 DEF When
    <2>3. LET h == <<EaxItem(o)>> \o <<MemItem(reg, sz)>>
          IN  h \in Seq(Item) /\ Len(h) = 2 /\ h[1] = EaxItem(o) /\ h[2] = MemItem(reg, sz)
      BY <2>2, InFront
    <2> QED
      BY <1>1, <2>1, <2>2, <2>3, Zenon DEF ResultThen
  <1>2. CASE ~cond
    <2>1. When(cond, <<MemItem(reg, sz)>>) = <<>> /\ <<>> \in Seq(Item) /\ Len(<<>>) = 0
      BY <1>2 DEF When
    <2> QED
      BY <1>2, <2>1, InFront DEF ResultThen
  <1> QED
    BY <1>1, <1>2

LEMMA ResultHandlers ==
    /\ \A n \in EaxOnly : \A o \in Outcomes(n) :
          ResultThen(post_handler(n, o), o, FALSE, 0)
    /\ \A o \in Outcomes("fstat64") :
          ResultThen(post_handler("fstat64", o), o, o.eax >= 0, sizeof.stat64)
    /\ \A o \in Outcomes("stat64") :
          ResultThen(post_handler("stat64", o), o, o.eax >= 0, sizeof.stat64)
    /\ \A o \in Outcomes("uname") :
          ResultThen(post_handler("uname", o), o, o.eax >= 0, sizeof.old_utsname)
    /\ \A o \in Outcomes("read") :
          ResultThen(post_handler("read", o), o, o.eax > 0, o.eax)
    /\ \A o \in Outcomes("ugetrlimit") :
          ResultThen(post_handler("ugetrlimit", o), o, o.eax = 0, sizeof.rlimit)
  <1>1. sizeof.stat64 \in Nat /\ sizeof.old_utsname \in Nat /\ sizeof.rlimit \in Nat
    BY DEF sizeof
  <1>2. "ecx" \in Regs /\ "ebx" \in Regs
    BY DEF Regs
  <1>3. ASSUME NEW n \in EaxOnly, NEW o \in Outcomes(n)
        PROVE  ResultThen(post_handler(n, o), o, FALSE, 0)
    <2>1. post_handler(n, o) = <<EaxItem(o)>>
      BY DEF post_handler, EaxOnly, post_brk, post_mmap, post_mmap2, post_close, post_open,
             post_mprotect, post_munmap, post_write, post_getpid, post_rt_sigprocmask,
             post_rt_sigaction, post_set_tid_address, post_set_robust_list,
             post_set_thread_area, post_statfs64
    <2> QED
      BY <2>1, ItemTypes DEF ResultThen
  <1>4. ASSUME NEW o \in Outcomes("fstat64")
        PROVE  ResultThen(post_handler("fstat64", o), o, o.eax >= 0, sizeof.stat64)
    <2>1. post_handler("fstat64", o) = post_fstat64(o)
      BY DEF post_handler
    <2>2. o.eax \in Int /\ (o.eax >= 0) \in BOOLEAN /\ EaxItem(o) \in Item
      BY OutcomeType, ItemTypes
    <2> QED
      BY <1>1, <1>2, <2>1, <2>2, ResultThenMem, Zenon DEF post_fstat64
  <1>5. ASSUME NEW o \in Outcomes("stat64")
        PROVE  ResultThen(post_handler("stat64", o), o, o.eax >= 0, sizeof.stat64)
    <2>1. post_handler("stat64", o) = post_stat64(o)
      BY DEF post_handler
    <2>2. o.eax \in Int /\ (o.eax >= 0) \in BOOLEAN /\ EaxItem(o) \in Item
      BY OutcomeType, ItemTypes
    <2> QED
      BY <1>1, <1>2, <2>1, <2>2, ResultThenMem, Zenon DEF post_stat64
  <1>6. ASSUME NEW o \in Outcomes("uname")
        PROVE  ResultThen(post_handler("uname", o), o, o.eax >= 0, sizeof.old_utsname)
    <2>1. post_handler("uname", o) = post_uname(o)
      BY DEF post_handler
    <2>2. o.eax \in Int /\ (o.eax >= 0) \in BOOLEAN /\ EaxItem(o) \in Item
      BY OutcomeType, ItemTypes
    <2> QED
      BY <1>1, <1>2, <2>1, <2>2, ResultThenMem, Zenon DEF post_uname
  <1>7. ASSUME NEW o \in Outcomes("read")
        PROVE  ResultThen(post_handler("read", o), o, o.eax > 0, o.eax)
    <2>1. post_handler("read", o) = post_read(o)
      BY DEF post_handler
    <2>2. o.eax \in Int /\ (o.eax > 0) \in BOOLEAN /\ EaxItem(o) \in Item
      BY OutcomeType, ItemTypes
    <2>3. o.eax > 0 => o.eax \in Nat
      BY <2>2
    <2> QED
      BY <1>2, <2>1, <2>2, <2>3, ResultThenMem, Zenon DEF post_read
  <1>8. ASSUME NEW o \in Outcomes("ugetrlimit")
        PROVE  ResultThen(post_handler("ugetrlimit", o), o, o.eax = 0, sizeof.rlimit)
    <2>1. post_handler("ugetrlimit", o) = post_ugetrlimit(o)
      BY DEF post_handler
    <2>2. o.eax \in Int /\ (o.eax = 0) \in BOOLEAN /\ EaxItem(o) \in Item
      BY OutcomeType, ItemTypes
    <2> QED
      BY <1>1, <1>2, <2>1, <2>2, ResultThenMem, ZenonT(30) DEF post_ugetrlimit
  <1> QED
    BY <1>3, <1>4, <1>5, <1>6, <1>7, <1>8, Zenon
(* The handlers that log more. *)
LEMMA OtherHandlers ==
    /\ \A o : post_handler("ioctl", o) = <<MemItem("regs", 44), EaxItem(o)>>
    /\ \A o \in Outcomes("nanosleep") :
          LET h == post_handler("nanosleep", o)
              e == EaxItem(o)
              p == ObjItem(o.p)
              m == MemItem("ecx", 8)
          IN  (o.p # 0 => h = <<e, p, m>>) /\ (o.p = 0 => h = <<e, p>>)
    /\ \A o \in Outcomes("gettimeofday") :
          LET h == post_handler("gettimeofday", o)
              e == EaxItem(o)
              p == ObjItem(o.p)
              q == ObjItem(o.q)
              m == MemItem("ebx", 8)
              z == MemItem("ecx", 8)
          IN  /\ o.eax < 0 => h = <<e>>
              /\ o.eax >= 0 /\ o.p = 0 /\ o.q = 0 => h = <<e, p, q>>
              /\ o.eax >= 0 /\ o.p # 0 /\ o.q = 0 => h = <<e, p, q, m>>
              /\ o.eax >= 0 /\ o.p = 0 /\ o.q # 0 => h = <<e, p, q, z>>
              /\ o.eax >= 0 /\ o.p # 0 /\ o.q # 0 => h = <<e, p, q, m, z>>
    /\ \A o \in Outcomes("futex") :
          LET h == post_handler("futex", o)
              e == EaxItem(o)
              c == ObjItem(o.cmd)
              u == MemItem("ebx", 4)
              v == MemItem("edi", 4)
          IN  /\ o.eax < 0 => h = <<e>>
              /\ o.eax >= 0 /\ o.cmd = "FUTEX_WAIT" => h = <<e, c, u>>
              /\ o.eax >= 0 /\ o.cmd # "FUTEX_WAIT" => h = <<e, c, u, v>>
  <1>1. \A a : <<a>> \o <<>> = <<a>>
    OBVIOUS
  <1>2. \A a, b : <<a, b>> \o <<>> = <<a, b>>
    OBVIOUS
  <1>3. \A a, b, c : <<a, b, c>> \o <<>> = <<a, b, c>>
    OBVIOUS
  <1>4. \A o : post_handler("ioctl", o) = <<MemItem("regs", 44), EaxItem(o)>>
    BY DEF post_handler, post_ioctl, sizeof
  <1>5. ASSUME NEW o \in Outcomes("nanosleep"),
               NEW h, h = post_handler("nanosleep", o),
               NEW e, e = EaxItem(o), NEW p, p = ObjItem(o.p), NEW m, m = MemItem("ecx", 8)
        PROVE  (o.p # 0 => h = <<e, p, m>>) /\ (o.p = 0 => h = <<e, p>>)
    <2>1. h = <<e, p>> \o When(o.p # 0, <<m>>)
      BY <1>5 DEF post_handler, post_nanosleep, sizeof
    <2>2. CASE o.p # 0
      BY <2>1, <2>2, Join21 DEF When
    <2>3. CASE o.p = 0
      BY <1>2, <2>1, <2>3 DEF When
    <2> QED
      BY <2>2, <2>3
  <1>6. ASSUME NEW o \in Outcomes("gettimeofday"),
               NEW h, h = post_handler("gettimeofday", o),
               NEW e, e = EaxItem(o), NEW p, p = ObjItem(o.p), NEW q, q = ObjItem(o.q),
               NEW m, m = MemItem("ebx", 8), NEW z, z = MemItem("ecx", 8)
        PROVE  /\ o.eax < 0 => h = <<e>>
               /\ o.eax >= 0 /\ o.p = 0 /\ o.q = 0 => h = <<e, p, q>>
               /\ o.eax >= 0 /\ o.p # 0 /\ o.q = 0 => h = <<e, p, q, m>>
               /\ o.eax >= 0 /\ o.p = 0 /\ o.q # 0 => h = <<e, p, q, z>>
               /\ o.eax >= 0 /\ o.p # 0 /\ o.q # 0 => h = <<e, p, q, m, z>>
    <2> DEFINE b == <<p, q>> \o When(o.p # 0, <<m>>)
               c == b \o When(o.q # 0, <<z>>)
    <2>1. h = <<e>> \o When(o.eax >= 0, c)
      BY <1>6 DEF post_handler, post_gettimeofday, sizeof
    <2>2. (o.p # 0 => b = <<p, q, m>>) /\ (o.p = 0 => b = <<p, q>>)
      BY <1>2, Join21, Zenon DEF When
    <2>3. (o.q # 0 => c = b \o <<z>>) /\ (o.q = 0 => c = b \o <<>>)
      BY DEF When
    <2> HIDE DEF b, c
    <2>4. /\ o.p = 0 /\ o.q = 0 => c = <<p, q>>
          /\ o.p # 0 /\ o.q = 0 => c = <<p, q, m>>
          /\ o.p = 0 /\ o.q # 0 => c = <<p, q, z>>
          /\ o.p # 0 /\ o.q # 0 => c = <<p, q, m, z>>
      <3>1. CASE o.p = 0 /\ o.q = 0
        BY <1>2, <2>2, <2>3, <3>1
      <3>2. CASE o.p # 0 /\ o.q = 0
        BY <1>3, <2>2, <2>3, <3>2
      <3>3. CASE o.p = 0 /\ o.q # 0
        BY <2>2, <2>3, <3>3, Join21, Zenon
      <3>4. CASE o.p # 0 /\ o.q # 0
        BY <2>2, <2>3, <3>4, Join31, Zenon
      <3> QED
        BY <3>1, <3>2, <3>3, <3>4
    <2>5. o.eax >= 0 => h = <<e>> \o c
      BY <2>1 DEF When
    <2>6. o.eax < 0 => h = <<e>> \o <<>>
      <3>1. o.eax < 0 => ~(o.eax >= 0)
        BY OutcomeType
      <3> QED
        BY <2>1, <3>1, Zenon DEF When
    <2>7. o.eax < 0 => h = <<e>>
      BY <1>1, <2>6
    <2>8. o.eax >= 0 /\ o.p = 0 /\ o.q = 0 => h = <<e, p, q>>
      BY <2>4, <2>5, Join12, Zenon
    <2>9. o.eax >= 0 /\ o.p # 0 /\ o.q = 0 => h = <<e, p, q, m>>
      BY <2>4, <2>5, Join13, Zenon
    <2>10. o.eax >= 0 /\ o.p = 0 /\ o.q # 0 => h = <<e, p, q, z>>
      BY <2>4, <2>5, Join13, Zenon
    <2>11. o.eax >= 0 /\ o.p # 0 /\ o.q # 0 => h = <<e, p, q, m, z>>
      BY <2>4, <2>5, Join14, Zenon
    <2> QED
      BY <2>7, <2>8, <2>9, <2>10, <2>11
  <1>7. ASSUME NEW o \in Outcomes("futex"),
               NEW h, h = post_handler("futex", o),
               NEW e, e = EaxItem(o), NEW c, c = ObjItem(o.cmd),
               NEW u, u = MemItem("ebx", 4), NEW v, v = MemItem("edi", 4)
        PROVE  /\ o.eax < 0 => h = <<e>>
               /\ o.eax >= 0 /\ o.cmd = "FUTEX_WAIT" => h = <<e, c, u>>
               /\ o.eax >= 0 /\ o.cmd # "FUTEX_WAIT" => h = <<e, c, u, v>>
    <2> DEFINE b == <<c, u>> \o When(o.cmd # "FUTEX_WAIT", <<v>>)
    <2>1. h = <<e>> \o When(o.eax >= 0, b)
      BY <1>7 DEF post_handler, post_futex
    <2>2. /\ o.cmd # "FUTEX_WAIT" => b = <<c, u, v>>
          /\ o.cmd = "FUTEX_WAIT" => b = <<c, u>>
      BY <1>2, Join21, Zenon DEF When
    <2> HIDE DEF b
    <2>3. o.eax >= 0 => h = <<e>> \o b
      BY <2>1 DEF When
    <2>4. o.eax < 0 => h = <<e>> \o <<>>
      <3>1. o.eax < 0 => ~(o.eax >= 0)
        BY OutcomeType
      <3> QED
        BY <2>1, <3>1, Zenon DEF When
    <2>5. o.eax < 0 => h = <<e>>
      BY <1>1, <2>4
    <2>6. o.eax >= 0 /\ o.cmd = "FUTEX_WAIT" => h = <<e, c, u>>
      BY <2>2, <2>3, Join12, Zenon
    <2>7. o.eax >= 0 /\ o.cmd # "FUTEX_WAIT" => h = <<e, c, u, v>>
      BY <2>2, <2>3, Join13, Zenon
    <2> QED
      BY <2>5, <2>6, <2>7
  <1> QED
    BY <1>4, <1>5, <1>6, <1>7
(* Two sequences of items tell from what they have in common whether they  *)
(* go on, and how wide the next item is.                                   *)
Delimited(g, h) ==
    \A i \in 0 .. Len(g) : (i <= Len(h) /\ \A j \in 1 .. i : g[j] = h[j]) =>
        \/ Len(g) = i /\ Len(h) = i
        \/ Len(g) > i /\ Len(h) > i /\ g[i + 1].width = h[i + 1].width

(* The results of two calls are the same if the items they are logged in   *)
(* are.                                                                    *)
LEMMA EaxTold ==
    ASSUME NEW o, NEW r
    PROVE  /\ EaxItem(o) = EaxItem(r) => o.eax = r.eax
           /\ ObjItem(o.p) = ObjItem(r.p) => o.p = r.p
           /\ ObjItem(o.q) = ObjItem(r.q) => o.q = r.q
           /\ ObjItem(o.cmd) = ObjItem(r.cmd) => o.cmd = r.cmd
           /\ EaxItem(o).width = 4 /\ ObjItem(o.p).width = 4
           /\ ObjItem(o.q).width = 4 /\ ObjItem(o.cmd).width = 4
  BY DEF EaxItem, ObjItem

LEMMA ResultDelimits ==
    ASSUME NEW o, NEW r, NEW c, NEW d, NEW x, NEW y, NEW g, NEW h,
           ResultThen(g, o, c, x), ResultThen(h, r, d, y),
           o.eax = r.eax => (c <=> d) /\ x = y
    PROVE  Delimited(g, h)
  <1>1. /\ Len(g) \in 1 .. 2 /\ Len(h) \in 1 .. 2
        /\ Len(g) = 2 => c /\ g[2].width = x
        /\ Len(h) = 2 => d /\ h[2].width = y
        /\ Len(g) = 1 => ~c
        /\ Len(h) = 1 => ~d
    BY DEF ResultThen
  <1>2. g[1].width = h[1].width /\ (g[1] = h[1] => o.eax = r.eax)
    BY EaxTold DEF ResultThen
  <1> SUFFICES ASSUME NEW i \in 0 .. Len(g), i <= Len(h), \A j \in 1 .. i : g[j] = h[j]
               PROVE  \/ Len(g) = i /\ Len(h) = i
                      \/ Len(g) > i /\ Len(h) > i /\ g[i + 1].width = h[i + 1].width
    BY DEF Delimited
  <1>3. CASE i = 0
    BY <1>1, <1>2, <1>3
  <1>4. CASE i > 0
    <2>1. g[1] = h[1] /\ (c <=> d) /\ x = y
      BY <1>1, <1>2, <1>4
    <2> QED
      BY <1>1, <1>4, <2>1
  <1> QED
    BY <1>1, <1>3, <1>4

(* What the other handlers log depends on the result, the pointers and the *)
(* operation only.                                                         *)
IoctlShape(h, o) == h \in Seq(Item) /\ Len(h) = 2 /\ h[1].width = 44 /\ h[2].width = 4

NanosleepShape(h, o) ==
    /\ h \in Seq(Item) /\ h[1] = EaxItem(o) /\ h[2] = ObjItem(o.p)
    /\ o.p # 0 => Len(h) = 3 /\ h[3].width = 8
    /\ o.p = 0 => Len(h) = 2

GettimeofdayShape(h, o) ==
    /\ h \in Seq(Item) /\ h[1] = EaxItem(o)
    /\ o.eax < 0 => Len(h) = 1
    /\ o.eax >= 0 => /\ h[2] = ObjItem(o.p) /\ h[3] = ObjItem(o.q)
                     /\ o.p = 0 /\ o.q = 0 => Len(h) = 3
                     /\ o.p # 0 /\ o.q = 0 => Len(h) = 4 /\ h[4].width = 8
                     /\ o.p = 0 /\ o.q # 0 => Len(h) = 4 /\ h[4].width = 8
                     /\ o.p # 0 /\ o.q # 0 => Len(h) = 5 /\ h[4].width = 8 /\ h[5].width = 8

FutexShape(h, o) ==
    /\ h \in Seq(Item) /\ h[1] = EaxItem(o)
    /\ o.eax < 0 => Len(h) = 1
    /\ o.eax >= 0 => /\ h[2] = ObjItem(o.cmd) /\ h[3].width = 4
                     /\ o.cmd = "FUTEX_WAIT" => Len(h) = 3
                     /\ o.cmd # "FUTEX_WAIT" => Len(h) = 4 /\ h[4].width = 4

LEMMA IoctlHandler ==
    ASSUME NEW o \in Outcomes("ioctl") PROVE IoctlShape(post_handler("ioctl", o), o)
  <1> DEFINE e == EaxItem(o)
             m == MemItem("regs", 44)
  <1>1. e \in Item /\ e.width = 4
    BY ItemTypes DEF EaxItem
  <1>2. m \in Item /\ m.width = 44
    BY MemType DEF MemItem, Regs
  <1>3. post_handler("ioctl", o) = <<m, e>>
    BY OtherHandlers
  <1> HIDE DEF e, m
  <1>4. IoctlShape(<<m, e>>, o)
    BY <1>1, <1>2 DEF IoctlShape
  <1> QED
    BY <1>3, <1>4

LEMMA NanosleepHandler ==
    ASSUME NEW o \in Outcomes("nanosleep"), NEW h, h = post_handler("nanosleep", o)
    PROVE  NanosleepShape(h, o)
  <1> DEFINE e == EaxItem(o)
             p == ObjItem(o.p)
             m == MemItem("ecx", 8)
  <1>1. e \in Item /\ p \in Item
    BY ItemTypes
  <1>2. m \in Item /\ m.width = 8
    BY MemType DEF MemItem, Regs
  <1>3. (o.p # 0 => h = <<e, p, m>>) /\ (o.p = 0 => h = <<e, p>>)
    BY OtherHandlers
  <1> HIDE DEF e, p, m
  <1>4. CASE o.p # 0
    <2>1. h = <<e, p, m>>
      BY <1>3, <1>4
    <2>2. NanosleepShape(<<e, p, m>>, o)
      BY <1>1, <1>2, <1>4 DEF NanosleepShape, e, p
    <2> QED
      BY <2>1, <2>2
  <1>5. CASE o.p = 0
    <2>1. h = <<e, p>>
      BY <1>3, <1>5
    <2>2. NanosleepShape(<<e, p>>, o)
      BY <1>1, <1>2, <1>5 DEF NanosleepShape, e, p
    <2> QED
      BY <2>1, <2>2
  <1> QED
    BY <1>4, <1>5

LEMMA GettimeofdayHandler ==
    ASSUME NEW o \in Outcomes("gettimeofday"), NEW h, h = post_handler("gettimeofday", o)
    PROVE  GettimeofdayShape(h, o)
  <1> DEFINE e == EaxItem(o)
             p == ObjItem(o.p)
             q == ObjItem(o.q)
             m == MemItem("ebx", 8)
             z == MemItem("ecx", 8)
  <1>1. e \in Item /\ p \in Item /\ q \in Item /\ o.eax \in Int
    BY ItemTypes, OutcomeType
  <1>2. m \in Item /\ m.width = 8 /\ z \in Item /\ z.width = 8
    BY MemType DEF MemItem, Regs
  <1>3. /\ o.eax < 0 => h = <<e>>
        /\ o.eax >= 0 /\ o.p = 0 /\ o.q = 0 => h = <<e, p, q>>
        /\ o.eax >= 0 /\ o.p # 0 /\ o.q = 0 => h = <<e, p, q, m>>
        /\ o.eax >= 0 /\ o.p = 0 /\ o.q # 0 => h = <<e, p, q, z>>
        /\ o.eax >= 0 /\ o.p # 0 /\ o.q # 0 => h = <<e, p, q, m, z>>
    BY OtherHandlers
  <1> HIDE DEF e, p, q, m, z
  <1>4. CASE o.eax < 0
    <2>1. h = <<e>>
      BY <1>3, <1>4
    <2>2. GettimeofdayShape(<<e>>, o)
      BY <1>1, <1>2, <1>4 DEF GettimeofdayShape, e
    <2> QED
      BY <2>1, <2>2
  <1>5. CASE o.eax >= 0 /\ o.p = 0 /\ o.q = 0
    <2>1. h = <<e, p, q>>
      BY <1>3, <1>5
    <2>2. GettimeofdayShape(<<e, p, q>>, o)
      BY <1>1, <1>2, <1>5 DEF GettimeofdayShape, e, p, q
    <2> QED
      BY <2>1, <2>2
  <1>6. CASE o.eax >= 0 /\ o.p # 0 /\ o.q = 0
    <2>1. h = <<e, p, q, m>>
      BY <1>3, <1>6
    <2>2. GettimeofdayShape(<<e, p, q, m>>, o)
      BY <1>1, <1>2, <1>6 DEF GettimeofdayShape, e, p, q
    <2> QED
      BY <2>1, <2>2
  <1>7. CASE o.eax >= 0 /\ o.p = 0 /\ o.q # 0
    <2>1. h = <<e, p, q, z>>
      BY <1>3, <1>7
    <2>2. GettimeofdayShape(<<e, p, q, z>>, o)
      BY <1>1, <1>2, <1>7 DEF GettimeofdayShape, e, p, q
    <2> QED
      BY <2>1, <2>2
  <1>8. CASE o.eax >= 0 /\ o.p # 0 /\ o.q # 0
    <2>1. h = <<e, p, q, m, z>>
      BY <1>3, <1>8
    <2>2. GettimeofdayShape(<<e, p, q, m, z>>, o)
      BY <1>1, <1>2, <1>8 DEF GettimeofdayShape, e, p, q
    <2> QED
      BY <2>1, <2>2
  <1> QED
    BY <1>1, <1>4, <1>5, <1>6, <1>7, <1>8

LEMMA FutexHandler ==
    ASSUME NEW o \in Outcomes("futex"), NEW h, h = post_handler("futex", o)
    PROVE  FutexShape(h, o)
  <1> DEFINE e == EaxItem(o)
             c == ObjItem(o.cmd)
             u == MemItem("ebx", 4)
             v == MemItem("edi", 4)
  <1>1. e \in Item /\ c \in Item /\ o.eax \in Int
    BY ItemTypes, OutcomeType
  <1>2. u \in Item /\ u.width = 4 /\ v \in Item /\ v.width = 4
    BY MemType DEF MemItem, Regs
  <1>3. /\ o.eax < 0 => h = <<e>>
        /\ o.eax >= 0 /\ o.cmd = "FUTEX_WAIT" => h = <<e, c, u>>
        /\ o.eax >= 0 /\ o.cmd # "FUTEX_WAIT" => h = <<e, c, u, v>>
    BY OtherHandlers
  <1> HIDE DEF e, c, u, v
  <1>4. CASE o.eax < 0
    <2>1. h = <<e>>
      BY <1>3, <1>4
    <2>2. FutexShape(<<e>>, o)
      BY <1>1, <1>2, <1>4 DEF FutexShape, e
    <2> QED
      BY <2>1, <2>2
  <1>5. CASE o.eax >= 0 /\ o.cmd = "FUTEX_WAIT"
    <2>1. h = <<e, c, u>>
      BY <1>3, <1>5
    <2>2. FutexShape(<<e, c, u>>, o)
      BY <1>1, <1>2, <1>5 DEF FutexShape, e, c
    <2> QED
      BY <2>1, <2>2
  <1>6. CASE o.eax >= 0 /\ o.cmd # "FUTEX_WAIT"
    <2>1. h = <<e, c, u, v>>
      BY <1>3, <1>6
    <2>2. FutexShape(<<e, c, u, v>>, o)
      BY <1>1, <1>2, <1>6 DEF FutexShape, e, c
    <2> QED
      BY <2>1, <2>2
  <1> QED
    BY <1>1, <1>4, <1>5, <1>6

LEMMA OthersDelimit ==
    ASSUME NEW n \in {"ioctl", "nanosleep", "gettimeofday", "futex"},
           NEW o \in Outcomes(n), NEW r \in Outcomes(n)
    PROVE  Delimited(post_handler(n, o), post_handler(n, r))
  <1> DEFINE g == post_handler(n, o)
             h == post_handler(n, r)
  <1>0. o.eax \in Int /\ r.eax \in Int
    BY OutcomeType
  <1> SUFFICES ASSUME NEW i \in 0 .. Len(g), i <= Len(h), \A j \in 1 .. i : g[j] = h[j]
               PROVE  \/ Len(g) = i /\ Len(h) = i
                      \/ Len(g) > i /\ Len(h) > i /\ g[i + 1].width = h[i + 1].width
    BY DEF Delimited
  <1>1. CASE n = "ioctl"
    <2>1. IoctlShape(g, o) /\ IoctlShape(h, r)
      BY <1>1, IoctlHandler
    <2> HIDE DEF g, h
    <2> QED
      BY <2>1 DEF IoctlShape
  <1>2. CASE n = "nanosleep"
    <2>1. NanosleepShape(g, o) /\ NanosleepShape(h, r)
      BY <1>2, NanosleepHandler
    <2> HIDE DEF g, h
    <2>2. i >= 2 => o.p = r.p
      BY <2>1, EaxTold DEF NanosleepShape
    <2>3. g[1].width = h[1].width /\ g[2].width = h[2].width
      BY <2>1, EaxTold DEF NanosleepShape
    <2> QED
      BY <2>1, <2>2, <2>3 DEF NanosleepShape
  <1>3. CASE n = "gettimeofday"
    <2>1. GettimeofdayShape(g, o) /\ GettimeofdayShape(h, r)
      BY <1>3, GettimeofdayHandler
    <2> HIDE DEF g, h
    <2>2. g[1].width = h[1].width /\ (i >= 1 => o.eax = r.eax)
      BY <2>1, EaxTold DEF GettimeofdayShape
    <2>3. o.eax >= 0 /\ o.eax = r.eax => g[2].width = h[2].width /\ g[3].width = h[3].width
      BY <2>1, EaxTold, SMTT(30) DEF GettimeofdayShape
    <2>4. o.eax >= 0 /\ i >= 3 => o.p = r.p /\ o.q = r.q
      BY <2>1, <2>2, EaxTold DEF GettimeofdayShape
    <2>5. CASE i = 0
      BY <1>0, <2>1, <2>2, <2>5, SMTT(30) DEF GettimeofdayShape
    <2>6. CASE i >= 1 /\ o.eax < 0
      BY <1>0, <2>1, <2>2, <2>6 DEF GettimeofdayShape
    <2>7. CASE i \in 1 .. 2 /\ o.eax >= 0
      BY <1>0, <2>1, <2>2, <2>3, <2>7, SMTT(30) DEF GettimeofdayShape
    <2>8. CASE i >= 3 /\ o.eax >= 0
      <3>1. o.eax = r.eax /\ o.p = r.p /\ o.q = r.q
        BY <2>2, <2>4, <2>8
      <3>2. \/ Len(g) = 3 /\ Len(h) = 3
            \/ /\ Len(g) = 4 /\ Len(h) = 4
               /\ g[4].width = 8 /\ h[4].width = 8
            \/ /\ Len(g) = 5 /\ Len(h) = 5
               /\ g[4].width = 8 /\ h[4].width = 8 /\ g[5].width = 8 /\ h[5].width = 8
        BY <1>0, <2>1, <2>8, <3>1 DEF GettimeofdayShape
      <3>3. i = 3 \/ i = 4 \/ i = 5
        BY <2>8, <3>2
      <3> QED
        BY <3>2, <3>3
    <2> QED
      BY <1>0, <2>5, <2>6, <2>7, <2>8
  <1>4. CASE n = "futex"
    <2>1. FutexShape(g, o) /\ FutexShape(h, r)
      BY <1>4, FutexHandler
    <2> HIDE DEF g, h
    <2>2. g[1].width = h[1].width /\ (i >= 1 => o.eax = r.eax)
      BY <2>1, EaxTold DEF FutexShape
    <2>3. o.eax >= 0 /\ o.eax = r.eax => g[2].width = h[2].width /\ g[3].width = h[3].width
      BY <2>1, EaxTold DEF FutexShape
    <2>4. o.eax >= 0 /\ i >= 2 => o.cmd = r.cmd
      BY <2>1, <2>2, EaxTold DEF FutexShape
    <2>5. CASE i = 0
      BY <1>0, <2>1, <2>2, <2>5 DEF FutexShape
    <2>6. CASE i >= 1 /\ o.eax < 0
      BY <1>0, <2>1, <2>2, <2>6 DEF FutexShape
    <2>7. CASE i = 1 /\ o.eax >= 0
      BY <1>0, <2>1, <2>2, <2>3, <2>7 DEF FutexShape
    <2>8. CASE i >= 2 /\ o.eax >= 0
      <3>1. o.eax = r.eax /\ o.cmd = r.cmd
        BY <2>2, <2>4, <2>8
      <3>2. \/ Len(g) = 3 /\ Len(h) = 3
            \/ /\ Len(g) = 4 /\ Len(h) = 4
               /\ g[4].width = 4 /\ h[4].width = 4
        BY <1>0, <2>1, <2>8, <3>1 DEF FutexShape
      <3>3. i = 2 \/ i = 3 \/ i = 4
        BY <2>8, <3>2
      <3>4. g[3].width = h[3].width
        BY <2>3, <2>8, <3>1
      <3> QED
        BY <3>2, <3>3, <3>4
    <2> QED
      BY <1>0, <2>5, <2>6, <2>7, <2>8
  <1> QED
    BY <1>1, <1>2, <1>3, <1>4

(* Every handler logs the result or more, in items. *)
LEMMA HandlerType ==
    ASSUME NEW n \in Supported, NEW o \in Outcomes(n)
    PROVE  post_handler(n, o) \in Seq(Item) /\ Len(post_handler(n, o)) >= 1
  <1> DEFINE h == post_handler(n, o)
  <1>0. o.eax \in Int
    BY OutcomeType
  <1>1. CASE n \in EaxOnly \cup {"fstat64", "stat64", "uname", "read", "ugetrlimit"}
    <2>1. \E c, x : ResultThen(h, o, c, x)
      BY <1>1, ResultHandlers, Zenon
    <2> HIDE DEF h
    <2>2. h \in Seq(Item) /\ Len(h) >= 1
      BY <2>1 DEF ResultThen
    <2> QED
      BY <2>2 DEF h
  <1>2. CASE n = "ioctl"
    BY <1>2, IoctlHandler DEF IoctlShape
  <1>3. CASE n = "nanosleep"
    BY <1>3, NanosleepHandler DEF NanosleepShape
  <1>4. CASE n = "gettimeofday"
    BY <1>0, <1>4, GettimeofdayHandler DEF GettimeofdayShape
  <1>5. CASE n = "futex"
    BY <1>0, <1>5, FutexHandler DEF FutexShape
  <1> QED
    BY <1>1, <1>2, <1>3, <1>4, <1>5 DEF Supported

-----------------------------------------------------------------------------
(* The log can be read back *)

(* Two outcomes of a call that are logged alike so far are logged in items *)
(* of the same width next.                                                 *)
LEMMA HandlersDelimit ==
    ASSUME NEW n \in Supported, NEW o \in Outcomes(n), NEW r \in Outcomes(n)
    PROVE  Delimited(post_handler(n, o), post_handler(n, r))
  <1>1. CASE n \in EaxOnly
    <2>1. ResultThen(post_handler(n, o), o, FALSE, 0) /\ ResultThen(post_handler(n, r), r, FALSE, 0)
      BY <1>1, ResultHandlers, Zenon
    <2> QED
      BY <2>1, ResultDelimits, Zenon
  <1>2. CASE n \in {"fstat64", "stat64"}
    <2>1. /\ ResultThen(post_handler(n, o), o, o.eax >= 0, sizeof.stat64)
          /\ ResultThen(post_handler(n, r), r, r.eax >= 0, sizeof.stat64)
      BY <1>2, ResultHandlers
    <2> QED
      BY <2>1, ResultDelimits
  <1>3. CASE n = "uname"
    <2>1. /\ ResultThen(post_handler(n, o), o, o.eax >= 0, sizeof.old_utsname)
          /\ ResultThen(post_handler(n, r), r, r.eax >= 0, sizeof.old_utsname)
      BY <1>3, ResultHandlers
    <2> QED
      BY <2>1, ResultDelimits
  <1>4. CASE n = "read"
    <2>1. /\ ResultThen(post_handler(n, o), o, o.eax > 0, o.eax)
          /\ ResultThen(post_handler(n, r), r, r.eax > 0, r.eax)
      BY <1>4, ResultHandlers
    <2> QED
      BY <2>1, ResultDelimits
  <1>5. CASE n = "ugetrlimit"
    <2>1. /\ ResultThen(post_handler(n, o), o, o.eax = 0, sizeof.rlimit)
          /\ ResultThen(post_handler(n, r), r, r.eax = 0, sizeof.rlimit)
      BY <1>5, ResultHandlers
    <2> QED
      BY <2>1, ResultDelimits
  <1>6. CASE n \in {"ioctl", "nanosleep", "gettimeofday", "futex"}
    BY <1>6, OthersDelimit
  <1> QED
    BY <1>1, <1>2, <1>3, <1>4, <1>5, <1>6 DEF Supported

(* The number in front of them changes nothing. *)
LEMMA NumberInFront ==
    ASSUME NEW x \in Item, NEW g \in Seq(Item), NEW h \in Seq(Item), Delimited(g, h)
    PROVE  Delimited(<<x>> \o g, <<x>> \o h)
  <1> DEFINE r == <<x>> \o g
             s == <<x>> \o h
  <1> SUFFICES ASSUME NEW i \in 0 .. Len(r), i <= Len(s), \A j \in 1 .. i : r[j] = s[j]
               PROVE  \/ Len(r) = i /\ Len(s) = i
                      \/ Len(r) > i /\ Len(s) > i /\ r[i + 1].width = s[i + 1].width
    BY Zenon DEF Delimited
  <1>1. /\ Len(r) = Len(g) + 1 /\ Len(s) = Len(h) + 1
        /\ \A j \in 1 .. Len(g) : r[j + 1] = g[j]
        /\ \A j \in 1 .. Len(h) : s[j + 1] = h[j]
        /\ Len(g) \in Nat /\ Len(h) \in Nat /\ r[1] = x /\ s[1] = x
    BY InFront
  <1> HIDE DEF r, s
  <1>0. CASE i = 0
    BY <1>0, <1>1
  <1> SUFFICES ASSUME i # 0
               PROVE  \/ Len(r) = i /\ Len(s) = i
                      \/ Len(r) > i /\ Len(s) > i /\ r[i + 1].width = s[i + 1].width
    BY <1>0
  <1> DEFINE k == i - 1
  <1>2. k \in 0 .. Len(g) /\ k <= Len(h)
    BY <1>1
  <1>3. \A j \in 1 .. k : g[j] = h[j]
    <2> SUFFICES ASSUME NEW j \in 1 .. k PROVE g[j] = h[j]
      OBVIOUS
    <2>1. j + 1 \in 1 .. i /\ j \in 1 .. Len(g) /\ j \in 1 .. Len(h)
      BY <1>1, <1>2
    <2>2. r[j + 1] = s[j + 1] /\ r[j + 1] = g[j] /\ s[j + 1] = h[j]
      BY <1>1, <2>1
    <2> QED
      BY <2>2
  <1>4. \/ Len(g) = k /\ Len(h) = k
        \/ Len(g) > k /\ Len(h) > k /\ g[k + 1].width = h[k + 1].width
    BY <1>2, <1>3, SMTT(30) DEF Delimited
  <1>5. CASE Len(g) = k /\ Len(h) = k
    BY <1>1, <1>5
  <1>6. CASE Len(g) > k /\ Len(h) > k /\ g[k + 1].width = h[k + 1].width
    <2>1. k + 1 = i /\ i \in 1 .. Len(g) /\ i \in 1 .. Len(h)
      BY <1>1, <1>6
    <2>2. r[i + 1] = g[i] /\ s[i + 1] = h[i]
      BY <1>1, <2>1
    <2> QED
      BY <1>1, <1>6, <2>1, <2>2
  <1> QED
    BY <1>4, <1>5, <1>6

(* The log of wrapped_syscall and of the post handlers is self-delimiting, *)
(* whatever the kernel answers and however long a read was.                *)
THEOREM LogSelfDelimiting == Spec => []SelfDelimiting
  <1>1. SelfDelimiting
    <2>1. ASSUME NEW c \in Contexts, name[c] \in Supported,
                 NEW r \in Records(name[c]), NEW s \in Records(name[c])
          PROVE  Delimited(r, s) /\ Len(r) \in Nat
      <3> DEFINE n == name[c]
      <3>1. PICK o \in Outcomes(n) : r = <<NrItem(n)>> \o post_handler(n, o)
        BY DEF Records, Record
      <3>2. PICK u \in Outcomes(n) : s = <<NrItem(n)>> \o post_handler(n, u)
        BY DEF Records, Record
      <3>3. NrItem(n) \in Item
        BY <2>1, NrType
      <3>4. post_handler(n, o) \in Seq(Item) /\ post_handler(n, u) \in Seq(Item)
        BY <2>1, HandlerType
      <3>5. Delimited(post_handler(n, o), post_handler(n, u))
        BY <2>1, HandlersDelimit
      <3>6. Delimited(<<NrItem(n)>> \o post_handler(n, o), <<NrItem(n)>> \o post_handler(n, u))
        BY <3>3, <3>4, <3>5, NumberInFront
      <3>7. r \in Seq(Item)
        BY <3>1, <3>3, <3>4, InFront
      <3> QED
        BY <3>1, <3>2, <3>6, <3>7
    <2>2. \A r, s : Delimited(r, s) /\ Len(r) \in Nat =>
             \A i \in 1 .. Len(r) :
                (i <= Len(s) /\ \A j \in 1 .. i : r[j] = s[j]) =>
                    \/ Len(r) = i /\ Len(s) = i
                    \/ Len(r) > i /\ Len(s) > i /\ r[i + 1].width = s[i + 1].width
      BY DEF Delimited
    <2> QED
      BY <2>1, <2>2, ZenonT(30) DEF SelfDelimiting
  <1> QED
    BY <1>1, PTL

-----------------------------------------------------------------------------
(* What the file holds of each context *)

(* The file as a value: the items of c in the file L, their ranks, and     *)
(* that L and the items T still to write are what R says c has to log.     *)
Entry == [by : Contexts, item : Item]
OwnIn(L, c) == {k \in DOMAIN L : L[k].by = c}
UpTo(L, c, k) == {j \in OwnIn(L, c) : j <= k}
Told(L, R, T, c) ==
    /\ Cardinality(OwnIn(L, c)) + Len(T) = Len(R)
    /\ \A k \in OwnIn(L, c) : L[k].item = R[Cardinality(UpTo(L, c, k))]
    /\ \A i \in 1 .. Len(T) : T[i] = R[Cardinality(OwnIn(L, c)) + i]

LEMMA OwnFinite ==
    ASSUME NEW L \in Seq(Entry), NEW c
    PROVE  /\ OwnIn(L, c) \subseteq 1 .. Len(L)
           /\ IsFiniteSet(OwnIn(L, c)) /\ Cardinality(OwnIn(L, c)) \in Nat
           /\ \A k \in OwnIn(L, c) :
                 Cardinality(UpTo(L, c, k)) \in 1 .. Cardinality(OwnIn(L, c))
  <1>1. OwnIn(L, c) \subseteq 1 .. Len(L) /\ Len(L) \in Nat
    BY DEF OwnIn
  <1>2. IsFiniteSet(1 .. Len(L))
    BY <1>1, FS_Interval
  <1>3. IsFiniteSet(OwnIn(L, c)) /\ Cardinality(OwnIn(L, c)) \in Nat
    BY <1>1, <1>2, FS_Subset, FS_CardinalityType
  <1>4. ASSUME NEW k \in OwnIn(L, c)
        PROVE  Cardinality(UpTo(L, c, k)) \in 1 .. Cardinality(OwnIn(L, c))
    <2>1. k \in UpTo(L, c, k) /\ UpTo(L, c, k) \subseteq OwnIn(L, c)
      BY <1>1 DEF UpTo
    <2>2. /\ IsFiniteSet(UpTo(L, c, k)) /\ Cardinality(UpTo(L, c, k)) \in Nat
          /\ Cardinality(UpTo(L, c, k)) <= Cardinality(OwnIn(L, c))
      BY <1>3, <2>1, FS_Subset, FS_CardinalityType
    <2>3. Cardinality(UpTo(L, c, k)) # 0
      BY <2>1, <2>2, FS_EmptySet
    <2> QED
      BY <1>3, <2>2, <2>3
  <1> QED
    BY <1>1, <1>3, <1>4

(* Nothing is left to write and more items h are to be logged. *)
LEMMA ToldMore ==
    ASSUME NEW L \in Seq(Entry), NEW c, NEW R \in Seq(Item), NEW h \in Seq(Item),
           Told(L, R, <<>>, c)
    PROVE  Told(L, R \o h, h, c)
  <1> DEFINE n == Cardinality(OwnIn(L, c))
             S == R \o h
  <1>1. /\ S \in Seq(Item) /\ Len(S) = Len(R) + Len(h) /\ Len(R) \in Nat /\ Len(h) \in Nat
        /\ \A i \in 1 .. Len(R) : S[i] = R[i]
        /\ \A i \in 1 .. Len(h) : S[Len(R) + i] = h[i]
    <2>1. Len(R) \in Nat /\ Len(h) \in Nat /\ S \in Seq(Item) /\ Len(S) = Len(R) + Len(h)
      BY ConcatProperties
    <2>2. \A i \in 1 .. Len(S) : S[i] = IF i <= Len(R) THEN R[i] ELSE h[i - Len(R)]
      BY ConcatProperties
    <2> HIDE DEF S
    <2>3. \A i \in 1 .. Len(R) : S[i] = R[i]
      BY <2>1, <2>2
    <2>4. ASSUME NEW i \in 1 .. Len(h) PROVE S[Len(R) + i] = h[i]
      <3>1. Len(R) + i \in 1 .. Len(S) /\ ~(Len(R) + i <= Len(R)) /\ (Len(R) + i) - Len(R) = i
        BY <2>1
      <3> QED
        BY <2>2, <3>1
    <2> QED
      BY <2>1, <2>3, <2>4
  <1>2. n \in Nat /\ n = Len(R)
    <2>1. n + Len(<<>>) = Len(R) /\ Len(<<>>) = 0
      BY DEF Told
    <2> QED
      BY <2>1, OwnFinite
  <1>3. ASSUME NEW k \in OwnIn(L, c)
        PROVE  L[k].item = S[Cardinality(UpTo(L, c, k))]
    <2>1. Cardinality(UpTo(L, c, k)) \in 1 .. Len(R)
      BY <1>2, OwnFinite
    <2>2. L[k].item = R[Cardinality(UpTo(L, c, k))]
      BY DEF Told
    <2> HIDE DEF S
    <2> QED
      BY <1>1, <2>1, <2>2
  <1> HIDE DEF n, S
  <1>4. n + Len(h) = Len(S)
    BY <1>1, <1>2
  <1>5. \A i \in 1 .. Len(h) : h[i] = S[n + i]
    BY <1>1, <1>2, SMTT(30)
  <1> QED
    BY <1>3, <1>4, <1>5, Zenon DEF Told, n, S

(* c has written its next item x at the end of the file. *)
Grown(L, c, x, M) ==
    /\ M \in Seq(Entry) /\ Len(M) = Len(L) + 1
    /\ \A k \in 1 .. Len(L) : M[k] = L[k]
    /\ M[Len(L) + 1].by = c /\ M[Len(L) + 1].item = x
    /\ OwnIn(M, c) = OwnIn(L, c) \cup {Len(L) + 1}
    /\ \A d : d # c => OwnIn(M, d) = OwnIn(L, d)
    /\ \A d : \A k \in OwnIn(L, d) : UpTo(M, d, k) = UpTo(L, d, k)
    /\ UpTo(M, c, Len(L) + 1) = OwnIn(M, c)
    /\ Cardinality(OwnIn(M, c)) = Cardinality(OwnIn(L, c)) + 1

LEMMA Written ==
    ASSUME NEW L \in Seq(Entry), NEW c \in Contexts, NEW x \in Item
    PROVE  Grown(L, c, x, Append(L, [by |-> c, item |-> x]))
  <1> DEFINE e == [by |-> c, item |-> x]
             n == Len(L)
             M == Append(L, e)
  <1>1. e \in Entry /\ e.by = c /\ e.item = x
    BY DEF Entry
  <1>2. /\ M \in Seq(Entry) /\ Len(M) = n + 1 /\ n \in Nat
        /\ M[n + 1] = e
        /\ \A k \in 1 .. n : M[k] = L[k]
    <2> HIDE DEF e
    <2> QED
      BY <1>1, AppendProperties
  <1> HIDE DEF M
  <1>3. DOMAIN M = 1 .. n + 1 /\ DOMAIN L = 1 .. n
    BY <1>2
  <1>4. OwnIn(M, c) = OwnIn(L, c) \cup {n + 1}
    BY <1>1, <1>2, <1>3 DEF OwnIn
  <1>5. ASSUME NEW d, d # c PROVE OwnIn(M, d) = OwnIn(L, d)
    BY <1>1, <1>2, <1>3, <1>5 DEF OwnIn
  <1>6. ASSUME NEW d, NEW k \in OwnIn(L, d) PROVE UpTo(M, d, k) = UpTo(L, d, k)
    <2>1. k \in 1 .. n /\ OwnIn(L, d) \subseteq 1 .. n
      BY <1>3 DEF OwnIn
    <2>2. OwnIn(M, d) = OwnIn(L, d) \/ OwnIn(M, d) = OwnIn(L, d) \cup {n + 1}
      BY <1>4, <1>5
    <2>3. ~(n + 1 <= k)
      BY <1>2, <2>1
    <2> QED
      BY <2>1, <2>2, <2>3 DEF UpTo
  <1>7. UpTo(M, c, n + 1) = OwnIn(M, c)
    <2>1. OwnIn(M, c) \subseteq 1 .. n + 1
      BY <1>3 DEF OwnIn
    <2> QED
      BY <1>2, <2>1 DEF UpTo
  <1>8. Cardinality(OwnIn(M, c)) = Cardinality(OwnIn(L, c)) + 1
    <2>1. n + 1 \notin OwnIn(L, c)
      BY <1>2, <1>3 DEF OwnIn
    <2> QED
      BY <1>4, <2>1, OwnFinite, FS_AddElement, Zenon
  <1> QED
    BY <1>1, <1>2, <1>4, <1>5, <1>6, <1>7, <1>8 DEF Grown, M

LEMMA ToldWritten ==
    ASSUME NEW L \in Seq(Entry), NEW c \in Contexts, NEW R \in Seq(Item), NEW T \in Seq(Item),
           T # <<>>, Told(L, R, T, c), NEW M, M = Append(L, [by |-> c, item |-> Head(T)])
    PROVE  Told(M, R, Tail(T), c)
  <1> DEFINE n == Cardinality(OwnIn(L, c))
             m == Cardinality(OwnIn(M, c))
             U == Tail(T)
  <1>1. /\ Head(T) \in Item /\ Head(T) = T[1] /\ Len(U) = Len(T) - 1 /\ Len(U) \in Nat
        /\ Len(T) \in Nat /\ Len(T) >= 1
        /\ \A i \in 1 .. Len(U) : U[i] = T[i + 1]
    <2>1. Head(T) \in Item /\ Head(T) = T[1] /\ U \in Seq(Item) /\ Len(U) = Len(T) - 1
      BY HeadTailProperties
    <2>2. Len(T) \in Nat /\ Len(T) >= 1
      BY EmptySeq
    <2>3. \A i \in 1 .. Len(U) : U[i] = T[i + 1]
      BY <2>1, HeadTailProperties
    <2> QED
      BY <2>1, <2>2, <2>3
  <1>0. Grown(L, c, Head(T), M)
    BY <1>1, Written
  <1>2. /\ n \in Nat /\ m = n + 1
        /\ OwnIn(M, c) = OwnIn(L, c) \cup {Len(L) + 1}
        /\ M[Len(L) + 1].item = T[1]
        /\ UpTo(M, c, Len(L) + 1) = OwnIn(M, c)
    BY <1>0, <1>1, OwnFinite DEF Grown
  <1>3. /\ n + Len(T) = Len(R)
        /\ \A k \in OwnIn(L, c) : L[k].item = R[Cardinality(UpTo(L, c, k))]
        /\ \A i \in 1 .. Len(T) : T[i] = R[n + i]
    BY DEF Told
  <1>4. m + Len(U) = Len(R)
    BY <1>1, <1>2, <1>3
  <1>5. ASSUME NEW k \in OwnIn(M, c) PROVE M[k].item = R[Cardinality(UpTo(M, c, k))]
    <2>1. CASE k \in OwnIn(L, c)
      <3>1. k \in 1 .. Len(L)
        BY <2>1, OwnFinite
      <3>2. M[k] = L[k] /\ UpTo(M, c, k) = UpTo(L, c, k)
        BY <1>0, <2>1, <3>1, SMTT(30) DEF Grown
      <3> QED
        BY <1>3, <2>1, <3>2, Zenon
    <2>2. CASE k = Len(L) + 1
      <3>1. T[1] = R[n + 1]
        BY <1>1, <1>3
      <3> QED
        BY <1>2, <2>2, <3>1, SMTT(30)
    <2> QED
      BY <1>2, <2>1, <2>2, Zenon
  <1>6. ASSUME NEW i \in 1 .. Len(U) PROVE U[i] = R[m + i]
    <2>1. i + 1 \in 1 .. Len(T) /\ n + (i + 1) = m + i
      BY <1>1, <1>2, SMTT(30)
    <2>2. U[i] = T[i + 1] /\ T[i + 1] = R[n + (i + 1)]
      BY <1>1, <1>3, <2>1, SMTT(30)
    <2> QED
      BY <2>1, <2>2
  <1> QED
    BY <1>4, <1>5, <1>6, Zenon DEF Told

LEMMA ToldOther ==
    ASSUME NEW L \in Seq(Entry), NEW c \in Contexts, NEW x \in Item, NEW R, NEW T,
           NEW d, d # c, Told(L, R, T, d), NEW M, M = Append(L, [by |-> c, item |-> x])
    PROVE  Told(M, R, T, d)
  <1>0. Grown(L, c, x, M)
    BY Written
  <1>1. OwnIn(M, d) = OwnIn(L, d)
    BY <1>0 DEF Grown
  <1>2. ASSUME NEW k \in OwnIn(L, d)
        PROVE  M[k] = L[k] /\ UpTo(M, d, k) = UpTo(L, d, k)
    BY <1>0, OwnFinite, SMTT(30) DEF Grown
  <1> QED
    BY <1>1, <1>2, Zenon DEF Told

-----------------------------------------------------------------------------
(* Nothing is lost, reordered or written twice *)

Types ==
    /\ calls \in Programs
    /\ pc \in [Contexts -> {"user", "load", "store", "write", "exec"}]
    /\ todo \in [Contexts -> Seq(Item)]
    /\ record \in [Contexts -> Seq(Item)]
    /\ log \in Seq(Entry)
    /\ loaded \in [Contexts -> Nat]
    /\ logger_sz \in Nat
    /\ ncalls \in [Contexts -> Nat]

(* LogComplete, for one context. *)
Complete(c) ==
    /\ Told(log, record[c], todo[c], c)
    /\ pc[c] \in {"user", "exec"} <=> todo[c] = <<>>

LEMMA CompleteIs == LogComplete <=> \A c \in Contexts : Complete(c)
  BY DEF LogComplete, Complete, Told, OwnIn, UpTo, Own, Rank

LEMMA CompleteNext == (\A c \in Contexts : Complete(c)') => LogComplete'
  BY DEF LogComplete, Complete, Told, OwnIn, UpTo, Own, Rank

LEMMA LogInit == Init => Types /\ LogComplete
  <1> SUFFICES ASSUME Init PROVE Types /\ LogComplete
    OBVIOUS
  <1>1. <<>> \in Seq(Item) /\ <<>> \in Seq(Entry) /\ Len(<<>>) = 0 /\ DOMAIN <<>> = {}
    OBVIOUS
  <1>2. Types
    BY <1>1 DEF Init, Types
  <1>3. ASSUME NEW c \in Contexts PROVE Complete(c)
    <2>1. todo[c] = <<>> /\ record[c] = <<>> /\ log = <<>> /\ pc[c] = "user"
      BY DEF Init
    <2>2. OwnIn(<<>>, c) = {}
      BY <1>1 DEF OwnIn
    <2>3. Cardinality({}) = 0
      BY FS_EmptySet
    <2>4. Told(<<>>, <<>>, <<>>, c)
      BY <1>1, <2>2, <2>3, SMTT(30) DEF Told
    <2> QED
      BY <2>1, <2>4 DEF Complete
  <1> QED
    BY <1>2, <1>3, CompleteIs

(* A step that neither writes nor adds anything to write. *)
LEMMA CompleteKept ==
    ASSUME NEW c \in Contexts, Complete(c), log' = log,
           record'[c] = record[c], todo'[c] = todo[c],
           pc'[c] \in {"user", "exec"} <=> pc[c] \in {"user", "exec"}
    PROVE  Complete(c)'
  BY DEF Complete

LEMMA NonEmpty ==
    ASSUME Types, LogComplete, NEW c \in Contexts, pc[c] \notin {"user", "exec"}
    PROVE  /\ todo[c] \in Seq(Item) /\ todo[c] # <<>> /\ Len(todo[c]) \in Nat /\ Len(todo[c]) >= 1
           /\ Head(todo[c]) \in Item /\ Head(todo[c]).width \in Nat
           /\ Tail(todo[c]) \in Seq(Item) /\ Len(Tail(todo[c])) = Len(todo[c]) - 1
  <1>1. todo[c] \in Seq(Item) /\ todo[c] # <<>>
    BY CompleteIs DEF Types, Complete
  <1> DEFINE T == todo[c]
  <1>2. T \in Seq(Item) /\ T # <<>>
    BY <1>1
  <1> HIDE DEF T
  <1>3. /\ Len(T) \in Nat /\ Len(T) >= 1 /\ Head(T) \in Item
        /\ Tail(T) \in Seq(Item) /\ Len(Tail(T)) = Len(T) - 1
    BY <1>2, HeadTailProperties, EmptySeq
  <1>4. Head(T).width \in Nat
    BY <1>3 DEF Item
  <1> QED
    BY <1>2, <1>3, <1>4 DEF T

LEMMA SyscallStep ==
    ASSUME Types, LogComplete, NEW c \in Contexts, wrapped_syscall(c)
    PROVE  Types' /\ LogComplete'
  <1>1. PICK n \in calls[c].names :
           /\ todo' = [todo EXCEPT ![c] = <<NrItem(n)>>]
           /\ record' = [record EXCEPT ![c] = Append(@, NrItem(n))]
    BY Zenon DEF wrapped_syscall
  <1> DEFINE x == NrItem(n)
  <1>2. x \in Item
    <2>1. n \in Names
      BY DEF Types, Names
    <2> QED
      BY <2>1, NrType
  <1> HIDE DEF x
  <1>3. /\ todo' = [todo EXCEPT ![c] = <<x>>]
        /\ record' = [record EXCEPT ![c] = Append(@, x)]
    BY <1>1, SMTT(30) DEF x
  <1>4. /\ pc[c] = "user" /\ pc' = [pc EXCEPT ![c] = "load"]
        /\ ncalls' = [ncalls EXCEPT ![c] = @ + 1]
        /\ UNCHANGED <<calls, log, loaded, logger_sz>>
    BY DEF wrapped_syscall, At, Goto
  <1>5. record[c] \in Seq(Item) /\ <<x>> \in Seq(Item) /\ log \in Seq(Entry)
    BY <1>2 DEF Types
  <1>6. Append(record[c], x) = record[c] \o <<x>> /\ Append(record[c], x) \in Seq(Item)
    BY <1>2, <1>5, AppendIsConcat, AppendProperties, SMTT(30)
  <1>7. Types'
    BY <1>2, <1>3, <1>4, <1>5, <1>6, SMTT(30) DEF Types
  <1>8. ASSUME NEW d \in Contexts PROVE Complete(d)'
    <2>1. CASE d = c
      <3>1. todo[c] = <<>> /\ Told(log, record[c], <<>>, c)
        BY <1>4, CompleteIs DEF Complete
      <3>2. Told(log, record[c] \o <<x>>, <<x>>, c)
        BY <1>5, <3>1, ToldMore, Zenon
      <3>3. todo'[c] = <<x>> /\ record'[c] = record[c] \o <<x>> /\ pc'[c] = "load" /\ log' = log
        BY <1>3, <1>4, <1>6 DEF Types
      <3>4. <<x>> # <<>>
        OBVIOUS
      <3> QED
        BY <2>1, <3>2, <3>3, <3>4, SMTT(30) DEF Complete
    <2>2. CASE d # c
      <3>1. todo'[d] = todo[d] /\ record'[d] = record[d] /\ pc'[d] = pc[d] /\ log' = log
        BY <1>3, <1>4, <2>2 DEF Types
      <3> QED
        BY <3>1, CompleteIs, CompleteKept, SMTT(30)
    <2> QED
      BY <2>1, <2>2, SMTT(30)
  <1> QED
    BY <1>7, <1>8, CompleteNext

LEMMA ExecuteStep ==
    ASSUME Types, LogComplete, NEW c \in Contexts, Execute(c)
    PROVE  Types' /\ LogComplete'
  <1>1. PICK o \in Outcomes(name[c]) :
           /\ todo' = [todo EXCEPT ![c] = post_handler(name[c], o)]
           /\ record' = [record EXCEPT ![c] = @ \o post_handler(name[c], o)]
    BY Zenon DEF Execute
  <1> DEFINE h == post_handler(name[c], o)
  <1>2. h \in Seq(Item) /\ Len(h) >= 1
    BY HandlerType DEF Execute
  <1> HIDE DEF h
  <1>3. /\ todo' = [todo EXCEPT ![c] = h]
        /\ record' = [record EXCEPT ![c] = @ \o h]
    BY <1>1, SMTT(30) DEF h
  <1>4. /\ pc[c] = "exec" /\ pc' = [pc EXCEPT ![c] = "load"]
        /\ UNCHANGED <<calls, log, loaded, logger_sz, ncalls>>
    BY DEF Execute, At, Goto
  <1>5. record[c] \in Seq(Item) /\ log \in Seq(Entry)
    BY DEF Types
  <1>6. record[c] \o h \in Seq(Item)
    BY <1>2, <1>5, ConcatProperties
  <1>7. Types'
    BY <1>2, <1>3, <1>4, <1>5, <1>6 DEF Types
  <1>8. ASSUME NEW d \in Contexts PROVE Complete(d)'
    <2>1. CASE d = c
      <3>1. todo[c] = <<>> /\ Told(log, record[c], <<>>, c)
        BY <1>4, CompleteIs DEF Complete
      <3>2. Told(log, record[c] \o h, h, c)
        BY <1>2, <1>5, <3>1, ToldMore, SMTT(30)
      <3>3. todo'[c] = h /\ record'[c] = record[c] \o h /\ pc'[c] = "load" /\ log' = log
        BY <1>3, <1>4, SMTT(30) DEF Types
      <3>4. h # <<>>
        BY <1>2
      <3> QED
        BY <2>1, <3>2, <3>3, <3>4, SMTT(30) DEF Complete
    <2>2. CASE d # c
      <3>1. todo'[d] = todo[d] /\ record'[d] = record[d] /\ pc'[d] = pc[d] /\ log' = log
        BY <1>3, <1>4, <2>2 DEF Types
      <3> QED
        BY <3>1, CompleteIs, CompleteKept, SMTT(30)
    <2> QED
      BY <2>1, <2>2
  <1> QED
    BY <1>7, <1>8, CompleteNext

LEMMA WriteStep ==
    ASSUME Types, LogComplete, NEW c \in Contexts, WriteItem(c)
    PROVE  Types' /\ LogComplete'
  <1> DEFINE T == todo[c]
             x == Head(T)
  <1>1. /\ pc[c] = "write" /\ log' = Append(log, [by |-> c, item |-> x])
        /\ todo' = [todo EXCEPT ![c] = Tail(T)]
        /\ pc' = [pc EXCEPT ![c] = AfterWrite(c)]
        /\ UNCHANGED <<calls, loaded, logger_sz, ncalls, record>>
    BY DEF WriteItem, At, Goto
  <1>2. /\ T \in Seq(Item) /\ T # <<>> /\ Len(T) \in Nat /\ Len(T) >= 1 /\ x \in Item
        /\ Tail(T) \in Seq(Item) /\ Len(Tail(T)) = Len(T) - 1
    BY <1>1, NonEmpty
  <1>3. AfterWrite(c) \in {"user", "load", "exec"} /\ (AfterWrite(c) = "load" <=> Len(T) > 1)
    BY DEF AfterWrite
  <1> HIDE DEF T, x
  <1>4. log \in Seq(Entry) /\ record[c] \in Seq(Item)
    BY SMTT(30) DEF Types
  <1>5. log' \in Seq(Entry)
    BY <1>1, <1>2, <1>4, Written, SMTT(30) DEF Grown
  <1>6. Types'
    BY <1>1, <1>2, <1>3, <1>5 DEF Types
  <1>7. ASSUME NEW d \in Contexts PROVE Complete(d)'
    <2>0. Told(log, record[d], todo[d], d)
      BY CompleteIs DEF Complete
    <2>1. CASE d = c
      <3>1. Told(log, record[c], T, c)
        BY <2>0, <2>1 DEF T
      <3>2. Told(log', record[c], Tail(T), c)
        BY <1>1, <1>2, <1>4, <3>1, ToldWritten, Zenon DEF x
      <3>3. todo'[c] = Tail(T) /\ pc'[c] = AfterWrite(c) /\ record'[c] = record[c]
        BY <1>1 DEF Types
      <3>4. Tail(T) = <<>> <=> ~(Len(T) > 1)
        BY <1>2, EmptySeq
      <3>5. pc'[c] \in {"user", "exec"} <=> todo'[c] = <<>>
        BY <1>3, <3>3, <3>4, SMTT(30)
      <3> QED
        BY <2>1, <3>2, <3>3, <3>5, SMTT(30) DEF Complete
    <2>2. CASE d # c
      <3>1. todo'[d] = todo[d] /\ record'[d] = record[d] /\ pc'[d] = pc[d]
        BY <1>1, <2>2 DEF Types
      <3>2. Told(log', record[d], todo[d], d)
        BY <1>1, <1>2, <1>4, <2>0, <2>2, ToldOther, Zenon
      <3> QED
        BY <3>1, <3>2, CompleteIs DEF Complete
    <2> QED
      BY <2>1, <2>2
  <1> QED
    BY <1>6, <1>7, CompleteNext, SMTT(30)

(* The steps of logger_sz += sz, and those that leave the log alone. *)
LEMMA CountStep ==
    ASSUME Types, LogComplete, NEW c \in Contexts, LoadSz(c) \/ StoreSz(c)
    PROVE  Types' /\ LogComplete'
  <1>1. /\ pc[c] \notin {"user", "exec"}
        /\ \E l \in {"store", "write"} : pc' = [pc EXCEPT ![c] = l]
        /\ UNCHANGED <<calls, todo, ncalls, log, record>>
    BY DEF LoadSz, StoreSz, At, Goto
  <1>2. Head(todo[c]).width \in Nat
    BY <1>1, NonEmpty
  <1>3. loaded' \in [Contexts -> Nat] /\ logger_sz' \in Nat
    <2>1. CASE LoadSz(c)
      BY <2>1 DEF LoadSz, Types
    <2>2. CASE StoreSz(c)
      <3>1. loaded' = loaded /\ logger_sz' = loaded[c] + Head(todo[c]).width
        BY <2>2 DEF StoreSz
      <3> QED
        BY <1>2, <3>1 DEF Types
    <2> QED
      BY <2>1, <2>2
  <1>4. Types'
    BY <1>1, <1>3, Zenon DEF Types
  <1>5. ASSUME NEW d \in Contexts PROVE Complete(d)'
    <2>1. pc'[d] \in {"user", "exec"} <=> pc[d] \in {"user", "exec"}
      BY <1>1 DEF Types
    <2> QED
      BY <1>1, <2>1, CompleteIs, CompleteKept
  <1> QED
    BY <1>4, <1>5, CompleteNext, SMTT(30)

LEMMA QuietStep ==
    ASSUME Types, LogComplete,
           UNCHANGED <<calls, pc, todo, loaded, ncalls, log, logger_sz, record>>
    PROVE  Types' /\ LogComplete'
  <1>1. Types'
    BY SMTT(30) DEF Types
  <1>2. \A d \in Contexts : Complete(d)'
    BY CompleteIs, CompleteKept
  <1> QED
    BY <1>1, <1>2, CompleteNext

LEMMA LogInvariant == Spec => [](Types /\ LogComplete)
  <1>1. ASSUME Types /\ LogComplete, [Next]_vars PROVE (Types /\ LogComplete)'
    <2>1. CASE UNCHANGED vars
      BY <1>1, <2>1, QuietStep DEF vars
    <2>2. ASSUME NEW c \in Contexts, WriteFails(c) \/ ExecuteUnsupported(c)
          PROVE  (Types /\ LogComplete)'
      BY <1>1, <2>2, QuietStep DEF WriteFails, ExecuteUnsupported
    <2>3. ASSUME NEW t \in Threads, Deliver(t) \/ SigReturn(t) PROVE (Types /\ LogComplete)'
      BY <1>1, <2>3, QuietStep DEF Deliver, SigReturn
    <2>4. ASSUME NEW c \in Contexts, wrapped_syscall(c) \/ LoadSz(c) \/ StoreSz(c)
                                        \/ WriteItem(c) \/ Execute(c)
          PROVE  (Types /\ LogComplete)'
      BY <1>1, <2>4, SyscallStep, CountStep, WriteStep, ExecuteStep
    <2> QED
      BY <1>1, <2>1, <2>2, <2>3, <2>4, SMTT(30) DEF Next
  <1> QED
    BY <1>1, LogInit, PTL DEF Spec

(* However threads and signal handlers interleave in wrapped_syscall, the  *)
(* items of each of them are in the log in order, with none missing and    *)
(* none twice.                                                             *)
THEOREM ItemsComplete == Spec => []LogComplete
  BY LogInvariant, PTL

-----------------------------------------------------------------------------
(* The bytes of the log *)

(* The w bytes of the item x. *)
Block(x, w) == {x} \X (1 .. w)
BytesOf(L) == UNION {Block(k, L[k].item.width) : k \in DOMAIN L}
FlyingOf(P, T) == UNION {Block(c, Head(T[c]).width) : c \in {d \in Contexts : P[d] = "write"}}

LEMMA BlockSize ==
    ASSUME NEW x, NEW w \in Nat
    PROVE  IsFiniteSet(Block(x, w)) /\ Cardinality(Block(x, w)) = w
  <1>1. IsFiniteSet({x}) /\ Cardinality({x}) = 1
    BY FS_Singleton
  <1>2. IsFiniteSet(1 .. w) /\ Cardinality(1 .. w) = w
    BY FS_Interval
  <1> DEFINE S == {x}
             W == 1 .. w
  <1> HIDE DEF S, W
  <1>3. IsFiniteSet(S \X W) /\ Cardinality(S \X W) = Cardinality(S) * Cardinality(W)
    BY <1>1, <1>2, FS_Product, Zenon DEF S, W
  <1> QED
    BY <1>1, <1>2, <1>3 DEF Block, S, W

LEMMA BlocksApart ==
    ASSUME NEW x, NEW y, x # y, NEW w, NEW v
    PROVE  Block(x, w) \cap Block(y, v) = {}
  BY DEF Block

LEMMA Apart ==
    ASSUME NEW S, NEW w \in Nat, NEW x, IsFiniteSet(S), S \cap Block(x, w) = {}
    PROVE  /\ IsFiniteSet(S \cup Block(x, w))
           /\ Cardinality(S \cup Block(x, w)) = Cardinality(S) + w
           /\ Cardinality(S) \in Nat
  <1>1. IsFiniteSet(Block(x, w)) /\ Cardinality(Block(x, w)) = w
    BY BlockSize
  <1>2. /\ IsFiniteSet(S \cup Block(x, w))
        /\ Cardinality(S \cup Block(x, w))
              = Cardinality(S) + Cardinality(Block(x, w)) - Cardinality(S \cap Block(x, w))
    BY <1>1, FS_Union
  <1>3. Cardinality(S \cap Block(x, w)) = 0
    BY FS_EmptySet
  <1>4. Cardinality(S) \in Nat
    BY FS_CardinalityType
  <1> QED
    BY <1>1, <1>2, <1>3, <1>4

(* The file grows by the bytes of the item. *)
LEMMA BytesMore ==
    ASSUME NEW L \in Seq(Entry), NEW c \in Contexts, NEW x \in Item, NEW M, Grown(L, c, x, M)
    PROVE  /\ BytesOf(M) = BytesOf(L) \cup Block(Len(L) + 1, x.width)
           /\ BytesOf(L) \cap Block(Len(L) + 1, x.width) = {}
  <1> DEFINE n == Len(L)
  <1>1. /\ n \in Nat /\ DOMAIN L = 1 .. n /\ DOMAIN M = 1 .. n + 1
        /\ M[n + 1].item = x
        /\ \A k \in 1 .. n : M[k] = L[k]
    BY DEF Grown
  <1>2. DOMAIN M = DOMAIN L \cup {n + 1} /\ n + 1 \notin DOMAIN L
    BY <1>1
  <1>3. ASSUME NEW z \in BytesOf(M) PROVE z \in BytesOf(L) \cup Block(n + 1, x.width)
    <2>1. PICK k \in DOMAIN M : z \in Block(k, M[k].item.width)
      BY DEF BytesOf
    <2> QED
      BY <1>1, <1>2, <2>1 DEF BytesOf
  <1>4. ASSUME NEW z \in BytesOf(L) PROVE z \in BytesOf(M)
    <2>1. PICK k \in DOMAIN L : z \in Block(k, L[k].item.width)
      BY DEF BytesOf
    <2> QED
      BY <1>1, <1>2, <2>1 DEF BytesOf
  <1>5. Block(n + 1, x.width) \subseteq BytesOf(M)
    BY <1>1, <1>2, SMTT(30) DEF BytesOf
  <1>6. ASSUME NEW z \in BytesOf(L), z \in Block(n + 1, x.width) PROVE FALSE
    <2>1. PICK k \in DOMAIN L : z \in Block(k, L[k].item.width)
      BY DEF BytesOf
    <2>2. k # n + 1
      BY <1>2
    <2> QED
      BY <1>6, <2>1, <2>2, BlocksApart
  <1> QED
    BY <1>3, <1>4, <1>5, <1>6, SMTT(30)

LEMMA FlyingSame ==
    ASSUME NEW P, NEW Q, NEW T, NEW U,
           \A d \in Contexts : /\ P[d] = "write" <=> Q[d] = "write"
                               /\ P[d] = "write" => T[d] = U[d]
    PROVE  FlyingOf(P, T) = FlyingOf(Q, U)
  <1>1. ASSUME NEW z \in FlyingOf(P, T) PROVE z \in FlyingOf(Q, U)
    <2>1. PICK d \in Contexts : P[d] = "write" /\ z \in Block(d, Head(T[d]).width)
      BY DEF FlyingOf
    <2>2. Q[d] = "write" /\ z \in Block(d, Head(U[d]).width)
      BY <2>1
    <2> QED
      BY <2>2 DEF FlyingOf
  <1>2. ASSUME NEW z \in FlyingOf(Q, U) PROVE z \in FlyingOf(P, T)
    <2>1. PICK d \in Contexts : Q[d] = "write" /\ z \in Block(d, Head(U[d]).width)
      BY DEF FlyingOf
    <2>2. P[d] = "write" /\ z \in Block(d, Head(T[d]).width)
      BY <2>1, SMTT(30)
    <2> QED
      BY <2>2 DEF FlyingOf
  <1> QED
    BY <1>1, <1>2

(* From P and T to Q and U the item of c takes off, or from Q and U to P   *)
(* and T it lands, and nothing else is different.                          *)
TakesOff(P, T, Q, U, c) ==
    /\ P[c] # "write" /\ Q[c] = "write"
    /\ \A d \in Contexts \ {c} : (P[d] = "write" <=> Q[d] = "write") /\ T[d] = U[d]

LEMMA FlyingMore ==
    ASSUME NEW P, NEW Q, NEW T, NEW U, NEW c \in Contexts, TakesOff(P, T, Q, U, c)
    PROVE  /\ FlyingOf(Q, U) = FlyingOf(P, T) \cup Block(c, Head(U[c]).width)
           /\ FlyingOf(P, T) \cap Block(c, Head(U[c]).width) = {}
  <1> DEFINE w == Head(U[c]).width
  <1> USE DEF TakesOff
  <1>1. ASSUME NEW z \in FlyingOf(P, T)
        PROVE  z \in FlyingOf(Q, U) /\ z \notin Block(c, w)
    <2>1. PICK d \in Contexts : P[d] = "write" /\ z \in Block(d, Head(T[d]).width)
      BY SMTT(30) DEF FlyingOf
    <2>2. d # c /\ Q[d] = "write" /\ z \in Block(d, Head(U[d]).width)
      BY <2>1, SMTT(30)
    <2>3. z \notin Block(c, w)
      BY <2>1, <2>2, BlocksApart, SMTT(30)
    <2> QED
      BY <2>2, <2>3 DEF FlyingOf
  <1>2. ASSUME NEW z \in FlyingOf(Q, U) PROVE z \in FlyingOf(P, T) \cup Block(c, w)
    <2>1. PICK d \in Contexts : Q[d] = "write" /\ z \in Block(d, Head(U[d]).width)
      BY DEF FlyingOf
    <2>2. CASE d = c
      BY <2>1, <2>2
    <2>3. CASE d # c
      <3>1. P[d] = "write" /\ z \in Block(d, Head(T[d]).width)
        BY <2>1, <2>3
      <3> QED
        BY <3>1 DEF FlyingOf
    <2> QED
      BY <2>2, <2>3
  <1>3. Block(c, w) \subseteq FlyingOf(Q, U)
    BY DEF FlyingOf
  <1> QED
    BY <1>1, <1>2, <1>3

-----------------------------------------------------------------------------
(* logger_sz *)

(* Only one context has made calls. *)
Solo == \E c \in Contexts : \A d \in Contexts \ {c} : ncalls[d] = 0

BytesFinite == IsFiniteSet(FileBytes) /\ IsFiniteSet(InFlight)

(* logger_sz and what has been loaded of it, against the n bytes of the    *)
(* log.                                                                    *)
Counted(n) ==
    /\ logger_sz <= n
    /\ \A c \in Contexts : pc[c] = "store" => loaded[c] <= n
    /\ \A c \in Contexts : ncalls[c] = 0 => pc[c] = "user"
    /\ Solo => logger_sz = n
    /\ Solo => \A c \in Contexts : pc[c] = "store" => loaded[c] = n

SizeInv == BytesFinite /\ Counted(LogSize)

LEMMA SizesAre ==
    /\ FileBytes = BytesOf(log) /\ InFlight = FlyingOf(pc, todo)
    /\ FileBytes' = BytesOf(log') /\ InFlight' = FlyingOf(pc', todo')
    /\ LogSize = Cardinality(FileBytes) + Cardinality(InFlight)
    /\ LogSize' = Cardinality(FileBytes') + Cardinality(InFlight')
  BY DEF FileBytes, InFlight, LogSize, BytesOf, FlyingOf, Block

LEMMA SizeNat == BytesFinite => LogSize \in Nat
  BY FS_CardinalityType DEF BytesFinite, LogSize

LEMMA SizeInit == Init => SizeInv
  <1> SUFFICES ASSUME Init PROVE SizeInv
    OBVIOUS
  <1>1. log = <<>> /\ DOMAIN log = {} /\ \A c \in Contexts : pc[c] = "user"
    BY DEF Init
  <1>2. FileBytes = {} /\ InFlight = {}
    BY <1>1 DEF FileBytes, InFlight
  <1>3. IsFiniteSet({}) /\ Cardinality({}) = 0
    BY FS_EmptySet
  <1>4. LogSize = 0 /\ BytesFinite
    BY <1>2, <1>3 DEF LogSize, BytesFinite
  <1>5. Counted(0)
    BY <1>1 DEF Init, Counted
  <1> QED
    BY <1>4, <1>5 DEF SizeInv

(* A step that moves no byte. *)
LEMMA SizeSame ==
    ASSUME BytesFinite, log' = log,
           \A d \in Contexts : /\ pc[d] = "write" <=> pc'[d] = "write"
                               /\ pc[d] = "write" => todo[d] = todo'[d]
    PROVE  BytesFinite' /\ LogSize' = LogSize
  <1>1. InFlight' = InFlight
    BY SizesAre, FlyingSame
  <1>2. FileBytes' = FileBytes
    BY SizesAre
  <1> QED
    BY <1>1, <1>2, SMTT(30) DEF BytesFinite, LogSize

(* The item is counted: its bytes are on their way. *)
LEMMA SizeStored ==
    ASSUME Types, LogComplete, BytesFinite, NEW c \in Contexts, StoreSz(c)
    PROVE  BytesFinite' /\ LogSize' = LogSize + Head(todo[c]).width
  <1> DEFINE w == Head(todo[c]).width
  <1>1. /\ pc[c] = "store" /\ pc' = [pc EXCEPT ![c] = "write"] /\ todo' = todo /\ log' = log
    BY DEF StoreSz, At, Goto
  <1>2. w \in Nat
    BY <1>1, NonEmpty, SMTT(30)
  <1>3. /\ pc[c] # "write" /\ pc'[c] = "write" /\ w = Head(todo'[c]).width
        /\ \A d \in Contexts \ {c} : (pc[d] = "write" <=> pc'[d] = "write") /\ todo[d] = todo'[d]
    BY <1>1, SMTT(30) DEF Types
  <1>4. InFlight' = InFlight \cup Block(c, w) /\ InFlight \cap Block(c, w) = {}
    <2>0. TakesOff(pc, todo, pc', todo', c)
      BY <1>3, SMTT(30) DEF TakesOff
    <2>1. /\ FlyingOf(pc', todo') = FlyingOf(pc, todo) \cup Block(c, Head(todo'[c]).width)
          /\ FlyingOf(pc, todo) \cap Block(c, Head(todo'[c]).width) = {}
      BY <2>0, FlyingMore, SMTT(30)
    <2> QED
      BY <1>3, <2>1, SizesAre
  <1> HIDE DEF w
  <1>5. /\ IsFiniteSet(InFlight') /\ Cardinality(InFlight') = Cardinality(InFlight) + w
        /\ Cardinality(InFlight) \in Nat
    BY <1>2, <1>4, Apart, SMTT(30) DEF BytesFinite
  <1>6. FileBytes' = FileBytes /\ Cardinality(FileBytes) \in Nat
    BY <1>1, SizesAre, FS_CardinalityType, SMTT(30) DEF BytesFinite
  <1>7. LogSize' = LogSize + w
    BY <1>2, <1>5, <1>6, SizesAre
  <1> QED
    BY <1>5, <1>6, <1>7, SMTT(30) DEF BytesFinite, w

(* The item is written: the bytes on their way are in the file. *)
LEMMA SizeWritten ==
    ASSUME Types, LogComplete, BytesFinite, NEW c \in Contexts, WriteItem(c)
    PROVE  BytesFinite' /\ LogSize' = LogSize
  <1> DEFINE x == Head(todo[c])
             w == x.width
             k == Len(log) + 1
  <1>1. /\ pc[c] = "write" /\ log' = Append(log, [by |-> c, item |-> x])
        /\ todo' = [todo EXCEPT ![c] = Tail(todo[c])]
        /\ pc' = [pc EXCEPT ![c] = AfterWrite(c)]
    BY DEF WriteItem, At, Goto
  <1>2. x \in Item /\ w \in Nat /\ log \in Seq(Entry)
    BY <1>1, NonEmpty, Zenon DEF Types
  <1>3. AfterWrite(c) # "write"
    BY DEF AfterWrite
  <1>4. /\ pc'[c] # "write" /\ pc[c] = "write"
        /\ \A d \in Contexts \ {c} : (pc'[d] = "write" <=> pc[d] = "write") /\ todo'[d] = todo[d]
    BY <1>1, <1>3, SMTT(30) DEF Types
  <1>5. InFlight = InFlight' \cup Block(c, w) /\ InFlight' \cap Block(c, w) = {}
    <2>0. TakesOff(pc', todo', pc, todo, c)
      BY <1>4, SMTT(30) DEF TakesOff
    <2>1. /\ FlyingOf(pc, todo) = FlyingOf(pc', todo') \cup Block(c, Head(todo[c]).width)
          /\ FlyingOf(pc', todo') \cap Block(c, Head(todo[c]).width) = {}
      BY <2>0, FlyingMore
    <2> QED
      BY <2>1, SizesAre, SMTT(30)
  <1>6. Grown(log, c, x, log')
    BY <1>1, <1>2, Written, SMTT(30)
  <1>7. FileBytes' = FileBytes \cup Block(k, w) /\ FileBytes \cap Block(k, w) = {}
    BY <1>2, <1>6, SizesAre, BytesMore
  <1> HIDE DEF x, w, k
  <1>8. IsFiniteSet(InFlight')
    BY <1>5, FS_Subset DEF BytesFinite
  <1>9. Cardinality(InFlight) = Cardinality(InFlight') + w /\ Cardinality(InFlight') \in Nat
    BY <1>2, <1>5, <1>8, Apart, Zenon
  <1>10. /\ IsFiniteSet(FileBytes') /\ Cardinality(FileBytes') = Cardinality(FileBytes) + w
         /\ Cardinality(FileBytes) \in Nat
    BY <1>2, <1>7, Apart DEF BytesFinite
  <1>11. LogSize' = LogSize
    BY <1>2, <1>9, <1>10, SizesAre
  <1> QED
    BY <1>8, <1>10, <1>11, SMTT(30) DEF BytesFinite

(* Calls are only ever added. *)
LEMMA SoloBefore ==
    ASSUME \A d \in Contexts : ncalls'[d] = 0 => ncalls[d] = 0, Solo'
    PROVE  Solo
  BY DEF Solo

(* A step of c that neither loads nor stores logger_sz. *)
LEMMA CountedKept ==
    ASSUME Types, NEW n, Counted(n), logger_sz' = logger_sz, loaded' = loaded,
           \A d \in Contexts : ncalls'[d] = 0 => ncalls[d] = 0 /\ pc'[d] = pc[d],
           \A d \in Contexts : pc'[d] = "store" => pc[d] = "store"
    PROVE  /\ logger_sz' <= n
           /\ \A c \in Contexts : pc'[c] = "store" => loaded'[c] <= n
           /\ \A c \in Contexts : ncalls'[c] = 0 => pc'[c] = "user"
           /\ Solo' => logger_sz' = n
           /\ Solo' => \A c \in Contexts : pc'[c] = "store" => loaded'[c] = n
  <1>1. Solo' => Solo
    BY SoloBefore, SMTT(30)
  <1> QED
    BY <1>1 DEF Counted

(* A step that counts nothing and loses no byte keeps the invariant. *)
LEMMA SizeKept ==
    ASSUME Types, SizeInv, BytesFinite', LogSize' = LogSize,
           logger_sz' = logger_sz, loaded' = loaded,
           \A d \in Contexts : ncalls'[d] = 0 => ncalls[d] = 0 /\ pc'[d] = pc[d],
           \A d \in Contexts : pc'[d] = "store" => pc[d] = "store"
    PROVE  SizeInv'
  <1> DEFINE n == LogSize
  <1>1. Counted(n) /\ LogSize' = n
    BY SMTT(30) DEF SizeInv
  <1> HIDE DEF n
  <1>2. /\ logger_sz' <= n
        /\ \A c \in Contexts : pc'[c] = "store" => loaded'[c] <= n
        /\ \A c \in Contexts : ncalls'[c] = 0 => pc'[c] = "user"
        /\ Solo' => logger_sz' = n
        /\ Solo' => \A c \in Contexts : pc'[c] = "store" => loaded'[c] = n
    BY <1>1, CountedKept, SMTT(30)
  <1> QED
    BY <1>1, <1>2 DEF SizeInv, Counted

LEMMA SyscallSize ==
    ASSUME Types, LogComplete, SizeInv, NEW c \in Contexts, wrapped_syscall(c)
    PROVE  SizeInv'
  <1>1. /\ pc[c] = "user" /\ pc' = [pc EXCEPT ![c] = "load"]
        /\ ncalls' = [ncalls EXCEPT ![c] = @ + 1]
        /\ log' = log /\ logger_sz' = logger_sz /\ loaded' = loaded
    BY SMTT(30) DEF wrapped_syscall, At, Goto
  <1>2. \A d \in Contexts \ {c} : todo'[d] = todo[d]
    BY DEF wrapped_syscall, Types
  <1>3. \A d \in Contexts : /\ ncalls'[d] = 0 => ncalls[d] = 0 /\ pc'[d] = pc[d]
                            /\ pc'[d] = "store" => pc[d] = "store"
                            /\ pc[d] = "write" <=> pc'[d] = "write"
                            /\ pc[d] = "write" => todo[d] = todo'[d]
    BY <1>1, <1>2 DEF Types
  <1>4. BytesFinite' /\ LogSize' = LogSize
    BY <1>1, <1>3, SizeSame, SMTT(30) DEF SizeInv
  <1> QED
    BY <1>1, <1>3, <1>4, SizeKept, SMTT(30)

LEMMA ExecuteSize ==
    ASSUME Types, LogComplete, SizeInv, NEW c \in Contexts, Execute(c)
    PROVE  SizeInv'
  <1>1. /\ pc[c] = "exec" /\ pc' = [pc EXCEPT ![c] = "load"]
        /\ ncalls' = ncalls /\ log' = log /\ logger_sz' = logger_sz /\ loaded' = loaded
    BY DEF Execute, At, Goto
  <1>2. \A d \in Contexts \ {c} : todo'[d] = todo[d]
    BY DEF Execute, Types
  <1>3. ncalls[c] # 0
    BY <1>1 DEF SizeInv, Counted
  <1>4. \A d \in Contexts : /\ ncalls'[d] = 0 => ncalls[d] = 0 /\ pc'[d] = pc[d]
                            /\ pc'[d] = "store" => pc[d] = "store"
                            /\ pc[d] = "write" <=> pc'[d] = "write"
                            /\ pc[d] = "write" => todo[d] = todo'[d]
    BY <1>1, <1>2, <1>3, SMTT(30) DEF Types
  <1>5. BytesFinite' /\ LogSize' = LogSize
    BY <1>1, <1>4, SizeSame, SMTT(30) DEF SizeInv
  <1> QED
    BY <1>1, <1>4, <1>5, SizeKept, SMTT(30)

LEMMA WriteSize ==
    ASSUME Types, LogComplete, SizeInv, NEW c \in Contexts, WriteItem(c)
    PROVE  SizeInv'
  <1>1. /\ pc[c] = "write" /\ pc' = [pc EXCEPT ![c] = AfterWrite(c)]
        /\ ncalls' = ncalls /\ logger_sz' = logger_sz /\ loaded' = loaded
    BY DEF WriteItem, At, Goto
  <1>2. AfterWrite(c) # "store"
    BY DEF AfterWrite
  <1>3. ncalls[c] # 0
    BY <1>1 DEF SizeInv, Counted
  <1>4. \A d \in Contexts : /\ ncalls'[d] = 0 => ncalls[d] = 0 /\ pc'[d] = pc[d]
                            /\ pc'[d] = "store" => pc[d] = "store"
    BY <1>1, <1>2, <1>3 DEF Types
  <1>5. BytesFinite' /\ LogSize' = LogSize
    BY SizeWritten DEF SizeInv
  <1> QED
    BY <1>1, <1>4, <1>5, SizeKept, SMTT(30)

LEMMA QuietSize ==
    ASSUME Types, LogComplete, SizeInv,
           UNCHANGED <<calls, pc, todo, loaded, ncalls, log, logger_sz, record>>
    PROVE  SizeInv'
  <1>1. BytesFinite' /\ LogSize' = LogSize
    BY SizeSame, SMTT(30) DEF SizeInv
  <1> QED
    BY <1>1, SizeKept, SMTT(30)

(* The load: what it reads is no more than the size. *)
LEMMA LoadSize ==
    ASSUME Types, LogComplete, SizeInv, NEW c \in Contexts, LoadSz(c)
    PROVE  SizeInv'
  <1>1. /\ pc[c] = "load" /\ pc' = [pc EXCEPT ![c] = "store"]
        /\ loaded' = [loaded EXCEPT ![c] = logger_sz]
        /\ ncalls' = ncalls /\ log' = log /\ logger_sz' = logger_sz /\ todo' = todo
    BY DEF LoadSz, At, Goto
  <1>2. \A d \in Contexts : pc[d] = "write" <=> pc'[d] = "write"
    BY <1>1 DEF Types
  <1>3. BytesFinite' /\ LogSize' = LogSize
    BY <1>1, <1>2, SizeSame DEF SizeInv
  <1> DEFINE n == LogSize
  <1>4. Counted(n) /\ LogSize' = n
    BY <1>3 DEF SizeInv
  <1> HIDE DEF n
  <1>5. Solo' => Solo
    BY <1>1, SoloBefore
  <1>6. ncalls[c] # 0
    BY <1>1, <1>4 DEF Counted
  <1>7. \A d \in Contexts : pc'[d] = "store" =>
           loaded'[d] = logger_sz \/ (pc[d] = "store" /\ loaded'[d] = loaded[d])
    BY <1>1 DEF Types
  <1>8. \A d \in Contexts : ncalls'[d] = 0 => ncalls[d] = 0 /\ pc'[d] = pc[d]
    BY <1>1, <1>6 DEF Types
  <1>9. \A d \in Contexts : pc'[d] = "store" => loaded'[d] <= n
    BY <1>4, <1>7 DEF Counted
  <1>10. Solo' => \A d \in Contexts : pc'[d] = "store" => loaded'[d] = n
    BY <1>4, <1>5, <1>7, SMTT(30) DEF Counted
  <1>11. Solo' => logger_sz' = n
    BY <1>1, <1>4, <1>5, SMTT(30) DEF Counted
  <1>12. logger_sz' <= n /\ \A d \in Contexts : ncalls'[d] = 0 => pc'[d] = "user"
    BY <1>1, <1>4, <1>8, SMTT(30) DEF Counted
  <1> QED
    BY <1>3, <1>4, <1>9, <1>10, <1>11, <1>12, SMTT(30) DEF SizeInv, Counted

(* The store: the size grows by the item, whatever has been lost. *)
LEMMA StoreSize ==
    ASSUME Types, LogComplete, SizeInv, NEW c \in Contexts, StoreSz(c)
    PROVE  SizeInv'
  <1> DEFINE n == LogSize
             w == Head(todo[c]).width
  <1>1. /\ pc[c] = "store" /\ pc' = [pc EXCEPT ![c] = "write"]
        /\ logger_sz' = loaded[c] + w /\ loaded' = loaded /\ ncalls' = ncalls
    BY DEF StoreSz, At, Goto
  <1>2. w \in Nat
    BY <1>1, NonEmpty
  <1>3. BytesFinite' /\ LogSize' = n + w
    BY SizeStored DEF SizeInv
  <1>4. Counted(n) /\ n \in Nat
    BY SizeNat DEF SizeInv
  <1> HIDE DEF n, w
  <1>5. loaded \in [Contexts -> Nat] /\ logger_sz \in Nat
    BY DEF Types
  <1>6. ncalls[c] # 0
    BY <1>1, <1>4, SMTT(30) DEF Counted
  <1>7. loaded[c] <= n
    BY <1>1, <1>4 DEF Counted
  <1>8. logger_sz' <= n + w
    BY <1>1, <1>2, <1>4, <1>5, <1>7, SMTT(30)
  <1>9. ASSUME NEW d \in Contexts, pc'[d] = "store" PROVE loaded'[d] <= n + w
    <2>1. pc[d] = "store"
      BY <1>1, <1>9 DEF Types
    <2>2. loaded[d] <= n
      BY <1>4, <2>1 DEF Counted
    <2> QED
      BY <1>1, <1>2, <1>4, <1>5, <2>2, SMTT(30)
  <1>10. \A d \in Contexts : ncalls'[d] = 0 => pc'[d] = "user"
    BY <1>1, <1>4, <1>6 DEF Types, Counted
  <1>11. ASSUME Solo' PROVE logger_sz' = n + w /\ \A d \in Contexts : pc'[d] # "store"
    <2>1. Solo
      BY <1>1, <1>11, SoloBefore, SMTT(30)
    <2>2. loaded[c] = n
      BY <1>1, <1>4, <2>1 DEF Counted
    <2>3. \A d \in Contexts \ {c} : ncalls[d] = 0
      BY <1>6, <2>1 DEF Solo
    <2>4. \A d \in Contexts \ {c} : pc[d] = "user"
      BY <1>4, <2>3 DEF Counted
    <2>5. \A d \in Contexts : pc'[d] # "store"
      BY <1>1, <2>4 DEF Types
    <2> QED
      BY <1>1, <2>2, <2>5, SMTT(30)
  <1> QED
    BY <1>3, <1>8, <1>9, <1>10, <1>11, SMTT(30) DEF SizeInv, Counted

LEMMA SizeInvariant == Spec => [](Types /\ LogComplete /\ SizeInv)
  <1>1. ASSUME Types, LogComplete, SizeInv, [Next]_vars PROVE SizeInv'
    <2>1. CASE UNCHANGED vars
      BY <1>1, <2>1, QuietSize, SMTT(30) DEF vars
    <2>2. ASSUME NEW c \in Contexts, WriteFails(c) \/ ExecuteUnsupported(c) PROVE SizeInv'
      BY <1>1, <2>2, QuietSize, SMTT(30) DEF WriteFails, ExecuteUnsupported
    <2>3. ASSUME NEW t \in Threads, Deliver(t) \/ SigReturn(t) PROVE SizeInv'
      BY <1>1, <2>3, QuietSize, SMTT(30) DEF Deliver, SigReturn
    <2>4. ASSUME NEW c \in Contexts, wrapped_syscall(c) \/ LoadSz(c) \/ StoreSz(c)
                                        \/ WriteItem(c) \/ Execute(c)
          PROVE  SizeInv'
      BY <1>1, <2>4, SyscallSize, LoadSize, StoreSize, WriteSize, ExecuteSize, SMTT(30)
    <2> QED
      BY <1>1, <2>1, <2>2, <2>3, <2>4, SMTT(30) DEF Next
  <1> QED
    BY <1>1, LogInvariant, SizeInit, PTL DEF Spec

(* logger_sz never counts a byte that is neither in the log nor on its way *)
(* there, however many updates are lost in logger_sz += sz; and it is      *)
(* exact as long as one context only makes calls.                          *)
THEOREM SizeRight == Spec => []SizeNotOverstated
  <1>1. SizeInv => SizeNotOverstated
    BY DEF SizeInv, Counted, SizeNotOverstated, Solo
  <1> QED
    BY <1>1, SizeInvariant, PTL
=============================================================================
