---------------------------- MODULE StreamProofs ----------------------------
(***************************************************************************)
(* core/loader/logger.c for any number of threads and any buffer: a flush  *)
(* by another thread that meets no append loses or repeats no byte.        *)
(* StreamKept needs, besides the invariant of LoggerProofs, where buffer,  *)
(* log and the block under way join (StreamInv).                           *)
(***************************************************************************)
EXTENDS LoggerProofs

(* The bytes of a log ascend, within an item and from item to item; they   *)
(* are all below n; and all bytes below n are among them.                  *)
Ascending(f) ==
    \A k, m \in DOMAIN f :
        \A i \in DOMAIN f[k].bytes, j \in DOMAIN f[m].bytes :
            k < m \/ (k = m /\ i < j) => f[k].bytes[i] < f[m].bytes[j]

Below(f, n) ==
    \A k \in DOMAIN f : \A i \in DOMAIN f[k].bytes : f[k].bytes[i] \in 0 .. n - 1

Covers(f, n) ==
    \A v \in 0 .. n - 1 : \E k \in DOMAIN f : \E i \in DOMAIN f[k].bytes : f[k].bytes[i] = v

(* From place a on, b holds the n bytes of a stream that begin with byte v. *)
RunIn(b, a, n, v) == \A i \in 0 .. n - 1 : b[a + i] = v + i

(* The arithmetic that the steps below keep needing. *)
LEMMA ZeroFact == \A n \in Nat : 0 <= n /\ n - 0 = n
  OBVIOUS

LEMMA PartFact == \A n, m \in Nat : m <= n => n - m \in Nat /\ (n - m) + m = n
  OBVIOUS

LEMMA NoFill == ASM_BASE - ASM_BASE = 0
  BY LoggerAssumption

(* A log with all bytes up to one has all bytes up to an earlier one. *)
LEMMA CoversLess == \A f : \A n, m \in Nat : Covers(f, n) => Covers(f, n - m)
  BY DEF Covers

(* A run of no bytes is anywhere. *)
LEMMA EmptyRun == \A b, a, v : RunIn(b, a, 0, v)
  BY DEF RunIn

(* The log that init_logger begins with. *)
LEMMA EmptyLog ==
    Ascending(<<>>) /\ (\A n : Below(<<>>, n)) /\ Covers(<<>>, 0)
  BY DEF Ascending, Below, Covers

(* A log that ends before a byte of the stream ends before a later one. *)
LEMMA BelowMore ==
    ASSUME NEW f, NEW n \in Int, NEW m \in Int, n <= m, Below(f, n)
    PROVE  Below(f, m)
  BY DEF Below

(* What an item that is appended adds to a log. *)
LEMMA Appended ==
    ASSUME NEW f \in Seq(Items), NEW x \in Items
    PROVE  /\ Len(f) \in Nat /\ DOMAIN f = 1 .. Len(f)
           /\ DOMAIN Append(f, x) = 1 .. Len(f) + 1
           /\ Append(f, x)[Len(f) + 1] = x
           /\ \A k \in 1 .. Len(f) : Append(f, x)[k] = f[k]
           /\ \A k \in 1 .. Len(f) : f[k].bytes \in Seq(Int)
           /\ x.bytes \in Seq(Int)
  <1>1. \A y \in Items : y.bytes \in Seq(Int)
    BY DEF Items
  <1>2. \A k \in 1 .. Len(f) : f[k] \in Items
    OBVIOUS
  <1>3. /\ Len(f) \in Nat /\ DOMAIN f = 1 .. Len(f)
        /\ DOMAIN Append(f, x) = 1 .. Len(f) + 1
        /\ Append(f, x)[Len(f) + 1] = x
        /\ \A k \in 1 .. Len(f) : Append(f, x)[k] = f[k]
    OBVIOUS
  <1> QED
    BY <1>1, <1>2, <1>3

(* The head of a file or of a block brings no byte into the log. *)
LEMMA HeadItem ==
    ASSUME NEW f \in Seq(Items), NEW x \in Items, x.bytes = <<>>
    PROVE  /\ Ascending(f) => Ascending(Append(f, x))
           /\ \A n : Below(f, n) => Below(Append(f, x), n)
           /\ \A n : Covers(f, n) => Covers(Append(f, x), n)
  <1> DEFINE g == Append(f, x)
             n == Len(f)
  <1>1. /\ n \in Nat /\ DOMAIN f = 1 .. n /\ DOMAIN g = 1 .. n + 1
        /\ g[n + 1] = x /\ \A k \in 1 .. n : g[k] = f[k]
    BY Appended
  <1>2. DOMAIN x.bytes = {}
    OBVIOUS
  <1> HIDE DEF g, n
  <1>3. \A k \in DOMAIN g : (k \in DOMAIN f /\ g[k] = f[k]) \/ DOMAIN g[k].bytes = {}
    BY <1>1, <1>2
  <1>4. \A k \in DOMAIN f : k \in DOMAIN g /\ g[k] = f[k]
    BY <1>1
  <1>5. Ascending(f) => Ascending(g)
    BY <1>3 DEF Ascending
  <1>6. \A m : Below(f, m) => Below(g, m)
    BY <1>3 DEF Below
  <1>7. \A m : Covers(f, m) => Covers(g, m)
    BY <1>4 DEF Covers
  <1> QED
    BY <1>5, <1>6, <1>7 DEF g

(* A block that begins where the log ends continues it. *)
LEMMA DataItem ==
    ASSUME NEW f \in Seq(Items), NEW x \in Items, NEW v \in Nat,
           RunIn(x.bytes, 1, Len(x.bytes), v), Ascending(f), Below(f, v)
    PROVE  /\ Ascending(Append(f, x))
           /\ Below(Append(f, x), v + Len(x.bytes))
           /\ Covers(f, v) => Covers(Append(f, x), v + Len(x.bytes))
  <1> DEFINE g == Append(f, x)
             n == Len(f)
             b == x.bytes
             c == Len(x.bytes)
  <1>1. /\ n \in Nat /\ DOMAIN f = 1 .. n /\ DOMAIN g = 1 .. n + 1
        /\ g[n + 1].bytes = b /\ \A k \in 1 .. n : g[k] = f[k]
    BY Appended
  <1>2. b \in Seq(Int) /\ c \in Nat /\ DOMAIN b = 1 .. c
    BY Appended
  <1>3. \A i \in 1 .. c : b[i] = v + (i - 1)
    <2> SUFFICES ASSUME NEW i \in 1 .. c PROVE b[i] = v + (i - 1)
      OBVIOUS
    <2>1. i - 1 \in 0 .. c - 1 /\ 1 + (i - 1) = i
      BY <1>2
    <2> QED
      BY <2>1, Zenon DEF RunIn
  <1>4. \A k \in 1 .. n : \A i \in DOMAIN g[k].bytes : g[k].bytes[i] \in 0 .. v - 1
    BY <1>1 DEF Below
  <1> HIDE DEF g, n, b, c
  <1>5. Ascending(g)
    <2> SUFFICES ASSUME NEW k \in 1 .. n + 1, NEW m \in 1 .. n + 1,
                        NEW i \in DOMAIN g[k].bytes, NEW j \in DOMAIN g[m].bytes,
                        k < m \/ (k = m /\ i < j)
                 PROVE  g[k].bytes[i] < g[m].bytes[j]
      BY <1>1 DEF Ascending
    <2>1. CASE m \in 1 .. n
      <3>1. k \in 1 .. n
        BY <1>1, <2>1
      <3> QED
        BY <1>1, <2>1, <3>1 DEF Ascending
    <2>2. CASE m = n + 1 /\ k \in 1 .. n
      <3>1. g[k].bytes[i] \in 0 .. v - 1
        BY <1>4, <2>2
      <3>2. g[m].bytes[j] = v + (j - 1) /\ j \in 1 .. c
        BY <1>1, <1>2, <1>3, <2>2
      <3> QED
        BY <1>2, <3>1, <3>2, SMTT(30)
    <2>3. CASE m = n + 1 /\ k = n + 1
      <3>1. i \in 1 .. c /\ j \in 1 .. c /\ i < j
        BY <1>1, <1>2, <2>3
      <3>2. g[m].bytes[j] = v + (j - 1) /\ g[k].bytes[i] = v + (i - 1)
        BY <1>1, <1>3, <2>3, <3>1
      <3> QED
        BY <1>2, <3>1, <3>2
    <2> QED
      BY <1>1, <2>1, <2>2, <2>3
  <1>6. Below(g, v + c)
    <2> SUFFICES ASSUME NEW k \in 1 .. n + 1, NEW i \in DOMAIN g[k].bytes
                 PROVE  g[k].bytes[i] \in 0 .. (v + c) - 1
      BY <1>1 DEF Below
    <2>1. CASE k \in 1 .. n
      BY <1>2, <1>4, <2>1
    <2>2. CASE k = n + 1
      BY <1>1, <1>2, <1>3, <2>2
    <2> QED
      BY <1>1, <2>1, <2>2
  <1>7. ASSUME Covers(f, v) PROVE Covers(g, v + c)
    <2> SUFFICES ASSUME NEW w \in 0 .. (v + c) - 1
                 PROVE  \E k \in DOMAIN g : \E i \in DOMAIN g[k].bytes : g[k].bytes[i] = w
      BY DEF Covers
    <2>1. CASE w < v
      <3>1. w \in 0 .. v - 1
        BY <2>1
      <3>2. PICK k \in DOMAIN f : \E i \in DOMAIN f[k].bytes : f[k].bytes[i] = w
        BY <1>7, <3>1 DEF Covers
      <3> QED
        BY <1>1, <3>2
    <2>2. CASE w >= v
      <3>1. (w - v) + 1 \in 1 .. c /\ b[(w - v) + 1] = w
        BY <1>2, <1>3, <2>2
      <3>2. n + 1 \in DOMAIN g /\ DOMAIN g[n + 1].bytes = 1 .. c
        BY <1>1, <1>2
      <3> QED
        BY <1>1, <3>1, <3>2, Zenon
    <2> QED
      BY <1>2, <2>1, <2>2
  <1> QED
    BY <1>5, <1>6, <1>7 DEF g, c

(* How many bytes are buffered, and whether they are in the log already. *)
Fill(l) == curr[l] - ASM_BASE

AtClose(l) == \E t \in Threads : flushing[t] = l /\ pc[t] = "close"

(* The buffer holds the last bytes of the stream, and the log ends where   *)
(* the buffer begins or, at the end of a flush, where the stream does.     *)
DataAt(l) ==
    /\ Fill(l) <= pos[l]
    /\ RunIn(buffer[l], 0, Fill(l), pos[l] - Fill(l))
    /\ Ascending(file[l]) /\ Below(file[l], pos[l])
    /\ ~AtClose(l) => Below(file[l], pos[l] - Fill(l))
    /\ l \notin failed => Covers(file[l], pos[l] - Fill(l))
    /\ l \notin failed /\ AtClose(l) => Covers(file[l], pos[l])

(* A block of n bytes is still to be written to the log. *)
Pending(l, n) ==
    /\ n <= pos[l]
    /\ Below(file[l], pos[l] - n)
    /\ l \notin failed => n = Fill(l)

(* What a thread in flush_logger is about to write.  One whose open has    *)
(* failed resets the pointers without the mutex, under the flush of        *)
(* another; it loses nothing that failed does not tell of.                 *)
FlusherAt(l, t) ==
    flushing[t] = l =>
        /\ pc[t] = "open" =>
              /\ Pending(l, ptr[l])
              /\ RunIn(buffer[l], 0, ptr[l], pos[l] - ptr[l])
        /\ pc[t] = "blockdata" =>
              /\ Pending(l, Len(block[t]))
              /\ RunIn(block[t], 1, Len(block[t]), pos[l] - Len(block[t]))
        /\ pc[t] \in {"dropptr", "dropcurr"} /\ l \notin failed => Fill(l) = 0

(* An append that nobody meets stores behind what is buffered. *)
OwnerAt(l) ==
    /\ pc[l] \in {"copy", "load", "store"} => addr[l] = curr[l]
    /\ pc[l] \in {"load", "store"} => RunIn(buffer[l], Fill(l), cpysz[l], pos[l])

(* Nobody else flushes while the owner appends, or initialises. *)
Apart(l) ==
    Appending(l) \/ pc[l] \in Initialising => \A t \in Threads \ {l} : flushing[t] # l

(* init_logger has set the pointers. *)
Started(l) == pc[l] \notin {"start", "linked", "dead"}

StreamAt(l) ==
    /\ Apart(l)
    /\ pc[l] \in Initialising => pos[l] = 0
    /\ Started(l) => DataAt(l) /\ OwnerAt(l) /\ \A t \in Threads : FlusherAt(l, t)

StreamInv == \A l \in Threads \ (early \cup met) : StreamAt(l)

(* What StreamAt reads of a logger, its flushes left aside, is unchanged. *)
Still(l) ==
    /\ curr'[l] = curr[l] /\ pos'[l] = pos[l] /\ ptr'[l] = ptr[l]
    /\ buffer'[l] = buffer[l] /\ file'[l] = file[l]
    /\ l \in failed' <=> l \in failed

(* The places in flush_logger that FlusherAt speaks of, and that w is as   *)
(* far in its flush of l as before.                                        *)
Deep == {"open", "blockdata", "close", "dropptr", "dropcurr"}

SameDeep(l, w) ==
    /\ flushing'[w] = l /\ pc'[w] \in Deep => flushing[w] = l /\ pc[w] = pc'[w]
    /\ flushing[w] = l /\ pc[w] \in Deep => flushing'[w] = l /\ pc[w] = pc'[w]
    /\ flushing[w] = l /\ pc[w] = "blockdata" => block'[w] = block[w]

(* The data of a logger stay, if nothing of it is touched ... *)
LEMMA DataStill ==
    ASSUME NEW l \in Threads, Still(l), DataAt(l), \A w \in Threads : SameDeep(l, w)
    PROVE  DataAt(l)'
  <1>1. AtClose(l)' <=> AtClose(l)
    BY DEF AtClose, SameDeep, Deep
  <1>2. Fill(l)' = Fill(l)
    BY SMTT(30) DEF Still, Fill
  <1> QED
    BY <1>1, <1>2 DEF DataAt, Still

(* ... and so does what a flush is about to write. *)
LEMMA FlusherStill ==
    ASSUME NEW l \in Threads, NEW w \in Threads, Still(l), FlusherAt(l, w), SameDeep(l, w)
    PROVE  FlusherAt(l, w)'
  <1>2. Fill(l)' = Fill(l)
    BY SMTT(30) DEF Still, Fill
  <1> QED
    BY <1>2 DEF FlusherAt, Pending, Still, SameDeep, Deep

(* A step that touches nothing of the logger of l keeps its stream. *)
LEMMA StreamStill ==
    ASSUME NEW l \in Threads, Still(l), \A w \in Threads : SameDeep(l, w), StreamAt(l),
           Apart(l)',
           pc'[l] \in Initialising => pc[l] \in Initialising,
           Started(l)' => Started(l),
           pc'[l] \in {"copy", "load", "store"} =>
               pc'[l] = pc[l] /\ addr'[l] = addr[l] /\ cpysz'[l] = cpysz[l]
    PROVE  StreamAt(l)'
  <1>1. pc'[l] \in Initialising => pos'[l] = 0
    BY SMTT(30) DEF StreamAt, Still
  <1>2. ASSUME Started(l)'
        PROVE  DataAt(l)' /\ OwnerAt(l)' /\ \A t \in Threads : FlusherAt(l, t)'
    <2>1. DataAt(l) /\ OwnerAt(l) /\ \A t \in Threads : FlusherAt(l, t)
      BY <1>2, SMTT(30) DEF StreamAt
    <2>2. DataAt(l)'
      BY <2>1, DataStill, SMTT(30)
    <2>3. OwnerAt(l)'
      <3>1. Fill(l)' = Fill(l)
        BY SMTT(30) DEF Still, Fill
      <3> QED
        BY <2>1, <3>1, SMTT(30) DEF OwnerAt, Still
    <2>4. \A t \in Threads : FlusherAt(l, t)'
      BY <2>1, FlusherStill, Zenon
    <2> QED
      BY <2>2, <2>3, <2>4, SMTT(30)
  <1> QED
    BY <1>1, <1>2, SMTT(30) DEF StreamAt

(* A compressed block belongs to the thread that writes it. *)
LEMMA BlockOthers ==
    ASSUME BlockOK, NEW t \in Threads, Calls(t) \/ Running(t), NEW w \in Threads \ {t}
    PROVE  block'[w] = block[w]
  <1>1. block' = block \/ \E b : block' = [block EXCEPT ![t] = b]
    BY TouchBlock, Zenon DEF WriteBlockHead, WriteBlockData
  <1> QED
    BY <1>1, Zenon DEF BlockOK

(* A step reaches another thread's logger only by a flush of it. *)
LEMMA Elsewhere ==
    ASSUME RegOK, BufferOK, FileOK,
           NEW t \in Threads, Calls(t) \/ Running(t),
           NEW l \in Threads \ {t}, flushing[t] # l
    PROVE  Still(l)
  <1>1. curr'[l] = curr[l]
    <2>1. curr' = curr \/ \E v, d : d # l /\ curr' = [curr EXCEPT ![d] = v]
      <3>1. CASE init_logger(t) \/ Store(t)
        BY <3>1, Zenon DEF init_logger, Store
      <3>2. CASE DropCurr(t) \/ Close(t)
        BY <3>2, Zenon DEF DropCurr, Close
      <3> QED
        BY <3>1, <3>2, TouchCurr, Zenon
    <2> QED
      BY <2>1, Zenon DEF RegOK
  <1>2. ptr'[l] = ptr[l]
    <2>1. ptr' = ptr \/ \E v, d : d # l /\ ptr' = [ptr EXCEPT ![d] = v]
      BY TouchPtr, Zenon DEF init_logger, set_bigbuffer_ptr, DropPtr, Close
    <2> QED
      BY <2>1, Zenon DEF RegOK
  <1>3. pos'[l] = pos[l]
    BY TouchPos, Zenon DEF Store, RegOK
  <1>4. buffer'[l] = buffer[l]
    <2>1. buffer' = buffer \/ \E v : buffer' = [buffer EXCEPT ![t] = v]
      BY TouchBuffer, Zenon DEF Copy
    <2> QED
      BY <2>1, Zenon DEF BufferOK
  <1>5. file'[l] = file[l]
    <2>1. file' = file \/ \E v, d : d # l /\ file' = [file EXCEPT ![d] = v]
      BY TouchFile, Zenon DEF Create, write_comp_file_head, WriteBlockHead, WriteBlockData
    <2> QED
      BY <2>1, Zenon DEF FileOK
  <1>6. l \in failed' <=> l \in failed
    BY TouchCount, Zenon DEF flush_self_logger, flush_all_logger, OpenFails
  <1> QED
    BY <1>1, <1>2, <1>3, <1>4, <1>5, <1>6, Zenon DEF Still

(* Who goes past log_flush_mutex has come from there. *)
LEMMA DeepFrom ==
    ASSUME PcOK, FlOK, pc' # Dead, NEW t \in Threads, Calls(t) \/ Running(t)
    PROVE  \/ flushing'[t] = flushing[t]
           \/ flushing'[t] \in {t, NoThread}
           \/ pc'[t] = "lock"
  <1>1. CASE NextArea(t)
    BY <1>1, Zenon DEF NextArea, Step, PcOK, FlOK
  <1>2. CASE ~NextArea(t)
    <2>1. \/ flushing' = flushing
          \/ flushing' = [flushing EXCEPT ![t] = t]
          \/ flushing' = [flushing EXCEPT ![t] = NoThread]
      <3>1. CASE Store(t) \/ flush_self_logger(t)
        BY <3>1, Zenon DEF Store, flush_self_logger
      <3>2. CASE DropCurr(t) \/ Close(t)
        BY <3>2, Zenon DEF DropCurr, Close
      <3>3. CASE \E n \in TypeSizes : append_logger_TYPE(t, n)
        BY <3>3, Zenon DEF append_logger_TYPE
      <3> QED
        BY <1>2, <3>1, <3>2, <3>3, TouchFlushing, Zenon
    <2> QED
      BY <2>1, Zenon DEF FlOK
  <1> QED
    BY <1>1, <1>2

(* What no step of another thread changes in a flush. *)
LEMMA OthersDeep ==
    ASSUME PcOK, RegOK, FlOK, BlockOK, pc' # Dead,
           NEW t \in Threads, Calls(t) \/ Running(t), NEW w \in Threads \ {t}, NEW l
    PROVE  SameDeep(l, w)
  <1>1. Kept(w)
    BY Frame
  <1>2. block'[w] = block[w]
    BY BlockOthers
  <1> QED
    BY <1>1, <1>2, Zenon DEF Kept, SameDeep

(* The history gives every logger that still counts to its owner while it  *)
(* is initialised or appended to.                                          *)
LEMMA ApartNext ==
    ASSUME History, NEW l \in Threads \ (early' \cup met')
    PROVE  Apart(l)' /\ l \notin early /\ l \notin met
  <1>1. l \notin Early' /\ l \notin Meeting' /\ l \notin early /\ l \notin met
    BY DEF History
  <1>2. Apart(l)'
    BY <1>1, Zenon DEF Apart, Early, Meeting, FlushedByOther
  <1> QED
    BY <1>1, <1>2

(* The invariant and the step that the lemmas below are about. *)
Now(l) == IInv /\ StreamAt(l) /\ l \in Threads /\ l \notin early

(* A thread that neither owns the logger nor flushes it. *)
LEMMA StreamElsewhere ==
    ASSUME NEW l, Now(l), Apart(l)', pc' # Dead,
           NEW t \in Threads, Calls(t) \/ Running(t), t # l, flushing[t] # l
    PROVE  StreamAt(l)'
  <1>1. /\ PcOK /\ RegOK /\ FlOK /\ BufferOK /\ FileOK /\ BlockOK
        /\ StreamAt(l) /\ l \in Threads
    BY Zenon DEF Now, IInv, Types
  <1>2. Still(l)
    BY <1>1, Elsewhere, Zenon
  <1>3. \A w \in Threads \ {t} : SameDeep(l, w)
    BY <1>1, OthersDeep, Zenon
  <1>4. SameDeep(l, t)
    <2>1. l # NoThread
      BY <1>1, LoggerAssumption
    <2>2. flushing'[t] # l \/ pc'[t] = "lock"
      BY <1>1, <2>1, DeepFrom, Zenon
    <2> QED
      BY <2>2, SMTT(30) DEF SameDeep, Deep
  <1>5. Kept(l)
    BY <1>1, Frame, Zenon
  <1> QED
    BY <1>1, <1>2, <1>3, <1>4, <1>5, StreamStill, Zenon DEF Kept, Started

(* The calls, and the steps that only go on. *)
Quiet(t) ==
    \/ Link(t) \/ CopySize(t) \/ LockLogger(t) \/ NextArea(t)
    \/ flush_self_logger(t) \/ flush_all_logger(t)
    \/ \E n \in 1 .. MaxAppend : append_logger(t, n)
    \/ \E n \in TypeSizes : append_logger_TYPE(t, n)

(* The steps that lead to an append or a flush. *)
LEMMA StreamQuiet ==
    ASSUME NEW l, Now(l), Apart(l)', pc' # Dead,
           NEW t \in Threads, Calls(t) \/ Running(t), Quiet(t)
    PROVE  StreamAt(l)'
  <1>1. /\ PcOK /\ RegOK /\ FlOK /\ BufferOK /\ FileOK /\ BlockOK
        /\ StreamAt(l) /\ l \in Threads
    BY Zenon DEF Now, IInv, Types
  <1>2. UNCHANGED <<curr, pos, ptr, buffer, file, failed, block>>
    BY Zenon DEF Quiet, Link, CopySize, LockLogger, NextArea, flush_self_logger,
                 flush_all_logger, append_logger, append_logger_TYPE, app, fl
  <1>3. Still(l)
    BY <1>2, Zenon DEF Still
  <1>4. /\ pc[t] \in {"start", "avail", "lock", "nextarea", "idle"}
        /\ pc'[t] \in {"linked", "dest", "setptr", "lock", "idle", "nextarea", "avail"}
        /\ pc'[t] = "linked" => pc[t] = "start"
        /\ pc[t] = "start" => pc'[t] = "linked"
    BY <1>1, Zenon DEF Quiet, Link, CopySize, LockLogger, NextArea, flush_self_logger,
                 flush_all_logger, append_logger, append_logger_TYPE, Step, PcOK
  <1>5. \A w \in Threads \ {t} : SameDeep(l, w) /\ Kept(w)
    BY <1>1, OthersDeep, Frame, ZenonT(30)
  <1>6. SameDeep(l, t)
    BY <1>4, SMTT(30) DEF SameDeep, Deep
  <1>7. /\ pc'[l] \in Initialising => pc[l] \in Initialising
        /\ Started(l)' => Started(l)
        /\ pc'[l] \in {"copy", "load", "store"} =>
               pc'[l] = pc[l] /\ addr'[l] = addr[l] /\ cpysz'[l] = cpysz[l]
    <2>1. CASE t = l
      BY <1>4, <2>1 DEF Initialising, Started
    <2>2. CASE t # l
      BY <1>1, <1>5, <2>2, Zenon DEF Kept, Started
    <2> QED
      BY <2>1, <2>2, SMTT(30)
  <1>8. \A w \in Threads : SameDeep(l, w)
    BY <1>5, <1>6, Zenon
  <1> QED
    BY <1>1, <1>3, <1>7, <1>8, StreamStill

(* While an append of its owner runs, outside flush_logger, nobody flushes *)
(* the logger.                                                             *)
LEMMA Alone ==
    ASSUME NEW l, Now(l), pc[l] \in Initialising \cup Copying
    PROVE  \A w \in Threads : flushing[w] # l
  <1>1. FlushAt(l) /\ Apart(l) /\ l \in Threads /\ NoThread # l
    BY LoggerAssumption, SMTT(30) DEF Now, IInv, FlushInv, StreamAt
  <1>2. flushing[l] # l
    BY <1>1, Zenon DEF FlushAt, Flushing, Copying, Initialising
  <1>3. Appending(l) \/ pc[l] \in Initialising
    BY <1>1, SMTT(30) DEF FlushAt, Appending, Copying, Initialising
  <1> QED
    BY <1>1, <1>2, <1>3, ZenonT(30) DEF Apart

(* Nor does anybody past log_flush_mutex after a step of the owner. *)
LEMMA AloneNext ==
    ASSUME NEW l, Now(l), pc' # Dead, Calls(l) \/ Running(l),
           \A w \in Threads : flushing[w] # l,
           flushing'[l] # l \/ pc'[l] = "lock"
    PROVE  ~AtClose(l)' /\ ~AtClose(l) /\ \A w \in Threads : FlusherAt(l, w)'
  <1>1. PcOK /\ RegOK /\ FlOK /\ l \in Threads
    BY Zenon DEF Now, IInv, Types
  <1>2. \A w \in Threads \ {l} : flushing'[w] # l
    BY <1>1, Frame, Zenon DEF Kept
  <1>3. ~AtClose(l)' /\ ~AtClose(l)
    BY <1>2, SMTT(30) DEF AtClose
  <1>4. \A w \in Threads : FlusherAt(l, w)'
    BY <1>2, SMTT(30) DEF FlusherAt
  <1> QED
    BY <1>3, <1>4

(* init_logger starts the stream. *)
LEMMA StreamInit ==
    ASSUME NEW l, Now(l), Apart(l)', pc' # Dead,
           Calls(l) \/ Running(l), init_logger(l)
    PROVE  StreamAt(l)'
  <1>1. /\ PcOK /\ RegOK /\ FlOK /\ FileAt(l) /\ l \in Threads /\ FlushAt(l)
        /\ pc[l] \in Initialising => pos[l] = 0
    BY Zenon DEF Now, IInv, Types, FileInv, FlushInv, StreamAt
  <1>2. /\ pc[l] = "linked" /\ pc'[l] = "create" /\ flushing' = flushing
        /\ pos' = pos /\ file' = file /\ curr'[l] = ASM_BASE
    BY <1>1, ZenonT(30) DEF init_logger, Step, PcOK, RegOK, app, fl
  <1>3. pc[l] \in Initialising /\ pc'[l] \in Initialising
    BY <1>2 DEF Initialising
  <1>4. pos'[l] = 0 /\ file'[l] = <<>>
    BY <1>1, <1>2, <1>3 DEF FileAt
  <1>5. \A w \in Threads : flushing[w] # l
    BY <1>3, Alone, SMTT(30)
  <1>6. ~AtClose(l)' /\ \A w \in Threads : FlusherAt(l, w)'
    BY <1>1, <1>2, <1>5, AloneNext, SMTT(30)
  <1>7. Fill(l)' = 0
    BY <1>2, LoggerAssumption, SMTT(30) DEF Fill
  <1>8. DataAt(l)'
    <2>1. \A b, v : RunIn(b, 0, 0, v)
      BY EmptyRun, Zenon
    <2>2. pos'[l] - Fill(l)' = 0
      BY <1>4, <1>7, SMTT(30)
    <2> QED
      BY <1>4, <1>6, <1>7, <2>1, <2>2, EmptyLog DEF DataAt
  <1>9. OwnerAt(l)'
    BY <1>2, ZenonT(30) DEF OwnerAt
  <1> QED
    BY <1>4, <1>6, <1>8, <1>9, ZenonT(30) DEF StreamAt

(* The head of the file. *)
LEMMA StreamCreate ==
    ASSUME NEW l, Now(l), Apart(l)', pc' # Dead,
           Calls(l) \/ Running(l), Create(l) \/ write_comp_file_head(l)
    PROVE  StreamAt(l)'
  <1>1. /\ PcOK /\ RegOK /\ FlOK /\ FileOK /\ FileAt(l) /\ l \in Threads /\ FlushAt(l)
        /\ StreamAt(l)
    BY DEF Now, IInv, Types, FileInv, FlushInv
  <1>2. /\ pc[l] \in {"create", "filehead"} /\ pc'[l] \in {"filehead", "idle"}
        /\ flushing' = flushing /\ failed' = failed
        /\ pos' = pos /\ curr' = curr /\ buffer' = buffer
    BY <1>1, ZenonT(30) DEF Create, write_comp_file_head, Step, Die, Dead, PcOK, app, fl
  <1>3. pc[l] \in Initialising
    BY <1>2, ZenonT(30) DEF Initialising
  <1>4. pos[l] = 0 /\ file[l] = <<>> /\ Started(l)
    BY <1>1, <1>2, <1>3, Zenon DEF FileAt, StreamAt, Started
  <1> DEFINE x == Item("filehead", 0, <<>>)
  <1>5. file'[l] = file[l] \/ file'[l] = Append(file[l], x)
    BY <1>1, <1>4, ZenonT(30) DEF Create, write_comp_file_head, FileOK
  <1>6. \A w \in Threads : flushing[w] # l
    BY <1>3, Alone, Zenon
  <1>7. ~AtClose(l)' /\ ~AtClose(l) /\ \A w \in Threads : FlusherAt(l, w)'
    BY <1>1, <1>2, <1>6, AloneNext, SMTT(30)
  <1>8. DataAt(l)'
    <2>1. x \in Items /\ x.bytes = <<>> /\ file[l] \in Seq(Items)
      BY <1>1, ItemFact, SMTT(30) DEF Item, FileOK
    <2> HIDE DEF x
    <2>2. /\ Ascending(file[l]) => Ascending(file'[l])
          /\ \A n : Below(file[l], n) => Below(file'[l], n)
          /\ \A n : Covers(file[l], n) => Covers(file'[l], n)
      BY <1>5, <2>1, HeadItem, Zenon
    <2>3. Fill(l)' = Fill(l)
      BY <1>2, SMTT(30) DEF Fill
    <2>4. DataAt(l)
      BY <1>1, <1>4, SMTT(30) DEF StreamAt
    <2> QED
      BY <1>2, <1>7, <2>2, <2>3, <2>4, ZenonT(30) DEF DataAt
  <1>9. OwnerAt(l)'
    BY <1>2, SMTT(30) DEF OwnerAt
  <1> QED
    BY <1>2, <1>4, <1>7, <1>8, <1>9, Zenon DEF StreamAt

(* A thread in the midst of a copy, with what the copies and the store of  *)
(* asm_curr_ptr need.                                                      *)
LEMMA Midst ==
    ASSUME NEW l, Now(l), pc[l] \in Copying
    PROVE  /\ DataAt(l) /\ OwnerAt(l) /\ CursorAt(l) /\ FlushAt(l)
           /\ \A w \in Threads : flushing[w] # l
           /\ flushing[l] = NoThread /\ l # NoThread /\ l \in Threads
           /\ curr[l] \in Nat /\ pos[l] \in Nat /\ cpysz[l] \in Nat
           /\ curr[l] \in ASM_BASE .. asm_end_ptr
           /\ ASM_BASE \in Nat /\ Fill(l) \in Nat
           /\ pc[l] \notin Initialising
  <1>1. /\ RegOK /\ FlushInv /\ CursorInv /\ StreamAt(l) /\ l \in Threads
    BY DEF Now, IInv, Types
  <1>2. Started(l) /\ pc[l] \notin Initialising
    BY DEF Started, Copying, Initialising
  <1>3. DataAt(l) /\ OwnerAt(l) /\ CursorAt(l) /\ FlushAt(l)
    BY <1>1, <1>2, Zenon DEF StreamAt, FlushInv, CursorInv
  <1>4. flushing[l] = NoThread /\ l # NoThread
    BY <1>1, <1>3, LoggerAssumption DEF FlushAt, Flushing, Copying
  <1>5. curr[l] \in Nat /\ pos[l] \in Nat /\ cpysz[l] \in Nat /\ ASM_BASE \in Nat
    BY <1>1, LoggerAssumption DEF RegOK
  <1>6. curr[l] \in ASM_BASE .. asm_end_ptr
    BY <1>2, <1>3, ZenonT(30) DEF CursorAt, Started
  <1>7. Fill(l) \in Nat
    BY <1>5, <1>6, SMTT(30) DEF Fill
  <1>8. \A w \in Threads : flushing[w] # l
    BY Alone, SMTT(30)
  <1> QED
    BY <1>1, <1>2, <1>3, <1>4, <1>5, <1>6, <1>7, <1>8

(* The loads of asm_curr_ptr find it where the copy goes. *)
LEMMA StreamLoads ==
    ASSUME NEW l, Now(l), Apart(l)', pc' # Dead,
           Calls(l) \/ Running(l), Dest(l) \/ Load(l)
    PROVE  StreamAt(l)'
  <1>1. PcOK /\ RegOK
    BY DEF Now, IInv, Types
  <1>2. /\ pc[l] \in {"dest", "load"}
        /\ UNCHANGED <<curr, pos, ptr, buffer, file, failed, flushing, cpysz>>
    BY Zenon DEF Dest, Load, Step, app, fl
  <1>3. pc[l] \in Copying
    BY <1>2 DEF Copying
  <1>4. /\ DataAt(l) /\ OwnerAt(l) /\ l \in Threads /\ flushing[l] # l
        /\ \A w \in Threads : flushing[w] # l
    BY <1>3, Midst, ZenonT(30)
  <1>5. /\ pc'[l] = IF pc[l] = "dest" THEN "copy" ELSE "store"
        /\ addr'[l] = curr[l] \/ (pc[l] = "load" /\ addr'[l] = addr[l])
    BY <1>1, <1>4, SMTT(30) DEF Dest, Load, Step, PcOK, RegOK
  <1>6. ~AtClose(l)' /\ ~AtClose(l) /\ \A w \in Threads : FlusherAt(l, w)'
    BY <1>2, <1>4, AloneNext, ZenonT(30)
  <1>7. Fill(l)' = Fill(l)
    BY <1>2, SMTT(30) DEF Fill
  <1>8. DataAt(l)'
    BY <1>2, <1>4, <1>6, <1>7, SMTT(30) DEF DataAt
  <1>9. OwnerAt(l)'
    BY <1>2, <1>4, <1>5, <1>7, ZenonT(30) DEF OwnerAt
  <1>10. pc'[l] \notin Initialising
    BY <1>2, <1>5, SMTT(30) DEF Initialising
  <1> QED
    BY <1>6, <1>8, <1>9, <1>10 DEF StreamAt

(* The copy goes behind what is buffered. *)
LEMMA StreamCopy ==
    ASSUME NEW l, Now(l), Apart(l)', pc' # Dead, Calls(l) \/ Running(l), Copy(l)
    PROVE  StreamAt(l)'
  <1>1. PcOK /\ BufferOK
    BY DEF Now, IInv, Types
  <1>2. /\ pc[l] = "copy"
        /\ UNCHANGED <<curr, pos, ptr, file, failed, flushing, cpysz, addr>>
    BY Zenon DEF Copy, Step, app, fl
  <1>3. pc[l] \in Copying
    BY <1>2 DEF Copying
  <1>4. /\ DataAt(l) /\ OwnerAt(l) /\ l \in Threads /\ flushing[l] # l
        /\ \A w \in Threads : flushing[w] # l
        /\ pos[l] \in Nat /\ cpysz[l] \in Nat /\ Fill(l) \in Nat
    BY <1>3, Midst, ZenonT(30)
  <1>5. pc'[l] = "load"
    BY <1>1, <1>4, Zenon DEF Copy, Step, PcOK
  <1>6. ~AtClose(l)' /\ ~AtClose(l) /\ \A w \in Threads : FlusherAt(l, w)'
    BY <1>2, <1>4, AloneNext, SMTT(30)
  <1>7. Fill(l)' = Fill(l)
    BY <1>2, SMTT(30) DEF Fill
  <1>8. addr[l] - ASM_BASE = Fill(l) /\ addr[l] = curr[l]
    BY <1>2, <1>4, SMTT(30) DEF OwnerAt, Fill
  <1>9. Fill(l) + cpysz[l] <= BIGBUFFER_SZ
    <2>1. curr[l] + cpysz[l] <= asm_end_ptr /\ curr[l] \in Nat
      BY <1>3, Midst, Zenon DEF CursorAt
    <2> QED
      BY <1>4, <2>1, LoggerAssumption DEF Fill, asm_end_ptr
  <1> DEFINE n == Fill(l)
             c == cpysz[l]
  <1>10. buffer'[l] = [i \in Offsets |-> IF i \in n .. n + c - 1
                                         THEN pos[l] + (i - n) ELSE buffer[l][i]]
    BY <1>1, <1>4, <1>8, ZenonT(30) DEF Copy, BufferOK
  <1> HIDE DEF n, c
  <1>11. n \in Nat /\ c \in Nat /\ n + c <= BIGBUFFER_SZ
    BY <1>4, <1>9, Zenon DEF n, c
  <1>12. \A i \in 0 .. n - 1 : buffer'[l][i] = buffer[l][i]
    BY <1>10, <1>11, LoggerAssumption, SMTT(30) DEF Offsets
  <1>13. \A i \in 0 .. c - 1 : buffer'[l][n + i] = pos[l] + i
    <2> SUFFICES ASSUME NEW i \in 0 .. c - 1 PROVE buffer'[l][n + i] = pos[l] + i
      OBVIOUS
    <2>1. n + i \in Offsets /\ n + i \in n .. n + c - 1 /\ (n + i) - n = i
      BY <1>11, LoggerAssumption, SMTT(30) DEF Offsets
    <2> QED
      BY <1>10, <2>1, SMTT(30)
  <1>14. RunIn(buffer'[l], 0, n, pos[l] - n)
    <2>1. RunIn(buffer[l], 0, n, pos[l] - n)
      BY <1>4, SMTT(30) DEF DataAt, n
    <2> QED
      BY <1>11, <1>12, <2>1, SMTT(30) DEF RunIn
  <1>15. RunIn(buffer'[l], n, c, pos[l])
    BY <1>13, SMTT(30) DEF RunIn
  <1>16. DataAt(l)'
    BY <1>2, <1>4, <1>6, <1>7, <1>14, ZenonT(30) DEF DataAt, n
  <1>17. OwnerAt(l)'
    BY <1>2, <1>5, <1>7, <1>8, <1>15 DEF OwnerAt, n, c
  <1>18. pc'[l] \notin Initialising
    BY <1>5, SMTT(30) DEF Initialising
  <1> QED
    BY <1>6, <1>16, <1>17, <1>18, Zenon DEF StreamAt

(* The store of asm_curr_ptr appends what has been copied. *)
LEMMA StreamStore ==
    ASSUME NEW l, Now(l), Apart(l)', pc' # Dead, Calls(l) \/ Running(l), Store(l)
    PROVE  StreamAt(l)'
  <1>1. PcOK /\ RegOK /\ FlOK
    BY DEF Now, IInv, Types
  <1>2. /\ pc[l] = "store"
        /\ UNCHANGED <<buffer, file, failed>>
    BY Zenon DEF Store, Step
  <1>3. pc[l] \in Copying
    BY <1>2 DEF Copying
  <1>4. /\ DataAt(l) /\ OwnerAt(l) /\ l \in Threads /\ flushing[l] # l
        /\ \A w \in Threads : flushing[w] # l
        /\ pos[l] \in Nat /\ cpysz[l] \in Nat /\ Fill(l) \in Nat
        /\ curr[l] \in Nat /\ ASM_BASE \in Nat
    BY <1>3, Midst, Zenon
  <1>5. /\ pc'[l] = "lock" \/ (pc'[l] = "idle" /\ flushing' = flushing)
        /\ curr'[l] = addr[l] + cpysz[l]
        /\ pos'[l] = pos[l] + cpysz[l]
    BY <1>1, <1>4, ZenonT(30) DEF Store, Step, PcOK, RegOK
  <1>6. ~AtClose(l)' /\ ~AtClose(l) /\ \A w \in Threads : FlusherAt(l, w)'
    <2>1. flushing'[l] # l \/ pc'[l] = "lock"
      BY <1>4, <1>5, SMTT(30)
    <2> QED
      BY <1>4, <2>1, AloneNext, SMTT(30)
  <1> DEFINE n == Fill(l)
             c == cpysz[l]
             p == pos[l]
  <1>7. Fill(l)' = n + c
    BY <1>2, <1>4, <1>5 DEF Fill, OwnerAt
  <1>8. /\ RunIn(buffer[l], 0, n, p - n) /\ RunIn(buffer[l], n, c, p) /\ n <= p
    BY <1>2, <1>4, ZenonT(30) DEF DataAt, OwnerAt
  <1>9. n \in Nat /\ c \in Nat /\ p \in Nat /\ pos'[l] = p + c
    BY <1>4, <1>5
  <1> HIDE DEF n, c, p
  <1>10. (p + c) - (n + c) = p - n
    BY <1>9, SMTT(30)
  <1>11. RunIn(buffer'[l], 0, n + c, p - n)
    <2> SUFFICES ASSUME NEW i \in 0 .. (n + c) - 1 PROVE buffer[l][0 + i] = (p - n) + i
      BY <1>2, SMTT(30) DEF RunIn
    <2>1. CASE i < n
      <3>1. i \in 0 .. n - 1
        BY <1>9, <2>1, SMTT(30)
      <3> QED
        BY <1>8, <3>1 DEF RunIn
    <2>2. CASE i >= n
      <3>1. i - n \in 0 .. c - 1
        BY <1>9, <2>2, SMTT(30)
      <3>2. buffer[l][n + (i - n)] = p + (i - n)
        BY <1>8, <3>1 DEF RunIn
      <3>3. n + (i - n) = 0 + i /\ p + (i - n) = (p - n) + i
        BY <1>9, SMTT(30)
      <3> QED
        BY <3>2, <3>3
    <2> QED
      BY <1>9, <2>1, <2>2, SMTT(30)
  <1>12. DataAt(l)'
    <2>1. /\ Ascending(file'[l]) /\ Below(file'[l], p - n)
          /\ l \notin failed' => Covers(file'[l], p - n)
      BY <1>2, <1>4, <1>6, Zenon DEF DataAt, p, n
    <2>2. Below(file'[l], p + c)
      BY <1>9, <2>1, BelowMore, SMTT(30)
    <2> QED
      BY <1>6, <1>7, <1>8, <1>9, <1>10, <1>11, <2>1, <2>2 DEF DataAt
  <1>13. OwnerAt(l)'
    BY <1>5, SMTT(30) DEF OwnerAt
  <1>14. pc'[l] \notin Initialising
    BY <1>5 DEF Initialising
  <1> QED
    BY <1>6, <1>12, <1>13, <1>14 DEF StreamAt

(* What a flush of the logger leaves alone, whoever makes it: the owner is *)
(* not in the midst of a copy.                                             *)
LEMMA FlushFrame ==
    ASSUME NEW l, Now(l), Apart(l)', pc' # Dead,
           NEW t \in Threads, Calls(t) \/ Running(t), flush_logger(t), flushing[t] = l
    PROVE  /\ pos' = pos /\ buffer' = buffer /\ pos[l] \in Nat /\ l \in Threads
           /\ Started(l)' => Started(l) /\ DataAt(l) /\ \A w \in Threads : FlusherAt(l, w)
           /\ \A w \in Threads \ {t} : SameDeep(l, w)
           /\ pc[t] \in Writing =>
                  \A w \in Threads \ {t} : ~(flushing[w] = l /\ pc[w] \in Writing)
           /\ (Started(l)' => DataAt(l)' /\ \A w \in Threads : FlusherAt(l, w)')
                  => StreamAt(l)'
  <1>1. /\ PcOK /\ RegOK /\ FlOK /\ BlockOK /\ FlushAt(t) /\ FlushAt(l) /\ Apart(l)
        /\ LockInv /\ StreamAt(l) /\ l \in Threads /\ l \notin early
    BY Zenon DEF Now, IInv, Types, FlushInv, StreamAt
  <1>2. pos' = pos /\ buffer' = buffer
    BY Zenon DEF flush_logger, LockLogger, set_bigbuffer_ptr, OpenFails, DropPtr, DropCurr,
                 WriteBlockHead, WriteBlockData, Close, app
  <1>3. \A w \in Threads \ {t} : SameDeep(l, w) /\ Kept(w)
    BY <1>1, OthersDeep, Frame, ZenonT(30)
  <1>4. /\ pc[t] \in Flushing
        /\ pc'[t] \in Flushing \cup {"idle", "avail", "dest", "nextarea"}
    <2>1. pc[t] \in Flushing /\ (pc'[t] \in Flushing \/ pc'[t] = then[t])
      BY <1>1, ZenonT(30) DEF flush_logger, LockLogger, set_bigbuffer_ptr, OpenFails, DropPtr,
             DropCurr, WriteBlockHead, WriteBlockData, Close, Step, Die, Dead, PcOK, Flushing
    <2> QED
      BY <1>1, <2>1 DEF FlOK
  <1>5. /\ pc'[l] \notin {"copy", "load", "store"} /\ pc'[l] \notin Initialising
        /\ Started(l)' => Started(l)
    <2>1. CASE t = l
      BY <1>4, <2>1, SMTT(30) DEF Flushing, Initialising, Started
    <2>2. CASE t # l
      <3>1. pc'[l] = pc[l]
        BY <1>1, <1>3, <2>2, ZenonT(30) DEF Kept
      <3>2. ~Appending(l) /\ pc[l] \notin Initialising
        BY <1>1, <2>2, SMTT(30) DEF Apart
      <3>3. pc[l] \notin Copying
        BY <1>1, <3>2, Zenon DEF FlushAt, Appending, Copying, Initialising
      <3> QED
        BY <3>1, <3>2, <3>3 DEF Copying, Started
    <2> QED
      BY <2>1, <2>2, SMTT(30)
  <1>6. Started(l)' => Started(l) /\ DataAt(l) /\ \A w \in Threads : FlusherAt(l, w)
    BY <1>1, <1>5, Zenon DEF StreamAt
  <1>7. pc[t] \in Writing =>
            \A w \in Threads \ {t} : ~(flushing[w] = l /\ pc[w] \in Writing)
    BY <1>1, ZenonT(30) DEF LockInv, LockAt, InWriting
  <1>8. OwnerAt(l)'
    BY <1>5, ZenonT(30) DEF OwnerAt
  <1>9. pos[l] \in Nat
    BY <1>1, Zenon DEF RegOK
  <1>10. (Started(l)' => DataAt(l)' /\ \A w \in Threads : FlusherAt(l, w)') => StreamAt(l)'
    BY <1>5, <1>8, Zenon DEF StreamAt
  <1> QED
    BY <1>1, <1>2, <1>3, <1>6, <1>7, <1>9, <1>10, Zenon

(* What asm_curr_ptr says of the buffer. *)
LEMMA FillFact ==
    ASSUME NEW l, Now(l), Started(l)
    PROVE  Fill(l) \in Nat /\ CurrOffset(l) = Fill(l)
  <1>1. CursorAt(l) /\ RegOK /\ l \in Threads
    BY Zenon DEF Now, IInv, Types, CursorInv
  <1>2. curr[l] \in ASM_BASE .. asm_end_ptr /\ curr[l] \in Nat
    BY <1>1, Zenon DEF CursorAt, Started, RegOK
  <1>3. curr[l] - ASM_BASE \in 0 .. BIGBUFFER_SZ - 1
    BY <1>2, LoggerAssumption DEF asm_end_ptr
  <1>4. (curr[l] - ASM_BASE) % AddrSpace = curr[l] - ASM_BASE
    BY <1>3, LoggerAssumption
  <1> QED
    BY <1>3, <1>4, LoggerAssumption DEF Fill, CurrOffset

(* bb.ptr becomes the number of bytes that are buffered. *)
LEMMA StreamSetPtr ==
    ASSUME NEW l, Now(l), Apart(l)', pc' # Dead,
           NEW t \in Threads, Calls(t) \/ Running(t), set_bigbuffer_ptr(t), flushing[t] = l
    PROVE  StreamAt(l)'
  <1>1. flush_logger(t)
    BY Zenon DEF flush_logger
  <1>2. /\ PcOK /\ RegOK /\ l \in Threads
    BY Zenon DEF Now, IInv, Types
  <1>3. /\ pc[t] = "setptr" /\ pc'[t] = "open" /\ flushing' = flushing
        /\ UNCHANGED <<curr, file, failed>> /\ ptr'[l] = CurrOffset(l)
    BY <1>2, Zenon DEF set_bigbuffer_ptr, Step, Die, Dead, PcOK, RegOK, fl
  <1>4. pc[t] \in Writing
    BY <1>3 DEF Writing
  <1>5. SUFFICES ASSUME Started(l)'
                 PROVE  DataAt(l)' /\ \A w \in Threads : FlusherAt(l, w)'
    BY <1>1, FlushFrame, Zenon
  <1>6. /\ pos' = pos /\ buffer' = buffer /\ Started(l) /\ DataAt(l)
        /\ \A w \in Threads : FlusherAt(l, w)
        /\ \A w \in Threads \ {t} : SameDeep(l, w)
        /\ \A w \in Threads \ {t} : ~(flushing[w] = l /\ pc[w] \in Writing)
    BY <1>1, <1>4, <1>5, FlushFrame, ZenonT(30)
  <1>7. ~AtClose(l) /\ ~AtClose(l)'
    BY <1>3, <1>6, ZenonT(30) DEF AtClose, SameDeep, Deep, Writing
  <1>8. Fill(l)' = Fill(l) /\ ptr'[l] = Fill(l)
    BY <1>3, <1>6, FillFact, ZenonT(30) DEF Fill
  <1>9. DataAt(l)'
    BY <1>3, <1>6, <1>7, <1>8, ZenonT(30) DEF DataAt
  <1>10. FlusherAt(l, t)'
    BY <1>3, <1>6, <1>7, <1>8, ZenonT(30) DEF FlusherAt, DataAt, Pending
  <1>11. ASSUME NEW w \in Threads \ {t} PROVE FlusherAt(l, w)'
    BY <1>3, <1>6, <1>8, Zenon DEF FlusherAt, SameDeep, Deep, Writing
  <1> QED
    BY <1>9, <1>10, <1>11

(* What is lost when the log cannot be opened is noted. *)
LEMMA StreamOpenFails ==
    ASSUME NEW l, Now(l), Apart(l)', pc' # Dead,
           NEW t \in Threads, Calls(t) \/ Running(t), OpenFails(t), flushing[t] = l
    PROVE  StreamAt(l)'
  <1>1. flush_logger(t)
    BY Zenon DEF flush_logger
  <1>2. /\ PcOK /\ RegOK /\ l \in Threads
    BY Zenon DEF Now, IInv, Types
  <1>3. /\ pc[t] = "open" /\ pc'[t] = "dropptr" /\ flushing' = flushing
        /\ UNCHANGED <<curr, file, ptr>>
        /\ l \notin failed' => l \notin failed /\ ptr[l] = 0
    BY <1>2, ZenonT(30) DEF OpenFails, Step, PcOK, fl
  <1>4. pc[t] \in Writing
    BY <1>3, ZenonT(30) DEF Writing
  <1>5. SUFFICES ASSUME Started(l)'
                 PROVE  DataAt(l)' /\ \A w \in Threads : FlusherAt(l, w)'
    BY <1>1, FlushFrame, Zenon
  <1>6. /\ pos' = pos /\ buffer' = buffer /\ Started(l) /\ DataAt(l)
        /\ \A w \in Threads : FlusherAt(l, w)
        /\ \A w \in Threads \ {t} : SameDeep(l, w)
        /\ \A w \in Threads \ {t} : ~(flushing[w] = l /\ pc[w] \in Writing)
    BY <1>1, <1>4, <1>5, FlushFrame, Zenon
  <1>7. ~AtClose(l) /\ ~AtClose(l)'
    BY <1>3, <1>6, ZenonT(30) DEF AtClose, SameDeep, Deep, Writing
  <1>8. Fill(l)' = Fill(l)
    BY <1>3, ZenonT(30) DEF Fill
  <1>9. DataAt(l)'
    BY <1>3, <1>6, <1>7, <1>8, ZenonT(30) DEF DataAt
  <1>10. FlusherAt(l, t)'
    BY <1>3, <1>6, <1>8, ZenonT(30) DEF FlusherAt, Pending
  <1>11. ASSUME NEW w \in Threads \ {t} PROVE FlusherAt(l, w)'
    BY <1>3, <1>6, <1>8, Zenon DEF FlusherAt, SameDeep, Deep, Writing
  <1> QED
    BY <1>9, <1>10, <1>11

(* bb.ptr and asm_curr_ptr are reset after a failed open, without the      *)
(* mutex: another flush may be under way.                                  *)
LEMMA StreamDrop ==
    ASSUME NEW l, Now(l), Apart(l)', pc' # Dead,
           NEW t \in Threads, Calls(t) \/ Running(t), DropPtr(t) \/ DropCurr(t), flushing[t] = l
    PROVE  StreamAt(l)'
  <1>1. flush_logger(t)
    BY Zenon DEF flush_logger
  <1>2. /\ PcOK /\ RegOK /\ FlOK /\ l \in Threads /\ l # NoThread
    BY LoggerAssumption DEF Now, IInv, Types
  <1>3. /\ pc[t] \in {"dropptr", "dropcurr"}
        /\ UNCHANGED <<file, failed, block>>
        /\ ptr'[l] \in {ptr[l], 0} /\ curr'[l] \in {curr[l], ASM_BASE}
        /\ flushing'[t] # l \/ pc'[t] = "dropcurr"
    BY <1>2, Zenon DEF DropPtr, DropCurr, Step, PcOK, RegOK, FlOK, fl
  <1>5. SUFFICES ASSUME Started(l)'
                 PROVE  DataAt(l)' /\ \A w \in Threads : FlusherAt(l, w)'
    BY <1>1, FlushFrame, Zenon
  <1>6. /\ pos' = pos /\ buffer' = buffer /\ Started(l) /\ DataAt(l)
        /\ \A w \in Threads : FlusherAt(l, w)
        /\ \A w \in Threads \ {t} : SameDeep(l, w)
        /\ pos[l] \in Nat
    BY <1>1, <1>5, FlushFrame, ZenonT(30)
  <1>7. AtClose(l)' <=> AtClose(l)
    BY <1>3, <1>6 DEF AtClose, SameDeep, Deep
  <1>8. /\ Fill(l) \in Nat
        /\ Fill(l)' = Fill(l) \/ Fill(l)' = 0
        /\ l \notin failed => Fill(l) = 0
    <2>1. l \notin failed => Fill(l) = 0
      BY <1>3, <1>6, ZenonT(30) DEF FlusherAt
    <2>2. Fill(l) \in Nat
      BY <1>6, FillFact, ZenonT(30)
    <2>3. Fill(l)' = Fill(l) \/ Fill(l)' = 0
      BY <1>3, NoFill, ZenonT(30) DEF Fill
    <2> QED
      BY <2>1, <2>2, <2>3, SMTT(30)
  <1>9. \A b, v, a : RunIn(b, a, 0, v)
    BY EmptyRun, Zenon
  <1>10. pos[l] - 0 = pos[l]
    BY <1>6, ZeroFact, Zenon
  <1>11. DataAt(l)'
    <2>1. 0 <= pos[l]
      BY <1>6, ZeroFact, Zenon
    <2>2. CASE Fill(l)' = Fill(l)
      BY <1>3, <1>6, <1>7, <2>2, ZenonT(30) DEF DataAt
    <2>3. CASE Fill(l)' = 0
      BY <1>3, <1>6, <1>7, <1>8, <1>9, <1>10, <2>1, <2>3, ZenonT(30) DEF DataAt
    <2> QED
      BY <1>8, <2>2, <2>3, Zenon
  <1>12. FlusherAt(l, t)'
    BY <1>3, <1>6, <1>8, Zenon DEF FlusherAt
  <1>13. ASSUME NEW w \in Threads \ {t} PROVE FlusherAt(l, w)'
    <2>1. FlusherAt(l, w) /\ SameDeep(l, w)
      BY <1>6, Zenon
    <2>2. l \notin failed => Fill(l)' = 0
      BY <1>8, SMTT(30)
    <2>3. \A n : Pending(l, n) => Pending(l, n)'
      BY <1>3, <1>6, <1>8, SMTT(30) DEF Pending
    <2>4. (Pending(l, 0) /\ RunIn(buffer[l], 0, 0, pos[l] - 0))'
      <3>1. 0 <= pos'[l] /\ pos'[l] - 0 = pos'[l]
        BY <1>6, ZeroFact, Zenon
      <3>2. Below(file[l], pos[l])'
        BY <1>11, Zenon DEF DataAt
      <3>3. l \notin failed' => 0 = Fill(l)'
        BY <1>3, <2>2, Zenon
      <3> QED
        BY <1>9, <3>1, <3>2, <3>3, Zenon DEF Pending
    <2> QED
      BY <1>3, <1>6, <2>1, <2>2, <2>3, <2>4, ZenonT(30) DEF FlusherAt, SameDeep, Deep
  <1> QED
    BY <1>11, <1>12, <1>13

(* The head of a block: what is to follow is what is buffered. *)
LEMMA StreamHead ==
    ASSUME NEW l, Now(l), Apart(l)', pc' # Dead,
           NEW t \in Threads, Calls(t) \/ Running(t), WriteBlockHead(t), flushing[t] = l
    PROVE  StreamAt(l)'
  <1>1. flush_logger(t)
    BY Zenon DEF flush_logger
  <1>2. /\ PcOK /\ RegOK /\ FileOK /\ BlockOK /\ BufferOK /\ PtrInv /\ l \in Threads
    BY Zenon DEF Now, IInv, Types
  <1> DEFINE b == [i \in 1 .. ptr[l] |-> buffer[l][i - 1]]
             x == Item("head", ptr[l], <<>>)
  <1>3. /\ pc[t] = "open" /\ flushing' = flushing
        /\ UNCHANGED <<curr, failed, ptr>>
        /\ \/ pc'[t] = "close" /\ ptr[l] = 0 /\ file'[l] = file[l]
           \/ pc'[t] = "blockdata" /\ block'[t] = b /\ file'[l] = Append(file[l], x)
    <2>1. pc[t] = "open" /\ flushing' = flushing /\ UNCHANGED <<curr, failed, ptr>>
      BY Zenon DEF WriteBlockHead, Step, Die, app
    <2>2. CASE pc' = [pc EXCEPT ![t] = "close"] /\ ptr[l] = 0 /\ file' = file
      BY <1>2, <2>1, <2>2, Zenon DEF PcOK
    <2>3. CASE /\ pc' = [pc EXCEPT ![t] = "blockdata"]
               /\ block' = [block EXCEPT ![t] = b]
               /\ file' = [file EXCEPT ![l] = Append(file[l], x)]
      <3> HIDE DEF b, x
      <3> QED
        BY <1>2, <2>1, <2>3, Zenon DEF PcOK, FileOK, BlockOK
    <2> QED
      BY <2>1, <2>2, <2>3, Zenon DEF WriteBlockHead, Step, Die, Dead
  <1>4. pc[t] \in Writing
    BY <1>3, Zenon DEF Writing
  <1>5. SUFFICES ASSUME Started(l)'
                 PROVE  DataAt(l)' /\ \A w \in Threads : FlusherAt(l, w)'
    BY <1>1, FlushFrame, Zenon
  <1>6. /\ pos' = pos /\ buffer' = buffer /\ Started(l) /\ DataAt(l)
        /\ \A w \in Threads : FlusherAt(l, w)
        /\ \A w \in Threads \ {t} : SameDeep(l, w)
        /\ \A w \in Threads \ {t} : ~(flushing[w] = l /\ pc[w] \in Writing)
        /\ pos[l] \in Nat
    BY <1>1, <1>4, <1>5, FlushFrame, ZenonT(30)
  <1>7. ~AtClose(l) /\ (AtClose(l)' => ptr[l] = 0)
    <2>1. ~AtClose(l)
      <3>1. pc[t] # "close"
        BY <1>3, Zenon
      <3>2. \A w \in Threads \ {t} : ~(flushing[w] = l /\ pc[w] = "close")
        BY <1>6, Zenon DEF Writing
      <3> QED
        BY <3>1, <3>2, Zenon DEF AtClose
    <2>2. \A w \in Threads \ {t} : ~(flushing'[w] = l /\ pc'[w] = "close")
      BY <1>6, Zenon DEF SameDeep, Deep, Writing
    <2>3. pc'[t] = "close" => ptr[l] = 0
      <3>1. pc'[t] = "blockdata" => pc'[t] # "close"
        OBVIOUS
      <3> QED
        BY <1>3, <3>1, Zenon
    <2> QED
      BY <2>1, <2>2, <2>3, Zenon DEF AtClose
  <1>8. Fill(l)' = Fill(l) /\ Fill(l) \in Nat
    BY <1>3, <1>6, FillFact, Zenon DEF Fill
  <1>9. Pending(l, ptr[l]) /\ RunIn(buffer[l], 0, ptr[l], pos[l] - ptr[l])
    BY <1>3, <1>6, Zenon DEF FlusherAt
  <1>10. /\ ptr[l] \in Nat /\ ptr[l] < BIGBUFFER_SZ /\ buffer[l] \in [Offsets -> Int]
         /\ file[l] \in Seq(Items)
    <2>1. pc # Dead
      BY <1>3, SMTT(30) DEF Dead
    <2> QED
      BY <1>2, <2>1, ZenonT(30) DEF RegOK, PtrInv, BufferOK, FileOK
  <1>11. x \in Items /\ x.bytes = <<>>
    BY <1>10, ItemFact, SMTT(30) DEF Item
  <1>12. b \in Seq(Int) /\ Len(b) = ptr[l]
    BY <1>10, BlockFact, SMTT(30)
  <1>13. RunIn(b, 1, ptr[l], pos[l] - ptr[l])
    <2> SUFFICES ASSUME NEW i \in 0 .. ptr[l] - 1 PROVE b[1 + i] = (pos[l] - ptr[l]) + i
      BY SMTT(30) DEF RunIn
    <2>1. 1 + i \in 1 .. ptr[l] /\ (1 + i) - 1 = 0 + i
      BY <1>10, SMTT(30)
    <2>2. buffer[l][0 + i] = (pos[l] - ptr[l]) + i
      BY <1>9, SMTT(30) DEF RunIn
    <2> QED
      BY <2>1, <2>2
  <1> HIDE DEF b, x
  <1>14. /\ Ascending(file[l]) => Ascending(file'[l])
         /\ \A n : Below(file[l], n) => Below(file'[l], n)
         /\ \A n : Covers(file[l], n) => Covers(file'[l], n)
    BY <1>3, <1>10, <1>11, HeadItem, ZenonT(30)
  <1>15. DataAt(l)'
    <2>1. l \notin failed /\ AtClose(l)' => pos[l] - Fill(l) = pos[l]
      BY <1>3, <1>6, <1>7, <1>9, ZeroFact, ZenonT(30) DEF Pending
    <2> QED
      BY <1>3, <1>6, <1>7, <1>8, <1>14, <2>1, ZenonT(30) DEF DataAt
  <1>16. Pending(l, ptr[l])'
    BY <1>3, <1>6, <1>8, <1>9, <1>14, ZenonT(30) DEF Pending
  <1>17. FlusherAt(l, t)'
    <2>1. CASE pc'[t] = "close"
      BY <2>1, ZenonT(30) DEF FlusherAt
    <2>2. CASE pc'[t] = "blockdata" /\ block'[t] = b
      <3>1. Len(block'[t]) = ptr'[l]
        BY <1>3, <1>12, <2>2, ZenonT(30)
      <3> QED
        BY <1>3, <1>6, <1>13, <1>16, <2>2, <3>1, ZenonT(30) DEF FlusherAt
    <2> QED
      BY <1>3, <2>1, <2>2, ZenonT(30)
  <1>18. ASSUME NEW w \in Threads \ {t} PROVE FlusherAt(l, w)'
    BY <1>3, <1>6, <1>8, Zenon DEF FlusherAt, SameDeep, Deep, Writing
  <1> QED
    BY <1>15, <1>17, <1>18

(* The data of a block continue the log. *)
LEMMA StreamData ==
    ASSUME NEW l, Now(l), Apart(l)', pc' # Dead,
           NEW t \in Threads, Calls(t) \/ Running(t), WriteBlockData(t), flushing[t] = l
    PROVE  StreamAt(l)'
  <1>1. flush_logger(t)
    BY Zenon DEF flush_logger
  <1>2. /\ PcOK /\ RegOK /\ FileOK /\ BlockOK /\ l \in Threads
    BY Zenon DEF Now, IInv, Types
  <1> DEFINE x == Item("data", 0, block[t])
             c == Len(block[t])
  <1>3. /\ pc[t] = "blockdata" /\ pc'[t] = "close" /\ flushing' = flushing
        /\ UNCHANGED <<curr, failed, ptr>>
        /\ file'[l] = Append(file[l], x)
    BY <1>2, ZenonT(30) DEF WriteBlockData, Step, Die, Dead, PcOK, FileOK
  <1>4. pc[t] \in Writing
    BY <1>3, SMTT(30) DEF Writing
  <1>5. SUFFICES ASSUME Started(l)'
                 PROVE  DataAt(l)' /\ \A w \in Threads : FlusherAt(l, w)'
    BY <1>1, FlushFrame, Zenon
  <1>6. /\ pos' = pos /\ buffer' = buffer /\ Started(l) /\ DataAt(l)
        /\ \A w \in Threads : FlusherAt(l, w)
        /\ \A w \in Threads \ {t} : SameDeep(l, w)
        /\ \A w \in Threads \ {t} : ~(flushing[w] = l /\ pc[w] \in Writing)
        /\ pos[l] \in Nat
    BY <1>1, <1>4, <1>5, FlushFrame, Zenon
  <1>7. AtClose(l)'
    BY <1>3, SMTT(30) DEF AtClose
  <1>8. Fill(l)' = Fill(l) /\ Fill(l) \in Nat
    BY <1>3, <1>6, FillFact, ZenonT(30) DEF Fill
  <1>9. Pending(l, c) /\ RunIn(block[t], 1, c, pos[l] - c)
    BY <1>3, <1>6, ZenonT(30) DEF FlusherAt
  <1>10. file[l] \in Seq(Items) /\ c \in Nat
    BY <1>2 DEF FileOK, BlockOK
  <1>11. x \in Items /\ x.bytes = block[t]
    BY <1>2, ItemFact, SMTT(30) DEF Item, BlockOK
  <1> DEFINE v == pos[l] - c
  <1>12. v \in Nat /\ v + c = pos[l] /\ Below(file[l], v) /\ (l \notin failed => c = Fill(l))
    BY <1>6, <1>9, <1>10, PartFact, ZenonT(30) DEF Pending
  <1>13. Ascending(file[l]) /\ (l \notin failed => Covers(file[l], v))
    BY <1>6, <1>12, ZenonT(30) DEF DataAt
  <1>14. RunIn(x.bytes, 1, Len(x.bytes), v) /\ Len(x.bytes) = c
    BY <1>9, <1>11, ZenonT(30)
  <1> HIDE DEF x, c, v
  <1>15. /\ Ascending(file'[l]) /\ Below(file'[l], pos[l])
         /\ l \notin failed => Covers(file'[l], pos[l])
    BY <1>3, <1>10, <1>11, <1>12, <1>13, <1>14, DataItem, ZenonT(30)
  <1>16. l \notin failed => Covers(file'[l], pos[l] - Fill(l))
    BY <1>6, <1>8, <1>15, CoversLess, Zenon
  <1>17. DataAt(l)'
    BY <1>3, <1>6, <1>7, <1>8, <1>15, <1>16, ZenonT(30) DEF DataAt
  <1>18. FlusherAt(l, t)'
    BY <1>3, ZenonT(30) DEF FlusherAt
  <1>19. ASSUME NEW w \in Threads \ {t} PROVE FlusherAt(l, w)'
    BY <1>3, <1>6, <1>8, Zenon DEF FlusherAt, SameDeep, Deep, Writing
  <1> QED
    BY <1>17, <1>18, <1>19

(* The end of a flush forgets what is in the log. *)
LEMMA StreamClose ==
    ASSUME NEW l, Now(l), Apart(l)', pc' # Dead,
           NEW t \in Threads, Calls(t) \/ Running(t), Close(t), flushing[t] = l
    PROVE  StreamAt(l)'
  <1>1. flush_logger(t)
    BY ZenonT(30) DEF flush_logger
  <1>2. /\ PcOK /\ RegOK /\ FlOK /\ l \in Threads /\ l # NoThread
    BY LoggerAssumption, Zenon DEF Now, IInv, Types
  <1>3. /\ pc[t] = "close" /\ flushing'[t] # l
        /\ UNCHANGED <<file, failed>> /\ curr'[l] = ASM_BASE
    BY <1>2, ZenonT(30) DEF Close, AfterFlush, Step, Die, Dead, PcOK, RegOK, FlOK
  <1>4. pc[t] \in Writing
    BY <1>3, ZenonT(30) DEF Writing
  <1>5. SUFFICES ASSUME Started(l)'
                 PROVE  DataAt(l)' /\ \A w \in Threads : FlusherAt(l, w)'
    BY <1>1, FlushFrame, Zenon
  <1>6. /\ pos' = pos /\ buffer' = buffer /\ Started(l) /\ DataAt(l)
        /\ \A w \in Threads : FlusherAt(l, w)
        /\ \A w \in Threads \ {t} : SameDeep(l, w)
        /\ \A w \in Threads \ {t} : ~(flushing[w] = l /\ pc[w] \in Writing)
        /\ pos[l] \in Nat
    BY <1>1, <1>4, <1>5, FlushFrame, Zenon
  <1>7. AtClose(l) /\ ~AtClose(l)'
    BY <1>3, <1>6, ZenonT(30) DEF AtClose, SameDeep, Deep, Writing
  <1>8. Fill(l)' = 0 /\ pos[l] - 0 = pos[l]
    BY <1>3, <1>6, NoFill, ZeroFact, Zenon DEF Fill
  <1>9. \A b, v : RunIn(b, 0, 0, v)
    BY EmptyRun, Zenon
  <1>10. DataAt(l)'
    <2>1. 0 <= pos[l]
      BY <1>6, ZeroFact, Zenon
    <2> QED
      BY <1>3, <1>6, <1>7, <1>8, <1>9, <2>1, ZenonT(30) DEF DataAt
  <1>11. FlusherAt(l, t)'
    BY <1>3, ZenonT(30) DEF FlusherAt
  <1>12. ASSUME NEW w \in Threads \ {t} PROVE FlusherAt(l, w)'
    BY <1>6, <1>8, ZenonT(30) DEF FlusherAt, SameDeep, Deep, Writing
  <1> QED
    BY <1>10, <1>11, <1>12

(* The owner may flush another thread's logger. *)
LEMMA StreamAbroad ==
    ASSUME NEW l, Now(l), Apart(l)', pc' # Dead,
           Calls(l) \/ Running(l), flush_logger(l), flushing[l] # l
    PROVE  StreamAt(l)'
  <1>1. /\ PcOK /\ RegOK /\ FlOK /\ BufferOK /\ FileOK /\ BlockOK
        /\ StreamAt(l) /\ l \in Threads /\ l # NoThread
    BY LoggerAssumption, SMTT(30) DEF Now, IInv, Types
  <1>2. /\ pc[l] \in Flushing
        /\ pc'[l] \in Flushing \cup {"idle", "avail", "dest", "nextarea"}
        /\ flushing'[l] # l
    <2>1. /\ pc[l] \in Flushing /\ (pc'[l] \in Flushing \/ pc'[l] = then[l])
          /\ flushing'[l] \in {flushing[l], NoThread}
      BY <1>1, Zenon DEF flush_logger, LockLogger, set_bigbuffer_ptr, OpenFails, DropPtr,
             DropCurr, WriteBlockHead, WriteBlockData, Close, Step, Die, Dead, PcOK, FlOK,
             Flushing, fl
    <2> QED
      BY <1>1, <2>1 DEF FlOK
  <1>3. Still(l)
    <2>1. UNCHANGED <<pos, buffer>>
      BY Zenon DEF flush_logger, LockLogger, set_bigbuffer_ptr, OpenFails, DropPtr, DropCurr,
                   WriteBlockHead, WriteBlockData, Close, app
    <2>2. curr' = curr \/ \E v, d : d # l /\ curr' = [curr EXCEPT ![d] = v]
      BY Zenon DEF flush_logger, LockLogger, set_bigbuffer_ptr, OpenFails, DropPtr, DropCurr,
                   WriteBlockHead, WriteBlockData, Close
    <2>3. ptr' = ptr \/ \E v, d : d # l /\ ptr' = [ptr EXCEPT ![d] = v]
      BY Zenon DEF flush_logger, LockLogger, set_bigbuffer_ptr, OpenFails, DropPtr, DropCurr,
                   WriteBlockHead, WriteBlockData, Close
    <2>4. file' = file \/ \E v, d : d # l /\ file' = [file EXCEPT ![d] = v]
      BY Zenon DEF flush_logger, LockLogger, set_bigbuffer_ptr, OpenFails, DropPtr, DropCurr,
                   WriteBlockHead, WriteBlockData, Close
    <2>5. l \in failed' <=> l \in failed
      BY Zenon DEF flush_logger, LockLogger, set_bigbuffer_ptr, OpenFails, DropPtr, DropCurr,
                   WriteBlockHead, WriteBlockData, Close
    <2>6. curr'[l] = curr[l] /\ ptr'[l] = ptr[l]
      BY <1>1, <2>2, <2>3, Zenon DEF RegOK
    <2>7. file'[l] = file[l]
      BY <1>1, <2>4, Zenon DEF FileOK
    <2> QED
      BY <2>1, <2>5, <2>6, <2>7, Zenon DEF Still
  <1>4. \A w \in Threads \ {l} : SameDeep(l, w)
    BY <1>1, OthersDeep, ZenonT(30)
  <1>5. SameDeep(l, l)
    BY <1>2, SMTT(30) DEF SameDeep
  <1>6. /\ pc'[l] \notin Initialising /\ Started(l)
        /\ pc'[l] \notin {"copy", "load", "store"}
    BY <1>2 DEF Flushing, Initialising, Started
  <1>7. \A w \in Threads : SameDeep(l, w)
    BY <1>4, <1>5, ZenonT(30)
  <1> QED
    BY <1>1, <1>3, <1>6, <1>7, StreamStill, Zenon

(* Who flushes a logger takes a step of flush_logger. *)
LEMMA FlusherSteps ==
    ASSUME NEW l, Now(l), NEW t \in Threads, Calls(t) \/ Running(t), flushing[t] = l
    PROVE  flush_logger(t)
  <1>1. FlushAt(t) /\ l # NoThread /\ pc[t] # "dead"
    BY LoggerAssumption, NotDead, SMTT(30) DEF Now, IInv, FlushInv
  <1>2. pc[t] \in Flushing
    BY <1>1, SMTT(30) DEF FlushAt
  <1>3. pc[t] \notin {"start", "linked", "create", "filehead", "idle", "avail", "dest",
                     "copy", "load", "store", "nextarea"}
    BY <1>2 DEF Flushing
  <1> QED
    BY <1>3, ZenonT(30) DEF Calls, Running, Link, init_logger, Create, write_comp_file_head,
           CopySize, Dest, Copy, Load, Store, NextArea, flush_self_logger,
           flush_all_logger, append_logger, append_logger_TYPE, Step, Die

(* Every step keeps the streams. *)
LEMMA StreamStep ==
    ASSUME IInv, StreamInv, NEW t \in Threads, Calls(t) \/ Running(t), History
    PROVE  StreamInv'
  <1> SUFFICES ASSUME NEW l \in Threads \ (early' \cup met') PROVE StreamAt(l)'
    BY Zenon DEF StreamInv
  <1>1. Apart(l)' /\ Now(l)
    BY ApartNext, Zenon DEF StreamInv, Now
  <1>2. CASE pc' = Dead
    <2>1. pc'[l] = "dead"
      BY <1>2, SMTT(30) DEF Dead
    <2> QED
      BY <1>1, <2>1 DEF StreamAt, Started, Initialising
  <1>3. CASE pc' # Dead
    <2>1. CASE t # l /\ flushing[t] # l
      BY <1>1, <1>3, <2>1, StreamElsewhere, Zenon
    <2>2. CASE Quiet(t)
      BY <1>1, <1>3, <2>2, StreamQuiet, Zenon
    <2>3. CASE flushing[t] = l /\ flush_logger(t) /\ ~Quiet(t)
      <3>1. \/ set_bigbuffer_ptr(t) \/ OpenFails(t) \/ DropPtr(t) \/ DropCurr(t)
            \/ WriteBlockHead(t) \/ WriteBlockData(t) \/ Close(t)
        BY <2>3, Zenon DEF flush_logger, Quiet
      <3> QED
        BY <1>1, <1>3, <2>3, <3>1, StreamSetPtr, StreamOpenFails, StreamDrop, StreamHead,
           StreamData, StreamClose, Zenon
    <2>4. CASE t = l /\ ~flush_logger(t) /\ ~Quiet(t)
      <3>1. \/ init_logger(l) \/ Create(l) \/ write_comp_file_head(l)
            \/ Dest(l) \/ Copy(l) \/ Load(l) \/ Store(l)
        BY <2>4, Zenon DEF Calls, Running, Quiet
      <3> QED
        BY <1>1, <1>3, <2>4, <3>1, StreamInit, StreamCreate, StreamLoads, StreamCopy,
           StreamStore, Zenon
    <2>5. CASE t = l /\ flush_logger(t) /\ flushing[t] # l
      BY <1>1, <1>3, <2>5, StreamAbroad, Zenon
    <2>6. flushing[t] = l => flush_logger(t)
      BY <1>1, FlusherSteps, Zenon
    <2> QED
      BY <2>1, <2>2, <2>3, <2>4, <2>5, <2>6
  <1> QED
    BY <1>2, <1>3

(* The streams are kept throughout. *)
LEMMA StreamInvariance == Spec => []StreamInv
  <1>1. Init => StreamInv
    <2> SUFFICES ASSUME Init, NEW l \in Threads PROVE StreamAt(l)
      BY Zenon DEF StreamInv
    <2>1. pc[l] = "start" /\ pos[l] = 0 /\ \A t \in Threads : flushing[t] # l
      BY LoggerAssumption DEF Init
    <2> QED
      BY <2>1 DEF StreamAt, Apart, Started
  <1>2. IInv /\ StreamInv /\ [Next]_vars => StreamInv'
    <2> SUFFICES ASSUME IInv, StreamInv, [Next]_vars PROVE StreamInv'
      OBVIOUS
    <2>1. CASE Next
      BY <2>1, StreamStep, ZenonT(30) DEF Next
    <2>2. CASE UNCHANGED vars
      <3>1. /\ pc' = pc /\ curr' = curr /\ ptr' = ptr /\ buffer' = buffer /\ file' = file
            /\ failed' = failed /\ early' = early /\ met' = met /\ pos' = pos
            /\ addr' = addr /\ cpysz' = cpysz /\ flushing' = flushing /\ then' = then
            /\ block' = block
        BY <2>2 DEF vars, tls, app, fl
      <3> SUFFICES ASSUME NEW l \in Threads \ (early \cup met) PROVE StreamAt(l)'
        BY <3>1 DEF StreamInv
      <3>2. StreamAt(l)
        BY Zenon DEF StreamInv
      <3>3. Still(l) /\ \A w \in Threads : SameDeep(l, w)
        BY <3>1, ZenonT(30) DEF Still, SameDeep
      <3>4. Apart(l)' /\ (Started(l)' => Started(l))
        BY <3>1, <3>2 DEF StreamAt, Apart, Appending, Started
      <3> QED
        BY <3>1, <3>2, <3>3, <3>4, StreamStill, ZenonT(30)
    <2> QED
      BY <2>1, <2>2
  <1> QED
    BY <1>1, <1>2, Invariance, PTL DEF Spec

(* For any number of threads, any buffer and any appends, and however the  *)
(* flushes of flush_all_logger and of the owner meet outside its appends,  *)
(* a log and its buffer hold what the owner has appended, each byte once   *)
(* and in order, and all of it if no open has failed.                      *)
THEOREM StreamSafe == Spec => []StreamKept
  <1>1. IInv /\ StreamInv => StreamKept
    <2> SUFFICES ASSUME IInv, StreamInv,
                        NEW l \in Threads \ (early \cup met),
                        pc[l] \notin Initialising \cup {"dead"}
                 PROVE  LET Chunks == 1 .. Len(file[l]) + 1
                        IN  /\ \A k, m \in Chunks :
                                  \A i \in DOMAIN Chunk(l, k), j \in DOMAIN Chunk(l, m) :
                                      k < m \/ (k = m /\ i < j) =>
                                          Chunk(l, k)[i] < Chunk(l, m)[j]
                            /\ \A k \in Chunks : \A i \in DOMAIN Chunk(l, k) :
                                  Chunk(l, k)[i] \in 0 .. pos[l] - 1
                            /\ l \notin failed =>
                                  \A n \in 0 .. pos[l] - 1 :
                                      \E k \in Chunks : \E i \in DOMAIN Chunk(l, k) :
                                          Chunk(l, k)[i] = n
      BY Zenon DEF StreamKept
    <2> DEFINE f == file[l]
               n == Len(f)
               p == pos[l]
               c == IF AtClose(l) THEN 0 ELSE Fill(l)
               b == Buffered(l)
    <2>1. Started(l) /\ Now(l)
      BY Zenon DEF Started, Initialising, Now, StreamInv
    <2>2. DataAt(l)
      BY <2>1, Zenon DEF Now, StreamAt
    <2>3. Fill(l) \in Nat /\ f \in Seq(Items) /\ p \in Nat
      BY <2>1, FillFact, ZenonT(30) DEF Now, IInv, Types, FileOK, RegOK
    <2>4. n \in Nat /\ DOMAIN f = 1 .. n /\ n + 1 \notin DOMAIN f
      BY <2>3
    <2>5. c \in 0 .. p /\ DOMAIN b = 1 .. c /\ \A i \in 1 .. c : b[i] = (p - c) + (i - 1)
      <3>1. CASE AtClose(l)
        <4>1. b = <<>> /\ c = 0
          BY <3>1, SMTT(30) DEF AtClose, Buffered
        <4> QED
          BY <2>3, <4>1, SMTT(30)
      <3>2. CASE ~AtClose(l)
        <4>1. c = Fill(l) /\ b = [i \in 1 .. Fill(l) |-> buffer[l][i - 1]]
          BY <3>2, SMTT(30) DEF AtClose, Buffered, Fill
        <4>2. Fill(l) <= p /\ RunIn(buffer[l], 0, Fill(l), p - Fill(l))
          BY <2>2, SMTT(30) DEF DataAt
        <4>3. ASSUME NEW i \in 1 .. c PROVE b[i] = (p - c) + (i - 1)
          <5>1. i - 1 \in 0 .. Fill(l) - 1 /\ 0 + (i - 1) = i - 1
            BY <2>3, <4>1, SMTT(30)
          <5> QED
            BY <4>1, <4>2, <5>1, SMTT(30) DEF RunIn
        <4>4. DOMAIN b = 1 .. c
          BY <4>1, SMTT(30)
        <4>5. c \in 0 .. p
          BY <2>3, <4>1, <4>2, SMTT(30)
        <4> QED
          BY <4>3, <4>4, <4>5, SMTT(30)
      <3> QED
        BY <3>1, <3>2, SMTT(30)
    <2>6. Ascending(f) /\ Below(f, p - c) /\ (l \notin failed => Covers(f, p - c))
      <3>1. p - 0 = p
        BY <2>3
      <3> QED
        BY <2>2, <3>1 DEF DataAt
    <2>7. \A k \in 1 .. n + 1 : Chunk(l, k) = IF k \in 1 .. n THEN f[k].bytes ELSE b
      BY <2>4, SMTT(30) DEF Chunk
    <2> HIDE DEF f, n, p, c, b
    <2> DEFINE C(k) == IF k \in 1 .. n THEN f[k].bytes ELSE b
    <2>8. ASSUME NEW k \in 1 .. n + 1, NEW m \in 1 .. n + 1,
                 NEW i \in DOMAIN C(k), NEW j \in DOMAIN C(m),
                 k < m \/ (k = m /\ i < j)
          PROVE  C(k)[i] < C(m)[j]
      <3>1. CASE m \in 1 .. n
        <4>1. k \in 1 .. n
          BY <2>4, <3>1, <2>8, SMTT(30)
        <4> QED
          BY <2>4, <2>6, <2>8, <3>1, <4>1, SMTT(30) DEF Ascending
      <3>2. CASE m = n + 1 /\ k \in 1 .. n
        <4>1. C(k)[i] \in 0 .. (p - c) - 1
          BY <2>4, <2>6, <3>2, SMTT(30) DEF Below
        <4>2. C(m)[j] = (p - c) + (j - 1) /\ j \in 1 .. c
          BY <2>4, <2>5, <3>2, SMTT(30)
        <4> QED
          BY <2>3, <2>5, <4>1, <4>2, SMTT(30) DEF p
      <3>3. CASE m = n + 1 /\ k = n + 1
        <4>1. /\ C(m)[j] = (p - c) + (j - 1) /\ j \in 1 .. c
              /\ C(k)[i] = (p - c) + (i - 1) /\ i \in 1 .. c
          BY <2>4, <2>5, <3>3, SMTT(30)
        <4>2. i < j
          BY <2>4, <2>8, <3>3, SMTT(30)
        <4> HIDE DEF C
        <4> QED
          BY <2>3, <2>5, <4>1, <4>2, SMTT(30) DEF p
      <3> QED
        BY <2>4, <3>1, <3>2, <3>3, SMTT(30)
    <2>9. ASSUME NEW k \in 1 .. n + 1, NEW i \in DOMAIN C(k)
          PROVE  C(k)[i] \in 0 .. p - 1
      <3>1. CASE k \in 1 .. n
        <4>1. C(k)[i] \in 0 .. (p - c) - 1
          BY <2>4, <2>6, <3>1, SMTT(30) DEF Below
        <4> QED
          BY <2>3, <2>5, <4>1, SMTT(30) DEF p
      <3>2. CASE k = n + 1
        <4>1. C(k)[i] = (p - c) + (i - 1) /\ i \in 1 .. c
          BY <2>4, <2>5, <3>2, SMTT(30)
        <4> QED
          BY <2>3, <2>5, <4>1, SMTT(30) DEF p
      <3> QED
        BY <2>4, <3>1, <3>2, SMTT(30)
    <2>10. ASSUME l \notin failed, NEW v \in 0 .. p - 1
           PROVE  \E k \in 1 .. n + 1 : \E i \in DOMAIN C(k) : C(k)[i] = v
      <3>1. CASE v < p - c
        <4>1. v \in 0 .. (p - c) - 1
          BY <2>3, <2>5, <3>1, SMTT(30) DEF p
        <4>2. PICK k \in DOMAIN f : \E i \in DOMAIN f[k].bytes : f[k].bytes[i] = v
          BY <2>6, <2>10, <4>1, SMTT(30) DEF Covers
        <4> QED
          BY <2>4, <4>2, SMTT(30)
      <3>2. CASE v >= p - c
        <4> DEFINE i == v - (p - c) + 1
        <4>1. i \in 1 .. c /\ b[i] = v
          <5>1. p \in Nat /\ c \in 0 .. p
            BY <2>3, <2>5 DEF p
          <5>2. i \in 1 .. c /\ (p - c) + (i - 1) = v
            BY <3>2, <5>1
          <5> HIDE DEF i
          <5> QED
            BY <2>5, <5>2, SMTT(30)
        <4>2. C(n + 1) = b /\ n + 1 \in 1 .. n + 1
          BY <2>4
        <4> QED
          BY <2>5, <4>1, <4>2
      <3> QED
        BY <2>3, <2>5, <3>1, <3>2, SMTT(30) DEF p
    <2>11. \A k \in 1 .. n + 1 : Chunk(l, k) = C(k)
      BY <2>7, Zenon
    <2> HIDE DEF C
    <2> QED
      BY <2>8, <2>9, <2>10, <2>11, Zenon DEF f, n, p
  <1> QED
    BY <1>1, Invariance, StreamInvariance, PTL
=============================================================================
