-------------------------- MODULE CheckpointProofs --------------------------
(* The safety properties of Checkpoint, for every layout of the memory and *)
(* every size of the buffer and of what one read returns.                  *)
EXTENDS Checkpoint, FiniteSetTheorems, WellFoundedInduction, TLAPS

USE CheckpointAssumption

Cell == [kind : Kinds, val : {0, 1}]

(* The grandchild's memory without the buckets, and with a buffer at s. *)
Cleared ==
    [p \in Pages |->
        CASE InitKinds[p] = "bucket" -> Unmapped
          [] InitKinds[p] = "own" -> [kind |-> "own", val |-> 1]
          [] OTHER -> [kind |-> InitKinds[p], val |-> 0]]

Full(s) ==
    [p \in Pages |-> IF p \in s .. s + ScratchSz - 1 THEN [kind |-> "anon", val |-> 0]
                        ELSE Cleared[p]]

Runs(s) == Maps(Full(s))

(* x is what ckpt_memseg writes for the line r. *)
Seg(x, r) ==
    /\ Len(x.body) = 8 + SavedSz(r)
    /\ x.body[6] = [start |-> r.start, end |-> r.end, ckpt_sz |-> SavedSz(r)]
    /\ x.body[8] = SavedSz(r)
    /\ \A k \in 1 .. SavedSz(r) :
          InitKinds[r.start + k - 1] \notin {"shared", "own"} => x.body[8 + k] = 0

IMarks == {"", "FN", "FINFO", "FDATA"}

Marks == {"HEAD", "EXEC", "ARGS", "ENVS", "CPU", "TLS", "MEMSEG", "END"}

Words ==
    Nat \cup IMarks \cup {"info"} \cup Kinds \cup [start : Nat, end : Nat, ckpt_sz : Nat]

Sections == [mark : Marks, len : Nat, body : Seq(Words)]

(* A section's length is that of its body. *)
Sized(x) == x \in Sections /\ x.len = Len(x.body)

(* Where the three processes are. *)
Procs ==
    /\ parent \in {"enter", "wait", "user", "dead"}
    /\ child \in {"none", "fork", "zombie", "reaped"}
    /\ grandchild \in {"none", "clear", "info", "map", "seg", "exited", "dead"}
    /\ parent = "enter" => child = "none"
    /\ child \in {"none", "fork"} => grandchild = "none"
    /\ parent = "user" => child = "reaped"

(* What the memories hold. *)
MemInv ==
    /\ snap = InitMem
    /\ pmem \in [Pages -> Cell]
    /\ parent = "enter" => pmem = InitMem
    /\ grandchild \in {"none", "clear"} => cmem = InitMem
    /\ grandchild \in {"info", "map"} => cmem = Cleared
    /\ grandchild = "seg" => cmem = Full(scratch)

(* The buffer has a free page on each side. *)
Island(s) ==
    /\ s \in Nat /\ s - 1 \in Pages /\ s + ScratchSz \in Pages
    /\ \A p \in s - 1 .. s + ScratchSz : Cleared[p].kind = "none"

(* The sections of memory in a file. *)
Saved(f) == {i \in DOMAIN f : f[i].mark = "MEMSEG"}

(* The file holds sections of different lines, all of them dealt with. *)
FileInv ==
    /\ file \in Seq(Sections)
    /\ \A i \in DOMAIN file : Sized(file[i])
    /\ grandchild \in {"none", "clear", "info", "map"} => Saved(file) = {}
    /\ grandchild \in {"none", "clear", "info"} => file = <<>>
    /\ grandchild = "seg" => Island(scratch) /\ lines \subseteq Runs(scratch)
    /\ Saved(file) # {} => Island(scratch)
    /\ \A i \in Saved(file) :
          \E r \in Runs(scratch) : r.start # scratch /\ r \notin lines /\ Seg(file[i], r)
    /\ \A i, j \in Saved(file) : i # j => file[i].body[6].start # file[j].body[6].start
    /\ \A i \in DOMAIN file : file[i].mark = "END" => grandchild = "exited"
    /\ grandchild = "exited" => Island(scratch) /\ lines = {}

CkInv == Procs /\ MemInv /\ FileInv

(* Every line has been passed over, is in the file or is to come. *)
CoverInv ==
    grandchild \in {"seg", "exited"} =>
        \A r \in Runs(scratch) : \/ r.start = scratch \/ r \in lines
                                 \/ \E i \in Saved(file) : Seg(file[i], r)

-----------------------------------------------------------------------------
(* Concatenation of what sections are made of. *)
LEMMA ConcatWords ==
    \A a, b \in Seq(Words) :
        /\ a \o b \in Seq(Words)
        /\ Len(a \o b) = Len(a) + Len(b)
        /\ \A i \in 1 .. Len(a) : (a \o b)[i] = a[i]
        /\ \A i \in 1 .. Len(b) : (a \o b)[Len(a) + i] = b[i]
<1> TAKE a, b \in Seq(Words)
<1>1. a \o b \in Seq(Words)
  OBVIOUS
<1>2. Len(a \o b) = Len(a) + Len(b)
  OBVIOUS
<1>3. \A i \in 1 .. Len(a) : (a \o b)[i] = a[i]
  OBVIOUS
<1>4. \A i \in 1 .. Len(b) : (a \o b)[Len(a) + i] = b[i]
  OBVIOUS
<1> QED
  BY <1>1, <1>2, <1>3, <1>4

(* The parts of a section. *)
Subs == [have_imark : BOOLEAN, imark : IMarks, units : Seq(Words)]

(* A part of a section: its mark, its length and its units. *)
LEMMA SubBodyIs ==
    ASSUME NEW s \in Subs
    PROVE  /\ SubBody(s) \in Seq(Words)
           /\ Len(SubBody(s)) = SubLen(s)
           /\ SubLen(s) \in Nat
           /\ s.have_imark => /\ Len(SubBody(s)) = 2 + Len(s.units)
                              /\ SubBody(s)[2] = Len(s.units)
                              /\ \A k \in 1 .. Len(s.units) : SubBody(s)[2 + k] = s.units[k]
<1>1. CASE s.have_imark
  <2> DEFINE h == <<s.imark, Len(s.units)>>
  <2>1. h \in Seq(Words) /\ Len(h) = 2 /\ h[2] = Len(s.units)
    BY DEF Words, Subs
  <2> DEFINE u == s.units
  <2>2. u \in Seq(Words)
    BY DEF Subs
  <2> HIDE DEF h, u
  <2>0. /\ h \o u \in Seq(Words)
        /\ Len(h \o u) = Len(h) + Len(u)
        /\ \A i \in 1 .. Len(h) : (h \o u)[i] = h[i]
        /\ \A i \in 1 .. Len(u) : (h \o u)[Len(h) + i] = u[i]
    BY <2>1, <2>2, ConcatWords, Zenon
  <2>3. h \o u \in Seq(Words) /\ Len(h \o u) = 2 + Len(u)
    BY <2>1, <2>0
  <2>4. (h \o u)[2] = Len(s.units)
    BY <2>1, <2>0
  <2>5. \A k \in 1 .. Len(u) : (h \o u)[2 + k] = u[k]
    BY <2>1, <2>0
  <2>6. SubBody(s) = h \o s.units
    BY <1>1 DEF SubBody, h
  <2>7. SubLen(s) = Len(s.units) + 2
    BY <1>1 DEF SubLen
  <2> QED
    BY <1>1, <2>2, <2>3, <2>4, <2>5, <2>6, <2>7 DEF u
<1>2. CASE ~ s.have_imark
  <2>1. SubBody(s) = <<>> \o s.units /\ s.units \in Seq(Words)
    BY <1>2 DEF SubBody, Subs
  <2>2. SubBody(s) = s.units
    BY <2>1
  <2>3. SubLen(s) = Len(s.units)
    BY <1>2 DEF SubLen
  <2> QED
    BY <1>2, <2>1, <2>2, <2>3
<1> QED
  BY <1>1, <1>2

(* write_section_sg's two loops agree: the length is that of the body. *)
LEMMA SectionSized ==
    ASSUME NEW mark \in Marks, NEW list \in Seq(Subs)
    PROVE  Sized(Section(mark, list)) /\ Section(mark, list).mark = mark
<1> DEFINE a == Sub(list, 1)  b == Sub(list, 2)  c == Sub(list, 3)
<1>1. NoSub \in Subs
  <2>1. <<>> \in Seq(Words)
    OBVIOUS
  <2> QED
    BY <2>1, Zenon DEF NoSub, Subs, IMarks
<1>2. a \in Subs /\ b \in Subs /\ c \in Subs
  BY <1>1 DEF Sub
<1> DEFINE x == SubBody(a)  y == SubBody(b)  z == SubBody(c)
<1>3. /\ x \in Seq(Words) /\ Len(x) = SubLen(a) /\ Len(x) \in Nat
      /\ y \in Seq(Words) /\ Len(y) = SubLen(b) /\ Len(y) \in Nat
      /\ z \in Seq(Words) /\ Len(z) = SubLen(c) /\ Len(z) \in Nat
  BY <1>2, SubBodyIs
<1>4. SectionBody(list) = x \o y \o z /\ SectionLen(list) = Len(x) + Len(y) + Len(z)
  BY <1>3, Zenon DEF SectionBody, SectionLen
<1> HIDE DEF x, y, z
<1>5. x \o y \in Seq(Words) /\ Len(x \o y) = Len(x) + Len(y)
  BY <1>3, ConcatWords, Zenon
<1>6. x \o y \o z \in Seq(Words) /\ Len(x \o y \o z) = Len(x) + Len(y) + Len(z)
  <2>1. /\ (x \o y) \o z \in Seq(Words)
        /\ Len((x \o y) \o z) = Len(x \o y) + Len(z)
    BY <1>3, <1>5, ConcatWords, Zenon
  <2> QED
    BY <1>5, <2>1, Zenon
<1> QED
  BY <1>3, <1>4, <1>6 DEF Section, Sized, Sections

(* Where the parts of a section of ckpt_memseg lie. *)
LEMMA MemSegIs ==
    ASSUME NEW r \in [start : Nat, end : Nat, kind : Kinds], r.start <= r.end + 1,
           \A k \in 1 .. SavedSz(r) : PageVal(r.start + k - 1) \in Nat
    PROVE  /\ Sized(MemSeg(r)) /\ MemSeg(r).mark = "MEMSEG"
           /\ SavedSz(r) \in Nat
           /\ Len(MemSeg(r).body) = 8 + SavedSz(r)
           /\ MemSeg(r).body[6] =
                 [start |-> r.start, end |-> r.end, ckpt_sz |-> SavedSz(r)]
           /\ MemSeg(r).body[8] = SavedSz(r)
           /\ \A k \in 1 .. SavedSz(r) :
                 MemSeg(r).body[8 + k] = PageVal(r.start + k - 1)
<1> DEFINE cs == SavedSz(r)
           finfo == [start |-> r.start, end |-> r.end, ckpt_sz |-> cs]
           data == [i \in 1 .. cs |-> PageVal(r.start + i - 1)]
           a == [have_imark |-> TRUE, imark |-> "FN", units |-> <<r.kind>>]
           b == [have_imark |-> TRUE, imark |-> "FINFO", units |-> <<finfo>>]
           c == [have_imark |-> TRUE, imark |-> "FDATA", units |-> data]
<1>1. cs \in Nat
  BY DEF SavedSz, get_aval_size
<1> HIDE DEF cs
<1>2. <<r.kind>> \in Seq(Words) /\ Len(<<r.kind>>) = 1
  BY DEF Words
<1>3. finfo \in Words
  BY <1>1 DEF Words
<1>4. <<finfo>> \in Seq(Words) /\ Len(<<finfo>>) = 1 /\ <<finfo>>[1] = finfo
  <2> HIDE DEF finfo
  <2> QED
    BY <1>3
<1>5. data \in Seq(Words) /\ Len(data) = cs
      /\ \A k \in 1 .. cs : data[k] = PageVal(r.start + k - 1)
  <2>1. \A k \in 1 .. cs : PageVal(r.start + k - 1) \in Words
    BY DEF cs, Words
  <2> QED
    BY <1>1, <2>1
<1> HIDE DEF finfo, data
<1>6. a \in Subs /\ b \in Subs /\ c \in Subs
  BY <1>2, <1>4, <1>5 DEF Subs, IMarks
<1>7. a.have_imark /\ b.have_imark /\ c.have_imark
      /\ a.units = <<r.kind>> /\ b.units = <<finfo>> /\ c.units = data
  OBVIOUS
<1> HIDE DEF a, b, c
<1> DEFINE x == SubBody(a)  y == SubBody(b)  z == SubBody(c)
<1>8. x \in Seq(Words) /\ Len(x) = 3
  <2>1. x \in Seq(Words) /\ Len(x) = 2 + Len(a.units)
    BY <1>6, <1>7, SubBodyIs, Zenon
  <2>2. Len(a.units) = 1
    BY <1>2, <1>7
  <2> QED
    BY <2>1, <2>2
<1>9. y \in Seq(Words) /\ Len(y) = 3 /\ y[3] = finfo
  <2>1. y \in Seq(Words) /\ Len(y) = 2 + Len(b.units)
        /\ \A k \in 1 .. Len(b.units) : y[2 + k] = b.units[k]
    BY <1>6, <1>7, SubBodyIs, Zenon
  <2>2. Len(b.units) = 1 /\ b.units[1] = finfo
    BY <1>4, <1>7
  <2>3. y[2 + 1] = b.units[1]
    BY <2>1, <2>2
  <2> QED
    BY <2>1, <2>2, <2>3
<1>10. /\ z \in Seq(Words) /\ Len(z) = 2 + cs /\ z[2] = cs
       /\ \A k \in 1 .. cs : z[2 + k] = PageVal(r.start + k - 1)
  <2>1. z \in Seq(Words) /\ Len(z) = 2 + Len(c.units) /\ z[2] = Len(c.units)
        /\ \A k \in 1 .. Len(c.units) : z[2 + k] = c.units[k]
    BY <1>6, <1>7, SubBodyIs, Zenon
  <2>2. Len(c.units) = cs /\ \A k \in 1 .. cs : c.units[k] = PageVal(r.start + k - 1)
    BY <1>5, <1>7
  <2> QED
    BY <2>1, <2>2
<1> DEFINE list == <<a, b, c>>
<1>11. list \in Seq(Subs) /\ MemSeg(r) = Section("MEMSEG", list)
  BY <1>6 DEF MemSeg, a, b, c, data, finfo, cs
<1>12. Sub(list, 1) = a /\ Sub(list, 2) = b /\ Sub(list, 3) = c
  BY DEF Sub
<1> HIDE DEF list
<1>13. MemSeg(r).body = (x \o y) \o z
  BY <1>11, <1>12, SMTT(30) DEF Section, SectionBody
<1>14. Sized(MemSeg(r)) /\ MemSeg(r).mark = "MEMSEG"
  <2>1. "MEMSEG" \in Marks
    BY DEF Marks
  <2> QED
    BY <1>11, <2>1, SectionSized
<1> HIDE DEF x, y, z
<1> DEFINE w == x \o y
<1>15. w \in Seq(Words) /\ Len(w) = 6 /\ w[6] = finfo
  <2>1. /\ w \in Seq(Words) /\ Len(w) = Len(x) + Len(y)
        /\ \A i \in 1 .. Len(y) : w[Len(x) + i] = y[i]
    BY <1>8, <1>9, ConcatWords, Zenon
  <2>2. w[3 + 3] = y[3]
    BY <1>8, <1>9, <2>1
  <2> QED
    BY <1>8, <1>9, <2>1, <2>2
<1> HIDE DEF w
<1>16. /\ Len(w \o z) = Len(w) + Len(z)
       /\ \A i \in 1 .. Len(w) : (w \o z)[i] = w[i]
       /\ \A i \in 1 .. Len(z) : (w \o z)[Len(w) + i] = z[i]
  BY <1>10, <1>15, ConcatWords, Zenon
<1> DEFINE v == w \o z
<1>17. MemSeg(r).body = v
  BY <1>13 DEF w
<1> HIDE DEF v
<1>18. Len(v) = 8 + cs /\ v[6] = finfo /\ v[8] = cs
  <2>1. Len(v) = 6 + (2 + cs) /\ v[6] = w[6] /\ v[6 + 2] = z[2]
    BY <1>1, <1>10, <1>15, <1>16 DEF v
  <2> QED
    BY <1>1, <1>10, <1>15, <2>1
<1>19. \A k \in 1 .. cs : v[8 + k] = PageVal(r.start + k - 1)
  <2> TAKE k \in 1 .. cs
  <2>1. 2 + k \in 1 .. Len(z) /\ Len(w) = 6
    BY <1>1, <1>10, <1>15
  <2>2. v[6 + (2 + k)] = z[2 + k]
    BY <1>16, <2>1, SMTT(30) DEF v
  <2> QED
    BY <1>1, <1>10, <2>2
<1> QED
  BY <1>1, <1>14, <1>17, <1>18, <1>19 DEF cs, finfo

(* A set of numbers has a least element. *)
LEMMA Least ==
    ASSUME NEW T, T \subseteq Nat, T # {}
    PROVE  \E x \in T : \A y \in T : x <= y
<1>1. PICK x \in T : \A y \in T : ~(<<y, x>> \in OpToRel(<, Nat))
  BY NatLessThanWellFounded, WFMin, Zenon
<1>2. \A y \in T : ~(y < x)
  BY <1>1, Zenon DEF OpToRel
<1> QED
  BY <1>2

(* Every mapped page lies in a line of the maps file. *)
LEMMA RunOf ==
    ASSUME NPages \in Nat, NEW m \in [Pages -> Cell],
           NEW p \in Pages, m[p].kind # "none"
    PROVE  \E r \in Maps(m) : p \in r.start .. r.end
<1> DEFINE K == m[p].kind
           Ends == {q \in p .. NPages : q = NPages \/ m[q + 1].kind # K}
           Backs == {d \in 0 .. p - 1 : p - d = 1 \/ m[p - d - 1].kind # K}
<1>0. p \in 1 .. NPages /\ Pages = 1 .. NPages /\ K \in Kinds \ {"none"}
  BY DEF Pages, Cell
<1>1. PICK q \in Ends : \A x \in Ends : q <= x
  <2>1. NPages \in Ends /\ Ends \subseteq Nat
    BY <1>0
  <2> HIDE DEF Ends
  <2> QED
    BY <2>1, Least, Zenon
<1>2. \A x \in p .. q : m[x].kind = K
  <2> DEFINE Bad == {x \in p .. q : m[x].kind # K}
  <2> SUFFICES ASSUME Bad # {} PROVE FALSE
    OBVIOUS
  <2>1. PICK x \in Bad : \A y \in Bad : x <= y
    <3>1. Bad \subseteq Nat
      BY <1>0
    <3> HIDE DEF Bad
    <3> QED
      BY <3>1, Least, Zenon
  <2>2. x \in p .. q /\ x # p /\ m[x].kind # K
    OBVIOUS
  <2>3. x - 1 \in Ends
    BY <1>0, <1>1, <2>2
  <2> QED
    BY <1>0, <1>1, <2>2, <2>3
<1>3. PICK d \in Backs : \A x \in Backs : d <= x
  <2>1. p - 1 \in Backs /\ Backs \subseteq Nat
    BY <1>0
  <2> HIDE DEF Backs
  <2> QED
    BY <2>1, Least, Zenon
<1>4. \A x \in p - d .. p : m[x].kind = K
  <2> DEFINE Bad == {e \in 0 .. d : m[p - e].kind # K}
  <2>0. Bad = {}
    <3> SUFFICES ASSUME Bad # {} PROVE FALSE
      OBVIOUS
    <3>1. PICK x \in Bad : \A y \in Bad : x <= y
      <4>1. Bad \subseteq Nat
        BY <1>0
      <4> HIDE DEF Bad
      <4> QED
        BY <4>1, Least, Zenon
    <3>2. x \in 0 .. d /\ x # 0 /\ m[p - x].kind # K
      BY <1>0
    <3>3. x - 1 \in 0 .. p - 1 /\ p - (x - 1) - 1 = p - x
      BY <1>0, <1>3, <3>2
    <3>4. x - 1 \in Backs
      BY <3>2, <3>3
    <3>5. d <= x - 1
      <4> HIDE DEF Backs, Bad
      <4> QED
        BY <1>3, <3>4
    <3> QED
      BY <1>0, <1>3, <3>2, <3>5
  <2> TAKE x \in p - d .. p
  <2>1. p - x \in 0 .. d /\ p - (p - x) = x
    BY <1>0, <1>3
  <2> QED
    BY <2>0, <2>1
<1> DEFINE r == [start |-> p - d, end |-> q, kind |-> K]
<1>5. r \in [start : Pages, end : Pages, kind : Kinds \ {"none"}]
  BY <1>0, <1>1, <1>3
<1>6. \A x \in r.start .. r.end : m[x].kind = r.kind
  <2> TAKE x \in r.start .. r.end
  <2>1. x \in p .. q \/ x \in p - d .. p
    BY <1>0, <1>1, <1>3
  <2> QED
    BY <1>2, <1>4, <2>1
<1>7. r.start = 1 \/ m[r.start - 1].kind # r.kind
  BY <1>3
<1>8. r.end = NPages \/ m[r.end + 1].kind # r.kind
  BY <1>1
<1>9. r.start <= r.end
  BY <1>0, <1>1, <1>3, SMTT(30)
<1>10. r \in Maps(m)
  BY <1>5, <1>6, <1>7, <1>8, <1>9 DEF Maps
<1>11. p \in r.start .. r.end
  BY <1>0, <1>1, <1>3
<1> QED
  BY <1>10, <1>11

(* Lines with different starts have no page in common. *)
LEMMA RunsApart ==
    ASSUME NPages \in Nat, NEW m, NEW r \in Maps(m), NEW s \in Maps(m), r.start # s.start
    PROVE  (r.start .. r.end) \cap (s.start .. s.end) = {}
<1>1. ASSUME NEW a \in Maps(m), NEW b \in Maps(m), a.start < b.start,
             NEW p \in a.start .. a.end, p \in b.start .. b.end
      PROVE  FALSE
  <2>1. /\ a.start \in 1 .. NPages /\ a.end \in 1 .. NPages
        /\ b.start \in 1 .. NPages /\ b.end \in 1 .. NPages
        /\ \A x \in a.start .. a.end : m[x].kind = a.kind
        /\ \A x \in b.start .. b.end : m[x].kind = b.kind
        /\ b.start = 1 \/ m[b.start - 1].kind # b.kind
    BY <1>1 DEF Maps, Pages
  <2>2. b.start - 1 \in a.start .. a.end
    BY <1>1, <2>1
  <2>3. m[b.start - 1].kind = a.kind /\ m[p].kind = a.kind /\ m[p].kind = b.kind
    BY <1>1, <2>1, <2>2
  <2> QED
    BY <1>1, <2>1, <2>3, SMTT(30)
<1>2. r.start \in Int /\ s.start \in Int
  BY DEF Maps, Pages
<1>3. r.start < s.start \/ s.start < r.start
  BY <1>2
<1> QED
  BY <1>1, <1>3

(* What clear_all_thread_mem leaves of each page ... *)
LEMMA ClearedIs ==
    /\ Cleared \in [Pages -> Cell]
    /\ \A p \in Pages :
          /\ InitKinds[p] \notin {"shared", "own"} =>
                Cleared[p].val = 0 /\ Cleared[p].kind # "shared"
          /\ Cleared[p].kind # "none" => Cleared[p].kind = InitKinds[p]
          /\ Cleared[p].kind = "none" <=> InitKinds[p] \in {"none", "bucket"}
<1>1. ASSUME NEW p \in Pages
      PROVE  /\ Cleared[p] \in Cell
             /\ InitKinds[p] \notin {"shared", "own"} =>
                   Cleared[p].val = 0 /\ Cleared[p].kind # "shared"
             /\ Cleared[p].kind # "none" => Cleared[p].kind = InitKinds[p]
             /\ Cleared[p].kind = "none" <=> InitKinds[p] \in {"none", "bucket"}
  <2>1. InitKinds[p] \in Kinds
    BY DEF CheckpointConstants
  <2>2. CASE InitKinds[p] = "bucket"
    <3>1. Cleared[p] = [kind |-> "none", val |-> 0]
      BY <2>2 DEF Cleared, Unmapped
    <3> QED
      BY <2>2, <3>1 DEF Cell, Kinds
  <2>3. CASE InitKinds[p] = "own"
    <3>1. Cleared[p] = [kind |-> "own", val |-> 1]
      BY <2>3 DEF Cleared
    <3> QED
      BY <2>3, <3>1 DEF Cell, Kinds
  <2>4. CASE InitKinds[p] \notin {"bucket", "own"}
    <3>1. Cleared[p] = [kind |-> InitKinds[p], val |-> 0]
      BY <2>4 DEF Cleared
    <3> QED
      BY <2>1, <2>4, <3>1 DEF Cell
  <2> QED
    BY <2>2, <2>3, <2>4
<1>2. Cleared = [p \in Pages |-> Cleared[p]]
  BY DEF Cleared
<1> QED
  BY <1>1, <1>2

(* ... and what the buffer for the maps file adds. *)
LEMMA FullIs ==
    ASSUME NEW s \in Nat
    PROVE  /\ Full(s) \in [Pages -> Cell]
           /\ \A p \in Pages :
                 /\ p \in s .. s + ScratchSz - 1 => Full(s)[p] = [kind |-> "anon", val |-> 0]
                 /\ p \notin s .. s + ScratchSz - 1 => Full(s)[p] = Cleared[p]
                 /\ InitKinds[p] \notin {"shared", "own"} =>
                       Full(s)[p].val = 0 /\ Full(s)[p].kind # "shared"
<1>1. [kind |-> "anon", val |-> 0] \in Cell
  BY DEF Cell, Kinds
<1>2. Cleared \in [Pages -> Cell]
  BY ClearedIs
<1>3. \A p \in Pages : Cleared[p] \in Cell
  BY <1>2
<1>4. ASSUME NEW p \in Pages
      PROVE  /\ Full(s)[p] \in Cell
             /\ p \in s .. s + ScratchSz - 1 => Full(s)[p] = [kind |-> "anon", val |-> 0]
             /\ p \notin s .. s + ScratchSz - 1 => Full(s)[p] = Cleared[p]
  BY <1>1, <1>3 DEF Full
<1>5. Full(s) \in [Pages -> Cell]
  BY <1>1, <1>3, SMTT(30) DEF Full
<1> QED
  BY <1>4, <1>5, ClearedIs

(* The buffer is a line of its own, and no other line has a page of it. *)
LEMMA IslandRuns ==
    ASSUME NEW s, Island(s), NEW r \in Runs(s)
    PROVE  /\ r.start \in Pages /\ r.end \in Pages /\ r.start <= r.end
           /\ r.kind \in Kinds \ {"none"}
           /\ r.start = s => \A p \in r.start .. r.end : p \in s .. s + ScratchSz - 1
           /\ r.start # s => \A p \in r.start .. r.end :
                                p \notin s .. s + ScratchSz - 1 /\ Cleared[p].kind = r.kind
<1>1. /\ r.start \in Pages /\ r.end \in Pages /\ r.start <= r.end
      /\ r.kind \in Kinds \ {"none"}
      /\ \A p \in r.start .. r.end : Full(s)[p].kind = r.kind
      /\ r.start = 1 \/ Full(s)[r.start - 1].kind # r.kind
  BY DEF Runs, Maps
<1>2. /\ s \in Nat /\ s - 1 \in Pages /\ s + ScratchSz \in Pages
      /\ \A p \in s - 1 .. s + ScratchSz : Cleared[p].kind = "none"
      /\ ScratchSz \in Nat \ {0} /\ NPages \in Nat /\ Pages = 1 .. NPages
  BY DEF Island, CheckpointConstants, Pages
<1>3. /\ Full(s)[s - 1].kind = "none" /\ Full(s)[s + ScratchSz].kind = "none"
      /\ \A p \in s .. s + ScratchSz - 1 : p \in Pages /\ Full(s)[p].kind = "anon"
      /\ \A p \in Pages : p \notin s .. s + ScratchSz - 1 => Full(s)[p] = Cleared[p]
  <2>1. /\ s - 1 \notin s .. s + ScratchSz - 1 /\ s + ScratchSz \notin s .. s + ScratchSz - 1
        /\ s - 1 \in s - 1 .. s + ScratchSz /\ s + ScratchSz \in s - 1 .. s + ScratchSz
        /\ \A p \in s .. s + ScratchSz - 1 : p \in Pages
    BY <1>2
  <2>2. Full(s)[s - 1] = Cleared[s - 1] /\ Full(s)[s + ScratchSz] = Cleared[s + ScratchSz]
    BY <1>2, <2>1, FullIs
  <2>3. \A p \in s .. s + ScratchSz - 1 : Full(s)[p] = [kind |-> "anon", val |-> 0]
    BY <1>2, <2>1, FullIs
  <2> QED
    BY <1>2, <2>1, <2>2, <2>3, FullIs
<1>4. s - 1 \notin r.start .. r.end /\ s + ScratchSz \notin r.start .. r.end
  BY <1>1, <1>3
<1>5. ASSUME r.start = s, NEW p \in r.start .. r.end
      PROVE  p \in s .. s + ScratchSz - 1
  BY <1>1, <1>2, <1>4, <1>5
<1>6. ASSUME r.start # s, NEW p \in r.start .. r.end
      PROVE  p \notin s .. s + ScratchSz - 1
  <2> SUFFICES ASSUME p \in s .. s + ScratchSz - 1 PROVE FALSE
    OBVIOUS
  <2>1. r.kind = "anon"
    BY <1>1, <1>3, <1>6
  <2>2. r.start > s /\ r.start # 1 /\ r.start - 1 \in s .. s + ScratchSz - 1
    BY <1>1, <1>2, <1>4, <1>6, SMTT(30)
  <2> QED
    BY <1>1, <1>3, <2>1, <2>2
<1>7. ASSUME r.start # s, NEW p \in r.start .. r.end
      PROVE  Cleared[p].kind = r.kind
  <2>1. p \in Pages /\ p \notin s .. s + ScratchSz - 1
    BY <1>1, <1>2, <1>6, <1>7
  <2> QED
    BY <1>1, <1>3, <2>1
<1> QED
  BY <1>1, <1>5, <1>6, <1>7, SMTT(30)

(* A line is known by its start. *)
LEMMA SameStart ==
    ASSUME NPages \in Nat, NEW m, NEW r \in Maps(m), NEW s \in Maps(m), r.start = s.start
    PROVE  r = s
<1>1. ASSUME NEW a \in Maps(m), NEW b \in Maps(m), a.start = b.start
      PROVE  a.kind = b.kind /\ a.end \in Int /\ b.end \in Int /\ ~(a.end < b.end)
  <2>1. /\ a.start \in 1 .. NPages /\ a.end \in 1 .. NPages /\ a.start <= a.end
        /\ b.start \in 1 .. NPages /\ b.end \in 1 .. NPages /\ b.start <= b.end
        /\ \A x \in a.start .. a.end : m[x].kind = a.kind
        /\ \A x \in b.start .. b.end : m[x].kind = b.kind
        /\ a.end = NPages \/ m[a.end + 1].kind # a.kind
    BY <1>1 DEF Maps, Pages
  <2>2. a.start \in a.start .. a.end /\ a.start \in b.start .. b.end
    BY <1>1, <2>1
  <2>3. a.kind = b.kind
    BY <2>1, <2>2
  <2>4. a.end < b.end => a.end # NPages /\ a.end + 1 \in b.start .. b.end
    BY <1>1, <2>1
  <2> QED
    BY <2>1, <2>3, <2>4, SMTT(30)
<1>2. r.kind = s.kind /\ r.end = s.end
  <2>1. r.kind = s.kind /\ r.end \in Int /\ s.end \in Int /\ ~(r.end < s.end) /\ ~(s.end < r.end)
    BY <1>1
  <2> QED
    BY <2>1
<1>3. /\ r \in [start : Pages, end : Pages, kind : Kinds \ {"none"}]
      /\ s \in [start : Pages, end : Pages, kind : Kinds \ {"none"}]
  BY DEF Maps
<1> QED
  BY <1>2, <1>3

(* A section more. *)
LEMMA Appended ==
    ASSUME NEW f \in Seq(Sections), NEW x \in Sections
    PROVE  /\ Append(f, x) \in Seq(Sections)
           /\ DOMAIN f = 1 .. Len(f) /\ Len(f) \in Nat
           /\ DOMAIN Append(f, x) = 1 .. Len(f) + 1
           /\ \A i \in DOMAIN f : Append(f, x)[i] = f[i]
           /\ Append(f, x)[Len(f) + 1] = x
           /\ Saved(Append(f, x)) =
                 IF x.mark = "MEMSEG" THEN Saved(f) \cup {Len(f) + 1} ELSE Saved(f)
<1>1. /\ Append(f, x) \in Seq(Sections)
      /\ DOMAIN f = 1 .. Len(f) /\ Len(f) \in Nat
      /\ DOMAIN Append(f, x) = 1 .. Len(f) + 1
      /\ \A i \in DOMAIN f : Append(f, x)[i] = f[i]
      /\ Append(f, x)[Len(f) + 1] = x
  OBVIOUS
<1> DEFINE g == Append(f, x)
<1> HIDE DEF g
<1>2. ASSUME NEW i
      PROVE  i \in Saved(g) <=> i \in Saved(f) \/ (x.mark = "MEMSEG" /\ i = Len(f) + 1)
  <2>1. i \in DOMAIN g <=> i \in DOMAIN f \/ i = Len(f) + 1
    BY <1>1 DEF g
  <2>2. i \in DOMAIN f => g[i] = f[i]
    BY <1>1 DEF g
  <2>3. g[Len(f) + 1] = x /\ Len(f) + 1 \notin DOMAIN f
    BY <1>1 DEF g
  <2> QED
    BY <2>1, <2>2, <2>3 DEF Saved
<1>3. Saved(g) = IF x.mark = "MEMSEG" THEN Saved(f) \cup {Len(f) + 1} ELSE Saved(f)
  BY <1>2, Zenon
<1> QED
  BY <1>1, <1>3 DEF g

(* What ckpt_memseg writes in the loop of ckpt_meminfo. *)
LEMMA SegmentRight ==
    ASSUME MemInv, grandchild = "seg", Island(scratch),
           NEW r \in Runs(scratch), r.start # scratch
    PROVE  Sized(MemSeg(r)) /\ MemSeg(r).mark = "MEMSEG" /\ Seg(MemSeg(r), r)
<1>1. /\ r.start \in Pages /\ r.end \in Pages /\ r.start <= r.end
      /\ r.kind \in Kinds
  BY IslandRuns
<1>2. /\ Pages = 1 .. NPages /\ NPages \in Nat /\ scratch \in Nat
      /\ cmem = Full(scratch) /\ pmem \in [Pages -> Cell]
  BY DEF Pages, CheckpointConstants, Island, MemInv
<1>3. /\ SavedSz(r) \in Nat
      /\ \A k \in 1 .. SavedSz(r) : r.start + k - 1 \in Pages
  BY <1>1, <1>2 DEF SavedSz, get_aval_size
<1>4. ASSUME NEW p \in Pages
      PROVE  /\ PageVal(p) \in Nat
             /\ InitKinds[p] \notin {"shared", "own"} => PageVal(p) = 0
  <2>1. cmem[p] \in Cell /\ pmem[p] \in Cell
    BY <1>2, FullIs
  <2>2. InitKinds[p] \notin {"shared", "own"} => cmem[p].kind # "shared" /\ cmem[p].val = 0
    BY <1>2, FullIs
  <2> QED
    BY <2>1, <2>2 DEF PageVal, Cell
<1>5. r \in [start : Nat, end : Nat, kind : Kinds]
  <2>1. r \in [start : Pages, end : Pages, kind : Kinds \ {"none"}]
    BY DEF Runs, Maps
  <2> QED
    BY <1>2, <2>1
<1>6. \A k \in 1 .. SavedSz(r) : PageVal(r.start + k - 1) \in Nat
  BY <1>3, <1>4
<1>7. r.start <= r.end + 1
  BY <1>1, <1>2, SMTT(30)
<1> DEFINE x == MemSeg(r)
<1>8. /\ Sized(x) /\ x.mark = "MEMSEG"
      /\ Len(x.body) = 8 + SavedSz(r)
      /\ x.body[6] = [start |-> r.start, end |-> r.end, ckpt_sz |-> SavedSz(r)]
      /\ x.body[8] = SavedSz(r)
      /\ \A k \in 1 .. SavedSz(r) : x.body[8 + k] = PageVal(r.start + k - 1)
  BY <1>5, <1>6, <1>7, MemSegIs, SMTT(30)
<1> HIDE DEF x
<1>9. \A k \in 1 .. SavedSz(r) :
         InitKinds[r.start + k - 1] \notin {"shared", "own"} => x.body[8 + k] = 0
  BY <1>3, <1>4, <1>8, Zenon
<1>10. Seg(x, r)
  BY <1>8, <1>9 DEF Seg
<1> QED
  BY <1>8, <1>10 DEF x

-----------------------------------------------------------------------------
(* fork_checkpoint begins in the invariant. *)
LEMMA CkInit == Init => CkInv
<1> SUFFICES ASSUME Init PROVE CkInv
  OBVIOUS
<1> USE DEF Init
<1>1. Procs
  BY DEF Procs
<1>2. InitMem \in [Pages -> Cell]
  BY DEF InitMem, Cell, CheckpointConstants
<1>3. MemInv
  BY <1>2 DEF MemInv
<1>4. FileInv
  <2>1. file \in Seq(Sections) /\ DOMAIN file = {} /\ Saved(file) = {}
    BY DEF Saved
  <2> QED
    BY <2>1 DEF FileInv
<1> QED
  BY <1>1, <1>3, <1>4 DEF CkInv

(* Each step of the three processes keeps their places in order ... *)
LEMMA ProcsStep == Procs /\ [Next]_vars => Procs'
<1> SUFFICES ASSUME Procs, [Next]_vars PROVE Procs'
  OBVIOUS
<1> USE DEF Procs
<1>1. CASE ForkChild
  BY <1>1 DEF ForkChild
<1>2. CASE ForkGrandchild
  BY <1>2 DEF ForkGrandchild
<1>3. CASE Wait
  BY <1>3 DEF Wait
<1>4. CASE WaitInterrupted
  BY <1>4 DEF WaitInterrupted
<1>5. CASE UserWrites
  BY <1>5 DEF UserWrites
<1>6. CASE GrandchildStep
  <2>1. CASE SkipScratch \/ SaveSegment
    BY <2>1 DEF SkipScratch, SaveSegment
  <2>2. CASE ClearThreadMem \/ WriteInfo \/ MapScratch \/ MapFails
                \/ SaveFails \/ Finish
    <3>1. /\ parent' = parent /\ child' = child
          /\ grandchild \in {"clear", "info", "map", "seg"}
          /\ grandchild' \in {"info", "map", "seg", "dead", "exited"}
      BY <2>2 DEF ClearThreadMem, WriteInfo, MapScratch, MapFails, SaveFails,
                  Finish, Goto
    <3> QED
      BY <3>1
  <2> QED
    BY <1>6, <2>1, <2>2 DEF GrandchildStep
<1>7. CASE UNCHANGED vars
  BY <1>7 DEF vars
<1> QED
  BY <1>1, <1>2, <1>3, <1>4, <1>5, <1>6, <1>7, SMTT(30) DEF Next

(* ... their memories ... *)
LEMMA MemStep ==
    ASSUME Procs, MemInv, [Next]_vars
    PROVE  MemInv'
<1>1. CASE ForkChild
  BY <1>1 DEF ForkChild, MemInv, Procs
<1>2. CASE ForkGrandchild
  BY <1>2 DEF ForkGrandchild, MemInv, Procs
<1>3. CASE Wait
  BY <1>3 DEF Wait, MemInv
<1>4. CASE WaitInterrupted
  BY <1>4 DEF WaitInterrupted, MemInv
<1>5. CASE UserWrites
  <2>1. PICK p \in Pages : pmem' = [pmem EXCEPT ![p].val = 1]
    BY <1>5, Zenon DEF UserWrites
  <2>2. pmem' \in [Pages -> Cell]
    BY <2>1 DEF MemInv, Cell
  <2> QED
    BY <1>5, <2>2 DEF UserWrites, MemInv
<1>6. CASE ClearThreadMem
  <2>1. cmem = InitMem
    BY <1>6 DEF ClearThreadMem, MemInv
  <2>2. cmem' = Cleared
    <3>1. ASSUME NEW p \in Pages
          PROVE  (CASE cmem[p].kind = "bucket" -> Unmapped
                    [] cmem[p].kind = "own" -> [cmem[p] EXCEPT !.val = 1]
                    [] OTHER -> cmem[p]) =
                 (CASE InitKinds[p] = "bucket" -> Unmapped
                    [] InitKinds[p] = "own" -> [kind |-> "own", val |-> 1]
                    [] OTHER -> [kind |-> InitKinds[p], val |-> 0])
      <4>1. cmem[p] = [kind |-> InitKinds[p], val |-> 0]
        BY <2>1 DEF InitMem
      <4>2. InitKinds[p] = "own" => [cmem[p] EXCEPT !.val = 1] = [kind |-> "own", val |-> 1]
        BY <4>1
      <4> QED
        BY <4>1, <4>2
    <3> QED
      BY <1>6, <3>1 DEF ClearThreadMem, Cleared
  <2> QED
    BY <1>6, <2>2 DEF ClearThreadMem, Goto, MemInv
<1>7. CASE WriteInfo
  BY <1>7 DEF WriteInfo, Goto, MemInv
<1>8. CASE MapScratch
  <2>1. cmem = Cleared
    BY <1>8, SMTT(30) DEF MapScratch, MemInv
  <2>2. cmem' = Full(scratch')
    BY <1>8, <2>1 DEF MapScratch, Full
  <2> QED
    BY <1>8, <2>2 DEF MapScratch, Goto, MemInv
<1>9. CASE MapFails
  BY <1>9 DEF MapFails, Goto, MemInv
<1>10. CASE SkipScratch
  BY <1>10 DEF SkipScratch, MemInv
<1>11. CASE SaveSegment
  BY <1>11 DEF SaveSegment, MemInv
<1>12. CASE SaveFails
  BY <1>12 DEF SaveFails, Goto, MemInv
<1>13. CASE Finish
  BY <1>13 DEF Finish, Goto, MemInv
<1>14. CASE UNCHANGED vars
  BY <1>14 DEF vars, MemInv
<1> QED
  BY <1>1, <1>2, <1>3, <1>4, <1>5, <1>6, <1>7, <1>8, <1>9, <1>10, <1>11, <1>12, <1>13, <1>14, SMTT(30)
     DEF Next, GrandchildStep

(* The sections before those of the memory. *)
LEMMA InfoSections ==
    LET info == <<Plain("HEAD")>> \o BaseInfo \o ArchInfo
        X == {x \in Sections : Sized(x) /\ x.mark \notin {"MEMSEG", "END"}}
    IN  info \in Seq(X) /\ \A n \in 0 .. Len(info) - 1 : SubSeq(info, 1, n) \in Seq(X)
<1> DEFINE X == {x \in Sections : Sized(x) /\ x.mark \notin {"MEMSEG", "END"}}
<1>1. ASSUME NEW mark \in Marks \ {"MEMSEG", "END"}
      PROVE  Plain(mark) \in X
  <2> DEFINE sub == [have_imark |-> FALSE, imark |-> "", units |-> <<"info">>]
             list == <<sub>>
  <2>1. <<"info">> \in Seq(Words)
    BY DEF Words
  <2>2. sub \in Subs
    BY <2>1 DEF Subs, IMarks
  <2>3. list \in Seq(Subs)
    <3> HIDE DEF sub
    <3> QED
      BY <2>2
  <2>4. Plain(mark) = Section(mark, list)
    BY DEF Plain
  <2> HIDE DEF list, sub
  <2>5. Sized(Plain(mark)) /\ Plain(mark).mark = mark
    BY <2>3, <2>4, SectionSized
  <2> QED
    BY <2>5 DEF Sized
<1>2. /\ Plain("HEAD") \in X /\ Plain("EXEC") \in X /\ Plain("ARGS") \in X
      /\ Plain("ENVS") \in X /\ Plain("CPU") \in X /\ Plain("TLS") \in X
  BY <1>1 DEF Marks
<1> HIDE DEF X
<1>3. <<Plain("HEAD")>> \in Seq(X) /\ BaseInfo \in Seq(X) /\ ArchInfo \in Seq(X)
  BY <1>2 DEF BaseInfo, ArchInfo
<1> DEFINE a == <<Plain("HEAD")>>
<1> HIDE DEF a
<1>4. a \o BaseInfo \o ArchInfo \in Seq(X)
  <2>1. a \o BaseInfo \in Seq(X)
    BY <1>3 DEF a
  <2> QED
    BY <1>3, <2>1
<1> DEFINE info == a \o BaseInfo \o ArchInfo
<1> HIDE DEF info
<1>5. info \in Seq(X)
  BY <1>4 DEF info
<1>6. \A n \in 0 .. Len(info) - 1 : SubSeq(info, 1, n) \in Seq(X)
  BY <1>5, SMTT(30)
<1> QED
  BY <1>5, <1>6 DEF info, a, X

(* The file stays as it is and lines, if anything, are taken away. *)
LEMMA FileStill ==
    ASSUME FileInv, file' = file, scratch' = scratch, lines' \subseteq lines,
           \/ grandchild' = grandchild /\ grandchild # "exited"
           \/ grandchild' = grandchild /\ lines' = lines
           \/ grandchild = "none" /\ grandchild' = "clear"
           \/ grandchild = "clear" /\ grandchild' = "info"
           \/ grandchild' = "dead" /\ grandchild # "exited"
    PROVE  FileInv'
<1>1. /\ file' \in Seq(Sections)
      /\ \A i \in DOMAIN file' : Sized(file'[i])
      /\ grandchild' \in {"none", "clear", "info", "map"} => Saved(file') = {}
      /\ grandchild' \in {"none", "clear", "info"} => file' = <<>>
      /\ grandchild' = "seg" => Island(scratch') /\ lines' \subseteq Runs(scratch')
      /\ Saved(file') # {} => Island(scratch')
  BY DEF FileInv
<1>2. \A i \in Saved(file') :
         \E r \in Runs(scratch') : r.start # scratch' /\ r \notin lines' /\ Seg(file'[i], r)
  BY SMTT(30) DEF FileInv
<1>3. \A i, j \in Saved(file') : i # j => file'[i].body[6].start # file'[j].body[6].start
  BY SMTT(30) DEF FileInv
<1>4. /\ \A i \in DOMAIN file' : file'[i].mark = "END" => grandchild' = "exited"
      /\ grandchild' = "exited" => Island(scratch') /\ lines' = {}
  BY SMTT(30) DEF FileInv
<1> QED
  BY <1>1, <1>2, <1>3, <1>4, SMTT(30) DEF FileInv

(* The first sections. *)
LEMMA FileInfo ==
    ASSUME FileInv, WriteInfo
    PROVE  FileInv'
<1> DEFINE info == <<Plain("HEAD")>> \o BaseInfo \o ArchInfo
           X == {x \in Sections : Sized(x) /\ x.mark \notin {"MEMSEG", "END"}}
<1>1. /\ grandchild' \in {"map", "dead"} /\ scratch' = scratch /\ lines' = lines
      /\ file' = info \/ \E n \in 0 .. Len(info) - 1 : file' = SubSeq(info, 1, n)
  BY SMTT(30) DEF WriteInfo, Goto
<1>2. file' \in Seq(X)
  <2>1. info \in Seq(X) /\ \A n \in 0 .. Len(info) - 1 : SubSeq(info, 1, n) \in Seq(X)
    BY InfoSections
  <2> HIDE DEF info, X
  <2> QED
    BY <1>1, <2>1
<1>3. \A i \in DOMAIN file' : file'[i] \in X
  <2> HIDE DEF X
  <2> QED
    BY <1>2
<1>4. file' \in Seq(Sections)
  <2>1. X \subseteq Sections
    OBVIOUS
  <2> HIDE DEF X
  <2> QED
    BY <1>2, <2>1
<1>5. Saved(file') = {} /\ \A i \in DOMAIN file' : Sized(file'[i]) /\ file'[i].mark # "END"
  BY <1>3, SMTT(30) DEF Saved
<1> HIDE DEF info, X
<1> QED
  BY <1>1, <1>4, <1>5 DEF FileInv

(* The buffer is mapped: its guards are free, and only they touch it. *)
LEMMA FileMap ==
    ASSUME MemInv, FileInv, MapScratch
    PROVE  /\ FileInv'
           /\ lines' = Maps(cmem') => lines' = Runs(scratch')
<1> DEFINE total == ScratchSz + 2 * PROCMAP_GUARD
<1>1. PICK s \in 1 .. NPages - total + 1 :
              /\ \A p \in s .. s + total - 1 : cmem[p].kind = "none"
              /\ scratch' = s + PROCMAP_GUARD
  BY ZenonT(30) DEF MapScratch, Guard
<1>2. /\ grandchild = "map" /\ grandchild' = "seg" /\ file' = file /\ cmem = Cleared
      /\ lines' = ReadMaps(cmem')
  BY ZenonT(30) DEF MapScratch, Goto, MemInv
<1>3. cmem' = Full(scratch')
  BY <1>2, Zenon DEF MapScratch, Full
<1>4. Island(scratch')
  <2>1. /\ NPages \in Nat /\ ScratchSz \in Nat \ {0} /\ PROCMAP_GUARD \in Nat \ {0}
        /\ Pages = 1 .. NPages
    BY DEF CheckpointConstants, Pages
  <2>2. /\ scratch' \in Nat /\ scratch' - 1 \in Pages /\ scratch' + ScratchSz \in Pages
    BY <1>1, <2>1
  <2>3. ASSUME NEW p \in scratch' - 1 .. scratch' + ScratchSz
        PROVE  Cleared[p].kind = "none"
    <3>1. p \in s .. s + total - 1
      BY <1>1, <2>1, <2>3
    <3> HIDE DEF total
    <3> QED
      BY <1>1, <1>2, <3>1
  <2> QED
    BY <2>2, <2>3, Zenon DEF Island
<1>5. Runs(scratch') = Maps(cmem') /\ lines' \subseteq Runs(scratch')
  BY <1>2, <1>3, SMTT(30) DEF Runs, ReadMaps
<1>6. file' \in Seq(Sections) /\ Saved(file') = {}
      /\ \A i \in DOMAIN file' : Sized(file'[i]) /\ file'[i].mark # "END"
  BY <1>2, SMTT(30) DEF FileInv
<1> QED
  BY <1>2, <1>4, <1>5, <1>6, SMTT(30) DEF FileInv

(* ckpt_memseg adds the section of a line that is in no section yet. *)
LEMMA FileSegment ==
    ASSUME MemInv, FileInv, SaveSegment
    PROVE  /\ FileInv'
           /\ \E r \in Runs(scratch) : /\ lines' = lines \ {r}
                                       /\ \E i \in Saved(file') : Seg(file'[i], r)
           /\ \A i \in Saved(file) : i \in Saved(file') /\ file'[i] = file[i]
<1>1. PICK r \in lines : /\ r.start # scratch
                         /\ file' = Append(file, MemSeg(r)) /\ lines' = lines \ {r}
  BY DEF SaveSegment
<1>2. /\ grandchild = "seg" /\ grandchild' = "seg" /\ scratch' = scratch
      /\ Island(scratch) /\ lines \subseteq Runs(scratch) /\ file \in Seq(Sections)
  BY DEF SaveSegment, FileInv
<1> DEFINE x == MemSeg(r)  n == Len(file) + 1
<1>3. r \in Runs(scratch) /\ Sized(x) /\ x.mark = "MEMSEG" /\ Seg(x, r)
  BY <1>1, <1>2, SegmentRight
<1>4. x \in Sections
  BY <1>3 DEF Sized
<1>5. file' = Append(file, x)
  BY <1>1, SMTT(30)
<1> HIDE DEF x
<1>6. /\ file' \in Seq(Sections) /\ DOMAIN file = 1 .. Len(file) /\ Len(file) \in Nat
      /\ DOMAIN file' = 1 .. n
      /\ \A i \in DOMAIN file : file'[i] = file[i]
      /\ file'[n] = x
      /\ Saved(file') = Saved(file) \cup {n}
  BY <1>2, <1>3, <1>4, <1>5, Appended
<1>7. n \notin DOMAIN file /\ \A i \in DOMAIN file' : i \in DOMAIN file \/ i = n
  BY <1>6
<1>8. Saved(file) \subseteq DOMAIN file
  BY SMTT(30) DEF Saved
<1> HIDE DEF n
<1>9. \A i \in DOMAIN file' : Sized(file'[i]) /\ file'[i].mark # "END"
  BY <1>2, <1>3, <1>6, <1>7 DEF FileInv
<1>10. \A i \in Saved(file') :
         \E q \in Runs(scratch') : q.start # scratch' /\ q \notin lines' /\ Seg(file'[i], q)
  <2> TAKE i \in Saved(file')
  <2>1. CASE i = n
    BY <1>1, <1>2, <1>3, <1>6, <2>1, Zenon
  <2>2. CASE i \in Saved(file)
    BY <1>1, <1>2, <1>6, <1>8, <2>2, Zenon DEF FileInv
  <2> QED
    BY <1>6, <2>1, <2>2
<1>11. \A i \in Saved(file) : file[i].body[6].start # r.start
  <2> TAKE i \in Saved(file)
  <2>1. PICK q \in Runs(scratch) : q \notin lines /\ Seg(file[i], q)
    BY SMTT(30) DEF FileInv
  <2>2. file[i].body[6].start = q.start
    BY <2>1, SMTT(30) DEF Seg
  <2>3. q.start # r.start
    <3>1. NPages \in Nat
      BY SMTT(30) DEF CheckpointConstants
    <3> QED
      BY <1>1, <1>3, <2>1, <3>1, SameStart, SMTT(30) DEF Runs
  <2> QED
    BY <2>2, <2>3
<1>12. x.body[6].start = r.start
  BY <1>3, SMTT(30) DEF Seg
<1>13. \A i, j \in Saved(file') : i # j => file'[i].body[6].start # file'[j].body[6].start
  <2> TAKE i, j \in Saved(file')
  <2> HAVE i # j
  <2>1. CASE i = n
    <3>1. j \in Saved(file) /\ file'[j] = file[j] /\ file'[i] = x
      BY <1>6, <1>8, <2>1, SMTT(30)
    <3> QED
      BY <1>11, <1>12, <3>1
  <2>2. CASE j = n
    <3>1. i \in Saved(file) /\ file'[i] = file[i] /\ file'[j] = x
      BY <1>6, <1>8, <2>2, SMTT(30)
    <3> QED
      BY <1>11, <1>12, <3>1
  <2>3. CASE i # n /\ j # n
    <3>1. i \in Saved(file) /\ file'[i] = file[i] /\ j \in Saved(file) /\ file'[j] = file[j]
      BY <1>6, <1>8, <2>3
    <3> QED
      BY <3>1 DEF FileInv
  <2> QED
    BY <2>1, <2>2, <2>3, SMTT(30)
<1>14. lines' \subseteq Runs(scratch') /\ Island(scratch')
  BY <1>1, <1>2, SMTT(30)
<1>15. FileInv'
  BY <1>2, <1>6, <1>9, <1>10, <1>13, <1>14, Zenon DEF FileInv
<1> QED
  BY <1>1, <1>3, <1>6, <1>8, <1>15, Zenon

(* The end mark. *)
LEMMA FileEnd ==
    ASSUME MemInv, FileInv, Finish
    PROVE  /\ FileInv'
           /\ \A i \in Saved(file) : i \in Saved(file') /\ file'[i] = file[i]
<1> DEFINE x == Section("END", <<>>)
<1>1. /\ grandchild = "seg" /\ grandchild' = "exited" /\ scratch' = scratch
      /\ lines' = lines /\ lines = {} /\ Island(scratch) /\ file \in Seq(Sections)
      /\ file' = Append(file, x)
  BY DEF Finish, Goto, FileInv
<1>2. Sized(x) /\ x.mark = "END" /\ x \in Sections
  <2>1. <<>> \in Seq(Subs) /\ "END" \in Marks
    BY DEF Marks
  <2> QED
    BY <2>1, SectionSized, ZenonT(30) DEF Sized
<1> HIDE DEF x
<1> DEFINE n == Len(file) + 1
<1>3. /\ file' \in Seq(Sections) /\ DOMAIN file = 1 .. Len(file) /\ Len(file) \in Nat
      /\ DOMAIN file' = 1 .. n
      /\ \A i \in DOMAIN file : file'[i] = file[i]
      /\ file'[n] = x
      /\ Saved(file') = Saved(file)
  BY <1>1, <1>2, Appended
<1>4. n \notin DOMAIN file /\ \A i \in DOMAIN file' : i \in DOMAIN file \/ i = n
  BY <1>3
<1>5. Saved(file) \subseteq DOMAIN file
  BY DEF Saved
<1> HIDE DEF n
<1>6. \A i \in DOMAIN file' : Sized(file'[i])
  BY <1>2, <1>3, <1>4, SMTT(30) DEF FileInv
<1>7. \A i \in Saved(file') :
         \E q \in Runs(scratch') : q.start # scratch' /\ q \notin lines' /\ Seg(file'[i], q)
  BY <1>1, <1>3, <1>5, SMTT(30) DEF FileInv
<1>8. \A i, j \in Saved(file') : i # j => file'[i].body[6].start # file'[j].body[6].start
  BY <1>3, <1>5, SMTT(30) DEF FileInv
<1>9. FileInv'
  BY <1>1, <1>3, <1>6, <1>7, <1>8, Zenon DEF FileInv
<1> QED
  BY <1>3, <1>5, <1>9, SMTT(30)

(* ... and the file. *)
LEMMA FileStep ==
    ASSUME Procs, MemInv, FileInv, [Next]_vars
    PROVE  FileInv'
<1>1. CASE ForkChild \/ ForkGrandchild \/ Wait \/ WaitInterrupted \/ UserWrites
           \/ ClearThreadMem \/ MapFails \/ SkipScratch \/ SaveFails
           \/ UNCHANGED vars
  <2>1. file' = file /\ scratch' = scratch /\ lines' \subseteq lines
    BY <1>1 DEF ForkChild, ForkGrandchild, Wait, WaitInterrupted, UserWrites,
                ClearThreadMem, MapFails, SkipScratch, SaveFails, vars
  <2>2. \/ grandchild' = grandchild /\ grandchild # "exited"
        \/ grandchild' = grandchild /\ lines' = lines
        \/ grandchild = "none" /\ grandchild' = "clear"
        \/ grandchild = "clear" /\ grandchild' = "info"
        \/ grandchild' = "dead" /\ grandchild # "exited"
    <3>1. CASE ForkGrandchild
      BY <3>1 DEF ForkGrandchild, Procs
    <3>2. CASE ClearThreadMem \/ MapFails \/ SkipScratch \/ SaveFails
      BY <3>2 DEF ClearThreadMem, MapFails, SkipScratch, SaveFails, Goto
    <3>3. CASE ForkChild \/ Wait \/ WaitInterrupted \/ UserWrites
               \/ UNCHANGED vars
      BY <3>3 DEF ForkChild, Wait, WaitInterrupted, UserWrites, vars
    <3> QED
      BY <1>1, <3>1, <3>2, <3>3
  <2> QED
    BY <2>1, <2>2, FileStill
<1>2. CASE WriteInfo
  BY <1>2, FileInfo
<1>3. CASE MapScratch
  BY <1>3, FileMap
<1>4. CASE SaveSegment
  BY <1>4, FileSegment
<1>5. CASE Finish
  BY <1>5, FileEnd
<1> QED
  BY <1>1, <1>2, <1>3, <1>4, <1>5 DEF Next, GrandchildStep

(* So every step of fork_checkpoint keeps the invariant. *)
LEMMA CkStep == CkInv /\ [Next]_vars => CkInv'
BY ProcsStep, MemStep, FileStep DEF CkInv

(* It holds throughout. *)
LEMMA CkInvariance == Spec => []CkInv
<1>1. Init => CkInv
  BY CkInit
<1>2. CkInv /\ [Next]_vars => CkInv'
  BY CkStep
<1> QED
  BY <1>1, <1>2, PTL DEF Spec

(* The pages that the sections hold are those of lines. *)
LEMMA SavedPages ==
    ASSUME CkInv
    PROVE  /\ MemSegs = Saved(file)
           /\ \A i \in Saved(file), r \in Runs(scratch) :
                 Seg(file[i], r) =>
                    /\ Finfo(i).start = r.start /\ r.start \in Nat
                    /\ SavedBy(i) = IF r.kind = "dev" THEN {} ELSE r.start .. r.end
<1>1. MemSegs = Saved(file)
  <2>1. file \in Seq(Sections)
    BY DEF CkInv, FileInv
  <2>2. DOMAIN file = 1 .. Len(file)
    BY <2>1
  <2> QED
    BY <2>2, SMTT(30) DEF MemSegs, Saved
<1>2. ASSUME NEW i \in Saved(file), NEW r \in Runs(scratch), Seg(file[i], r)
      PROVE  /\ Finfo(i).start = r.start /\ r.start \in Nat
             /\ SavedBy(i) = IF r.kind = "dev" THEN {} ELSE r.start .. r.end
  <2>1. Len(file[i].body) = 8 + SavedSz(r) /\ Finfo(i).start = r.start
    BY <1>2 DEF Seg, Finfo
  <2>2. r.start \in Nat /\ r.end \in Nat
    BY DEF Runs, Maps, Pages, CheckpointConstants
  <2>3. SavedSz(r) = IF r.kind = "dev" THEN 0 ELSE r.end - r.start + 1
    BY DEF SavedSz, get_aval_size
  <2> DEFINE n == Len(file[i].body)
  <2>4. SavedBy(i) = r.start .. r.start + (n - 8) - 1
    BY <2>1, Zenon DEF SavedBy
  <2> HIDE DEF n
  <2>0. n = 8 + SavedSz(r)
    BY <2>1 DEF n
  <2>5. CASE r.kind = "dev"
    BY <2>0, <2>1, <2>2, <2>3, <2>4, <2>5
  <2>6. CASE r.kind # "dev"
    <3>1. r.start + (n - 8) - 1 = r.end
      BY <2>0, <2>2, <2>3, <2>6, SMTT(30)
    <3> QED
      BY <2>1, <2>2, <2>4, <2>6, <3>1
  <2> QED
    BY <2>5, <2>6, SMTT(30)
<1> QED
  BY <1>1, <1>2

(* For every layout of the memory and wherever the buffer for the maps     *)
(* file lands, what ckpt_memseg writes of a page is its value at the call  *)
(* of fork_checkpoint, although the parent runs on meanwhile.              *)
THEOREM SnapshotSafe == Spec => []SnapshotConsistent
<1>1. CkInv => SnapshotConsistent
  <2> SUFFICES ASSUME CkInv, NEW i \in MemSegs, NEW p \in SavedBy(i),
                      snap[p].kind \notin {"shared", "own"}
               PROVE  file[i].body[8 + p - Finfo(i).start + 1] = snap[p].val
    BY DEF SnapshotConsistent
  <2>1. i \in Saved(file)
    BY SavedPages, SMTT(30)
  <2>2. PICK r \in Runs(scratch) : r.start # scratch /\ Seg(file[i], r)
    BY <2>1, SMTT(30) DEF CkInv, FileInv
  <2>3. /\ Finfo(i).start = r.start /\ r.start \in Nat
        /\ SavedBy(i) = IF r.kind = "dev" THEN {} ELSE r.start .. r.end
    BY <2>1, <2>2, SavedPages
  <2>4. p \in r.start .. r.end /\ r.kind # "dev"
    BY <2>3, SMTT(30)
  <2>5. Island(scratch)
    BY <2>1, SMTT(30) DEF CkInv, FileInv
  <2>6. r.start \in Pages /\ r.end \in Pages
    BY <2>2, <2>5, IslandRuns, SMTT(30)
  <2>7. p \in Pages
    BY <2>4, <2>6, SMTT(30) DEF Pages, CheckpointConstants
  <2>8. snap[p] = [kind |-> InitKinds[p], val |-> 0]
    BY <2>7 DEF CkInv, MemInv, InitMem
  <2> DEFINE k == p - r.start + 1
  <2>9. k \in 1 .. SavedSz(r) /\ r.start + k - 1 = p /\ 8 + p - r.start + 1 = 8 + k
    <3>1. SavedSz(r) = r.end - r.start + 1
      BY <2>4 DEF SavedSz, get_aval_size
    <3>2. r.end \in Int
      BY <2>6, SMTT(30) DEF Pages
    <3> QED
      BY <2>3, <2>4, <3>1, <3>2, SMTT(30)
  <2> HIDE DEF k
  <2>10. file[i].body[8 + k] = 0
    <3>1. InitKinds[r.start + k - 1] \notin {"shared", "own"}
      BY <2>8, <2>9
    <3> QED
      BY <2>2, <2>9, <3>1, SMTT(30) DEF Seg
  <2> QED
    BY <2>3, <2>8, <2>9, <2>10
<1> QED
  BY <1>1, CkInvariance, PTL

(* No line gets lost, if the maps file was read whole. *)
LEMMA CoverStep ==
    ASSUME CkInv, CoverInv, [Next]_vars,
           [grandchild = "map" /\ grandchild' = "seg" => lines' = Maps(cmem')]_vars
    PROVE  CoverInv'
<1>1. CASE ForkChild \/ ForkGrandchild \/ Wait \/ WaitInterrupted \/ UserWrites
           \/ ClearThreadMem \/ MapFails \/ SaveFails \/ WriteInfo
           \/ UNCHANGED vars
  <2>1. grandchild' \in {"seg", "exited"} =>
           /\ grandchild' = grandchild
           /\ file' = file /\ scratch' = scratch /\ lines' = lines
    <3>1. CASE ForkChild \/ Wait \/ WaitInterrupted \/ UserWrites
               \/ UNCHANGED vars
      BY <3>1 DEF ForkChild, Wait, WaitInterrupted, UserWrites, vars
    <3>2. CASE ForkGrandchild \/ ClearThreadMem \/ MapFails \/ SaveFails
               \/ WriteInfo
      BY <3>2 DEF ForkGrandchild, ClearThreadMem, MapFails, SaveFails,
                  WriteInfo, Goto
    <3> QED
      BY <1>1, <3>1, <3>2
  <2> QED
    BY <2>1 DEF CoverInv
<1>2. CASE MapScratch
  <2>1. CASE grandchild = "map" /\ grandchild' = "seg" => lines' = Maps(cmem')
    <3>1. lines' = Maps(cmem')
      BY <1>2, <2>1 DEF MapScratch, Goto
    <3>2. lines' = Runs(scratch')
      BY <1>2, <3>1, FileMap, SMTT(30) DEF CkInv
    <3> QED
      BY <3>2, SMTT(30) DEF CoverInv
  <2>2. CASE UNCHANGED vars
    BY <1>2, <2>2 DEF vars, MapScratch, Goto
  <2> QED
    BY <2>1, <2>2
<1>3. CASE SkipScratch
  <2>1. PICK r \in lines : r.start = scratch /\ lines' = lines \ {r}
    BY <1>3 DEF SkipScratch
  <2>2. grandchild = "seg" /\ grandchild' = "seg" /\ file' = file /\ scratch' = scratch
    BY <1>3 DEF SkipScratch
  <2> QED
    BY <2>1, <2>2 DEF CoverInv
<1>4. CASE SaveSegment
  <2>1. grandchild = "seg" /\ scratch' = scratch
    BY <1>4 DEF SaveSegment
  <2>2. PICK r \in Runs(scratch) : /\ lines' = lines \ {r}
                                   /\ \E i \in Saved(file') : Seg(file'[i], r)
    BY <1>4, FileSegment DEF CkInv
  <2>3. \A i \in Saved(file) : i \in Saved(file') /\ file'[i] = file[i]
    BY <1>4, FileSegment, SMTT(30) DEF CkInv
  <2> SUFFICES ASSUME NEW q \in Runs(scratch), q.start # scratch, q \notin lines'
               PROVE  \E i \in Saved(file') : Seg(file'[i], q)
    BY <2>1 DEF CoverInv
  <2>4. CASE q = r
    BY <2>2, <2>4
  <2>5. CASE q # r
    <3>1. PICK i \in Saved(file) : Seg(file[i], q)
      BY <2>1, <2>2, <2>5, SMTT(30) DEF CoverInv
    <3> QED
      BY <2>3, <3>1
  <2> QED
    BY <2>4, <2>5
<1>5. CASE Finish
  <2>1. grandchild = "seg" /\ scratch' = scratch /\ lines' = lines
    BY <1>5 DEF Finish
  <2>2. \A i \in Saved(file) : i \in Saved(file') /\ file'[i] = file[i]
    BY <1>5, FileEnd DEF CkInv
  <2> SUFFICES ASSUME NEW q \in Runs(scratch), q.start # scratch, q \notin lines
               PROVE  \E i \in Saved(file') : Seg(file'[i], q)
    BY <2>1 DEF CoverInv
  <2>3. PICK i \in Saved(file) : Seg(file[i], q)
    BY <2>1, SMTT(30) DEF CoverInv
  <2> QED
    BY <2>2, <2>3
<1> QED
  BY <1>1, <1>2, <1>3, <1>4, <1>5, SMTT(30) DEF Next, GrandchildStep

(* A file with its end mark. *)
LEMMA CompleteAtEnd ==
    ASSUME CkInv, CoverInv, Finished
    PROVE  FinishedIsComplete
<1>1. file \in Seq(Sections) /\ DOMAIN file = 1 .. Len(file) /\ Len(file) \in DOMAIN file
  <2>1. file \in Seq(Sections) /\ file # <<>>
    BY SMTT(30) DEF CkInv, FileInv, Finished
  <2> QED
    BY <2>1, SMTT(30)
<1>2. grandchild = "exited"
  BY <1>1, SMTT(30) DEF CkInv, FileInv, Finished
<1>3. Island(scratch) /\ lines = {}
  BY <1>2 DEF CkInv, FileInv
<1>4. /\ NPages \in Nat /\ Pages = 1 .. NPages /\ scratch \in Nat
      /\ ScratchSz \in Nat \ {0} /\ snap = InitMem
      /\ \A p \in scratch - 1 .. scratch + ScratchSz : Cleared[p].kind = "none"
  BY <1>3 DEF CheckpointConstants, Pages, Island, CkInv, MemInv
<1>5. \A p \in Pages : snap[p].kind = InitKinds[p]
  BY <1>4 DEF InitMem
<1>6. MemSegs = Saved(file)
  BY SavedPages
<1>7. ASSUME NEW i \in MemSegs
      PROVE  \E r \in Runs(scratch) :
                /\ r.start # scratch /\ Seg(file[i], r) /\ Finfo(i).start = r.start
                /\ SavedBy(i) = IF r.kind = "dev" THEN {} ELSE r.start .. r.end
  <2>1. PICK r \in Runs(scratch) : r.start # scratch /\ Seg(file[i], r)
    BY <1>6 DEF CkInv, FileInv
  <2> QED
    BY <1>6, <2>1, SavedPages, SMTT(30)
<1>8. ASSUME NEW i \in MemSegs, NEW p \in SavedBy(i)
      PROVE  p \in ToSave
  <2>1. PICK r \in Runs(scratch) :
                /\ r.start # scratch
                /\ SavedBy(i) = IF r.kind = "dev" THEN {} ELSE r.start .. r.end
    BY <1>7
  <2>2. p \in r.start .. r.end /\ r.kind # "dev"
    BY <1>8, <2>1, SMTT(30)
  <2>3. /\ r.start \in Pages /\ r.end \in Pages /\ r.kind # "none"
        /\ Cleared[p].kind = r.kind
    BY <1>3, <2>1, <2>2, IslandRuns, SMTT(30)
  <2>4. p \in Pages
    BY <1>4, <2>2, <2>3, SMTT(30)
  <2>5. InitKinds[p] \notin {"none", "bucket", "dev"}
    BY <2>2, <2>3, <2>4, ClearedIs, SMTT(30)
  <2> QED
    BY <1>5, <2>4, <2>5 DEF ToSave
<1>9. ASSUME NEW p \in ToSave
      PROVE  \E i \in MemSegs : p \in SavedBy(i)
  <2>1. p \in Pages /\ InitKinds[p] \notin {"none", "bucket", "dev"}
    BY <1>5 DEF ToSave
  <2>2. Cleared[p].kind = InitKinds[p] /\ Cleared[p].kind # "none"
    BY <2>1, ClearedIs
  <2>3. p \notin scratch .. scratch + ScratchSz - 1
    BY <1>4, <2>2, SMTT(30)
  <2>4. Full(scratch) \in [Pages -> Cell] /\ Full(scratch)[p] = Cleared[p]
    BY <1>4, <2>1, <2>3, FullIs, SMTT(30)
  <2>5. PICK r \in Runs(scratch) : p \in r.start .. r.end
    BY <1>4, <2>1, <2>2, <2>4, RunOf, SMTT(30) DEF Runs
  <2>6. r.start # scratch
    BY <1>3, <2>3, <2>5, IslandRuns, SMTT(30)
  <2>7. r.kind = InitKinds[p]
    BY <1>3, <2>2, <2>5, <2>6, IslandRuns, SMTT(30)
  <2>8. PICK i \in Saved(file) : Seg(file[i], r)
    BY <1>2, <1>3, <2>6, SMTT(30) DEF CoverInv
  <2>9. SavedBy(i) = r.start .. r.end
    BY <2>1, <2>7, <2>8, SavedPages, SMTT(30)
  <2> QED
    BY <1>6, <2>5, <2>8, <2>9, Zenon
<1>10. UNION {SavedBy(i) : i \in MemSegs} = ToSave
  BY <1>8, <1>9
<1>11. ASSUME NEW i \in MemSegs, NEW j \in MemSegs, i # j
       PROVE  SavedBy(i) \cap SavedBy(j) = {}
  <2>1. PICK r \in Runs(scratch) :
                /\ Finfo(i).start = r.start
                /\ SavedBy(i) = IF r.kind = "dev" THEN {} ELSE r.start .. r.end
    BY <1>7
  <2>2. PICK s \in Runs(scratch) :
                /\ Finfo(j).start = s.start
                /\ SavedBy(j) = IF s.kind = "dev" THEN {} ELSE s.start .. s.end
    BY <1>7, SMTT(30)
  <2>3. Finfo(i).start # Finfo(j).start
    BY <1>6, <1>11, SMTT(30) DEF CkInv, FileInv, Finfo
  <2>4. (r.start .. r.end) \cap (s.start .. s.end) = {}
    BY <1>4, <2>1, <2>2, <2>3, RunsApart, SMTT(30) DEF Runs
  <2> QED
    BY <2>1, <2>2, <2>4
<1>12. \A i \in 1 .. Len(file) : file[i].len = Len(file[i].body)
  BY <1>1, SMTT(30) DEF CkInv, FileInv, Sized
<1>13. \A i \in MemSegs : Finfo(i).ckpt_sz = file[i].body[8]
  <2> TAKE i \in MemSegs
  <2>1. PICK r \in Runs(scratch) : Seg(file[i], r)
    BY <1>7
  <2> QED
    BY <2>1, SMTT(30) DEF Seg, Finfo
<1> QED
  BY <1>10, <1>11, <1>12, <1>13 DEF FinishedIsComplete

(* If read_self_procmap gets the whole maps file, a checkpoint with its    *)
(* end mark has every page to be saved once and none of the buffer's, and  *)
(* the lengths in it lead from section to section.                         *)
THEOREM CompleteSafe == Spec /\ MapsReadWhole => []FinishedIsComplete
<1>1. Init => CoverInv
  BY DEF Init, CoverInv
<1>2. CkInv /\ CoverInv /\ [Next]_vars
      /\ [grandchild = "map" /\ grandchild' = "seg" => lines' = Maps(cmem')]_vars
      => CoverInv'
  BY CoverStep
<1>3. CkInv /\ CoverInv => FinishedIsComplete
  <2>1. ASSUME CkInv, CoverInv, ~ Finished PROVE FinishedIsComplete
    BY <2>1 DEF FinishedIsComplete
  <2> QED
    BY <2>1, CompleteAtEnd, SMTT(30)
<1>4. Spec => []CkInv
  BY CkInvariance
<1> QED
  BY <1>1, <1>2, <1>3, <1>4, PTL DEF Spec, MapsReadWhole

(* The maps file has no more lines than one read of it returns. *)
MapsShort ==
    [][grandchild = "map" /\ grandchild' = "seg" =>
          Cardinality(Maps(cmem')) <= LinesPerRead]_vars

(* read_self_procmap gets the whole maps file when it has no more lines    *)
(* than one read returns, so that the premise of CompleteSafe is met.      *)
THEOREM ReadWhole == Spec /\ MapsShort => MapsReadWhole
<1>1. ASSUME NEW m, Cardinality(Maps(m)) <= LinesPerRead
      PROVE  ReadMaps(m) = Maps(m)
  <2> DEFINE M == Maps(m)
             f == [s \in M |-> s.start]
  <2>1. NPages \in Nat /\ LinesPerRead \in Nat
    BY SMTT(30) DEF CheckpointConstants
  <2>2. \A s \in M : s.start \in 1 .. NPages
    BY DEF Maps, Pages
  <2>3. \A s, q \in M : s.start = q.start => s = q
    BY <2>1, SameStart
  <2> HIDE DEF M
  <2>4. f \in Injection(M, 1 .. NPages)
    BY <2>2, <2>3 DEF Injection, IsInjective
  <2>5. IsFiniteSet(M)
    <3>1. IsFiniteSet(1 .. NPages)
      BY <2>1, FS_Interval
    <3> QED
      BY <2>4, <3>1, FS_Injection
  <2>6. Cardinality(M) \in Nat
    BY <2>5, FS_CardinalityType
  <2>7. ASSUME NEW r \in M
        PROVE  Cardinality({s \in M : s.start < r.start}) < LinesPerRead
    <3> DEFINE S == {s \in M : s.start < r.start}
    <3>1. S \in SUBSET M
      OBVIOUS
    <3>2. r \notin S
      BY <2>1, <2>2
    <3> HIDE DEF S
    <3>3. IsFiniteSet(S) /\ Cardinality(S) <= Cardinality(M) /\ Cardinality(S) # Cardinality(M)
      BY <2>5, <2>7, <3>1, <3>2, FS_Subset
    <3>4. Cardinality(S) \in Nat
      BY <3>3, FS_CardinalityType
    <3>5. Cardinality(M) <= LinesPerRead
      BY <1>1 DEF M
    <3>6. Cardinality(S) < LinesPerRead
      BY <2>1, <2>6, <3>3, <3>4, <3>5, SMTT(30)
    <3> QED
      BY <3>6 DEF S
  <2>8. ReadMaps(m) =
           {r \in M : Cardinality({s \in M : s.start < r.start}) < LinesPerRead}
    BY DEF ReadMaps, M
  <2> QED
    BY <2>7, <2>8 DEF M
<1>2. [Next]_vars /\ [grandchild = "map" /\ grandchild' = "seg" =>
                         Cardinality(Maps(cmem')) <= LinesPerRead]_vars
      => [grandchild = "map" /\ grandchild' = "seg" => lines' = Maps(cmem')]_vars
  <2> SUFFICES ASSUME Next, grandchild = "map", grandchild' = "seg",
                      Cardinality(Maps(cmem')) <= LinesPerRead
               PROVE  lines' = Maps(cmem')
    BY SMTT(30) DEF vars
  <2>1. CASE MapScratch
    BY <1>1, <2>1 DEF MapScratch
  <2>2. CASE ForkChild \/ Wait \/ WaitInterrupted \/ UserWrites
             \/ SkipScratch \/ SaveSegment
    BY <2>2 DEF ForkChild, Wait, WaitInterrupted, UserWrites,
                SkipScratch, SaveSegment
  <2>3. CASE ForkGrandchild \/ ClearThreadMem \/ WriteInfo \/ MapFails
             \/ SaveFails \/ Finish
    BY <2>3 DEF ForkGrandchild, ClearThreadMem, WriteInfo, MapFails,
                SaveFails, Finish, Goto
  <2> QED
    BY <2>1, <2>2, <2>3 DEF Next, GrandchildStep
<1> QED
  BY <1>2, PTL DEF Spec, MapsReadWhole, MapsShort

(* A checkpoint with its end mark is complete, page for page, whenever the *)
(* maps file of the grandchild is no longer than one read of it.           *)
THEOREM CompleteIfShort == Spec /\ MapsShort => []FinishedIsComplete
BY ReadWhole, CompleteSafe, PTL
=============================================================================
