----------------------------- MODULE ElfProofs ------------------------------
(***************************************************************************)
(* load_elf of core/loader/elf.c, as xmain calls it, for every size of     *)
(* page and address space and every file that a linker makes (Linked),     *)
(* with any number of segments.  LoadInv says what has been put in place   *)
(* when the loop of load_elf is at its next header; ImageRight and         *)
(* NeighboursIntact follow from it.                                        *)
(***************************************************************************)
EXTENDS Xmain, WellFoundedInduction, TLAPS

LEMMA FilesLinked ==
    \A s \in Starts : \A f \in {s.program, s.ldso} : Linked(f) /\ Len(f.phdrs) \in Nat
<1> SUFFICES ASSUME NEW s \in Starts, NEW f \in {s.program, s.ldso}
             PROVE  Linked(f) /\ Len(f.phdrs) \in Nat
  OBVIOUS
<1>1. Linked(f)
  BY XmainAssumption
<1> QED
  BY <1>1 DEF Linked

-----------------------------------------------------------------------------
(* Pages *)

P == PAGE_SIZE

Aligned(v) == \E q \in Int : v = P * q

LEMMA PIsNat == P \in Nat /\ P > 0
  BY ElfLoadAssumption DEF P

(* The multiples of the page size are apart. *)
LEMMA Apart ==
    ASSUME NEW q \in Int, NEW r \in Int, P * q < P * r
    PROVE  P * q + P <= P * r
<1>1. q < r
  BY PIsNat
<1>2. q + 1 <= r
  BY <1>1
<1>3. P * (q + 1) <= P * r
  BY <1>2, PIsNat
<1>4. P * (q + 1) = P * q + P
  BY PIsNat
<1> QED
  BY <1>3, <1>4

LEMMA AlignedApart ==
    ASSUME NEW u, NEW v, Aligned(u), Aligned(v), u < v
    PROVE  u + P <= v
  BY Apart DEF Aligned

LEMMA AlignedInt == \A v : Aligned(v) => v \in Int
  BY PIsNat DEF Aligned

LEMMA AlignedSum ==
    ASSUME NEW u, NEW v, Aligned(u), Aligned(v)
    PROVE  Aligned(u + v) /\ Aligned(u - v)
<1>1. PICK q \in Int, r \in Int : u = P * q /\ v = P * r
  BY DEF Aligned
<1>2. u + v = P * (q + r) /\ u - v = P * (q - r)
  BY <1>1, PIsNat
<1> QED
  BY <1>2 DEF Aligned

LEMMA AlignedP == Aligned(P) /\ Aligned(0)
<1>1. P = P * 1 /\ 0 = P * 0
  BY PIsNat
<1> QED
  BY <1>1 DEF Aligned

LEMMA ModFacts ==
    ASSUME NEW v \in Int
    PROVE  v % P \in 0 .. P - 1 /\ Aligned(v - (v % P))
<1>1. v % P \in 0 .. P - 1
  BY PIsNat
<1>2. v \div P \in Int /\ v = P * (v \div P) + (v % P)
  BY PIsNat
<1>3. v - (v % P) = P * (v \div P)
  BY <1>1, <1>2, PIsNat
<1> QED
  BY <1>1, <1>2, <1>3 DEF Aligned

LEMMA Down ==
    ASSUME NEW v \in Int
    PROVE  /\ ALIGN_DOWN(v) \in Int /\ Aligned(ALIGN_DOWN(v))
           /\ ALIGN_DOWN(v) <= v /\ v < ALIGN_DOWN(v) + P
<1>1. ALIGN_DOWN(v) = v - (v % P)
  BY DEF ALIGN_DOWN, P
<1> QED
  BY <1>1, ModFacts, PIsNat

(* ALIGN_DOWN gives the only multiple there. *)
LEMMA DownIs ==
    ASSUME NEW v \in Int, NEW u, Aligned(u), u <= v, v < u + P
    PROVE  ALIGN_DOWN(v) = u
<1>0. u \in Int
  BY AlignedInt
<1>1. /\ ALIGN_DOWN(v) \in Int /\ Aligned(ALIGN_DOWN(v))
      /\ ALIGN_DOWN(v) <= v /\ v < ALIGN_DOWN(v) + P
  BY Down
<1>2. ~(u < ALIGN_DOWN(v))
  <2>1. u < ALIGN_DOWN(v) => u + P <= ALIGN_DOWN(v)
    BY <1>1, AlignedApart
  <2> QED
    BY <1>0, <1>1, <2>1, PIsNat
<1>3. ~(ALIGN_DOWN(v) < u)
  <2>1. ALIGN_DOWN(v) < u => ALIGN_DOWN(v) + P <= u
    BY <1>1, AlignedApart
  <2> QED
    BY <1>0, <1>1, <2>1, PIsNat
<1> QED
  BY <1>0, <1>1, <1>2, <1>3

LEMMA Up ==
    ASSUME NEW v \in Int
    PROVE  /\ ALIGN_UP(v) \in Int /\ Aligned(ALIGN_UP(v))
           /\ v <= ALIGN_UP(v) /\ ALIGN_UP(v) < v + P
<1>1. ALIGN_UP(v) = ALIGN_DOWN(v + P - 1) /\ v + P - 1 \in Int
  BY PIsNat DEF ALIGN_UP, P
<1>2. /\ ALIGN_UP(v) \in Int /\ Aligned(ALIGN_UP(v))
      /\ ALIGN_UP(v) <= v + P - 1 /\ v + P - 1 < ALIGN_UP(v) + P
  BY <1>1, Down
<1> QED
  BY <1>2, PIsNat

LEMMA UpIs ==
    ASSUME NEW v \in Int, NEW u, Aligned(u), v <= u, u < v + P
    PROVE  ALIGN_UP(v) = u
<1>0. u \in Int
  BY AlignedInt
<1>1. v + P - 1 \in Int /\ u <= v + P - 1 /\ v + P - 1 < u + P
  BY <1>0, PIsNat
<1>2. ALIGN_DOWN(v + P - 1) = u
  BY <1>1, DownIs
<1> QED
  BY <1>2 DEF ALIGN_UP, P

(* A multiple below v is below its page, one behind v behind it. *)
LEMMA DownMost ==
    ASSUME NEW v \in Int, NEW u, Aligned(u), u <= v
    PROVE  u <= ALIGN_DOWN(v)
<1>0. u \in Int /\ ALIGN_DOWN(v) \in Int
  BY AlignedInt, Down
<1>1. ALIGN_DOWN(v) < u => ALIGN_DOWN(v) + P <= u
  BY Down, AlignedApart
<1> QED
  BY <1>0, <1>1, Down, PIsNat

LEMMA UpLeast ==
    ASSUME NEW v \in Int, NEW u, Aligned(u), v <= u
    PROVE  ALIGN_UP(v) <= u
<1>0. u \in Int /\ ALIGN_UP(v) \in Int
  BY AlignedInt, Up
<1>1. u < ALIGN_UP(v) => u + P <= ALIGN_UP(v)
  BY Up, AlignedApart
<1> QED
  BY <1>0, <1>1, Up, PIsNat

(* Adding whole pages. *)
LEMMA Shift ==
    ASSUME NEW b, Aligned(b), NEW v \in Int
    PROVE  /\ ALIGN_DOWN(b + v) = b + ALIGN_DOWN(v)
           /\ ALIGN_UP(b + v) = b + ALIGN_UP(v)
<1>0. b \in Int /\ ALIGN_DOWN(v) \in Int /\ ALIGN_UP(v) \in Int /\ b + v \in Int
  BY AlignedInt, Down, Up
<1>1. Aligned(b + ALIGN_DOWN(v)) /\ Aligned(b + ALIGN_UP(v))
  BY AlignedSum, Down, Up
<1>2. b + ALIGN_DOWN(v) <= b + v /\ b + v < (b + ALIGN_DOWN(v)) + P
  BY <1>0, Down, PIsNat
<1>3. b + v <= b + ALIGN_UP(v) /\ b + ALIGN_UP(v) < (b + v) + P
  BY <1>0, Up, PIsNat
<1> QED
  BY <1>0, <1>1, <1>2, <1>3, DownIs, UpIs

LEMMA AlignedSame ==
    ASSUME NEW v, Aligned(v)
    PROVE  ALIGN_DOWN(v) = v /\ ALIGN_UP(v) = v
<1>0. v \in Int
  BY AlignedInt
<1>1. v <= v /\ v < v + P
  BY <1>0, PIsNat
<1> QED
  BY <1>0, <1>1, DownIs, UpIs

(* The assertion in load_elf on the offset and the address of a segment. *)
LEMMA Congruent ==
    ASSUME NEW v \in Int, NEW o \in Int, (v - o) % PAGE_SIZE = 0
    PROVE  /\ Aligned(v - o)
           /\ v - ALIGN_DOWN(v) = o - ALIGN_DOWN(o)
<1>1. Aligned(v - o)
  <2>1. v - o \in Int /\ (v - o) % P = 0
    BY DEF P
  <2> QED
    BY <2>1, ModFacts
<1>2. ALIGN_DOWN((v - o) + o) = (v - o) + ALIGN_DOWN(o)
  BY <1>1, Shift
<1>3. (v - o) + o = v
  OBVIOUS
<1> QED
  BY <1>1, <1>2, <1>3, Down

(* PageOf tells pages apart. *)
LEMMA SamePage ==
    ASSUME NEW a \in Int, NEW c \in Int, ALIGN_DOWN(a) = ALIGN_DOWN(c)
    PROVE  PageOf(a) = PageOf(c)
<1>1. \A v \in Int : v \div P \in Int /\ v % P \in 0 .. P - 1 /\ v = P * (v \div P) + (v % P)
  BY PIsNat
<1>2. \A v \in Int : ALIGN_DOWN(v) = P * (v \div P)
  <2> SUFFICES ASSUME NEW v \in Int PROVE ALIGN_DOWN(v) = P * (v \div P)
    OBVIOUS
  <2>1. ALIGN_DOWN(v) = v - (v % P)
    BY DEF ALIGN_DOWN, P
  <2>2. v \div P \in Int /\ v % P \in 0 .. P - 1 /\ v = P * (v \div P) + (v % P)
    BY <1>1
  <2> QED
    BY <2>1, <2>2, PIsNat
<1>3. P * (a \div P) = P * (c \div P)
  BY <1>2
<1>4. \A q, r \in Int : P * q = P * r => q = r
  BY PIsNat
<1>5. a \div P = c \div P
  BY <1>1, <1>3, <1>4
<1> QED
  BY <1>5 DEF PageOf, P

-----------------------------------------------------------------------------
(* The extent of an image *)

(* A set of numbers has a least element. *)
LEMMA Least ==
    ASSUME NEW T, T \subseteq Nat, T # {}
    PROVE  \E x \in T : \A y \in T : x <= y
<1>1. PICK x \in T : \A y \in T : ~(<<y, x>> \in OpToRel(<, Nat))
  BY NatLessThanWellFounded, WFMin, Zenon
<1>2. \A y \in T : ~(y < x)
  BY <1>1, Zenon DEF OpToRel
<1> QED
  BY <1>2

(* Finitely many numbers have a largest. *)
LEMMA Largest ==
    ASSUME NEW n \in Nat, NEW T, T \subseteq 1 .. n, T # {}, NEW f, \A i \in T : f[i] \in Nat
    PROVE  \E m \in T : \A i \in T : f[i] <= f[m]
<1> DEFINE U == {k \in 0 .. n : \E b \in Nat : \A i \in T : i <= k => f[i] <= b}
           W == {k \in 0 .. n : k \notin U}
           B == {b \in Nat : \A i \in T : f[i] <= b}
<1>1. W = {}
  <2>1. SUFFICES ASSUME W # {} PROVE FALSE
    OBVIOUS
  <2>2. W \subseteq Nat
    OBVIOUS
  <2>3. PICK k \in W : \A j \in W : k <= j
    <3> HIDE DEF W
    <3> QED
      BY <2>1, <2>2, Least
  <2>4. k # 0
    <3>1. \A i \in T : ~(i <= 0)
      OBVIOUS
    <3>2. 0 \in U
      BY <3>1
    <3> QED
      BY <2>3, <3>2
  <2>5. k - 1 \in 0 .. n /\ k \in 1 .. n
    BY <2>3, <2>4
  <2>6. k - 1 \in U
    <3>1. k - 1 \notin W
      <4> HIDE DEF W
      <4> QED
        BY <2>3, <2>5
    <3> QED
      BY <2>5, <3>1
  <2>7. PICK b \in Nat : \A i \in T : i <= k - 1 => f[i] <= b
    BY <2>6
  <2>8. \E c \in Nat : \A i \in T : i <= k => f[i] <= c
    <3>1. CASE k \in T
      <4>1. \A i \in T : i <= k => f[i] <= b + f[k]
        BY <2>5, <2>7, <3>1
      <4> QED
        BY <3>1, <4>1
    <3>2. CASE k \notin T
      <4>1. \A i \in T : i <= k => f[i] <= b
        BY <2>5, <2>7, <3>2
      <4> QED
        BY <4>1
    <3> QED
      BY <3>1, <3>2
  <2> QED
    BY <2>3, <2>8
<1>2. B # {}
  <2>1. n \in U
    BY <1>1
  <2>2. PICK b \in Nat : \A i \in T : i <= n => f[i] <= b
    BY <2>1
  <2>3. \A i \in T : f[i] <= b
    BY <2>2
  <2> QED
    BY <2>3
<1>3. PICK b \in B : \A c \in B : b <= c
  <2>1. B \subseteq Nat
    OBVIOUS
  <2> HIDE DEF B
  <2> QED
    BY <1>2, <2>1, Least
<1>4. \E m \in T : f[m] = b
  <2>1. SUFFICES ASSUME \A m \in T : f[m] # b PROVE FALSE
    OBVIOUS
  <2>2. PICK i \in T : TRUE
    OBVIOUS
  <2>3. b - 1 \in Nat
    BY <1>3, <2>1, <2>2
  <2>4. b - 1 \in B
    BY <1>3, <2>1, <2>3
  <2> QED
    BY <1>3, <2>4
<1> QED
  BY <1>3, <1>4

Seg(i) == file.phdrs[i]

(* The segments of a file that the linker made. *)
LEMMA Segments ==
    ASSUME Linked(file)
    PROVE  /\ Len(file.phdrs) \in Nat /\ file.size \in Nat /\ file.base \in Nat
           /\ Loads \subseteq 1 .. Len(file.phdrs) /\ Loads # {}
           /\ \A i \in Loads : /\ Seg(i).vaddr \in Nat /\ Seg(i).offset \in Nat
                               /\ Seg(i).filesz \in Nat /\ Seg(i).memsz \in Nat
                               /\ Seg(i).w \in BOOLEAN
                               /\ Seg(i).memsz > 0 /\ Seg(i).filesz <= Seg(i).memsz
                               /\ Seg(i).offset + Seg(i).filesz <= file.size
           /\ \A i, j \in Loads : Seg(i).vaddr <= Seg(j).vaddr /\ i # j =>
                 ALIGN_UP(Seg(i).vaddr + Seg(i).memsz) <= ALIGN_DOWN(Seg(j).vaddr)
<1>1. file.phdrs \in Seq(Phdr) /\ Loads \subseteq 1 .. Len(file.phdrs)
  BY DEF Linked, Loads, LoadsOf
<1>2. \A i \in Loads : Seg(i) \in Phdr
  BY <1>1 DEF Seg
<1>3. \A p \in Phdr : /\ p.vaddr \in Nat /\ p.offset \in Nat /\ p.filesz \in Nat
                      /\ p.memsz \in Nat /\ p.w \in BOOLEAN
  BY DEF Phdr
<1>4. Len(file.phdrs) \in Nat
  BY <1>1
<1> QED
  BY <1>1, <1>2, <1>3, <1>4, Zenon DEF Linked, Loads, Seg

LEMMA FirstFact ==
    ASSUME Linked(file)
    PROVE  first \in Loads /\ \A j \in Loads : Seg(first).vaddr <= Seg(j).vaddr
<1> DEFINE T == {Seg(i).vaddr : i \in Loads}
<1>1. T \subseteq Nat /\ T # {}
  BY Segments
<1>2. PICK v \in T : \A u \in T : v <= u
  <2> HIDE DEF T
  <2> QED
    BY <1>1, Least
<1>3. \E i \in Loads : \A j \in Loads : Seg(i).vaddr <= Seg(j).vaddr
  BY <1>2
<1> QED
  BY <1>3, Zenon DEF first, Seg

(* Where the image starts and ends. *)
Lo == ALIGN_DOWN(Seg(first).vaddr)
Hi == ALIGN_UP(Max({SegEnd(file.phdrs[i]) : i \in Loads}))

LEMMA Extent ==
    ASSUME Linked(file)
    PROVE  /\ Lo \in Int /\ Hi \in Int /\ Aligned(Lo) /\ Aligned(Hi)
           /\ total_map_sz = Hi - Lo
           /\ \A i \in Loads : /\ Lo <= ALIGN_DOWN(Seg(i).vaddr)
                               /\ ALIGN_UP(Seg(i).vaddr + Seg(i).memsz) <= Hi
<1> DEFINE vs == {file.phdrs[i].vaddr : i \in Loads}
           es == {SegEnd(file.phdrs[i]) : i \in Loads}
<1>1. Min(vs) = Seg(first).vaddr
  <2>1. Seg(first).vaddr \in vs /\ \A u \in vs : Seg(first).vaddr <= u
    BY FirstFact DEF Seg
  <2>2. \A u \in vs : u \in Nat
    BY Segments DEF Seg
  <2>3. Min(vs) \in vs /\ \A u \in vs : Min(vs) <= u
    <3> HIDE DEF vs
    <3>1. \E x \in vs : \A y \in vs : x <= y
      BY <2>1, Zenon
    <3> QED
      BY <3>1, Zenon DEF Min
  <2> HIDE DEF vs
  <2> QED
    BY <2>1, <2>2, <2>3
<1>2. Max(es) \in Nat /\ \A i \in Loads : Seg(i).vaddr + Seg(i).memsz <= Max(es)
  <2> DEFINE f == [i \in Loads |-> Seg(i).vaddr + Seg(i).memsz]
  <2>1. \A i \in Loads : f[i] \in Nat /\ f[i] = SegEnd(file.phdrs[i])
    BY Segments DEF Seg, SegEnd
  <2>2. PICK m \in Loads : \A i \in Loads : f[i] <= f[m]
    <3> HIDE DEF f
    <3> QED
      BY <2>1, Segments, Largest
  <2>3. f[m] \in es /\ \A u \in es : f[m] >= u
    BY <2>1, <2>2
  <2>4. Max(es) \in es /\ \A u \in es : Max(es) >= u
    <3> HIDE DEF es
    <3>1. \E x \in es : \A y \in es : x >= y
      BY <2>3, Zenon
    <3> QED
      BY <3>1, Zenon DEF Max
  <2>5. \A i \in Loads : f[i] \in es
    BY <2>1
  <2>6. \A u \in es : u \in Nat
    BY <2>1
  <2>7. \A i \in Loads : f[i] = Seg(i).vaddr + Seg(i).memsz
    OBVIOUS
  <2> HIDE DEF es, f
  <2> QED
    BY <2>1, <2>4, <2>5, <2>6, <2>7
<1>3. Seg(first).vaddr \in Int
  BY FirstFact, Segments
<1>4. total_map_sz = Hi - Lo
  BY <1>1, Zenon DEF total_map_sz, Hi, Lo
<1>5. Lo \in Int /\ Hi \in Int /\ Aligned(Lo) /\ Aligned(Hi)
  BY <1>2, <1>3, Down, Up DEF Lo, Hi
<1>6. ASSUME NEW i \in Loads
      PROVE  /\ Lo <= ALIGN_DOWN(Seg(i).vaddr)
             /\ ALIGN_UP(Seg(i).vaddr + Seg(i).memsz) <= Hi
  <2>1. Seg(i).vaddr \in Int /\ Seg(i).vaddr + Seg(i).memsz \in Int
    BY Segments
  <2>2. Lo <= Seg(i).vaddr
    <3>1. Lo <= Seg(first).vaddr
      BY <1>3, Down DEF Lo
    <3> QED
      BY <1>3, <1>5, <2>1, <3>1, FirstFact
  <2>3. Seg(i).vaddr + Seg(i).memsz <= Hi
    <3>1. Max(es) <= Hi
      BY <1>2, Up DEF Hi
    <3> HIDE DEF es
    <3> QED
      BY <1>2, <1>5, <2>1, <3>1
  <2> QED
    BY <1>5, <2>1, <2>2, <2>3, DownMost, UpLeast
<1> QED
  BY <1>4, <1>5, <1>6

-----------------------------------------------------------------------------
(* The image while it is loaded *)

(* The pages of segment i of an image that is loaded at b. *)
From(b, i) == b + ALIGN_DOWN(Seg(i).vaddr)
To(b, i) == b + ALIGN_UP(Seg(i).vaddr + Seg(i).memsz)

(* A memory v, with permissions w, holds segment i. *)
Right(b, v, w, i) ==
    \A k \in Span(0, Seg(i).memsz) :
        LET a == b + Seg(i).vaddr + k
        IN  /\ k < Seg(i).filesz => v[a] = file.base + Seg(i).offset + k
            /\ k >= Seg(i).filesz /\ Seg(i).w => v[a] = Zero
            /\ w[a] = Seg(i).w

(* The segments before n are in memory, nothing that load_elf found there  *)
(* is lost, if the place was the kernel's choice, and there is nothing new *)
(* outside the pages of segments.                                          *)
PlacedAt(b, n, v, w) ==
    /\ Aligned(b) /\ 0 <= b + Lo /\ b + Hi <= NPages * PAGE_SIZE
    /\ \A i \in Loads : i = first \/ i < n => Right(b, v, w, i)
    /\ file.dyn => \A a \in Addrs : before[a] # None =>
                       a \notin Span(b + Lo, b + Hi) /\ v[a] = before[a]
    /\ \A a \in Addrs : before[a] = None /\ v[a] # None =>
           \E i \in Loads : a \in Span(From(b, i), To(b, i))

(* The assertions of load_elf. *)
Checked ==
    /\ \A i \in Loads : (Seg(i).vaddr - Seg(i).offset) % PAGE_SIZE = 0
    /\ Seg(first).offset = 0

Memories == [Addrs -> Int]

(* Where the pages of a segment are. *)
LEMMA PagesFact ==
    ASSUME Linked(file), NEW b, Aligned(b), NEW i \in Loads
    PROVE  /\ From(b, i) \in Int /\ To(b, i) \in Int /\ Aligned(From(b, i)) /\ Aligned(To(b, i))
           /\ From(b, i) = ALIGN_DOWN(b + Seg(i).vaddr)
           /\ To(b, i) = ALIGN_UP(b + Seg(i).vaddr + Seg(i).memsz)
           /\ From(b, i) <= b + Seg(i).vaddr
           /\ b + Seg(i).vaddr + Seg(i).memsz <= To(b, i)
           /\ b + Lo <= From(b, i) /\ To(b, i) <= b + Hi
<1>1. b \in Int
  BY AlignedInt
<1>2. /\ Seg(i).vaddr \in Int /\ Seg(i).memsz \in Int /\ Seg(i).vaddr + Seg(i).memsz \in Int
  BY Segments
<1>3. /\ ALIGN_DOWN(Seg(i).vaddr) \in Int /\ Aligned(ALIGN_DOWN(Seg(i).vaddr))
      /\ ALIGN_DOWN(Seg(i).vaddr) <= Seg(i).vaddr
  BY <1>2, Down
<1>4. /\ ALIGN_UP(Seg(i).vaddr + Seg(i).memsz) \in Int
      /\ Aligned(ALIGN_UP(Seg(i).vaddr + Seg(i).memsz))
      /\ Seg(i).vaddr + Seg(i).memsz <= ALIGN_UP(Seg(i).vaddr + Seg(i).memsz)
  BY <1>2, Up
<1>5. /\ Lo \in Int /\ Hi \in Int /\ Lo <= ALIGN_DOWN(Seg(i).vaddr)
      /\ ALIGN_UP(Seg(i).vaddr + Seg(i).memsz) <= Hi
  BY Extent
<1>6. Aligned(From(b, i)) /\ Aligned(To(b, i))
  BY <1>3, <1>4, AlignedSum, Zenon DEF From, To
<1>7. From(b, i) = ALIGN_DOWN(b + Seg(i).vaddr)
  BY <1>2, Shift DEF From
<1>8. To(b, i) = ALIGN_UP(b + Seg(i).vaddr + Seg(i).memsz)
  <2>1. To(b, i) = ALIGN_UP(b + (Seg(i).vaddr + Seg(i).memsz))
    BY <1>2, Shift DEF To
  <2>2. b + (Seg(i).vaddr + Seg(i).memsz) = b + Seg(i).vaddr + Seg(i).memsz
    BY <1>1, <1>2
  <2> QED
    BY <2>1, <2>2
<1>9. /\ From(b, i) \in Int /\ To(b, i) \in Int
      /\ From(b, i) <= b + Seg(i).vaddr
      /\ b + Seg(i).vaddr + Seg(i).memsz <= To(b, i)
      /\ b + Lo <= From(b, i) /\ To(b, i) <= b + Hi
  BY <1>1, <1>2, <1>3, <1>4, <1>5 DEF From, To
<1> QED
  BY <1>6, <1>7, <1>8, <1>9

(* No two segments share a page. *)
LEMMA PagesApart ==
    ASSUME Linked(file), NEW b, Aligned(b), NEW i \in Loads, NEW j \in Loads, i # j
    PROVE  To(b, i) <= From(b, j) \/ To(b, j) <= From(b, i)
<1>1. b \in Int
  BY AlignedInt
<1>2. \A k \in Loads : Seg(k).vaddr \in Int /\ Seg(k).vaddr + Seg(k).memsz \in Int
  BY Segments
<1>3. \A k \in Loads : /\ ALIGN_DOWN(Seg(k).vaddr) \in Int
                       /\ ALIGN_UP(Seg(k).vaddr + Seg(k).memsz) \in Int
  BY <1>2, Down, Up
<1>4. \/ ALIGN_UP(Seg(i).vaddr + Seg(i).memsz) <= ALIGN_DOWN(Seg(j).vaddr)
      \/ ALIGN_UP(Seg(j).vaddr + Seg(j).memsz) <= ALIGN_DOWN(Seg(i).vaddr)
  <2>1. Seg(i).vaddr <= Seg(j).vaddr \/ Seg(j).vaddr <= Seg(i).vaddr
    BY <1>2
  <2> QED
    BY <2>1, Segments
<1> QED
  BY <1>1, <1>3, <1>4 DEF From, To

Inside(b) == Aligned(b) /\ 0 <= b + Lo /\ b + Hi <= NPages * PAGE_SIZE

LEMMA AddrsFact == NPages * PAGE_SIZE \in Nat /\ \A a : a \in Addrs <=> a \in Int /\ 0 <= a /\ a < NPages * PAGE_SIZE
  BY ElfLoadAssumption DEF Addrs

LEMMA PagesInside ==
    ASSUME Linked(file), NEW b, Inside(b), NEW i \in Loads
    PROVE  Span(From(b, i), To(b, i)) \subseteq Addrs
<1>1. b \in Int /\ Lo \in Int /\ Hi \in Int
  BY AlignedInt, Extent DEF Inside
<1>2. /\ From(b, i) \in Int /\ To(b, i) \in Int
      /\ b + Lo <= From(b, i) /\ To(b, i) <= b + Hi
  BY PagesFact DEF Inside
<1>3. 0 <= From(b, i) /\ To(b, i) <= NPages * PAGE_SIZE
  BY <1>1, <1>2, AddrsFact DEF Inside
<1> QED
  BY <1>2, <1>3, AddrsFact DEF Span

(* The bytes of a segment are on its pages. *)
LEMMA ByteInside ==
    ASSUME Linked(file), NEW b, Inside(b), NEW i \in Loads, NEW k \in Span(0, Seg(i).memsz)
    PROVE  /\ b + Seg(i).vaddr + k \in Span(From(b, i), To(b, i))
           /\ b + Seg(i).vaddr + k \in Addrs
           /\ k \in Nat /\ k < Seg(i).memsz
<1>1. b \in Int /\ Seg(i).vaddr \in Nat /\ Seg(i).memsz \in Nat
  BY AlignedInt, Segments DEF Inside
<1>2. k \in Nat /\ k < Seg(i).memsz
  BY <1>1 DEF Span
<1>3. /\ From(b, i) \in Int /\ To(b, i) \in Int /\ From(b, i) <= b + Seg(i).vaddr
      /\ b + Seg(i).vaddr + Seg(i).memsz <= To(b, i)
  BY PagesFact DEF Inside
<1>4. b + Seg(i).vaddr + k \in Span(From(b, i), To(b, i))
  BY <1>1, <1>2, <1>3 DEF Span
<1> QED
  BY <1>2, <1>4, PagesInside, Zenon

(* Only the pages of segment i change. *)
OnlyPages(b, i, v, w, v2, w2) ==
    \A a \in Addrs : a \notin Span(From(b, i), To(b, i)) => v2[a] = v[a] /\ w2[a] = w[a]

(* A segment stays right when the pages of another change. *)
LEMMA RightKept ==
    ASSUME Linked(file), NEW b, Inside(b), NEW i \in Loads, NEW j \in Loads, j # i,
           NEW v, NEW w, NEW v2, NEW w2, Right(b, v, w, j), OnlyPages(b, i, v, w, v2, w2)
    PROVE  Right(b, v2, w2, j)
<1> SUFFICES ASSUME NEW k \in Span(0, Seg(j).memsz)
             PROVE  LET a == b + Seg(j).vaddr + k
                    IN  /\ k < Seg(j).filesz => v2[a] = file.base + Seg(j).offset + k
                        /\ k >= Seg(j).filesz /\ Seg(j).w => v2[a] = Zero
                        /\ w2[a] = Seg(j).w
  BY Zenon DEF Right
<1> DEFINE a == b + Seg(j).vaddr + k
<1>1. a \in Span(From(b, j), To(b, j)) /\ a \in Addrs
  BY ByteInside, Zenon
<1>2. a \notin Span(From(b, i), To(b, i))
  <2>1. /\ From(b, i) \in Int /\ To(b, i) \in Int /\ From(b, j) \in Int /\ To(b, j) \in Int
    BY PagesFact DEF Inside
  <2>2. To(b, i) <= From(b, j) \/ To(b, j) <= From(b, i)
    BY PagesApart DEF Inside
  <2> HIDE DEF a
  <2> QED
    BY <1>1, <2>1, <2>2 DEF Span
<1>3. v2[a] = v[a] /\ w2[a] = w[a]
  BY <1>1, <1>2, Zenon DEF OnlyPages
<1>4. /\ k < Seg(j).filesz => v[a] = file.base + Seg(j).offset + k
      /\ k >= Seg(j).filesz /\ Seg(j).w => v[a] = Zero
      /\ w[a] = Seg(j).w
  BY Zenon DEF Right
<1> QED
  BY <1>3, <1>4, Zenon

(* What mapping the file shows at the bytes of a segment. *)
LEMMA SegByte ==
    ASSUME Linked(file), Checked, NEW b, Aligned(b), NEW i \in Loads, NEW k \in Nat, k < Seg(i).filesz
    PROVE  FileByte(PageOffset(Seg(i).offset) + (b + Seg(i).vaddr + k) - From(b, i))
              = file.base + Seg(i).offset + k
<1>1. /\ b \in Int /\ Seg(i).vaddr \in Nat /\ Seg(i).offset \in Nat /\ Seg(i).filesz \in Nat
      /\ file.size \in Nat /\ file.base \in Nat /\ Seg(i).offset + Seg(i).filesz <= file.size
  BY AlignedInt, Segments
<1>2. Seg(i).vaddr - ALIGN_DOWN(Seg(i).vaddr) = Seg(i).offset - ALIGN_DOWN(Seg(i).offset)
  <2>1. (Seg(i).vaddr - Seg(i).offset) % PAGE_SIZE = 0
    BY DEF Checked
  <2>2. Seg(i).vaddr \in Int /\ Seg(i).offset \in Int
    BY <1>1
  <2> QED
    BY <2>1, <2>2, Congruent
<1>3. ALIGN_DOWN(Seg(i).vaddr) \in Int /\ ALIGN_DOWN(Seg(i).offset) \in Int
  BY <1>1, Down
<1>4. PageOffset(Seg(i).offset) + (b + Seg(i).vaddr + k) - From(b, i) = Seg(i).offset + k
  BY <1>1, <1>2, <1>3 DEF PageOffset, From
<1>5. Seg(i).offset + k < file.size /\ file.base + Seg(i).offset + k = file.base + (Seg(i).offset + k)
  BY <1>1
<1> QED
  BY <1>4, <1>5, Zenon DEF FileByte

(* A file mapping never shows None. *)
LEMMA FileByteInt ==
    ASSUME Linked(file), NEW o \in Int
    PROVE  FileByte(o) \in Int
<1>1. file.base \in Int
  BY Segments
<1> QED
  BY <1>1 DEF FileByte, Zero, Bus

-----------------------------------------------------------------------------
(* map_region *)

LEMMA SpanFact ==
    ASSUME NEW c \in Int, NEW d \in Int
    PROVE  \A a : a \in Span(c, d) <=> a \in Int /\ c <= a /\ a < d
  BY DEF Span

RegionOf(b, i, v) ==
    LET fend == b + Seg(i).vaddr + Seg(i).filesz
        u == Fill(MapFile(v, From(b, i), ALIGN_UP(fend), Seg(i).offset),
                  ALIGN_UP(fend), To(b, i), Zero)
    IN  Fill(u, PadFrom(fend), To(b, i), Zero)

(* Nothing outside the pages of segment i changes, and it is right. *)
RegionLeft(b, i, v, w, v2, w2) == OnlyPages(b, i, v, w, v2, w2) /\ Right(b, v2, w2, i)

(* That is what map_region leaves. *)
LEMMA RegionMapped ==
    ASSUME Linked(file), Checked, NEW b, Inside(b), NEW i \in Loads, NEW v, NEW w, NEW v2, NEW w2,
           v2 = RegionOf(b, i, v), w2 = Fill(w, From(b, i), To(b, i), Seg(i).w)
    PROVE  RegionLeft(b, i, v, w, v2, w2)
<1> DEFINE fend == b + Seg(i).vaddr + Seg(i).filesz
           u == Fill(MapFile(v, From(b, i), ALIGN_UP(fend), Seg(i).offset),
                     ALIGN_UP(fend), To(b, i), Zero)
<1>1. /\ b \in Int /\ Seg(i).vaddr \in Nat /\ Seg(i).filesz \in Nat /\ Seg(i).memsz \in Nat
      /\ Seg(i).filesz <= Seg(i).memsz /\ Aligned(b)
  BY AlignedInt, Segments DEF Inside
<1>2. fend \in Int
  BY <1>1
<1>3. /\ From(b, i) \in Int /\ To(b, i) \in Int /\ Aligned(To(b, i))
      /\ From(b, i) <= b + Seg(i).vaddr /\ b + Seg(i).vaddr + Seg(i).memsz <= To(b, i)
  BY <1>1, PagesFact
<1>4. /\ ALIGN_UP(fend) \in Int /\ fend <= ALIGN_UP(fend) /\ ALIGN_UP(fend) <= To(b, i)
  <2>1. fend <= To(b, i)
    BY <1>1, <1>3
  <2> QED
    BY <1>2, <1>3, <2>1, Up, UpLeast
<1>5. From(b, i) <= fend
  BY <1>1, <1>3
<1>6. /\ \A a : a \in Span(From(b, i), To(b, i)) <=> a \in Int /\ From(b, i) <= a /\ a < To(b, i)
      /\ \A a : a \in Span(From(b, i), ALIGN_UP(fend)) <=> a \in Int /\ From(b, i) <= a /\ a < ALIGN_UP(fend)
      /\ \A a : a \in Span(ALIGN_UP(fend), To(b, i)) <=> a \in Int /\ ALIGN_UP(fend) <= a /\ a < To(b, i)
      /\ \A a : a \in Span(fend, To(b, i)) <=> a \in Int /\ fend <= a /\ a < To(b, i)
  BY <1>2, <1>3, <1>4, SpanFact
<1>7. \A a \in Addrs : v2[a] = IF a \in Span(fend, To(b, i)) THEN Zero ELSE u[a]
  BY Zenon DEF RegionOf, Fill, PadFrom
<1>8. \A a \in Addrs : u[a] = IF a \in Span(ALIGN_UP(fend), To(b, i)) THEN Zero
                              ELSE MapFile(v, From(b, i), ALIGN_UP(fend), Seg(i).offset)[a]
  BY Zenon DEF Fill
<1>9. \A a \in Addrs : MapFile(v, From(b, i), ALIGN_UP(fend), Seg(i).offset)[a]
                          = IF a \in Span(From(b, i), ALIGN_UP(fend))
                            THEN FileByte(PageOffset(Seg(i).offset) + a - From(b, i)) ELSE v[a]
  BY Zenon DEF MapFile
<1>10. \A a \in Addrs : w2[a] = IF a \in Span(From(b, i), To(b, i)) THEN Seg(i).w ELSE w[a]
  BY Zenon DEF Fill
<1>a. fend = b + Seg(i).vaddr + Seg(i).filesz
  OBVIOUS
<1> HIDE DEF fend, u
<1>11. ASSUME NEW a \in Addrs, a \notin Span(From(b, i), To(b, i))
       PROVE  v2[a] = v[a] /\ w2[a] = w[a]
  <2>1. a \in Int
    BY AddrsFact
  <2>2. /\ a \notin Span(fend, To(b, i)) /\ a \notin Span(ALIGN_UP(fend), To(b, i))
        /\ a \notin Span(From(b, i), ALIGN_UP(fend))
    BY <1>2, <1>3, <1>4, <1>5, <1>6, <1>11, <2>1
  <2> QED
    BY <1>7, <1>8, <1>9, <1>10, <1>11, <2>2, Zenon
<1>12. ASSUME NEW k \in Span(0, Seg(i).memsz), NEW a, a = b + Seg(i).vaddr + k
       PROVE  /\ k < Seg(i).filesz => v2[a] = file.base + Seg(i).offset + k
              /\ k >= Seg(i).filesz /\ Seg(i).w => v2[a] = Zero
              /\ w2[a] = Seg(i).w
  <2>1. a \in Span(From(b, i), To(b, i)) /\ a \in Addrs /\ k \in Nat
    BY <1>12, ByteInside, Zenon
  <2>2. w2[a] = Seg(i).w
    BY <1>10, <2>1, Zenon
  <2>3. ASSUME k >= Seg(i).filesz
        PROVE  v2[a] = Zero
    <3>1. a \in Span(fend, To(b, i))
      BY <1>a, <1>1, <1>2, <1>3, <1>6, <1>12, <2>1, <2>3
    <3> QED
      BY <1>7, <2>1, <3>1, Zenon
  <2>4. ASSUME k < Seg(i).filesz
        PROVE  v2[a] = file.base + Seg(i).offset + k
    <3>1. a < fend /\ a \in Int
      BY <1>a, <1>1, <1>12, <2>1, <2>4
    <3>2. /\ a \notin Span(fend, To(b, i)) /\ a \notin Span(ALIGN_UP(fend), To(b, i))
          /\ a \in Span(From(b, i), ALIGN_UP(fend))
      BY <1>2, <1>3, <1>4, <1>5, <1>6, <2>1, <3>1
    <3>3. v2[a] = FileByte(PageOffset(Seg(i).offset) + a - From(b, i))
      BY <1>7, <1>8, <1>9, <2>1, <3>2, Zenon
    <3>4. FileByte(PageOffset(Seg(i).offset) + (b + Seg(i).vaddr + k) - From(b, i))
              = file.base + Seg(i).offset + k
      BY <1>1, <2>1, <2>4, SegByte, Zenon
    <3> QED
      BY <1>12, <3>3, <3>4, Zenon
  <2> QED
    BY <2>2, <2>3, <2>4, Zenon
<1>13. Right(b, v2, w2, i)
  BY <1>12, Zenon DEF Right
<1> QED
  BY <1>11, <1>13, Zenon DEF RegionLeft, OnlyPages

(* map_region puts one more segment into memory. *)
LEMMA RegionStep ==
    ASSUME Linked(file), NEW b, NEW i \in Loads, i # first, NEW v, NEW w, NEW v2, NEW w2,
           PlacedAt(b, i, v, w), RegionLeft(b, i, v, w, v2, w2)
    PROVE  PlacedAt(b, i + 1, v2, w2)
<1>a. OnlyPages(b, i, v, w, v2, w2) /\ Right(b, v2, w2, i)
  BY Zenon DEF RegionLeft
<1>0. Inside(b)
  BY Zenon DEF PlacedAt, Inside
<1>1. ASSUME NEW j \in Loads, j = first \/ j < i + 1
      PROVE  Right(b, v2, w2, j)
  <2>1. CASE j = i
    BY <1>a, <2>1, Zenon
  <2>2. CASE j # i
    <3>1. i \in Int /\ j \in Int
      BY Segments
    <3>2. j = first \/ j < i
      BY <1>1, <2>2, <3>1
    <3>3. Right(b, v, w, j)
      BY <3>2, Zenon DEF PlacedAt
    <3> QED
      BY <1>0, <1>a, <2>2, <3>3, RightKept, Zenon
  <2> QED
    BY <2>1, <2>2
<1>2. ASSUME file.dyn, NEW a \in Addrs, before[a] # None
      PROVE  a \notin Span(b + Lo, b + Hi) /\ v2[a] = before[a]
  <2>1. a \notin Span(b + Lo, b + Hi) /\ v[a] = before[a]
    BY <1>2, Zenon DEF PlacedAt
  <2>2. a \notin Span(From(b, i), To(b, i))
    <3>1. b \in Int /\ Lo \in Int /\ Hi \in Int
      BY <1>0, AlignedInt, Extent DEF Inside
    <3>2. /\ From(b, i) \in Int /\ To(b, i) \in Int
          /\ b + Lo <= From(b, i) /\ To(b, i) <= b + Hi
      BY <1>0, PagesFact DEF Inside
    <3> QED
      BY <2>1, <3>1, <3>2 DEF Span
  <2> QED
    BY <1>a, <2>1, <2>2, Zenon DEF OnlyPages
<1>3. ASSUME NEW a \in Addrs, before[a] = None, v2[a] # None
      PROVE  \E j \in Loads : a \in Span(From(b, j), To(b, j))
  <2>1. CASE a \in Span(From(b, i), To(b, i))
    BY <2>1, Zenon
  <2>2. CASE a \notin Span(From(b, i), To(b, i))
    <3>1. v[a] # None
      BY <1>a, <1>3, <2>2, Zenon DEF OnlyPages
    <3> QED
      BY <1>3, <3>1, Zenon DEF PlacedAt
  <2> QED
    BY <2>1, <2>2
<1> QED
  BY <1>0, <1>1, <1>2, <1>3, Zenon DEF PlacedAt, Inside

-----------------------------------------------------------------------------
(* map_first *)

(* The first segment has offset 0: the image starts with it. *)
LEMMA FirstAligned ==
    ASSUME Linked(file), Checked
    PROVE  /\ Seg(first).vaddr = Lo /\ Seg(first).offset = 0 /\ PageOffset(0) = 0
           /\ ALIGN_UP(Seg(first).vaddr + total_map_sz) = Hi
<1>1. first \in Loads /\ Seg(first).vaddr \in Int /\ Seg(first).offset = 0
  BY FirstFact, Segments DEF Checked
<1>2. Aligned(Seg(first).vaddr)
  <2>1. (Seg(first).vaddr - 0) % PAGE_SIZE = 0
    BY <1>1 DEF Checked
  <2>2. Aligned(Seg(first).vaddr - 0)
    BY <1>1, <2>1, Congruent
  <2>3. Seg(first).vaddr - 0 = Seg(first).vaddr
    BY <1>1
  <2> QED
    BY <2>2, <2>3
<1>3. Seg(first).vaddr = Lo
  BY <1>2, AlignedSame DEF Lo
<1>4. Seg(first).vaddr + total_map_sz = Hi
  BY <1>3, Extent
<1>5. ALIGN_UP(Hi) = Hi
  BY Extent, AlignedSame
<1>6. PageOffset(0) = 0
  BY AlignedP, AlignedSame DEF PageOffset
<1> QED
  BY <1>1, <1>3, <1>4, <1>5, <1>6

BiasOf(m) == IF file.dyn THEN m - Seg(first).vaddr ELSE 0

(* What mmap returns has room for the whole image. *)
LEMMA PlaceFact ==
    ASSUME Linked(file), Checked, NEW m \in Places
    PROVE  /\ Inside(BiasOf(m))
           /\ file.dyn => \A a \in Span(BiasOf(m) + Lo, BiasOf(m) + Hi) : val[a] = None
<1> DEFINE last == NPages - total_map_sz \div PAGE_SIZE
           Free(n) == \A a \in Span(PAGE_SIZE * n, PAGE_SIZE * n + total_map_sz) : val[a] = None
<1>1. PICK n \in LowPages .. last : /\ m = PAGE_SIZE * n
                                    /\ file.dyn => Free(n)
                                    /\ ~file.dyn => n = PageOf(Seg(first).vaddr)
  BY Zenon DEF Places, Seg
<1>2. /\ Lo \in Int /\ Hi \in Int /\ Aligned(Lo) /\ Aligned(Hi) /\ total_map_sz = Hi - Lo
      /\ Seg(first).vaddr = Lo /\ Seg(first).vaddr \in Nat
  BY Extent, FirstAligned, FirstFact, Segments
<1>3. PICK q \in Int : Hi - Lo = P * q
  BY <1>2, AlignedSum DEF Aligned
<1>4. total_map_sz \div PAGE_SIZE = q
  <2>1. (P * q) \div P = q
    BY PIsNat
  <2> QED
    BY <1>2, <1>3, <2>1 DEF P
<1>5. n \in Int /\ 0 <= n /\ n + q <= NPages
  BY <1>1, <1>4, ElfLoadAssumption
<1>6. 0 <= P * n /\ P * n + P * q <= P * NPages /\ P * n \in Int
  <2>1. P * (n + q) <= P * NPages
    BY <1>5, PIsNat, ElfLoadAssumption
  <2>2. P * (n + q) = P * n + P * q
    BY <1>5, PIsNat
  <2>3. 0 <= P * n /\ P * n \in Int
    BY <1>5, PIsNat
  <2> QED
    BY <2>1, <2>2, <2>3
<1>7. BiasOf(m) + Lo = P * n
  <2>1. CASE file.dyn
    BY <1>1, <1>2, <1>6, <2>1 DEF BiasOf, P
  <2>2. CASE ~file.dyn
    <3>1. n = Lo \div P
      BY <1>1, <1>2, <2>2 DEF PageOf, P
    <3>2. PICK r \in Int : Lo = P * r
      BY <1>2 DEF Aligned
    <3>3. (P * r) \div P = r
      BY PIsNat
    <3>4. BiasOf(m) + Lo = Lo
      BY <1>2, <2>2 DEF BiasOf
    <3> QED
      BY <3>1, <3>2, <3>3, <3>4
  <2> QED
    BY <2>1, <2>2
<1>8. BiasOf(m) \in Int
  <2>1. m \in Int
    BY <1>1, <1>6 DEF P
  <2> QED
    BY <1>2, <2>1 DEF BiasOf
<1>9. Aligned(BiasOf(m))
  <2>1. Aligned(P * n)
    BY <1>5 DEF Aligned
  <2>2. Aligned(P * n - Lo)
    BY <1>2, <2>1, AlignedSum
  <2>3. P * n - Lo = BiasOf(m)
    BY <1>2, <1>7, <1>8
  <2> QED
    BY <2>2, <2>3
<1>10. BiasOf(m) + Hi = P * n + total_map_sz
  BY <1>2, <1>6, <1>7, <1>8
<1>11. BiasOf(m) + Hi <= NPages * PAGE_SIZE
  <2>1. P * NPages = NPages * PAGE_SIZE
    BY ElfLoadAssumption DEF P
  <2> QED
    BY <1>2, <1>3, <1>6, <1>10, <2>1
<1>12. file.dyn => \A a \in Span(BiasOf(m) + Lo, BiasOf(m) + Hi) : val[a] = None
  BY <1>1, <1>7, <1>10, Zenon DEF P
<1> QED
  BY <1>6, <1>7, <1>9, <1>11, <1>12 DEF Inside

(* The memory after map_first has placed the image at b; u is the memory   *)
(* before the padding.                                                     *)
FirstAt(b, u) ==
    /\ bias' = b
    /\ u = Fill(MapFile(val, b + Lo, b + Hi, 0), UnmapFrom(b + Lo), ALIGN_UP(b + Hi), None)
    /\ write' = Fill(write, b + Lo, b + Hi, Seg(first).w)
    /\ \/ val' = u /\ ~(Seg(first).filesz < Seg(first).memsz /\ Seg(first).w)
       \/ val' = Fill(u, b + Lo + Seg(first).filesz, b + Lo + Seg(first).memsz, Zero)

(* The first segment is right, and the place of the others is empty. *)
FirstLeft(b, v, v2, w2) ==
    /\ \A a \in Addrs : a \notin Span(b + Lo, b + Hi) => v2[a] = v[a]
    /\ \A a \in Addrs : a \in Span(b + Lo, b + Hi) /\ v2[a] # None =>
          a \in Span(From(b, first), To(b, first))
    /\ Right(b, v2, w2, first)

LEMMA UnmapFact ==
    ASSUME Linked(file), Checked, NEW b, Inside(b)
    PROVE  UnmapFrom(b + Lo) = To(b, first) /\ ALIGN_UP(b + Hi) = b + Hi
<1>1. first \in Loads /\ Seg(first).vaddr = Lo /\ Aligned(b) /\ Aligned(Hi)
  BY FirstFact, FirstAligned, Extent, Zenon DEF Inside
<1>2. To(b, first) = ALIGN_UP(b + Seg(first).vaddr + Seg(first).memsz)
  BY <1>1, PagesFact, Zenon
<1>3. Aligned(b + Hi)
  BY <1>1, AlignedSum, Zenon
<1>4. ALIGN_UP(b + Hi) = b + Hi
  BY <1>3, AlignedSame, Zenon
<1> QED
  BY <1>1, <1>2, <1>4, Zenon DEF UnmapFrom, Seg

(* That is what map_first leaves. *)
LEMMA FirstMapped ==
    ASSUME Linked(file), Checked, NEW b, Inside(b), NEW u, FirstAt(b, u)
    PROVE  FirstLeft(b, val, val', write')
<1>0. /\ u = Fill(MapFile(val, b + Lo, b + Hi, 0), To(b, first), b + Hi, None)
      /\ \/ val' = u /\ ~(Seg(first).filesz < Seg(first).memsz /\ Seg(first).w)
         \/ val' = Fill(u, b + Lo + Seg(first).filesz, b + Lo + Seg(first).memsz, Zero)
      /\ write' = Fill(write, b + Lo, b + Hi, Seg(first).w)
  BY UnmapFact, Zenon DEF FirstAt
<1> DEFINE p == Seg(first)
           c == b + Lo
           d == b + Hi
           t == To(b, first)
           x == c + p.filesz
           y == c + p.memsz
<1>1. /\ first \in Loads /\ p.vaddr = Lo /\ p.offset = 0 /\ PageOffset(0) = 0
      /\ p.filesz \in Nat /\ p.memsz \in Nat /\ p.filesz <= p.memsz /\ p.memsz > 0
      /\ b \in Int /\ Lo \in Int /\ Hi \in Int /\ Aligned(b) /\ p.w \in BOOLEAN
  BY FirstFact, FirstAligned, Segments, AlignedInt, Extent DEF Inside
<1>2. /\ c \in Int /\ d \in Int /\ t \in Int /\ x \in Int /\ y \in Int
      /\ From(b, first) = c /\ c <= x /\ x <= y /\ y <= t /\ t <= d
  <2>1. /\ From(b, first) \in Int /\ t \in Int /\ b + p.vaddr + p.memsz <= t /\ t <= d
    BY <1>1, PagesFact
  <2>2. From(b, first) = c
    BY <1>1, Zenon DEF From, Lo
  <2> HIDE DEF p, t
  <2> QED
    BY <1>1, <2>1, <2>2
<1>3. /\ \A a : a \in Span(c, d) <=> a \in Int /\ c <= a /\ a < d
      /\ \A a : a \in Span(t, d) <=> a \in Int /\ t <= a /\ a < d
      /\ \A a : a \in Span(c, t) <=> a \in Int /\ c <= a /\ a < t
      /\ \A a : a \in Span(x, y) <=> a \in Int /\ x <= a /\ a < y
  <2> HIDE DEF c, d, t, x, y
  <2> QED
    BY <1>2, SpanFact
<1>4. \A a \in Addrs : u[a] = IF a \in Span(t, d) THEN None
                              ELSE IF a \in Span(c, d) THEN FileByte(PageOffset(0) + a - c) ELSE val[a]
  BY <1>0, Zenon DEF Fill, MapFile
<1>5. \A a \in Addrs : val'[a] = u[a] \/ (a \in Span(x, y) /\ val'[a] = Zero)
  BY <1>0, Zenon DEF Fill
<1>6. \A a \in Addrs : a \in Span(x, y) /\ p.w => val'[a] = Zero
  <2>1. CASE val' = u /\ ~(p.filesz < p.memsz /\ p.w)
    <3>1. p.w => x = y
      BY <1>1, <1>2, <2>1
    <3>2. p.w => \A a : a \notin Span(x, y)
      <4> HIDE DEF x, y
      <4> QED
        BY <1>2, <1>3, <3>1
    <3> QED
      BY <3>2, Zenon
  <2>2. CASE val' = Fill(u, x, y, Zero)
    BY <2>2, Zenon DEF Fill
  <2> QED
    BY <1>0, <2>1, <2>2, Zenon
<1>7. \A a \in Addrs : write'[a] = IF a \in Span(c, d) THEN p.w ELSE write[a]
  BY <1>0, Zenon DEF Fill
<1> HIDE DEF c, d, t, x, y, p
<1>8. ASSUME NEW a \in Addrs, a \notin Span(c, d)
      PROVE  val'[a] = val[a]
  <2>1. a \in Int
    BY AddrsFact
  <2>2. a \notin Span(x, y) /\ a \notin Span(t, d)
    BY <1>2, <1>3, <1>8, <2>1
  <2> QED
    BY <1>4, <1>5, <1>8, <2>2, Zenon
<1>9. ASSUME NEW a \in Addrs, a \in Span(c, d), val'[a] # None
      PROVE  a \in Span(c, t)
  <2>1. CASE a \in Span(t, d)
    <3>1. a \notin Span(x, y)
      BY <1>2, <1>3, <2>1
    <3> QED
      BY <1>4, <1>5, <1>9, <2>1, <3>1, Zenon
  <2>2. CASE a \notin Span(t, d)
    BY <1>2, <1>3, <1>9, <2>2
  <2> QED
    BY <2>1, <2>2
<1>10. ASSUME NEW k \in Span(0, p.memsz), NEW a, a = b + p.vaddr + k
       PROVE  /\ k < p.filesz => val'[a] = file.base + p.offset + k
              /\ k >= p.filesz /\ p.w => val'[a] = Zero
              /\ write'[a] = p.w
  <2>1. a \in Addrs /\ k \in Nat /\ k < p.memsz
    BY <1>1, <1>10, ByteInside, Zenon DEF p
  <2>2. a = c + k
    BY <1>1, <1>10 DEF c
  <2>3. x = c + p.filesz /\ y = c + p.memsz
    BY DEF x, y
  <2>4. a \in Span(c, d) /\ a \notin Span(t, d)
    BY <1>1, <1>2, <1>3, <2>1, <2>2, <2>3
  <2>5. write'[a] = p.w
    BY <1>7, <2>1, <2>4, Zenon
  <2>6. ASSUME k >= p.filesz, p.w
        PROVE  val'[a] = Zero
    <3>1. a \in Span(x, y)
      BY <1>1, <1>2, <1>3, <2>1, <2>2, <2>3, <2>6
    <3> QED
      BY <1>6, <2>1, <2>6, <3>1, Zenon
  <2>7. ASSUME k < p.filesz
        PROVE  val'[a] = file.base + p.offset + k
    <3>1. a \notin Span(x, y)
      BY <1>1, <1>2, <1>3, <2>1, <2>2, <2>3, <2>7
    <3>2. val'[a] = FileByte(PageOffset(0) + a - c)
      BY <1>4, <1>5, <2>1, <2>4, <3>1, Zenon
    <3>3. FileByte(PageOffset(p.offset) + (b + p.vaddr + k) - From(b, first))
              = file.base + p.offset + k
      BY <1>1, <2>1, <2>7, SegByte, Zenon DEF p
    <3> QED
      BY <1>1, <1>2, <1>10, <3>2, <3>3, Zenon
  <2> QED
    BY <2>5, <2>6, <2>7, Zenon
<1>11. Right(b, val', write', first)
  BY <1>10, Zenon DEF Right, p
<1> QED
  BY <1>2, <1>8, <1>9, <1>11, Zenon DEF c, d, t, FirstLeft

(* map_first leaves an image of one segment. *)
LEMMA FirstStep ==
    ASSUME Linked(file), NEW b, Inside(b), NEW v2, NEW w2, before = val,
           file.dyn => \A a \in Span(b + Lo, b + Hi) : val[a] = None,
           FirstLeft(b, val, v2, w2)
    PROVE  PlacedAt(b, 1, v2, w2)
<1>1. ASSUME NEW i \in Loads, i = first \/ i < 1
      PROVE  Right(b, v2, w2, i)
  <2>1. i \in Int /\ ~(i < 1)
    BY Segments
  <2> QED
    BY <1>1, <2>1, Zenon DEF FirstLeft
<1>2. ASSUME file.dyn, NEW a \in Addrs, before[a] # None
      PROVE  a \notin Span(b + Lo, b + Hi) /\ v2[a] = before[a]
  BY <1>2, Zenon DEF FirstLeft
<1>3. ASSUME NEW a \in Addrs, before[a] = None, v2[a] # None
      PROVE  \E j \in Loads : a \in Span(From(b, j), To(b, j))
  <2>1. a \in Span(From(b, first), To(b, first))
    BY <1>3, Zenon DEF FirstLeft
  <2>2. first \in Loads
    BY FirstFact
  <2> QED
    BY <2>1, <2>2, Zenon
<1> QED
  BY <1>1, <1>2, <1>3, Zenon DEF PlacedAt, Inside

-----------------------------------------------------------------------------
(* The invariant *)

FirstOf(f) ==
    CHOOSE i \in LoadsOf(f) : \A j \in LoadsOf(f) : f.phdrs[i].vaddr <= f.phdrs[j].vaddr

(* What is said of a file stays true while it is loaded. *)
LEMMA SameFile ==
    ASSUME file' = file
    PROVE  Loads' = Loads /\ first' = first /\ Lo' = Lo /\ Hi' = Hi
<1>1. Loads' = Loads
  BY DEF Loads
<1>2. first' = first
  <2>1. first = FirstOf(file)
    BY Zenon DEF first, FirstOf, Loads
  <2>2. first' = FirstOf(file')
    BY Zenon DEF first, FirstOf, Loads
  <2> QED
    BY <2>1, <2>2
<1>3. Lo' = Lo
  BY <1>2 DEF Lo, Seg
<1>4. Hi' = Hi
  BY <1>1 DEF Hi
<1> QED
  BY <1>1, <1>2, <1>3, <1>4

LEMMA SamePlaced ==
    ASSUME file' = file, before' = before, PlacedAt(bias', next', val', write')
    PROVE  PlacedAt(bias, next, val, write)'
<1>1. Loads' = Loads /\ first' = first /\ Lo' = Lo /\ Hi' = Hi
  BY SameFile
<1>2. ASSUME NEW i, Right(bias', val', write', i)
      PROVE  Right(bias, val, write, i)'
  BY <1>2, Zenon DEF Right, Seg
<1>3. \A i : From(bias, i)' = From(bias', i) /\ To(bias, i)' = To(bias', i)
  BY Zenon DEF From, To, Seg
<1>4. Aligned(bias') /\ 0 <= bias' + Lo' /\ bias' + Hi' <= NPages * PAGE_SIZE
  BY <1>1, Zenon DEF PlacedAt
<1>5. \A i \in Loads' : i = first' \/ i < next' => Right(bias, val, write, i)'
  BY <1>1, <1>2, Zenon DEF PlacedAt
<1>6. file'.dyn => \A a \in Addrs : before'[a] # None =>
          a \notin Span(bias' + Lo', bias' + Hi') /\ val'[a] = before'[a]
  BY <1>1, Zenon DEF PlacedAt
<1>7. ASSUME NEW a \in Addrs, before'[a] = None, val'[a] # None
      PROVE  \E i \in Loads' : a \in Span(From(bias, i)', To(bias, i)')
  <2>1. before[a] = None
    BY <1>7
  <2>2. PICK i \in Loads : a \in Span(From(bias', i), To(bias', i))
    BY <1>7, <2>1, Zenon DEF PlacedAt
  <2>3. a \in Span(From(bias, i)', To(bias, i)')
    BY <1>3, <2>2
  <2> QED
    BY <1>1, <2>2, <2>3
<1> QED
  BY <1>4, <1>5, <1>6, <1>7, Zenon DEF PlacedAt

LEMMA SameChecked ==
    ASSUME file' = file, Checked
    PROVE  Checked'
<1>1. Loads' = Loads /\ first' = first
  BY SameFile, Zenon
<1> QED
  BY <1>1, Zenon DEF Checked, Seg

(* What load_elf has done, at each of its steps. *)
LoadInv ==
    /\ start \in Starts
    /\ file \in {start.program, start.ldso}
    /\ next \in 1 .. Len(file.phdrs) + 1
    /\ stage \in {"open", "first"} => next = 1 /\ before = val
    /\ stage \in {"first", "region", "done"} => Checked
    /\ Done => next > Len(file.phdrs)
    /\ stage \in {"region", "done"} /\ ~unplaced => PlacedAt(bias, next, val, write)

LEMMA FileLinked == LoadInv => Linked(file)
  BY FilesLinked, Zenon DEF LoadInv

(* A step that reads no segment: load_elf is called, has returned, or      *)
(* something else happens.                                                 *)
Elsewhere ==
    /\ start' = start
    /\ \/ UNCHANGED elf
       \/ stage' \in {"idle", "dead"} /\ UNCHANGED <<file, next, bias, need, memory, history>>
       \/ load_elf(start.program)
       \/ load_elf(start.ldso)

LEMMA OtherSteps ==
    ASSUME [Next]_vars, ~LoadElf
    PROVE  Elsewhere
<1>1. CASE interp_start
  BY <1>1, Zenon DEF interp_start, Elsewhere
<1>2. CASE relocate_interp
  BY <1>2, Zenon DEF relocate_interp, Die, Elsewhere, xvars
<1>3. CASE scan_startup_stack
  BY <1>3, Zenon DEF scan_startup_stack, Die, Elsewhere, xvars
<1>4. CASE set_vsyscall_entry
  BY <1>4, Zenon DEF set_vsyscall_entry, Die, Elsewhere, xvars
<1>5. CASE reexec
  BY <1>5, Zenon DEF reexec, Restart, Die, Elsewhere, xvars
<1>6. CASE load_exec
  BY <1>6, Zenon DEF load_exec, Die, Elsewhere, xvars
<1>7. CASE ExecLoaded
  BY <1>7, Zenon DEF ExecLoaded, Die, Elsewhere, xvars
<1>8. CASE load_real_interp
  BY <1>8, Zenon DEF load_real_interp, Elsewhere
<1>9. CASE InterpLoaded
  BY <1>9, Zenon DEF InterpLoaded, Die, Elsewhere, xvars
<1>10. CASE SET_INTERP_RETADDR
  BY <1>10, Zenon DEF SET_INTERP_RETADDR, Elsewhere
<1>11. CASE unselect_start
  BY <1>11, Zenon DEF unselect_start, Elsewhere
<1>12. CASE snitchaser_start
  BY <1>12, Zenon DEF snitchaser_start, Elsewhere
<1>13. CASE UNCHANGED vars
  BY <1>13, Zenon DEF vars, xvars, Elsewhere
<1> QED
  BY <1>1, <1>2, <1>3, <1>4, <1>5, <1>6, <1>7, <1>8, <1>9, <1>10, <1>11, <1>12, <1>13, Zenon
  DEF Next

-----------------------------------------------------------------------------
(* The steps of load_elf *)

LEMMA OpenStep ==
    ASSUME LoadInv, open_elf_file, start' = start
    PROVE  LoadInv'
<1>1. file' = file /\ next' = next /\ val' = val /\ before' = before /\ stage = "open"
  BY DEF open_elf_file, memory, history
<1>2. stage' \in {"first", "dead"} /\ (stage' = "first" => Checked)
  BY Zenon DEF open_elf_file, Checked, Seg
<1>3. stage' = "first" => Checked'
  BY <1>1, <1>2, SameChecked
<1> QED
  BY <1>1, <1>2, <1>3, Zenon DEF LoadInv, Done

(* The branches of map_first. *)
LEMMA FirstParts ==
    ASSUME map_first, Linked(file), Checked
    PROVE  /\ stage = "first" /\ stage' \in {"dead", "region"}
           /\ file' = file /\ next' = next /\ before' = before
           /\ stage' = "region" /\ ~unplaced' => \E m \in Places : \E u : FirstAt(BiasOf(m), u)
<1>1. /\ Seg(first).offset = 0 /\ ALIGN_DOWN(Seg(first).vaddr) = Lo
      /\ ALIGN_UP(Seg(first).vaddr + total_map_sz) = Hi
  BY FirstAligned DEF Lo
<1>2. /\ stage = "first" /\ file' = file /\ next' = next /\ before' = before
      /\ stage' \in {"dead", "region"}
  BY Zenon DEF map_first
<1>3. ASSUME stage' = "region", ~unplaced'
      PROVE  \E m \in Places : \E u : FirstAt(BiasOf(m), u)
  <2> DEFINE p == Seg(first)
             bb(m) == BiasOf(m)
             st(m) == bb(m) + ALIGN_DOWN(p.vaddr)
             en(m) == bb(m) + ALIGN_UP(p.vaddr + total_map_sz)
             uu(m) == Fill(MapFile(val, st(m), en(m), p.offset), UnmapFrom(st(m)), ALIGN_UP(en(m)), None)
  <2>1. PICK m \in Places :
           /\ bias' = bb(m)
           /\ write' = Fill(write, st(m), en(m), p.w)
           /\ \/ val' = uu(m) /\ ~(p.filesz < p.memsz /\ p.w)
              \/ val' = Fill(uu(m), st(m) + p.filesz, st(m) + p.memsz, Zero)
    BY <1>3, Zenon DEF map_first, Seg, BiasOf
  <2> QED
    BY <1>1, <2>1, Zenon DEF FirstAt
<1> QED
  BY <1>2, <1>3, Zenon

LEMMA MapFirstStep ==
    ASSUME LoadInv, map_first, start' = start
    PROVE  LoadInv'
<1>1. Linked(file)
  BY FileLinked
<1>2. Checked /\ next = 1 /\ before = val
  BY Zenon DEF LoadInv, map_first
<1>3. /\ stage' \in {"dead", "region"} /\ file' = file /\ next' = next /\ before' = before
  BY <1>1, <1>2, FirstParts, Zenon
<1>4. ASSUME stage' = "region", ~unplaced'
      PROVE  PlacedAt(bias, next, val, write)'
  <2>0. PICK m \in Places : \E u : FirstAt(BiasOf(m), u)
    BY <1>1, <1>2, <1>4, FirstParts, Zenon
  <2>1. PICK u : FirstAt(BiasOf(m), u)
    BY <2>0
  <2>2. /\ Inside(BiasOf(m))
        /\ file.dyn => \A a \in Span(BiasOf(m) + Lo, BiasOf(m) + Hi) : val[a] = None
    BY <1>1, <1>2, PlaceFact, Zenon
  <2>3. FirstLeft(BiasOf(m), val, val', write')
    BY <1>1, <1>2, <2>1, <2>2, FirstMapped, Zenon
  <2>4. PlacedAt(BiasOf(m), 1, val', write')
    BY <1>1, <1>2, <2>2, <2>3, FirstStep, Zenon
  <2>5. PlacedAt(bias', next', val', write')
    BY <1>2, <1>3, <2>1, <2>4, Zenon DEF FirstAt
  <2> QED
    BY <1>3, <2>5, SamePlaced, Zenon
<1>5. Checked'
  BY <1>2, <1>3, SameChecked
<1> QED
  BY <1>3, <1>4, <1>5, Zenon DEF LoadInv, Done

LEMMA MapRegionStep ==
    ASSUME LoadInv, map_region, start' = start
    PROVE  LoadInv'
<1>1. Linked(file)
  BY FileLinked
<1>2. /\ stage = "region" /\ next <= Len(file.phdrs) /\ next \in Loads /\ next # first
      /\ next' = next + 1 /\ file' = file /\ bias' = bias /\ before' = before
      /\ unplaced' = unplaced /\ stage' \in {"dead", "region"}
  BY DEF map_region, history
<1>3. Checked /\ (~unplaced => PlacedAt(bias, next, val, write))
  BY <1>2, Zenon DEF LoadInv
<1>4. next' \in 1 .. Len(file'.phdrs) + 1
  <2>1. next \in 1 .. Len(file.phdrs) + 1
    BY Zenon DEF LoadInv
  <2>2. Len(file.phdrs) \in Nat
    BY <1>1, Segments, Zenon
  <2>3. next' = next + 1 /\ next <= Len(file.phdrs) /\ file' = file
    BY <1>2, Zenon
  <2>4. next + 1 \in 1 .. Len(file.phdrs) + 1
    BY <2>1, <2>2, <2>3
  <2> QED
    BY <2>3, <2>4, Zenon
<1>5. Checked'
  BY <1>2, <1>3, SameChecked
<1>6. ASSUME stage' = "region", ~unplaced'
      PROVE  PlacedAt(bias, next, val, write)'
  <2> DEFINE fend == bias + Seg(next).vaddr + Seg(next).filesz
             mend == bias + Seg(next).vaddr + Seg(next).memsz
             lo == ALIGN_DOWN(bias + Seg(next).vaddr)
             u == Fill(MapFile(val, lo, ALIGN_UP(fend), Seg(next).offset),
                       ALIGN_UP(fend), ALIGN_UP(mend), Zero)
  <2>1. /\ val' = Fill(u, PadFrom(fend), ALIGN_UP(mend), Zero)
        /\ write' = Fill(write, lo, ALIGN_UP(mend), Seg(next).w)
    BY <1>6, Zenon DEF map_region, Seg
  <2>2. PlacedAt(bias, next, val, write)
    BY <1>2, <1>3, <1>6
  <2>3. Inside(bias)
    BY <2>2, Zenon DEF PlacedAt, Inside
  <2>4. lo = From(bias, next) /\ ALIGN_UP(mend) = To(bias, next)
    BY <1>1, <1>2, <2>3, PagesFact, Zenon DEF Inside
  <2>5. RegionLeft(bias, next, val, write, val', write')
    <3>1. val' = RegionOf(bias, next, val)
      BY <2>1, <2>4, Zenon DEF RegionOf
    <3>2. write' = Fill(write, From(bias, next), To(bias, next), Seg(next).w)
      BY <2>1, <2>4, Zenon
    <3> QED
      BY <1>1, <1>2, <1>3, <2>3, <3>1, <3>2, RegionMapped, Zenon
  <2>6. PlacedAt(bias, next + 1, val', write')
    BY <1>1, <1>2, <1>3, <2>2, <2>5, RegionStep, Zenon
  <2>7. PlacedAt(bias', next', val', write')
    BY <1>2, <2>6, Zenon
  <2> QED
    BY <1>2, <2>7, SamePlaced, Zenon
<1> QED
  BY <1>2, <1>4, <1>5, <1>6, ZenonT(30) DEF LoadInv, Done

LEMMA SkipStep ==
    ASSUME LoadInv, SkipPhdr, start' = start
    PROVE  LoadInv'
<1>1. Linked(file)
  BY FileLinked
<1>2. /\ stage = "region" /\ next <= Len(file.phdrs) /\ next \notin Loads \ {first}
      /\ next' = next + 1 /\ file' = file /\ bias' = bias /\ before' = before
      /\ unplaced' = unplaced /\ stage' = stage /\ val' = val /\ write' = write
  BY DEF SkipPhdr, history, memory
<1>3. Checked /\ (~unplaced => PlacedAt(bias, next, val, write))
  BY <1>2, Zenon DEF LoadInv
<1>4. next' \in 1 .. Len(file'.phdrs) + 1
  <2>1. next \in 1 .. Len(file.phdrs) + 1
    BY Zenon DEF LoadInv
  <2>2. Len(file.phdrs) \in Nat
    BY <1>1, Segments, Zenon
  <2>3. next' = next + 1 /\ next <= Len(file.phdrs) /\ file' = file
    BY <1>2, Zenon
  <2>4. next + 1 \in 1 .. Len(file.phdrs) + 1
    BY <2>1, <2>2, <2>3
  <2> QED
    BY <2>3, <2>4, Zenon
<1>5. Checked'
  BY <1>2, <1>3, SameChecked
<1>6. ASSUME ~unplaced'
      PROVE  PlacedAt(bias, next, val, write)'
  <2>1. PlacedAt(bias, next, val, write)
    BY <1>2, <1>3, <1>6
  <2>2. \A i \in Loads : i = first \/ i < next + 1 => i = first \/ i < next
    <3>1. next \in Int /\ \A i \in Loads : i \in Int
      BY <1>1, Segments DEF LoadInv
    <3>2. \A i \in Loads : i < next + 1 => i = next \/ i < next
      BY <3>1
    <3> QED
      BY <1>2, <3>2, Zenon
  <2>3. PlacedAt(bias, next + 1, val, write)
    BY <2>1, <2>2, Zenon DEF PlacedAt
  <2>4. PlacedAt(bias', next', val', write')
    BY <1>2, <2>3, Zenon
  <2> QED
    BY <1>2, <2>4, SamePlaced, Zenon
<1> QED
  BY <1>2, <1>4, <1>5, <1>6, ZenonT(30) DEF LoadInv, Done

(* What the invariant needs from a step that changes neither the file nor  *)
(* its image.                                                              *)
LEMMA KeptStep ==
    ASSUME LoadInv, start' = start, UNCHANGED <<file, next, bias, memory, history>>,
           stage' \in {stage, "idle", "dead"} \/ (stage = "region" /\ stage' = "done"),
           stage' = "done" => next > Len(file.phdrs)
    PROVE  LoadInv'
<1>1. /\ file' = file /\ next' = next /\ bias' = bias /\ val' = val /\ write' = write
      /\ before' = before /\ unplaced' = unplaced
  BY DEF memory, history
<1>2. Checked => Checked'
  BY <1>1, SameChecked
<1>3. PlacedAt(bias, next, val, write) => PlacedAt(bias, next, val, write)'
  <2>1. PlacedAt(bias, next, val, write) => PlacedAt(bias', next', val', write')
    BY <1>1, Zenon
  <2> QED
    BY <1>1, <2>1, SamePlaced
<1> QED
  BY <1>1, <1>2, <1>3, Zenon DEF LoadInv, Done

LEMMA CallStep ==
    ASSUME LoadInv, start' = start, load_elf(start.program) \/ load_elf(start.ldso)
    PROVE  LoadInv'
<1>1. /\ file' \in {start.program, start.ldso} /\ next' = 1 /\ before' = val /\ val' = val
      /\ stage' = "open"
  BY DEF load_elf, memory
<1>2. Len(file'.phdrs) \in Nat
  BY <1>1, FilesLinked, Zenon DEF LoadInv
<1>3. 1 \in 1 .. Len(file'.phdrs) + 1
  BY <1>2
<1> QED
  BY <1>1, <1>3, Zenon DEF LoadInv, Done

LEMMA LoadInvInit == Init => LoadInv
<1> SUFFICES ASSUME Init PROVE LoadInv
  OBVIOUS
<1>1. start \in Starts /\ file = start.ldso /\ next = 1 /\ stage = "idle"
  BY Zenon DEF Init
<1>2. Len(file.phdrs) \in Nat
  BY <1>1, FilesLinked, Zenon
<1>3. 1 \in 1 .. Len(file.phdrs) + 1
  BY <1>2
<1> QED
  BY <1>1, <1>3, Zenon DEF LoadInv, Done

LEMMA LoadInvNext == LoadInv /\ [Next]_vars => LoadInv'
<1> SUFFICES ASSUME LoadInv, [Next]_vars PROVE LoadInv'
  OBVIOUS
<1>1. CASE LoadElf
  <2>0. start' = start
    BY <1>1 DEF LoadElf, xvars
  <2>1. CASE open_elf_file
    BY <2>0, <2>1, OpenStep
  <2>2. CASE map_first
    BY <2>0, <2>2, MapFirstStep
  <2>3. CASE map_region
    BY <2>0, <2>3, MapRegionStep
  <2>4. CASE SkipPhdr
    BY <2>0, <2>4, SkipStep
  <2>5. CASE LoadElfReturns
    <3>1. /\ stage = "region" /\ stage' = "done" /\ next > Len(file.phdrs)
          /\ UNCHANGED <<file, next, bias, memory, history>>
      BY <2>5 DEF LoadElfReturns
    <3> QED
      BY <2>0, <3>1, KeptStep
  <2> QED
    BY <1>1, <2>1, <2>2, <2>3, <2>4, <2>5, Zenon DEF LoadElf, InLoadElf
<1>2. CASE ~LoadElf
  <2>1. Elsewhere
    BY <1>2, OtherSteps
  <2>2. CASE UNCHANGED elf
    <3>1. stage' = stage /\ UNCHANGED <<file, next, bias, memory, history>>
      BY <2>2 DEF elf
    <3>2. stage' = "done" => next > Len(file.phdrs)
      BY <3>1, Zenon DEF LoadInv, Done
    <3> QED
      BY <2>1, <3>1, <3>2, KeptStep DEF Elsewhere
  <2>3. CASE stage' \in {"idle", "dead"} /\ UNCHANGED <<file, next, bias, need, memory, history>>
    <3>1. UNCHANGED <<file, next, bias, memory, history>> /\ ~(stage' = "done")
      BY <2>3
    <3> QED
      BY <2>1, <2>3, <3>1, KeptStep DEF Elsewhere
  <2>4. CASE load_elf(start.program) \/ load_elf(start.ldso)
    BY <2>1, <2>4, CallStep DEF Elsewhere
  <2> QED
    BY <2>1, <2>2, <2>3, <2>4, Zenon DEF Elsewhere
<1> QED
  BY <1>1, <1>2

(* The steps of load_elf keep what they have mapped: at every point the    *)
(* segments before i of the loop in load_elf, and the first, are right,    *)
(* and nothing else of what was in memory is lost.                         *)
THEOREM LoadInvariance == Spec => []LoadInv
<1>1. Init => LoadInv
  BY LoadInvInit
<1>2. LoadInv /\ [Next]_vars => LoadInv'
  BY LoadInvNext
<1> QED
  BY <1>1, <1>2, PTL DEF Spec

(* Every page of a segment has a byte of it. *)
LEMMA PageHasByte ==
    ASSUME Linked(file), NEW b, Aligned(b), NEW i \in Loads, NEW a \in Span(From(b, i), To(b, i))
    PROVE  \E k \in Span(0, Seg(i).memsz) : PageOf(b + Seg(i).vaddr + k) = PageOf(a)
<1> DEFINE s == b + Seg(i).vaddr
           e == b + Seg(i).vaddr + Seg(i).memsz
           d == ALIGN_DOWN(a)
<1>1. /\ b \in Int /\ Seg(i).vaddr \in Nat /\ Seg(i).memsz \in Nat /\ Seg(i).memsz > 0
  BY AlignedInt, Segments
<1>2. /\ From(b, i) \in Int /\ To(b, i) \in Int /\ Aligned(From(b, i))
      /\ From(b, i) = ALIGN_DOWN(s) /\ To(b, i) = ALIGN_UP(e)
  BY PagesFact
<1>3. a \in Int /\ From(b, i) <= a /\ a < To(b, i)
  BY <1>2 DEF Span
<1>4. d \in Int /\ Aligned(d) /\ d <= a /\ From(b, i) <= d
  BY <1>2, <1>3, Down, DownMost
<1>5. s \in Int /\ e \in Int /\ e = s + Seg(i).memsz
  BY <1>1
<1>6. CASE d <= s
  <2>1. d <= ALIGN_DOWN(s)
    BY <1>4, <1>5, <1>6, DownMost
  <2>2. ALIGN_DOWN(s) = d
    <3> HIDE DEF s, d
    <3> QED
      BY <1>2, <1>4, <2>1
  <2>3. PageOf(s) = PageOf(a)
    BY <1>3, <1>5, <2>2, SamePage
  <2>4. 0 \in Span(0, Seg(i).memsz) /\ s + 0 = s
    BY <1>1, <1>5 DEF Span
  <2> QED
    BY <2>3, <2>4
<1>7. CASE s < d
  <2>1. d < e
    <3>1. e <= d => To(b, i) <= d
      BY <1>2, <1>4, <1>5, UpLeast
    <3> HIDE DEF d, e
    <3> QED
      BY <1>2, <1>3, <1>4, <1>5, <3>1
  <2>2. d - s \in Span(0, Seg(i).memsz) /\ s + (d - s) = d
    <3> HIDE DEF d, e, s
    <3> QED
      BY <1>1, <1>4, <1>5, <1>7, <2>1 DEF Span
  <2>3. ALIGN_DOWN(d) = d
    BY <1>4, AlignedSame
  <2>4. PageOf(d) = PageOf(a)
    BY <1>3, <1>4, <2>3, SamePage
  <2>5. s + (d - s) = b + Seg(i).vaddr + (d - s)
    OBVIOUS
  <2> HIDE DEF d
  <2> QED
    BY <2>2, <2>4, <2>5, Zenon
<1> QED
  BY <1>4, <1>5, <1>6, <1>7

(* When load_elf returns, every segment of the file is in memory as the    *)
(* program headers say.                                                    *)
THEOREM ImageSafe == Spec => []ImageRight
<1>1. LoadInv => ImageRight
  <2> SUFFICES ASSUME LoadInv, Done, ~unplaced, NEW i \in Loads
               PROVE  Right(bias, val, write, i)
    BY Zenon DEF ImageRight, Right, Seg
  <2>1. PlacedAt(bias, next, val, write) /\ next > Len(file.phdrs)
    BY Zenon DEF LoadInv, Done
  <2>2. i < next
    BY <2>1, FileLinked, Segments DEF LoadInv
  <2> QED
    BY <2>1, <2>2, Zenon DEF PlacedAt
<1> QED
  BY <1>1, LoadInvariance, PTL

(* load_elf takes nothing that was mapped before, if the kernel chose the  *)
(* place, and leaves no page mapped that belongs to no segment.            *)
THEOREM NeighboursSafe == Spec => []NeighboursIntact
<1>1. LoadInv => NeighboursIntact
  <2> SUFFICES ASSUME LoadInv, stage \in {"region", "done"}, ~unplaced
               PROVE  /\ file.dyn => \A a \in Addrs : before[a] # None => val[a] = before[a]
                      /\ \A a \in Addrs : before[a] = None /\ val[a] # None =>
                            \E i \in Loads : \E k \in Span(0, Seg(i).memsz) :
                               PageOf(bias + Seg(i).vaddr + k) = PageOf(a)
    BY Zenon DEF NeighboursIntact, Seg
  <2>1. PlacedAt(bias, next, val, write) /\ Linked(file)
    BY FileLinked, Zenon DEF LoadInv
  <2>2. Aligned(bias) /\ (file.dyn => \A a \in Addrs : before[a] # None => val[a] = before[a])
    BY <2>1, Zenon DEF PlacedAt
  <2>3. ASSUME NEW a \in Addrs, before[a] = None, val[a] # None
        PROVE  \E i \in Loads : \E k \in Span(0, Seg(i).memsz) :
                   PageOf(bias + Seg(i).vaddr + k) = PageOf(a)
    <3>1. PICK i \in Loads : a \in Span(From(bias, i), To(bias, i))
      BY <2>1, <2>3, Zenon DEF PlacedAt
    <3> QED
      BY <2>1, <2>2, <3>1, PageHasByte, Zenon
  <2> QED
    BY <2>2, <2>3, Zenon
<1> QED
  BY <1>1, LoadInvariance, PTL
=============================================================================
