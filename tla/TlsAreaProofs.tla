---------------------------- MODULE TlsAreaProofs ----------------------------
(***************************************************************************)
(* The per-thread areas of core/loader/tls.c, proved for any number of     *)
(* threads, areas and LDT entries: with tls_lock free the list, the bitmap *)
(* and the LDT agree, and a thread always reaches its own area through     *)
(* %fs.                                                                    *)
(***************************************************************************)
EXTENDS TlsArea, FiniteSetTheorems, WellFoundedInduction, TLAPS

(* Where a thread is: inside tls_lock; with an area; with an area that is  *)
(* not on tls_list (yet, or any more).                                     *)
Locked(p) == p \in PCs \ {"out", "got", "active"}
Having(p) == p \in PCs \ {"out", "pages", "dunlock"}
OffList(p) == p \in {"find", "set", "ldt", "link", "cldt", "cslot", "unmap"}

Used(n) == n % WordBits \in thread_map[n \div WordBits]

(* The areas whose slot has its bit set, and whose LDT entry is filled. *)
Bitted(a) ==
    a \in tls_list \/ \E t \in Threads : pc[t] \in {"link", "cldt", "cslot"} /\ mine[t] = a
Filled(a) ==
    a \in tls_list \/ \E t \in Threads : pc[t] \in {"link", "cldt"} /\ mine[t] = a

LockInv ==
    /\ \A t \in Threads : t \in holders <=> Locked(pc[t])
    /\ \A t, u \in holders : t = u

MineInv ==
    /\ \A t \in Threads : Having(pc[t]) => mine[t] \in mapped
    /\ \A t, u \in Threads :
          Having(pc[t]) /\ Having(pc[u]) /\ mine[t] = mine[u] => t = u

ListInv ==
    \A a \in Areas : a \in tls_list <=>
        a \in mapped /\ \A t \in Threads : OffList(pc[t]) => mine[t] # a

BitInv ==
    /\ \A n \in Slots : Used(n) <=>
          \/ \E a \in Areas : Bitted(a) /\ td[a].nr = n
          \/ \E t \in Threads : pc[t] = "ldt" /\ slot[t] = n
    /\ \A a, b \in Areas : Bitted(a) /\ Bitted(b) /\ td[a].nr = td[b].nr => a = b
    /\ \A t \in Threads : pc[t] = "set" => ~Used(slot[t])
    /\ \A t \in Threads : pc[t] = "ldt" =>
          \A a \in Areas : Bitted(a) => td[a].nr # slot[t]

LdtInv ==
    /\ \A n \in 0 .. LDT_ENTRIES - 1 :
          ldt[n] # NoArea => Filled(ldt[n]) /\ td[ldt[n]].nr = n
    /\ \A a \in Areas : Filled(a) => ldt[td[a].nr] = a

FsInv ==
    /\ \A a \in Areas : Bitted(a) => td[a].fs_val = FsVal(td[a].nr)
    /\ \A t \in Threads : pc[t] = "active" => fs[t] = td[mine[t]].fs_val

(* The inductive invariant: what holds with the lock free, and what it is  *)
(* short of at each step of the thread inside.                             *)
IInv == TypeOK /\ LockInv /\ MineInv /\ ListInv /\ BitInv /\ LdtInv /\ FsInv

-----------------------------------------------------------------------------
(* Slots and words *)

(* A slot's word and bit. *)
LEMMA SlotParts ==
    ASSUME NEW n \in Slots
    PROVE  \E q \in Words, r \in Bits : /\ q = n \div WordBits /\ r = n % WordBits
                                        /\ n = q * WordBits + r
  <1>1. /\ WordBits \in Nat /\ WordBits > 0 /\ SZ_MAP \in Nat
        /\ n \in Nat /\ n < SZ_MAP * WordBits
    BY TlsAreaAssumption DEF Slots
  <1>2. PICK q \in Int, r \in Int :
           /\ q = n \div WordBits /\ r = n % WordBits
           /\ 0 <= r /\ r < WordBits /\ n = q * WordBits + r
    BY <1>1
  <1>3. q >= 0
    BY <1>1, <1>2
  <1>4. q < SZ_MAP
    BY <1>1, <1>2
  <1>5. q \in Words /\ r \in Bits
    BY <1>1, <1>2, <1>3, <1>4 DEF Words, Bits
  <1> QED
    BY <1>2, <1>5

(* The slot of a word and a bit. *)
LEMMA SlotOf ==
    ASSUME NEW i \in Words, NEW b \in Bits
    PROVE  /\ i * WordBits + b \in Slots
           /\ (i * WordBits + b) \div WordBits = i
           /\ (i * WordBits + b) % WordBits = b
  BY TlsAreaAssumption DEF Slots, Words, Bits

(* A set of natural numbers that is not empty has a least member. *)
LEMMA Least ==
    ASSUME NEW T, T \subseteq Nat, T # {}
    PROVE  \E x \in T : \A y \in T : x <= y
  <1>1. PICK x \in T : \A y \in T : ~(<<y, x>> \in OpToRel(<, Nat))
    BY NatLessThanWellFounded, WFMin
  <1>2. \A y \in T : ~(y < x)
    BY <1>1 DEF OpToRel
  <1> QED
    BY <1>2

(* The selector of an LDT entry leads to that entry. *)
LEMMA Selector ==
    ASSUME NEW n \in 0 .. LDT_ENTRIES - 1
    PROVE  FsVal(n) \in Nat /\ FsVal(n) \div 8 = n
  <1>1. n * 8 + 7 < 8 * LDT_ENTRIES /\ LDT_ENTRIES \in Nat
    BY TlsAreaAssumption
  <1>2. FsVal(n) = n * 8 + 7
    BY <1>1 DEF FsVal
  <1> QED
    BY <1>2

(* While not every entry of the LDT has its bit set, find_set_free_slot    *)
(* computes a free slot that is an entry of the LDT.                       *)
LEMMA FirstFit ==
    ASSUME thread_map \in [Words -> SUBSET Bits],
           NEW s \in Slots, s < LDT_ENTRIES, ~Used(s),
           NEW n, n = FirstFreeWord * WordBits + last_0_pos(thread_map[FirstFreeWord])
    PROVE  n \in Slots /\ n < LDT_ENTRIES /\ ~Used(n)
  <1> DEFINE T == {i \in Words : thread_map[i] # Bits}
             w == FirstFreeWord
             U == Bits \ thread_map[w]
             b == last_0_pos(thread_map[w])
  <1>1. PICK q \in Words, r \in Bits : s = q * WordBits + r /\ r \notin thread_map[q]
    BY SlotParts DEF Used
  <1>2. q \in T
    BY <1>1
  <1>3. PICK i \in T : \A j \in T : i <= j
    <2>1. T \subseteq Nat /\ T # {}
      BY <1>2 DEF Words
    <2> HIDE DEF T
    <2> QED
      BY <2>1, Least
  <1>4. /\ w \in Words /\ thread_map[w] # Bits
        /\ \A j \in Words : j < w => thread_map[j] = Bits
    <2>1. i \in Words /\ thread_map[i] # Bits
      OBVIOUS
    <2>2. \A j \in Words : j < i => thread_map[j] = Bits
      BY <1>3 DEF Words
    <2> QED
      BY <2>1, <2>2 DEF FirstFreeWord
  <1> HIDE DEF w
  <1>5. w <= q
    BY <1>1, <1>4 DEF Words
  <1>6. PICK c \in U : \A d \in U : c <= d
    <2>1. U \subseteq Nat
      BY DEF Bits
    <2>2. U # {}
      BY <1>4
    <2> HIDE DEF U
    <2> QED
      BY <2>1, <2>2, Least
  <1>7. b \in U /\ \A d \in U : b <= d
    BY <1>6 DEF last_0_pos
  <1> HIDE DEF b
  <1>8. n = w * WordBits + b /\ b \in Bits /\ b \notin thread_map[w]
    BY <1>7 DEF w, b
  <1>9. n \in Slots /\ n \div WordBits = w /\ n % WordBits = b
    BY <1>4, <1>8, SlotOf
  <1>10. ~Used(n)
    BY <1>8, <1>9 DEF Used
  <1>11. n <= s
    <2>1. /\ WordBits \in Nat /\ w \in Nat /\ q \in Nat /\ b \in Nat /\ r \in Nat
          /\ b < WordBits
      BY <1>1, <1>4, <1>8, TlsAreaAssumption DEF Words, Bits
    <2>2. CASE w = q
      <3>1. b <= r
        BY <1>1, <1>7, <2>2
      <3> QED
        BY <1>1, <1>8, <2>1, <2>2, <3>1
    <2>3. CASE w < q
      <3>1. (w + 1) * WordBits <= q * WordBits
        BY <2>1, <2>3
      <3>2. (w + 1) * WordBits = w * WordBits + WordBits
        BY <2>1
      <3> QED
        BY <1>1, <1>8, <2>1, <3>1, <3>2
    <2> QED
      BY <1>5, <2>1, <2>2, <2>3
  <1> QED
    BY <1>9, <1>10, <1>11, TlsAreaAssumption DEF Slots

(* Setting a slot's bit marks that slot and no other ... *)
LEMMA BitSet ==
    ASSUME thread_map \in [Words -> SUBSET Bits], NEW m \in Slots,
           thread_map' = [thread_map EXCEPT ![m \div WordBits] = @ \cup {m % WordBits}]
    PROVE  /\ thread_map' \in [Words -> SUBSET Bits]
           /\ \A n \in Slots : Used(n)' <=> Used(n) \/ n = m
  <1>1. PICK q \in Words, r \in Bits : /\ q = m \div WordBits /\ r = m % WordBits
                                       /\ m = q * WordBits + r
    BY SlotParts
  <1>2. thread_map' = [thread_map EXCEPT ![q] = @ \cup {r}]
    BY <1>1
  <1>3. thread_map' \in [Words -> SUBSET Bits]
    BY <1>2
  <1>4. ASSUME NEW n \in Slots
        PROVE  Used(n)' <=> Used(n) \/ n = m
    <2>1. PICK i \in Words, b \in Bits : /\ i = n \div WordBits /\ b = n % WordBits
                                         /\ n = i * WordBits + b
      BY SlotParts
    <2>2. n = m <=> i = q /\ b = r
      BY <1>1, <2>1
    <2>3. b \in thread_map'[i] <=> b \in thread_map[i] \/ (i = q /\ b = r)
      BY <1>2
    <2> QED
      BY <2>1, <2>2, <2>3 DEF Used
  <1> QED
    BY <1>3, <1>4

(* ... and clearing it frees that slot and no other. *)
LEMMA BitCleared ==
    ASSUME thread_map \in [Words -> SUBSET Bits], NEW m \in Slots,
           thread_map' = [thread_map EXCEPT ![m \div WordBits] = @ \ {m % WordBits}]
    PROVE  /\ thread_map' \in [Words -> SUBSET Bits]
           /\ \A n \in Slots : Used(n)' <=> Used(n) /\ n # m
  <1>1. PICK q \in Words, r \in Bits : /\ q = m \div WordBits /\ r = m % WordBits
                                       /\ m = q * WordBits + r
    BY SlotParts
  <1>2. thread_map' = [thread_map EXCEPT ![q] = @ \ {r}]
    BY <1>1
  <1>3. thread_map' \in [Words -> SUBSET Bits]
    BY <1>2
  <1>4. ASSUME NEW n \in Slots
        PROVE  Used(n)' <=> Used(n) /\ n # m
    <2>1. PICK i \in Words, b \in Bits : /\ i = n \div WordBits /\ b = n % WordBits
                                         /\ n = i * WordBits + b
      BY SlotParts
    <2>2. n = m <=> i = q /\ b = r
      BY <1>1, <2>1
    <2>3. b \in thread_map'[i] <=> b \in thread_map[i] /\ ~(i = q /\ b = r)
      BY <1>2
    <2> QED
      BY <2>1, <2>2, <2>3 DEF Used
  <1> QED
    BY <1>3, <1>4

-----------------------------------------------------------------------------
(* What the lock gives *)

(* While a thread is inside tls_lock no other is. *)
LEMMA Alone ==
    ASSUME LockInv, NEW t \in Threads, Locked(pc[t])
    PROVE  \A u \in Threads : u # t => ~Locked(pc[u])
  BY DEF LockInv

(* The entries of the LDT are slots. *)
LEMMA EntryIsSlot == \A n \in 0 .. LDT_ENTRIES - 1 : n \in Slots
  BY TlsAreaAssumption DEF Slots

(* A thread that has just mapped its pages finds fewer slots taken than    *)
(* there are areas, so an entry of the LDT is free.                        *)
LEMMA EntryFree ==
    ASSUME IInv, NEW t \in Threads, pc[t] = "find"
    PROVE  \E s \in Slots : s < LDT_ENTRIES /\ ~Used(s)
  <1> SUFFICES ASSUME \A s \in Slots : s < LDT_ENTRIES => Used(s)
               PROVE  FALSE
    OBVIOUS
  <1> DEFINE E == 0 .. LDT_ENTRIES - 1
             B == Areas \ {mine[t]}
             f == [s \in E |-> CHOOSE a \in B : td[a].nr = s]
  <1>1. \A u \in Threads : u # t => ~Locked(pc[u])
    BY Alone DEF IInv, Locked, PCs
  <1>2. mine[t] \in Areas /\ mine[t] \notin tls_list
    BY DEF IInv, TypeOK, MineInv, ListInv, Having, OffList, PCs
  <1>3. \A s \in E : \E a \in B : td[a].nr = s
    <2> SUFFICES ASSUME NEW s \in E PROVE \E a \in B : td[a].nr = s
      OBVIOUS
    <2>1. s \in Slots /\ Used(s)
      BY EntryIsSlot, TlsAreaAssumption
    <2>2. \A u \in Threads : pc[u] # "ldt" /\ pc[u] \notin {"link", "cldt", "cslot"}
      BY <1>1 DEF Locked, PCs
    <2>3. PICK a \in Areas : Bitted(a) /\ td[a].nr = s
      BY <2>1, <2>2 DEF IInv, BitInv
    <2>4. a \in tls_list
      BY <2>2, <2>3 DEF Bitted
    <2> QED
      BY <1>2, <2>3, <2>4
  <1>4. f \in [E -> B] /\ \A s \in E : td[f[s]].nr = s
    BY <1>3
  <1>5. /\ IsFiniteSet(E) /\ Cardinality(E) = LDT_ENTRIES
    BY FS_Interval, TlsAreaAssumption
  <1>6. IsFiniteSet(B) /\ Cardinality(B) = Cardinality(Areas) - 1
    BY <1>2, FS_RemoveElement, TlsAreaAssumption
  <1>7. Cardinality(B) < Cardinality(E)
    <2>1. Cardinality(Areas) \in Nat
      BY FS_CardinalityType, TlsAreaAssumption
    <2> QED
      BY <1>5, <1>6, <2>1, TlsAreaAssumption
  <1> HIDE DEF f, E, B
  <1>8. \E x, y \in E : x # y /\ f[x] = f[y]
    BY <1>4, <1>5, <1>6, <1>7, FS_PigeonHole
  <1> QED
    BY <1>4, <1>8

-----------------------------------------------------------------------------
(* The steps *)

(* Every step of a thread leaves the others where they are. *)
LEMMA OthersStay ==
    ASSUME TypeOK, NEW t \in Threads, alloc_tls_area(t) \/ active_tls(t) \/ dealloc_tls_area(t)
    PROVE  /\ \A u \in Threads : u # t =>
                 pc'[u] = pc[u] /\ mine'[u] = mine[u] /\ slot'[u] = slot[u] /\ fs'[u] = fs[u]
           /\ ~dead
  BY DEF alloc_tls_area, dealloc_tls_area, Step, TypeOK,
         AllocLock, MapPages, NoPages, FindSlot, SetSlot, SetupLdt, Link, AllocUnlock,
         active_tls, DeallocLock, Unlink, ClearLdt, clear_slot, UnmapPages, DeallocUnlock

(* The threads inside tls_lock are its holder. *)
LEMMA LockStep ==
    ASSUME TypeOK, LockInv,
           NEW t \in Threads, alloc_tls_area(t) \/ active_tls(t) \/ dealloc_tls_area(t)
    PROVE  LockInv'
  <1>1. CASE AllocLock(t)
    BY <1>1 DEF AllocLock, Step, TypeOK, LockInv, Locked, PCs, Lock!Acquire, Lock!Release
  <1>2. CASE MapPages(t)
    BY <1>2 DEF MapPages, Step, TypeOK, LockInv, Locked, PCs, Lock!Acquire, Lock!Release
  <1>3. CASE NoPages(t)
    BY <1>3 DEF NoPages, Step, TypeOK, LockInv, Locked, PCs, Lock!Acquire, Lock!Release
  <1>4. CASE FindSlot(t)
    BY <1>4 DEF FindSlot, Step, TypeOK, LockInv, Locked, PCs, Lock!Acquire, Lock!Release
  <1>5. CASE SetSlot(t)
    BY <1>5 DEF SetSlot, Step, TypeOK, LockInv, Locked, PCs, Lock!Acquire, Lock!Release
  <1>6. CASE SetupLdt(t)
    BY <1>6 DEF SetupLdt, Step, TypeOK, LockInv, Locked, PCs, Lock!Acquire, Lock!Release
  <1>7. CASE Link(t)
    BY <1>7 DEF Link, Step, TypeOK, LockInv, Locked, PCs, Lock!Acquire, Lock!Release
  <1>8. CASE AllocUnlock(t)
    BY <1>8 DEF AllocUnlock, Step, TypeOK, LockInv, Locked, PCs, Lock!Acquire, Lock!Release
  <1>9. CASE active_tls(t)
    BY <1>9 DEF active_tls, Step, TypeOK, LockInv, Locked, PCs, Lock!Acquire, Lock!Release
  <1>10. CASE DeallocLock(t)
    BY <1>10 DEF DeallocLock, Step, TypeOK, LockInv, Locked, PCs, Lock!Acquire, Lock!Release
  <1>11. CASE Unlink(t)
    BY <1>11 DEF Unlink, Step, TypeOK, LockInv, Locked, PCs, Lock!Acquire, Lock!Release
  <1>12. CASE ClearLdt(t)
    BY <1>12 DEF ClearLdt, Step, TypeOK, LockInv, Locked, PCs, Lock!Acquire, Lock!Release
  <1>13. CASE clear_slot(t)
    BY <1>13 DEF clear_slot, Step, TypeOK, LockInv, Locked, PCs, Lock!Acquire, Lock!Release
  <1>14. CASE UnmapPages(t)
    BY <1>14 DEF UnmapPages, Step, TypeOK, LockInv, Locked, PCs, Lock!Acquire, Lock!Release
  <1>15. CASE DeallocUnlock(t)
    BY <1>15, SMTT(30) DEF DeallocUnlock, Step, TypeOK, LockInv, Locked, PCs, Lock!Acquire, Lock!Release
  <1> QED
    BY <1>1, <1>2, <1>3, <1>4, <1>5, <1>6, <1>7, <1>8, <1>9, <1>10, <1>11, <1>12, <1>13, <1>14, <1>15
       DEF alloc_tls_area, dealloc_tls_area

(* No two threads have the same area, and an area a thread has is mapped. *)
LEMMA MineStep ==
    ASSUME TypeOK, MineInv,
           NEW t \in Threads, alloc_tls_area(t) \/ active_tls(t) \/ dealloc_tls_area(t)
    PROVE  MineInv'
  <1>1. CASE AllocLock(t)
    BY <1>1 DEF AllocLock, Step, TypeOK, MineInv, Having, PCs
  <1>2. CASE MapPages(t)
    BY <1>2 DEF MapPages, Step, TypeOK, MineInv, Having, PCs
  <1>3. CASE NoPages(t)
    BY <1>3 DEF NoPages, Step, TypeOK, MineInv, Having, PCs
  <1>4. CASE FindSlot(t)
    BY <1>4 DEF FindSlot, Step, TypeOK, MineInv, Having, PCs
  <1>5. CASE SetSlot(t)
    BY <1>5 DEF SetSlot, Step, TypeOK, MineInv, Having, PCs
  <1>6. CASE SetupLdt(t)
    BY <1>6 DEF SetupLdt, Step, TypeOK, MineInv, Having, PCs
  <1>7. CASE Link(t)
    BY <1>7 DEF Link, Step, TypeOK, MineInv, Having, PCs
  <1>8. CASE AllocUnlock(t)
    BY <1>8 DEF AllocUnlock, Step, TypeOK, MineInv, Having, PCs
  <1>9. CASE active_tls(t)
    BY <1>9 DEF active_tls, Step, TypeOK, MineInv, Having, PCs
  <1>10. CASE DeallocLock(t)
    BY <1>10 DEF DeallocLock, Step, TypeOK, MineInv, Having, PCs
  <1>11. CASE Unlink(t)
    BY <1>11 DEF Unlink, Step, TypeOK, MineInv, Having, PCs
  <1>12. CASE ClearLdt(t)
    BY <1>12 DEF ClearLdt, Step, TypeOK, MineInv, Having, PCs
  <1>13. CASE clear_slot(t)
    BY <1>13 DEF clear_slot, Step, TypeOK, MineInv, Having, PCs
  <1>14. CASE UnmapPages(t)
    BY <1>14 DEF UnmapPages, Step, TypeOK, MineInv, Having, PCs
  <1>15. CASE DeallocUnlock(t)
    BY <1>15 DEF DeallocUnlock, Step, TypeOK, MineInv, Having, PCs
  <1> QED
    BY <1>1, <1>2, <1>3, <1>4, <1>5, <1>6, <1>7, <1>8, <1>9, <1>10, <1>11, <1>12, <1>13, <1>14, <1>15
       DEF alloc_tls_area, dealloc_tls_area

(* A mapped area is on tls_list unless the thread inside tls_lock is       *)
(* working on it.                                                          *)
LEMMA ListStep ==
    ASSUME TypeOK, LockInv, MineInv, ListInv,
           NEW t \in Threads, alloc_tls_area(t) \/ active_tls(t) \/ dealloc_tls_area(t)
    PROVE  ListInv'
  <1>0. Locked(pc[t]) => \A u \in Threads : u # t => ~Locked(pc[u])
    BY Alone
  <1>1. CASE AllocLock(t)
    BY <1>0, <1>1 DEF AllocLock, Step, TypeOK, MineInv, ListInv, OffList, Having, Locked, PCs
  <1>2. CASE MapPages(t)
    BY <1>0, <1>2 DEF MapPages, Step, TypeOK, MineInv, ListInv, OffList, Having, Locked, PCs
  <1>3. CASE NoPages(t)
    BY <1>0, <1>3 DEF NoPages, Step, TypeOK, MineInv, ListInv, OffList, Having, Locked, PCs
  <1>4. CASE FindSlot(t)
    BY <1>0, <1>4 DEF FindSlot, Step, TypeOK, MineInv, ListInv, OffList, Having, Locked, PCs
  <1>5. CASE SetSlot(t)
    BY <1>0, <1>5 DEF SetSlot, Step, TypeOK, MineInv, ListInv, OffList, Having, Locked, PCs
  <1>6. CASE SetupLdt(t)
    BY <1>0, <1>6 DEF SetupLdt, Step, TypeOK, MineInv, ListInv, OffList, Having, Locked, PCs
  <1>7. CASE Link(t)
    <2>1. /\ pc[t] = "link" /\ pc'[t] = "unlock" /\ mapped' = mapped /\ mine' = mine
          /\ tls_list' = tls_list \cup {mine[t]}
      BY <1>7 DEF Link, Step, TypeOK
    <2>2. mine[t] \in mapped
      BY <2>1, SMTT(30) DEF MineInv, Having, PCs
    <2>3. \A u \in Threads : ~OffList(pc'[u])
      BY <1>0, <2>1, OthersStay DEF OffList, Locked, PCs
    <2>4. \A u \in Threads : OffList(pc[u]) <=> u = t
      BY <1>0, <2>1 DEF OffList, Locked, PCs
    <2> QED
      BY <2>1, <2>2, <2>3, <2>4 DEF ListInv
  <1>8. CASE AllocUnlock(t)
    BY <1>0, <1>8 DEF AllocUnlock, Step, TypeOK, MineInv, ListInv, OffList, Having, Locked, PCs
  <1>9. CASE active_tls(t)
    BY <1>0, <1>9 DEF active_tls, Step, TypeOK, MineInv, ListInv, OffList, Having, Locked, PCs
  <1>10. CASE DeallocLock(t)
    BY <1>0, <1>10 DEF DeallocLock, Step, TypeOK, MineInv, ListInv, OffList, Having, Locked, PCs
  <1>11. CASE Unlink(t)
    BY <1>0, <1>11 DEF Unlink, Step, TypeOK, MineInv, ListInv, OffList, Having, Locked, PCs
  <1>12. CASE ClearLdt(t)
    BY <1>0, <1>12 DEF ClearLdt, Step, TypeOK, MineInv, ListInv, OffList, Having, Locked, PCs
  <1>13. CASE clear_slot(t)
    BY <1>0, <1>13 DEF clear_slot, Step, TypeOK, MineInv, ListInv, OffList, Having, Locked, PCs
  <1>14. CASE UnmapPages(t)
    BY <1>0, <1>14 DEF UnmapPages, Step, TypeOK, MineInv, ListInv, OffList, Having, Locked, PCs
  <1>15. CASE DeallocUnlock(t)
    BY <1>0, <1>15 DEF DeallocUnlock, Step, TypeOK, MineInv, ListInv, OffList, Having, Locked, PCs
  <1> QED
    BY <1>1, <1>2, <1>3, <1>4, <1>5, <1>6, <1>7, <1>8, <1>9, <1>10, <1>11, <1>12, <1>13, <1>14, <1>15
       DEF alloc_tls_area, dealloc_tls_area

(* The slot find_set_free_slot computes is free and an entry of the LDT. *)
LEMMA SlotFound ==
    ASSUME IInv, NEW t \in Threads, FindSlot(t)
    PROVE  slot'[t] \in Slots /\ slot'[t] < LDT_ENTRIES /\ ~Used(slot'[t])
  <1>1. PICK s \in Slots : s < LDT_ENTRIES /\ ~Used(s)
    BY EntryFree DEF FindSlot, Step
  <1>2. slot'[t] = FirstFreeWord * WordBits + last_0_pos(thread_map[FirstFreeWord])
    BY DEF FindSlot, IInv, TypeOK
  <1> QED
    BY <1>1, <1>2, FirstFit DEF IInv, TypeOK

(* The state keeps its types; first fit stays inside the LDT. *)
LEMMA TypeStep ==
    ASSUME IInv,
           NEW t \in Threads, alloc_tls_area(t) \/ active_tls(t) \/ dealloc_tls_area(t)
    PROVE  TypeOK'
  <1>0. TypeOK
    BY DEF IInv
  <1>1. CASE AllocLock(t)
    BY <1>0, <1>1 DEF AllocLock, Step, TypeOK, PCs, Lock!Acquire, Lock!Release
  <1>2. CASE MapPages(t)
    BY <1>0, <1>2 DEF MapPages, Step, TypeOK, PCs, Lock!Acquire, Lock!Release
  <1>3. CASE NoPages(t)
    BY <1>0, <1>3 DEF NoPages, Step, TypeOK, PCs, Lock!Acquire, Lock!Release
  <1>4. CASE FindSlot(t)
    <2>1. slot'[t] \in Slots /\ slot'[t] < LDT_ENTRIES
      BY <1>4, SlotFound
    <2>2. slot' = [slot EXCEPT ![t] = slot'[t]]
      BY <1>4 DEF FindSlot
    <2> QED
      BY <1>0, <1>4, <2>1, <2>2 DEF FindSlot, Step, TypeOK, PCs
  <1>5. CASE SetSlot(t)
    <2>1. slot[t] \in Slots /\ thread_map \in [Words -> SUBSET Bits]
      BY <1>0 DEF TypeOK
    <2>2. thread_map' \in [Words -> SUBSET Bits]
      BY <1>5, <2>1, BitSet DEF SetSlot
    <2> QED
      BY <1>0, <1>5, <2>2 DEF SetSlot, Step, TypeOK, PCs
  <1>6. CASE SetupLdt(t)
    <2>1. slot[t] \in 0 .. LDT_ENTRIES - 1
      BY <1>0, <1>6, TlsAreaAssumption DEF SetupLdt, Step, TypeOK, Slots
    <2>2. FsVal(slot[t]) \in Nat
      BY <2>1, Selector, SMTT(30)
    <2>3. mine[t] \in Areas
      BY <1>0, <1>6 DEF SetupLdt, Step, IInv, TypeOK, MineInv, Having, PCs
    <2> QED
      BY <1>0, <1>6, <2>1, <2>2, <2>3 DEF SetupLdt, Step, TypeOK, PCs
  <1>7. CASE Link(t)
    <2>1. mine[t] \in Areas
      BY <1>0, <1>7 DEF Link, Step, IInv, TypeOK, MineInv, Having, PCs
    <2> QED
      BY <1>0, <1>7, <2>1 DEF Link, Step, TypeOK, PCs
  <1>8. CASE AllocUnlock(t)
    BY <1>0, <1>8 DEF AllocUnlock, Step, TypeOK, PCs, Lock!Acquire, Lock!Release
  <1>9. CASE active_tls(t)
    <2>1. mine[t] \in Areas
      BY <1>0, <1>9 DEF active_tls, Step, IInv, TypeOK, MineInv, Having, PCs
    <2>2. td[mine[t]].fs_val \in Nat
      BY <1>0, <2>1 DEF TypeOK
    <2> QED
      BY <1>0, <1>9, <2>2 DEF active_tls, Step, TypeOK, PCs
  <1>10. CASE DeallocLock(t)
    BY <1>0, <1>10 DEF DeallocLock, Step, TypeOK, PCs, Lock!Acquire, Lock!Release
  <1>11. CASE Unlink(t)
    BY <1>0, <1>11 DEF Unlink, Step, TypeOK, PCs, Lock!Acquire, Lock!Release
  <1>12. CASE ClearLdt(t)
    BY <1>0, <1>12 DEF ClearLdt, Step, TypeOK, PCs, Lock!Acquire, Lock!Release
  <1>13. CASE clear_slot(t)
    <2>1. mine[t] \in Areas
      BY <1>0, <1>13 DEF clear_slot, Step, IInv, TypeOK, MineInv, Having, PCs
    <2>2. td[mine[t]].nr \in Slots /\ thread_map \in [Words -> SUBSET Bits]
      BY <1>0, <2>1, EntryIsSlot DEF TypeOK
    <2>3. thread_map' \in [Words -> SUBSET Bits]
      BY <1>13, <2>2, BitCleared DEF clear_slot
    <2> QED
      BY <1>0, <1>13, <2>3 DEF clear_slot, Step, TypeOK, PCs
  <1>14. CASE UnmapPages(t)
    <2>1. 0 \in 0 .. LDT_ENTRIES - 1
      BY TlsAreaAssumption
    <2> QED
      BY <1>0, <1>14, <2>1 DEF UnmapPages, Step, TypeOK, PCs
  <1>15. CASE DeallocUnlock(t)
    BY <1>0, <1>15 DEF DeallocUnlock, Step, TypeOK, PCs, Lock!Acquire, Lock!Release
  <1> QED
    BY <1>1, <1>2, <1>3, <1>4, <1>5, <1>6, <1>7, <1>8, <1>9, <1>10, <1>11, <1>12, <1>13, <1>14, <1>15
       DEF alloc_tls_area, dealloc_tls_area

(* Before and after a step, no thread but t is between setting a bit or an *)
(* LDT entry and linking its area, or unlinking the area and clearing them.*)
Inside(t) ==
    \A a : /\ Bitted(a) <=> a \in tls_list \/ (pc[t] \in {"link", "cldt", "cslot"} /\ mine[t] = a)
           /\ Filled(a) <=> a \in tls_list \/ (pc[t] \in {"link", "cldt"} /\ mine[t] = a)
           /\ Bitted(a)' <=> a \in tls_list' \/ (pc'[t] \in {"link", "cldt", "cslot"} /\ mine'[t] = a)
           /\ Filled(a)' <=> a \in tls_list' \/ (pc'[t] \in {"link", "cldt"} /\ mine'[t] = a)

(* Which areas have a bit and an LDT entry, before and after a step of the *)
(* thread inside tls_lock, depends on the list and on that thread only.    *)
LEMMA InsideOnly ==
    ASSUME IInv, NEW t \in Threads, Locked(pc[t]),
           alloc_tls_area(t) \/ active_tls(t) \/ dealloc_tls_area(t)
    PROVE  Inside(t)
  <1>1. \A u \in Threads : u # t => pc[u] \notin {"link", "cldt", "cslot"} /\ pc'[u] = pc[u]
    BY Alone, OthersStay DEF IInv, Locked, PCs
  <1>2. ASSUME NEW a
        PROVE  /\ Bitted(a) <=> a \in tls_list \/ (pc[t] \in {"link", "cldt", "cslot"} /\ mine[t] = a)
               /\ Filled(a) <=> a \in tls_list \/ (pc[t] \in {"link", "cldt"} /\ mine[t] = a)
    BY <1>1 DEF Bitted, Filled
  <1>3. ASSUME NEW a
        PROVE  /\ Bitted(a)' <=> a \in tls_list' \/ (pc'[t] \in {"link", "cldt", "cslot"} /\ mine'[t] = a)
               /\ Filled(a)' <=> a \in tls_list' \/ (pc'[t] \in {"link", "cldt"} /\ mine'[t] = a)
    BY <1>1 DEF Bitted, Filled
  <1> QED
    BY <1>2, <1>3 DEF Inside

(* Taking or releasing tls_lock, mapping pages, looking for a slot and     *)
(* loading %fs give no area a bit or an entry, and take none away.         *)
LEMMA Quiet ==
    ASSUME TypeOK, NEW t \in Threads,
           \/ AllocLock(t) \/ MapPages(t) \/ NoPages(t) \/ FindSlot(t) \/ AllocUnlock(t)
           \/ active_tls(t) \/ DeallocLock(t) \/ DeallocUnlock(t),
           NEW a
    PROVE  (Bitted(a)' <=> Bitted(a)) /\ (Filled(a)' <=> Filled(a))
  <1>1. tls_list' = tls_list
    BY DEF AllocLock, MapPages, NoPages, FindSlot, AllocUnlock, active_tls, DeallocLock,
           DeallocUnlock
  <1>2. \A u \in Threads : \/ pc'[u] = pc[u] /\ mine'[u] = mine[u]
                           \/ /\ pc[u] \notin {"link", "cldt", "cslot"}
                              /\ pc'[u] \notin {"link", "cldt", "cslot"}
    BY SMTT(30) DEF AllocLock, MapPages, NoPages, FindSlot, AllocUnlock, active_tls, DeallocLock,
           DeallocUnlock, Step, TypeOK
  <1> QED
    BY <1>1, <1>2, SMTT(30) DEF Bitted, Filled

(* The area of a thread is mapped, and on tls_list unless the thread is    *)
(* between mapping and linking it, or unlinking and unmapping it.          *)
LEMMA MineWhere ==
    ASSUME IInv, NEW t \in Threads, Having(pc[t])
    PROVE  /\ mine[t] \in Areas /\ mine[t] \in mapped
           /\ mine[t] \in tls_list <=> ~OffList(pc[t])
  <1>1. mine[t] \in Areas /\ mine[t] \in mapped
    BY DEF IInv, TypeOK, MineInv
  <1>2. \A u \in Threads : OffList(pc[u]) => Having(pc[u])
    BY SMTT(30) DEF OffList, Having, PCs
  <1> QED
    BY <1>1, <1>2 DEF IInv, MineInv, ListInv

(* A step that changes no bit, and gives and takes none. *)
LEMMA BitsKept ==
    ASSUME BitInv, thread_map' = thread_map,
           \A a \in Areas : (Bitted(a)' <=> Bitted(a)) /\ (Bitted(a) => td'[a] = td[a]),
           \A u \in Threads :
              \/ pc'[u] = pc[u] /\ slot'[u] = slot[u]
              \/ pc[u] \notin {"set", "ldt"} /\ pc'[u] \notin {"set", "ldt"}
    PROVE  BitInv'
  <1>1. \A n : Used(n)' <=> Used(n)
    BY SMTT(30) DEF Used
  <1>2. \A u \in Threads : /\ pc'[u] = "set" => pc[u] = "set" /\ slot'[u] = slot[u]
                           /\ pc'[u] = "ldt" => pc[u] = "ldt" /\ slot'[u] = slot[u]
                           /\ pc[u] = "ldt" => pc'[u] = "ldt" /\ slot'[u] = slot[u]
    OBVIOUS
  <1>3. \A n \in Slots : (\E a \in Areas : Bitted(a)' /\ td'[a].nr = n)
                        <=> (\E a \in Areas : Bitted(a) /\ td[a].nr = n)
    OBVIOUS
  <1>4. \A n \in Slots : (\E u \in Threads : pc'[u] = "ldt" /\ slot'[u] = n)
                        <=> (\E u \in Threads : pc[u] = "ldt" /\ slot[u] = n)
    BY <1>2, SMTT(30)
  <1>5. \A n \in Slots : Used(n)' <=> \/ \E a \in Areas : Bitted(a)' /\ td'[a].nr = n
                                      \/ \E u \in Threads : pc'[u] = "ldt" /\ slot'[u] = n
    BY <1>1, <1>3, <1>4 DEF BitInv
  <1>6. \A a, b \in Areas : Bitted(a)' /\ Bitted(b)' /\ td'[a].nr = td'[b].nr => a = b
    BY DEF BitInv
  <1>7. \A u \in Threads : pc'[u] = "set" => ~Used(slot[u])'
    BY <1>2 DEF BitInv, Used
  <1>8. \A u \in Threads : pc'[u] = "ldt" =>
           \A a \in Areas : Bitted(a)' => td'[a].nr # slot'[u]
    BY <1>2 DEF BitInv
  <1> QED
    BY <1>5, <1>6, <1>7, <1>8 DEF BitInv

(* The bits of thread_map are the slots of the areas on tls_list, and the  *)
(* one the thread inside tls_lock has set or is about to clear.            *)
LEMMA BitStep ==
    ASSUME IInv,
           NEW t \in Threads, alloc_tls_area(t) \/ active_tls(t) \/ dealloc_tls_area(t)
    PROVE  BitInv'
  <1>0. TypeOK /\ BitInv
    BY DEF IInv
  <1>00. Locked(pc[t]) => \A u \in Threads : u # t => ~Locked(pc[u])
    BY Alone DEF IInv
  <1>1. CASE \/ AllocLock(t) \/ MapPages(t) \/ NoPages(t) \/ AllocUnlock(t)
             \/ active_tls(t) \/ DeallocLock(t) \/ DeallocUnlock(t)
    <2>1. /\ thread_map' = thread_map /\ td' = td
          /\ pc[t] \notin {"set", "ldt"} /\ pc'[t] \notin {"set", "ldt"}
      BY <1>0, <1>1 DEF AllocLock, MapPages, NoPages, AllocUnlock, active_tls,
                       DeallocLock, DeallocUnlock, Step, TypeOK
    <2>2. \A a \in Areas : Bitted(a)' <=> Bitted(a)
      BY <1>0, <1>1, Quiet
    <2>3. \A u \in Threads : u # t => pc'[u] = pc[u] /\ slot'[u] = slot[u]
      BY <1>0, OthersStay, SMTT(30)
    <2> QED
      BY <1>0, <2>1, <2>2, <2>3, BitsKept, SMTT(30)
  <1>2. CASE FindSlot(t)
    <2>1. /\ thread_map' = thread_map /\ td' = td /\ pc[t] = "find" /\ pc'[t] = "set"
          /\ \A u \in Threads : u # t => pc'[u] \notin {"set", "ldt"}
          /\ \A u \in Threads : pc[u] # "ldt"
      BY <1>0, <1>00, <1>2 DEF FindSlot, Step, TypeOK, Locked, PCs
    <2>2. \A a \in Areas : Bitted(a)' <=> Bitted(a)
      BY <1>0, <1>2, Quiet
    <2>3. ~Used(slot[t])'
      BY <1>2, <2>1, SlotFound DEF Used
    <2>4. \A n \in Slots : Used(n)' <=> Used(n)
      BY <2>1 DEF Used
    <2> QED
      BY <1>0, <2>1, <2>2, <2>3, <2>4 DEF BitInv
  <1>3. CASE SetSlot(t)
    <2>1. /\ pc[t] = "set" /\ pc'[t] = "ldt" /\ mine' = mine
          /\ tls_list' = tls_list /\ td' = td /\ slot' = slot /\ slot[t] \in Slots
      BY <1>0, <1>3, SMTT(30) DEF SetSlot, Step, TypeOK
    <2>2. \A u \in Threads : u # t => /\ pc[u] \notin {"set", "ldt", "link", "cldt", "cslot"}
                                      /\ pc'[u] = pc[u] /\ slot'[u] = slot[u]
      BY <1>0, <1>00, <2>1, OthersStay, ZenonT(30) DEF Locked, PCs
    <2>3. \A n \in Slots : Used(n)' <=> Used(n) \/ n = slot[t]
      BY <1>0, <1>3, <2>1, BitSet DEF SetSlot, TypeOK
    <2>4. \A a \in Areas : (Bitted(a) <=> a \in tls_list) /\ (Bitted(a)' <=> a \in tls_list)
      <3>1. Locked(pc[t])
        BY <2>1 DEF Locked, PCs
      <3>2. Inside(t)
        BY <3>1, InsideOnly
      <3> QED
        BY <2>1, <3>2 DEF Inside
    <2>5. \A a \in Areas : a \in tls_list => td[a].nr # slot[t]
      BY <1>0, <2>1, <2>4 DEF BitInv
    <2>6. \A n \in Slots : Used(n) <=> \E a \in Areas : a \in tls_list /\ td[a].nr = n
      BY <1>0, <2>1, <2>2, <2>4 DEF BitInv
    <2>7. \A u \in Threads : pc'[u] = "ldt" <=> u = t
      BY <2>1, <2>2
    <2>8. \A u \in Threads : pc'[u] # "set"
      BY <2>1, <2>2
    <2>9. \A a, b \in Areas : Bitted(a)' /\ Bitted(b)' /\ td'[a].nr = td'[b].nr => a = b
      BY <1>0, <2>1, <2>4, SMTT(30) DEF BitInv
    <2> QED
      BY <2>1, <2>3, <2>4, <2>5, <2>6, <2>7, <2>8, <2>9 DEF BitInv
  <1>4. CASE SetupLdt(t)
    <2>1. /\ pc[t] = "ldt" /\ pc'[t] = "link" /\ mine' = mine
          /\ tls_list' = tls_list /\ thread_map' = thread_map
      BY <1>0, <1>4 DEF SetupLdt, Step, TypeOK
    <2>2. \A u \in Threads : u # t => /\ pc[u] \notin {"set", "ldt", "link", "cldt", "cslot"}
                                      /\ pc'[u] = pc[u] /\ slot'[u] = slot[u]
      BY <1>0, <1>00, <2>1, OthersStay DEF Locked, PCs
    <2>3. mine[t] \in Areas /\ mine[t] \notin tls_list
      BY <2>1, MineWhere, SMTT(30) DEF Having, OffList, PCs
    <2>4. td'[mine[t]].nr = slot[t] /\ \A a \in Areas : a # mine[t] => td'[a] = td[a]
      BY <1>0, <1>4, <2>3, SMTT(30) DEF SetupLdt, TypeOK
    <2>5. \A a \in Areas : /\ Bitted(a) <=> a \in tls_list
                           /\ Bitted(a)' <=> a \in tls_list \/ a = mine[t]
      <3>1. Locked(pc[t])
        BY <2>1, SMTT(30) DEF Locked, PCs
      <3>2. Inside(t)
        BY <3>1, InsideOnly
      <3> QED
        BY <2>1, <3>2, ZenonT(30) DEF Inside
    <2>6. \A n \in Slots : Used(n)' <=> \/ \E a \in Areas : a \in tls_list /\ td[a].nr = n
                                        \/ n = slot[t]
      <3>1. \A n \in Slots : Used(n)' <=> Used(n)
        BY <2>1, SMTT(30) DEF Used
      <3>2. \A u \in Threads : pc[u] = "ldt" <=> u = t
        BY <2>1, <2>2, SMTT(30)
      <3>3. \A n \in Slots : Used(n) <=> \/ \E a \in Areas : Bitted(a) /\ td[a].nr = n
                                         \/ \E u \in Threads : pc[u] = "ldt" /\ slot[u] = n
        BY <1>0 DEF BitInv
      <3> QED
        BY <2>5, <3>1, <3>2, <3>3, SMTT(30)
    <2>7. \A u \in Threads : pc'[u] \notin {"set", "ldt"}
      BY <2>1, <2>2, SMTT(30)
    <2>8. \A a \in Areas : a \in tls_list => td'[a].nr = td[a].nr /\ td[a].nr # slot[t]
      BY <1>0, <2>1, <2>3, <2>4, <2>5 DEF BitInv
    <2>9. \A n \in Slots : Used(n)' <=> \E a \in Areas : Bitted(a)' /\ td'[a].nr = n
      <3>1. ASSUME NEW n \in Slots, NEW a \in Areas, Bitted(a)', td'[a].nr = n
            PROVE  Used(n)'
        BY <2>4, <2>5, <2>6, <2>8, <3>1, SMTT(30)
      <3>2. ASSUME NEW n \in Slots, NEW a \in Areas, a \in tls_list, td[a].nr = n
            PROVE  Bitted(a)' /\ td'[a].nr = n
        BY <2>5, <2>8, <3>2
      <3>3. ASSUME NEW n \in Slots, Used(n)'
            PROVE  \E a \in Areas : Bitted(a)' /\ td'[a].nr = n
        <4>1. CASE n = slot[t]
          <5>1. \A a \in Areas : a = mine[t] => Bitted(a)'
            BY <2>5
          <5> QED
            BY <2>3, <2>4, <4>1, <5>1
        <4>2. CASE n # slot[t]
          BY <2>6, <3>2, <3>3, <4>2, SMTT(30)
        <4> QED
          BY <4>1, <4>2
      <3> QED
        BY <3>1, <3>3, SMTT(30)
    <2>10. ASSUME NEW a \in Areas, NEW b \in Areas, Bitted(a)', Bitted(b)',
                  td'[a].nr = td'[b].nr
           PROVE  a = b
      <3>1. (a \in tls_list \/ a = mine[t]) /\ (b \in tls_list \/ b = mine[t])
        BY <2>5, <2>10, SMTT(30)
      <3>2. CASE a \in tls_list /\ b \in tls_list
        BY <1>0, <2>5, <2>8, <2>10, <3>2, SMTT(30) DEF BitInv
      <3> QED
        BY <2>4, <2>8, <2>10, <3>1, <3>2, SMTT(30)
    <2> QED
      BY <2>7, <2>9, <2>10, SMTT(30) DEF BitInv
  <1>5. CASE Link(t)
    <2>1. /\ pc[t] = "link" /\ pc'[t] = "unlock" /\ mine' = mine
          /\ tls_list' = tls_list \cup {mine[t]} /\ thread_map' = thread_map /\ td' = td
      BY <1>0, <1>5, SMTT(30) DEF Link, Step, TypeOK
    <2>2. \A u \in Threads : u # t => /\ pc[u] \notin {"set", "ldt", "link", "cldt", "cslot"}
                                      /\ pc'[u] = pc[u] /\ slot'[u] = slot[u]
      BY <1>0, <1>00, <2>1, OthersStay, SMTT(30) DEF Locked, PCs
    <2>3. \A a \in Areas : Bitted(a)' <=> Bitted(a)
      <3>1. Locked(pc[t])
        BY <2>1, SMTT(30) DEF Locked, PCs
      <3>2. Inside(t)
        BY <3>1, InsideOnly
      <3> QED
        BY <2>1, <3>2 DEF Inside
    <2>4. \A a \in Areas : td'[a] = td[a]
      BY <2>1, SMTT(30)
    <2> QED
      BY <1>0, <2>1, <2>2, <2>3, <2>4, BitsKept
  <1>6. CASE Unlink(t)
    <2>1. /\ pc[t] = "del" /\ pc'[t] = "cldt" /\ mine' = mine
          /\ tls_list' = tls_list \ {mine[t]} /\ thread_map' = thread_map /\ td' = td
      BY <1>0, <1>6, SMTT(30) DEF Unlink, Step, TypeOK
    <2>2. \A u \in Threads : u # t => /\ pc[u] \notin {"set", "ldt", "link", "cldt", "cslot"}
                                      /\ pc'[u] = pc[u] /\ slot'[u] = slot[u]
      BY <1>0, <1>00, <2>1, OthersStay, ZenonT(30) DEF Locked, PCs
    <2>3. \A a \in Areas : Bitted(a)' <=> Bitted(a)
      <3>1. mine[t] \in tls_list
        BY <2>1, MineWhere, SMTT(30) DEF Having, OffList, PCs
      <3>2. Locked(pc[t])
        BY <2>1, SMTT(30) DEF Locked, PCs
      <3>3. Inside(t)
        BY <3>2, InsideOnly
      <3> QED
        BY <2>1, <3>1, <3>3, ZenonT(30) DEF Inside
    <2>4. \A a \in Areas : td'[a] = td[a]
      BY <2>1
    <2> QED
      BY <1>0, <2>1, <2>2, <2>3, <2>4, BitsKept, SMTT(30)
  <1>7. CASE ClearLdt(t)
    <2>1. /\ pc[t] = "cldt" /\ pc'[t] = "cslot" /\ mine' = mine
          /\ tls_list' = tls_list /\ thread_map' = thread_map /\ td' = td
      BY <1>0, <1>7, SMTT(30) DEF ClearLdt, Step, TypeOK
    <2>2. \A u \in Threads : u # t => /\ pc[u] \notin {"set", "ldt", "link", "cldt", "cslot"}
                                      /\ pc'[u] = pc[u] /\ slot'[u] = slot[u]
      BY <1>0, <1>00, <2>1, OthersStay, SMTT(30) DEF Locked, PCs
    <2>3. \A a \in Areas : Bitted(a)' <=> Bitted(a)
      <3>1. Locked(pc[t])
        BY <2>1 DEF Locked, PCs
      <3>2. Inside(t)
        BY <3>1, InsideOnly
      <3> QED
        BY <2>1, <3>2 DEF Inside
    <2>4. \A a \in Areas : td'[a] = td[a]
      BY <2>1, SMTT(30)
    <2> QED
      BY <1>0, <2>1, <2>2, <2>3, <2>4, BitsKept, SMTT(30)
  <1>8. CASE clear_slot(t)
    <2>1. /\ pc[t] = "cslot" /\ pc'[t] = "unmap" /\ mine' = mine
          /\ tls_list' = tls_list /\ td' = td
      BY <1>0, <1>8 DEF clear_slot, Step, TypeOK
    <2>2. \A u \in Threads : u # t => /\ pc[u] \notin {"set", "ldt", "link", "cldt", "cslot"}
                                      /\ pc'[u] = pc[u] /\ slot'[u] = slot[u]
      BY <1>0, <1>00, <2>1, OthersStay DEF Locked, PCs
    <2>3. mine[t] \in Areas /\ mine[t] \notin tls_list
      BY <2>1, MineWhere DEF Having, OffList, PCs
    <2>4. td[mine[t]].nr \in Slots
      BY <1>0, <2>3, EntryIsSlot, SMTT(30) DEF TypeOK
    <2>5. \A n \in Slots : Used(n)' <=> Used(n) /\ n # td[mine[t]].nr
      BY <1>0, <1>8, <2>4, BitCleared, ZenonT(30) DEF clear_slot, TypeOK
    <2>6. \A a \in Areas : /\ Bitted(a) <=> a \in tls_list \/ a = mine[t]
                           /\ Bitted(a)' <=> a \in tls_list
      <3>1. Locked(pc[t])
        BY <2>1, Zenon DEF Locked, PCs
      <3>2. Inside(t)
        BY <3>1, InsideOnly
      <3> QED
        BY <2>1, <3>2 DEF Inside
    <2>7. \A u \in Threads : pc[u] \notin {"set", "ldt"} /\ pc'[u] \notin {"set", "ldt"}
      BY <2>1, <2>2, SMTT(30)
    <2>8. \A n \in Slots : Used(n) <=> \E a \in Areas : Bitted(a) /\ td[a].nr = n
      BY <1>0, <2>7, SMTT(30) DEF BitInv
    <2>9. \A a, b \in Areas : Bitted(a) /\ Bitted(b) /\ td[a].nr = td[b].nr => a = b
      BY <1>0, SMTT(30) DEF BitInv
    <2>10. \A n \in Slots : Used(n)' <=> \E a \in Areas : Bitted(a)' /\ td'[a].nr = n
      <3>1. ASSUME NEW n \in Slots, NEW a \in Areas, Bitted(a)', td'[a].nr = n
            PROVE  Used(n)'
        <4>1. Bitted(a) /\ Bitted(mine[t]) /\ a # mine[t] /\ td[a].nr = n
          BY <2>1, <2>3, <2>6, <3>1, SMTT(30)
        <4>2. n # td[mine[t]].nr
          BY <2>3, <2>9, <4>1
        <4> QED
          BY <2>5, <2>8, <4>1, <4>2, SMTT(30)
      <3>2. ASSUME NEW n \in Slots, Used(n)'
            PROVE  \E a \in Areas : Bitted(a)' /\ td'[a].nr = n
        <4>1. PICK a \in Areas : Bitted(a) /\ td[a].nr = n /\ a # mine[t]
          BY <2>5, <2>8, <3>2, SMTT(30)
        <4>2. Bitted(a)' /\ td'[a].nr = n
          BY <2>1, <2>6, <4>1
        <4> QED
          BY <4>2
      <3> QED
        BY <3>1, <3>2
    <2>11. \A a, b \in Areas : Bitted(a)' /\ Bitted(b)' /\ td'[a].nr = td'[b].nr => a = b
      BY <2>1, <2>6, <2>9, SMTT(30)
    <2> QED
      BY <2>7, <2>10, <2>11, SMTT(30) DEF BitInv
  <1>9. CASE UnmapPages(t)
    <2>1. /\ pc[t] = "unmap" /\ pc'[t] = "dunlock"
          /\ tls_list' = tls_list /\ thread_map' = thread_map
      BY <1>0, <1>9, SMTT(30) DEF UnmapPages, Step, TypeOK
    <2>2. \A u \in Threads : u # t => /\ pc[u] \notin {"set", "ldt", "link", "cldt", "cslot"}
                                      /\ pc'[u] = pc[u] /\ slot'[u] = slot[u]
      BY <1>0, <1>00, <2>1, OthersStay, SMTT(30) DEF Locked, PCs
    <2>3. \A a \in Areas : (Bitted(a) <=> a \in tls_list) /\ (Bitted(a)' <=> a \in tls_list)
      <3>1. Locked(pc[t])
        BY <2>1 DEF Locked, PCs
      <3>2. Inside(t)
        BY <3>1, InsideOnly
      <3> QED
        BY <2>1, <3>2 DEF Inside
    <2>4. \A a \in Areas : Bitted(a) => td'[a] = td[a]
      <3>1. mine[t] \in Areas /\ mine[t] \notin tls_list
        BY <2>1, MineWhere DEF Having, OffList, PCs
      <3> QED
        BY <1>0, <1>9, <2>3, <3>1, SMTT(30) DEF UnmapPages, TypeOK
    <2> QED
      BY <1>0, <2>1, <2>2, <2>3, <2>4, BitsKept, SMTT(30)
  <1> QED
    BY <1>1, <1>2, <1>3, <1>4, <1>5, <1>6, <1>7, <1>8, <1>9
       DEF alloc_tls_area, dealloc_tls_area

(* A step that writes no LDT entry, and moves no area to or from one. *)
LEMMA EntriesKept ==
    ASSUME TypeOK, LdtInv, ldt' = ldt,
           \A a \in Areas : (Filled(a)' <=> Filled(a)) /\ (Filled(a) => td'[a] = td[a])
    PROVE  LdtInv'
  <1>1. ASSUME NEW n \in 0 .. LDT_ENTRIES - 1, ldt[n] # NoArea,
               NEW a, a = ldt[n]
        PROVE  Filled(a)' /\ td'[a].nr = n
    BY <1>1, SMTT(30) DEF TypeOK, LdtInv
  <1>2. \A n \in 0 .. LDT_ENTRIES - 1 : ldt'[n] # NoArea => Filled(ldt[n])' /\ td'[ldt'[n]].nr = n
    BY <1>1, SMTT(30) DEF Filled
  <1>3. \A a \in Areas : Filled(a)' => ldt'[td'[a].nr] = a
    BY DEF LdtInv
  <1> QED
    BY <1>2, <1>3, SMTT(30) DEF LdtInv

(* An area on tls_list, or being linked or cleared, is what its LDT entry  *)
(* leads to, and no other entry is filled.                                 *)
LEMMA LdtStep ==
    ASSUME IInv,
           NEW t \in Threads, alloc_tls_area(t) \/ active_tls(t) \/ dealloc_tls_area(t)
    PROVE  LdtInv'
  <1>0. TypeOK /\ LdtInv
    BY DEF IInv
  <1>1. CASE \/ AllocLock(t) \/ MapPages(t) \/ NoPages(t) \/ FindSlot(t) \/ AllocUnlock(t)
             \/ active_tls(t) \/ DeallocLock(t) \/ DeallocUnlock(t)
    <2>1. ldt' = ldt /\ td' = td
      BY <1>1 DEF AllocLock, MapPages, NoPages, FindSlot, AllocUnlock, active_tls,
                  DeallocLock, DeallocUnlock
    <2>2. \A a \in Areas : Filled(a)' <=> Filled(a)
      BY <1>0, <1>1, Quiet, SMTT(30)
    <2> QED
      BY <1>0, <2>1, <2>2, EntriesKept, SMTT(30)
  <1>2. CASE SetSlot(t) \/ Link(t) \/ clear_slot(t)
    <2>1. /\ ldt' = ldt /\ td' = td /\ mine' = mine
          /\ \/ pc[t] = "set" /\ pc'[t] = "ldt" /\ tls_list' = tls_list
             \/ pc[t] = "link" /\ pc'[t] = "unlock" /\ tls_list' = tls_list \cup {mine[t]}
             \/ pc[t] = "cslot" /\ pc'[t] = "unmap" /\ tls_list' = tls_list
      BY <1>0, <1>2, SMTT(30) DEF SetSlot, Link, clear_slot, Step, TypeOK
    <2>2. \A a \in Areas : Filled(a)' <=> Filled(a)
      <3>1. Locked(pc[t])
        BY <2>1, Zenon DEF Locked, PCs
      <3>2. Inside(t)
        BY <3>1, InsideOnly
      <3> QED
        BY <2>1, <3>2, ZenonT(30) DEF Inside
    <2> QED
      BY <1>0, <2>1, <2>2, EntriesKept, SMTT(30)
  <1>3. CASE Unlink(t)
    <2>1. /\ ldt' = ldt /\ td' = td /\ mine' = mine
          /\ pc[t] = "del" /\ pc'[t] = "cldt" /\ tls_list' = tls_list \ {mine[t]}
      BY <1>0, <1>3, SMTT(30) DEF Unlink, Step, TypeOK
    <2>2. mine[t] \in tls_list
      BY <2>1, MineWhere, SMTT(30) DEF Having, OffList, PCs
    <2>3. \A a \in Areas : Filled(a)' <=> Filled(a)
      <3>1. Locked(pc[t])
        BY <2>1, SMTT(30) DEF Locked, PCs
      <3>2. Inside(t)
        BY <3>1, InsideOnly
      <3> QED
        BY <2>1, <2>2, <3>2, SMTT(30) DEF Inside
    <2> QED
      BY <1>0, <2>1, <2>3, EntriesKept, SMTT(30)
  <1>4. CASE UnmapPages(t)
    <2>1. /\ ldt' = ldt /\ pc[t] = "unmap" /\ pc'[t] = "dunlock" /\ tls_list' = tls_list
      BY <1>0, <1>4, SMTT(30) DEF UnmapPages, Step, TypeOK
    <2>2. mine[t] \in Areas /\ mine[t] \notin tls_list
      BY <2>1, MineWhere, SMTT(30) DEF Having, OffList, PCs
    <2>3. \A a \in Areas : (Filled(a) <=> a \in tls_list) /\ (Filled(a)' <=> a \in tls_list)
      <3>1. Locked(pc[t])
        BY <2>1 DEF Locked, PCs
      <3>2. Inside(t)
        BY <3>1, InsideOnly
      <3> QED
        BY <2>1, <3>2 DEF Inside
    <2>4. \A a \in Areas : Filled(a) => td'[a] = td[a]
      BY <1>0, <1>4, <2>2, <2>3, SMTT(30) DEF UnmapPages, TypeOK
    <2> QED
      BY <1>0, <2>1, <2>3, <2>4, EntriesKept, SMTT(30)
  <1>5. CASE SetupLdt(t)
    <2>1. /\ pc[t] = "ldt" /\ pc'[t] = "link" /\ mine' = mine /\ tls_list' = tls_list
      BY <1>0, <1>5, SMTT(30) DEF SetupLdt, Step, TypeOK
    <2>2. mine[t] \in Areas /\ mine[t] \notin tls_list
      BY <2>1, MineWhere, SMTT(30) DEF Having, OffList, PCs
    <2>3. \A a \in Areas : /\ Bitted(a) <=> a \in tls_list
                           /\ Filled(a) <=> a \in tls_list
                           /\ Filled(a)' <=> a \in tls_list \/ a = mine[t]
      <3>1. Locked(pc[t])
        BY <2>1, SMTT(30) DEF Locked, PCs
      <3>2. Inside(t)
        BY <3>1, InsideOnly
      <3> QED
        BY <2>1, <3>2 DEF Inside
    <2>4. \A a \in Areas : a \in tls_list => td[a].nr # slot[t]
      BY <2>1, <2>3 DEF IInv, BitInv
    <2>5. slot[t] \in 0 .. LDT_ENTRIES - 1
      BY <1>0, <2>1, TlsAreaAssumption, SMTT(30) DEF TypeOK, Slots
    <2>6. /\ ldt'[slot[t]] = mine[t] /\ td'[mine[t]].nr = slot[t]
          /\ \A n \in 0 .. LDT_ENTRIES - 1 : n # slot[t] => ldt'[n] = ldt[n]
          /\ \A a \in Areas : a # mine[t] => td'[a] = td[a]
      BY <1>0, <1>5, <2>2, <2>5, SMTT(30) DEF SetupLdt, TypeOK
    <2>7. ASSUME NEW n \in 0 .. LDT_ENTRIES - 1, ldt'[n] # NoArea
          PROVE  Filled(ldt[n])' /\ td'[ldt'[n]].nr = n
      <3>1. CASE n = slot[t]
        BY <2>1, <2>2, <2>6, <3>1, SMTT(30) DEF Filled
      <3>2. CASE n # slot[t]
        <4>1. ldt'[n] = ldt[n] /\ ldt[n] \in Areas /\ Filled(ldt[n]) /\ td[ldt[n]].nr = n
          BY <1>0, <2>6, <2>7, <3>2, SMTT(30) DEF TypeOK, LdtInv
        <4>2. ldt[n] \in tls_list
          BY <2>3, <4>1, SMTT(30)
        <4> QED
          BY <2>1, <2>2, <2>6, <4>1, <4>2, SMTT(30) DEF Filled
      <3> QED
        BY <3>1, <3>2, SMTT(30)
    <2>8. ASSUME NEW a \in Areas, Filled(a)'
          PROVE  ldt'[td'[a].nr] = a
      <3>1. CASE a = mine[t]
        BY <2>6, <3>1
      <3>2. CASE a \in tls_list /\ a # mine[t]
        <4>1. td'[a] = td[a] /\ td[a].nr # slot[t] /\ ldt[td[a].nr] = a
          BY <1>0, <2>3, <2>4, <2>6, <3>2 DEF LdtInv
        <4>2. td[a].nr \in 0 .. LDT_ENTRIES - 1
          BY <1>0 DEF TypeOK
        <4> QED
          BY <2>6, <4>1, <4>2, SMTT(30)
      <3> QED
        BY <2>3, <2>8, <3>1, <3>2
    <2> QED
      BY <2>7, <2>8, SMTT(30) DEF LdtInv
  <1>6. CASE ClearLdt(t)
    <2>1. /\ pc[t] = "cldt" /\ pc'[t] = "cslot" /\ mine' = mine /\ tls_list' = tls_list
          /\ td' = td
      BY <1>0, <1>6, SMTT(30) DEF ClearLdt, Step, TypeOK
    <2>2. mine[t] \in Areas /\ mine[t] \notin tls_list
      BY <2>1, MineWhere, SMTT(30) DEF Having, OffList, PCs
    <2>3. \A a \in Areas : /\ Bitted(a) <=> a \in tls_list \/ a = mine[t]
                           /\ Filled(a) <=> a \in tls_list \/ a = mine[t]
                           /\ Filled(a)' <=> a \in tls_list
      <3>1. Locked(pc[t])
        BY <2>1, SMTT(30) DEF Locked, PCs
      <3>2. Inside(t)
        BY <3>1, InsideOnly
      <3> QED
        BY <2>1, <3>2, ZenonT(30) DEF Inside
    <2>4. \A a \in Areas : a \in tls_list => td[a].nr # td[mine[t]].nr
      BY <2>2, <2>3 DEF IInv, BitInv
    <2>5. td[mine[t]].nr \in 0 .. LDT_ENTRIES - 1
      BY <1>0, <2>2, SMTT(30) DEF TypeOK
    <2>6. /\ ldt'[td[mine[t]].nr] = NoArea
          /\ \A n \in 0 .. LDT_ENTRIES - 1 : n # td[mine[t]].nr => ldt'[n] = ldt[n]
      BY <1>0, <1>6, <2>5, SMTT(30) DEF ClearLdt, TypeOK
    <2>7. ASSUME NEW n \in 0 .. LDT_ENTRIES - 1, ldt'[n] # NoArea
          PROVE  Filled(ldt[n])' /\ td'[ldt'[n]].nr = n
      <3>1. n # td[mine[t]].nr /\ ldt'[n] = ldt[n]
        BY <2>6, <2>7
      <3>2. ldt[n] \in Areas /\ Filled(ldt[n]) /\ td[ldt[n]].nr = n
        BY <1>0, <2>7, <3>1, SMTT(30) DEF TypeOK, LdtInv
      <3>3. ldt[n] \in tls_list
        BY <2>3, <3>1, <3>2, ZenonT(30)
      <3> QED
        BY <2>1, <3>1, <3>2, <3>3, ZenonT(30) DEF Filled
    <2>8. ASSUME NEW a \in Areas, Filled(a)'
          PROVE  ldt'[td'[a].nr] = a
      <3>1. a \in tls_list /\ ldt[td[a].nr] = a /\ td[a].nr # td[mine[t]].nr
        BY <1>0, <2>3, <2>4, <2>8 DEF LdtInv
      <3>2. td[a].nr \in 0 .. LDT_ENTRIES - 1
        BY <1>0 DEF TypeOK
      <3> QED
        BY <2>1, <2>6, <3>1, <3>2, ZenonT(30)
    <2> QED
      BY <2>7, <2>8 DEF LdtInv
  <1> QED
    BY <1>1, <1>2, <1>3, <1>4, <1>5, <1>6
       DEF alloc_tls_area, dealloc_tls_area

(* The descriptor of an area with a bit holds the selector of its slot,    *)
(* and a thread's %fs holds that selector, however others come and go.     *)
LEMMA FsStep ==
    ASSUME IInv,
           NEW t \in Threads, alloc_tls_area(t) \/ active_tls(t) \/ dealloc_tls_area(t)
    PROVE  FsInv'
  <1>0. TypeOK /\ FsInv /\ MineInv
    BY SMTT(30) DEF IInv
  <1>1. CASE \/ AllocLock(t) \/ MapPages(t) \/ NoPages(t) \/ FindSlot(t) \/ AllocUnlock(t)
             \/ DeallocLock(t) \/ DeallocUnlock(t)
    <2>1. /\ td' = td /\ fs' = fs
          /\ pc'[t] # "active"
          /\ \A u \in Threads : u # t => pc'[u] = pc[u] /\ mine'[u] = mine[u]
      BY <1>0, <1>1, OthersStay DEF AllocLock, MapPages, NoPages, FindSlot, AllocUnlock,
                                    DeallocLock, DeallocUnlock, Step, TypeOK
    <2>2. \A a \in Areas : Bitted(a)' <=> Bitted(a)
      BY <1>0, <1>1, Quiet, SMTT(30)
    <2> QED
      BY <1>0, <2>1, <2>2, SMTT(30) DEF FsInv
  <1>2. CASE active_tls(t)
    <2>1. /\ td' = td /\ mine' = mine /\ fs'[t] = td[mine[t]].fs_val
          /\ \A u \in Threads : u # t => pc'[u] = pc[u] /\ fs'[u] = fs[u]
      BY <1>0, <1>2, OthersStay DEF active_tls, TypeOK
    <2>2. \A a \in Areas : Bitted(a)' <=> Bitted(a)
      BY <1>0, <1>2, Quiet
    <2> QED
      BY <1>0, <2>1, <2>2, SMTT(30) DEF FsInv
  <1>3. CASE SetSlot(t) \/ Link(t) \/ Unlink(t) \/ ClearLdt(t) \/ clear_slot(t)
    <2>1. /\ td' = td /\ fs' = fs /\ mine' = mine
          /\ pc'[t] # "active"
          /\ \A u \in Threads : u # t => pc'[u] = pc[u]
      BY <1>0, <1>3 DEF SetSlot, Link, Unlink, ClearLdt, clear_slot, Step, TypeOK
    <2>2. ASSUME NEW a \in Areas, Bitted(a)' PROVE Bitted(a)
      <3>1. CASE Unlink(t)
        <4>1. pc[t] = "del" /\ tls_list' = tls_list \ {mine[t]}
          BY <3>1, Zenon DEF Unlink, Step
        <4>2. mine[t] \in tls_list
          BY <4>1, MineWhere DEF Having, OffList, PCs
        <4> QED
          BY <2>1, <2>2, <4>1, <4>2 DEF Bitted
      <3>2. CASE SetSlot(t) \/ Link(t) \/ ClearLdt(t) \/ clear_slot(t)
        <4>1. \/ pc[t] = "set" /\ pc'[t] = "ldt" /\ tls_list' = tls_list
              \/ pc[t] = "link" /\ pc'[t] = "unlock" /\ tls_list' = tls_list \cup {mine[t]}
              \/ pc[t] = "cldt" /\ pc'[t] = "cslot" /\ tls_list' = tls_list
              \/ pc[t] = "cslot" /\ pc'[t] = "unmap" /\ tls_list' = tls_list
          BY <1>0, <3>2, SMTT(30) DEF SetSlot, Link, ClearLdt, clear_slot, Step, TypeOK
        <4> QED
          BY <2>1, <2>2, <4>1, SMTT(30) DEF Bitted
      <3> QED
        BY <1>3, <3>1, <3>2, SMTT(30)
    <2> QED
      BY <1>0, <2>1, <2>2 DEF FsInv
  <1>4. CASE SetupLdt(t) \/ UnmapPages(t)
    <2>1. /\ fs' = fs /\ tls_list' = tls_list
          /\ Locked(pc[t]) /\ Having(pc[t]) /\ OffList(pc[t])
          /\ pc'[t] # "active"
          /\ \A u \in Threads : u # t => pc'[u] = pc[u] /\ mine'[u] = mine[u]
          /\ \A a \in Areas : a # mine[t] => td'[a] = td[a]
      BY <1>0, <1>4, OthersStay, SMTT(30) DEF SetupLdt, UnmapPages, Step, TypeOK, Locked, Having,
                                    OffList, PCs
    <2>2. mine[t] \in Areas /\ mine[t] \notin tls_list
      BY <2>1, MineWhere
    <2>3. ASSUME NEW a \in Areas, Bitted(a)'
          PROVE  td'[a].fs_val = FsVal(td'[a].nr)
      <3>1. CASE a \in tls_list
        <4>1. Bitted(a) /\ td'[a] = td[a]
          BY <2>1, <2>2, <3>1, SMTT(30) DEF Bitted
        <4> QED
          BY <1>0, <4>1, SMTT(30) DEF FsInv
      <3>2. CASE a \notin tls_list
        <4>1. SetupLdt(t) /\ a = mine[t]
          <5>1. Inside(t)
            BY <2>1, InsideOnly, SMTT(30)
          <5>2. pc'[t] \in {"link", "cldt", "cslot"} /\ mine'[t] = a
            BY <2>1, <2>3, <3>2, <5>1 DEF Inside
          <5>3. UnmapPages(t) => pc'[t] = "dunlock"
            BY <1>0, SMTT(30) DEF UnmapPages, Step, TypeOK
          <5>4. SetupLdt(t) => mine' = mine
            BY DEF SetupLdt
          <5> QED
            BY <1>4, <5>2, <5>3, <5>4, SMTT(30)
        <4> QED
          BY <1>0, <4>1, SMTT(30) DEF SetupLdt, TypeOK
      <3> QED
        BY <3>1, <3>2
    <2>4. ASSUME NEW u \in Threads, pc'[u] = "active"
          PROVE  fs'[u] = td'[mine'[u]].fs_val
      <3>1. u # t /\ pc[u] = "active" /\ mine'[u] = mine[u]
        BY <2>1, <2>4, SMTT(30)
      <3>2. mine[u] \in Areas /\ mine[u] # mine[t]
        BY <1>0, <2>1, <3>1, MineWhere DEF MineInv, Having, PCs
      <3> QED
        BY <1>0, <2>1, <3>1, <3>2, SMTT(30) DEF FsInv
    <2> QED
      BY <2>3, <2>4, ZenonT(30) DEF FsInv
  <1> QED
    BY <1>1, <1>2, <1>3, <1>4 DEF alloc_tls_area, dealloc_tls_area

-----------------------------------------------------------------------------
(* The inductive invariant *)

(* The loader starts with no area, no bit of thread_map set and an empty   *)
(* LDT.                                                                    *)
LEMMA InitHolds == Init => IInv
  <1> SUFFICES ASSUME Init PROVE IInv
    OBVIOUS
  <1>1. /\ holders = {} /\ mapped = {} /\ tls_list = {}
        /\ \A t \in Threads : pc[t] = "out"
        /\ \A n \in 0 .. LDT_ENTRIES - 1 : ldt[n] = NoArea
        /\ \A i \in Words : thread_map[i] = {}
    BY DEF Init, Lock!Init
  <1>2. TypeOK
    <2>1. 0 \in Slots /\ 0 \in 0 .. LDT_ENTRIES - 1
      BY TlsAreaAssumption, EntryIsSlot
    <2> QED
      BY <1>1, <2>1 DEF Init, TypeOK, PCs
  <1>3. \A a \in Areas : ~Bitted(a) /\ ~Filled(a)
    BY <1>1 DEF Bitted, Filled
  <1>4. \A n \in Slots : ~Used(n)
    BY <1>1, SlotParts DEF Used
  <1>5. LockInv /\ MineInv /\ ListInv
    BY <1>1 DEF LockInv, MineInv, ListInv, Locked, Having, OffList
  <1>6. BitInv
    BY <1>1, <1>3, <1>4 DEF BitInv
  <1>7. LdtInv /\ FsInv
    BY <1>1, <1>3 DEF LdtInv, FsInv
  <1> QED
    BY <1>2, <1>5, <1>6, <1>7 DEF IInv

(* No step of alloc_tls_area, active_tls or dealloc_tls_area leaves the    *)
(* inductive invariant.                                                    *)
LEMMA StepHolds == IInv /\ [Next]_vars => IInv'
  <1> SUFFICES ASSUME IInv, [Next]_vars PROVE IInv'
    OBVIOUS
  <1>1. CASE Next
    <2>1. PICK t \in Threads : alloc_tls_area(t) \/ active_tls(t) \/ dealloc_tls_area(t)
      BY <1>1 DEF Next
    <2>2. TypeOK /\ LockInv /\ MineInv /\ ListInv
      BY DEF IInv
    <2>3. TypeOK' /\ BitInv' /\ LdtInv' /\ FsInv'
      BY <2>1, TypeStep, BitStep, LdtStep, FsStep
    <2>4. LockInv' /\ MineInv' /\ ListInv'
      BY <2>1, <2>2, LockStep, MineStep, ListStep
    <2> QED
      BY <2>3, <2>4 DEF IInv
  <1>2. CASE UNCHANGED vars
    <2>1. TypeOK' /\ LockInv' /\ MineInv' /\ ListInv'
      BY <1>2, SMTT(30) DEF vars, IInv, TypeOK, LockInv, MineInv, ListInv
    <2>2. \A a : (Bitted(a)' <=> Bitted(a)) /\ (Filled(a)' <=> Filled(a))
      BY <1>2 DEF vars, Bitted, Filled
    <2>3. \A n : Used(n)' <=> Used(n)
      BY <1>2, SMTT(30) DEF vars, Used
    <2>4. BitInv' /\ FsInv'
      BY <1>2, <2>2, <2>3 DEF vars, IInv, BitInv, FsInv
    <2>5. LdtInv'
      BY <1>2, <2>2, EntriesKept DEF vars, IInv
    <2> QED
      BY <2>1, <2>4, <2>5, SMTT(30) DEF IInv
  <1> QED
    BY <1>1, <1>2

(* The inductive invariant holds throughout. *)
LEMMA Invariance == Spec => []IInv
  BY InitHolds, StepHolds, PTL DEF Spec

-----------------------------------------------------------------------------
(* Theorems *)

(* For any number of threads and of areas up to LDT_ENTRIES, the state of  *)
(* tls.c keeps its types: the slot that find_set_free_slot returns is      *)
(* always an entry of the LDT, so that setup_ldt's modify_ldt succeeds.    *)
THEOREM TypeSafe == Spec => []TypeOK
  <1>1. IInv => TypeOK
    BY SMTT(30) DEF IInv
  <1> QED
    BY <1>1, Invariance, PTL

(* Whenever no thread is inside tls_lock, tls_list, the mapped areas, the  *)
(* bits of thread_map and the entries of the LDT describe the same areas.  *)
THEOREM RecordsSafe == Spec => []RecordsAgree
  <1>1. ASSUME IInv, holders = {}
        PROVE  /\ tls_list = mapped
               /\ UsedSlots = {td[a].nr : a \in tls_list}
               /\ \A n \in DOMAIN ldt : ldt[n] # NoArea <=> n \in UsedSlots
               /\ \A a \in tls_list : ldt[td[a].nr] = a
    <2>1. TypeOK /\ LockInv /\ ListInv /\ BitInv /\ LdtInv
      BY <1>1 DEF IInv
    <2>2. \A t \in Threads : pc[t] \in {"out", "got", "active"}
      BY <1>1, <2>1, SMTT(30) DEF TypeOK, LockInv, Locked
    <2>3. \A a \in Areas : (Bitted(a) <=> a \in tls_list) /\ (Filled(a) <=> a \in tls_list)
      BY <2>2 DEF Bitted, Filled
    <2>4. \A a \in Areas : a \in tls_list <=> a \in mapped
      BY <2>1, <2>2 DEF ListInv, OffList
    <2>5. tls_list = mapped
      BY <2>1, <2>4 DEF TypeOK
    <2>6. \A n \in Slots : Used(n) <=> \E a \in Areas : a \in tls_list /\ td[a].nr = n
      BY <2>1, <2>2, <2>3 DEF BitInv
    <2>7. \A n : n \in UsedSlots <=> n \in Slots /\ Used(n)
      BY DEF UsedSlots, Used
    <2>8. \A a \in tls_list : /\ a \in Areas /\ td[a].nr \in Slots
                              /\ td[a].nr \in 0 .. LDT_ENTRIES - 1
                              /\ ldt[td[a].nr] = a
      BY <2>1, <2>3, EntryIsSlot DEF TypeOK, LdtInv
    <2>9. UsedSlots = {td[a].nr : a \in tls_list}
      BY <2>6, <2>7, <2>8
    <2>10. ASSUME NEW n \in DOMAIN ldt
           PROVE  ldt[n] # NoArea <=> n \in UsedSlots
      <3>1. n \in 0 .. LDT_ENTRIES - 1 /\ n \in Slots /\ ldt[n] \in Areas \cup {NoArea}
        BY <2>1, EntryIsSlot DEF TypeOK
      <3>2. ASSUME ldt[n] # NoArea PROVE n \in UsedSlots
        BY <2>1, <2>3, <2>6, <2>7, <3>1, <3>2 DEF LdtInv
      <3>3. ASSUME n \in UsedSlots PROVE ldt[n] # NoArea
        <4>1. PICK a \in tls_list : td[a].nr = n
          BY <2>6, <2>7, <3>3, SMTT(30)
        <4> QED
          BY <2>8, <4>1, TlsAreaAssumption
      <3> QED
        BY <3>2, <3>3
    <2> QED
      BY <2>5, <2>8, <2>9, <2>10
  <1>2. IInv => RecordsAgree
    BY <1>1 DEF RecordsAgree
  <1> QED
    BY <1>2, Invariance, PTL

(* A thread that has run active_tls reaches its own area through %fs until *)
(* it frees it, whatever the others allocate and free.                     *)
THEOREM SelfSafe == Spec => []SelfResolves
  <1>1. ASSUME IInv, NEW t \in Threads, pc[t] = "active"
        PROVE  mine[t] \in mapped /\ ldt[fs[t] \div 8] = mine[t]
    <2>1. mine[t] \in Areas /\ mine[t] \in mapped /\ mine[t] \in tls_list
      BY <1>1, MineWhere DEF Having, OffList, PCs
    <2>2. Bitted(mine[t]) /\ Filled(mine[t])
      BY <2>1, SMTT(30) DEF Bitted, Filled
    <2>3. fs[t] = FsVal(td[mine[t]].nr) /\ ldt[td[mine[t]].nr] = mine[t]
      BY <1>1, <2>1, <2>2 DEF IInv, FsInv, LdtInv
    <2>4. td[mine[t]].nr \in 0 .. LDT_ENTRIES - 1
      BY <1>1, <2>1 DEF IInv, TypeOK
    <2> QED
      BY <2>1, <2>3, <2>4, Selector, SMTT(30)
  <1>2. IInv => SelfResolves
    BY <1>1 DEF SelfResolves
  <1> QED
    BY <1>2, Invariance, PTL

=============================================================================
