------------------------------ MODULE TlsArea ------------------------------
(***************************************************************************)
(* The per-thread areas of core/loader/tls.c: pages, a slot of the bitmap  *)
(* thread_map, the entry of the local descriptor table (LDT) with the same *)
(* number and a link on tls_list, all under tls_lock.  A thread reaches    *)
(* its area through the selector it has loaded into %fs.                   *)
(*                                                                         *)
(* The lock is AbstractLock, which XMutex implements.  Between taking and  *)
(* releasing it each access to shared state is a step of its own, so that  *)
(* what the code owes to the lock is visible.  A word of thread_map is the *)
(* set of its 1 bits.                                                      *)
(***************************************************************************)
EXTENDS Integers, FiniteSets

CONSTANTS
  Threads,
  Areas,          \* the page ranges xalloc_pages can return
  LDT_ENTRIES,
  SZ_MAP,         \* words in thread_map
  WordBits,       \* bits in one of them
  NoArea

ASSUME TlsAreaAssumption ==
    /\ LDT_ENTRIES \in Nat \ {0} /\ SZ_MAP \in Nat \ {0} /\ WordBits \in Nat \ {0}
    /\ IsFiniteSet(Areas) /\ Cardinality(Areas) <= LDT_ENTRIES
    /\ LDT_ENTRIES <= SZ_MAP * WordBits
    /\ NoArea \notin Areas

Bits == 0 .. WordBits - 1
Words == 0 .. SZ_MAP - 1
Slots == 0 .. SZ_MAP * WordBits - 1

VARIABLES
  holders,      \* who holds tls_lock
  pc,
  mapped,       \* the areas that are mapped
  thread_map,
  ldt,          \* the area an LDT entry leads to
  tls_list,     \* the areas on the list
  td,           \* the struct tls_desc at the top of each area
  mine,         \* the area a thread is allocating, using or freeing
  slot,         \* the slot find_set_free_slot has computed
  fs,           \* %fs of each thread
  dead          \* an assertion has ended the process

vars == <<holders, pc, mapped, thread_map, ldt, tls_list, td, mine, slot, fs, dead>>

Lock == INSTANCE AbstractLock WITH Contexts <- Threads

Init ==
    /\ Lock!Init
    /\ pc = [t \in Threads |-> "out"]
    /\ mapped = {}
    /\ thread_map = [i \in Words |-> {}]
    /\ ldt = [n \in 0 .. LDT_ENTRIES - 1 |-> NoArea]
    /\ tls_list = {}
    /\ td = [a \in Areas |-> [nr |-> 0, fs_val |-> 0]]
    /\ mine = [t \in Threads |-> NoArea]
    /\ slot = [t \in Threads |-> 0]
    /\ fs = [t \in Threads |-> 0]
    /\ dead = FALSE

Step(t, from, to) ==
    /\ ~dead
    /\ pc[t] = from
    /\ pc' = [pc EXCEPT ![t] = to]

-----------------------------------------------------------------------------
(* alloc_tls_area *)

(* Mutant: the lock is not taken. *)
AllocLock_None(t) ==
    /\ Step(t, "out", "pages")
    /\ UNCHANGED <<holders, mapped, thread_map, ldt, tls_list, td, mine, slot, fs, dead>>

AllocLock(t) ==
    /\ Step(t, "out", "pages")
    /\ Lock!Acquire(t)
    /\ UNCHANGED <<mapped, thread_map, ldt, tls_list, td, mine, slot, fs, dead>>

(* xalloc_pages; the low page is reprotected and start_addr and size are   *)
(* set.                                                                    *)
MapPages(t) ==
    /\ Step(t, "pages", "find")
    /\ \E a \in Areas \ mapped :
          /\ mapped' = mapped \cup {a}
          /\ mine' = [mine EXCEPT ![t] = a]
    /\ UNCHANGED <<holders, thread_map, ldt, tls_list, td, slot, fs, dead>>

(* There is no room left: assert(is_valid_page(ptr)) in xalloc_pages. *)
NoPages(t) ==
    /\ ~dead /\ pc[t] = "pages"
    /\ mapped = Areas
    /\ dead' = TRUE
    /\ UNCHANGED <<holders, pc, mapped, thread_map, ldt, tls_list, td, mine, slot, fs>>

(* The position of the lowest 0 bit of x. *)
last_0_pos(x) == CHOOSE b \in Bits \ x : \A c \in Bits \ x : b <= c

(* Mutant: the search runs from the last word down. *)
FirstFreeWord_Last ==
    CHOOSE i \in Words : /\ thread_map[i] # Bits
                         /\ \A j \in Words : j > i => thread_map[j] = Bits

(* The first word of thread_map that is not all ones. *)
FirstFreeWord ==
    CHOOSE i \in Words : /\ thread_map[i] # Bits
                         /\ \A j \in Words : j < i => thread_map[j] = Bits

(* find_set_free_slot computes n ... *)
FindSlot(t) ==
    /\ Step(t, "find", "set")
    /\ slot' = [slot EXCEPT ![t] =
                   FirstFreeWord * WordBits + last_0_pos(thread_map[FirstFreeWord])]
    /\ UNCHANGED <<holders, mapped, thread_map, ldt, tls_list, td, mine, fs, dead>>

(* Mutant: the bit is not set. *)
SetSlot_Skip(t) ==
    /\ Step(t, "set", "ldt")
    /\ UNCHANGED <<holders, mapped, thread_map, ldt, tls_list, td, mine, slot, fs, dead>>

(* ... and sets the bit. *)
SetSlot(t) ==
    /\ Step(t, "set", "ldt")
    /\ thread_map' = [thread_map EXCEPT ![slot[t] \div WordBits] =
                         @ \cup {slot[t] % WordBits}]
    /\ UNCHANGED <<holders, mapped, ldt, tls_list, td, mine, slot, fs, dead>>

(* The index of an LDT entry in a selector of tls_asm_slot_t's 16 bits:    *)
(* nr * 8 + 4 + 3, of which only 8 * LDT_ENTRIES values are distinct.      *)
FsVal(nr) == (nr * 8 + 7) % (8 * LDT_ENTRIES)

(* setup_ldt: the LDT entry is written, then nr and fs_val.                *)
SetupLdt(t) ==
    /\ Step(t, "ldt", "link")
    /\ ldt' = [ldt EXCEPT ![slot[t]] = mine[t]]
    /\ td' = [td EXCEPT ![mine[t]] = [nr |-> slot[t], fs_val |-> FsVal(slot[t])]]
    /\ UNCHANGED <<holders, mapped, thread_map, tls_list, mine, slot, fs, dead>>

Link(t) ==
    /\ Step(t, "link", "unlock")
    /\ tls_list' = tls_list \cup {mine[t]}
    /\ UNCHANGED <<holders, mapped, thread_map, ldt, td, mine, slot, fs, dead>>

AllocUnlock(t) ==
    /\ Step(t, "unlock", "got")
    /\ Lock!Release(t)
    /\ UNCHANGED <<mapped, thread_map, ldt, tls_list, td, mine, slot, fs, dead>>

active_tls(t) ==
    /\ Step(t, "got", "active")
    /\ fs' = [fs EXCEPT ![t] = td[mine[t]].fs_val]
    /\ UNCHANGED <<holders, mapped, thread_map, ldt, tls_list, td, mine, slot, dead>>

-----------------------------------------------------------------------------
(* dealloc_tls_area *)

DeallocLock(t) ==
    /\ Step(t, "active", "del")
    /\ Lock!Acquire(t)
    /\ UNCHANGED <<mapped, thread_map, ldt, tls_list, td, mine, slot, fs, dead>>

Unlink(t) ==
    /\ Step(t, "del", "cldt")
    /\ tls_list' = tls_list \ {mine[t]}
    /\ UNCHANGED <<holders, mapped, thread_map, ldt, td, mine, slot, fs, dead>>

ClearLdt(t) ==
    /\ Step(t, "cldt", "cslot")
    /\ ldt' = [ldt EXCEPT ![td[mine[t]].nr] = NoArea]
    /\ UNCHANGED <<holders, mapped, thread_map, tls_list, td, mine, slot, fs, dead>>

clear_slot(t) ==
    LET tnr == td[mine[t]].nr
    IN  /\ Step(t, "cslot", "unmap")
        /\ thread_map' = [thread_map EXCEPT ![tnr \div WordBits] = @ \ {tnr % WordBits}]
        /\ UNCHANGED <<holders, mapped, ldt, tls_list, td, mine, slot, fs, dead>>

(* xdealloc_pages: the descriptor goes with the pages. *)
UnmapPages(t) ==
    /\ Step(t, "unmap", "dunlock")
    /\ mapped' = mapped \ {mine[t]}
    /\ td' = [td EXCEPT ![mine[t]] = [nr |-> 0, fs_val |-> 0]]
    /\ mine' = [mine EXCEPT ![t] = NoArea]
    /\ UNCHANGED <<holders, thread_map, ldt, tls_list, slot, fs, dead>>

DeallocUnlock(t) ==
    /\ Step(t, "dunlock", "out")
    /\ Lock!Release(t)
    /\ UNCHANGED <<mapped, thread_map, ldt, tls_list, td, mine, slot, fs, dead>>

alloc_tls_area(t) ==
    \/ AllocLock(t) \/ MapPages(t) \/ NoPages(t) \/ FindSlot(t) \/ SetSlot(t)
    \/ SetupLdt(t) \/ Link(t) \/ AllocUnlock(t)

dealloc_tls_area(t) ==
    \/ DeallocLock(t) \/ Unlink(t) \/ ClearLdt(t) \/ clear_slot(t)
    \/ UnmapPages(t) \/ DeallocUnlock(t)

Next == \E t \in Threads : alloc_tls_area(t) \/ active_tls(t) \/ dealloc_tls_area(t)

Spec == Init /\ [][Next]_vars

-----------------------------------------------------------------------------
(* Properties *)

PCs == {"out", "pages", "find", "set", "ldt", "link", "unlock", "got", "active",
        "del", "cldt", "cslot", "unmap", "dunlock"}

(* The types of the state above (tls.h): above all, first fit never needs  *)
(* a slot that is no entry of the LDT, so that modify_ldt succeeds.        *)
TypeOK ==
    /\ holders \subseteq Threads
    /\ pc \in [Threads -> PCs]
    /\ mapped \subseteq Areas
    /\ thread_map \in [Words -> SUBSET Bits]
    /\ ldt \in [0 .. LDT_ENTRIES - 1 -> Areas \cup {NoArea}]
    /\ tls_list \subseteq Areas
    /\ td \in [Areas -> [nr : 0 .. LDT_ENTRIES - 1, fs_val : Nat]]
    /\ mine \in [Threads -> Areas \cup {NoArea}]
    /\ slot \in [Threads -> Slots]
    /\ \A t \in Threads : pc[t] \in {"set", "ldt"} => slot[t] < LDT_ENTRIES
    /\ fs \in [Threads -> Nat]
    /\ dead \in BOOLEAN

UsedSlots == {n \in Slots : n % WordBits \in thread_map[n \div WordBits]}

(* With tls_lock free, the three records of who has an area agree: the     *)
(* areas on tls_list are the mapped ones, the bits of thread_map are their *)
(* slots, and each slot's LDT entry leads to its area.                     *)
RecordsAgree ==
    holders = {} =>
        /\ tls_list = mapped
        /\ UsedSlots = {td[a].nr : a \in tls_list}
        /\ \A n \in DOMAIN ldt :
              ldt[n] # NoArea <=> n \in UsedSlots
        /\ \A a \in tls_list : ldt[td[a].nr] = a

(* A thread that has loaded its selector reaches its own area through %fs, *)
(* whatever other threads allocate and free meanwhile: get_self_tls_desc   *)
(* and get_self_tpd return its own data.                                   *)
SelfResolves ==
    \A t \in Threads :
        pc[t] = "active" =>
            /\ mine[t] \in mapped
            /\ ldt[fs[t] \div 8] = mine[t]
=============================================================================
