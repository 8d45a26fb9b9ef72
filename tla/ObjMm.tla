-------------------------------- MODULE ObjMm --------------------------------
(***************************************************************************)
(* The object allocator of core/loader/mm.c: a thread's bump allocator     *)
(* over a list of fixed-size buckets, each headed by a struct              *)
(* obj_buk_head.  Buckets are numbered in the order they are mapped;       *)
(* list_add puts a new one at the head of buk_list, so the list is walked  *)
(* from the highest number to the lowest.  An address is a bucket and an   *)
(* offset in it.                                                           *)
(***************************************************************************)
EXTENDS Integers

CONSTANTS
  OBJ_BUCKET_SIZE,
  HEAD,             \* sizeof(struct obj_buk_head)
  MaxBuckets,       \* how many buckets mmap can find room for
  Sizes             \* the sizes alloc_obj is asked for

ASSUME ObjMmAssumption ==
    /\ OBJ_BUCKET_SIZE \in Nat /\ HEAD \in Nat \ {0}
    /\ HEAD < OBJ_BUCKET_SIZE
    /\ MaxBuckets \in Nat
    /\ Sizes \subseteq Nat

MAX_AVAL_OBJ_SIZE == OBJ_BUCKET_SIZE - HEAD

Buckets == 1 .. MaxBuckets

NULL == 0

VARIABLES
  status,      \* "zero": the stub is all zero, "ready": initialised, "dead":
               \* an assertion or FATAL has ended the process
  nbuk,        \* the buckets on buk_list are 1 .. nbuk
  cur_buk,
  cur_ptr,     \* cur_ptr of each bucket, as an offset
  aval_size,   \* aval_size of each bucket
  objs         \* history: the objects handed out since init_mm_obj

ObjVars == <<status, nbuk, cur_buk, cur_ptr, aval_size, objs>>

Listed == 1 .. nbuk

ObjInit ==
    /\ status = "zero"
    /\ nbuk = 0
    /\ cur_buk = NULL
    /\ cur_ptr = [b \in Buckets |-> 0]
    /\ aval_size = [b \in Buckets |-> 0]
    /\ objs = {}

init_mm_obj ==
    /\ status = "zero"
    /\ status' = "ready"
    /\ cur_buk' = NULL
    /\ UNCHANGED <<nbuk, cur_ptr, aval_size, objs>>

(* Every bucket on the list is unmapped and the stub is zeroed, list head  *)
(* included: it has to be initialised again before its next use.           *)
clean_mm_obj ==
    /\ status = "ready"
    /\ status' = "zero"
    /\ nbuk' = 0
    /\ cur_buk' = NULL
    /\ cur_ptr' = [b \in Buckets |-> 0]
    /\ aval_size' = [b \in Buckets |-> 0]
    /\ objs' = {}

(* Mutant: a bucket's objects start on top of its head. *)
FirstFree_AtHead == 0

(* Where alloc_obj_buk sets cur_ptr: the byte after the head, &buk[1]. *)
FirstFree == HEAD

(* Mutant: cur_ptr advances one byte short. *)
Take_Short(b, size, ptrs, avals) ==
    /\ cur_ptr' = [ptrs EXCEPT ![b] = @ + size - 1]
    /\ aval_size' = [avals EXCEPT ![b] = @ - size]
    /\ objs' = objs \cup {[buk |-> b, off |-> ptrs[b], len |-> size]}

(* What a successful alloc_from_buk(b, size) does. *)
Take(b, size, ptrs, avals) ==
    /\ cur_ptr' = [ptrs EXCEPT ![b] = @ + size]
    /\ aval_size' = [avals EXCEPT ![b] = @ - size]
    /\ objs' = objs \cup {[buk |-> b, off |-> ptrs[b], len |-> size]}

(* alloc_from_buk gets past its two early returns. *)
Fits(b, size) == b # NULL /\ aval_size[b] >= size

(* assert(buk->cur_ptr < buk->buk_end) holds after the bump. *)
BumpAsserted(b, size) == cur_ptr[b] + size < OBJ_BUCKET_SIZE

(* b is the max_buk that the search of the list ends with: the comparison  *)
(* is strict, so of several largest buckets it is the first met.           *)
IsMaxBuk(b) ==
    /\ b \in Listed
    /\ aval_size[b] > 0
    /\ \A c \in Listed :
          aval_size[c] < aval_size[b] \/ (aval_size[c] = aval_size[b] /\ c <= b)

(* max_buk passes the test that lets it serve the request. *)
MaxBukServes(b, size) ==
    IsMaxBuk(b) /\ b # cur_buk /\ aval_size[b] > size

Valid(size) == size > 0 /\ size < MAX_AVAL_OBJ_SIZE

(* The FATAL for a size too large and the assertion that size is not 0. *)
RejectSize(size) ==
    /\ status = "ready"
    /\ ~Valid(size)
    /\ status' = "dead"
    /\ UNCHANGED <<nbuk, cur_buk, cur_ptr, aval_size, objs>>

(* The fast path. *)
AllocFromCur(size) ==
    /\ status = "ready"
    /\ Valid(size)
    /\ Fits(cur_buk, size)
    /\ BumpAsserted(cur_buk, size)
    /\ Take(cur_buk, size, cur_ptr, aval_size)
    /\ UNCHANGED <<status, nbuk, cur_buk>>

(* The fast path, ended by the assertion in alloc_from_buk. *)
AssertInCur(size) ==
    /\ status = "ready"
    /\ Valid(size)
    /\ Fits(cur_buk, size)
    /\ ~BumpAsserted(cur_buk, size)
    /\ status' = "dead"
    /\ cur_ptr' = [cur_ptr EXCEPT ![cur_buk] = @ + size]
    /\ UNCHANGED <<nbuk, cur_buk, aval_size, objs>>

(* The biggest available bucket serves the request, and becomes the        *)
(* current one if it still has more left.                                  *)
AllocFromMax(size) ==
    /\ status = "ready"
    /\ Valid(size)
    /\ ~Fits(cur_buk, size)
    /\ \E b \in Buckets :
          /\ MaxBukServes(b, size)
          /\ Take(b, size, cur_ptr, aval_size)
          /\ cur_buk' = IF aval_size'[b] > aval_size'[cur_buk]
                        THEN b ELSE cur_buk
    /\ UNCHANGED <<status, nbuk>>

NeedsNewBuk(size) ==
    /\ ~Fits(cur_buk, size)
    /\ ~ \E b \in Listed : MaxBukServes(b, size)

(* cur_buk becomes the bigger of the new bucket n and the old max_buk. *)
AdjustCur(n) ==
    \/ /\ \A b \in Listed : IsMaxBuk(b) => aval_size'[n] > aval_size[b]
       /\ cur_buk' = n
    \/ \E b \in Listed : /\ IsMaxBuk(b)
                         /\ aval_size'[n] <= aval_size[b]
                         /\ cur_buk' = b

(* A new bucket is mapped, linked and serves the request. *)
AllocFromNew(size) ==
    /\ status = "ready"
    /\ Valid(size)
    /\ NeedsNewBuk(size)
    /\ nbuk < MaxBuckets
    /\ nbuk' = nbuk + 1
    /\ Take(nbuk', size,
            [cur_ptr EXCEPT ![nbuk'] = FirstFree],
            [aval_size EXCEPT ![nbuk'] = OBJ_BUCKET_SIZE - HEAD])
    /\ AdjustCur(nbuk')
    /\ UNCHANGED status

(* xalloc_pages finds no room: assert(is_valid_page(ptr)). *)
NoRoomForBuk(size) ==
    /\ status = "ready"
    /\ Valid(size)
    /\ NeedsNewBuk(size)
    /\ nbuk = MaxBuckets
    /\ status' = "dead"
    /\ UNCHANGED <<nbuk, cur_buk, cur_ptr, aval_size, objs>>

alloc_obj(size) ==
    \/ RejectSize(size)
    \/ AllocFromCur(size) \/ AssertInCur(size)
    \/ AllocFromMax(size)
    \/ AllocFromNew(size) \/ NoRoomForBuk(size)

ObjNext == init_mm_obj \/ clean_mm_obj \/ \E size \in Sizes : alloc_obj(size)

ObjSpec == ObjInit /\ [][ObjNext]_ObjVars

-----------------------------------------------------------------------------
(* Properties *)

Objects == [buk : Buckets, off : Nat, len : Nat \ {0}]

(* The types of the stub (mm.h) and of the bucket heads. *)
ObjTypeOK ==
    /\ status \in {"zero", "ready", "dead"}
    /\ nbuk \in 0 .. MaxBuckets
    /\ cur_buk \in 0 .. nbuk
    /\ cur_ptr \in [Buckets -> 0 .. OBJ_BUCKET_SIZE]
    /\ aval_size \in [Buckets -> 0 .. OBJ_BUCKET_SIZE - HEAD]
    /\ objs \subseteq Objects

Overlap(o, q) ==
    o.buk = q.buk /\ o.off < q.off + q.len /\ q.off < o.off + o.len

(* No two objects alloc_obj has handed out share a byte, whichever of its  *)
(* three paths served them, and none of them reaches to where the next one *)
(* of its bucket will be: nothing is handed out twice.                     *)
ObjsDisjoint ==
    /\ \A o, q \in objs : o # q => ~Overlap(o, q)
    /\ status = "ready" => \A o \in objs : o.off + o.len <= cur_ptr[o.buk]

(* An object lies in a bucket that is on the list, past the bucket's head  *)
(* and before its end: writing it never damages struct obj_buk_head.       *)
ObjsInBucket ==
    \A o \in objs :
        /\ o.buk \in Listed
        /\ HEAD <= o.off
        /\ o.off + o.len <= OBJ_BUCKET_SIZE

(* cur_buk is set as soon as there is a bucket: alloc_obj reads            *)
(* cur_buk->aval_size (line 161) without testing it for NULL.              *)
CurBukSet == nbuk > 0 => cur_buk # NULL
=============================================================================
