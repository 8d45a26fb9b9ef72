------------------------------ MODULE BigBuffer ------------------------------
(***************************************************************************)
(* The bigbuffer of core/loader/bigbuffer.c and the block file it is       *)
(* flushed to (compression.c): a stream is copied through a fixed buffer,  *)
(* which is compressed and written as one block, head then data, whenever  *)
(* it is full.                                                             *)
(*                                                                         *)
(* A byte of the stream is its position in it.  A block's data is modelled *)
(* by what decompress gives back for it, so that the file is the sequence  *)
(* of heads and the sequence of the bytes that follow them.                *)
(***************************************************************************)
EXTENDS Integers, Sequences

CONSTANTS
  BIGBUFFER_SZ,
  MaxAppend,       \* the largest sz append_bigbuffer is called with
  MaxStream        \* bound: how many bytes are appended in all

ASSUME BigBufferAssumption ==
    BIGBUFFER_SZ \in Nat \ {0} /\ MaxAppend \in Nat /\ MaxStream \in Nat

VARIABLES
  step,     \* "idle", "copy" (the do loop), "data" (between the two
            \* sys_writes of flush_small_buffer), "dead" (failed assertion)
  then,     \* where the flush in progress returns to: "idle" or "copy"
  ptr,      \* bb->ptr
  buffer,   \* bb->buffer
  sz,       \* bytes of the current append_bigbuffer still to be copied
  pos,      \* the stream position of the byte buf points at
  heads,    \* the block heads in the file: ori_sz, and where the data starts
  out       \* what the data in the file decompresses to

BbVars == <<step, then, ptr, buffer, sz, pos, heads, out>>

Offsets == 0 .. BIGBUFFER_SZ - 1

BbInit ==
    /\ step = "idle" /\ then = "idle"
    /\ ptr = 0
    /\ buffer = [i \in Offsets |-> 0]
    /\ sz = 0 /\ pos = 0
    /\ heads = <<>> /\ out = <<>>

(* append_bigbuffer is called with n bytes: its assertion on bb->ptr, its  *)
(* early return for an empty request and the entry of its loop.            *)
append_bigbuffer(n) ==
    /\ step = "idle"
    /\ pos + n <= MaxStream
    /\ sz' = n
    /\ step' = IF ptr >= BIGBUFFER_SZ THEN "dead"
             ELSE IF n = 0 THEN "idle" ELSE "copy"
    /\ UNCHANGED <<then, ptr, buffer, pos, heads, out>>

MinOf(a, b) == IF a <= b THEN a ELSE b

CopySize == MinOf(BIGBUFFER_SZ - ptr, sz)

(* Mutant: the head records the capacity instead of the size. *)
BlockHead_Capacity(n) == [ori_sz |-> BIGBUFFER_SZ, at |-> Len(out)]

(* The struct comp_block_head of a block of n bytes. *)
BlockHead(n) == [ori_sz |-> n, at |-> Len(out)]

(* flush_comp_buffer, called with bb->ptr bytes: MAX_COMP_SZ is            *)
(* BIGBUFFER_SZ, so its loop runs once.  The head is written first; a      *)
(* failed or short sys_write fails an assertion.                           *)
WriteHead(n, return) ==
    \/ /\ heads' = Append(heads, BlockHead(n))
       /\ step' = "data"
       /\ then' = return
    \/ /\ step' = "dead"
       /\ UNCHANGED <<then, heads>>

(* The loop flushes only when something is left to copy. *)
MustFlush(left) == left > 0

(* One round of the loop of append_bigbuffer: copy what fits, and start a  *)
(* flush if something is left.                                             *)
Copy ==
    LET n == CopySize
    IN  /\ step = "copy"
        /\ buffer' = [i \in Offsets |-> IF i \in ptr .. ptr + n - 1
                                        THEN pos + (i - ptr) ELSE buffer[i]]
        /\ ptr' = ptr + n
        /\ pos' = pos + n
        /\ sz' = sz - n
        /\ IF MustFlush(sz') THEN WriteHead(ptr', "copy")
                      ELSE step' = "idle" /\ UNCHANGED <<then, heads>>
        /\ UNCHANGED out

(* flush_bigbuffer from outside: the end of a checkpoint or of a log. *)
Flush ==
    /\ step = "idle"
    /\ ptr # 0
    /\ WriteHead(ptr, "idle")
    /\ UNCHANGED <<ptr, buffer, sz, pos, out>>

(* Mutant: bb->ptr is not reset after the flush. *)
ResetPtr_No == ptr' = ptr

(* reset_bigbuffer_ptr *)
ResetPtr == ptr' = 0

(* The second sys_write of flush_small_buffer, and the reset of bb->ptr. *)
WriteData ==
    /\ step = "data"
    /\ \/ /\ out' = out \o [i \in 1 .. ptr |-> buffer[i - 1]]
          /\ ResetPtr
          /\ step' = then
       \/ /\ step' = "dead"
          /\ UNCHANGED <<ptr, out>>
    /\ UNCHANGED <<then, buffer, sz, pos, heads>>

BbNext ==
    \/ \E n \in 0 .. MaxAppend : append_bigbuffer(n)
    \/ Copy
    \/ Flush
    \/ WriteData

BbSpec == BbInit /\ [][BbNext]_BbVars

-----------------------------------------------------------------------------
(* Properties *)

Heads == [ori_sz : 1 .. BIGBUFFER_SZ, at : Nat]

(* The types of struct bigbuffer and of the file.  A block is never empty  *)
(* and never decompresses to more than BIGBUFFER_SZ bytes, the size a      *)
(* reader gives decompress for its destination.                            *)
BbTypeOK ==
    /\ step \in {"idle", "copy", "data", "dead"}
    /\ then \in {"idle", "copy"}
    /\ ptr \in 0 .. BIGBUFFER_SZ
    /\ buffer \in [Offsets -> Nat]
    /\ sz \in Nat /\ pos \in Nat
    /\ heads \in Seq(Heads)
    /\ out \in Seq(Nat)

(* Whatever the sizes of the requests, append_bigbuffer and the flushes    *)
(* lose, repeat and reorder nothing: the data in the file is the start of  *)
(* the stream, the buffer holds what comes next, and together they reach   *)
(* the byte the current request has got to.                                *)
StreamKept ==
    /\ \A i \in 1 .. Len(out) : out[i] = i - 1
    /\ \A i \in Offsets : i < ptr => buffer[i] = Len(out) + i
    /\ pos = Len(out) + ptr

(* The blocks tile the file: each head's ori_sz leads exactly to the next  *)
(* head, and only the last block can lack its data, when the process is    *)
(* between the two writes or died there.                                   *)
HeadsTile ==
    /\ \A k \in 1 .. Len(heads) - 1 :
          heads[k + 1].at = heads[k].at + heads[k].ori_sz
    /\ IF heads = <<>> THEN out = <<>>
       ELSE LET last == heads[Len(heads)]
            IN  /\ heads[1].at = 0
                /\ \/ Len(out) = last.at + last.ori_sz
                   \/ step \in {"data", "dead"} /\ Len(out) = last.at

(* assert(bb->ptr == BIGBUFFER_SZ) before the flush in append_bigbuffer:   *)
(* it is only a full buffer that is flushed on the way.                    *)
FlushWhenFull ==
    [][step = "copy" /\ step' = "data" => ptr' = BIGBUFFER_SZ]_BbVars
=============================================================================
