---------------------------- MODULE LoggerProofs ----------------------------
(***************************************************************************)
(* core/loader/logger.c for any number of threads and any buffer: a flush  *)
(* by another thread, at any moment, moves no append outside the buffer    *)
(* and splits no block of a log.                                           *)
(*                                                                         *)
(* CursorInside is not inductive: it needs that the room an append has     *)
(* found is still there when it stores the pointer (CursorInv), and that a *)
(* thread inside flush_logger knows whose logger it flushes and where it   *)
(* goes on (FlushInv).  BlocksWhole needs that the mutex is held from head *)
(* to data (LockInv) and that a log ends in a head only meanwhile          *)
(* (FileInv).                                                              *)
(***************************************************************************)
EXTENDS Logger, TLAPS

(* The parts of TypeOK. *)
PcOK == pc \in [Threads -> PCs]

RegOK ==
    /\ curr \in [Threads -> Nat] /\ ptr \in [Threads -> Nat]
    /\ size \in [Threads -> Nat] /\ cpysz \in [Threads -> Nat]
    /\ addr \in [Threads -> Nat] /\ pos \in [Threads -> Nat]

FlOK ==
    /\ flushing \in [Threads -> Threads \cup {NoThread}]
    /\ then \in [Threads -> {"idle", "avail", "dest", "nextarea"}]

FlagsOK == mutex \in [Threads -> BOOLEAN] /\ tls_lock \in BOOLEAN

BufferOK == buffer \in [Threads -> [Offsets -> Int]]

FileOK == file \in [Threads -> Seq(Items)]

BlockOK == block \in [Threads -> Seq(Int)]

ListOK == tls_list \in Seq(Threads) /\ todo \in [Threads -> Seq(Threads)]

CountOK == calls \in [Threads -> Nat] /\ failed \subseteq Threads

(* What flush_all_logger needs of its list. *)
TodoOK == \A t \in Threads : todo[t] # <<>> => Head(todo[t]) \in Threads

Flushing == {"lock", "setptr", "open", "blockdata", "close", "dropptr", "dropcurr"}

Copying == {"dest", "copy", "load", "store"}

(* The steps between lock and unlock of log_flush_mutex. *)
Writing == {"setptr", "open", "blockdata", "close"}

(* Where asm_curr_ptr can be, and what a thread in the midst of an append  *)
(* still holds of it: the room it has found stays there.                   *)
CursorAt(t) ==
    /\ pc[t] \notin {"start", "linked", "dead"} => curr[t] \in ASM_BASE .. asm_end_ptr
    /\ pc[t] \in Copying => curr[t] + cpysz[t] <= asm_end_ptr
    /\ pc[t] \in {"copy", "load", "store"} => /\ addr[t] >= ASM_BASE
                                              /\ addr[t] + cpysz[t] <= asm_end_ptr

CursorInv == \A t \in Threads : CursorAt(t)

(* The threads, that all end together. *)
Dead == [u \in Threads |-> "dead"]

(* bb.ptr is inside the buffer, unless the assertion has just failed. *)
PtrInv == pc # Dead => \A l \in Threads : ptr[l] < BIGBUFFER_SZ

(* What a step of another thread leaves alone. *)
Kept(u) ==
    /\ pc'[u] = pc[u] /\ flushing'[u] = flushing[u] /\ then'[u] = then[u]
    /\ size'[u] = size[u] /\ cpysz'[u] = cpysz[u] /\ addr'[u] = addr[u]

(* Who is in flush_logger, and on whose behalf. *)
FlushAt(t) ==
    /\ pc[t] \in Flushing => flushing[t] \in Threads
    /\ pc[t] \notin Flushing \cup {"dead"} => flushing[t] = NoThread
    /\ pc[t] \in Initialising \cup {"idle"} => then[t] = "idle"
    /\ pc[t] = "avail" => then[t] = "avail"
    /\ pc[t] \in Copying => then[t] \in {"avail", "dest"}
    /\ pc[t] = "nextarea" => then[t] = "nextarea"
    /\ pc[t] \in Flushing /\ then[t] \in {"avail", "dest"} => flushing[t] = t
    /\ pc[t] \in Flushing \cup Copying /\ then[t] = "dest" =>
           cpysz[t] \in TypeSizes /\ size[t] = cpysz[t]

FlushInv == \A t \in Threads : FlushAt(t)

(* Of the loggers that count, only one thread is between lock and unlock.  *)
InWriting(t, l) == flushing[t] = l /\ pc[t] \in Writing

LockAt(l, t, u) ==
    InWriting(t, l) => mutex[l] /\ (InWriting(u, l) => u = t)

LockInv == \A l \in Threads \ early : \A t, u \in Threads : LockAt(l, t, u)

(* The last item of a log is a head only while somebody has its data. *)
FileAt(l) ==
    LET n == Len(file[l])
    IN  /\ \A t \in Threads :
              flushing[t] = l /\ pc[t] = "blockdata" =>
                  /\ n > 0
                  /\ file[l][n].kind = "head"
                  /\ file[l][n].ori_sz = Len(block[t])
        /\ n > 0 /\ file[l][n].kind = "head" =>
              \/ \E t \in Threads : flushing[t] = l /\ pc[t] = "blockdata"
              \/ \A t \in Threads : pc[t] = "dead"
        /\ pc[l] \in Initialising => file[l] = <<>>

FileInv == \A l \in Threads \ early : FileAt(l)

(* BlocksWhole of one log. *)
BlocksAt(l) ==
    \A k \in DOMAIN file[l] :
        LET i == file[l][k]
        IN  /\ i.kind = "filehead" => k = 1
            /\ i.kind = "data" => k > 1 /\ file[l][k - 1].kind = "head"
            /\ i.kind = "head" /\ k < Len(file[l]) =>
                   /\ file[l][k + 1].kind = "data"
                   /\ Len(file[l][k + 1].bytes) = i.ori_sz

(* Every type of append_logger_TYPE fits into an empty buffer. *)
LEMMA TypeSizesFact == \A n \in TypeSizes : n \in Nat /\ ASM_BASE + n <= asm_end_ptr
  BY LoggerAssumption DEF asm_end_ptr

(* curr_offset of flush_logger, an unsigned difference, is below           *)
(* BIGBUFFER_SZ if asm_curr_ptr is inside the buffer.                      *)
LEMMA OffsetFact ==
    ASSUME NEW a \in Nat
    PROVE  /\ (a - ASM_BASE) % AddrSpace \in Nat
           /\ a \in ASM_BASE .. asm_end_ptr => (a - ASM_BASE) % AddrSpace < BIGBUFFER_SZ
  <1>1. (a - ASM_BASE) % AddrSpace \in Nat
    BY LoggerAssumption
  <1>2. ASSUME a \in ASM_BASE .. asm_end_ptr
        PROVE  (a - ASM_BASE) % AddrSpace < BIGBUFFER_SZ
    <2>1. a - ASM_BASE \in 0 .. BIGBUFFER_SZ - 1
      BY <1>2, LoggerAssumption DEF asm_end_ptr
    <2>2. (a - ASM_BASE) % AddrSpace = a - ASM_BASE
      BY <2>1, LoggerAssumption
    <2> QED
      BY <2>1, <2>2, LoggerAssumption
  <1> QED
    BY <1>1, <1>2

(* asm_curr_ptr is moved by init_logger, the appends and flush_logger. *)
LEMMA TouchCurr ==
    ASSUME NEW t \in Threads, Calls(t) \/ Running(t)
    PROVE  \/ UNCHANGED curr
           \/ init_logger(t) \/ Store(t) \/ DropCurr(t) \/ Close(t)
  BY Zenon DEF Calls, Running, flush_logger, Link, Create, write_comp_file_head,
         CopySize, Dest, Copy, Load, LockLogger, set_bigbuffer_ptr, OpenFails, DropPtr,
         WriteBlockHead, WriteBlockData, flush_self_logger, flush_all_logger, NextArea,
         append_logger, append_logger_TYPE

(* bb.ptr is set by init_logger and flush_logger only. *)
LEMMA TouchPtr ==
    ASSUME NEW t \in Threads, Calls(t) \/ Running(t)
    PROVE  \/ UNCHANGED ptr
           \/ init_logger(t) \/ set_bigbuffer_ptr(t) \/ DropPtr(t) \/ Close(t)
  BY Zenon DEF Calls, Running, flush_logger, Link, Create, write_comp_file_head,
         CopySize, Dest, Copy, Load, Store, LockLogger, OpenFails, DropCurr,
         WriteBlockHead, WriteBlockData, flush_self_logger, flush_all_logger, NextArea,
         append_logger, append_logger_TYPE

(* Only the copy of an append writes to a buffer. *)
LEMMA TouchBuffer ==
    ASSUME NEW t \in Threads, Calls(t) \/ Running(t)
    PROVE  \/ UNCHANGED buffer
           \/ Copy(t)
  BY Zenon DEF Calls, Running, flush_logger, Link, init_logger, Create,
         write_comp_file_head, CopySize, Dest, Load, Store, LockLogger,
         set_bigbuffer_ptr, OpenFails, DropPtr, DropCurr, WriteBlockHead,
         WriteBlockData, Close, flush_self_logger, flush_all_logger, NextArea,
         append_logger, append_logger_TYPE

(* Only init_logger and flush_logger set log_flush_mutex. *)
LEMMA TouchMutex ==
    ASSUME NEW t \in Threads, Calls(t) \/ Running(t)
    PROVE  \/ UNCHANGED mutex
           \/ init_logger(t) \/ LockLogger(t) \/ OpenFails(t) \/ Close(t)
  BY Zenon DEF Calls, Running, flush_logger, Link, Create, write_comp_file_head,
         CopySize, Dest, Copy, Load, Store, set_bigbuffer_ptr, DropPtr, DropCurr,
         WriteBlockHead, WriteBlockData, flush_self_logger, flush_all_logger, NextArea,
         append_logger, append_logger_TYPE

(* Only init_logger and flush_small_buffer write to a log. *)
LEMMA TouchFile ==
    ASSUME NEW t \in Threads, Calls(t) \/ Running(t)
    PROVE  \/ UNCHANGED file
           \/ Create(t) \/ write_comp_file_head(t) \/ WriteBlockHead(t)
           \/ WriteBlockData(t)
  BY Zenon DEF Calls, Running, flush_logger, Link, init_logger, CopySize, Dest, Copy,
         Load, Store, LockLogger, set_bigbuffer_ptr, OpenFails, DropPtr, DropCurr,
         Close, flush_self_logger, flush_all_logger, NextArea, append_logger,
         append_logger_TYPE

(* The size of an append changes at its start and at its store. *)
LEMMA TouchSize ==
    ASSUME NEW t \in Threads, Calls(t) \/ Running(t)
    PROVE  \/ UNCHANGED size
           \/ Store(t) \/ (\E n \in 1 .. MaxAppend : append_logger(t, n))
           \/ (\E n \in TypeSizes : append_logger_TYPE(t, n))
  BY Zenon DEF Calls, Running, flush_logger, Link, init_logger, Create,
         write_comp_file_head, CopySize, Dest, Copy, Load, LockLogger,
         set_bigbuffer_ptr, OpenFails, DropPtr, DropCurr, WriteBlockHead,
         WriteBlockData, Close, flush_self_logger, flush_all_logger, NextArea, app

(* What is to be copied changes before the copy and after it. *)
LEMMA TouchCpysz ==
    ASSUME NEW t \in Threads, Calls(t) \/ Running(t)
    PROVE  \/ UNCHANGED cpysz
           \/ CopySize(t) \/ Store(t)
           \/ (\E n \in TypeSizes : append_logger_TYPE(t, n))
  BY Zenon DEF Calls, Running, flush_logger, Link, init_logger, Create,
         write_comp_file_head, Dest, Copy, Load, LockLogger, set_bigbuffer_ptr,
         OpenFails, DropPtr, DropCurr, WriteBlockHead, WriteBlockData, Close,
         flush_self_logger, flush_all_logger, NextArea, append_logger, app

(* asm_curr_ptr is loaded twice by an append. *)
LEMMA TouchAddr ==
    ASSUME NEW t \in Threads, Calls(t) \/ Running(t)
    PROVE  \/ UNCHANGED addr
           \/ Dest(t) \/ Load(t) \/ Store(t)
  BY Zenon DEF Calls, Running, flush_logger, Link, init_logger, Create,
         write_comp_file_head, CopySize, Copy, LockLogger, set_bigbuffer_ptr,
         OpenFails, DropPtr, DropCurr, WriteBlockHead, WriteBlockData, Close,
         flush_self_logger, flush_all_logger, NextArea, append_logger,
         append_logger_TYPE, app

(* An append counts when asm_curr_ptr is stored. *)
LEMMA TouchPos ==
    ASSUME NEW t \in Threads, Calls(t) \/ Running(t)
    PROVE  \/ UNCHANGED pos
           \/ Store(t)
  BY Zenon DEF Calls, Running, flush_logger, Link, init_logger, Create,
         write_comp_file_head, CopySize, Dest, Copy, Load, LockLogger,
         set_bigbuffer_ptr, OpenFails, DropPtr, DropCurr, WriteBlockHead,
         WriteBlockData, Close, flush_self_logger, flush_all_logger, NextArea,
         append_logger, append_logger_TYPE, app

(* A flush begins and ends in these steps of logger.c. *)
LEMMA TouchFlushing ==
    ASSUME NEW t \in Threads, Calls(t) \/ Running(t)
    PROVE  \/ UNCHANGED flushing
           \/ Store(t) \/ DropCurr(t) \/ Close(t) \/ flush_self_logger(t)
           \/ NextArea(t) \/ (\E n \in TypeSizes : append_logger_TYPE(t, n))
  BY Zenon DEF Calls, Running, flush_logger, Link, init_logger, Create,
         write_comp_file_head, CopySize, Dest, Copy, Load, LockLogger,
         set_bigbuffer_ptr, OpenFails, DropPtr, WriteBlockHead, WriteBlockData,
         flush_all_logger, append_logger, fl

(* What a flush returns to is set by its caller. *)
LEMMA TouchThen ==
    ASSUME NEW t \in Threads, Calls(t) \/ Running(t)
    PROVE  \/ UNCHANGED then
           \/ Store(t) \/ flush_all_logger(t) \/ NextArea(t)
           \/ (\E n \in 1 .. MaxAppend : append_logger(t, n))
           \/ (\E n \in TypeSizes : append_logger_TYPE(t, n))
  BY Zenon DEF Calls, Running, flush_logger, Link, init_logger, Create,
         write_comp_file_head, CopySize, Dest, Copy, Load, LockLogger,
         set_bigbuffer_ptr, OpenFails, DropPtr, DropCurr, WriteBlockHead,
         WriteBlockData, Close, flush_self_logger, fl

(* A compressed block is local to flush_small_buffer. *)
LEMMA TouchBlock ==
    ASSUME NEW t \in Threads, Calls(t) \/ Running(t)
    PROVE  \/ UNCHANGED block
           \/ WriteBlockHead(t) \/ WriteBlockData(t)
  BY Zenon DEF Calls, Running, flush_logger, Link, init_logger, Create,
         write_comp_file_head, CopySize, Dest, Copy, Load, Store, LockLogger,
         set_bigbuffer_ptr, OpenFails, DropPtr, DropCurr, Close, flush_self_logger,
         flush_all_logger, NextArea, append_logger, append_logger_TYPE, fl

(* Only alloc_tls_area links, only flush_all_logger follows the list. *)
LEMMA TouchList ==
    ASSUME NEW t \in Threads, Calls(t) \/ Running(t)
    PROVE  \/ UNCHANGED <<tls_list, todo>>
           \/ Link(t) \/ flush_all_logger(t) \/ NextArea(t)
  BY Zenon DEF Calls, Running, flush_logger, init_logger, Create, write_comp_file_head,
         CopySize, Dest, Copy, Load, Store, LockLogger, set_bigbuffer_ptr, OpenFails,
         DropPtr, DropCurr, WriteBlockHead, WriteBlockData, Close, flush_self_logger,
         append_logger, append_logger_TYPE, tls, fl

(* What the calls of a flush and a failed open count. *)
LEMMA TouchCount ==
    ASSUME NEW t \in Threads, Calls(t) \/ Running(t)
    PROVE  \/ UNCHANGED <<calls, failed>>
           \/ flush_self_logger(t) \/ flush_all_logger(t) \/ OpenFails(t)
  BY Zenon DEF Calls, Running, flush_logger, Link, init_logger, Create,
         write_comp_file_head, CopySize, Dest, Copy, Load, Store, LockLogger,
         set_bigbuffer_ptr, DropPtr, DropCurr, WriteBlockHead, WriteBlockData, Close,
         NextArea, append_logger, append_logger_TYPE, fl

(* Only flush_all_logger keeps tls_lock over a step. *)
LEMMA TouchTlsLock ==
    ASSUME NEW t \in Threads, Calls(t) \/ Running(t)
    PROVE  \/ UNCHANGED tls_lock
           \/ flush_all_logger(t) \/ NextArea(t)
  BY Zenon DEF Calls, Running, flush_logger, Link, init_logger, Create,
         write_comp_file_head, CopySize, Dest, Copy, Load, Store, LockLogger,
         set_bigbuffer_ptr, OpenFails, DropPtr, DropCurr, WriteBlockHead,
         WriteBlockData, Close, flush_self_logger, append_logger, append_logger_TYPE,
         tls

(* A thread of a process that has ended takes no step. *)
LEMMA NotDead ==
    ASSUME NEW t \in Threads, Calls(t) \/ Running(t)
    PROVE  pc[t] # "dead"
  BY Zenon DEF Calls, Running, flush_logger, Link, init_logger, Create,
         write_comp_file_head, CopySize, Dest, Copy, Load, Store, LockLogger,
         set_bigbuffer_ptr, OpenFails, DropPtr, DropCurr, WriteBlockHead,
         WriteBlockData, Close, flush_self_logger, flush_all_logger, NextArea,
         append_logger, append_logger_TYPE, Step, Die

(* A step moves its own thread, or ends the process. *)
LEMMA PcMoves ==
    ASSUME PcOK, FlOK,
           NEW t \in Threads, Calls(t) \/ Running(t)
    PROVE  pc' = Dead \/ \E p \in PCs : pc' = [pc EXCEPT ![t] = p]
  BY Zenon DEF Calls, Running, flush_logger, Link, init_logger, Create,
         write_comp_file_head, CopySize, Dest, Copy, Load, Store, LockLogger,
         set_bigbuffer_ptr, OpenFails, DropPtr, DropCurr, WriteBlockHead,
         WriteBlockData, Close, flush_self_logger, flush_all_logger, NextArea,
         append_logger, append_logger_TYPE, Step, Die, Dead, PcOK, FlOK, PCs

(* Every step of logger.c goes to one of PCs. *)
LEMMA PcStep ==
    ASSUME PcOK, FlOK,
           NEW t \in Threads, Calls(t) \/ Running(t)
    PROVE  PcOK'
  <1>1. CASE pc' = Dead
    <2>1. "dead" \in PCs
      BY DEF PCs
    <2> QED
      BY <1>1, <2>1, Zenon DEF PcOK, Dead
  <1>2. ASSUME NEW p \in PCs, pc' = [pc EXCEPT ![t] = p]
        PROVE  PcOK'
    BY <1>2, Zenon DEF PcOK
  <1> QED
    BY <1>1, <1>2, PcMoves, Zenon

(* A function keeps its type when it is updated, as one field of a         *)
(* thread's area is by every step of logger.c.                             *)
LEMMA Update ==
    ASSUME NEW S, NEW D, NEW f \in [D -> S], NEW d, NEW v \in S
    PROVE  [f EXCEPT ![d] = v] \in [D -> S]
  BY Zenon

(* asm_curr_ptr, bb.ptr and what append_logger computes stay numbers. *)
LEMMA RegStep ==
    ASSUME RegOK, FlushInv, CursorInv,
           NEW t \in Threads, Calls(t) \/ Running(t)
    PROVE  RegOK'
  <1>1. ASM_BASE \in Nat /\ 0 \in Nat
    BY LoggerAssumption
  <1>2. addr[t] + cpysz[t] \in Nat /\ pos[t] + cpysz[t] \in Nat
    BY DEF RegOK
  <1>3. curr' \in [Threads -> Nat]
    <2>1. curr \in [Threads -> Nat]
      BY DEF RegOK
    <2>2. \/ curr' = curr
          \/ \E d : curr' = [curr EXCEPT ![d] = ASM_BASE]
          \/ \E d : curr' = [curr EXCEPT ![d] = addr[t] + cpysz[t]]
      BY TouchCurr, Zenon DEF init_logger, Store, DropCurr, Close, AfterFlush
    <2> QED
      BY <1>1, <1>2, <2>1, <2>2, Update, Zenon
  <1>4. ptr' \in [Threads -> Nat]
    <2>1. ptr \in [Threads -> Nat]
      BY DEF RegOK
    <2>2. CASE set_bigbuffer_ptr(t)
      <3>1. curr[flushing[t]] \in Nat
        BY <2>2, Zenon DEF set_bigbuffer_ptr, Step, Die, FlushInv, FlushAt, Flushing, RegOK
      <3>2. CurrOffset(flushing[t]) \in Nat
        BY <3>1, OffsetFact DEF CurrOffset
      <3> QED
        BY <2>1, <2>2, <3>2, Update, Zenon DEF set_bigbuffer_ptr
    <2>3. CASE ~set_bigbuffer_ptr(t)
      <3>1. ptr' = ptr \/ \E d : ptr' = [ptr EXCEPT ![d] = 0]
        BY <2>3, TouchPtr, Zenon DEF init_logger, DropPtr, Close
      <3> QED
        BY <1>1, <2>1, <3>1, Update, Zenon
    <2> QED
      BY <2>2, <2>3
  <1>5. size' \in [Threads -> Nat]
    <2>1. size \in [Threads -> Nat]
      BY DEF RegOK
    <2>2. CASE Store(t)
      <3>1. size[t] \in Nat /\ cpysz[t] \in Nat
        BY DEF RegOK
      <3>2. size[t] >= cpysz[t]
        BY <2>2, <3>1 DEF Store
      <3>3. size[t] - cpysz[t] \in Nat
        BY <3>1, <3>2
      <3> QED
        BY <2>1, <2>2, <3>3, Update, Zenon DEF Store
    <2>3. ASSUME NEW n \in 1 .. MaxAppend, append_logger(t, n)
          PROVE  size' \in [Threads -> Nat]
      BY <2>1, <2>3, Update, LoggerAssumption DEF append_logger
    <2>4. ASSUME NEW n \in TypeSizes, append_logger_TYPE(t, n)
          PROVE  size' \in [Threads -> Nat]
      BY <2>1, <2>4, Update, TypeSizesFact, Zenon DEF append_logger_TYPE
    <2> QED
      BY <2>1, <2>2, <2>3, <2>4, TouchSize, Zenon
  <1>6. cpysz' \in [Threads -> Nat]
    <2>1. cpysz \in [Threads -> Nat]
      BY DEF RegOK
    <2>2. CASE CopySize(t)
      <3>1. curr[t] \in ASM_BASE .. asm_end_ptr
        BY <2>2 DEF CopySize, Step, CursorInv, CursorAt
      <3>2. curr[t] \in Nat /\ size[t] \in Nat
        BY DEF RegOK
      <3>3. (IF Aval(t) > size[t] THEN size[t] ELSE Aval(t)) \in Nat
        BY <3>1, <3>2, LoggerAssumption DEF Aval, asm_end_ptr
      <3> QED
        BY <2>1, <2>2, <3>3, Update, Zenon DEF CopySize
    <2>3. CASE Store(t)
      BY <1>1, <2>1, <2>3, Update, Zenon DEF Store
    <2>4. ASSUME NEW n \in TypeSizes, append_logger_TYPE(t, n)
          PROVE  cpysz' \in [Threads -> Nat]
      BY <2>1, <2>4, Update, TypeSizesFact, Zenon DEF append_logger_TYPE
    <2> QED
      BY <2>1, <2>2, <2>3, <2>4, TouchCpysz, Zenon
  <1>7. addr' \in [Threads -> Nat]
    <2>1. addr \in [Threads -> Nat] /\ curr[t] \in Nat
      BY DEF RegOK
    <2>2. \/ addr' = addr
          \/ addr' = [addr EXCEPT ![t] = curr[t]]
          \/ addr' = [addr EXCEPT ![t] = 0]
      BY TouchAddr, Zenon DEF Dest, Load, Store
    <2> QED
      BY <1>1, <2>1, <2>2, Update, Zenon
  <1>8. pos' \in [Threads -> Nat]
    <2>1. pos \in [Threads -> Nat]
      BY DEF RegOK
    <2>2. pos' = pos \/ pos' = [pos EXCEPT ![t] = pos[t] + cpysz[t]]
      BY TouchPos, Zenon DEF Store
    <2> QED
      BY <1>2, <2>1, <2>2, Update, Zenon
  <1> QED
    BY <1>3, <1>4, <1>5, <1>6, <1>7, <1>8 DEF RegOK

(* flush_logger is called for a thread of tls_list, and knows its caller. *)
LEMMA FlStep ==
    ASSUME FlOK, TodoOK,
           NEW t \in Threads, Calls(t) \/ Running(t)
    PROVE  FlOK'
  <1>1. flushing' \in [Threads -> Threads \cup {NoThread}]
    <2>1. flushing \in [Threads -> Threads \cup {NoThread}]
      BY DEF FlOK
    <2>2. \/ flushing' = flushing
          \/ flushing' = [flushing EXCEPT ![t] = t]
          \/ flushing' = [flushing EXCEPT ![t] = NoThread]
          \/ todo[t] # <<>> /\ flushing' = [flushing EXCEPT ![t] = Head(todo[t])]
      BY TouchFlushing, Zenon DEF Store, DropCurr, Close, flush_self_logger, NextArea,
                                  append_logger_TYPE
    <2>3. CASE todo[t] # <<>> /\ flushing' = [flushing EXCEPT ![t] = Head(todo[t])]
      <3>1. Head(todo[t]) \in Threads \cup {NoThread}
        BY <2>3 DEF TodoOK
      <3> QED
        BY <2>1, <2>3, <3>1, Update, Zenon
    <2>4. t \in Threads \cup {NoThread} /\ NoThread \in Threads \cup {NoThread}
      OBVIOUS
    <2> QED
      BY <2>1, <2>2, <2>3, <2>4, Update, Zenon
  <1>2. then' \in [Threads -> {"idle", "avail", "dest", "nextarea"}]
    <2>1. then \in [Threads -> {"idle", "avail", "dest", "nextarea"}]
      BY DEF FlOK
    <2>2. \/ then' = then
          \/ \E v \in {"idle", "avail", "dest", "nextarea"} : then' = [then EXCEPT ![t] = v]
      BY TouchThen, Zenon DEF Store, flush_all_logger, NextArea, append_logger,
                              append_logger_TYPE
    <2> QED
      BY <2>1, <2>2, Update, Zenon
  <1> QED
    BY <1>1, <1>2 DEF FlOK

(* A step of one thread leaves the pc and the registers of the others      *)
(* alone, if it does not end the process.                                  *)
LEMMA Frame ==
    ASSUME PcOK, RegOK, FlOK, pc' # Dead,
           NEW t \in Threads, Calls(t) \/ Running(t), NEW u \in Threads \ {t}
    PROVE  Kept(u)
  <1>1. pc'[u] = pc[u]
    BY PcMoves, Zenon DEF PcOK
  <1>2. flushing'[u] = flushing[u]
    <2>1. flushing' = flushing \/ \E v : flushing' = [flushing EXCEPT ![t] = v]
      <3>1. CASE Store(t)
        BY <3>1, Zenon DEF Store
      <3>2. CASE DropCurr(t)
        BY <3>2, Zenon DEF DropCurr
      <3>3. CASE Close(t)
        BY <3>3, Zenon DEF Close
      <3>4. CASE flush_self_logger(t)
        BY <3>4, Zenon DEF flush_self_logger
      <3>5. CASE NextArea(t)
        BY <3>5, Zenon DEF NextArea
      <3>6. CASE \E n \in TypeSizes : append_logger_TYPE(t, n)
        BY <3>6, Zenon DEF append_logger_TYPE
      <3> QED
        BY <3>1, <3>2, <3>3, <3>4, <3>5, <3>6, TouchFlushing, Zenon
    <2> QED
      BY <2>1, Zenon DEF FlOK
  <1>3. then'[u] = then[u]
    <2>1. then' = then \/ \E v : then' = [then EXCEPT ![t] = v]
      <3>1. CASE Store(t)
        BY <3>1, Zenon DEF Store
      <3>2. CASE flush_all_logger(t)
        BY <3>2, Zenon DEF flush_all_logger
      <3>3. CASE NextArea(t)
        BY <3>3, Zenon DEF NextArea
      <3>4. CASE \E n \in 1 .. MaxAppend : append_logger(t, n)
        BY <3>4, Zenon DEF append_logger
      <3>5. CASE \E n \in TypeSizes : append_logger_TYPE(t, n)
        BY <3>5, Zenon DEF append_logger_TYPE
      <3> QED
        BY <3>1, <3>2, <3>3, <3>4, <3>5, TouchThen, Zenon
    <2> QED
      BY <2>1, Zenon DEF FlOK
  <1>4. size'[u] = size[u]
    <2>1. size' = size \/ \E v : size' = [size EXCEPT ![t] = v]
      <3>1. CASE Store(t)
        BY <3>1, Zenon DEF Store
      <3>2. CASE \E n \in 1 .. MaxAppend : append_logger(t, n)
        BY <3>2, Zenon DEF append_logger
      <3>3. CASE \E n \in TypeSizes : append_logger_TYPE(t, n)
        BY <3>3, Zenon DEF append_logger_TYPE
      <3> QED
        BY <3>1, <3>2, <3>3, TouchSize, Zenon
    <2> QED
      BY <2>1, Zenon DEF RegOK
  <1>5. cpysz'[u] = cpysz[u]
    <2>1. cpysz' = cpysz \/ \E v : cpysz' = [cpysz EXCEPT ![t] = v]
      <3>1. CASE CopySize(t)
        BY <3>1, Zenon DEF CopySize
      <3>2. CASE Store(t)
        BY <3>2, Zenon DEF Store
      <3>3. CASE \E n \in TypeSizes : append_logger_TYPE(t, n)
        BY <3>3, Zenon DEF append_logger_TYPE
      <3> QED
        BY <3>1, <3>2, <3>3, TouchCpysz, Zenon
    <2> QED
      BY <2>1, Zenon DEF RegOK
  <1>6. addr'[u] = addr[u]
    <2>1. addr' = addr \/ \E v : addr' = [addr EXCEPT ![t] = v]
      <3>1. CASE Dest(t)
        BY <3>1, Zenon DEF Dest
      <3>2. CASE Load(t)
        BY <3>2, Zenon DEF Load
      <3>3. CASE Store(t)
        BY <3>3, Zenon DEF Store
      <3> QED
        BY <3>1, <3>2, <3>3, TouchAddr, Zenon
    <2> QED
      BY <2>1, Zenon DEF RegOK
  <1> QED
    BY <1>1, <1>2, <1>3, <1>4, <1>5, <1>6 DEF Kept

(* Every step leaves the mutexes free or locked. *)
LEMMA FlagsStep ==
    ASSUME FlagsOK,
           NEW t \in Threads, Calls(t) \/ Running(t)
    PROVE  FlagsOK'
  <1>1. mutex' \in [Threads -> BOOLEAN]
    <2>1. \/ mutex' = mutex
          \/ \E d : mutex' = [mutex EXCEPT ![d] = FALSE]
          \/ \E d : mutex' = [mutex EXCEPT ![d] = TRUE]
      BY TouchMutex, Zenon DEF init_logger, LockLogger, OpenFails, Close, AfterFailure
    <2> QED
      BY <2>1, Zenon DEF FlagsOK
  <1>2. tls_lock' \in BOOLEAN
    BY TouchTlsLock, Zenon DEF FlagsOK, flush_all_logger, NextArea
  <1> QED
    BY <1>1, <1>2 DEF FlagsOK

(* A thread that calls flush_logger, or goes on in it or after it, keeps   *)
(* FlushAt.                                                                *)
LEMMA FlushOwn ==
    ASSUME PcOK, RegOK, FlOK, TodoOK, FlushInv, pc' # Dead,
           NEW t \in Threads, Calls(t) \/ Running(t)
    PROVE  FlushAt(t)'
  <1>0. FlushAt(t) /\ pc[t] \in PCs
    BY DEF FlushInv, PcOK
  <1>1. CASE CopySize(t)
    <2>1. /\ pc[t] = "avail"
          /\ pc'[t] = "dest"
          /\ flushing'[t] = flushing[t] /\ then'[t] = then[t]
          /\ size'[t] = size[t]
      BY <1>1, Zenon DEF CopySize, Step, Die, Dead, PcOK, RegOK, FlOK, app, fl
    <2> QED
      BY <1>0, <2>1 DEF FlushAt, Flushing, Copying, Initialising
  <1>2. CASE Store(t)
    <2>0. pc[t] = "store" /\ cpysz[t] \in Nat
      BY <1>2, Zenon DEF Store, Step, RegOK
    <2>1. \/ /\ pc'[t] = "lock" /\ flushing'[t] = t /\ then'[t] = then[t]
             /\ size[t] > cpysz[t]
          \/ pc'[t] = "idle" /\ then'[t] = "idle" /\ flushing'[t] = flushing[t]
      BY <1>2 DEF Store, Step, PcOK, FlOK
    <2>2. then[t] = "dest" => size[t] = cpysz[t]
      BY <1>0, <2>0 DEF FlushAt, Copying
    <2>3. ~(size[t] > cpysz[t] /\ size[t] = cpysz[t])
      BY <2>0
    <2> QED
      BY <1>0, <2>0, <2>1, <2>2, <2>3 DEF FlushAt, Flushing, Copying, Initialising
  <1>3. CASE DropCurr(t)
    <2>1. /\ pc[t] = "dropcurr"
          /\ pc'[t] = then[t]
          /\ flushing'[t] = NoThread /\ then'[t] = then[t]
          /\ cpysz'[t] = cpysz[t] /\ size'[t] = size[t]
      BY <1>3, Zenon DEF DropCurr, Step, Die, Dead, PcOK, RegOK, FlOK, app, fl
    <2>2. then[t] \in {"idle", "avail", "dest", "nextarea"}
      BY DEF FlOK
    <2> QED
      BY <1>0, <2>1, <2>2 DEF FlushAt, Flushing, Copying, Initialising
  <1>4. CASE Close(t)
    <2>1. /\ pc[t] = "close"
          /\ pc'[t] = then[t]
          /\ flushing'[t] = NoThread /\ then'[t] = then[t]
          /\ cpysz'[t] = cpysz[t] /\ size'[t] = size[t]
      BY <1>4, Zenon DEF Close, Step, Die, Dead, PcOK, RegOK, FlOK, app, fl
    <2>2. then[t] \in {"idle", "avail", "dest", "nextarea"}
      BY DEF FlOK
    <2> QED
      BY <1>0, <2>1, <2>2 DEF FlushAt, Flushing, Copying, Initialising
  <1>5. CASE flush_self_logger(t)
    <2>1. /\ pc[t] = "idle"
          /\ pc'[t] = "lock"
          /\ flushing'[t] = t /\ then'[t] = then[t]
          /\ cpysz'[t] = cpysz[t] /\ size'[t] = size[t]
      BY <1>5, Zenon DEF flush_self_logger, Step, Die, Dead, PcOK, RegOK, FlOK, app, fl
    <2> QED
      BY <1>0, <2>1 DEF FlushAt, Flushing, Copying, Initialising
  <1>6. CASE flush_all_logger(t)
    <2>1. /\ pc[t] = "idle"
          /\ pc'[t] = "nextarea"
          /\ flushing'[t] = flushing[t] /\ then'[t] = "nextarea"
          /\ cpysz'[t] = cpysz[t] /\ size'[t] = size[t]
      BY <1>6, Zenon DEF flush_all_logger, Step, Die, Dead, PcOK, RegOK, FlOK, app, fl
    <2> QED
      BY <1>0, <2>1 DEF FlushAt, Flushing, Copying, Initialising
  <1>7. CASE NextArea(t)
    <2>1. \/ /\ pc'[t] = "lock" /\ then'[t] = then[t] /\ todo[t] # <<>>
             /\ flushing'[t] = Head(todo[t])
          \/ pc'[t] = "idle" /\ then'[t] = "idle" /\ flushing'[t] = flushing[t]
      BY <1>7 DEF NextArea, Step, PcOK, FlOK
    <2>2. pc[t] = "nextarea" /\ (todo[t] # <<>> => Head(todo[t]) \in Threads)
      BY <1>7 DEF NextArea, Step, TodoOK
    <2> QED
      BY <1>0, <2>1, <2>2 DEF FlushAt, Flushing, Copying, Initialising
  <1>8. ASSUME NEW n \in 1 .. MaxAppend, append_logger(t, n)
        PROVE  FlushAt(t)'
    <2>1. /\ pc[t] = "idle"
          /\ pc'[t] = "avail"
          /\ flushing'[t] = flushing[t] /\ then'[t] = "avail"
          /\ cpysz'[t] = cpysz[t] /\ size'[t] = n
      BY <1>8, Zenon DEF append_logger, Step, Die, Dead, PcOK, RegOK, FlOK, app, fl
    <2> QED
      BY <1>0, <2>1 DEF FlushAt, Flushing, Copying, Initialising
  <1>9. ASSUME NEW n \in TypeSizes, append_logger_TYPE(t, n)
        PROVE  FlushAt(t)'
    <2>1. \/ pc'[t] = "lock" /\ flushing'[t] = t
          \/ pc'[t] = "dest" /\ flushing'[t] = flushing[t]
      BY <1>9 DEF append_logger_TYPE, Step, PcOK, FlOK
    <2>2. /\ pc[t] = "idle" /\ then'[t] = "dest" /\ cpysz'[t] = n /\ size'[t] = n
      BY <1>9, Zenon DEF append_logger_TYPE, Step, RegOK, FlOK
    <2> QED
      BY <1>0, <2>1, <2>2 DEF FlushAt, Flushing, Copying, Initialising
  <1>10. CASE ~(\/ CopySize(t) \/ Store(t) \/ DropCurr(t) \/ Close(t)
               \/ flush_self_logger(t) \/ flush_all_logger(t) \/ NextArea(t)
               \/ (\E n \in 1 .. MaxAppend : append_logger(t, n))
               \/ (\E n \in TypeSizes : append_logger_TYPE(t, n)))
    <2>1. \/ pc[t] \in Flushing /\ pc'[t] \in Flushing
          \/ pc[t] \in Copying /\ pc'[t] \in Copying
          \/ pc[t] \in Initialising /\ pc'[t] \in Initialising \cup {"idle"}
      BY <1>10, Zenon DEF Calls, Running, flush_logger, Link, init_logger, Create,
             write_comp_file_head, Dest, Copy, Load, LockLogger, set_bigbuffer_ptr,
             OpenFails, DropPtr, WriteBlockHead, WriteBlockData, Step, Die, Dead, PcOK,
             Flushing, Copying, Initialising
    <2>2. flushing'[t] = flushing[t] /\ then'[t] = then[t]
      BY <1>10, TouchFlushing, TouchThen, Zenon
    <2>3. size'[t] = size[t] /\ cpysz'[t] = cpysz[t]
      BY <1>10, TouchSize, TouchCpysz, Zenon
    <2> QED
      BY <1>0, <2>1, <2>2, <2>3 DEF FlushAt, Flushing, Copying, Initialising
  <1> QED
    BY <1>1, <1>2, <1>3, <1>4, <1>5, <1>6, <1>7, <1>8, <1>9, <1>10, Zenon

(* Every step keeps FlushInv. *)
LEMMA FlushStep ==
    ASSUME PcOK, RegOK, FlOK, TodoOK, FlushInv,
           NEW t \in Threads, Calls(t) \/ Running(t)
    PROVE  FlushInv'
  <1>1. CASE pc' = Dead
    <2>1. \A u \in Threads : pc'[u] = "dead"
      BY <1>1 DEF Dead
    <2> QED
      BY <2>1 DEF FlushInv, FlushAt, Flushing, Copying, Initialising
  <1>2. CASE pc' # Dead
    <2>1. \A u \in Threads \ {t} : Kept(u)
      BY <1>2, Frame
    <2>2. ASSUME NEW u \in Threads \ {t}
          PROVE  FlushAt(u)'
      <3>1. /\ pc'[u] = pc[u] /\ flushing'[u] = flushing[u] /\ then'[u] = then[u]
            /\ size'[u] = size[u] /\ cpysz'[u] = cpysz[u]
        BY <2>1, Zenon DEF Kept
      <3>2. FlushAt(u)
        BY DEF FlushInv
      <3> QED
        BY <3>1, <3>2, Zenon DEF FlushAt
    <2>3. FlushAt(t)'
      BY <1>2, FlushOwn
    <2> QED
      BY <2>2, <2>3, Zenon DEF FlushInv
  <1> QED
    BY <1>1, <1>2

(* A step of append_logger, append_logger_TYPE or flush_logger keeps the   *)
(* room its own thread has found.                                          *)
LEMMA CursorOwn ==
    ASSUME PcOK, RegOK, FlOK, FlushInv, CursorInv, pc' # Dead,
           NEW t \in Threads, Calls(t) \/ Running(t)
    PROVE  CursorAt(t)'
  <1>0. CursorAt(t)
    BY DEF CursorInv
  <1>00. /\ curr[t] \in Nat /\ cpysz[t] \in Nat /\ addr[t] \in Nat
         /\ ASM_BASE \in Nat /\ asm_end_ptr \in Nat /\ ASM_BASE <= asm_end_ptr
    BY LoggerAssumption DEF RegOK, asm_end_ptr
  <1>1. CASE init_logger(t)
    <2>1. /\ pc[t] = "linked"
          /\ pc'[t] = "create"
          /\ curr'[t] = ASM_BASE /\ cpysz'[t] = cpysz[t] /\ addr'[t] = addr[t]
      BY <1>1, Zenon DEF init_logger, Step, Die, Dead, PcOK, RegOK, app, fl
    <2> QED
      BY <1>0, <1>00, <2>1 DEF CursorAt, Copying
  <1>2. CASE CopySize(t)
    <2>1. /\ pc[t] = "avail"
          /\ pc'[t] = "dest"
          /\ curr'[t] = curr[t] /\ cpysz'[t] = (IF Aval(t) > size[t] THEN size[t] ELSE Aval(t)) /\ addr'[t] = addr[t]
      BY <1>2, Zenon DEF CopySize, Step, Die, Dead, PcOK, RegOK, app, fl
    <2>2. Aval(t) = asm_end_ptr - curr[t]
      BY DEF Aval
    <2>3. size[t] \in Nat
      BY DEF RegOK
    <2> QED
      BY <1>0, <1>00, <2>1, <2>2, <2>3 DEF CursorAt, Copying
  <1>3. CASE Dest(t)
    <2>1. /\ pc[t] = "dest"
          /\ pc'[t] = "copy"
          /\ curr'[t] = curr[t] /\ cpysz'[t] = cpysz[t] /\ addr'[t] = curr[t]
      BY <1>3, Zenon DEF Dest, Step, Die, Dead, PcOK, RegOK, app, fl
    <2> QED
      BY <1>0, <1>00, <2>1 DEF CursorAt, Copying
  <1>4. CASE Load(t)
    <2>1. /\ pc[t] = "load" /\ pc'[t] = "store" /\ curr'[t] = curr[t] /\ cpysz'[t] = cpysz[t]
          /\ addr'[t] = addr[t] \/ addr'[t] = curr[t]
      BY <1>4, Zenon DEF Load, Step, PcOK, RegOK
    <2> QED
      BY <1>0, <1>00, <2>1 DEF CursorAt, Copying
  <1>5. CASE Store(t)
    <2>1. /\ pc[t] = "store"
          /\ pc'[t] = "lock" \/ pc'[t] = "idle"
          /\ curr'[t] = addr[t] + cpysz[t]
      BY <1>5, Zenon DEF Store, Step, PcOK, RegOK
    <2> QED
      BY <1>0, <1>00, <2>1 DEF CursorAt, Copying
  <1>6. CASE DropCurr(t)
    <2>1. /\ pc[t] = "dropcurr"
          /\ pc'[t] = then[t]
          /\ curr'[t] \in {curr[t], ASM_BASE} /\ cpysz'[t] = cpysz[t] /\ addr'[t] = addr[t]
      BY <1>6, Zenon DEF DropCurr, Step, Die, Dead, PcOK, RegOK, app, fl
    <2>2. /\ then[t] \in {"idle", "avail", "dest", "nextarea"}
          /\ pc[t] \in Flushing
      BY <2>1 DEF FlOK, Flushing
    <2>3. then[t] = "dest" => flushing[t] = t /\ cpysz[t] \in TypeSizes
      BY <2>2 DEF FlushInv, FlushAt
    <2>4. flushing[t] = t => curr'[t] = ASM_BASE
      BY <1>6, <2>1, Zenon DEF DropCurr, Step, Die, Dead, RegOK
    <2>5. then[t] = "dest" => ASM_BASE + cpysz'[t] <= asm_end_ptr
      BY <2>1, <2>3, TypeSizesFact
    <2>6. pc'[t] = "dest" => curr'[t] + cpysz'[t] <= asm_end_ptr
      BY <2>1, <2>3, <2>4, <2>5
    <2>7. curr'[t] \in ASM_BASE .. asm_end_ptr
      BY <1>0, <1>00, <2>1 DEF CursorAt
    <2>8. pc'[t] \in {"idle", "avail", "dest", "nextarea"}
      BY <2>1, <2>2
    <2> QED
      BY <1>00, <2>6, <2>7, <2>8 DEF CursorAt, Copying
  <1>7. CASE Close(t)
    <2>1. /\ pc[t] = "close"
          /\ pc'[t] = then[t]
          /\ curr'[t] \in {curr[t], ASM_BASE} /\ cpysz'[t] = cpysz[t] /\ addr'[t] = addr[t]
      BY <1>7, Zenon DEF Close, Step, Die, Dead, PcOK, RegOK, app, fl, AfterFlush
    <2>2. /\ then[t] \in {"idle", "avail", "dest", "nextarea"}
          /\ pc[t] \in Flushing
      BY <2>1 DEF FlOK, Flushing
    <2>3. then[t] = "dest" => flushing[t] = t /\ cpysz[t] \in TypeSizes
      BY <2>2 DEF FlushInv, FlushAt
    <2>4. flushing[t] = t => curr'[t] = ASM_BASE
      BY <1>7, <2>1, Zenon DEF Close, AfterFlush, Step, Die, Dead, RegOK
    <2>5. then[t] = "dest" => ASM_BASE + cpysz'[t] <= asm_end_ptr
      BY <2>1, <2>3, TypeSizesFact
    <2>6. pc'[t] = "dest" => curr'[t] + cpysz'[t] <= asm_end_ptr
      BY <2>1, <2>3, <2>4, <2>5
    <2>7. curr'[t] \in ASM_BASE .. asm_end_ptr
      BY <1>0, <1>00, <2>1 DEF CursorAt
    <2>8. pc'[t] \in {"idle", "avail", "dest", "nextarea"}
      BY <2>1, <2>2
    <2> QED
      BY <1>00, <2>6, <2>7, <2>8 DEF CursorAt, Copying
  <1>8. ASSUME NEW n \in TypeSizes, append_logger_TYPE(t, n)
        PROVE  CursorAt(t)'
    <2>3. pc[t] = "idle" /\ curr'[t] = curr[t] /\ cpysz'[t] = n
      BY <1>8, Zenon DEF append_logger_TYPE, Step, RegOK
    <2>1. pc'[t] = "lock" \/ (pc'[t] = "dest" /\ curr[t] + n <= asm_end_ptr)
      BY <1>8 DEF append_logger_TYPE, Step, PcOK
    <2>2. n \in Nat
      BY TypeSizesFact
    <2> QED
      BY <1>0, <1>00, <2>1, <2>2, <2>3 DEF CursorAt, Copying
  <1>9. CASE ~(\/ init_logger(t) \/ CopySize(t) \/ Dest(t) \/ Load(t) \/ Store(t)
              \/ DropCurr(t) \/ Close(t)
              \/ (\E n \in TypeSizes : append_logger_TYPE(t, n)))
    <2>1. \/ pc'[t] = "linked" \/ (pc[t] = "copy" /\ pc'[t] = "load")
          \/ pc[t] \notin {"start", "linked", "dead"} /\ pc'[t] \notin Copying
      BY <1>9, Zenon DEF Calls, Running, flush_logger, Link, Create,
             write_comp_file_head, Copy, LockLogger, set_bigbuffer_ptr, OpenFails,
             DropPtr, WriteBlockHead, WriteBlockData, flush_self_logger,
             flush_all_logger, NextArea, append_logger, Step, Die, Dead, PcOK, Copying
    <2>2. curr'[t] = curr[t] /\ cpysz'[t] = cpysz[t] /\ addr'[t] = addr[t]
      BY <1>9, TouchCurr, TouchCpysz, TouchAddr, Zenon
    <2> QED
      BY <1>0, <1>00, <2>1, <2>2 DEF CursorAt, Copying
  <1> QED
    BY <1>1, <1>2, <1>3, <1>4, <1>5, <1>6, <1>7, <1>8, <1>9, Zenon

(* Another thread moves asm_curr_ptr only back to the start of the buffer, *)
(* whatever it flushes.                                                    *)
LEMMA CurrOthers ==
    ASSUME RegOK, NEW t \in Threads, Calls(t) \/ Running(t), NEW u \in Threads \ {t}
    PROVE  curr'[u] \in {curr[u], ASM_BASE}
  <1>1. \/ curr' = curr
        \/ \E d : curr' = [curr EXCEPT ![d] = ASM_BASE]
        \/ curr' = [curr EXCEPT ![t] = addr[t] + cpysz[t]]
    BY TouchCurr, Zenon DEF init_logger, Store, DropCurr, Close, AfterFlush
  <1> QED
    BY <1>1, Zenon DEF RegOK

(* Every step keeps CursorInv. *)
LEMMA CursorStep ==
    ASSUME PcOK, RegOK, FlOK, FlushInv, CursorInv,
           NEW t \in Threads, Calls(t) \/ Running(t)
    PROVE  CursorInv'
  <1>1. CASE pc' = Dead
    <2>1. \A u \in Threads : pc'[u] = "dead"
      BY <1>1 DEF Dead
    <2> QED
      BY <2>1 DEF CursorInv, CursorAt, Copying
  <1>2. CASE pc' # Dead
    <2>1. ASSUME NEW u \in Threads \ {t}
          PROVE  CursorAt(u)'
      <3>1. pc'[u] = pc[u] /\ cpysz'[u] = cpysz[u] /\ addr'[u] = addr[u]
        BY <1>2, Frame, Zenon DEF Kept
      <3>2. curr'[u] \in {curr[u], ASM_BASE}
        BY CurrOthers
      <3>3. CursorAt(u)
        BY DEF CursorInv
      <3>4. /\ curr[u] \in Nat /\ cpysz[u] \in Nat /\ addr[u] \in Nat
            /\ ASM_BASE \in Nat /\ asm_end_ptr \in Nat /\ ASM_BASE <= asm_end_ptr
        BY LoggerAssumption DEF RegOK, asm_end_ptr
      <3> QED
        BY <3>1, <3>2, <3>3, <3>4 DEF CursorAt, Copying
    <2>2. CursorAt(t)'
      BY <1>2, CursorOwn
    <2> QED
      BY <2>1, <2>2, Zenon DEF CursorInv
  <1> QED
    BY <1>1, <1>2

(* Every step keeps PtrInv: the assertion of set_bigbuffer_ptr guards it. *)
LEMMA PtrStep ==
    ASSUME RegOK, PtrInv,
           NEW t \in Threads, Calls(t) \/ Running(t)
    PROVE  PtrInv'
  <1> SUFFICES ASSUME pc' # Dead, NEW l \in Threads PROVE ptr'[l] < BIGBUFFER_SZ
    BY Zenon DEF PtrInv
  <1>1. ptr[l] < BIGBUFFER_SZ
    BY NotDead DEF PtrInv, Dead
  <1>2. 0 < BIGBUFFER_SZ
    BY LoggerAssumption
  <1>3. CASE set_bigbuffer_ptr(t)
    BY <1>1, <1>3, Zenon DEF set_bigbuffer_ptr, RegOK, Step, Die, Dead
  <1>4. CASE ~set_bigbuffer_ptr(t)
    <2>1. ptr' = ptr \/ \E d : ptr' = [ptr EXCEPT ![d] = 0]
      BY <1>4, TouchPtr, Zenon DEF init_logger, DropPtr, Close
    <2> QED
      BY <1>1, <1>2, <2>1, Zenon DEF RegOK
  <1> QED
    BY <1>3, <1>4

(* What flush_small_buffer compresses are bb.ptr bytes. *)
LEMMA BlockFact ==
    ASSUME NEW n \in Nat, n < BIGBUFFER_SZ, NEW f \in [Offsets -> Int]
    PROVE  /\ [i \in 1 .. n |-> f[i - 1]] \in Seq(Int)
           /\ Len([i \in 1 .. n |-> f[i - 1]]) = n
  <1>1. \A i \in 1 .. n : f[i - 1] \in Int
    BY LoggerAssumption DEF Offsets
  <1> QED
    BY <1>1

(* What the writes of flush_small_buffer and write_comp_file_head add to a *)
(* log.                                                                    *)
LEMMA ItemFact ==
    /\ Item("filehead", 0, <<>>) \in Items
    /\ \A n \in Nat : Item("head", n, <<>>) \in Items
    /\ \A b \in Seq(Int) : Item("data", 0, b) \in Items
  BY DEF Item, Items

(* Every item that is appended leaves a log a log. *)
LEMMA AppendItem ==
    ASSUME NEW s \in Seq(Items), NEW x \in Items
    PROVE  Append(s, x) \in Seq(Items)
  OBVIOUS

(* The empty sequence is one of everything. *)
LEMMA NoneFact == /\ <<>> \in Seq(Items) /\ <<>> \in Seq(Int)
  OBVIOUS

(* Copies keep the buffers: bytes at each offset. *)
LEMMA BufferStep ==
    ASSUME RegOK, BufferOK,
           NEW t \in Threads, Calls(t) \/ Running(t)
    PROVE  BufferOK'
  <1>1. CASE Copy(t)
    <2> DEFINE first == addr[t] - ASM_BASE
              b == [i \in Offsets |-> IF i \in first .. first + cpysz[t] - 1
                                      THEN pos[t] + (i - first) ELSE buffer[t][i]]
    <2>1. /\ first \in Int /\ pos[t] \in Int
          /\ \A i \in Offsets : i \in Int /\ buffer[t][i] \in Int
      BY LoggerAssumption DEF RegOK, BufferOK, Offsets
    <2>2. b \in [Offsets -> Int]
      <3>1. ASSUME NEW i \in Offsets
            PROVE  b[i] \in Int
        <4> HIDE DEF first
        <4>1. pos[t] + (i - first) \in Int /\ buffer[t][i] \in Int
          BY <2>1
        <4> QED
          BY <4>1, Zenon
      <3> HIDE DEF first
      <3> QED
        BY <3>1, Zenon
    <2>3. buffer' = [buffer EXCEPT ![t] = b]
      BY <1>1 DEF Copy
    <2> HIDE DEF b
    <2> QED
      BY <2>2, <2>3, Update, Zenon DEF BufferOK
  <1>2. CASE UNCHANGED buffer
    BY <1>2, Zenon DEF BufferOK
  <1> QED
    BY <1>1, <1>2, TouchBuffer, Zenon

(* A log stays a sequence of items. *)
LEMMA FileTypeStep ==
    ASSUME RegOK, FlushInv, FileOK, BlockOK,
           NEW t \in Threads, Calls(t) \/ Running(t)
    PROVE  FileOK'
  <1>1. CASE Create(t)
    <2>1. file' = file \/ file' = [file EXCEPT ![t] = <<>>]
      BY <1>1 DEF Create
    <2> QED
      BY <2>1, NoneFact, Update, Zenon DEF FileOK
  <1>2. CASE write_comp_file_head(t)
    <2>1. \/ file' = file
          \/ file' = [file EXCEPT ![t] = Append(file[t], Item("filehead", 0, <<>>))]
      BY <1>2, Zenon DEF write_comp_file_head
    <2>2. Append(file[t], Item("filehead", 0, <<>>)) \in Seq(Items)
      BY ItemFact, AppendItem, Zenon DEF FileOK
    <2> QED
      BY <2>1, <2>2, Update, Zenon DEF FileOK
  <1>3. CASE WriteBlockHead(t)
    <2> DEFINE l == flushing[t]
    <2>1. l \in Threads /\ ptr[l] \in Nat
      BY <1>3, Zenon DEF WriteBlockHead, Step, Die, FlushInv, FlushAt, Flushing, RegOK
    <2>2. \/ file' = file
          \/ file' = [file EXCEPT ![l] = Append(file[l], Item("head", ptr[l], <<>>))]
      BY <1>3, Zenon DEF WriteBlockHead
    <2>3. Append(file[l], Item("head", ptr[l], <<>>)) \in Seq(Items)
      BY <2>1, ItemFact, AppendItem, Zenon DEF FileOK
    <2> QED
      BY <2>2, <2>3, Update, Zenon DEF FileOK
  <1>4. CASE WriteBlockData(t)
    <2> DEFINE l == flushing[t]
    <2>1. l \in Threads
      BY <1>4, Zenon DEF WriteBlockData, Step, Die, FlushInv, FlushAt, Flushing
    <2>2. \/ file' = file
          \/ file' = [file EXCEPT ![l] = Append(file[l], Item("data", 0, block[t]))]
      BY <1>4, Zenon DEF WriteBlockData
    <2>3. Append(file[l], Item("data", 0, block[t])) \in Seq(Items)
      BY <2>1, ItemFact, AppendItem, Zenon DEF FileOK, BlockOK
    <2> QED
      BY <2>2, <2>3, Update, Zenon DEF FileOK
  <1>5. CASE UNCHANGED file
    BY <1>5, Zenon DEF FileOK
  <1> QED
    BY <1>1, <1>2, <1>3, <1>4, <1>5, TouchFile, Zenon

(* A block is a sequence of bytes. *)
LEMMA BlockStep ==
    ASSUME RegOK, FlushInv, PtrInv, BufferOK, BlockOK,
           NEW t \in Threads, Calls(t) \/ Running(t)
    PROVE  BlockOK'
  <1>1. CASE WriteBlockHead(t)
    <2> DEFINE l == flushing[t]
              b == [i \in 1 .. ptr[l] |-> buffer[l][i - 1]]
    <2>1. l \in Threads
      BY <1>1, Zenon DEF WriteBlockHead, Step, Die, FlushInv, FlushAt, Flushing
    <2>2. pc # Dead
      BY NotDead DEF Dead
    <2>3. ptr[l] \in Nat /\ ptr[l] < BIGBUFFER_SZ /\ buffer[l] \in [Offsets -> Int]
      BY <2>1, <2>2, Zenon DEF RegOK, PtrInv, BufferOK
    <2>4. b \in Seq(Int)
      BY <2>3, BlockFact, Zenon
    <2>5. block' = block \/ block' = [block EXCEPT ![t] = b]
      BY <1>1, Zenon DEF WriteBlockHead
    <2> HIDE DEF b
    <2> QED
      BY <2>4, <2>5, Update, Zenon DEF BlockOK
  <1>2. CASE WriteBlockData(t)
    <2>1. block' = block \/ block' = [block EXCEPT ![t] = <<>>]
      BY <1>2, Zenon DEF WriteBlockData
    <2> QED
      BY <2>1, NoneFact, Update, Zenon DEF BlockOK
  <1>3. CASE UNCHANGED block
    BY <1>3, Zenon DEF BlockOK
  <1> QED
    BY <1>1, <1>2, <1>3, TouchBlock, Zenon

(* tls_list, and what flush_all_logger has left of it, are areas of        *)
(* threads.                                                                *)
LEMMA ListStep ==
    ASSUME ListOK,
           NEW t \in Threads, Calls(t) \/ Running(t)
    PROVE  ListOK'
  <1>1. CASE Link(t)
    <2>1. <<t>> \o tls_list \in Seq(Threads)
      BY DEF ListOK
    <2> QED
      BY <1>1, <2>1, Zenon DEF Link, ListOK, fl
  <1>2. CASE flush_all_logger(t)
    BY <1>2, Zenon DEF flush_all_logger, ListOK
  <1>3. CASE NextArea(t)
    <2>1. todo[t] # <<>> => Tail(todo[t]) \in Seq(Threads)
      BY DEF ListOK
    <2>2. \/ todo' = todo
          \/ todo[t] # <<>> /\ todo' = [todo EXCEPT ![t] = Tail(todo[t])]
      BY <1>3, Zenon DEF NextArea
    <2>3. tls_list' = tls_list
      BY <1>3 DEF NextArea
    <2>4. todo' \in [Threads -> Seq(Threads)]
      <3>1. todo \in [Threads -> Seq(Threads)]
        BY DEF ListOK
      <3> QED
        BY <2>1, <2>2, <3>1, Update, Zenon
    <2> QED
      BY <2>3, <2>4, Zenon DEF ListOK
  <1>4. CASE UNCHANGED <<tls_list, todo>>
    BY <1>4, Zenon DEF ListOK
  <1> QED
    BY <1>1, <1>2, <1>3, <1>4, TouchList, Zenon

(* The history stays about threads. *)
LEMMA CountStep ==
    ASSUME FlushInv, CountOK,
           NEW t \in Threads, Calls(t) \/ Running(t)
    PROVE  CountOK'
  <1>1. CASE flush_self_logger(t)
    <2>1. calls[t] + 1 \in Nat
      BY DEF CountOK
    <2> QED
      BY <1>1, <2>1, Zenon DEF flush_self_logger, CountOK
  <1>2. CASE flush_all_logger(t)
    <2>1. calls[t] + 1 \in Nat
      BY DEF CountOK
    <2> QED
      BY <1>2, <2>1, Zenon DEF flush_all_logger, CountOK
  <1>3. CASE OpenFails(t)
    <2>1. flushing[t] \in Threads
      BY <1>3, Zenon DEF OpenFails, Step, FlushInv, FlushAt, Flushing
    <2> QED
      BY <1>3, <2>1, Zenon DEF OpenFails, CountOK, fl
  <1>4. CASE UNCHANGED <<calls, failed>>
    BY <1>4, Zenon DEF CountOK
  <1> QED
    BY <1>1, <1>2, <1>3, <1>4, TouchCount, Zenon

(* A mutex that is not reset under a flush keeps a second one out. *)
LEMMA LockStep ==
    ASSUME PcOK, RegOK, FlOK, FlagsOK, early \subseteq Threads, FlushInv, LockInv,
           NEW t \in Threads, Calls(t) \/ Running(t), History
    PROVE  LockInv'
  <1> SUFFICES ASSUME NEW l \in Threads \ early', NEW u \in Threads, NEW v \in Threads
               PROVE  LockAt(l, u, v)'
    BY Zenon DEF LockInv
  <1>1. CASE pc' = Dead
    <2>1. pc'[u] = "dead"
      BY <1>1 DEF Dead
    <2> QED
      BY <2>1 DEF LockAt, InWriting, Writing
  <1> SUFFICES ASSUME pc' # Dead PROVE LockAt(l, u, v)'
    BY <1>1
  <1>0. pc' # Dead
    OBVIOUS
  <1>2. l \notin early /\ l \notin Early' /\ l \in Threads
    BY DEF History
  <1>3. LockAt(l, u, v) /\ LockAt(l, v, u)
    BY <1>2, Zenon DEF LockInv
  <1>4. \A w \in Threads \ {t} : InWriting(w, l)' <=> InWriting(w, l)
    BY <1>0, Frame, ZenonT(30) DEF Kept, InWriting
  <1>5. CASE ~LockLogger(t)
    <2>1. pc'[t] \notin Writing \/ (pc[t] \in Writing /\ flushing'[t] = flushing[t])
      BY <1>0, <1>5, ZenonT(30) DEF Calls, Running, flush_logger, Link, init_logger, Create,
             write_comp_file_head, CopySize, Dest, Copy, Load, Store,
             set_bigbuffer_ptr, OpenFails, DropPtr, DropCurr, WriteBlockHead,
             WriteBlockData, Close, flush_self_logger, flush_all_logger, NextArea,
             append_logger, append_logger_TYPE, fl, Step, Die, Dead, PcOK, FlOK,
             Writing
    <2>2. \A w \in Threads : InWriting(w, l)' => InWriting(w, l)
      BY <1>4, <2>1, Zenon DEF InWriting
    <2>3. CASE OpenFails(t)
      <3>1. /\ mutex' = [mutex EXCEPT ![flushing[t]] = FALSE]
            /\ InWriting(t, flushing[t])
        BY <2>3 DEF OpenFails, AfterFailure, Step, Die, InWriting, Writing
      <3>2. CASE flushing[t] = l
        <4>1. \A w \in Threads : InWriting(w, l) => w = t
          BY <1>2, <3>1, <3>2, Zenon DEF LockInv, LockAt
        <4>2. ~InWriting(t, l)'
          <5>1. pc'[t] \notin Writing
            BY <2>3, <1>0, Zenon DEF OpenFails, AfterFailure, Step, Die, Dead, PcOK, FlOK, Writing
          <5> QED
            BY <5>1, Zenon DEF InWriting
        <4> QED
          BY <2>2, <4>1, <4>2, Zenon DEF LockAt
      <3>3. CASE flushing[t] # l
        <4>1. mutex'[l] = mutex[l]
          BY <1>2, <3>1, <3>3, Zenon DEF FlagsOK
        <4> QED
          BY <1>3, <2>2, <4>1, Zenon DEF LockAt
      <3> QED
        BY <3>2, <3>3
    <2>4. CASE Close(t)
      <3>1. /\ mutex' = [mutex EXCEPT ![flushing[t]] = FALSE]
            /\ InWriting(t, flushing[t])
        BY <2>4 DEF Close, Step, Die, InWriting, Writing
      <3>2. CASE flushing[t] = l
        <4>1. \A w \in Threads : InWriting(w, l) => w = t
          BY <1>2, <3>1, <3>2, Zenon DEF LockInv, LockAt
        <4>2. ~InWriting(t, l)'
          <5>1. pc'[t] \notin Writing
            BY <2>4, <1>0, Zenon DEF Close, Step, Die, Dead, PcOK, FlOK, Writing
          <5> QED
            BY <5>1, Zenon DEF InWriting
        <4> QED
          BY <2>2, <4>1, <4>2, Zenon DEF LockAt
      <3>3. CASE flushing[t] # l
        <4>1. mutex'[l] = mutex[l]
          BY <1>2, <3>1, <3>3, Zenon DEF FlagsOK
        <4> QED
          BY <1>3, <2>2, <4>1, Zenon DEF LockAt
      <3> QED
        BY <3>2, <3>3
    <2>5. CASE init_logger(t)
      <3>1. /\ mutex' = [mutex EXCEPT ![t] = FALSE] /\ flushing' = flushing
            /\ pc[t] = "linked" /\ pc'[t] = "create"
        BY <2>5, Zenon DEF init_logger, Step, PcOK, fl
      <3>2. CASE t = l
        <4>1. \A w \in Threads \ {l} : flushing'[w] # l
          BY <1>2, <3>1, <3>2 DEF Early, FlushedByOther, Initialising
        <4>2. ~InWriting(l, l)'
          BY <3>1, <3>2 DEF InWriting, Writing
        <4>3. \A w \in Threads : ~InWriting(w, l)'
          BY <4>1, <4>2, Zenon DEF InWriting
        <4> QED
          BY <4>3, Zenon DEF LockAt
      <3>3. CASE t # l
        <4>1. mutex'[l] = mutex[l]
          BY <1>2, <3>1, <3>3, Zenon DEF FlagsOK
        <4> QED
          BY <1>3, <2>2, <4>1, Zenon DEF LockAt
      <3> QED
        BY <3>2, <3>3
    <2>6. CASE mutex' = mutex
      BY <1>3, <2>2, <2>6, Zenon DEF LockAt
    <2> QED
      BY <1>5, <2>3, <2>4, <2>5, <2>6, TouchMutex, Zenon
  <1>6. CASE LockLogger(t)
    <2>1. /\ mutex' = [mutex EXCEPT ![flushing[t]] = TRUE]
          /\ ~mutex[flushing[t]] /\ flushing[t] \in Threads /\ flushing' = flushing
      BY <1>6, Zenon DEF LockLogger, MayLock, Step, FlushInv, FlushAt, Flushing, fl
    <2>2. CASE flushing[t] = l
      <3>1. \A w \in Threads : ~InWriting(w, l)
        BY <1>2, <2>1, <2>2, Zenon DEF LockInv, LockAt
      <3>2. \A w \in Threads : InWriting(w, l)' => w = t
        BY <1>4, <3>1, Zenon
      <3>3. mutex'[l]
        BY <1>2, <2>1, <2>2, Zenon DEF FlagsOK
      <3> QED
        BY <3>2, <3>3, Zenon DEF LockAt
    <2>3. CASE flushing[t] # l
      <3>1. mutex'[l] = mutex[l] /\ ~InWriting(t, l)'
        BY <1>2, <2>1, <2>3, Zenon DEF FlagsOK, InWriting
      <3> QED
        BY <1>3, <1>4, <3>1, Zenon DEF LockAt
    <2> QED
      BY <2>2, <2>3
  <1> QED
    BY <1>5, <1>6

(* Whether t is about to write the data of a block to the log of l. *)
AtData(t, l) == flushing[t] = l /\ pc[t] = "blockdata"

(* What FileAt and BlocksAt read of a log and of the flushes of it is      *)
(* left alone by the steps that write nothing to the log.                  *)
LEMMA FileQuiet ==
    ASSUME NEW l \in Threads, FileAt(l), BlocksAt(l), file'[l] = file[l],
           \/ pc' = Dead
           \/ /\ \A w \in Threads : AtData(w, l)' <=> AtData(w, l)
              /\ \A w \in Threads : AtData(w, l) => block'[w] = block[w]
              /\ \E w \in Threads : pc[w] # "dead"
              /\ pc'[l] \in Initialising => pc[l] \in Initialising
    PROVE  (FileAt(l) /\ BlocksAt(l))'
  <1>1. BlocksAt(l)'
    BY DEF BlocksAt
  <1>2. CASE pc' = Dead
    <2>1. /\ \A w \in Threads : pc'[w] # "blockdata"
          /\ \A w \in Threads : pc'[w] = "dead"
          /\ pc'[l] \notin Initialising
      BY <1>2, SMTT(30) DEF Dead, Initialising
    <2> QED
      BY <1>1, <2>1 DEF FileAt
  <1>3. CASE /\ \A w \in Threads : AtData(w, l)' <=> AtData(w, l)
             /\ \A w \in Threads : AtData(w, l) => block'[w] = block[w]
             /\ \E w \in Threads : pc[w] # "dead"
             /\ pc'[l] \in Initialising => pc[l] \in Initialising
    BY <1>1, <1>3 DEF FileAt, AtData
  <1> QED
    BY <1>2, <1>3, SMTT(30)

(* A log keeps its blocks whole when an item is appended that may follow   *)
(* the last one.                                                           *)
LEMMA BlocksAppend ==
    ASSUME NEW l \in Threads, BlocksAt(l), file[l] \in Seq(Items), NEW x \in Items,
           file'[l] = Append(file[l], x),
           LET n == Len(file[l])
           IN  /\ x.kind = "filehead" => n = 0
               /\ x.kind = "data" <=> n > 0 /\ file[l][n].kind = "head"
               /\ x.kind = "data" => Len(x.bytes) = file[l][n].ori_sz
    PROVE  BlocksAt(l)'
  <1> DEFINE s == file[l]
             n == Len(s)
  <1>1. /\ file'[l] = Append(s, x)
        /\ n \in Nat /\ DOMAIN file'[l] = 1 .. n + 1 /\ DOMAIN s = 1 .. n
        /\ Len(file'[l]) = n + 1 /\ file'[l][n + 1] = x
        /\ \A k \in 1 .. n : file'[l][k] = s[k]
    OBVIOUS
  <1>2. \A k \in 1 .. n :
            /\ s[k].kind = "filehead" => k = 1
            /\ s[k].kind = "data" => k > 1 /\ s[k - 1].kind = "head"
            /\ s[k].kind = "head" /\ k < n =>
                   s[k + 1].kind = "data" /\ Len(s[k + 1].bytes) = s[k].ori_sz
    BY <1>1, Zenon DEF BlocksAt
  <1>3. /\ x.kind = "filehead" => n = 0
        /\ x.kind = "data" => n > 0 /\ s[n].kind = "head" /\ Len(x.bytes) = s[n].ori_sz
        /\ n > 0 /\ s[n].kind = "head" => x.kind = "data"
    OBVIOUS
  <1> DEFINE r == file'[l]
  <1> HIDE DEF s, n, r
  <1>4. /\ DOMAIN r = 1 .. n + 1 /\ Len(r) = n + 1 /\ r[n + 1] = x
        /\ \A k \in 1 .. n : r[k] = s[k]
    BY <1>1 DEF r
  <1>5. \A k \in 1 .. n + 1 :
            /\ r[k].kind = "filehead" => k = 1
            /\ r[k].kind = "data" => k > 1 /\ r[k - 1].kind = "head"
            /\ r[k].kind = "head" /\ k < n + 1 =>
                   r[k + 1].kind = "data" /\ Len(r[k + 1].bytes) = r[k].ori_sz
    <2> SUFFICES ASSUME NEW k \in 1 .. n + 1
                 PROVE  /\ r[k].kind = "filehead" => k = 1
                        /\ r[k].kind = "data" => k > 1 /\ r[k - 1].kind = "head"
                        /\ r[k].kind = "head" /\ k < n + 1 =>
                               r[k + 1].kind = "data" /\ Len(r[k + 1].bytes) = r[k].ori_sz
      OBVIOUS
    <2>1. CASE k = n + 1
      <3>1. k - 1 = n /\ k = n + 1
        BY <2>1, <1>1
      <3> QED
        BY <1>1, <1>3, <1>4, <3>1
    <2>2. CASE k = n
      <3>1. k \in 1 .. n /\ (k > 1 => k - 1 \in 1 .. n)
        BY <2>2, <1>1
      <3> QED
        BY <1>1, <1>2, <1>3, <1>4, <2>2, <3>1
    <2>3. CASE k < n
      <3>1. k \in 1 .. n /\ k + 1 \in 1 .. n /\ (k > 1 => k - 1 \in 1 .. n)
        BY <2>3, <1>1
      <3> QED
        BY <1>1, <1>2, <1>4, <2>3, <3>1
    <2> QED
      BY <1>1, <2>1, <2>2, <2>3
  <1> QED
    BY <1>4, <1>5, Zenon DEF r, BlocksAt

(* A head is written only after the last block is complete, and its data  *)
(* next, because the mutex is held over both.                              *)
LEMMA FileStep ==
    ASSUME PcOK, RegOK, FlOK, BufferOK, FileOK, BlockOK,
           FlushInv, PtrInv, LockInv, FileInv, BlocksWhole,
           NEW t \in Threads, Calls(t) \/ Running(t), History
    PROVE  FileInv' /\ BlocksWhole'
  <1> SUFFICES ASSUME NEW l \in Threads \ early'
               PROVE  (FileAt(l) /\ BlocksAt(l))'
    BY Zenon DEF FileInv, BlocksWhole, BlocksAt
  <1>2. l \notin early /\ l \notin Early' /\ l \in Threads
    BY DEF History
  <1>3. FileAt(l) /\ BlocksAt(l)
    BY <1>2, Zenon DEF FileInv, BlocksWhole, BlocksAt
  <1>4. /\ pc \in [Threads -> PCs] /\ flushing \in [Threads -> Threads \cup {NoThread}]
        /\ file \in [Threads -> Seq(Items)] /\ block \in [Threads -> Seq(Int)]
    BY DEF PcOK, FlOK, FileOK, BlockOK
  <1>5. pc[t] # "dead" /\ pc # Dead
    BY NotDead DEF Dead
  <1>6. ASSUME ~WriteBlockHead(t), ~WriteBlockData(t), file'[l] = file[l]
        PROVE  (FileAt(l) /\ BlocksAt(l))'
    <2>1. CASE pc' = Dead
      BY <1>2, <1>3, <1>6, <2>1, FileQuiet, SMTT(30)
    <2>2. CASE pc' # Dead
      <3>1. /\ pc[t] # "blockdata" /\ pc'[t] # "blockdata"
            /\ pc'[t] \in Initialising => pc[t] \in Initialising
        BY <1>6, <2>2, ZenonT(30) DEF Calls, Running, flush_logger, Link, init_logger,
               Create, write_comp_file_head, CopySize, Dest, Copy, Load, Store,
               LockLogger, set_bigbuffer_ptr, OpenFails, DropPtr, DropCurr, Close,
               flush_self_logger, flush_all_logger, NextArea, append_logger,
               append_logger_TYPE, Step, Die, Dead, PcOK, FlOK, Initialising
      <3>2. \A w \in Threads \ {t} : pc'[w] = pc[w] /\ flushing'[w] = flushing[w]
        BY <2>2, Frame, Zenon DEF Kept
      <3>3. block' = block
        BY <1>6, TouchBlock, Zenon
      <3>4. \A w \in Threads : AtData(w, l)' <=> AtData(w, l)
        BY <3>1, <3>2, Zenon DEF AtData
      <3>5. pc'[l] \in Initialising => pc[l] \in Initialising
        BY <1>2, <3>1, <3>2, Zenon
      <3> QED
        BY <1>2, <1>3, <1>5, <1>6, <3>3, <3>4, <3>5, FileQuiet, SMTT(30)
    <2> QED
      BY <2>1, <2>2
  <1>7. CASE Create(t)
    <2>1. file'[l] = file[l]
      <3>1. pc[t] = "create" /\ (file' = file \/ file' = [file EXCEPT ![t] = <<>>])
        BY <1>7, Zenon DEF Create, Step
      <3>2. t = l => file[l] = <<>>
        BY <1>3, <3>1, SMTT(30) DEF FileAt, Initialising
      <3> QED
        BY <1>2, <1>4, <3>1, <3>2, Zenon
    <2>2. ~WriteBlockHead(t) /\ ~WriteBlockData(t)
      BY <1>7 DEF Create, WriteBlockHead, WriteBlockData, Step, Die
    <2> QED
      BY <1>6, <2>1, <2>2
  <1>8. CASE write_comp_file_head(t)
    <2>1. CASE t # l \/ pc' = Dead
      <3>1. file'[l] = file[l]
        <4>1. pc[t] = "filehead"
          BY <1>8 DEF write_comp_file_head, Step, Die
        <4>2. pc' = Dead => file' = file
          BY <1>8, <4>1 DEF write_comp_file_head, Step, Dead
        <4>3. \/ file' = file
              \/ file' = [file EXCEPT ![t] = Append(file[t], Item("filehead", 0, <<>>))]
          BY <1>8, Zenon DEF write_comp_file_head
        <4> QED
          BY <1>2, <1>4, <2>1, <4>2, <4>3, Zenon
      <3>2. ~WriteBlockHead(t) /\ ~WriteBlockData(t)
        BY <1>8 DEF write_comp_file_head, WriteBlockHead, WriteBlockData, Step, Die
      <3> QED
        BY <1>6, <3>1, <3>2
    <2>2. CASE t = l /\ pc' # Dead
      <3> DEFINE x == Item("filehead", 0, <<>>)
      <3>1. /\ file'[l] = Append(file[l], x) /\ block' = block /\ flushing' = flushing
            /\ pc[l] = "filehead" /\ pc' = [pc EXCEPT ![l] = "idle"]
        BY <1>8, <1>4, <2>2 DEF write_comp_file_head, Step, Die, Dead, fl
      <3>2. file[l] = <<>>
        BY <1>3, <3>1 DEF FileAt, Initialising
      <3>3. x \in Items /\ x.kind = "filehead"
        BY ItemFact DEF Item
      <3> HIDE DEF x
      <3>5. Len(file[l]) = 0 /\ Len(file'[l]) = 1 /\ file'[l][1] = x
        BY <1>4, <3>1, <3>2, <3>3
      <3>4. BlocksAt(l)'
        <4>1. LET n == Len(file[l])
              IN  /\ x.kind = "filehead" => n = 0
                  /\ x.kind = "data" <=> n > 0 /\ file[l][n].kind = "head"
                  /\ x.kind = "data" => Len(x.bytes) = file[l][n].ori_sz
          BY <3>3, <3>5
        <4> QED
          BY <1>2, <1>3, <1>4, <3>1, <3>3, <4>1, BlocksAppend, Zenon
      <3>6. \A w \in Threads : ~(flushing[w] = l /\ pc[w] = "blockdata")
        BY <1>3, <3>5 DEF FileAt
      <3>7. \A w \in Threads : ~(flushing'[w] = l /\ pc'[w] = "blockdata")
        BY <1>4, <3>1, <3>6
      <3>8. pc'[l] \notin Initialising
        BY <1>4, <3>1 DEF Initialising
      <3>9. FileAt(l)'
        <4>1. file'[l][Len(file'[l])].kind # "head"
          BY <3>3, <3>5, SMTT(30)
        <4> QED
          BY <3>7, <3>8, <4>1, Zenon DEF FileAt
      <3> QED
        BY <3>4, <3>9
    <2> QED
      BY <2>1, <2>2
  <1>9. CASE WriteBlockHead(t)
    <2>1. pc[t] = "open" /\ flushing[t] \in Threads /\ flushing' = flushing
      BY <1>9, SMTT(30) DEF WriteBlockHead, Step, Die, FlushInv, FlushAt, Flushing
    <2>2. CASE pc' = Dead /\ file' = file
      BY <1>2, <1>3, <2>2, FileQuiet, SMTT(30)
    <2>3. CASE pc' = [pc EXCEPT ![t] = "close"] /\ file' = file /\ block' = block
      <3>1. /\ \A w \in Threads : AtData(w, l)' <=> AtData(w, l)
            /\ \E w \in Threads : pc[w] # "dead"
            /\ pc'[l] \in Initialising => pc[l] \in Initialising
        BY <1>4, <2>1, <2>3, SMTT(30) DEF AtData, Initialising
      <3> QED
        BY <1>2, <1>3, <2>3, <3>1, FileQuiet
    <2> DEFINE m == flushing[t]
               b == [i \in 1 .. ptr[m] |-> buffer[m][i - 1]]
               x == Item("head", ptr[m], <<>>)
    <2>4. CASE /\ pc' = [pc EXCEPT ![t] = "blockdata"]
               /\ block' = [block EXCEPT ![t] = b]
               /\ file' = [file EXCEPT ![m] = Append(file[m], x)]
      <3>1. CASE m # l
        <4>1. /\ \A w \in Threads : AtData(w, l)' <=> AtData(w, l)
              /\ \A w \in Threads : AtData(w, l) => block'[w] = block[w]
              /\ \E w \in Threads : pc[w] # "dead"
              /\ pc'[l] \in Initialising => pc[l] \in Initialising
              /\ file'[l] = file[l]
          BY <1>4, <2>1, <2>4, <3>1 DEF AtData, Initialising
        <4> QED
          BY <1>2, <1>3, <4>1, FileQuiet, SMTT(30)
      <3>2. CASE m = l
        <4>1. /\ ptr[l] \in Nat /\ ptr[l] < BIGBUFFER_SZ /\ buffer[l] \in [Offsets -> Int]
          BY <1>2, <1>5, Zenon DEF PtrInv, RegOK, BufferOK
        <4>2. Len(b) = ptr[l]
          BY <3>2, <4>1, BlockFact
        <4>3. x \in Items /\ x.kind = "head" /\ x.ori_sz = ptr[l]
          BY <3>2, <4>1, ItemFact DEF Item
        <4>4. \A w \in Threads : ~(flushing[w] = l /\ pc[w] = "blockdata")
          <5>1. \A w \in Threads : InWriting(w, l) => w = t
            BY <1>2, <2>1, <3>2 DEF LockInv, LockAt, InWriting, Writing
          <5> QED
            BY <2>1, <5>1, SMTT(30) DEF InWriting, Writing
        <4>5. pc[l] \notin Initialising
          <5>1. CASE t = l
            BY <2>1, <5>1 DEF Initialising
          <5>2. CASE t # l
            <6>1. pc'[l] \notin Initialising
              BY <1>2, <2>1, <3>2, <5>2 DEF Early, FlushedByOther
            <6>2. pc'[l] = pc[l]
              BY <1>4, <2>4, <5>2
            <6> QED
              BY <6>1, <6>2
          <5> QED
            BY <5>1, <5>2
        <4>6. pc[t] # "dead"
          BY <2>1
        <4> DEFINE n == Len(file[l])
        <4>7. ~(n > 0 /\ file[l][n].kind = "head")
          BY <1>3, <4>4, <4>6, SMTT(30) DEF FileAt
        <4>8. file'[l] = Append(file[l], x) /\ file[l] \in Seq(Items)
          BY <1>2, <1>4, <2>4, <3>2, SMTT(30)
        <4> HIDE DEF x, b
        <4>9. BlocksAt(l)'
          BY <1>2, <1>3, <4>3, <4>7, <4>8, BlocksAppend
        <4>10. Len(file'[l]) = n + 1 /\ file'[l][n + 1] = x /\ n \in Nat
          BY <4>8
        <4>11. \A w \in Threads : flushing'[w] = l /\ pc'[w] = "blockdata" => w = t
          BY <1>4, <2>1, <2>4, <4>4, SMTT(30)
        <4>12. Len(block'[t]) = x.ori_sz
          BY <1>4, <2>4, <4>2, <4>3
        <4>13. pc'[l] \notin Initialising
          BY <1>4, <2>4, <4>5 DEF Initialising
        <4>14. FileAt(l)'
          <5>1. flushing'[t] = l /\ pc'[t] = "blockdata" /\ t \in Threads
            BY <1>4, <2>1, <2>4, <3>2
          <5>2. Len(file'[l]) > 0 /\ file'[l][Len(file'[l])] = x
            BY <4>10
          <5> QED
            BY <4>3, <4>11, <4>12, <4>13, <5>1, <5>2 DEF FileAt
        <4> QED
          BY <4>9, <4>14
      <3> QED
        BY <3>1, <3>2
    <2> QED
      BY <1>9, <2>2, <2>3, <2>4, SMTT(30) DEF WriteBlockHead, Step, Die, Dead
  <1>10. CASE WriteBlockData(t)
    <2>1. pc[t] = "blockdata" /\ flushing[t] \in Threads /\ flushing' = flushing
      BY <1>10 DEF WriteBlockData, Step, Die, FlushInv, FlushAt, Flushing
    <2>2. CASE pc' = Dead /\ file' = file
      BY <1>2, <1>3, <2>2, FileQuiet
    <2> DEFINE m == flushing[t]
               x == Item("data", 0, block[t])
    <2>3. CASE /\ pc' = [pc EXCEPT ![t] = "close"]
               /\ block' = [block EXCEPT ![t] = <<>>]
               /\ file' = [file EXCEPT ![m] = Append(file[m], x)]
      <3>1. CASE m # l
        <4>1. /\ \A w \in Threads : AtData(w, l)' <=> AtData(w, l)
              /\ \A w \in Threads : AtData(w, l) => block'[w] = block[w]
              /\ \E w \in Threads : pc[w] # "dead"
              /\ pc'[l] \in Initialising => pc[l] \in Initialising
              /\ file'[l] = file[l]
          BY <1>4, <2>1, <2>3, <3>1, SMTT(30) DEF AtData, Initialising
        <4> QED
          BY <1>2, <1>3, <4>1, FileQuiet
      <3>2. CASE m = l
        <4> DEFINE n == Len(file[l])
        <4>1. n > 0 /\ file[l][n].kind = "head" /\ file[l][n].ori_sz = Len(block[t])
          BY <1>3, <2>1, <3>2, SMTT(30) DEF FileAt
        <4>2. x \in Items /\ x.kind = "data" /\ x.bytes = block[t]
          BY <1>4, ItemFact, SMTT(30) DEF Item
        <4>3. \A w \in Threads : flushing[w] = l /\ pc[w] = "blockdata" => w = t
          BY <1>2, <2>1, <3>2 DEF LockInv, LockAt, InWriting, Writing
        <4>4. file'[l] = Append(file[l], x) /\ file[l] \in Seq(Items)
          BY <1>2, <1>4, <2>3, <3>2, SMTT(30)
        <4> HIDE DEF x
        <4>5. BlocksAt(l)'
          BY <1>2, <1>3, <4>1, <4>2, <4>4, BlocksAppend
        <4>6. Len(file'[l]) = n + 1 /\ file'[l][n + 1] = x /\ n \in Nat
          BY <4>4
        <4>7. \A w \in Threads : ~(flushing'[w] = l /\ pc'[w] = "blockdata")
          BY <1>4, <2>1, <2>3, <4>3
        <4>8. pc[l] \notin Initialising
          <5>1. Len(<<>>) = 0
            OBVIOUS
          <5> QED
            BY <1>3, <4>1, <5>1 DEF FileAt
        <4>9. pc'[l] \notin Initialising
          BY <1>4, <2>3, <4>8 DEF Initialising
        <4>10. file'[l][Len(file'[l])].kind = "data"
          BY <4>2, <4>6
        <4>11. FileAt(l)'
          BY <4>7, <4>9, <4>10 DEF FileAt
        <4> QED
          BY <4>5, <4>11
      <3> QED
        BY <3>1, <3>2
    <2> QED
      BY <1>10, <2>2, <2>3, SMTT(30) DEF WriteBlockData, Step, Die, Dead
  <1>11. CASE file' = file /\ ~WriteBlockHead(t) /\ ~WriteBlockData(t)
    BY <1>6, <1>11
  <1> QED
    BY <1>7, <1>8, <1>9, <1>10, <1>11, TouchFile, Zenon

-----------------------------------------------------------------------------
(* The inductive invariant *)

Types ==
    /\ PcOK /\ RegOK /\ FlOK /\ FlagsOK
    /\ BufferOK /\ FileOK /\ BlockOK /\ ListOK /\ CountOK
    /\ early \subseteq Threads /\ met \subseteq Threads

IInv ==
    /\ Types
    /\ FlushInv /\ CursorInv /\ PtrInv
    /\ LockInv /\ FileInv /\ BlocksWhole

(* The program starts with no thread in append_logger or flush_logger, and *)
(* with empty logs.                                                        *)
LEMMA InitHolds == Init => IInv
  <1> SUFFICES ASSUME Init PROVE IInv
    OBVIOUS
  <1> USE LoggerAssumption DEF Init
  <1>1. PcOK /\ RegOK /\ FlOK
    BY DEF PcOK, RegOK, FlOK, PCs
  <1>2. FlagsOK
    BY Zenon DEF FlagsOK
  <1>3. BufferOK /\ CountOK
    BY DEF BufferOK, CountOK
  <1>4. FileOK /\ BlockOK /\ ListOK
    BY NoneFact DEF FileOK, BlockOK, ListOK
  <1>5. early \subseteq Threads /\ met \subseteq Threads
    OBVIOUS
  <1>6. \A t \in Threads : /\ pc[t] = "start" /\ flushing[t] = NoThread /\ then[t] = "idle"
                           /\ ptr[t] = 0 /\ file[t] = <<>>
    BY Zenon
  <1>7. FlushInv
    BY <1>6, Zenon DEF FlushInv, FlushAt, Flushing, Initialising, Copying
  <1>8. CursorInv /\ PtrInv
    BY <1>6 DEF CursorInv, CursorAt, PtrInv, Copying
  <1>9. LockInv
    BY <1>6, SMTT(30) DEF LockInv, LockAt, InWriting
  <1>10. FileInv
    <2>1. Len(<<>>) = 0
      BY SMTT(30)
    <2> QED
      BY <1>6, <2>1 DEF FileInv, FileAt
  <1>11. BlocksWhole
    BY <1>6 DEF BlocksWhole
  <1> QED
    BY <1>1, <1>2, <1>3, <1>4, <1>5, <1>7, <1>8, <1>9, <1>10, <1>11 DEF IInv, Types

(* No step of append_logger, flush_logger, flush_all_logger or init_logger *)
(* leaves the inductive invariant.                                         *)
LEMMA StepHolds == IInv /\ [Next]_vars => IInv'
  <1> SUFFICES ASSUME IInv, [Next]_vars PROVE IInv'
    OBVIOUS
  <1>1. /\ PcOK /\ RegOK /\ FlOK /\ FlagsOK
        /\ BufferOK /\ FileOK /\ BlockOK /\ ListOK /\ CountOK
        /\ early \subseteq Threads /\ met \subseteq Threads
        /\ FlushInv /\ CursorInv /\ PtrInv
        /\ LockInv /\ FileInv /\ BlocksWhole
    BY Zenon DEF IInv, Types
  <1>2. TodoOK
    BY <1>1 DEF ListOK, TodoOK
  <1>3. ASSUME NEW t \in Threads, Calls(t) \/ Running(t), History
        PROVE  IInv'
    <2>1. PcOK' /\ RegOK' /\ FlOK' /\ FlagsOK'
      BY <1>1, <1>2, <1>3, PcStep, RegStep, FlStep, FlagsStep, Zenon
    <2>2. BufferOK' /\ FileOK' /\ BlockOK'
      BY <1>1, <1>3, BufferStep, FileTypeStep, BlockStep, Zenon
    <2>3. ListOK' /\ CountOK'
      BY <1>1, <1>3, ListStep, CountStep, Zenon
    <2>4. early' \subseteq Threads /\ met' \subseteq Threads
      BY <1>1, <1>3, Zenon DEF History, Early, Meeting, FlushedByOther
    <2>5. FlushInv' /\ CursorInv' /\ PtrInv'
      BY <1>1, <1>2, <1>3, FlushStep, CursorStep, PtrStep, Zenon
    <2>6. LockInv'
      BY <1>1, <1>3, LockStep, Zenon
    <2>7. FileInv' /\ BlocksWhole'
      BY <1>1, <1>3, FileStep, Zenon
    <2> QED
      BY <2>1, <2>2, <2>3, <2>4, <2>5, <2>6, <2>7, Zenon DEF IInv, Types
  <1>4. CASE UNCHANGED vars
    <2>1. Types'
      BY <1>1, <1>4, Zenon DEF vars, tls, app, fl, Types, PcOK, RegOK, FlOK, FlagsOK,
                               BufferOK, FileOK, BlockOK, ListOK, CountOK
    <2>2. FlushInv' /\ CursorInv' /\ PtrInv'
      BY <1>1, <1>4, Zenon DEF vars, tls, app, fl, FlushInv, FlushAt, CursorInv, CursorAt,
                               PtrInv
    <2>3. LockInv'
      BY <1>1, <1>4, ZenonT(30) DEF vars, tls, app, fl, LockInv, LockAt, InWriting
    <2>4. FileInv' /\ BlocksWhole'
      BY <1>1, <1>4 DEF vars, tls, app, fl, FileInv, FileAt, BlocksWhole
    <2> QED
      BY <2>1, <2>2, <2>3, <2>4, Zenon DEF IInv
  <1> QED
    BY <1>3, <1>4, Zenon DEF Next

(* The inductive invariant holds throughout. *)
LEMMA Invariance == Spec => []IInv
  BY InitHolds, StepHolds, PTL DEF Spec

(* struct logger_tpd_stub, struct bigbuffer and the registers of           *)
(* append_logger and flush_logger keep their types, for any threads.       *)
THEOREM TypeSafe == Spec => []TypeOK
  <1>1. IInv => TypeOK
    BY Zenon DEF IInv, Types, PcOK, RegOK, FlOK, FlagsOK, BufferOK, FileOK, BlockOK,
                 ListOK, CountOK, TypeOK
  <1> QED
    BY <1>1, Invariance, PTL

(* For any number of threads, any buffer and any flushes by                *)
(* flush_all_logger, asm_curr_ptr of an initialised logger and the copies  *)
(* of append_logger and append_logger_TYPE stay below asm_end_ptr.         *)
THEOREM CursorSafe == Spec => []CursorInside
  <1>1. IInv => CursorInside
    BY Zenon DEF IInv, CursorInv, CursorAt, CursorInside, Copying
  <1> QED
    BY <1>1, Invariance, PTL

(* For any number of threads, log_flush_mutex keeps the two writes that    *)
(* flush_small_buffer makes for a block together, in every log that no     *)
(* other thread flushed before it was initialised.                         *)
THEOREM BlocksSafe == Spec => []BlocksWhole
  <1>1. IInv => BlocksWhole
    BY DEF IInv
  <1> QED
    BY <1>1, Invariance, PTL
=============================================================================
