------------------------------- MODULE Logger -------------------------------
(***************************************************************************)
(* The per-thread logger of core/loader/logger.c and logger.h.  A thread   *)
(* appends to the bigbuffer of its own area without a lock; the buffer is  *)
(* flushed by the thread when it is full, or by any thread that runs       *)
(* flush_all_logger.  Flushes of one logger exclude each other by its      *)
(* log_flush_mutex.                                                        *)
(*                                                                         *)
(* A logger is named by the thread that owns it.  A byte is its position   *)
(* in what the thread has appended.  Each access to asm_curr_ptr, bb.ptr,  *)
(* the buffer and the file is a step.  A mutex is free or locked, as       *)
(* XMutex implements it.                                                   *)
(***************************************************************************)
EXTENDS Integers, Sequences

CONSTANTS
  Threads,
  NoThread,
  BIGBUFFER_SZ,
  Reserve,         \* bytes at the end that asm_end_ptr leaves free (32)
  TypeSizes,       \* the sizes of the types of append_logger_TYPE
  MaxAppend,       \* the largest size append_logger is called with
  ASM_BASE,        \* the offset of bb.buffer[0] in the area
  AddrSpace,       \* the number of addresses
  MaxStream,       \* bound: how many bytes each thread appends in all
  MaxCalls         \* bound: how many times each thread calls for a flush

ASSUME LoggerAssumption ==
    /\ NoThread \notin Threads
    /\ BIGBUFFER_SZ \in Nat /\ Reserve \in 1 .. BIGBUFFER_SZ - 1
    /\ TypeSizes \subseteq 1 .. BIGBUFFER_SZ - Reserve
    /\ MaxAppend \in Nat /\ MaxCalls \in Nat /\ MaxStream \in [Threads -> Nat]
    /\ ASM_BASE \in Nat \ {0} /\ AddrSpace \in Nat
    /\ ASM_BASE + BIGBUFFER_SZ <= AddrSpace

VARIABLES
  pc,           \* where each thread is
  tls_list,     \* the areas on tls_list, as their threads
  tls_lock,     \* whether it is locked
  curr,         \* asm_curr_ptr of each logger; 0 in a fresh area
  ptr,          \* bb.ptr of each area
  buffer,       \* bb.buffer of each area
  mutex,        \* whether log_flush_mutex of each logger is locked
  file,         \* what has been written to each log
  size, cpysz,  \* of each thread's append: what is left, what it copies now,
  addr,         \* the value of asm_curr_ptr it has loaded,
  pos,          \* how many bytes it has appended in all
  flushing,     \* of each thread's flush: whose logger it flushes,
  then,         \* where it returns to (also set during an append),
  block,        \* the compressed block that is being written,
  todo,         \* the areas flush_all_logger has not come to yet
  calls,        \* how many times the thread has called for a flush
  failed,       \* history: the loggers that dropped data, open having failed
  early, met    \* history: see Early and Meeting

tls  == <<tls_list, tls_lock>>
app  == <<size, cpysz, addr, pos>>
fl   == <<flushing, then, block, todo, calls>>
vars == <<pc, tls, curr, ptr, buffer, mutex, file, app, fl, failed, early, met>>

Offsets == 0 .. BIGBUFFER_SZ - 1

Init ==
    /\ pc = [t \in Threads |-> "start"]
    /\ tls_list = <<>> /\ tls_lock = FALSE
    /\ curr = [t \in Threads |-> 0] /\ ptr = [t \in Threads |-> 0]
    /\ buffer = [t \in Threads |-> [i \in Offsets |-> 0]]
    /\ mutex = [t \in Threads |-> FALSE]
    /\ file = [t \in Threads |-> <<>>]
    /\ size = [t \in Threads |-> 0] /\ cpysz = [t \in Threads |-> 0]
    /\ addr = [t \in Threads |-> 0] /\ pos = [t \in Threads |-> 0]
    /\ flushing = [t \in Threads |-> NoThread] /\ then = [t \in Threads |-> "idle"]
    /\ block = [t \in Threads |-> <<>>] /\ todo = [t \in Threads |-> <<>>]
    /\ calls = [t \in Threads |-> 0]
    /\ failed = {} /\ early = {} /\ met = {}

Step(t, from, to) ==
    /\ pc[t] = from
    /\ pc' = [pc EXCEPT ![t] = to]

(* An assertion or FATAL ends the process with all its threads. *)
Die(t, from) ==
    /\ pc[t] = from
    /\ pc' = [u \in Threads |-> "dead"]

-----------------------------------------------------------------------------
(* The start of a thread *)

(* alloc_tls_area links the area, under tls_lock, before its logger is     *)
(* initialised.                                                            *)
Link(t) ==
    /\ Step(t, "start", "linked")
    /\ ~tls_lock
    /\ tls_list' = <<t>> \o tls_list
    /\ UNCHANGED <<tls_lock, curr, ptr, buffer, mutex, file, app, fl, failed>>

(* init_logger sets the pointers and the mutex, whatever its state ... *)
init_logger(t) ==
    /\ Step(t, "linked", "create")
    /\ ptr' = [ptr EXCEPT ![t] = 0]
    /\ curr' = [curr EXCEPT ![t] = ASM_BASE]
    /\ mutex' = [mutex EXCEPT ![t] = FALSE]
    /\ UNCHANGED <<tls, buffer, file, app, fl, failed>>

(* ... truncates the file, or cannot open it and returns ... *)
Create(t) ==
    /\ \/ /\ Step(t, "create", "filehead")
          /\ file' = [file EXCEPT ![t] = <<>>]
       \/ /\ Step(t, "create", "idle")
          /\ UNCHANGED file
    /\ UNCHANGED <<tls, curr, ptr, buffer, mutex, app, fl, failed>>

(* What one sys_write adds to a log: the head of the file, the head of a   *)
(* block with its ori_sz, or a block's data as what it decompresses to.    *)
Item(kind, n, bytes) == [kind |-> kind, ori_sz |-> n, bytes |-> bytes]

(* ... and writes the head of a compressed file. *)
write_comp_file_head(t) ==
    /\ \/ /\ Step(t, "filehead", "idle")
          /\ file' = [file EXCEPT ![t] = Append(@, Item("filehead", 0, <<>>))]
       \/ /\ Die(t, "filehead")
          /\ UNCHANGED file
    /\ UNCHANGED <<tls, curr, ptr, buffer, mutex, app, fl, failed>>

-----------------------------------------------------------------------------
(* append_logger and append_logger_TYPE *)

asm_end_ptr == ASM_BASE + BIGBUFFER_SZ - Reserve

(* append_logger of n bytes; for n = 0 it does nothing. *)
append_logger(t, n) ==
    /\ pos[t] + n <= MaxStream[t]
    /\ Step(t, "idle", "avail")
    /\ size' = [size EXCEPT ![t] = n]
    /\ then' = [then EXCEPT ![t] = "avail"]
    /\ UNCHANGED <<tls, curr, ptr, buffer, mutex, file, cpysz, addr, pos,
                   flushing, block, todo, calls, failed>>

(* Mutant: the copy may go on to the end of the buffer. *)
Aval_RealEnd(t) == ASM_BASE + BIGBUFFER_SZ - curr[t]

Aval(t) == asm_end_ptr - curr[t]

CopySize(t) ==
    /\ Step(t, "avail", "dest")
    /\ cpysz' = [cpysz EXCEPT ![t] = IF Aval(t) > size[t] THEN size[t] ELSE Aval(t)]
    /\ UNCHANGED <<tls, curr, ptr, buffer, mutex, file, size, addr, pos, fl, failed>>

(* append_logger_TYPE for a type of n bytes: a flush first if there is no  *)
(* room.  It then takes the steps of append_logger once.                   *)
append_logger_TYPE(t, n) ==
    /\ pos[t] + n <= MaxStream[t]
    /\ \/ /\ curr[t] + n > asm_end_ptr
          /\ Step(t, "idle", "lock")
          /\ flushing' = [flushing EXCEPT ![t] = t]
       \/ /\ curr[t] + n <= asm_end_ptr
          /\ Step(t, "idle", "dest")
          /\ UNCHANGED flushing
    /\ size' = [size EXCEPT ![t] = n]
    /\ cpysz' = [cpysz EXCEPT ![t] = n]
    /\ then' = [then EXCEPT ![t] = "dest"]
    /\ UNCHANGED <<tls, curr, ptr, buffer, mutex, file, addr, pos, block, todo, calls, failed>>

(* Where the bytes go, from a load of asm_curr_ptr of its own. *)
Dest(t) ==
    /\ Step(t, "dest", "copy")
    /\ addr' = [addr EXCEPT ![t] = curr[t]]
    /\ UNCHANGED <<tls, curr, ptr, buffer, mutex, file, size, cpysz, pos, fl, failed>>

(* The memcpy, or the assignment of a TYPE. *)
Copy(t) ==
    LET first == addr[t] - ASM_BASE
    IN  /\ Step(t, "copy", "load")
        /\ buffer' = [buffer EXCEPT ![t] =
               [i \in Offsets |-> IF i \in first .. first + cpysz[t] - 1
                                  THEN pos[t] + (i - first) ELSE @[i]]]
        /\ UNCHANGED <<tls, curr, ptr, mutex, file, app, fl, failed>>

(* The load of asm_curr_ptr += ...: after an assignment the compiler may   *)
(* still have the value from the computation of the address.               *)
Load(t) ==
    /\ Step(t, "load", "store")
    /\ \/ addr' = [addr EXCEPT ![t] = curr[t]]
       \/ then[t] = "dest" /\ UNCHANGED addr
    /\ UNCHANGED <<tls, curr, ptr, buffer, mutex, file, size, cpysz, pos, fl, failed>>

(* The store.  append_logger flushes if something is left. *)
Store(t) ==
    /\ curr' = [curr EXCEPT ![t] = addr[t] + cpysz[t]]
    /\ pos' = [pos EXCEPT ![t] = @ + cpysz[t]]
    /\ size' = [size EXCEPT ![t] = @ - cpysz[t]]
    /\ cpysz' = [cpysz EXCEPT ![t] = 0]
    /\ addr' = [addr EXCEPT ![t] = 0]
    /\ \/ /\ size[t] > cpysz[t]
          /\ Step(t, "store", "lock")
          /\ flushing' = [flushing EXCEPT ![t] = t]
          /\ UNCHANGED then
       \/ /\ size[t] = cpysz[t]
          /\ Step(t, "store", "idle")
          /\ then' = [then EXCEPT ![t] = "idle"]
          /\ UNCHANGED flushing
    /\ UNCHANGED <<tls, ptr, buffer, mutex, file, block, todo, calls, failed>>

-----------------------------------------------------------------------------
(* flush_logger, by thread t on the logger flushing[t] *)

(* Mutant: the mutex is not waited for. *)
MayLock_Always(l) == TRUE

MayLock(l) == ~mutex[l]

LockLogger(t) ==
    /\ Step(t, "lock", "setptr")
    /\ MayLock(flushing[t])
    /\ mutex' = [mutex EXCEPT ![flushing[t]] = TRUE]
    /\ UNCHANGED <<tls, curr, ptr, buffer, file, app, fl, failed>>

CurrOffset(l) == (curr[l] - ASM_BASE) % AddrSpace

(* curr_offset is stored to bb.ptr and then checked by the assertion. *)
set_bigbuffer_ptr(t) ==
    /\ \/ /\ Step(t, "setptr", "open")
          /\ CurrOffset(flushing[t]) < BIGBUFFER_SZ
       \/ /\ Die(t, "setptr")
          /\ CurrOffset(flushing[t]) >= BIGBUFFER_SZ
    /\ ptr' = [ptr EXCEPT ![flushing[t]] = CurrOffset(flushing[t])]
    /\ UNCHANGED <<tls, curr, buffer, mutex, file, app, fl, failed>>

(* Mutant: the early return leaves the mutex locked. *)
AfterFailure_Locked(l) == TRUE

AfterFailure(l) == FALSE

(* The log cannot be opened: the mutex is released ... *)
OpenFails(t) ==
    /\ Step(t, "open", "dropptr")
    /\ mutex' = [mutex EXCEPT ![flushing[t]] = AfterFailure(flushing[t])]
    /\ failed' = failed \cup {l \in {flushing[t]} : ptr[l] # 0}
    /\ UNCHANGED <<tls, curr, ptr, buffer, file, app, fl>>

(* ... and what is buffered is dropped. *)
DropPtr(t) ==
    /\ Step(t, "dropptr", "dropcurr")
    /\ ptr' = [ptr EXCEPT ![flushing[t]] = 0]
    /\ UNCHANGED <<tls, curr, buffer, mutex, file, app, fl, failed>>

DropCurr(t) ==
    /\ Step(t, "dropcurr", then[t])
    /\ curr' = [curr EXCEPT ![flushing[t]] = ASM_BASE]
    /\ flushing' = [flushing EXCEPT ![t] = NoThread]
    /\ UNCHANGED <<tls, ptr, buffer, mutex, file, app, then, block, todo, calls, failed>>

(* It is opened.  flush_bigbuffer writes nothing for an empty buffer; else *)
(* flush_small_buffer compresses bb.ptr bytes and writes the head ...      *)
WriteBlockHead(t) ==
    LET l == flushing[t]
    IN  /\ \/ /\ Step(t, "open", "close")
              /\ ptr[l] = 0
              /\ UNCHANGED <<file, block>>
           \/ /\ Step(t, "open", "blockdata")
              /\ ptr[l] # 0
              /\ block' = [block EXCEPT ![t] = [i \in 1 .. ptr[l] |-> buffer[l][i - 1]]]
              /\ file' = [file EXCEPT ![l] = Append(@, Item("head", ptr[l], <<>>))]
           \/ /\ Die(t, "open")
              /\ ptr[l] # 0
              /\ UNCHANGED <<file, block>>
        /\ UNCHANGED <<tls, curr, ptr, buffer, mutex, app, flushing, then, todo, calls, failed>>

(* ... and the data. *)
WriteBlockData(t) ==
    /\ \/ /\ Step(t, "blockdata", "close")
          /\ file' = [file EXCEPT ![flushing[t]] = Append(@, Item("data", 0, block[t]))]
          /\ block' = [block EXCEPT ![t] = <<>>]
       \/ /\ Die(t, "blockdata")
          /\ UNCHANGED <<file, block>>
    /\ UNCHANGED <<tls, curr, ptr, buffer, mutex, app, flushing, then, todo, calls, failed>>

(* Mutant: asm_curr_ptr is left where it is. *)
AfterFlush_Keep(l) == curr[l]

AfterFlush(l) == ASM_BASE

(* The end of a flush: reset_bigbuffer_ptr, sys_close, whose failure is    *)
(* FATAL, the reset of asm_curr_ptr and the unlock.                        *)
Close(t) ==
    /\ \/ /\ Step(t, "close", then[t])
          /\ curr' = [curr EXCEPT ![flushing[t]] = AfterFlush(flushing[t])]
          /\ flushing' = [flushing EXCEPT ![t] = NoThread]
       \/ /\ Die(t, "close")
          /\ UNCHANGED <<curr, flushing>>
    /\ ptr' = [ptr EXCEPT ![flushing[t]] = 0]
    /\ mutex' = [mutex EXCEPT ![flushing[t]] = FALSE]
    /\ UNCHANGED <<tls, buffer, file, app, then, block, todo, calls, failed>>

flush_logger(t) ==
    \/ LockLogger(t) \/ set_bigbuffer_ptr(t)
    \/ OpenFails(t) \/ DropPtr(t) \/ DropCurr(t)
    \/ WriteBlockHead(t) \/ WriteBlockData(t) \/ Close(t)

-----------------------------------------------------------------------------
(* Who flushes *)

flush_self_logger(t) ==
    /\ Step(t, "idle", "lock")
    /\ calls[t] < MaxCalls
    /\ calls' = [calls EXCEPT ![t] = @ + 1]
    /\ flushing' = [flushing EXCEPT ![t] = t]
    /\ UNCHANGED <<tls, curr, ptr, buffer, mutex, file, app, then, block, todo, failed>>

flush_all_logger(t) ==
    /\ Step(t, "idle", "nextarea")
    /\ ~tls_lock
    /\ tls_lock' = TRUE
    /\ calls[t] < MaxCalls
    /\ calls' = [calls EXCEPT ![t] = @ + 1]
    /\ todo' = [todo EXCEPT ![t] = tls_list]
    /\ then' = [then EXCEPT ![t] = "nextarea"]
    /\ UNCHANGED <<tls_list, curr, ptr, buffer, mutex, file, app, flushing, block, failed>>

(* Its loop over tls_list, whose areas need not have a logger yet. *)
NextArea(t) ==
    /\ \/ /\ Step(t, "nextarea", "lock")
          /\ todo[t] # <<>>
          /\ flushing' = [flushing EXCEPT ![t] = Head(todo[t])]
          /\ todo' = [todo EXCEPT ![t] = Tail(@)]
          /\ UNCHANGED <<tls_lock, then>>
       \/ /\ Step(t, "nextarea", "idle")
          /\ todo[t] = <<>>
          /\ tls_lock' = FALSE
          /\ then' = [then EXCEPT ![t] = "idle"]
          /\ UNCHANGED <<flushing, todo>>
    /\ UNCHANGED <<tls_list, curr, ptr, buffer, mutex, file, app, block, calls, failed>>

-----------------------------------------------------------------------------
(* The specification *)

Initialising == {"start", "linked", "create", "filehead"}

(* t is in an append, its own flush included. *)
Appending(t) ==
    pc[t] \notin Initialising \cup {"idle", "dead"} /\ then[t] \in {"avail", "dest"}

(* The loggers that another thread is flushing. *)
FlushedByOther == {l \in Threads : \E t \in Threads \ {l} : flushing[t] = l}

(* Those of them that are not initialised, and those whose owner appends.  *)
Early   == {l \in FlushedByOther : pc[l] \in Initialising}
Meeting == {l \in FlushedByOther : Appending(l)}

History == early' = early \cup Early' /\ met' = met \cup Meeting'

(* The steps inside a function, and the calls of one. *)
Running(t) ==
    \/ init_logger(t) \/ Create(t) \/ write_comp_file_head(t)
    \/ CopySize(t) \/ Dest(t) \/ Copy(t) \/ Load(t) \/ Store(t)
    \/ flush_logger(t)
    \/ NextArea(t)

Calls(t) ==
    \/ Link(t)
    \/ \E n \in 1 .. MaxAppend : append_logger(t, n)
    \/ \E n \in TypeSizes : append_logger_TYPE(t, n)
    \/ flush_self_logger(t)
    \/ flush_all_logger(t)

RunningStep(t) == Running(t) /\ History

Next == \E t \in Threads : (Calls(t) \/ Running(t)) /\ History

(* A thread inside a function is scheduled again and again. *)
Spec == Init /\ [][Next]_vars /\ \A t \in Threads : WF_vars(RunningStep(t))

-----------------------------------------------------------------------------
(* Properties *)

PCs == {"start", "linked", "create", "filehead", "idle", "avail", "dest", "copy", "load",
        "store", "lock", "setptr", "open", "blockdata", "close", "dropptr", "dropcurr",
        "nextarea", "dead"}

Items == [kind : {"filehead", "head", "data"}, ori_sz : Nat, bytes : Seq(Int)]

(* The types of struct logger_tpd_stub and struct bigbuffer, and of what a *)
(* thread in append_logger or flush_logger has in its registers.           *)
TypeOK ==
    /\ pc \in [Threads -> PCs]
    /\ tls_list \in Seq(Threads) /\ tls_lock \in BOOLEAN
    /\ curr \in [Threads -> Nat] /\ ptr \in [Threads -> Nat]
    /\ buffer \in [Threads -> [Offsets -> Int]]
    /\ mutex \in [Threads -> BOOLEAN]
    /\ file \in [Threads -> Seq(Items)]
    /\ size \in [Threads -> Nat] /\ cpysz \in [Threads -> Nat]
    /\ addr \in [Threads -> Nat] /\ pos \in [Threads -> Nat]
    /\ flushing \in [Threads -> Threads \cup {NoThread}]
    /\ then \in [Threads -> {"idle", "avail", "dest", "nextarea"}]
    /\ block \in [Threads -> Seq(Int)] /\ todo \in [Threads -> Seq(Threads)]
    /\ calls \in [Threads -> Nat]
    /\ failed \subseteq Threads /\ early \subseteq Threads /\ met \subseteq Threads

(* Whoever flushes meanwhile, asm_curr_ptr of an initialised logger stays  *)
(* between the start of the buffer and asm_end_ptr, and a copy in progress *)
(* (memcpy of append_logger, the store of append_logger_TYPE) stays below  *)
(* asm_end_ptr: a flush by another thread between any two accesses only    *)
(* ever lowers the pointer.  So the assertion of flush_logger fails for no *)
(* logger that is initialised.                                             *)
CursorInside ==
    \A t \in Threads :
        /\ pc[t] \notin {"start", "linked", "dead"} => curr[t] \in ASM_BASE .. asm_end_ptr
        /\ pc[t] = "copy" => /\ addr[t] >= ASM_BASE
                             /\ addr[t] + cpysz[t] <= asm_end_ptr

(* The blocks in a log never interleave, though two threads may flush it   *)
(* at the same time and each block takes two writes: a head is followed by *)
(* as many bytes as it says, if not by the end of the file.  Excepted is a *)
(* logger that was flushed before init_logger, which resets the mutex.     *)
BlocksWhole ==
    \A l \in Threads \ early : \A k \in DOMAIN file[l] :
        LET i == file[l][k]
        IN  /\ i.kind = "filehead" => k = 1
            /\ i.kind = "data" => k > 1 /\ file[l][k - 1].kind = "head"
            /\ i.kind = "head" /\ k < Len(file[l]) =>
                   /\ file[l][k + 1].kind = "data"
                   /\ Len(file[l][k + 1].bytes) = i.ori_sz

(* What is buffered and not yet in the file. *)
Buffered(l) ==
    IF \E t \in Threads : flushing[t] = l /\ pc[t] = "close"
    THEN <<>>
    ELSE [i \in 1 .. curr[l] - ASM_BASE |-> buffer[l][i - 1]]

(* The bytes of an item of a log and, behind the last item, those that are *)
(* buffered.                                                               *)
Chunk(l, k) == IF k \in DOMAIN file[l] THEN file[l][k].bytes ELSE Buffered(l)

(* A log that no other thread flushed in the midst of an append repeats    *)
(* and reorders nothing, and if every open succeeded it lacks nothing: the *)
(* file and the buffer are all that the thread has appended, although      *)
(* flush_all_logger may have written it from any thread.                   *)
StreamKept ==
    \A l \in Threads \ (early \cup met) :
        pc[l] \notin Initialising \cup {"dead"} =>
            LET Chunks == 1 .. Len(file[l]) + 1
            IN  /\ \A k, m \in Chunks :
                      \A i \in DOMAIN Chunk(l, k), j \in DOMAIN Chunk(l, m) :
                          k < m \/ (k = m /\ i < j) => Chunk(l, k)[i] < Chunk(l, m)[j]
                /\ \A k \in Chunks : \A i \in DOMAIN Chunk(l, k) :
                      Chunk(l, k)[i] \in 0 .. pos[l] - 1
                /\ l \notin failed =>
                      \A n \in 0 .. pos[l] - 1 :
                          \E k \in Chunks : \E i \in DOMAIN Chunk(l, k) : Chunk(l, k)[i] = n

(* append_logger ends, also if the log can never be opened and however     *)
(* much is appended, unless the process ends or other threads keep         *)
(* flushing this logger for ever.                                          *)
AppendEnds ==
    \A t \in Threads :
        <>[](\A u \in Threads \ {t} : flushing[u] # t) =>
            (Appending(t) ~> ~Appending(t))
=============================================================================
