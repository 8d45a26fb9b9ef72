----------------------------- MODULE SyscallLog -----------------------------
(***************************************************************************)
(* The interposed system call of core/loader/wrapper.c: the number is      *)
(* logged, the kernel executes the call, and the post handler of           *)
(* core/syscall/ logs what the program can observe of it.  All threads and *)
(* their signal handlers share logger_fd and logger_sz, and nothing in     *)
(* wrapped_syscall excludes one while another is in it.                    *)
(*                                                                         *)
(* An item is one __write_logger: its width in bytes and what it carries.  *)
(* Memory is named by the register that points to it.                      *)
(***************************************************************************)
EXTENDS Integers, Sequences, FiniteSets

CONSTANTS
  Threads,
  Contexts,     \* <<t, 0>>: the program of thread t, <<t, 1>>: its signal handler
  Programs,     \* what the contexts may do: the names of the calls each of
                \* them makes, and (a bound) how many of them
  MaxResult     \* bound: the largest result of a call

ASSUME SyscallLogAssumption ==
    /\ IsFiniteSet(Contexts)
    /\ Contexts \subseteq Threads \X (0 .. 1) /\ Threads \X {0} \subseteq Contexts
    /\ MaxResult \in Nat

-----------------------------------------------------------------------------
(* The post handlers *)

EaxOnly == {"brk", "mmap", "mmap2", "close", "open", "mprotect", "munmap",
            "write", "getpid", "rt_sigprocmask", "rt_sigaction",
            "set_tid_address", "set_robust_list", "set_thread_area", "statfs64"}

Supported == EaxOnly \cup {"fstat64", "stat64", "read", "ioctl", "gettimeofday",
                           "nanosleep", "futex", "ugetrlimit", "uname"}

FutexCmds == {"FUTEX_WAIT", "FUTEX_REQUEUE", "FUTEX_CMP_REQUEUE", "FUTEX_WAKE_OP"}

(* What the kernel and the arguments decide, as far as the handler looks   *)
(* at it: eax is a failure (-1) or a result, p and q are pointers (0 for   *)
(* NULL, 1 for any other), cmd is a futex operation.                       *)
Outcomes(n) ==
    LET Eax(S, P, Q, C) == [eax : S, p : P, q : Q, cmd : C]
        R == -1 .. MaxResult
        N == {0}
        Ptr == {0, 1}
        W == {"FUTEX_WAIT"}
    IN  CASE n \in EaxOnly -> Eax({-1, 1}, N, N, W)
          [] n = "gettimeofday" -> Eax({-1, 0}, Ptr, Ptr, W)
          [] n = "nanosleep" -> Eax({-1, 0}, Ptr, N, W)
          [] n = "futex" -> Eax(R, N, N, FutexCmds)
          [] OTHER -> Eax(R, N, N, W)

NrItem(n) == [width |-> 2, val |-> n]
EaxItem(o) == [width |-> 4, val |-> o.eax]
ObjItem(v) == [width |-> 4, val |-> v]
MemItem(reg, sz) == [width |-> sz, val |-> reg]

When(cond, items) == IF cond THEN items ELSE <<>>

sizeof == [stat64 |-> 96, old_utsname |-> 325, k_timeval |-> 8, k_timezone |-> 8,
           k_timespec |-> 8, rlimit |-> 8, syscall_regs |-> 44]

(* The handlers that log the result and nothing else; what some of them    *)
(* have under #if 0 is not there.                                          *)
post_brk(o) == <<EaxItem(o)>>
post_mmap(o) == <<EaxItem(o)>>
post_mmap2(o) == <<EaxItem(o)>>
post_close(o) == <<EaxItem(o)>>
post_open(o) == <<EaxItem(o)>>
post_mprotect(o) == <<EaxItem(o)>>
post_munmap(o) == <<EaxItem(o)>>
post_write(o) == <<EaxItem(o)>>
post_getpid(o) == <<EaxItem(o)>>
post_rt_sigprocmask(o) == <<EaxItem(o)>>
post_rt_sigaction(o) == <<EaxItem(o)>>
post_set_tid_address(o) == <<EaxItem(o)>>
post_set_robust_list(o) == <<EaxItem(o)>>
post_set_thread_area(o) == <<EaxItem(o)>>
post_statfs64(o) == <<EaxItem(o)>>

post_fstat64(o) ==
    <<EaxItem(o)>> \o When(o.eax >= 0, <<MemItem("ecx", sizeof.stat64)>>)

post_stat64(o) ==
    <<EaxItem(o)>> \o When(o.eax >= 0, <<MemItem("ecx", sizeof.stat64)>>)

post_uname(o) ==
    <<EaxItem(o)>> \o When(o.eax >= 0, <<MemItem("ebx", sizeof.old_utsname)>>)

post_read(o) ==
    <<EaxItem(o)>> \o When(o.eax > 0, <<MemItem("ecx", o.eax)>>)

post_ugetrlimit(o) ==
    <<EaxItem(o)>> \o When(o.eax = 0, <<MemItem("ecx", sizeof.rlimit)>>)

post_ioctl(o) == <<MemItem("regs", sizeof.syscall_regs), EaxItem(o)>>

post_gettimeofday(o) ==
    <<EaxItem(o)>> \o
    When(o.eax >= 0,
         <<ObjItem(o.p), ObjItem(o.q)>>
            \o When(o.p # 0, <<MemItem("ebx", sizeof.k_timeval)>>)
            \o When(o.q # 0, <<MemItem("ecx", sizeof.k_timezone)>>))

(* Mutant: the pointer itself is not logged. *)
post_nanosleep_NoPtr(o) ==
    <<EaxItem(o)>> \o When(o.p # 0, <<MemItem("ecx", sizeof.k_timespec)>>)

post_nanosleep(o) ==
    <<EaxItem(o), ObjItem(o.p)>> \o When(o.p # 0, <<MemItem("ecx", sizeof.k_timespec)>>)

post_futex(o) ==
    <<EaxItem(o)>> \o
    When(o.eax >= 0,
         <<ObjItem(o.cmd), MemItem("ebx", 4)>>
            \o When(o.cmd # "FUTEX_WAIT", <<MemItem("edi", 4)>>))

(* syscall_table[nr].post_handler, for the calls that have one. *)
post_handler(n, o) ==
    CASE n = "brk" -> post_brk(o)
      [] n = "mmap" -> post_mmap(o)
      [] n = "mmap2" -> post_mmap2(o)
      [] n = "close" -> post_close(o)
      [] n = "open" -> post_open(o)
      [] n = "mprotect" -> post_mprotect(o)
      [] n = "munmap" -> post_munmap(o)
      [] n = "write" -> post_write(o)
      [] n = "getpid" -> post_getpid(o)
      [] n = "rt_sigprocmask" -> post_rt_sigprocmask(o)
      [] n = "rt_sigaction" -> post_rt_sigaction(o)
      [] n = "set_tid_address" -> post_set_tid_address(o)
      [] n = "set_robust_list" -> post_set_robust_list(o)
      [] n = "set_thread_area" -> post_set_thread_area(o)
      [] n = "statfs64" -> post_statfs64(o)
      [] n = "fstat64" -> post_fstat64(o)
      [] n = "stat64" -> post_stat64(o)
      [] n = "uname" -> post_uname(o)
      [] n = "read" -> post_read(o)
      [] n = "ugetrlimit" -> post_ugetrlimit(o)
      [] n = "ioctl" -> post_ioctl(o)
      [] n = "gettimeofday" -> post_gettimeofday(o)
      [] n = "nanosleep" -> post_nanosleep(o)
      [] n = "futex" -> post_futex(o)

Record(n, o) == <<NrItem(n)>> \o post_handler(n, o)

Records(n) == {Record(n, o) : o \in Outcomes(n)}

-----------------------------------------------------------------------------
VARIABLES
  calls,       \* what the contexts of this process do; never changes
  pc,          \* "user", "load", "store", "write" (of __write_logger), "exec"
  name,        \* the call a context is in
  todo,        \* the items its pre or post handler has still to write
  executed,    \* the kernel has executed it
  loaded,      \* the value of logger_sz that logger_sz += sz has read
  level,       \* the level each thread is executing at
  ncalls,
  log,         \* the file: items, each with the context that wrote it
  logger_sz,
  record,      \* history: what the calls of each context have to log
  dead         \* a CASSERT has ended the process

vars == <<calls, pc, name, todo, executed, loaded, level, ncalls, log, logger_sz,
          record, dead>>

Init ==
    /\ calls \in Programs
    /\ pc = [c \in Contexts |-> "user"]
    /\ name = [c \in Contexts |-> "none"]
    /\ todo = [c \in Contexts |-> <<>>]
    /\ executed = [c \in Contexts |-> FALSE]
    /\ loaded = [c \in Contexts |-> 0]
    /\ level = [t \in Threads |-> 0]
    /\ ncalls = [c \in Contexts |-> 0]
    /\ log = <<>>
    /\ logger_sz = 0
    /\ record = [c \in Contexts |-> <<>>]
    /\ dead = FALSE

At(c, l) == ~dead /\ level[c[1]] = c[2] /\ pc[c] = l

Goto(c, l) == pc' = [pc EXCEPT ![c] = l]

(* The program calls the vsyscall entry: wrapped_syscall starts with the   *)
(* number of the call.                                                     *)
wrapped_syscall(c) ==
    /\ At(c, "user")
    /\ ncalls[c] < calls[c].max
    /\ \E n \in calls[c].names :
          /\ name' = [name EXCEPT ![c] = n]
          /\ todo' = [todo EXCEPT ![c] = <<NrItem(n)>>]
          /\ record' = [record EXCEPT ![c] = Append(@, NrItem(n))]
    /\ ncalls' = [ncalls EXCEPT ![c] = @ + 1]
    /\ executed' = [executed EXCEPT ![c] = FALSE]
    /\ Goto(c, "load")
    /\ UNCHANGED <<calls, loaded, level, log, logger_sz, dead>>

(* logger_sz += sz, of which the load ... *)
LoadSz(c) ==
    /\ At(c, "load")
    /\ loaded' = [loaded EXCEPT ![c] = logger_sz]
    /\ Goto(c, "store")
    /\ UNCHANGED <<calls, name, todo, executed, level, ncalls,
                   log, logger_sz, record, dead>>

(* Mutant: a word is counted, whatever the size of the item. *)
StoreSz_Word(c) ==
    /\ At(c, "store")
    /\ logger_sz' = loaded[c] + 4
    /\ Goto(c, "write")
    /\ UNCHANGED <<calls, name, todo, executed, loaded, level, ncalls, log, record, dead>>

(* ... and the store can be apart. *)
StoreSz(c) ==
    /\ At(c, "store")
    /\ logger_sz' = loaded[c] + Head(todo[c]).width
    /\ Goto(c, "write")
    /\ UNCHANGED <<calls, name, todo, executed, loaded, level, ncalls, log, record, dead>>

(* Where the context goes on after an item. *)
AfterWrite(c) ==
    IF Len(todo[c]) > 1 THEN "load" ELSE IF executed[c] THEN "user" ELSE "exec"

(* sys_write: logger_fd is opened with O_APPEND, so that an item is never  *)
(* torn by another one.                                                    *)
WriteItem(c) ==
    /\ At(c, "write")
    /\ log' = Append(log, [by |-> c, item |-> Head(todo[c])])
    /\ todo' = [todo EXCEPT ![c] = Tail(@)]
    /\ Goto(c, AfterWrite(c))
    /\ UNCHANGED <<calls, name, executed, loaded, level, ncalls, logger_sz, record, dead>>

(* sys_write fails: the disk is full, the program has closed logger_fd, or *)
(* the memory the item is in is not readable (any more).                   *)
WriteFails(c) ==
    /\ At(c, "write")
    /\ dead' = TRUE
    /\ UNCHANGED <<calls, pc, name, todo, executed, loaded, level, ncalls,
                   log, logger_sz, record>>

(* Mutant: the registers are kept in one place for all contexts. *)
Execute_Static(c) ==
    /\ At(c, "exec")
    /\ name[c] \in Supported
    /\ \E o \in Outcomes(name[c]) :
          /\ todo' = [d \in Contexts |-> IF executed[d] \/ d = c
                                        THEN post_handler(name[c], o) ELSE todo[d]]
          /\ record' = [record EXCEPT ![c] = @ \o post_handler(name[c], o)]
    /\ executed' = [executed EXCEPT ![c] = TRUE]
    /\ Goto(c, "load")
    /\ UNCHANGED <<calls, name, loaded, level, ncalls, log, logger_sz, dead>>

(* do_real_syscall, for a call that has a post handler. *)
Execute(c) ==
    /\ At(c, "exec")
    /\ name[c] \in Supported
    /\ \E o \in Outcomes(name[c]) :
          /\ todo' = [todo EXCEPT ![c] = post_handler(name[c], o)]
          /\ record' = [record EXCEPT ![c] = @ \o post_handler(name[c], o)]
    /\ executed' = [executed EXCEPT ![c] = TRUE]
    /\ Goto(c, "load")
    /\ UNCHANGED <<calls, name, loaded, level, ncalls, log, logger_sz, dead>>

(* A call without one is executed before its CASSERT ends the process. *)
ExecuteUnsupported(c) ==
    /\ At(c, "exec")
    /\ name[c] \notin Supported
    /\ executed' = [executed EXCEPT ![c] = TRUE]
    /\ dead' = TRUE
    /\ UNCHANGED <<calls, pc, name, todo, loaded, level, ncalls, log, logger_sz, record>>

(* A signal handler starts on top of whatever the thread is doing. *)
Deliver(t) ==
    /\ ~dead
    /\ level[t] = 0 /\ <<t, 1>> \in Contexts
    /\ level' = [level EXCEPT ![t] = 1]
    /\ UNCHANGED <<calls, pc, name, todo, executed, loaded, ncalls,
                   log, logger_sz, record, dead>>

SigReturn(t) ==
    /\ level[t] = 1
    /\ At(<<t, 1>>, "user")
    /\ level' = [level EXCEPT ![t] = 0]
    /\ UNCHANGED <<calls, pc, name, todo, executed, loaded, ncalls,
                   log, logger_sz, record, dead>>

Next ==
    \/ \E c \in Contexts :
          \/ wrapped_syscall(c) \/ LoadSz(c) \/ StoreSz(c) \/ WriteItem(c)
          \/ WriteFails(c) \/ Execute(c) \/ ExecuteUnsupported(c)
    \/ \E t \in Threads : Deliver(t) \/ SigReturn(t)

Spec == Init /\ [][Next]_vars

-----------------------------------------------------------------------------
(* Properties *)

(* The items of c in the file, and how many of them it has up to its k-th. *)
Own(c) == {k \in DOMAIN log : log[k].by = c}
Rank(c, k) == Cardinality({j \in Own(c) : j <= k})

(* However threads and signal handlers interleave in wrapped_syscall, what *)
(* each of them has logged is its calls so far, in order and without a gap *)
(* or a repetition; back in the program (pc "user") nothing is missing,    *)
(* before the kernel executes a call (pc "exec") its number is there, and  *)
(* __write_logger is entered only with something to write.                 *)
LogComplete ==
    \A c \in Contexts :
        /\ Cardinality(Own(c)) + Len(todo[c]) = Len(record[c])
        /\ \A k \in Own(c) : log[k].item = record[c][Rank(c, k)]
        /\ \A i \in 1 .. Len(todo[c]) : todo[c][i] = record[c][Cardinality(Own(c)) + i]
        /\ pc[c] \in {"user", "exec"} <=> todo[c] = <<>>

(* The log is self-delimiting: if two records of a call agree on their     *)
(* first i items then they both end there or both go on with an item of    *)
(* the same width, so that a reader that knows the handlers can always     *)
(* tell how much to read next.                                             *)
SelfDelimiting ==
    \A c \in Contexts : name[c] \in Supported => \A r, s \in Records(name[c]) :
        \A i \in 1 .. Len(r) :
            (i <= Len(s) /\ \A j \in 1 .. i : r[j] = s[j]) =>
                \/ Len(r) = i /\ Len(s) = i
                \/ Len(r) > i /\ Len(s) > i /\ r[i + 1].width = s[i + 1].width

(* The bytes in the file: <<k, i>> is the i-th of its k-th item. *)
FileBytes == UNION {{k} \X (1 .. log[k].item.width) : k \in DOMAIN log}

(* The bytes that __write_logger has counted and not written yet. *)
InFlight == UNION {{c} \X (1 .. Head(todo[c]).width) : c \in {d \in Contexts : pc[d] = "write"}}

LogSize == Cardinality(FileBytes) + Cardinality(InFlight)

(* logger_sz, "size of logger file", never counts a byte that is neither   *)
(* in the log nor on its way there, whatever updates of other threads or   *)
(* handlers are lost between the load and the store of logger_sz += sz;    *)
(* and as long as only one context has made calls it is exact.             *)
SizeNotOverstated ==
    /\ logger_sz <= LogSize
    /\ (\E c \in Contexts : \A d \in Contexts \ {c} : ncalls[d] = 0) =>
          logger_sz = LogSize
=============================================================================
