---------------------------- MODULE MCSyscallLog ----------------------------
(* SyscallLog for a process in which one thread makes any two calls, and   *)
(* for one in which two threads and a signal handler make a short one.     *)
EXTENDS SyscallLog

CONSTANTS t1, t2

(* "socketcall" stands for the calls that have no handler. *)
AllNames == Supported \cup {"socketcall"}

MCThreads == {t1, t2}
MCContexts == {<<t1, 0>>, <<t1, 1>>, <<t2, 0>>}

Alone == [c \in MCContexts |-> IF c = <<t2, 0>> THEN [names |-> AllNames, max |-> 2]
                               ELSE [names |-> {}, max |-> 0]]
Together == [c \in MCContexts |-> [names |-> {"getpid"}, max |-> 1]]

MCPrograms == {Alone, Together}
=============================================================================
