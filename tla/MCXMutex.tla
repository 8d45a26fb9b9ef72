------------------------------ MODULE MCXMutex ------------------------------
(* XMutex with a thread whose handlers are interrupted by handlers, one    *)
(* without handlers, and one without that runs with signals blocked.       *)
(* RECORD_PROCMASK blocks one of the two signals.                          *)
EXTENDS XMutex

CONSTANTS t1, t2, t3

MCThreads == {t1, t2, t3}

MCSignals == {"SIGALRM", "SIG33"}

MCProcmask == {"SIGALRM"}

MCHandlerMasks == {{}, Signals}

MCUserMask == [t \in Threads |-> IF t = t3 THEN Signals ELSE {}]

MCMaxLevel == [t \in Threads |-> IF t = t1 THEN 2 ELSE 0]
=============================================================================
