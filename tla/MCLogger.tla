------------------------------ MODULE MCLogger ------------------------------
(* Logger with two threads, a buffer of three bytes of which one is        *)
(* reserved, values of one and two bytes and appends of up to three, which *)
(* go round the loop twice.  One thread appends; each can flush, and each  *)
(* can flush all loggers, in the midst of it.                              *)
EXTENDS Logger

CONSTANTS t1, t2

MCThreads == {t1, t2}
MCMaxStream == [t \in MCThreads |-> IF t = t1 THEN 3 ELSE 0]
MCTypeSizes == {1, 2}
=============================================================================
