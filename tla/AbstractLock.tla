---------------------------- MODULE AbstractLock ----------------------------
(***************************************************************************)
(* What a lock promises its clients: at most one context holds it, and it  *)
(* passes from one holder to the next only by being free in between.       *)
(* XMutex implements it; TlsArea uses it.                                  *)
(***************************************************************************)
CONSTANT Contexts

VARIABLE holders

Init == holders = {}

Acquire(p) ==
    /\ holders = {}
    /\ holders' = {p}

Release(p) ==
    /\ holders = {p}
    /\ holders' = {}

Next == \E p \in Contexts : Acquire(p) \/ Release(p)

Spec == Init /\ [][Next]_holders
=============================================================================
