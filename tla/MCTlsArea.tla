----------------------------- MODULE MCTlsArea -----------------------------
(* TlsArea with four threads, pages for three of them and a bitmap of two  *)
(* words of two bits: the third slot is in the second word, and the fourth *)
(* allocation can fail.                                                    *)
EXTENDS TlsArea, TLC

CONSTANTS t1, t2, t3, t4, a1, a2, a3

MCThreads == {t1, t2, t3, t4}
MCAreas == {a1, a2, a3}

(* Threads and areas are only compared for equality. *)
Sym == Permutations(MCThreads) \cup Permutations(MCAreas)
=============================================================================
