---------------------------- MODULE MCExceptions ----------------------------
(* Exceptions with frames nested three deep. *)
EXTENDS Exceptions
=============================================================================
