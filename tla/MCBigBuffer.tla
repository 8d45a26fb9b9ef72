---------------------------- MODULE MCBigBuffer ----------------------------
(* BigBuffer with a buffer of three bytes and requests of up to seven, so  *)
(* that one request fills the buffer more than twice.                      *)
EXTENDS BigBuffer
=============================================================================
