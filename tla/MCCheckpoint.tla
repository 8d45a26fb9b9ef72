---------------------------- MODULE MCCheckpoint ----------------------------
(* Checkpoint over thirteen pages: a file mapping, anonymous memory on     *)
(* both sides of a hole, a bucket, a page without PROT_READ, shared memory,*)
(* a device and the TLS area.                                              *)
EXTENDS Checkpoint

MCKinds == <<"file", "file", "anon", "none", "none", "none", "none", "anon",
             "bucket", "noread", "shared", "dev", "own">>

(* Page 2 may lie past the end of the file that was mapped. *)
MCPastEofs == {{}, {2}}
NoPastEof == {{}}
=============================================================================
