------------------------------ MODULE MCObjMm ------------------------------
(* ObjMm with buckets of seven bytes behind a head of one.                  *)
EXTENDS ObjMm

(* 0 and the sizes from MAX_AVAL_OBJ_SIZE on are the rejected ones. *)
MCSizes == 0 .. OBJ_BUCKET_SIZE - HEAD
=============================================================================
