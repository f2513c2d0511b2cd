------------------------------- MODULE Absent -------------------------------
(* The value of what is not there: a nil pointer, an empty slot, no answer.   *)
(* The modules that have use for one share it, so that they can be composed.  *)

CONSTANT None
=============================================================================
