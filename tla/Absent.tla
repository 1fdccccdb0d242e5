------------------------------- MODULE Absent -------------------------------
(***************************************************************************)
(* null and undefined of the front-end: the value of a field, a ref or an  *)
(* answer that is not there.                                               *)
(***************************************************************************)
CONSTANT None
=============================================================================
