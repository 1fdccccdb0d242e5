---------------------------- MODULE MCBulkUpload ----------------------------
(***************************************************************************)
(* An instance of the bulk upload whose two accounts are ordered one way   *)
(* by the browser's locale and the other way by their bytes, as "a_b" and  *)
(* "a1" are, or "0xaB" and "0xAc".                                         *)
(***************************************************************************)
EXTENDS BulkUpload

CONSTANTS a1, a_b, file, ft
PaidRow(n, a) == [to |-> n, amt |-> a]
OneList == [f \in Texts |-> <<PaidRow(a1, 1), PaidRow(a_b, 2)>>]
InLocale == [n \in Names |-> IF n = a_b THEN 1 ELSE 2]
InBytes == [n \in Names |-> IF n = a1 THEN 1 ELSE 2]
=============================================================================
