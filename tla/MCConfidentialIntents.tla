------------------------ MODULE MCConfidentialIntents ------------------------
(***************************************************************************)
(* Two intents and two vote relays: every relay about one intent, or the   *)
(* first about both.                                                       *)
(***************************************************************************)
EXTENDS ConfidentialIntents

CONSTANTS h1, h2, v1, v2

MCApart == [v \in {v1, v2} |-> IF v = v1 THEN <<h1>> ELSE <<h2>>]
MCTogether == [v \in {v1, v2} |-> IF v = v1 THEN <<h1, h2>> ELSE <<h2>>]
=============================================================================
