---------------------------- MODULE PayoutLedger ----------------------------
(***************************************************************************)
(* What the bulk payment contract promises, without lists, credits, gas or *)
(* promises: an approval makes a set of payments owed, all at once; an     *)
(* owed payment is discharged once; nothing is ever owed again.            *)
(***************************************************************************)
CONSTANT Payments
VARIABLES owed, discharged

ledgerVars == <<owed, discharged>>

Init == owed = {} /\ discharged = {}

(* An approval: new payments become owed together. *)
Owe(S) ==
    /\ S \subseteq Payments
    /\ S \cap (owed \cup discharged) = {}
    /\ owed' = owed \cup S
    /\ UNCHANGED discharged

(* A batch: some owed payments are discharged together. *)
Discharge(S) ==
    /\ S \subseteq owed
    /\ owed' = owed \ S
    /\ discharged' = discharged \cup S

Next == \E S \in SUBSET Payments : Owe(S) \/ Discharge(S)

Spec == Init /\ [][Next]_ledgerVars
=============================================================================
