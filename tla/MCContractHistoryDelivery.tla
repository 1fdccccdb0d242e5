--------------------- MODULE MCContractHistoryDelivery ---------------------
(***************************************************************************)
(* The contract, the history of a confidential treasury and the delivery   *)
(* of notifications share nothing; in this run a behaviour is of the one   *)
(* chosen at its start, and the others stay as they began, where no        *)
(* fairness asks them for a step and no property waits for one.            *)
(***************************************************************************)
EXTENDS MCBulkPayment, MCGoldHistory, MCTelegramDelivery

VARIABLE part

partsVars == <<part, contractVars, goldVars, deliveryVars>>

PartsInit ==
    part \in {"contract", "history", "delivery"} /\ Init /\ GoldInit /\ DeliveryInit

PartsNext ==
    \/ part = "contract" /\ Next /\ UNCHANGED <<part, goldVars, deliveryVars>>
    \/ part = "history" /\ GoldNext /\ UNCHANGED <<part, contractVars, deliveryVars>>
    \/ part = "delivery" /\ DeliveryNext /\ UNCHANGED <<part, contractVars, goldVars>>

PartsSpec == PartsInit /\ [][PartsNext]_partsVars /\ WF_deliveryVars(Dispatch)
=============================================================================
