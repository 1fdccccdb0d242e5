------------------------- MODULE MCIntentsAndCredits -------------------------
(***************************************************************************)
(* Two services of the back-end that share no row, in one run: a behaviour *)
(* is of the one chosen at its start, and the other stays as it began,     *)
(* where no fairness asks it for a step and no property waits for one.     *)
(***************************************************************************)
EXTENDS MCConfidentialIntents, MCPlanCredits

VARIABLE service

servicesVars == <<service, intentsVars, creditsVars>>

ServicesInit == service \in {"intents", "credits"} /\ IntentsInit /\ CreditsInit

ServicesNext ==
    \/ service = "intents" /\ IntentsNext /\ UNCHANGED <<service, creditsVars>>
    \/ service = "credits" /\ CreditsNext /\ UNCHANGED <<service, intentsVars>>

ServicesSpec ==
    /\ ServicesInit /\ [][ServicesNext]_servicesVars
    /\ \A v \in Votes, h \in Intents : WF_intentsVars(AutoSubmit(v, h))
    /\ \A h \in Intents : WF_intentsVars(MarkSubmitted(h))
    /\ WF_creditsVars(ReadDue) /\ WF_creditsVars(CommitReset)
=============================================================================
