---------------------------- MODULE MCGoldHistory ----------------------------
(***************************************************************************)
(* Two deposits of one token within the merge window, and an exchange at   *)
(* the time of the second.                                                 *)
(***************************************************************************)
EXTENDS GoldHistory

CONSTANTS sol, zec, e1, e2, swap

MCFacts == [e \in {e1, e2, swap} |->
    CASE e = e1 -> [at |-> 2, kind |-> "deposit", origin |-> sol, destination |-> sol,
                    in |-> 0, out |-> 1]
      [] e = e2 -> [at |-> 3, kind |-> "deposit", origin |-> sol, destination |-> sol,
                    in |-> 0, out |-> 1]
      [] OTHER -> [at |-> 3, kind |-> "exchange", origin |-> sol, destination |-> zec,
                   in |-> 2, out |-> 1]]
MCReportable == [e \in {e1, e2, swap} |->
    CASE e = e1 -> {"success", "failed"}
      [] e = e2 -> {"pending", "success"}
      [] OTHER -> {"success", "unreadable"}]

(* No exchange. *)
MCDeposits == [MCReportable EXCEPT ![swap] = {}]

(* The poller sees both in one look, or each by itself. *)
MCMerged == << [asset |-> sol, at |-> 3, amount |-> 7] >>
MCNoLeg == [e \in {e1, e2} |-> 0]
MCLegs == << [asset |-> sol, at |-> 3, amount |-> 4], [asset |-> sol, at |-> 4, amount |-> 3] >>
MCOwnLeg == [e \in {e1, e2} |-> IF e = e1 THEN 1 ELSE 2]
=============================================================================
