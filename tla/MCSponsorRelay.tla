--------------------------- MODULE MCSponsorRelay ---------------------------
(***************************************************************************)
(* Three relays that share a gas credit: a proposal that attaches its bond *)
(* and one signed vote relayed twice, with a registration in common and,   *)
(* once, one registration too many.                                        *)
(***************************************************************************)
EXTENDS SponsorRelay

CONSTANTS r1, r2, r3, a1, a2, dao, old, t1, t2

MCAdd(d, a, deposit) == [treasury |-> d, action |-> a, kind |-> "add",
                         deposit |-> deposit, topUp |-> 2, targets |-> {}]
MCVote(d, a, ts) == [treasury |-> d, action |-> a, kind |-> "vote",
                     deposit |-> 0, topUp |-> 2, targets |-> ts]
MCBond == [d \in {dao, old} |-> IF d = old THEN 3 ELSE 0]

(* A proposal of a legacy treasury that attaches its bond, and the same    *)
(* signed vote twice, as a client relays it that saw no answer.            *)
MCAsked == [r \in {r1, r2, r3} |->
    CASE r = r1 -> MCAdd(old, a1, 2)
      [] r = r2 -> MCVote(old, a2, {t1, t2})
      [] r = r3 -> MCVote(old, a2, {t1})]
=============================================================================
