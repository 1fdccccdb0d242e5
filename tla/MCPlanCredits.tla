---------------------------- MODULE MCPlanCredits ----------------------------
(***************************************************************************)
(* The plans with few credits.  Requests of a plus treasury, two of them   *)
(* for the same export, and two exports of a free one.                     *)
(***************************************************************************)
EXTENDS PlanCredits

CONSTANTS af, ap, x1, x2, x3, y1, y2, g1

Limits(x, b, g) == [k \in Kinds |-> CASE k = "export" -> x [] k = "batch" -> b [] k = "gas" -> g]

MCPlanOf == [a \in Accounts |-> IF a = af THEN "free" ELSE "plus"]
MCMonthly == [p \in Plans |-> CASE p = "free" -> Limits(None, None, 1)
                                [] p = "enterprise" -> Limits(None, None, None)
                                [] OTHER -> Limits(2, 1, 2)]
MCTrial == [p \in Plans |-> IF p = "free" THEN Limits(1, 1, None) ELSE Limits(None, None, None)]

Want(a, k, u) == [account |-> a, kind |-> k, url |-> u]
MCWantsPlus == [r \in Requests |->
    CASE r = x1 -> Want(ap, "export", "a")
      [] r = x2 -> Want(ap, "export", "a")
      [] r = x3 -> Want(ap, "export", "b")
      [] r = y1 -> Want(ap, "export", "c")
      [] r = y2 -> Want(ap, "batch", "")
      [] r = g1 -> Want(ap, "gas", "")]
MCWantsTrial == [r \in Requests |-> Want(af, "export", IF r = x1 THEN "a" ELSE "b")]
=============================================================================
