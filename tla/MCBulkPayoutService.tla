------------------------ MODULE MCBulkPayoutService ------------------------
(***************************************************************************)
(* Two requests of one treasury with one batch payment credit: a list of   *)
(* two payments that needs two payout calls, and a native list with a      *)
(* recipient that is no NEAR account.                                      *)
(***************************************************************************)
EXTENDS BulkPayoutService

CONSTANTS dao, l1, l2, r1, r2, near, usdc, alice, evm

MCPay(r, a) == [recipient |-> r, amount |-> a]
MCTwo == << MCPay(alice, 1), MCPay(alice, 1) >>
MCBad == << MCPay(evm, 1) >>
MCInputs == {MCTwo, MCBad}
MCRequests == {r1, r2}
MCRequest(l, t, ps) == [list |-> l, dao |-> dao, submitter |-> dao,
                        token |-> t, payments |-> ps]
(* Two different lists. *)
MCWanted == [r \in MCRequests |-> IF r = r1 THEN MCRequest(l1, near, MCTwo)
                                           ELSE MCRequest(l2, near, MCBad)]
(* The same list twice: a client that retries. *)
MCRetry == [r \in MCRequests |-> MCRequest(l1, usdc, MCTwo)]
=============================================================================
