---------------------------- MODULE MCBulkPayment ----------------------------
(***************************************************************************)
(* A small instance of the contract: two lists, a native token, an FT and an *)
(* intents token, a recipient that is no NEAR account, payment vectors with   *)
(* one record, two records, an amount of zero, and a total that overflows. *)
(***************************************************************************)
EXTENDS BulkPayment

CONSTANTS dao, l1, l2, near, usdc, btc, alice, evm

MCPay(r, a) == [recipient |-> r, amount |-> a]
MCInputs == { <<>>,
              << MCPay(alice, 1) >>,
              << MCPay(alice, 2), MCPay(evm, 0) >>,
              << MCPay(alice, 1), MCPay(alice, 3) >> }
=============================================================================
