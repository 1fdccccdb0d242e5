-------------------------- MODULE MCTreasuryPages --------------------------
(***************************************************************************)
(* Instances of the front-end's pages for TLC.  A tab shows one page at a  *)
(* time and a page forgets what it held when it is left, so a behaviour is *)
(* that of the one page opened at its start.                               *)
(***************************************************************************)
EXTENDS BulkUpload, BulkParsing, ExchangeForm, MembersPage, AnnouncementQueue, PaymentForm,
        WalletRequest, DepositPage

VARIABLE page  \* the page the tab shows

pagesVars == <<page, bulkVars, parseVars, exchangeVars, membersVars, queueVars, paymentVars,
               walletVars, depositVars>>

PagesInit ==
    /\ page \in {"bulk-payment", "sheet", "exchange", "members", "announcements", "payments",
                "wallet", "deposit"}
    /\ page = "sheet" \/ sheet = CHOOSE s \in Sheets : TRUE
    /\ page = "wallet" \/ signedIn = None
    /\ BulkInit /\ ParseInit /\ ExchangeInit /\ MembersInit /\ QueueInit /\ PaymentInit
    /\ page = "deposit" \/ treasuryKind = CHOOSE k \in TreasuryKinds : TRUE
    /\ page = "deposit" \/ prefill = CHOOSE l \in PrefillLinks : TRUE
    /\ WalletInit /\ DepositInit

PagesNext ==
    \/ /\ page = "bulk-payment" /\ BulkNext
       /\ UNCHANGED <<page, parseVars, exchangeVars, membersVars, queueVars, paymentVars,
                      walletVars, depositVars>>
    \/ /\ page = "sheet" /\ ParseNext
       /\ UNCHANGED <<page, bulkVars, exchangeVars, membersVars, queueVars, paymentVars,
                      walletVars, depositVars>>
    \/ /\ page = "exchange" /\ ExchangeNext
       /\ UNCHANGED <<page, bulkVars, parseVars, membersVars, queueVars, paymentVars,
                      walletVars, depositVars>>
    \/ /\ page = "members" /\ MembersNext
       /\ UNCHANGED <<page, bulkVars, parseVars, exchangeVars, queueVars, paymentVars,
                      walletVars, depositVars>>
    \/ /\ page = "announcements" /\ QueueNext
       /\ UNCHANGED <<page, bulkVars, parseVars, exchangeVars, membersVars, paymentVars,
                      walletVars, depositVars>>
    \/ /\ page = "payments" /\ PaymentNext
       /\ UNCHANGED <<page, bulkVars, parseVars, exchangeVars, membersVars, queueVars,
                      walletVars, depositVars>>
    \/ /\ page = "wallet" /\ WalletNext
       /\ UNCHANGED <<page, bulkVars, parseVars, exchangeVars, membersVars, queueVars,
                      paymentVars, depositVars>>
    \/ /\ page = "deposit" /\ DepositNext
       /\ UNCHANGED <<page, bulkVars, parseVars, exchangeVars, membersVars, queueVars,
                      paymentVars, walletVars>>

PagesSpec == PagesInit /\ [][PagesNext]_pagesVars

-----------------------------------------------------------------------------
(* The bulk upload: two files, and rows edited to an existing and to a     *)
(* missing account.                                                        *)
CONSTANTS ann, bob, zed, file, paste
PaidRow(n, a) == [to |-> n, amt |-> a]
BulkRanks == [n \in Names |-> CASE n = ann -> 1 [] n = bob -> 2 [] n = zed -> 3]
BulkParsed == [f \in Texts |->
    IF f = file THEN <<PaidRow(bob, 1), PaidRow(ann, 2)>> ELSE <<PaidRow(zed, 1)>>]
BulkEdits == {PaidRow(ann, 1), PaidRow(zed, 1)}

(* The sheets: one line with any number of up to three separators, and     *)
(* lists of three lines with something odd in them.                        *)
CONSTANTS near, usdc
NumberTexts == UNION {{[lens |-> l, seps |-> s, zero |-> z] :
    l \in [1..(n + 1) -> {1, 3, 4}], s \in [1..n -> {",", "."}], z \in BOOLEAN} : n \in 0..3}
FullLine(t, s) == [blank |-> FALSE, complete |-> TRUE, text |-> t, symbol |-> s,
                   positive |-> TRUE, valid |-> TRUE]
Ten == [lens |-> <<2>>, seps |-> << >>, zero |-> FALSE]
OddLines == {[FullLine(Ten, None) EXCEPT !.blank = TRUE],
             [FullLine(Ten, None) EXCEPT !.complete = FALSE],
             [FullLine(Ten, None) EXCEPT !.positive = FALSE],
             [FullLine(Ten, None) EXCEPT !.valid = FALSE],
             FullLine(Ten, near), FullLine(Ten, usdc)}
AllSheets ==
    {[header |-> "none", lines |-> <<FullLine(t, None)>>] :
        t \in {x \in NumberTexts : x.zero => x.lens[1] = 1}}
    \cup {[header |-> h, lines |-> <<a, b, FullLine(Ten, near)>>] :
        h \in Headers, a \in OddLines, b \in OddLines}

(* The exchange: one pair through Intents, one wrapped. *)
CONSTANTS sell, buy
ExchangeRoutes == [p \in Pairs |-> IF p = sell THEN "intents" ELSE "wrap"]

(* The members: two roles, and a link that asks for a member. *)
CONSTANTS cat, governance, requestor
Policy(g, r) == [x \in {governance, requestor} |-> IF x = governance THEN g ELSE r]
MemberRow(a, R) == [account |-> a, roles |-> R]
MembersFirst == Policy({ann, bob}, {ann, bob})
MembersOthers == {Policy({ann}, {ann, bob})}
MembersLink == <<MemberRow(cat, {governance})>>
MembersAdded == {<<MemberRow(cat, {requestor})>>, <<MemberRow(bob, {requestor})>>,
                 <<MemberRow(cat, {requestor}), MemberRow(cat, {governance})>>}

(* The announcements: one goes before two of equal priority. *)
CONSTANTS earn, notes, tour
Priorities == [i \in Items |-> IF i = earn THEN 1 ELSE 2]

(* The payments: a token on NEAR sent directly, to near.com with a live    *)
(* quote, and to another chain with a quote ensured before the review.     *)
CONSTANTS ft, alice, sol, solana, nearNetwork
Kinds == [t \in Tokens |-> "ft"]
Valid == [t \in Tokens |-> {alice}]
Networked == [t \in Tokens |-> Networks]
Fitting == [a \in Addresses |-> IF a = alice THEN {NearCom, nearNetwork} ELSE {solana}]
LowerCase == [a \in Addresses |-> a]

(* The wallet: a transaction of two proposals, asked for by a treasury the *)
(* account is a member of and by one it is not.                            *)
CONSTANTS dao, other
WalletTransactions == <<<<"Transfer", "FunctionCall">>>>

(* The deposits: an asset that is on NEAR, one that is not, and Other. *)
CONSTANTS btc, others, eth, bitcoin, nearUsdc, nearMainnet, otherNear
DepositNames == <<btc, usdc, others>>
DepositNetworks == [a \in {btc, usdc, others} |->
    CASE a = btc -> {bitcoin, nearMainnet} [] a = usdc -> {eth, nearUsdc}
      [] a = others -> {otherNear}]
DepositPortfolios == {<< >>, <<btc>>, <<btc, usdc>>}
DepositLinks == {[token |-> t, network |-> None] : t \in {None, others, eth}}
                \cup {[token |-> None, network |-> nearMainnet],
                      [token |-> btc, network |-> bitcoin]}
=============================================================================
