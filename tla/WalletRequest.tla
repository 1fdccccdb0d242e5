---------------------------- MODULE WalletRequest ----------------------------
(***************************************************************************)
(* A treasury used as a wallet by another application: the connector that  *)
(* application loads (trezu-wallet.ts) opens the page /wallet in a popup   *)
(* and waits for one message of it, and the page (app/wallet/page.tsx)     *)
(* files the requested transactions as proposals of a treasury, waits for  *)
(* its members' votes and answers with the transactions that executed      *)
(* them.  The page can be reloaded, and what survives is its URL.          *)
(*                                                                         *)
(* The application asks for one thing at a time.  A message is taken at    *)
(* once: it is queued before anything the user can do after it, and the    *)
(* connector closes the popup when it takes it.                            *)
(***************************************************************************)
EXTENDS Integers, Sequences, SequencesExt, Absent

CONSTANTS
    Treasuries,
    MemberOf,      \* treasuries of the connected account
    Requested,     \* the transactions: each the types of its actions
    MaxPopups,     \* bound: popups opened
    MaxConfirms,   \* bound: times the transactions are confirmed
    MaxReloads,    \* bound: reloads of the page
    MaxFetches     \* bound: requests for the treasuries in flight

ASSUME WalletAssumption ==
    /\ MemberOf \subseteq Treasuries /\ None \notin Treasuries
    /\ Requested \in Seq(Seq({"Transfer", "FunctionCall", "Other"}))
    /\ MaxPopups \in Nat /\ MaxConfirms \in Nat /\ MaxReloads \in Nat
    /\ MaxFetches \in Nat

VARIABLES
    asked,     \* the promise the application holds: what it asked for and what came of it
    signedIn,  \* signedAccountId, in the application's local storage
    tab,       \* the popup's page, None when it is closed
    link,      \* the popup's URL
    filings,   \* handleConfirmTransactions in flight
    checking,  \* handleProceed in flight
    filed,     \* the proposals of the treasuries that this page filed
    popups, confirms, reloads

walletVars == <<asked, signedIn, tab, link, filings, checking, filed,
                popups, confirms, reloads>>

\* translateToProposals: a proposal for each transfer, and one for all the function calls.
ProposalsOf(actions) ==
    SelectSeq(actions, LAMBDA a : a = "Transfer")
        \o (IF Contains(actions, "FunctionCall") THEN <<"FunctionCall">> ELSE <<>>)
AllProposals == FlattenSeq([i \in DOMAIN Requested |-> ProposalsOf(Requested[i])])
IsTranslated == \A i \in DOMAIN Requested : ~Contains(Requested[i], "Other")

Steps == {"connect", "select-treasury", "confirm-transactions", "processing",
          "waiting-approval", "error"}
Ids == Seq(1..(MaxConfirms * Len(AllProposals)))
Tabs == [step : Steps, account : BOOLEAN, answers : Nat, dao : Treasuries \cup {None},
         transactions : BOOLEAN, ids : Seq(Nat), approvalLoading : BOOLEAN]
\* null is no page.
ASSUME PagesAreDefined == None \notin Tabs
Links == [action : {"sign_in", "sign_transactions"}, signer : Treasuries \cup {None},
          transactions : BOOLEAN, dao : Treasuries \cup {None}, ids : Ids]

NotAsked == [what |-> "nothing", outcome |-> "none", value |-> None]

WalletTypeOK ==
    /\ asked.what \in {"nothing", "sign_in", "sign_transactions"}
    /\ asked.outcome \in {"none", "pending", "resolved", "rejected"}
    /\ signedIn \in Treasuries \cup {None}
    /\ tab = None \/ (tab \in Tabs /\ tab.answers <= MaxFetches /\ tab.ids \in Ids)
    /\ link = None \/ link \in Links
    /\ \A f \in filings : f.no \in 1..MaxConfirms /\ f.at \in DOMAIN AllProposals /\ f.ids \in Ids
    /\ checking = None \/ (checking.ids \in Ids /\ checking.at \in DOMAIN checking.ids)
    /\ \A p \in Range(filed) : /\ p.by \in 1..MaxConfirms /\ p.known \in BOOLEAN
                               /\ p.status \in {"InProgress", "Approved", "Rejected"}
    /\ popups \in 0..MaxPopups /\ confirms \in 0..MaxConfirms /\ reloads \in 0..MaxReloads

WalletInit ==
    /\ asked = NotAsked /\ signedIn \in Treasuries \cup {None}
    /\ tab = None /\ link = None /\ filings = {} /\ checking = None
    /\ filed = <<>> /\ popups = 0 /\ confirms = 0 /\ reloads = 0

-----------------------------------------------------------------------------
\* A page starts from its URL: proposals to wait for, else a request to be confirmed.
Started(l) ==
    LET waits == l.dao # None /\ l.ids # <<>> IN
    [step |-> IF waits THEN "waiting-approval" ELSE "connect",
     account |-> FALSE, answers |-> 0,
     dao |-> IF waits THEN l.dao ELSE None,
     transactions |-> ~waits /\ l.transactions,
     ids |-> IF waits THEN l.ids ELSE <<>>, approvalLoading |-> FALSE]

\* signIn and signAndSendTransactions: handlePopup opens the page and listens.
OpenPopup(what) ==
    /\ asked.outcome # "pending" /\ popups < MaxPopups
    /\ (what = "sign_in") <=> (signedIn = None)
    /\ asked' = [what |-> what, outcome |-> "pending", value |-> None]
    /\ link' = [action |-> what, signer |-> signedIn, dao |-> None, ids |-> <<>>,
                transactions |-> what = "sign_transactions"]
    /\ tab' = Started(link') /\ filings' = {} /\ checking' = None
    /\ popups' = popups + 1
    /\ UNCHANGED <<signedIn, filed, confirms, reloads>>

\* The page is gone, and with it what it was waiting for; the wallet's answers find nobody.
Gone == tab' = None /\ filings' = {} /\ checking' = None

\* The transactions are read from an RPC node before the promise resolves, and may not be.
Succeed(value) ==
    /\ Gone
    /\ \/ /\ asked' = [asked EXCEPT !.outcome = "resolved", !.value = value]
          /\ signedIn' = IF asked.what = "sign_in" THEN value ELSE signedIn
       \/ /\ asked.what = "sign_transactions"
          /\ asked' = [asked EXCEPT !.outcome = "rejected"] /\ UNCHANGED signedIn

Fail == Gone /\ asked' = [asked EXCEPT !.outcome = "rejected"] /\ UNCHANGED signedIn

\* What the wallet was signing when the page went may still be added.
NewProposal(f, known) == [by |-> f.no, known |-> known, status |-> "InProgress"]
LeftBehind == {filed} \cup {Append(filed, NewProposal(f, FALSE)) : f \in filings}

\* The poll finds the popup closed by its user.
FindClosed ==
    /\ asked.outcome = "pending" /\ tab = None
    /\ asked' = [asked EXCEPT !.outcome = "rejected"]
    /\ UNCHANGED <<signedIn, tab, link, filings, checking, filed, popups, confirms, reloads>>

SignOut ==
    /\ signedIn # None /\ asked.outcome # "pending" /\ signedIn' = None
    /\ UNCHANGED <<asked, tab, link, filings, checking, filed, popups, confirms, reloads>>

-----------------------------------------------------------------------------
\* The effect that fetches the treasuries runs again when the account or the step changes.
Refetch(t) == IF t.account /\ t.step = "connect" THEN [t EXCEPT !.answers = @ + 1] ELSE t

\* The wallet's session is restored, or the user connects.
AccountArrives ==
    /\ tab # None /\ ~tab.account
    /\ tab' = Refetch([tab EXCEPT !.account = TRUE])
    /\ UNCHANGED <<asked, signedIn, link, filings, checking, filed, popups, confirms, reloads>>

\* The user gives up connecting, maybe after the session was restored after all.
ConnectFails ==
    /\ tab # None /\ tab.step = "connect" /\ tab' = [tab EXCEPT !.step = "error"]
    /\ UNCHANGED <<asked, signedIn, link, filings, checking, filed, popups, confirms, reloads>>

TreasuriesAnswer ==
    /\ tab # None /\ tab.answers > 0
    /\ \/ tab' = [tab EXCEPT !.answers = @ - 1, !.step = "error"]
       \/ /\ link.action = "sign_transactions" /\ link.signer \in MemberOf
          /\ tab' = [tab EXCEPT !.answers = @ - 1, !.dao = link.signer,
                                !.step = "confirm-transactions"]
       \/ /\ ~(link.action = "sign_transactions" /\ link.signer \in MemberOf)
          /\ tab' = [tab EXCEPT !.answers = @ - 1, !.step = "select-treasury"]
    /\ UNCHANGED <<asked, signedIn, link, filings, checking, filed, popups, confirms, reloads>>

HandleSelectTreasury(d) ==
    /\ tab # None /\ tab.step = "select-treasury" /\ d \in MemberOf
    /\ \/ /\ link.action = "sign_in" /\ Succeed(d) /\ filed' \in LeftBehind
       \/ /\ link.action = "sign_transactions"
          /\ tab' = [tab EXCEPT !.dao = d, !.step = "confirm-transactions"]
          /\ UNCHANGED <<asked, signedIn, filings, checking, filed>>
    /\ UNCHANGED <<link, popups, confirms, reloads>>

HandleConfirmTransactions ==
    /\ tab # None /\ tab.step = "confirm-transactions" /\ tab.transactions
    /\ confirms < MaxConfirms /\ AllProposals # <<>> /\ confirms' = confirms + 1
    /\ IF IsTranslated
       THEN /\ filings' = filings \cup {[no |-> confirms + 1, dao |-> tab.dao, at |-> 1, ids |-> <<>>]}
            /\ tab' = [tab EXCEPT !.step = "processing"]
       ELSE /\ tab' = [tab EXCEPT !.step = "error"] /\ UNCHANGED filings
    /\ UNCHANGED <<asked, signedIn, link, checking, filed, popups, reloads>>

\* The user's wallet adds a proposal.  Its id is read from the result, or left out when the
\* wallet's result has another shape; after the last one the URL keeps what was filed.
Filed(f, known) ==
    LET ids == IF known THEN Append(f.ids, Len(filed) + 1) ELSE f.ids IN
    /\ filed' = Append(filed, NewProposal(f, known))
    /\ IF f.at < Len(AllProposals)
       THEN /\ filings' = (filings \ {f}) \cup {[f EXCEPT !.at = @ + 1, !.ids = ids]}
            /\ UNCHANGED <<tab, link>>
       ELSE /\ filings' = filings \ {f}
            /\ link' = [link EXCEPT !.dao = f.dao, !.ids = ids, !.transactions = FALSE,
                                    !.signer = None]
            /\ tab' = [tab EXCEPT !.ids = ids, !.step = "waiting-approval"]
    /\ UNCHANGED <<asked, signedIn, checking, popups, confirms, reloads>>

\* The wallet refuses, or its answer is lost after the proposal was added.
FilingFails(f) ==
    /\ filings' = filings \ {f} /\ tab' = [tab EXCEPT !.step = "error"]
    /\ filed' \in {filed, Append(filed, NewProposal(f, FALSE))}
    /\ UNCHANGED <<asked, signedIn, link, checking, popups, confirms, reloads>>

\* The members of the treasury decide; a proposal the page does not know is read by nobody.
DecideFiled(i) ==
    /\ filed[i].known /\ filed[i].status = "InProgress"
    /\ \E s \in {"Approved", "Rejected"} : filed' = [filed EXCEPT ![i].status = s]
    /\ UNCHANGED <<asked, signedIn, tab, link, filings, checking, popups, confirms, reloads>>

HandleProceed ==
    /\ tab # None /\ tab.step = "waiting-approval" /\ ~tab.approvalLoading /\ tab.ids # <<>>
    /\ tab' = [tab EXCEPT !.approvalLoading = TRUE]
    /\ checking' = [ids |-> tab.ids, at |-> 1, hashes |-> <<>>]
    /\ UNCHANGED <<asked, signedIn, link, filings, filed, popups, confirms, reloads>>

\* Mutant: a proposal that is not rejected counts as approved.
MayPassPending(i) == filed[i].status # "Rejected"

\* The loop goes on past this proposal.
MayPass(i) == filed[i].status = "Approved"

CheckEnds ==
    /\ checking' = None /\ tab' = [tab EXCEPT !.approvalLoading = FALSE]
    /\ UNCHANGED <<asked, signedIn, filings, filed>>

\* One round of the loop: the status, and for an approved proposal the transaction that
\* executed it, when the index has it.  After the last round the hashes found are sent.
CheckNext ==
    /\ checking # None
    /\ LET i == checking.ids[checking.at] IN
       \/ /\ MayPass(i)
          /\ \E hashes \in {checking.hashes, Append(checking.hashes, i)} :
             \/ /\ checking.at < Len(checking.ids)
                /\ checking' = [checking EXCEPT !.at = @ + 1, !.hashes = hashes]
                /\ UNCHANGED <<asked, signedIn, tab, filings, filed>>
             \/ /\ checking.at = Len(checking.ids) /\ hashes # <<>>
                /\ Succeed(hashes) /\ filed' \in LeftBehind
             \/ /\ checking.at = Len(checking.ids) /\ hashes = <<>> /\ CheckEnds
       \/ filed[i].status = "Rejected" /\ Fail /\ filed' \in LeftBehind
       \/ CheckEnds  \* still pending, or the proposal could not be fetched
    /\ UNCHANGED <<link, popups, confirms, reloads>>

TryAgain ==
    /\ tab # None /\ tab.step = "error" /\ tab.answers < MaxFetches
    /\ tab' = Refetch([tab EXCEPT !.step = "connect"])
    /\ UNCHANGED <<asked, signedIn, link, filings, checking, filed, popups, confirms, reloads>>

\* The cancel button answers and closes; a step that is under way has none.
HandleCancel ==
    /\ tab # None /\ tab.step \in {"connect", "select-treasury", "confirm-transactions",
                                   "waiting-approval", "error"}
    /\ Fail /\ filed' \in LeftBehind
    /\ UNCHANGED <<link, popups, confirms, reloads>>

CloseWindow ==
    /\ tab # None /\ Gone /\ filed' \in LeftBehind
    /\ UNCHANGED <<asked, signedIn, link, popups, confirms, reloads>>

Reload ==
    /\ tab # None /\ reloads < MaxReloads
    /\ tab' = Started(link) /\ filings' = {} /\ checking' = None
    /\ filed' \in LeftBehind /\ reloads' = reloads + 1
    /\ UNCHANGED <<asked, signedIn, link, popups, confirms>>

WalletNext ==
    \/ \E what \in {"sign_in", "sign_transactions"} : OpenPopup(what)
    \/ FindClosed \/ SignOut
    \/ AccountArrives \/ ConnectFails \/ TreasuriesAnswer
    \/ \E d \in Treasuries : HandleSelectTreasury(d)
    \/ HandleConfirmTransactions
    \/ \E f \in filings : \/ \E known \in BOOLEAN : Filed(f, known)
                          \/ FilingFails(f)
    \/ \E i \in DOMAIN filed : DecideFiled(i)
    \/ HandleProceed \/ CheckNext \/ TryAgain
    \/ HandleCancel \/ CloseWindow \/ Reload

WalletSpec == WalletInit /\ [][WalletNext]_walletVars

-----------------------------------------------------------------------------
(* What the application is told was executed was: the promise resolves with *)
(* transactions of approved proposals, and every proposal whose id the page *)
(* knows of the same confirmation is approved too, whatever was voted while *)
(* they were checked one by one, and whether the page was reloaded or not.  *)
ResolvedRequestsWereApproved ==
    (asked.what = "sign_transactions" /\ asked.outcome = "resolved") =>
        /\ asked.value # <<>>
        /\ \A i \in Range(asked.value) :
            /\ filed[i].status = "Approved"
            /\ \A p \in Range(filed) :
                (p.by = filed[i].by /\ p.known) => p.status = "Approved"
=============================================================================
