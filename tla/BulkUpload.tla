------------------------------ MODULE BulkUpload ------------------------------
(***************************************************************************)
(* The bulk payment page of the front-end (payments/bulk-payment): a list  *)
(* of payments is read from a file or pasted, reviewed, edited row by row, *)
(* and submitted to the back-end and then to the DAO.  The review step     *)
(* keeps its own copy of the rows; account checks, fee estimates, storage  *)
(* checks and submissions are promises that settle whenever they settle,   *)
(* also after the step that started them is gone.                          *)
(***************************************************************************)
EXTENDS Integers, Sequences, FiniteSets, SequencesExt, Absent

CONSTANTS
    Names,       \* recipients
    Missing,     \* those that are no account
    LocaleRank,  \* String.localeCompare
    ByteRank,    \* Ord of Rust's str
    Texts,       \* files and pasted texts
    Parsed,      \* the payments each parses to, none if it has errors
    Edits,       \* what a row may be edited to
    NearTokens,  \* tokens whose recipients are NEAR accounts
    FtTokens,    \* those of them that need storage
    ChainTokens, \* tokens that are withdrawn to another chain for a fee
    MaxPending,  \* bound: account checks and saves in flight
    MaxSubmits,  \* bound: submissions
    MaxHaste     \* bound: how often the user goes on too early

BulkTokens == NearTokens \cup ChainTokens
Pay(to, amt) == [to |-> to, amt |-> amt, bad |-> FALSE]

ASSUME BulkNamesAssumption ==
    /\ Missing \subseteq Names
    /\ LocaleRank \in [Names -> Nat] /\ ByteRank \in [Names -> Nat]
ASSUME BulkTextsAssumption ==
    /\ Parsed \in [Texts -> Seq([to : Names, amt : Nat \ {0}])]
    /\ None \notin Texts
    /\ Edits \subseteq [to : Names, amt : Nat \ {0}]
ASSUME BulkTokensAssumption ==
    FtTokens \subseteq NearTokens /\ NearTokens \cap ChainTokens = {}
ASSUME BulkBounds == MaxPending \in Nat /\ MaxSubmits \in Nat /\ MaxHaste \in Nat

VARIABLES
    bulkStep,   \* step: the upload, review or edit step
    token,      \* form.selectedToken
    upload,     \* form.csvData and the file being read
    feeJob,     \* handleContinue while it waits for the fee
    paymentData, \* the page's rows
    review,     \* the mounted review step: its rows and whether they are checked
    checks,     \* validateAccountsAndStorage in flight
    editing,    \* editingIndex and whether the form is saving
    saves,      \* handleSave of the edit step in flight
    sending,    \* onSubmit in flight
    lists,      \* lists stored by the back-end
    proposed,   \* proposals of the DAO, with what was shown when they were sent
    submits,    \* submissions so far
    hasty,      \* history: how often the user went on while something was in flight
    unchecked   \* history: a storage lookup failed

bulkVars == <<bulkStep, token, upload, feeJob, paymentData, review, checks,
              editing, saves, sending, lists, proposed, submits, hasty, unchecked>>

Payments == Seq([to : Names, amt : Nat, bad : BOOLEAN])
NoReview == [open |-> FALSE, rows |-> << >>, busy |-> FALSE]
NoSending == [stage |-> "idle"]
NoUpload == [csv |-> None, reading |-> None]

BulkTypeOK ==
    /\ bulkStep \in {"upload", "review", "edit"}
    /\ token \in BulkTokens \cup {None}
    /\ upload.csv \in Texts \cup {None} /\ upload.reading \in Texts \cup {None}
    /\ feeJob = None \/ feeJob.token \in ChainTokens
    /\ paymentData \in Payments /\ review.rows \in Payments
    /\ review.open = (bulkStep = "review")
    /\ \A c \in checks : c.rows \in Payments /\ c.live \in BOOLEAN
    /\ bulkStep = "edit" => editing # None
    /\ \A s \in saves : s.base \in Payments /\ s.edit \in Edits
    /\ sending.stage \in {"idle", "list", "proposal"}
    /\ submits \in 0..MaxSubmits /\ hasty \in 0..MaxHaste

BulkInit ==
    /\ bulkStep = "upload"
    /\ token = None
    /\ upload = NoUpload
    /\ feeJob = None
    /\ paymentData = << >>
    /\ review = NoReview
    /\ checks = {}
    /\ editing = None
    /\ saves = {}
    /\ sending = NoSending
    /\ lists = {}
    /\ proposed = {}
    /\ submits = 0
    /\ hasty = 0
    /\ unchecked = FALSE

(* What a user does while something it touches is in flight. *)
Hurry(inFlight) == /\ inFlight => hasty < MaxHaste
                   /\ hasty' = IF inFlight THEN hasty + 1 ELSE hasty

Submission == <<sending, lists, proposed, submits>>
ReviewWork == <<paymentData, review, checks, editing, saves>>
Orphaned(S) == {[c EXCEPT !.live = FALSE] : c \in S}

-----------------------------------------------------------------------------
(* The upload step *)

ChooseFile(f) ==
    /\ bulkStep = "upload" /\ upload.reading = None
    /\ upload' = [upload EXCEPT !.reading = f]
    /\ Hurry(feeJob # None)
    /\ UNCHANGED <<bulkStep, token, feeJob, ReviewWork, Submission, unchecked>>

(* reader.onload: the form outlives the step. *)
FileRead ==
    /\ upload.reading # None
    /\ upload' = [csv |-> upload.reading, reading |-> None]
    /\ UNCHANGED <<bulkStep, token, feeJob, ReviewWork, Submission, hasty, unchecked>>

SelectToken(k) ==
    /\ bulkStep = "upload" /\ token # k
    /\ token' = k
    /\ Hurry(feeJob # None)
    /\ UNCHANGED <<bulkStep, upload, feeJob, ReviewWork, Submission, unchecked>>

Fresh(ps) == [i \in DOMAIN ps |-> Pay(ps[i].to, ps[i].amt)]

(* Mutant: the rows are checked once, when they are uploaded. *)
MountOnce(rows) ==
    /\ bulkStep' = "review"
    /\ review' = [open |-> TRUE, rows |-> rows, busy |-> rows # << >> /\ bulkStep # "edit"]
    /\ checks' = Orphaned(checks) \cup
                 (IF rows = << >> \/ bulkStep = "edit" THEN {}
                  ELSE {[rows |-> rows, token |-> token, live |-> TRUE]})

(* The review step is mounted with the page's rows and checks them; rows   *)
(* marked before are not looked at again.                                  *)
Mount(rows) ==
    /\ bulkStep' = "review"
    /\ review' = [open |-> TRUE, rows |-> rows, busy |-> rows # << >>]
    /\ checks' = Orphaned(checks) \cup
                 (IF rows = << >> THEN {}
                  ELSE {[rows |-> rows, token |-> token, live |-> TRUE]})

(* handleContinueFromUpload *)
ContinueWith(rows) ==
    /\ paymentData' = rows
    /\ Mount(rows)

CanContinue == /\ bulkStep = "upload" /\ token # None /\ feeJob = None
               /\ Cardinality(checks) < MaxPending

ContinueWithFile ==
    /\ CanContinue /\ upload.csv # None /\ Parsed[upload.csv] # << >>
    /\ ContinueWith(Fresh(Parsed[upload.csv]))
    /\ Hurry(upload.reading # None \/ checks # {} \/ saves # {} \/ sending.stage # "idle")
    /\ UNCHANGED <<token, upload, feeJob, editing, saves, Submission, unchecked>>

(* The pasted text is any; the fee of a withdrawal is estimated first. *)
ContinueWithPaste(f) ==
    /\ CanContinue /\ Parsed[f] # << >>
    /\ Hurry(checks # {} \/ saves # {} \/ sending.stage # "idle")
    /\ IF token \in ChainTokens
       THEN /\ feeJob' = [rows |-> Fresh(Parsed[f]), token |-> token]
            /\ UNCHANGED <<bulkStep, ReviewWork>>
       ELSE /\ ContinueWith(Fresh(Parsed[f]))
            /\ UNCHANGED <<feeJob, editing, saves>>
    /\ UNCHANGED <<token, upload, Submission, unchecked>>

(* validateIntentsFeeCoverage marks every row if the estimate fails. *)
FeeAnswer(ok) ==
    /\ feeJob # None /\ Cardinality(checks) < MaxPending
    /\ feeJob' = None
    /\ IF ok
       THEN ContinueWith(feeJob.rows) /\ UNCHANGED <<editing, saves>>
       ELSE UNCHANGED <<bulkStep, ReviewWork>>
    /\ UNCHANGED <<token, upload, Submission, hasty, unchecked>>

-----------------------------------------------------------------------------
(* The review step *)

(* The rows of missing accounts are marked, or all if no account was found. *)
Checked(c, reachable) ==
    IF c.token \notin NearTokens THEN c.rows
    ELSE [i \in DOMAIN c.rows |->
            [c.rows[i] EXCEPT !.bad = @ \/ ~reachable \/ c.rows[i].to \in Missing]]

(* onPaymentDataChange is the page's and works after the step is gone. *)
CheckAnswer(c, reachable) ==
    /\ checks' = checks \ {c}
    /\ paymentData' = Checked(c, reachable)
    /\ review' = IF c.live THEN [review EXCEPT !.rows = Checked(c, reachable), !.busy = FALSE]
                 ELSE review
    /\ UNCHANGED <<bulkStep, token, upload, feeJob, editing, saves, Submission,
                   hasty, unchecked>>

(* getBatchStorageDepositIsRegistered throws: no row is marked. *)
CheckFails(c) ==
    /\ c.token \in FtTokens
    /\ checks' = checks \ {c}
    /\ review' = IF c.live THEN [review EXCEPT !.busy = FALSE] ELSE review
    /\ unchecked' = TRUE
    /\ UNCHANGED <<bulkStep, token, upload, feeJob, paymentData, editing, saves,
                   Submission, hasty>>

(* Mutant: the page keeps the row. *)
RemoveLocally(i) ==
    /\ review.open /\ ~review.busy /\ i \in DOMAIN review.rows
    /\ review' = [review EXCEPT !.rows = RemoveAt(@, i)]
    /\ Hurry(sending.stage # "idle")
    /\ UNCHANGED <<bulkStep, token, upload, feeJob, paymentData, checks, editing, saves, Submission,
                   unchecked>>

RemovePayment(i) ==
    /\ review.open /\ ~review.busy /\ i \in DOMAIN review.rows
    /\ review' = [review EXCEPT !.rows = RemoveAt(@, i)]
    /\ paymentData' = review'.rows
    /\ Hurry(sending.stage # "idle")
    /\ UNCHANGED <<bulkStep, token, upload, feeJob, checks, editing, saves, Submission,
                   unchecked>>

Leave(step) ==
    /\ review.open
    /\ bulkStep' = step
    /\ review' = NoReview
    /\ checks' = Orphaned(checks)
    /\ Hurry(review.busy \/ sending.stage # "idle")
    /\ UNCHANGED <<token, upload, feeJob, paymentData, saves, Submission, unchecked>>

BackToUpload == Leave("upload") /\ UNCHANGED editing

(* The edit step shows the page's row; past its end it cannot be drawn. *)
EditPayment(i) ==
    /\ ~review.busy /\ i \in DOMAIN review.rows /\ i \in DOMAIN paymentData
    /\ Leave("edit")
    /\ editing' = [index |-> i, saving |-> FALSE]

-----------------------------------------------------------------------------
(* The edit step *)

Applied(s) == [s.base EXCEPT ![s.index] = Pay(s.edit.to, s.edit.amt)]

(* handleSaveEdit works on the rows of the time it was clicked. *)
Save(s) ==
    /\ paymentData' = Applied(s)
    /\ editing' = None
    /\ IF bulkStep = "review"
       THEN UNCHANGED <<bulkStep, review, checks>>
       ELSE Mount(Applied(s))

SaveEdit(e) ==
    /\ bulkStep = "edit" /\ ~editing.saving
    /\ Cardinality(checks) + Cardinality(saves) < MaxPending
    /\ LET s == [index |-> editing.index, edit |-> e, base |-> paymentData] IN
       IF token \in FtTokens
       THEN /\ saves' = saves \cup {s}
            /\ editing' = [editing EXCEPT !.saving = TRUE]
            /\ UNCHANGED <<bulkStep, paymentData, review, checks>>
       ELSE Save(s) /\ UNCHANGED saves
    /\ UNCHANGED <<token, upload, feeJob, Submission, hasty, unchecked>>

(* Answered or failed, the storage check ends in onSave. *)
SaveAnswer(s) ==
    /\ s \in saves /\ Cardinality(checks) < MaxPending
    /\ saves' = saves \ {s}
    /\ Save(s)
    /\ UNCHANGED <<token, upload, feeJob, Submission, hasty, unchecked>>

CancelEdit ==
    /\ bulkStep = "edit" /\ Cardinality(checks) < MaxPending
    /\ editing' = None
    /\ Mount(paymentData)
    /\ Hurry(editing.saving)
    /\ UNCHANGED <<token, upload, feeJob, paymentData, saves, Submission, unchecked>>

-----------------------------------------------------------------------------
(* The submission: list, then proposal *)

SortedBy(rank, rows) ==
    LET Before(i, j) == \/ rank[rows[i].to] < rank[rows[j].to]
                        \/ rank[rows[i].to] = rank[rows[j].to] /\ i < j
        order == SetToSortSeq(DOMAIN rows, Before)
    IN  [i \in DOMAIN rows |-> <<rows[order[i]].to, rows[order[i]].amt>>]

(* generateListId; the hash and the timestamp as what they stand for *)
ListId(rows, at) == [at |-> at, rows |-> SortedBy(LocaleRank, rows)]
(* compute_list_hash *)
ComputedId(rows, at) == [at |-> at, rows |-> SortedBy(ByteRank, rows)]

Total(rows) == FoldSeq(LAMBDA r, sum : sum + r.amt, 0, rows)

(* onSubmit takes the page's rows, once, and works on them to the end. *)
Submit ==
    /\ review.open /\ ~review.busy /\ sending.stage = "idle" /\ submits < MaxSubmits
    /\ \A i \in DOMAIN review.rows : ~review.rows[i].bad
    /\ paymentData # << >>
    /\ submits' = submits + 1
    /\ sending' = [stage |-> "list", id |-> ListId(paymentData, submits'),
                   rows |-> paymentData, total |-> Total(paymentData), token |-> token,
                   shown |-> review.rows, careful |-> hasty = 0, checked |-> ~unchecked]
    /\ UNCHANGED <<bulkStep, token, upload, feeJob, ReviewWork, lists, proposed, hasty,
                   unchecked>>

(* Mutant: the amount is taken when the list is stored. *)
ListStoredLate ==
    /\ sending.stage = "list"
    /\ sending.id = ComputedId(sending.rows, sending.id.at)
    /\ lists' = lists \cup {[id |-> sending.id, rows |-> sending.rows]}
    /\ sending' = [sending EXCEPT !.stage = "proposal", !.total = Total(paymentData)]
    /\ UNCHANGED <<bulkStep, token, upload, feeJob, ReviewWork, proposed, submits, hasty,
                   unchecked>>

(* submit_list recomputes the hash. *)
ListStored ==
    /\ sending.stage = "list"
    /\ sending.id = ComputedId(sending.rows, sending.id.at)
    /\ lists' = lists \cup {[id |-> sending.id, rows |-> sending.rows]}
    /\ sending' = [sending EXCEPT !.stage = "proposal"]
    /\ UNCHANGED <<bulkStep, token, upload, feeJob, ReviewWork, proposed, submits, hasty,
                   unchecked>>

(* The list is refused or its answer lost, or the wallet refuses. *)
SubmitFails ==
    /\ sending.stage # "idle"
    /\ sending' = NoSending
    /\ lists' \in {lists} \cup
         IF sending.stage = "list" /\ sending.id = ComputedId(sending.rows, sending.id.at)
         THEN {lists \cup {[id |-> sending.id, rows |-> sending.rows]}} ELSE {}
    /\ UNCHANGED <<bulkStep, token, upload, feeJob, ReviewWork, proposed, submits, hasty,
                   unchecked>>

(* The page starts over, whatever it shows by now. *)
Proposed ==
    /\ sending.stage = "proposal"
    /\ proposed' = proposed \cup {sending}
    /\ sending' = NoSending
    /\ bulkStep' = "upload"
    /\ token' = None
    /\ upload' = [NoUpload EXCEPT !.reading = upload.reading]
    /\ paymentData' = << >>
    /\ review' = NoReview
    /\ checks' = Orphaned(checks)
    /\ editing' = None
    /\ UNCHANGED <<feeJob, saves, lists, submits, hasty, unchecked>>

-----------------------------------------------------------------------------
BulkAnswer ==
    \/ FileRead
    \/ \E ok \in BOOLEAN : FeeAnswer(ok)
    \/ \E c \in checks : CheckFails(c) \/ \E reachable \in BOOLEAN : CheckAnswer(c, reachable)
    \/ \E s \in saves : SaveAnswer(s)
    \/ ListStored \/ SubmitFails \/ Proposed

(* The bound ends a visit with its last submission. *)
BulkUser ==
  /\ submits < MaxSubmits \/ sending.stage # "idle"
  /\ \/ \E f \in Texts : ChooseFile(f) \/ ContinueWithPaste(f)
     \/ \E k \in BulkTokens : SelectToken(k)
     \/ ContinueWithFile
     \/ \E i \in DOMAIN review.rows : RemovePayment(i) \/ EditPayment(i)
     \/ BackToUpload
     \/ \E e \in Edits : SaveEdit(e)
     \/ CancelEdit
     \/ Submit

BulkNext == BulkAnswer \/ BulkUser

BulkSpec == BulkInit /\ [][BulkNext]_bulkVars

-----------------------------------------------------------------------------
(* A user who lets every step finish signs the rows the review showed,     *)
(* although the page and the step keep a copy each and rows were removed,  *)
(* edited, checked and uploaded anew in between.                           *)
ReviewedRowsAreProposed ==
    \A p \in proposed : p.careful => p.rows = p.shown

(* Such a user proposes no payment to an account that does not exist, if   *)
(* the storage lookup has never failed: every way back to the review       *)
(* checks the rows again.                                                  *)
ProposedAccountsExist ==
    \A p \in proposed : (p.careful /\ p.checked /\ p.token \in NearTokens) =>
        \A i \in DOMAIN p.rows : p.rows[i].to \notin Missing

(* A proposal names a list the back-end stored, and moves the sum of that  *)
(* list's amounts, whatever the page does while the list is sent.          *)
ProposalsFundTheirList ==
    \A p \in proposed :
        \E l \in lists : l.id = p.id /\ p.total = Total(l.rows)

(* The list's id is the hash the back-end computes of it: a list without   *)
(* faults is not refused ("must match API", bulk-payment-api.ts:26).       *)
ListIdsMatch ==
    sending.stage = "list" => sending.id = ComputedId(sending.rows, sending.id.at)
=============================================================================
