----------------------------- MODULE MembersPage -----------------------------
(***************************************************************************)
(* The members page of a treasury: adding members, changing the roles of   *)
(* one or of several, and removing them, each as a ChangePolicy request    *)
(* that carries the WHOLE policy.  The page works on its own copy of the   *)
(* policy, kept for ten minutes, and on its own list of the requests in    *)
(* progress; both may be behind the chain, and both may be fetched again   *)
(* while a dialog is open or a request is being sent.                      *)
(***************************************************************************)
EXTENDS Integers, Sequences, FiniteSets, SequencesExt, Absent

CONSTANTS Accounts,    \* the accounts that may be members
          Roles,       \* the group roles of the policy
          Nearn,       \* the account of the bounty service
          NearnRoles,  \* the roles the page offers to Nearn
          FirstPolicy, \* the members of each role at the start
          Others,      \* the policies that others propose
          Link,        \* the rows a link to the page asks to add, <<>> without one
          AddForms,    \* the rows a user types in
          MaxRequests, \* requests that reach the chain
          MaxDialogs   \* dialogs opened

Policies == [Roles -> SUBSET Accounts]
Rows == [account : Accounts, roles : SUBSET Roles]

ASSUME PoliciesAssumption ==
  /\ IsFiniteSet(Accounts)
  /\ FirstPolicy \in Policies /\ Others \subseteq Policies
  /\ Link \in Seq(Rows) /\ AddForms \subseteq Seq(Rows)
ASSUME MembersBounds == MaxRequests \in Nat /\ MaxDialogs \in Nat

VARIABLES onChain,    \* the policy
          inProgress, \* the policies proposed and undecided
          policy,     \* the page's copy of the policy
          hasPending, \* what the page's list of requests says
          dialog,     \* the dialog shown
          form,       \* the rows of the add and the edit dialog
          original,   \* the rows the edit dialog opened with
          selected,   \* the rows ticked in the table
          target,     \* the row whose remove button was pressed
          request,    \* the request being sent
          unmoved,    \* the copy of the policy is the one the open dialog was checked against
          landed, opened

membersVars == <<onChain, inProgress, policy, hasPending, dialog, form, original,
                 selected, target, request, unmoved, landed, opened>>

Dialogs == {"none", "add", "checking", "addPreview", "edit", "editPreview", "delete"}

RolesIn(p, a) == {r \in Roles : a \in p[r]}
Members(p) == UNION {p[r] : r \in Roles}
RowOf(p, a) == [account |-> a, roles |-> RolesIn(p, a)]

\* The rows of a set of members, in some fixed order.
RowsOf(p, S) == [i \in 1..Cardinality(S) |-> RowOf(p, SetToSeq(S)[i])]
Listed(rows) == {rows[i].account : i \in DOMAIN rows}

(* What the dialogs do to a policy.  The rows are applied one after the    *)
(* other, so the last of two rows of one account has its way.              *)
WithRow(p, row) ==
  [r \in Roles |-> IF r \in row.roles THEN p[r] \cup {row.account} ELSE p[r] \ {row.account}]
WithRows(p, rows) == FoldLeft(WithRow, p, rows)
Without(p, S) == [r \in Roles |-> p[r] \ S]

(* The policy that the edits amount to: rows of accounts that are not      *)
(* members are passed over.                                                *)
WithMemberRow(p, row) == IF row.account \in Members(policy) THEN WithRow(p, row) ELSE p
Final(rows) == FoldLeft(WithMemberRow, policy, rows)

\* Weighing every member by the policy as it is, and not as the edits leave it.
DisabledRolesNow(row) ==
  IF row.account = Nearn THEN Roles \ NearnRoles
  ELSE IF row.account \notin Members(policy) THEN {}
  ELSE {r \in row.roles : policy[r] = {row.account}}

(* The roles the edit dialog does not let a row lose or gain.              *)
DisabledRoles(row) ==
  IF row.account = Nearn THEN Roles \ NearnRoles
  ELSE IF row.account \notin Members(policy) THEN {}
  ELSE {r \in row.roles : Final(form)[r] = {row.account}}

(* What may be removed: the page compares with the roles the rows name.    *)
CanDeleteBulk(rows) ==
  /\ ~hasPending
  /\ \A r \in UNION {row.roles : row \in rows} :
        policy[r] # {} => policy[r] \ {row.account : row \in rows} # {}

CanDelete(a) == ~hasPending /\ \A r \in RolesIn(policy, a) : Cardinality(policy[r]) # 1
RowsToDelete ==
  IF selected # {} THEN {RowOf(policy, a) : a \in selected \cap Members(policy)}
  ELSE IF target # None THEN {target} ELSE {}

\* Without the look at the members there are.
AddIsValidAnyone ==
  /\ form # <<>> /\ \A i \in DOMAIN form : form[i].roles # {}
  /\ \A i, j \in DOMAIN form : form[i].account = form[j].account => i = j

(* The check of the add dialog: every row has an account and a role, no    *)
(* account comes twice, none is a member yet.                              *)
AddIsValid ==
  /\ form # <<>> /\ \A i \in DOMAIN form : form[i].roles # {}
  /\ \A i, j \in DOMAIN form : form[i].account = form[j].account => i = j
  /\ Listed(form) \cap Members(policy) = {}

EditIsValid == \A i \in DOMAIN form : form[i].roles # {}

MembersTypeOK ==
  /\ onChain \in Policies /\ inProgress \subseteq Policies /\ policy \in Policies
  /\ hasPending \in BOOLEAN /\ dialog \in Dialogs
  /\ form \in Seq(Rows) /\ original \in Seq(Rows)
  /\ selected \subseteq Accounts /\ target \in Rows \cup {None}
  /\ request # None => request.kind \in {"add", "edit", "remove"} /\ request.policy \in Policies
  /\ unmoved \in BOOLEAN
  /\ landed \in 0..MaxRequests /\ opened \in 0..MaxDialogs

(* A link opens the add dialog as soon as the policy is there, whatever    *)
(* requests there are.                                                     *)
MembersInit ==
  /\ onChain = FirstPolicy /\ policy = FirstPolicy
  /\ inProgress = {} /\ hasPending = FALSE
  /\ form = Link /\ dialog = (IF Link = <<>> THEN "none" ELSE "add")
  /\ original = <<>> /\ selected = {} /\ target = None /\ request = None
  /\ unmoved = FALSE /\ landed = 0 /\ opened = 0

world == <<onChain, inProgress, policy, hasPending>>

(* --- the chain and the copies of it ------------------------------------ *)

OthersPropose(p) ==
  /\ landed < MaxRequests /\ p \notin inProgress
  /\ inProgress' = inProgress \cup {p} /\ landed' = landed + 1
  /\ UNCHANGED <<onChain, policy, hasPending, dialog, form, original, selected, target,
                 request, unmoved, opened>>

Decide(p, approved) ==
  /\ p \in inProgress /\ inProgress' = inProgress \ {p}
  /\ onChain' = IF approved THEN p ELSE onChain
  /\ UNCHANGED <<policy, hasPending, dialog, form, original, selected, target, request, unmoved,
                 landed, opened>>

FetchPolicy ==
  /\ policy # onChain /\ policy' = onChain /\ unmoved' = FALSE
  /\ UNCHANGED <<onChain, inProgress, hasPending, dialog, form, original, selected, target,
                 request, landed, opened>>

FetchRequests ==
  /\ hasPending' = (inProgress # {}) /\ hasPending' # hasPending
  /\ UNCHANGED <<onChain, inProgress, policy, dialog, form, original, selected, target,
                 request, unmoved, landed, opened>>

(* --- the table ---------------------------------------------------------- *)

Toggle(S) ==
  /\ dialog = "none" /\ S \subseteq Members(policy) /\ selected' = S /\ S # selected
  /\ UNCHANGED <<world, dialog, form, original, target, request, unmoved, landed, opened>>

Open(d) == dialog = "none" /\ opened < MaxDialogs /\ opened' = opened + 1 /\ dialog' = d

\* The button is not shown while rows are ticked.
OpenAdd ==
  /\ ~hasPending /\ selected = {} /\ Open("add") /\ form' = <<>>
  /\ UNCHANGED <<world, original, selected, target, request, unmoved, landed>>

OpenEdit(S) ==
  /\ ~hasPending /\ S \subseteq Members(policy) /\ S # {} /\ Open("edit")
  /\ form' = RowsOf(policy, S) /\ original' = form' /\ unmoved' = TRUE
  /\ UNCHANGED <<world, selected, target, request, landed>>

HandleEditMember(a) == OpenEdit({a})
HandleBulkEdit == OpenEdit(selected \cap Members(policy))

AskDelete(a) ==
  /\ a \in Members(policy) /\ CanDelete(a) /\ Open("delete")
  /\ target' = RowOf(policy, a) /\ unmoved' = TRUE
  /\ UNCHANGED <<world, form, original, selected, request, landed>>

HandleBulkDelete ==
  /\ selected # {}
  /\ CanDeleteBulk({RowOf(policy, a) : a \in selected \cap Members(policy)}) /\ Open("delete")
  /\ unmoved' = TRUE
  /\ UNCHANGED <<world, form, original, selected, target, request, landed>>

(* --- the dialogs -------------------------------------------------------- *)

TypeAdd(rows) ==
  /\ dialog = "add" /\ form' = rows /\ rows # form
  /\ UNCHANGED <<world, dialog, original, selected, target, request, unmoved, landed, opened>>

(* The review checks the form, then asks the chain for every account; the  *)
(* form cannot be left while that runs.                                    *)
HandleReviewRequest ==
  /\ dialog = "add" /\ AddIsValid /\ dialog' = "checking" /\ unmoved' = TRUE
  /\ UNCHANGED <<world, form, original, selected, target, request, landed, opened>>

AddressesChecked(found) ==
  /\ dialog = "checking" /\ dialog' = IF found THEN "addPreview" ELSE "add"
  /\ UNCHANGED <<world, form, original, selected, target, request, unmoved, landed, opened>>

ToggleRole(i, r) ==
  /\ dialog = "edit" /\ i \in DOMAIN form /\ r \notin DisabledRoles(form[i])
  /\ form' = [form EXCEPT ![i].roles = IF r \in @ THEN @ \ {r} ELSE @ \cup {r}]
  /\ UNCHANGED <<world, dialog, original, selected, target, request, unmoved, landed, opened>>

HandleEditReviewRequest ==
  /\ dialog = "edit" /\ EditIsValid /\ form # original /\ dialog' = "editPreview"
  /\ UNCHANGED <<world, form, original, selected, target, request, unmoved, landed, opened>>

Back ==
  /\ dialog \in {"addPreview", "editPreview"}
  /\ dialog' = IF dialog = "addPreview" THEN "add" ELSE "edit"
  /\ UNCHANGED <<world, form, original, selected, target, request, unmoved, landed, opened>>

\* What the form and the rows it opened with held is not read again.
Close ==
  /\ dialog \notin {"none", "checking"} /\ dialog' = "none" /\ form' = <<>>
  /\ selected' = IF dialog \in {"editPreview", "delete"} THEN {} ELSE selected
  /\ target' = IF dialog = "delete" THEN None ELSE target
  /\ original' = <<>>
  /\ UNCHANGED <<world, request, unmoved, landed, opened>>

(* --- the request -------------------------------------------------------- *)

(* The request carries the policy as the page has it now, changed.  One   *)
(* request is sent at a time.                                              *)
CreatePolicyChangeProposal(kind, p) ==
  /\ request = None
  /\ request' = [kind |-> kind, policy |-> p, rows |-> form, seen |-> policy, unmoved |-> unmoved]
  /\ UNCHANGED <<world, dialog, form, original, selected, target, unmoved, landed, opened>>

HandleAddMembersSubmit ==
  dialog = "addPreview" /\ CreatePolicyChangeProposal("add", WithRows(policy, form))

HandleEditMembersSubmit ==
  dialog = "editPreview" /\ CreatePolicyChangeProposal("edit", WithRows(policy, form))

HandleDeleteMembersSubmit ==
  /\ dialog = "delete" /\ (selected \cap Members(policy) # {} \/ target # None)
  /\ RowsToDelete = {} \/ CanDeleteBulk(RowsToDelete)
  /\ CreatePolicyChangeProposal("remove",
       Without(policy, IF selected # {} THEN selected ELSE {target.account}))

(* The answer closes the dialogs of its kind, whatever they show by now;   *)
(* the list of requests is fetched again later.                            *)
RequestLanded ==
  /\ request # None /\ landed < MaxRequests
  /\ inProgress' = inProgress \cup {request.policy} /\ landed' = landed + 1
  /\ request' = None
  /\ CASE request.kind = "add" ->
            /\ dialog' = IF dialog = "addPreview" THEN "none" ELSE dialog
            /\ form' = <<>> /\ UNCHANGED <<original, selected, target>>
       [] request.kind = "edit" ->
            /\ dialog' = IF dialog \in {"edit", "editPreview"} THEN "none" ELSE dialog
            /\ selected' = {} /\ UNCHANGED <<form, original, target>>
       [] OTHER ->
            /\ dialog' = IF dialog = "delete" THEN "none" ELSE dialog
            /\ selected' = {} /\ target' = None /\ UNCHANGED <<form, original>>
  /\ UNCHANGED <<onChain, policy, hasPending, unmoved, opened>>

RequestFailed ==
  /\ request # None /\ request' = None
  /\ UNCHANGED <<world, dialog, form, original, selected, target, unmoved, landed, opened>>

MembersNext ==
  \/ \E p \in Others : OthersPropose(p)
  \/ \E p \in inProgress, approved \in BOOLEAN : Decide(p, approved)
  \/ FetchPolicy \/ FetchRequests
  \/ \E S \in SUBSET Accounts : Toggle(S)
  \/ OpenAdd
  \/ \E a \in Accounts : HandleEditMember(a) \/ AskDelete(a)
  \/ HandleBulkEdit \/ HandleBulkDelete
  \/ \E rows \in AddForms : TypeAdd(rows)
  \/ HandleReviewRequest
  \/ \E found \in BOOLEAN : AddressesChecked(found)
  \/ \E i \in 1..Cardinality(Accounts), r \in Roles : ToggleRole(i, r)
  \/ HandleEditReviewRequest \/ Back \/ Close
  \/ HandleAddMembersSubmit \/ HandleEditMembersSubmit \/ HandleDeleteMembersSubmit
  \/ RequestLanded \/ RequestFailed

MembersSpec == MembersInit /\ [][MembersNext]_membersVars

-----------------------------------------------------------------------------
(* What the request carries is only as good as the copy of the policy its  *)
(* dialog was checked against.  While that copy is still the page's, ...   *)

Unmoved == request # None /\ request.unmoved

(* ... no request leaves a role without members that had some, however     *)
(* many members are edited or removed at once: the page weighs every       *)
(* change against what all the others leave.  Only an edit of Nearn's row  *)
(* is not weighed.                                                         *)
RolesStayManned ==
  Unmoved /\ ~(request.kind = "edit" /\ Nearn \in Listed(request.rows)) =>
    \A r \in Roles : request.seen[r] # {} => request.policy[r] # {}

(* ... a request to add members takes no role from anybody: the accounts   *)
(* had none, and get exactly the roles of their row.                       *)
AddsGrantTheirRoles ==
  Unmoved /\ request.kind = "add" =>
    \A i \in DOMAIN request.rows :
       /\ RolesIn(request.seen, request.rows[i].account) = {}
       /\ RolesIn(request.policy, request.rows[i].account) = request.rows[i].roles

=============================================================================
