----------------------------- MODULE BulkParsing -----------------------------
(***************************************************************************)
(* How a file or a pasted text becomes a list of payments                  *)
(* (payments/bulk-payment/utils/parsing.ts): the header is recognised, the *)
(* rows are taken one by one, each amount is read in whichever convention  *)
(* its separators suggest, and one fault refuses the whole list.           *)
(*                                                                         *)
(* The text of an amount is its groups of digits, by length, and the       *)
(* separators between them; reading it is finding the decimal separator.   *)
(***************************************************************************)
EXTENDS Integers, Sequences, FiniteSets, FiniteSetsExt, Absent

CONSTANTS
    Sheets,        \* the sheets that may be read
    Symbol,        \* the selected token's symbol
    MaxRecipients  \* MAX_RECIPIENTS_PER_BULK_PAYMENT

(* What the first row is. *)
Headers == {"none", "recipient-amount", "amount-recipient", "partial"}

WellTyped(t) ==
    /\ t.lens \in Seq(Nat \ {0}) /\ t.seps \in Seq({",", "."})
    /\ Len(t.lens) = Len(t.seps) + 1
    /\ t.zero \in BOOLEAN
    /\ t.zero => t.lens[1] = 1

ASSUME SheetsAssumption ==
    \A s \in Sheets : /\ s.header \in Headers
                      /\ Len(s.lines) \in Nat /\ DOMAIN s.lines = 1..Len(s.lines)
                      /\ \A i \in DOMAIN s.lines : WellTyped(s.lines[i].text)
ASSUME MaxRecipientsAssumption == MaxRecipients \in Nat

VARIABLES
    sheet,    \* the rows below the header, and the header
    row,      \* the row the loop is at
    symbols,  \* tokenSymbolsFound
    taken,    \* payments: the row each is of and the amount read
    faults,   \* rows with an error
    outcome   \* what the function returned

parseVars == <<sheet, row, symbols, taken, faults, outcome>>

ParsingTypeOK ==
    /\ sheet \in Sheets
    /\ row \in 1..(Len(sheet.lines) + 1)
    /\ \A i \in DOMAIN taken : taken[i].row < row
    /\ faults \subseteq 1..(row - 1)
    /\ outcome \in {"reading", "accepted", "refused"}

ParseInit ==
    /\ sheet \in Sheets
    /\ row = 1
    /\ symbols = {}
    /\ taken = << >>
    /\ faults = {}
    /\ outcome = "reading"

-----------------------------------------------------------------------------
(* parseAmount: the separator read as the decimal one, by its place *)

Whole == 0
Refused == -1

Places(t, sep) == {i \in DOMAIN t.seps : t.seps[i] = sep}
(* Big reads digits around at most one dot. *)
Only(S) == IF Cardinality(S) = 1 THEN CHOOSE i \in S : TRUE ELSE Refused

(* Mutant: a comma before three digits always groups. *)
LoneCommaGroupsAlways(t) == t.lens[2] = 3
LoneCommaGroups(t) == t.lens[2] = 3 /\ ~t.zero

Reading(t) ==
    LET commas == Places(t, ",")
        dots == Places(t, ".")
    IN  CASE commas # {} /\ dots # {} ->
                 IF Max(dots) > Max(commas) THEN Only(dots) ELSE Only(commas)
          [] commas # {} /\ dots = {} ->
                 IF Cardinality(commas) = 1 /\ ~LoneCommaGroups(t) THEN 1 ELSE Whole
          [] commas = {} -> IF dots = {} THEN Whole ELSE Only(dots)

-----------------------------------------------------------------------------
(* parsePaymentData *)

Line == sheet.lines[row]
InLoop == /\ outcome = "reading"
          /\ sheet.header # "partial"
          /\ row <= Len(sheet.lines)
(* Everything right of the amount's column is joined to it: a recipient    *)
(* there makes it no amount.                                               *)
IsNumber(l) == sheet.header # "amount-recipient" /\ Reading(l.text) # Refused
SymbolAgrees(l) == l.symbol = None \/ l.symbol = Symbol

SkipBlank ==
    /\ InLoop /\ Line.blank
    /\ row' = row + 1
    /\ UNCHANGED <<sheet, symbols, taken, faults, outcome>>

IsPayment(l) == l.complete /\ SymbolAgrees(l) /\ IsNumber(l) /\ l.positive /\ l.valid

(* The symbol is noted before it is compared. *)
NoteSymbol(l) ==
    symbols' = IF l.complete /\ l.symbol # None /\ sheet.header # "amount-recipient"
               THEN symbols \cup {l.symbol} ELSE symbols

TakeRow ==
    /\ InLoop /\ ~Line.blank /\ IsPayment(Line)
    /\ NoteSymbol(Line)
    /\ taken' = Append(taken, [row |-> row, at |-> Reading(Line.text)])
    /\ row' = row + 1
    /\ UNCHANGED <<sheet, faults, outcome>>

FaultRow ==
    /\ InLoop /\ ~Line.blank /\ ~IsPayment(Line)
    /\ NoteSymbol(Line)
    /\ faults' = faults \cup {row}
    /\ row' = row + 1
    /\ UNCHANGED <<sheet, taken, outcome>>

IsAccepted == /\ faults = {} /\ Cardinality(symbols) <= 1
              /\ taken # << >> /\ Len(taken) <= MaxRecipients

Return ==
    /\ outcome = "reading"
    /\ sheet.header = "partial" \/ row > Len(sheet.lines)
    /\ outcome' = IF sheet.header # "partial" /\ IsAccepted THEN "accepted" ELSE "refused"
    /\ UNCHANGED <<sheet, row, symbols, taken, faults>>

ParseNext == SkipBlank \/ TakeRow \/ FaultRow \/ Return

ParseSpec == ParseInit /\ [][ParseNext]_parseVars

-----------------------------------------------------------------------------
(* The two ways of writing numbers: groups of three digits between one     *)
(* separator, at most one of the other, after them.                        *)
IsWritten(t, group, decimal) ==
    LET groups == Places(t, group)
        decimals == Places(t, decimal)
    IN  /\ Cardinality(decimals) <= 1
        /\ \A i \in decimals, j \in groups : j < i
        /\ groups # {} => t.lens[1] <= 3 /\ ~t.zero
        /\ \A j \in groups : t.lens[j + 1] = 3
Written(t, group, decimal) ==
    IF Places(t, decimal) = {} THEN Whole ELSE Only(Places(t, decimal))

Means(t, at) ==
    \/ IsWritten(t, ",", ".") /\ at = Written(t, ",", ".")
    \/ IsWritten(t, ".", ",") /\ at = Written(t, ".", ",")

(* One comma before three digits is read as grouping whatever is left of   *)
(* it, "1234,567" included.                                                *)
LongLoneGroup(t) == t.seps = <<",">> /\ t.lens[2] = 3 /\ t.lens[1] > 3

(* An accepted list holds every row that is not blank, once and in order,  *)
(* and every amount that is well written in one of the conventions is read *)
(* in one of them, never moved by a factor.                                *)
AcceptedListIsTheSheet ==
    outcome = "accepted" =>
        LET full == {i \in DOMAIN sheet.lines : ~sheet.lines[i].blank} IN
        /\ {taken[k].row : k \in DOMAIN taken} = full
        /\ \A k \in DOMAIN taken : \A j \in 1..(k - 1) : taken[j].row < taken[k].row
        /\ \A k \in DOMAIN taken :
             LET t == sheet.lines[taken[k].row].text IN
             (\E at \in 0..Len(t.seps) : Means(t, at)) /\ ~LongLoneGroup(t)
             => Means(t, taken[k].at)
=============================================================================
