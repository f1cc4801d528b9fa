---------------------------- MODULE ChangeLedger ----------------------------
(***************************************************************************)
(* research/index_changes.py, build: makes one history of an index out of  *)
(* the rows of all its releases.  The exchange announces a change, may     *)
(* announce it again with another date and may take it back before it has  *)
(* taken effect; the rows do not say which of the three they are.          *)
(*                                                                         *)
(* The exchange is modelled for one index; the archive is built of what it *)
(* has said so far.                                                        *)
(***************************************************************************)
EXTENDS Integers, FiniteSets

CONSTANTS
    Stocks, LastDate,
    Announcements,   \* bound on the rows of a company
    Repeats,         \* bound on the repeats of a change, see MergeRepeats
    Nothing

VARIABLES
    calendar,
    member,          \* set of companies in the index
    due,             \* function: company -> [side, announced, effective], or Nothing
    told,            \* function: company -> repeats of the change that is due
    quiet,           \* function: company -> no new announcement up to this day
    releases,        \* the rows: [stock, side, announced, effective]
    history          \* the changes that took effect, as rows with their first announcement

ledgerVars == <<calendar, member, due, told, quiet, releases, history>>

ASSUME LedgerAssumption ==
    /\ LastDate \in Nat /\ Announcements \in Nat /\ Repeats \in Nat
    /\ Nothing \notin [stock : Stocks, side : {"add", "remove"}, announced : Nat, effective : Nat]

ChangeRow(c, side, announced, effective) ==
    [stock |-> c, side |-> side, announced |-> announced, effective |-> effective]

Said(c) == {r \in releases : r.stock = c}

\* One row of a company in a day's releases.
MaySpeak(c) ==
    /\ Cardinality(Said(c)) < Announcements
    /\ \A r \in Said(c) : r.announced < calendar

-----------------------------------------------------------------------------
(* The exchange: external. *)

Announce(c, e) ==
    LET side == IF c \in member THEN "remove" ELSE "add"
    IN /\ MaySpeak(c) /\ due[c] = Nothing /\ calendar > quiet[c] /\ e > calendar
       /\ due' = [due EXCEPT ![c] = ChangeRow(c, side, calendar, e)]
       /\ told' = [told EXCEPT ![c] = 0]
       /\ releases' = releases \cup {due'[c]}
       /\ UNCHANGED <<calendar, member, quiet, history>>

Repeat(c, e) ==
    /\ MaySpeak(c) /\ due[c] # Nothing /\ told[c] < Repeats /\ e > calendar
    /\ due' = [due EXCEPT ![c].effective = e]
    /\ told' = [told EXCEPT ![c] = @ + 1]
    /\ releases' = releases \cup {ChangeRow(c, due[c].side, calendar, e)}
    /\ UNCHANGED <<calendar, member, quiet, history>>

\* A change taken back is not announced again before its date has passed.
TakeBack(c, e) ==
    /\ MaySpeak(c) /\ due[c] # Nothing /\ calendar < e /\ e <= due[c].effective
    /\ releases' = releases \cup {ChangeRow(c, IF due[c].side = "add" THEN "remove" ELSE "add", calendar, e)}
    /\ quiet' = [quiet EXCEPT ![c] = due[c].effective]
    /\ due' = [due EXCEPT ![c] = Nothing]
    /\ UNCHANGED <<calendar, member, told, history>>

NextDay ==
    LET now == {c \in Stocks : due[c] # Nothing /\ due[c].effective = calendar + 1}
    IN /\ calendar < LastDate
       /\ calendar' = calendar + 1
       /\ member' = (member \ {c \in now : due[c].side = "remove"})
                        \cup {c \in now : due[c].side = "add"}
       /\ history' = history \cup {due[c] : c \in now}
       /\ due' = [c \in Stocks |-> IF c \in now THEN Nothing ELSE due[c]]
       /\ UNCHANGED <<told, quiet, releases>>

-----------------------------------------------------------------------------
(* merge_repeats: a row of the same side that came out before the one      *)
(* before it took effect is a repeat.  The first row stays, with the date  *)
(* of the repeat; of a longer chain it keeps the date of the second.       *)

Before(L, r) ==
    LET older == {q \in L : q.stock = r.stock /\ q.side = r.side /\ q.announced < r.announced}
    IN {q \in older : \A o \in older : o.announced <= q.announced}

IsRepeat(L, r) == \E q \in Before(L, r) : r.announced <= q.effective

MergeRepeats(L) ==
    {LET repeat == {q \in L : r \in Before(L, q) /\ IsRepeat(L, q)}
     IN IF repeat = {} THEN r
        ELSE [r EXCEPT !.effective = (CHOOSE q \in repeat : TRUE).effective] :
        r \in {x \in L : ~IsRepeat(L, x)}}

(* cancel_pairs: two rows of opposite sides, the later one announced before *)
(* the earlier takes effect and due no later, and both never happened.      *)

Undoes(b, r) ==
    /\ b.stock = r.stock /\ b.side # r.side
    /\ b.announced > r.announced
    /\ b.announced <= r.effective
    /\ b.effective <= r.effective

CancelPairs(L) == {r \in L : ~\E b \in L : Undoes(b, r) \/ Undoes(r, b)}

\* Mutant: the pairs are cancelled before the repeats are merged.
BuildReversed(L) == MergeRepeats(CancelPairs(L))

Build(L) == CancelPairs(MergeRepeats(L))

-----------------------------------------------------------------------------
LedgerInit ==
    /\ calendar = 0
    /\ member \in SUBSET Stocks
    /\ due = [c \in Stocks |-> Nothing]
    /\ told = [c \in Stocks |-> 0] /\ quiet = [c \in Stocks |-> -1]
    /\ releases = {} /\ history = {}

LedgerNext ==
    \/ NextDay
    \/ \E c \in Stocks, e \in 1..LastDate : Announce(c, e) \/ Repeat(c, e) \/ TakeBack(c, e)

LedgerSpec == LedgerInit /\ [][LedgerNext]_ledgerVars

-----------------------------------------------------------------------------
(* The archive tells what happened: it consists of the changes that have   *)
(* taken effect and of those still due, each once, with the day it was     *)
(* first announced and the day it took effect; a change taken back is in   *)
(* it neither as a change nor as its opposite (index_changes.py:445, 474). *)
ArchiveIsHistory == Build(releases) = history \cup {due[c] : c \in {x \in Stocks : due[x] # Nothing}}
=============================================================================
