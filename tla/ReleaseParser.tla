---------------------------- MODULE ReleaseParser ----------------------------
(***************************************************************************)
(* research/index_changes.py, parse: reads the changes of index membership *)
(* out of the lines of a press release.  It has no grammar: it carries the *)
(* section, the side and the last serial number from line to line.         *)
(*                                                                         *)
(* A line is a record of what the parser's expressions find in it, see     *)
(* Lines; where names and symbols stand on it is left out.                 *)
(***************************************************************************)
EXTENDS Integers, Sequences, FiniteSets

CONSTANTS
    Releases,        \* releases: [lines, kind, clauses]
    Indices,         \* the indices whose changes are wanted
    Other,           \* any other heading
    None

\* group: "A. ..." with a word of change; why: the reason such a line gives;
\* head: the section it heads; side, named: "the following ... excluded (from ...)";
\* prose: wanted indices named in passing; heading: "Symbol" or "Sr. No.";
\* number: the leading number, 0 if none; text: the rest, None if the line is the number;
\* date: an effective date on it; own: the date that ends it, 0 if none;
\* printed: the row of the release as a reader sees it: [index, side, text, date, kind]
Reasons == {"scheduled", "ad_hoc", "criteria_revision"}

Lines == [group : BOOLEAN, why : Reasons \cup {None, "release"},
          head : Indices \cup {Other, None}, side : {"add", "remove", None},
          named : Indices \cup {Other, None}, prose : Seq(Indices), heading : BOOLEAN,
          number : Nat, text : Nat \cup {None}, date : Nat, own : Nat,
          printed : {None} \cup [index : Indices \cup {Other}, side : {"add", "remove"},
                                text : Nat, date : Nat, kind : Reasons]]

ASSUME ReleaseAssumption == \A r \in Releases :
    /\ r.lines \in Seq(Lines) /\ r.kind \in Reasons
    /\ DOMAIN r.clauses \subseteq Indices /\ \A x \in DOMAIN r.clauses : r.clauses[x] \in Reasons
    /\ \A i \in DOMAIN r.lines : r.lines[i].text = None => r.lines[i].number # 0
ASSUME NamesAssumption == None \notin Indices \cup {Other, "release"}

VARIABLES
    release,
    line,            \* the next line
    ctx,             \* [index, side, kind, pend, scope, last]
    rows

parseVars == <<release, line, ctx, rows>>

Here    == release.lines[line]
Reading == line <= Len(release.lines)

\* A preamble whose clauses give two reasons tells the reason of each index it names.
ClauseKind(r, index) == IF index \in DOMAIN r.clauses THEN r.clauses[index] ELSE r.kind

KindAfter(l) ==
    CASE l.why = None      -> ctx.kind
      [] l.why = "release" -> release.kind
      [] OTHER             -> l.why

\* Mutant: the section before a group carries over into it.
GroupContextKeeping(l) == [ctx EXCEPT !.kind = KindAfter(l), !.pend = 0]

\* A group names its own indices.
GroupContext(l) ==
    [ctx EXCEPT !.kind = KindAfter(l), !.index = None, !.side = None, !.pend = 0, !.scope = line]

\* A reason without a group, and then a heading.
Headed(l) ==
    IF l.head = None THEN [ctx EXCEPT !.kind = KindAfter(l)]
    ELSE [ctx EXCEPT !.index = l.head, !.side = None, !.pend = 0, !.scope = line,
                     !.kind = IF DOMAIN release.clauses # {} THEN ClauseKind(release, l.head) ELSE KindAfter(l)]

\* The last wanted index named from line scope to before line upto.
InProse(r, scope, upto) ==
    LET named == {p \in (scope..(upto - 1)) \X (1..3) :
                    p[1] > 0 /\ p[2] <= Len(r.lines[p[1]].prose)}
        later(p, q) == p[1] > q[1] \/ (p[1] = q[1] /\ p[2] >= q[2])
    IN IF named = {} THEN Other
       ELSE LET p == CHOOSE p \in named : \A q \in named : later(p, q)
            IN r.lines[p[1]].prose[p[2]]

IndexOfTable(l, c) ==
    IF l.named # None THEN l.named
    ELSE IF c.index # None THEN c.index ELSE InProse(release, c.scope, line)

\* The last effective date before line i, else the first one.
EffectiveDate(r, i) ==
    LET dated == {j \in DOMAIN r.lines : r.lines[j].date > 0}
        before == {j \in dated : j < i}
    IN IF dated = {} THEN 0
       ELSE IF before # {}
       THEN r.lines[CHOOSE j \in before : \A k \in before : k <= j].date
       ELSE r.lines[CHOOSE j \in dated : \A k \in dated : k >= j].date

\* Mutant: the date that ends a row is taken for a part of its text.
RowDateOfProse == EffectiveDate(release, line)

\* A row that ends in a date of its own, in an "Effective Date" column, takes effect on it.
RowDate == IF Here.own # 0 THEN Here.own ELSE EffectiveDate(release, line)

-----------------------------------------------------------------------------
GroupLine ==
    /\ Reading /\ Here.group
    /\ ctx' = GroupContext(Here)
    /\ line' = line + 1
    /\ UNCHANGED <<release, rows>>

\* "The following ... included" opens a table.
Sentence ==
    /\ Reading /\ ~Here.group /\ Here.side # None
    /\ LET c == Headed(Here)
       IN ctx' = [c EXCEPT !.index = IndexOfTable(Here, c), !.side = Here.side,
                           !.pend = 0, !.last = 0]
    /\ line' = line + 1
    /\ UNCHANGED <<release, rows>>

NoTableYet(c) == c.side = None \/ c.index = None

SkipLine ==
    /\ Reading /\ ~Here.group /\ Here.side = None
    /\ LET c == Headed(Here)
       IN (Here.heading \/ NoTableYet(c)) /\ ctx' = c
    /\ line' = line + 1
    /\ UNCHANGED <<release, rows>>

\* A row's serial number follows the last one; a 1 starts a table of an unknown section;
\* anything else is prose that begins with a number.
ReadRow(c, serial) ==
    IF c.last # 0 /\ serial # c.last + 1 /\ serial # 1
    THEN ctx' = c /\ UNCHANGED rows
    ELSE LET index == IF c.last # 0 /\ serial # c.last + 1 THEN Other ELSE c.index
         IN /\ ctx' = [c EXCEPT !.index = index, !.last = serial]
            /\ rows' = rows \cup {[index |-> index, side |-> c.side, text |-> Here.text,
                                   date |-> RowDate, kind |-> c.kind]}

\* A number alone is kept for the next line, which it completes unless that begins
\* with a number of its own: then it was a page number.
TableLine ==
    /\ Reading /\ ~Here.group /\ Here.side = None /\ ~Here.heading
    /\ LET c == Headed(Here)
           number == IF Here.number = 0 THEN c.pend ELSE Here.number
           plain == [c EXCEPT !.pend = 0]
       IN /\ ~NoTableYet(c)
          /\ CASE number = 0        -> ctx' = plain /\ UNCHANGED rows
               [] Here.text = None  -> ctx' = [plain EXCEPT !.pend = number] /\ UNCHANGED rows
               [] OTHER             -> ReadRow(plain, number)
    /\ line' = line + 1
    /\ UNCHANGED release

ParseInit ==
    /\ release \in Releases
    /\ line = 1
    /\ ctx = [index |-> None, side |-> None, kind |-> release.kind, pend |-> 0, scope |-> 0, last |-> 0]
    /\ rows = {}

ParseNext == GroupLine \/ Sentence \/ SkipLine \/ TableLine

ParseSpec == ParseInit /\ [][ParseNext]_parseVars

-----------------------------------------------------------------------------
(* What a reader finds in a release, looking back from each line of it *)

LastOf(S) == IF S = {} THEN 0 ELSE CHOOSE i \in S : \A j \in S : j <= i

OpensSection(l) == l.group \/ l.head # None
OpensTable(l)   == ~l.group /\ l.side # None

\* The line that opened the table or the section that goes on after line i, and its side.
HeadedBy(r, i) == LastOf({j \in 1..i : OpensSection(r.lines[j]) \/ OpensTable(r.lines[j])})
SideAfter(r, i) ==
    LET h == HeadedBy(r, i)
    IN IF h # 0 /\ OpensTable(r.lines[h]) THEN r.lines[h].side ELSE None

\* The number that line i leaves to the next one: it was all that stood on it.
Pending(r, i) ==
    LET p == LastOf({j \in (HeadedBy(r, i) + 1)..i : ~r.lines[j].heading})
    IN IF p # 0 /\ r.lines[p].text = None THEN r.lines[p].number ELSE 0

Serial(r, i) == IF r.lines[i].number # 0 THEN r.lines[i].number ELSE Pending(r, i - 1)

\* The serial of the last row of the table up to line i, 0 before the first.
LastSerial(r, i) ==
    LET p == LastOf({j \in (HeadedBy(r, i) + 1)..i : r.lines[j].printed # None})
    IN IF p = 0 THEN 0 ELSE Serial(r, p)

InTable(r, i) ==
    /\ ~(OpensSection(r.lines[i]) \/ OpensTable(r.lines[i]))
    /\ ~r.lines[i].heading /\ SideAfter(r, i - 1) # None

\* A row has a serial, its own or the pending one, that follows the last one or starts anew.
LooksLikeRow(r, i) ==
    /\ InTable(r, i) /\ r.lines[i].text # None /\ Serial(r, i) # 0
    /\ LastSerial(r, i - 1) # 0 => Serial(r, i) \in {1, LastSerial(r, i - 1) + 1}

\* A table that starts anew without a sentence has a heading nobody knows.
StartsUnknown(r, i) ==
    /\ LooksLikeRow(r, i)
    /\ LastSerial(r, i - 1) # 0 /\ Serial(r, i) # LastSerial(r, i - 1) + 1

\* The index of what stands at line i: of the last line that tells one; under a group, and
\* before any heading, the last one in the prose before the first table.
TellsIndex(r, i) ==
    LET l == r.lines[i]
    IN OpensSection(l) \/ (OpensTable(l) /\ l.named # None) \/ StartsUnknown(r, i)
IndexTold(r, i) ==
    LET l == r.lines[i]
    IN CASE StartsUnknown(r, i)             -> Other
         [] OpensTable(l) /\ l.named # None -> l.named
         [] OTHER                           -> l.head
IndexAt(r, i) ==
    LET k == LastOf({j \in 1..i : TellsIndex(r, j)})
        first == CHOOSE j \in (k + 1)..i :
                    OpensTable(r.lines[j]) /\ \A m \in (k + 1)..(j - 1) : ~OpensTable(r.lines[m])
    IN IF k # 0 /\ ~r.lines[k].group THEN IndexTold(r, k) ELSE InProse(r, k, first)

\* The reason that holds at line i: of the last line that gives one, else of the release.
ByClause(r, l) == ~l.group /\ l.head # None /\ DOMAIN r.clauses # {}
KindAt(r, i) ==
    LET k == LastOf({j \in 1..i : ByClause(r, r.lines[j]) \/ r.lines[j].why # None})
    IN IF k = 0 THEN r.kind
       ELSE IF ByClause(r, r.lines[k]) THEN ClauseKind(r, r.lines[k].head)
       ELSE IF r.lines[k].why = "release" THEN r.kind ELSE r.lines[k].why

ReadAs(r, i) ==
    LET l == r.lines[i]
    IN [index |-> IndexAt(r, i), side |-> SideAfter(r, i), text |-> l.text,
        date |-> IF l.own = 0 THEN EffectiveDate(r, i) ELSE l.own, kind |-> KindAt(r, i)]

\* A release is laid out for its readers if what looks like a row is one, and the rows of the
\* wanted indices say what is read off their place.
LaidOut(r) ==
    \A i \in DOMAIN r.lines :
        /\ r.lines[i].printed # None <=> LooksLikeRow(r, i)
        /\ r.lines[i].printed # None =>
            \/ r.lines[i].printed = ReadAs(r, i)
            \/ r.lines[i].printed.index \notin Indices /\ IndexAt(r, i) \notin Indices

-----------------------------------------------------------------------------
\* What a reader finds in the release: of a wanted index.
PrintedRows ==
    {release.lines[i].printed : i \in {j \in DOMAIN release.lines :
        release.lines[j].printed # None /\ release.lines[j].printed.index \in Indices}}

(* Of every release the parser reports exactly the changes of the wanted   *)
(* indices that are printed in it, each in its section, on its side, for   *)
(* its reason and from its date, the row's own before that of the prose:   *)
(* tables of other and of unrecognised sections, page numbers, serials on  *)
(* a line of their own and prose that begins with a number add nothing and *)
(* cost nothing (index_changes.py:186, 229, 238-241).                      *)
ReportsWhatIsPrinted ==
    line > Len(release.lines) => {r \in rows : r.index \in Indices} = PrintedRows
=============================================================================
