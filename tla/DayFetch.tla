------------------------------ MODULE DayFetch ------------------------------
(***************************************************************************)
(* The archives of daily files: research/futures.py, _mcx_run (workers of  *)
(* one event loop share a queue of days), and research/bhavcopy.py, run    *)
(* (one loop over the days).  The manifest says of each day whether it is  *)
(* stored, a holiday, or still to be fetched; a run asks for what is       *)
(* neither stored nor a holiday, and days go on between the runs.          *)
(***************************************************************************)
EXTENDS Integers, FiniteSets, Sequences, SequencesExt

CONSTANTS
    LastDay,         \* days are 1..LastDay
    Sessions,        \* the days on which the exchange trades
    Workers,
    Attempts,        \* of the website, per visit to a day
    Asks,            \* of the file archive, per visit
    BadLimit,        \* error days in a row after which a run stops
    SaveEvery,
    Lag,             \* days after which an empty answer is trusted
    FalseEmpties,    \* function: "mcx" | "nse" -> wrong answers "empty" per visit
    Runs             \* bound

VARIABLES
    source,          \* which archive this is
    date,
    runs, up,        \* a run is going on
    queue,           \* days still to be taken, the next one last
    done, manifest,  \* function: day -> status, in memory and on disk
    files,           \* the days stored
    visit,           \* function: worker -> [day, attempt, empty, lies, noted]; day 0 between
                     \*   days, noted while it sleeps after a day
    count, bad

fetchVars == <<source, date, runs, up, queue, done, manifest, files, visit, count, bad>>

Days     == 1..LastDay
Begun(d) == [day |-> d, attempt |-> 0, empty |-> FALSE, lies |-> 0, noted |-> "none"]
Resting  == Begun(0)

ASSUME FetchAssumption ==
    /\ Sessions \subseteq Days /\ Workers # {} /\ Attempts \in Nat \ {0} /\ Asks \in Nat \ {0}
    /\ Lag \in Nat /\ SaveEvery \in Nat \ {0} /\ BadLimit \in Nat \ {0}

\* Old enough for an empty answer to be trusted; the exchange has published by then.
Old(d) == date - d > Lag

\* Days a run asks for, the first one last.
ToDo == Reverse(SelectSeq([d \in Days |-> d], LAMBDA d : manifest[d] \notin {"ok", "holiday"}))

StartRun ==
    /\ ~up /\ runs < Runs
    /\ up' = TRUE /\ runs' = runs + 1
    /\ done' = manifest
    /\ queue' = SelectSeq(ToDo, LAMBDA d : d <= date)
    /\ visit' = [w \in Workers |-> Resting]
    /\ count' = 0 /\ bad' = 0
    /\ UNCHANGED <<source, date, manifest, files>>

NextDate ==
    /\ ~up /\ date < LastDay + Lag + 1
    /\ date' = date + 1
    /\ UNCHANGED <<source, runs, up, queue, done, manifest, files, visit, count, bad>>

\* The progress is saved on the way out; only a killed process loses it.
EndRun ==
    /\ up /\ queue = <<>> /\ \A w \in Workers : visit[w] = Resting
    /\ up' = FALSE /\ manifest' = done
    /\ UNCHANGED <<source, date, runs, queue, done, files, visit, count, bad>>

Interrupt ==
    /\ up /\ source = "mcx"
    /\ up' = FALSE /\ manifest' = done
    /\ queue' = <<>> /\ visit' = [w \in Workers |-> Resting]
    /\ UNCHANGED <<source, date, runs, done, files, count, bad>>

Kill ==
    /\ up
    /\ up' = FALSE /\ done' = manifest
    /\ queue' = <<>> /\ visit' = [w \in Workers |-> Resting]
    /\ UNCHANGED <<source, date, runs, manifest, files, count, bad>>

-----------------------------------------------------------------------------
(* Both loops: the status is noted, the loop sleeps (five minutes after an  *)
(* error), and only then counts, saves and stops for too many errors.      *)

Visiting(w) == visit[w].day # 0 /\ visit[w].noted = "none"

Note(w, status) ==
    /\ done' = [done EXCEPT ![visit[w].day] = status]
    /\ visit' = [visit EXCEPT ![w].noted = status]

Tally(w) ==
    LET worse == IF visit[w].noted = "error" THEN bad + 1 ELSE 0
    IN /\ visit[w].noted # "none"
       /\ count' = count + 1
       /\ bad' = IF source = "mcx" THEN worse ELSE bad
       /\ queue' = IF source = "mcx" /\ worse >= BadLimit THEN <<>> ELSE queue
       /\ manifest' = IF (count + 1) % SaveEvery = 0 THEN done ELSE manifest
       /\ visit' = [visit EXCEPT ![w] = Resting]
       /\ UNCHANGED <<source, date, runs, up, done, files>>

Take(w) ==
    /\ up /\ queue # <<>> /\ visit[w] = Resting
    /\ source = "nse" => \A u \in Workers : visit[u] = Resting
    /\ visit' = [visit EXCEPT ![w] = Begun(Last(queue))]
    /\ queue' = Front(queue)
    /\ UNCHANGED <<source, date, runs, up, done, manifest, files, count, bad>>

\* The page died, timed out or answered with an error: a fresh page, one attempt less.
Retry(w, empty, lies) ==
    IF visit[w].attempt + 1 = Attempts
    THEN Note(w, "error")
    ELSE /\ visit' = [visit EXCEPT ![w] = [day |-> @.day, attempt |-> @.attempt + 1,
                                           empty |-> empty, lies |-> lies, noted |-> "none"]]
         /\ UNCHANGED done

McxFails(w) ==
    /\ source = "mcx" /\ Visiting(w)
    /\ Retry(w, visit[w].empty, visit[w].lies)
    /\ UNCHANGED <<source, date, runs, up, queue, manifest, files, count, bad>>

\* The rows are on disk before the day is noted.
McxRows(w) ==
    /\ source = "mcx" /\ Visiting(w) /\ visit[w].day \in Sessions
    /\ files' = files \cup {visit[w].day}
    /\ Note(w, "ok")
    /\ UNCHANGED <<source, date, runs, up, queue, manifest, count, bad>>

\* Mutant: the first empty answer is taken for a holiday.
McxEmptyTrusting(w, lie) ==
    /\ source = "mcx" /\ Visiting(w)
    /\ lie <=> (visit[w].day \in Sessions /\ Old(visit[w].day))
    /\ lie => visit[w].lies < FalseEmpties[source]
    /\ Note(w, IF Old(visit[w].day) THEN "holiday" ELSE "pending")
    /\ UNCHANGED <<source, date, runs, up, queue, manifest, files, count, bad>>

\* No rows: a recent day is asked for again in the next run; another is a holiday
\* when a second answer, on a fresh page, has no rows either.
McxEmpty(w, lie) ==
    /\ source = "mcx" /\ Visiting(w)
    /\ lie <=> (visit[w].day \in Sessions /\ Old(visit[w].day))
    /\ lie => visit[w].lies < FalseEmpties[source]
    /\ IF ~Old(visit[w].day) THEN Note(w, "pending")
       ELSE IF visit[w].empty THEN Note(w, "holiday")
       ELSE Retry(w, TRUE, visit[w].lies + (IF lie THEN 1 ELSE 0))
    /\ UNCHANGED <<source, date, runs, up, queue, manifest, files, count, bad>>

-----------------------------------------------------------------------------
(* fetch_day: up to three requests for the zip file of a day. *)

\* Answers to one visit: the file comes last and ends it; "bad" is a network error,
\* another status, or bytes that are not a zip file; "norows" a file without rows.
Visits(d) ==
    {r \in UNION {[1..n -> {"404", "bad", "file", "norows"}] : n \in 1..Asks} :
        /\ \A i \in 1..(Len(r) - 1) : r[i] \in {"404", "bad"}
        /\ Last(r) \in {"file", "norows"} => d \in Sessions
        /\ Len(r) < Asks => Last(r) \in {"file", "norows"}
        /\ (d \in Sessions /\ Old(d)) => Cardinality({i \in DOMAIN r : r[i] = "404"}) <= FalseEmpties["nse"]}

\* Mutant: any request answered 404 makes the day a holiday.
NseStatusHasty(d, r) ==
    IF Last(r) = "file" THEN "ok"
    ELSE IF Last(r) # "norows" /\ (\E i \in DOMAIN r : r[i] = "404") /\ Old(d)
    THEN "holiday" ELSE "error"

\* A holiday is a day that is old enough and was refused three times.
NseStatus(d, r) ==
    IF Last(r) = "file" THEN "ok"
    ELSE IF Len(r) = Asks /\ (\A i \in DOMAIN r : r[i] = "404") /\ Old(d)
    THEN "holiday" ELSE "error"

NseVisit(w, r) ==
    LET status == NseStatus(visit[w].day, r)
    IN /\ source = "nse"
       /\ files' = IF status = "ok" THEN files \cup {visit[w].day} ELSE files
       /\ Note(w, status)
       /\ UNCHANGED <<source, date, runs, up, queue, manifest, count, bad>>

-----------------------------------------------------------------------------
FetchInit ==
    /\ source \in {"mcx", "nse"}
    /\ date = LastDay
    /\ runs = 0 /\ up = FALSE /\ queue = <<>>
    /\ manifest = [d \in Days |-> "none"] /\ done = manifest
    /\ files = {} /\ visit = [w \in Workers |-> Resting]
    /\ count = 0 /\ bad = 0

FetchNext ==
    \/ StartRun \/ NextDate \/ EndRun \/ Interrupt \/ Kill
    \/ \E w \in Workers :
        \/ Take(w) \/ Tally(w) \/ McxFails(w) \/ McxRows(w)
        \/ \E lie \in BOOLEAN : McxEmpty(w, lie)
        \/ Visiting(w) /\ \E r \in Visits(visit[w].day) : NseVisit(w, r)

FetchSpec == FetchInit /\ [][FetchNext]_fetchVars

-----------------------------------------------------------------------------
(* No session is lost.  A day noted as a holiday is never asked for again, *)
(* so it must be one: with at most FalseEmpties wrong answers in a visit,  *)
(* with days not yet published, and over interrupted, aborted and killed   *)
(* runs (futures.py:223, "a transient empty reply cost 2005-12-16";        *)
(* bhavcopy.py:101).                                                       *)
NoSessionLost == \A d \in Days : "holiday" \in {done[d], manifest[d]} => d \notin Sessions
=============================================================================
