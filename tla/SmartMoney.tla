----------------------------- MODULE SmartMoney -----------------------------
(***************************************************************************)
(* core/smart_money.py, SmartMoneyFilter: which companies institutions buy *)
(* in bulk.  A filter keeps the number of shares of the companies, in a    *)
(* file that all processes share under a lock, and the exchange's lists of *)
(* deals of the day; process_smart_money writes the scores of all          *)
(* companies to a file, get_whale_score answers for one.                   *)
(***************************************************************************)
EXTENDS Integers, FiniteSets, FiniteSetsExt

CONSTANTS
    Filters,         \* the objects, one per process
    Companies,
    Shares,          \* function: known company -> shares outstanding
    Deals,           \* function: "bulk" | "block" -> deals [company, inst, side, qty]
    DealDays,        \* days on which something happens; day 0 is a Monday
    Unwritten

VARIABLES
    today,
    cacheAt, cache,  \* the metadata file: its day, and "none", "junk" or "shares"
    lockedBy,
    at,              \* function: filter -> where it is
    knows,           \* the filter has the shares
    lists,           \* the lists it has: a subset of the two; Unwritten before it asks
    renamed,         \* the columns of its lists are upper case
    scores,          \* whale_scores.json: the whales, or Unwritten
    denied           \* history: its last look at the file met a lock or a failed refresh

smVars == <<today, cacheAt, cache, lockedBy, at, knows, lists, renamed, scores, denied>>
cacheFile == <<cacheAt, cache>>
results   == <<lists, renamed, scores>>

ASSUME SmartMoneyAssumption ==
    /\ DOMAIN Shares \subseteq Companies
    /\ \A c \in DOMAIN Shares : Shares[c] \in Nat \ {0}
    /\ \A l \in {"bulk", "block"} : \A r \in Deals[l] : r.qty \in Nat

Sunday(d) == d % 7 = 6

Ensuring == {"init", "again"}       \* the constructor's look at the file, and process_smart_money's
After(p) == IF at[p] = "init" THEN "open" ELSE "deals"

-----------------------------------------------------------------------------
(* _ensure_metadata_cache and _refresh_metadata *)

\* Younger than a week, and today is no Sunday.
Recent == cache # "none" /\ today - cacheAt < 7 /\ ~Sunday(today)

\* Mutant: a file that cannot be parsed is no reason to refresh.
UsableUnread == Recent

\* It parses, too.
Usable == Recent /\ cache = "shares"

Construct(p) ==
    /\ at[p] = "idle"
    /\ at' = [at EXCEPT ![p] = "init"]
    /\ UNCHANGED <<today, cacheFile, lockedBy, knows, results, denied>>

Load(p) ==
    /\ at[p] \in Ensuring /\ lockedBy = Unwritten /\ Usable
    /\ knows' = [knows EXCEPT ![p] = (cache = "shares")]
    /\ at' = [at EXCEPT ![p] = After(p)]
    /\ denied' = [denied EXCEPT ![p] = FALSE]
    /\ UNCHANGED <<today, cacheFile, lockedBy, results>>

StartRefresh(p) ==
    /\ at[p] \in Ensuring /\ lockedBy = Unwritten /\ ~Usable
    /\ lockedBy' = p
    /\ UNCHANGED <<today, cacheFile, at, knows, results, denied>>

\* No tickers, or no company with shares: what the filter knew it keeps.
RefreshFails(p) ==
    /\ at[p] \in Ensuring /\ lockedBy = p
    /\ lockedBy' = Unwritten
    /\ at' = [at EXCEPT ![p] = After(p)]
    /\ denied' = [denied EXCEPT ![p] = TRUE]
    /\ UNCHANGED <<today, cacheFile, knows, results>>

\* The file is rewritten in place.
BeginDump(p) ==
    /\ at[p] \in Ensuring /\ lockedBy = p
    /\ knows' = [knows EXCEPT ![p] = TRUE]
    /\ cacheAt' = today /\ cache' = "junk"
    /\ at' = [at EXCEPT ![p] = IF at[p] = "init" THEN "dump-init" ELSE "dump"]
    /\ UNCHANGED <<today, lockedBy, results, denied>>

EndDump(p) ==
    /\ at[p] \in {"dump-init", "dump"}
    /\ cacheAt' = today /\ cache' = "shares"
    /\ lockedBy' = Unwritten
    /\ at' = [at EXCEPT ![p] = IF at[p] = "dump-init" THEN "open" ELSE "deals"]
    /\ denied' = [denied EXCEPT ![p] = FALSE]
    /\ UNCHANGED <<today, knows, results>>

\* The lock is not to be had in five seconds: the file is read without it, if need be.
LockedOut(p) ==
    /\ at[p] \in Ensuring /\ lockedBy \notin {Unwritten, p}
    /\ knows' = [knows EXCEPT ![p] = @ \/ cache = "shares"]
    /\ at' = [at EXCEPT ![p] = After(p)]
    /\ denied' = [denied EXCEPT ![p] = TRUE]
    /\ UNCHANGED <<today, cacheFile, lockedBy, results>>

\* The object, or its process, is gone; the system releases the lock.
Exit(p) ==
    /\ at[p] # "idle"
    /\ at' = [at EXCEPT ![p] = "idle"]
    /\ lockedBy' = IF lockedBy = p THEN Unwritten ELSE lockedBy
    /\ knows' = [knows EXCEPT ![p] = FALSE]
    /\ lists' = [lists EXCEPT ![p] = Unwritten]
    /\ renamed' = [renamed EXCEPT ![p] = FALSE]
    /\ denied' = [denied EXCEPT ![p] = FALSE]
    /\ UNCHANGED <<today, cacheFile, scores>>

-----------------------------------------------------------------------------
(* get_deals *)

\* Over HTTP both lists or, when one request fails, none; the browser then saves those
\* it gets, which may be none.
Fetched == SUBSET {"bulk", "block"}

GetDeals(p, got) ==
    /\ at[p] \in {"deals", "open"} /\ lists[p] = Unwritten
    /\ lists' = [lists EXCEPT ![p] = got]
    /\ UNCHANGED <<today, cacheFile, lockedBy, at, knows, renamed, scores, denied>>

\* Institutions' net purchase of a company.
NetBuying(ls, c) ==
    LET rows == {r \in UNION {Deals[l] : l \in ls} : r.company = c /\ r.inst}
        Volume(side) == MapThenSumSet(LAMBDA r : r.qty, {r \in rows : r.side = side})
    IN Volume("BUY") - Volume("SELL")

\* More than half a percent of the company.
IsWhale(ls, c) == c \in DOMAIN Shares /\ NetBuying(ls, c) * 200 > Shares[c]

\* process_smart_money looks at the shares again ...
BeginScreen(p) ==
    /\ at[p] = "open"
    /\ at' = [at EXCEPT ![p] = "again"]
    /\ UNCHANGED <<today, cacheFile, lockedBy, knows, results, denied>>

\* ... and scores: the columns of the cached lists are renamed in place.  Without
\* deals the file of an earlier day stays.
Screen(p) ==
    /\ at[p] = "deals" /\ lists[p] # Unwritten
    /\ at' = [at EXCEPT ![p] = "open"]
    /\ IF lists[p] = {}
       THEN UNCHANGED <<renamed, scores>>
       ELSE /\ renamed' = [renamed EXCEPT ![p] = TRUE]
            /\ scores' = IF knows[p] THEN {c \in Companies : IsWhale(lists[p], c)} ELSE {}
    /\ UNCHANGED <<today, cacheFile, lockedBy, knows, lists, denied>>

\* get_whale_score looks for a column "Symbol"; it asks for the lists as GetDeals does.
WhaleScore(p, c) ==
    IF knows[p] /\ lists[p] # {} /\ ~renamed[p] /\ IsWhale(lists[p], c) THEN 1 ELSE 0

PassDays ==
    /\ \E d \in DealDays : d > today /\ today' = d
    /\ UNCHANGED <<cacheFile, lockedBy, at, knows, results, denied>>

SmartInit ==
    /\ today = 0 /\ cacheAt = 0 /\ cache = "none" /\ lockedBy = Unwritten
    /\ at = [p \in Filters |-> "idle"]
    /\ knows = [p \in Filters |-> FALSE]
    /\ lists = [p \in Filters |-> Unwritten]
    /\ renamed = [p \in Filters |-> FALSE]
    /\ scores = Unwritten
    /\ denied = [p \in Filters |-> FALSE]

SmartNext ==
    \/ PassDays
    \/ \E p \in Filters :
        \/ Construct(p) \/ Load(p) \/ StartRefresh(p) \/ RefreshFails(p) \/ BeginDump(p)
        \/ EndDump(p) \/ LockedOut(p) \/ Exit(p) \/ BeginScreen(p) \/ Screen(p)
        \/ \E got \in Fetched : GetDeals(p, got)

SmartSpec == SmartInit /\ [][SmartNext]_smVars

-----------------------------------------------------------------------------
(* A screen without the number of shares finds no whales and overwrites    *)
(* the scores.  It happens only when this very look at the file met a held *)
(* lock or a failed refresh: a file that a dead process left half written  *)
(* is replaced, even when it is of today (smart_money.py:86).              *)
ScreenKnowsShares ==
    \A p \in Filters : (at[p] = "deals" /\ ~knows[p]) => denied[p]

(* smart_money.py:371, "Whale Score = 1 if institutional net buying > 0.5% *)
(* of total equity, else 0": the score answered for a company is that of   *)
(* the lists, also after the same filter has screened them.                *)
ScoresAgree ==
    \A p \in Filters : (at[p] = "open" /\ knows[p] /\ lists[p] # Unwritten) =>
        \A c \in Companies : WhaleScore(p, c) = 1 <=> IsWhale(lists[p], c)
=============================================================================
