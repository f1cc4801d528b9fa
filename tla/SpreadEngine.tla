---------------------------- MODULE SpreadEngine ----------------------------
(***************************************************************************)
(* The trading core of strategies/wheel_strategy.py: any number of threads *)
(* of the one bot process, each with a WheelStateMachine of its own,       *)
(* running execute_daily_cycle (Entrants) or check_exits (Exiters) for one *)
(* symbol, against one PostgreSQL row, one advisory lock and one broker    *)
(* account.                                                                *)
(*                                                                         *)
(* A spread is one pair of put contracts.  Quantities are counted in units *)
(* of one entry; the P&L of every trade is one unit, so that a lost or     *)
(* doubled booking shows as a difference of counts.                        *)
(***************************************************************************)
EXTENDS Integers, FiniteSets

CONSTANTS
    Entrants,         \* threads that run execute_daily_cycle
    Exiters,          \* threads that run check_exits
    Spreads,          \* the put spreads an entry may select
    NoSpread,         \* no position: both leg columns are NULL
    NoWorker,         \* nobody holds the advisory lock
    Faults,           \* what may go wrong, a subset of FaultKinds
    RequoteAttempts,  \* settings.ENTRY_REQUOTE_ATTEMPTS
    MaxJobs           \* bound: jobs started in one behaviour

Workers == Entrants \cup Exiters

FaultKinds == {
    "late_fill",      \* an order fills after the last poll, or its cancel fails
    "lost_reply",     \* the broker takes an order whose reply never arrives
    "status_error",   \* get_order_status returns None for a finished order
    "db_error",       \* a psycopg2.Error, which load and save swallow
    "session_lost",   \* the connection that holds the advisory lock drops
    "crash"}          \* the process dies and is restarted

ASSUME SpreadAssumption == NoSpread \notin Spreads
ASSUME WorkerAssumption == NoWorker \notin Workers /\ IsFiniteSet(Workers)
ASSUME FaultAssumption  == Faults \subseteq FaultKinds
ASSUME BoundAssumption  == RequoteAttempts \in Nat /\ MaxJobs \in Nat

VARIABLES
    row,       \* the symbol's row of index_spread_state
    history,   \* number of rows of trade_history
    lock,      \* holder of pg_advisory_lock(hashtext(symbol))
    hedge,     \* broker: net long-leg quantity per spread
    sold,      \* broker: net short-leg quantity owed per spread
    stray,     \* broker: working orders no thread watches any more
    expired,   \* spreads past their expiry date
    job,       \* what each thread is doing
    jobs       \* jobs started so far

dbVars     == <<row, history>>
brokerVars == <<hedge, sold, stray, expired>>
vars       == <<row, history, lock, hedge, sold, stray, expired, job, jobs>>

-----------------------------------------------------------------------------
(* Data *)

Stages == {"ABSENT", "IDLE", "STAGE_1_CSP", "CLOSED"}
Rows   == [stage : Stages, spread : Spreads \cup {NoSpread}, lifetime : Nat]

\* No row for the symbol: what an empty table, and a failed load, look like.
AbsentRow == [stage |-> "ABSENT", spread |-> NoSpread, lifetime |-> 0]

\* The default record of ensure_symbol_state.
IdleRow == [stage |-> "IDLE", spread |-> NoSpread, lifetime |-> 0]

BuyLegs  == {"BUY_HEDGE", "BTC"}
SellLegs == {"SELL_SHORT", "UNWIND", "STC"}
Legs     == BuyLegs \cup SellLegs
\* Legs placed through _place_entry_leg_with_requote.
EntryLegs == {"BUY_HEDGE", "SELL_SHORT"}
\* Legs whose caller neither looks for a rejection nor cancels on timeout.
UncancelledLegs == {"UNWIND", "STC"}

Pcs == {"idle", "ensure", "trylock", "gates", "place", "poll", "cancel",
        "save", "unlock", "decide", "archive", "close"}

OrderStates == {"none", "open", "complete", "rejected"}

Jobs == [pc : Pcs, mem : Rows, spread : Spreads \cup {NoSpread},
         leg : Legs, tries : Nat, ord : OrderStates]

\* Jobs build a new WheelStateMachine and drop it: nothing survives a job.
IdleJob == [pc |-> "idle", mem |-> AbsentRow, spread |-> NoSpread,
            leg |-> "BUY_HEDGE", tries |-> 0, ord |-> "none"]

-----------------------------------------------------------------------------
(* The database calls, each one transaction; psycopg2.Error is swallowed *)

LoadState == {row} \cup IF "db_error" \in Faults THEN {AbsentRow} ELSE {}

SaveState(r) == {r} \cup IF "db_error" \in Faults THEN {row} ELSE {}

ArchiveTrade == {history + 1} \cup IF "db_error" \in Faults THEN {history} ELSE {}

-----------------------------------------------------------------------------
(* Where a thread goes when a leg is filled, or is given up *)

Become(w, j) == job' = [job EXCEPT ![w] = j]

At(w, pc, leg) ==
    [job[w] EXCEPT !.pc = pc, !.leg = leg, !.tries = 0, !.ord = "none"]

Finish(w) == Become(w, IdleJob)

AfterFill(w) ==
    CASE job[w].leg = "BUY_HEDGE"  -> At(w, "place", "SELL_SHORT")
      [] job[w].leg = "SELL_SHORT" -> At(w, "save", "SELL_SHORT")
      [] job[w].leg = "UNWIND"     -> At(w, "unlock", "UNWIND")
      [] job[w].leg = "BTC"        -> At(w, "place", "STC")
      [] job[w].leg = "STC"        -> At(w, "archive", "STC")

\* Mutant: the return after a failed short and its unwind is missing.
AfterGiveUpSaving(w) ==
    CASE job[w].leg = "SELL_SHORT" -> At(w, "save", "SELL_SHORT")
      [] job[w].leg = "BTC"        -> IdleJob
      [] job[w].leg = "STC"        -> At(w, "archive", "STC")
      [] OTHER                     -> At(w, "unlock", job[w].leg)

\* Mutant: the return after a failed BTC is missing.
AfterGiveUpSelling(w) ==
    CASE job[w].leg = "SELL_SHORT" -> At(w, "place", "UNWIND")
      [] job[w].leg = "BTC"        -> At(w, "place", "STC")
      [] job[w].leg = "STC"        -> At(w, "archive", "STC")
      [] OTHER                     -> At(w, "unlock", job[w].leg)

\* Mutant: a failed STC returns without closing the row.
AfterGiveUpOpen(w) ==
    CASE job[w].leg = "SELL_SHORT"     -> At(w, "place", "UNWIND")
      [] job[w].leg \in {"BTC", "STC"} -> IdleJob
      [] OTHER                         -> At(w, "unlock", job[w].leg)

\* A failed hedge ends the cycle, a failed short unwinds the hedge, a failed
\* BTC leaves the spread alone, a failed STC is booked as closed all the same.
AfterGiveUp(w) ==
    CASE job[w].leg = "BUY_HEDGE"  -> At(w, "unlock", "BUY_HEDGE")
      [] job[w].leg = "SELL_SHORT" -> At(w, "place", "UNWIND")
      [] job[w].leg = "UNWIND"     -> At(w, "unlock", "UNWIND")
      [] job[w].leg = "BTC"        -> IdleJob
      [] job[w].leg = "STC"        -> At(w, "archive", "STC")

\* Mutant: the attempts are not counted.
RequoteForever(w) ==
    IF job[w].leg \in EntryLegs
    THEN [job[w] EXCEPT !.pc = "place", !.ord = "none"]
    ELSE AfterGiveUp(w)

RequoteOrGiveUp(w) ==
    IF job[w].leg \in EntryLegs /\ job[w].tries < RequoteAttempts
    THEN [job[w] EXCEPT
            !.pc = "place", !.tries = job[w].tries + 1, !.ord = "none"]
    ELSE AfterGiveUp(w)

-----------------------------------------------------------------------------
(* The broker *)

LegHedge(leg) == CASE leg = "BUY_HEDGE" -> 1
                   [] leg \in {"UNWIND", "STC"} -> -1
                   [] OTHER -> 0

LegSold(leg) == CASE leg = "SELL_SHORT" -> 1
                  [] leg = "BTC" -> -1
                  [] OTHER -> 0

\* The account after one order for this leg has traded.
Execute(s, leg) ==
    /\ hedge' = [hedge EXCEPT ![s] = @ + LegHedge(leg)]
    /\ sold' = [sold EXCEPT ![s] = @ + LegSold(leg)]

\* The order of thread w keeps working at the broker with nobody watching it.
Abandon(w) ==
    stray' = [stray EXCEPT ![job[w].spread][job[w].leg] = @ + 1]

FillOrder(w) ==
    /\ job[w].ord = "open"
    /\ job[w].spread \notin expired
    /\ job[w].pc = "poll" \/ "late_fill" \in Faults
    /\ Become(w, [job[w] EXCEPT !.ord = "complete"])
    /\ Execute(job[w].spread, job[w].leg)
    /\ UNCHANGED <<dbVars, lock, stray, expired, jobs>>

RejectOrder(w) ==
    /\ job[w].ord = "open"
    /\ Become(w, [job[w] EXCEPT !.ord = "rejected"])
    /\ UNCHANGED <<dbVars, lock, brokerVars, jobs>>

FillStray(s, leg) ==
    /\ stray[s][leg] > 0
    /\ stray' = [stray EXCEPT ![s][leg] = @ - 1]
    /\ Execute(s, leg)
    /\ UNCHANGED <<dbVars, lock, expired, job, jobs>>

\* The contracts of spread s expire: cash settlement empties both legs and
\* every DAY order on them has lapsed.
Expire(s) ==
    /\ s \notin expired
    /\ expired' = expired \cup {s}
    /\ hedge' = [hedge EXCEPT ![s] = 0]
    /\ sold' = [sold EXCEPT ![s] = 0]
    /\ stray' = [stray EXCEPT ![s] = [l \in Legs |-> 0]]
    /\ job' = [w \in Workers |->
        IF job[w].spread = s /\ job[w].ord = "open"
        THEN [job[w] EXCEPT !.ord = "rejected"] ELSE job[w]]
    /\ UNCHANGED <<dbVars, lock, jobs>>

-----------------------------------------------------------------------------
(* One order: place it, poll it three times, cancel it *)

PlaceAccepted(w) ==
    /\ job[w].pc = "place"
    /\ job[w].spread \notin expired
    /\ Become(w, [job[w] EXCEPT !.pc = "poll", !.ord = "open"])
    /\ UNCHANGED <<dbVars, lock, brokerVars, jobs>>

\* place_order_by_key returns None: refused, or taken with the reply lost.
PlaceReturnsNone(w) ==
    /\ job[w].pc = "place"
    /\ \/ UNCHANGED stray
       \/ /\ "lost_reply" \in Faults
          /\ job[w].spread \notin expired
          /\ Abandon(w)
    /\ Become(w, AfterGiveUp(w))
    /\ UNCHANGED <<dbVars, lock, hedge, sold, expired, jobs>>

PollComplete(w) ==
    /\ job[w].pc = "poll"
    /\ job[w].ord = "complete"
    /\ Become(w, AfterFill(w))
    /\ UNCHANGED <<dbVars, lock, brokerVars, jobs>>

PollRejected(w) ==
    /\ job[w].pc = "poll"
    /\ job[w].ord = "rejected"
    /\ job[w].leg \notin UncancelledLegs
    /\ Become(w, RequoteOrGiveUp(w))
    /\ UNCHANGED <<dbVars, lock, brokerVars, jobs>>

\* The status three polls in a row did not settle.
Unsettled(w) ==
    \/ job[w].ord = "open"
    \/ job[w].ord = "rejected" /\ job[w].leg \in UncancelledLegs
    \/ "status_error" \in Faults

\* Mutant: requote without cancelling the order that timed out.
PollTimeoutUncancelled(w) ==
    /\ job[w].pc = "poll"
    /\ job[w].ord = "open"
    /\ job[w].leg \notin UncancelledLegs
    /\ Abandon(w)
    /\ Become(w, RequoteOrGiveUp(w))
    /\ UNCHANGED <<dbVars, lock, hedge, sold, expired, jobs>>

PollTimeout(w) ==
    /\ job[w].pc = "poll"
    /\ Unsettled(w)
    /\ job[w].leg \notin UncancelledLegs
    /\ Become(w, [job[w] EXCEPT !.pc = "cancel"])
    /\ UNCHANGED <<dbVars, lock, brokerVars, jobs>>

\* UNWIND and STC orders that time out are left working at the broker.
PollAbandon(w) ==
    /\ job[w].pc = "poll"
    /\ Unsettled(w)
    /\ job[w].leg \in UncancelledLegs
    /\ IF job[w].ord = "open" THEN Abandon(w) ELSE UNCHANGED stray
    /\ Become(w, AfterGiveUp(w))
    /\ UNCHANGED <<dbVars, lock, hedge, sold, expired, jobs>>

\* cancel_order's result is not looked at: the order may still be working.
CancelOrder(w) ==
    /\ job[w].pc = "cancel"
    /\ \/ UNCHANGED stray
       \/ /\ "late_fill" \in Faults
          /\ job[w].ord = "open"
          /\ Abandon(w)
    /\ Become(w, RequoteOrGiveUp(w))
    /\ UNCHANGED <<dbVars, lock, hedge, sold, expired, jobs>>

-----------------------------------------------------------------------------
(* execute_daily_cycle *)

\* Mutant: the default record is written for every symbol, known or not.
StartEntryResetting(w) ==
    /\ w \in Entrants
    /\ job[w].pc = "idle"
    /\ jobs < MaxJobs
    /\ jobs' = jobs + 1
    /\ \E r \in LoadState :
        Become(w, [job[w] EXCEPT !.mem = r, !.pc = "ensure"])
    /\ UNCHANGED <<dbVars, lock, brokerVars>>

StartEntry(w) ==
    /\ w \in Entrants
    /\ job[w].pc = "idle"
    /\ jobs < MaxJobs
    /\ jobs' = jobs + 1
    /\ \E r \in LoadState :
        Become(w, [job[w] EXCEPT
            !.mem = r,
            !.pc = IF r.stage = "ABSENT" THEN "ensure" ELSE "trylock"])
    /\ UNCHANGED <<dbVars, lock, brokerVars>>

EnsureSymbolState(w) ==
    /\ job[w].pc = "ensure"
    /\ Become(w, [job[w] EXCEPT !.mem = IdleRow, !.pc = "trylock"])
    /\ row' \in SaveState(IdleRow)
    /\ UNCHANGED <<history, lock, brokerVars, jobs>>

\* Mutant: the answer of pg_try_advisory_lock is not looked at.
AcquireLockUnchecked(w) ==
    /\ job[w].pc = "trylock"
    /\ lock' = w
    /\ Become(w, [job[w] EXCEPT !.pc = "gates"])
    /\ UNCHANGED <<dbVars, brokerVars, jobs>>

AcquireLock(w) ==
    /\ job[w].pc = "trylock"
    /\ lock = NoWorker
    /\ lock' = w
    /\ Become(w, [job[w] EXCEPT !.pc = "gates"])
    /\ UNCHANGED <<dbVars, brokerVars, jobs>>

SkipLocked(w) ==
    /\ job[w].pc = "trylock"
    /\ lock # NoWorker \/ "db_error" \in Faults
    /\ Finish(w)
    /\ UNCHANGED <<dbVars, lock, brokerVars, jobs>>

\* Mutant: no stage test.
MayEnterAlways(w) == job[w].mem.stage # "ABSENT"

\* The stage test reads the state loaded before the lock was taken.
MayEnter(w) == job[w].mem.stage \in {"IDLE", "CLOSED"}

PassGates(w) ==
    /\ job[w].pc = "gates"
    /\ MayEnter(w)
    /\ \E s \in Spreads \ expired :
        Become(w, [job[w] EXCEPT !.pc = "place", !.leg = "BUY_HEDGE", !.spread = s])
    /\ UNCHANGED <<dbVars, lock, brokerVars, jobs>>

\* The stage, VIX, IVR, calendar, trend, liquidity, margin or risk gate says no.
BlockedByGate(w) ==
    /\ job[w].pc = "gates"
    /\ Become(w, [job[w] EXCEPT !.pc = "unlock"])
    /\ UNCHANGED <<dbVars, lock, brokerVars, jobs>>

\* Mutant: the P&L of earlier trades is not carried over.
SaveEntryFresh(w) ==
    /\ job[w].pc = "save"
    /\ row' \in SaveState([stage    |-> "STAGE_1_CSP",
                           spread   |-> job[w].spread,
                           lifetime |-> 0])
    /\ Become(w, [job[w] EXCEPT !.pc = "unlock"])
    /\ UNCHANGED <<history, lock, brokerVars, jobs>>

\* Both legs are filled: record the position.
SaveEntry(w) ==
    /\ job[w].pc = "save"
    /\ row' \in SaveState([stage    |-> "STAGE_1_CSP",
                           spread   |-> job[w].spread,
                           lifetime |-> job[w].mem.lifetime])
    /\ Become(w, [job[w] EXCEPT !.pc = "unlock"])
    /\ UNCHANGED <<history, lock, brokerVars, jobs>>

\* finally: pg_advisory_unlock, which frees what this session still holds.
Unlock(w) ==
    /\ job[w].pc = "unlock"
    /\ lock' = IF lock = w THEN NoWorker ELSE lock
    /\ Finish(w)
    /\ UNCHANGED <<dbVars, brokerVars, jobs>>

-----------------------------------------------------------------------------
(* check_exits and _execute_exit *)

StartExit(w) ==
    /\ w \in Exiters
    /\ job[w].pc = "idle"
    /\ jobs < MaxJobs
    /\ jobs' = jobs + 1
    /\ \E r \in LoadState :
        /\ r.stage = "STAGE_1_CSP"
        /\ Become(w, [job[w] EXCEPT !.mem = r, !.spread = r.spread, !.pc = "decide"])
    /\ UNCHANGED <<dbVars, lock, brokerVars>>

\* No quote, no exit condition, or an expired spread without settlement close.
NoExit(w) ==
    /\ job[w].pc = "decide"
    /\ Finish(w)
    /\ UNCHANGED <<dbVars, lock, brokerVars, jobs>>

\* Mutant: the exit sells the hedge first.
TriggerExitHedgeFirst(w) ==
    /\ job[w].pc = "decide"
    /\ job[w].spread \notin expired
    /\ Become(w, At(w, "place", "STC"))
    /\ UNCHANGED <<dbVars, lock, brokerVars, jobs>>

\* Take profit, stop, delta, DTE or time stop: buy the short back first.
TriggerExit(w) ==
    /\ job[w].pc = "decide"
    /\ job[w].spread \notin expired
    /\ Become(w, At(w, "place", "BTC"))
    /\ UNCHANGED <<dbVars, lock, brokerVars, jobs>>

\* "Expiry (offline)": book at the settlement close, no orders.
SettleExpired(w) ==
    /\ job[w].pc = "decide"
    /\ job[w].spread \in expired
    /\ Become(w, [job[w] EXCEPT !.pc = "archive"])
    /\ UNCHANGED <<dbVars, lock, brokerVars, jobs>>

ArchiveExit(w) ==
    /\ job[w].pc = "archive"
    /\ history' \in ArchiveTrade
    /\ Become(w, [job[w] EXCEPT !.pc = "close"])
    /\ UNCHANGED <<row, lock, brokerVars, jobs>>

\* Mutant: a stage no reader of the row knows.
SaveClosedMisspelt(w) ==
    /\ job[w].pc = "close"
    /\ row' \in SaveState([stage    |-> "STAGE_0_CLOSED",
                           spread   |-> NoSpread,
                           lifetime |-> job[w].mem.lifetime + 1])
    /\ Finish(w)
    /\ UNCHANGED <<history, lock, brokerVars, jobs>>

SaveClosed(w) ==
    /\ job[w].pc = "close"
    /\ row' \in SaveState([stage    |-> "CLOSED",
                           spread   |-> NoSpread,
                           lifetime |-> job[w].mem.lifetime + 1])
    /\ Finish(w)
    /\ UNCHANGED <<history, lock, brokerVars, jobs>>

-----------------------------------------------------------------------------
(* Losing the lock's session; process death: broker orders stay *)

\* PostgreSQL frees the lock of a dropped session; its thread does not notice.
LoseSession ==
    /\ "session_lost" \in Faults
    /\ lock # NoWorker
    /\ lock' = NoWorker
    /\ UNCHANGED <<dbVars, brokerVars, job, jobs>>

Crash ==
    /\ "crash" \in Faults
    /\ stray' = [s \in Spreads |-> [l \in Legs |->
        stray[s][l] + Cardinality({w \in Workers : /\ job[w].ord = "open"
                                                   /\ job[w].spread = s
                                                   /\ job[w].leg = l})]]
    /\ job' = [w \in Workers |-> IdleJob]
    /\ lock' = NoWorker
    /\ UNCHANGED <<dbVars, hedge, sold, expired, jobs>>

-----------------------------------------------------------------------------

Init ==
    /\ row = AbsentRow
    /\ history = 0
    /\ lock = NoWorker
    /\ hedge = [s \in Spreads |-> 0]
    /\ sold = [s \in Spreads |-> 0]
    /\ stray = [s \in Spreads |-> [l \in Legs |-> 0]]
    /\ expired = {}
    /\ job = [w \in Workers |-> IdleJob]
    /\ jobs = 0

OrderStep(w) ==
    \/ PlaceAccepted(w) \/ PlaceReturnsNone(w)
    \/ PollComplete(w) \/ PollRejected(w) \/ PollTimeout(w) \/ PollAbandon(w)
    \/ CancelOrder(w)

EntryStep(w) ==
    \/ EnsureSymbolState(w) \/ AcquireLock(w) \/ SkipLocked(w)
    \/ PassGates(w) \/ BlockedByGate(w) \/ SaveEntry(w) \/ Unlock(w)

ExitStep(w) ==
    \/ NoExit(w) \/ TriggerExit(w) \/ SettleExpired(w)
    \/ ArchiveExit(w) \/ SaveClosed(w)

\* A step of thread w inside a job; what a running thread always gets to do.
Step(w) == OrderStep(w) \/ EntryStep(w) \/ ExitStep(w)

BrokerStep ==
    \/ \E w \in Workers : FillOrder(w) \/ RejectOrder(w)
    \/ \E s \in Spreads : Expire(s) \/ \E l \in Legs : FillStray(s, l)

Next ==
    \/ \E w \in Workers : StartEntry(w) \/ StartExit(w) \/ Step(w)
    \/ BrokerStep
    \/ LoseSession
    \/ Crash

Spec == Init /\ [][Next]_vars

\* Threads are scheduled by the operating system and every wait in a job is a
\* bounded sleep or a request with a timeout, so a started job keeps stepping.
FairSpec == Spec /\ \A w \in Workers : WF_vars(Step(w))

-----------------------------------------------------------------------------
(* Properties *)

TypeOK ==
    /\ row \in Rows
    /\ history \in Nat
    /\ lock \in Workers \cup {NoWorker}
    /\ hedge \in [Spreads -> Int]
    /\ sold \in [Spreads -> Int]
    /\ stray \in [Spreads -> [Legs -> Nat]]
    /\ expired \in SUBSET Spreads
    /\ job \in [Workers -> Jobs]
    /\ jobs \in Nat

\* An order is only watched while it is polled or cancelled, and a job that sends,
\* settles or saves knows its spread.
JobOK(j) ==
    /\ j \in Jobs
    /\ j.ord # "none" => j.pc \in {"poll", "cancel"}
    /\ j.pc = "cancel" => j.leg \notin UncancelledLegs
    /\ j.pc \in {"place", "poll", "cancel", "save", "decide"} => j.spread \in Spreads

WellFormed ==
    /\ TypeOK
    /\ row.stage = "STAGE_1_CSP" => row.spread \in Spreads
    /\ \A w \in Workers : JobOK(job[w])

\* A job inside execute_daily_cycle, between taking the lock and giving it back.
InEntry(j) ==
    \/ j.pc \in {"gates", "save", "unlock"}
    \/ /\ j.pc \in {"place", "poll", "cancel"}
       /\ j.leg \in EntryLegs \cup {"UNWIND"}

\* The inductive form of OneEntryInFlight: whoever is inside holds the lock.
LockHeld == \A w \in Workers : InEntry(job[w]) => lock = w

\* No two threads send entry orders for the symbol at the same time: the
\* advisory lock is held from the gates to the finally block
\* (wheel_strategy.py:848-860, 1140-1149), and process death frees it.  The one
\* failure it does not survive is the loss of the session that holds it.
OneEntryInFlight ==
    \A v, w \in Workers : InEntry(job[v]) /\ InEntry(job[w]) => v = w

\* Job j has bought an option on s (a hedge, or the short back) that its next
\* sell order is to use up and that order has not traded yet.
Claims(j, s) ==
    /\ j.spread = s
    /\ \/ j.leg \in BuyLegs /\ j.ord = "complete"
       \/ /\ j.leg \in SellLegs
          /\ j.pc \in {"place", "poll", "cancel"}
          /\ j.ord # "complete"

Claimants(s) == {w \in Workers : Claims(job[w], s)}

StraySells(s) == stray[s]["SELL_SHORT"] + stray[s]["UNWIND"] + stray[s]["STC"]

\* Every sell order that is working, or still to be sent, has an option of its
\* own behind it: the reason NeverNakedShort survives any interleaving of jobs.
MarginCovered ==
    \A s \in Spreads \ expired :
        hedge[s] - sold[s] >= Cardinality(Claimants(s)) + StraySells(s)

\* The broker answers truthfully: an order it was given has an id, a finished
\* order is reported finished, a cancelled order does not trade.
TruthfulBroker ==
    Faults \cap {"late_fill", "lost_reply", "status_error"} = {}

\* The inductive form of NeverNakedShort.
Hedged ==
    /\ WellFormed
    /\ \A w \in Workers :
        /\ job[w].pc = "cancel" => job[w].ord # "complete"
        /\ job[w].ord = "open" => job[w].spread \notin expired
    /\ \A s \in expired : /\ hedge[s] = 0
                          /\ sold[s] = 0
                          /\ \A l \in Legs : stray[s][l] = 0
    /\ MarginCovered

\* "never naked short" (wheel_strategy.py:1058, 1288-1293): at no moment does
\* the account owe more short puts of a spread than it holds hedges, whatever
\* threads overlap, wherever the process dies and whatever the database loses,
\* as long as the broker answers truthfully about orders.
NeverNakedShort == \A s \in Spreads : hedge[s] >= sold[s]

\* An exit buys back only what is owed (docstring of _execute_exit, line 1291:
\* an intact spread is "safe to retry").
NoOverClose == \A s \in Spreads : sold[s] >= 0

\* Job j has sold the spread's short leg, the row does not show it yet.
Unsaved(j, s) ==
    /\ j.spread = s
    /\ j.leg = "SELL_SHORT"
    /\ j.pc = "save" \/ j.ord = "complete"

\* Job j has bought the short leg back, the row still shows it.
Covered(j, s) ==
    /\ j.spread = s
    /\ \/ j.leg = "BTC" /\ j.ord = "complete"
       \/ j.leg = "STC" /\ j.pc # "idle"

\* The row and the broker agree about the short leg of every live spread, up to
\* the one job that is between a fill and its save (lines 1087-1139, 1408-1415).
ShortTracked ==
    \A s \in Spreads \ expired :
        sold[s] + Cardinality({w \in Workers : Covered(job[w], s)}) =
            (IF row.spread = s THEN 1 ELSE 0)
                + Cardinality({w \in Workers : Unsaved(job[w], s)})

\* lifetime_realized_pnl is the sum of trade_history, up to the trade that is
\* archived and not yet saved (lines 1408-1415): no booking is lost or doubled.
LedgerAgrees ==
    history = row.lifetime + Cardinality({w \in Workers : job[w].pc = "close"})

\* At most one spread is open at the broker: the bot must "never double-enter"
\* (core/scheduler.py:233).
NeverDoubleEntered ==
    \A s, t \in Spreads :
        sold[s] > 0 /\ sold[t] > 0 => s = t /\ sold[s] = 1

\* The only write that may replace the row of an open position is the one that
\* closes it and books its P&L.
NoLivePositionOverwritten ==
    [][row.stage = "STAGE_1_CSP" /\ row' # row =>
            /\ row'.stage = "CLOSED"
            /\ row'.lifetime = row.lifetime + 1]_vars

\* "state only updates to CLOSED when both exit orders verified complete"
\* (docs/ISSUE_LOG.md:59): when the row of a live spread turns CLOSED, neither
\* of its legs is held at the broker and no order for them is working.
ClosedOnlyWhenFlat ==
    [][row.stage = "STAGE_1_CSP" /\ row'.stage = "CLOSED" /\ row.spread \notin expired =>
            /\ hedge[row.spread] = 0
            /\ sold[row.spread] = 0
            /\ stray[row.spread]["STC"] = 0]_vars

\* Every job that starts ends, and with it gives the advisory lock back: bounded
\* polls, bounded requotes, a finally block on every path.
JobEnds == \A w \in Workers : job[w].pc # "idle" ~> job[w].pc = "idle"

\* The account moves only as the abstract book allows.
Book == INSTANCE HedgedBook

\* Every step of every thread, of the broker and of a crash is a step of the
\* abstract book or leaves it alone: shorts are added only behind a held hedge,
\* hedges dropped only when no short needs them.
ImplementsBook == Book!BookSpec
=============================================================================
