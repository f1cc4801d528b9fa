------------------------------ MODULE DayWalk ------------------------------
(***************************************************************************)
(* research/engine.py: the real-chain back-test.  Weekly entries, and for  *)
(* each position a walk over the days of the data on which an exit is      *)
(* decided on one settle and executed at the next one, until the contract  *)
(* is settled.                                                             *)
(*                                                                         *)
(* Days are numbers, day 0 a Monday.  `sessions' are the days the exchange *)
(* was open, `days' those the data holds: the difference is a hole, which  *)
(* the code cannot see.  A contract whose listed expiry is a holiday is    *)
(* settled at the last session before it, and on that day its rows carry   *)
(* that day as their expiry.  Prices are whole units.                      *)
(***************************************************************************)
EXTENDS Sizing, FiniteSets

CONSTANTS
    Calendars,       \* [sessions, days, expiries]: what the data may look like
    Window,          \* the days from start to end
    Modes,           \* exit modes to run
    DteLow, DteHigh, Width, TargetDelta, MinCwPct, SmaDays,
    Slip, Tick,
    TakeProfitPct, StopPct, DteManage,
    Equity0,
    NoPosition

CONSTANTS            \* what the rows of one day may hold
    PutChains,       \* liquid puts below the forward, [strike, settle, delta]
    LotSizes,
    Marks,           \* settles of the two legs, [short, long]
    Closings,        \* index settlement prices
    Fees

NoDelta == -1        \* the price cannot be inverted

Reasons == {"", "tp", "stop", "manage", "expiry"}

\* The dataclass Trade; exit is 0 while the position is open.
Trades == [entry : Nat, expiry : Nat, strike : Nat, credit : Int, lot : Nat, lots : Nat,
           base : Int, exit : Nat, reason : Reasons, fees : Nat, pnl : Int]

\* NoPosition is neither a trade nor an open position of SimBook.
ASSUME PositionAssumption == NoPosition \notin Trades \cup [opened : Nat, due : Nat]
ASSUME CalendarAssumption ==
    \A c \in Calendars :
        /\ c.sessions \subseteq Nat \ {0} /\ c.days \subseteq c.sessions
        /\ c.expiries \subseteq Nat
ASSUME SettingsAssumption ==
    /\ Width \in Nat \ {0} /\ DteLow \in Nat \ {0}
    /\ Slip \in Nat /\ Tick \in Nat /\ Equity0 \in Nat
    /\ TakeProfitPct \in Nat /\ StopPct \in Nat /\ DteManage \in Nat
    /\ LotSizes \subseteq Nat \ {0} /\ Fees \subseteq Nat /\ Closings \subseteq Nat
ASSUME PutsAssumption ==
    \A chain \in PutChains : \A p \in chain :
        p.strike \in Nat /\ p.settle \in Nat /\ p.delta \in Nat \cup {NoDelta}
\* Settles of one day are consistent: a put is worth at most `Width' more than
\* the one `Width' below it.
ASSUME ParityAssumption ==
    \A q \in Marks : q.short \in Nat /\ q.long \in Nat /\ q.short - q.long <= Width

VARIABLES
    sessions, days, expiries, mode,   \* fixed at the start
    pc,        \* "scan", "walk"; the run ended: "done", "dropped", "raised"
    cursor,    \* the last entry day tried
    lastExit, equity,
    trade,     \* the Trade of the walk, then the last one
    today, pending,
    seen       \* history: what this walk has read, [day, quote, steep]

data == <<sessions, days, expiries, mode>>
vars == <<sessions, days, expiries, mode, pc, cursor, lastExit, equity,
          trade, today, pending, seen>>

-----------------------------------------------------------------------------
(* The calendar *)

\* ISO week
Week(d) == d \div 7

\* entry_days
EntryDays ==
    LET open == days \cap Window
    IN {d \in open : \A x \in open : Week(x) = Week(d) => x <= d}

NextEntryDay(d) ==
    /\ d \in EntryDays
    /\ d > cursor
    /\ \A x \in EntryDays : x > cursor => d <= x

DataEndBefore(e) == \A x \in days : x < e

\* Where the walk expects the settlement: the listed expiry, or the day of the
\* data before it if the data go on without it.
SettleDay(e) ==
    IF e \in days \/ \A x \in days : x <= e
    THEN e
    ELSE CHOOSE d \in days : d < e /\ \A x \in days : x < e => x <= d

\* Where the exchange settles it.
TrueSettleDay(e) ==
    CHOOSE s \in sessions : s <= e /\ \A x \in sessions : x <= e => x <= s

\* The expiry that the rows of a contract carry on day d.
LabelOn(d, e) == IF d = TrueSettleDay(e) THEN d ELSE e

\* _px looks them up under the day it takes for the settlement, or the expiry.
HasRows(d, e) == LabelOn(d, e) = IF d = SettleDay(e) THEN d ELSE e

-----------------------------------------------------------------------------
(* Prices *)

\* fill
BuyAt(settle)  == settle + Slip
SellAt(settle) == Greatest(settle - Slip, Tick)

CostToClose(q) == BuyAt(q.short) - SellAt(q.long)

PutValue(strike, s) == Greatest(strike - s, 0)

\* _expiry_value: by the index settlement, or as the rows of that day say.
SettlementValues ==
    {[short |-> PutValue(trade.strike, s), long |-> PutValue(trade.strike - Width, s)] :
        s \in Closings} \cup Marks

\* On settlement day the values stand in for quotes, a tick at least.
Floored(v) == [short |-> Greatest(v.short, Tick), long |-> Greatest(v.long, Tick)]

\* What the walk may read on day d when both legs have a row.
QuotesOn(d) ==
    IF d = SettleDay(trade.expiry) THEN {Floored(v) : v \in SettlementValues} ELSE Marks

-----------------------------------------------------------------------------
(* run *)

Distance(p) == IF p.delta >= TargetDelta THEN p.delta - TargetDelta ELSE TargetDelta - p.delta

\* _select: the put nearest to the target delta and its hedge.
Spreads(chain) ==
    LET priced == {p \in chain : p.delta # NoDelta}
        best   == {p \in priced : \A q \in priced : Distance(p) <= Distance(q)}
    IN {s \in [short : best, long : chain] : s.long.strike = s.short.strike - Width}

\* The nearest expiry of the band; what is settled is listed no more.
NearestExpiry(d, e) ==
    LET band == {x \in expiries : d < TrueSettleDay(x) /\ x - d \in DteLow..DteHigh}
    IN e \in band /\ \A x \in band : e <= x

\* sma is None until there is enough history.
EnoughHistory(d) == Cardinality({x \in days : x <= d}) >= SmaDays

\* Not after the last exit, a gate, no expiry, no strike, no credit, no budget.
Pass ==
    /\ pc = "scan"
    /\ \E d \in days : NextEntryDay(d) /\ cursor' = d
    /\ UNCHANGED <<data, pc, lastExit, equity, trade, today, pending, seen>>

Natural(p) == SellAt(p.short.settle) - BuyAt(p.long.settle)

Trade(d, e, p, lot, lots, base) ==
    [entry |-> d, expiry |-> e, strike |-> p.short.strike, credit |-> Natural(p),
     lot |-> lot, lots |-> lots, base |-> base, exit |-> 0, reason |-> "", fees |-> 0, pnl |-> 0]

Acceptable(t) == t.credit > 0 /\ 100 * t.credit >= MinCwPct * Width /\ t.lots # 0

\* Mutant: sized on the settles, without the slippage.
CandidatesMid(d, base) ==
    {t \in {Trade(d, e, p, lot,
                  RiskLots(Width, p.short.settle - p.long.settle, lot, base, 0), base) :
            e \in {x \in expiries : NearestExpiry(d, x)},
            p \in UNION {Spreads(chain) : chain \in PutChains},
            lot \in LotSizes} : Acceptable(t)}

\* What an entry on day d may become: nearest expiry, natural credit, a size.
Candidates(d, base) ==
    {t \in {Trade(d, e, p, lot, RiskLots(Width, Natural(p), lot, base, 0), base) :
            e \in {x \in expiries : NearestExpiry(d, x)},
            p \in UNION {Spreads(chain) : chain \in PutChains},
            lot \in LotSizes} : Acceptable(t)}

\* Mutant: an entry day inside the last position is not skipped.
EnterOverlapping ==
    /\ pc = "scan"
    /\ \E d \in days :
        /\ NextEntryDay(d)
        /\ EnoughHistory(d)
        /\ trade' \in Candidates(d, Least(equity, Equity0))
        /\ cursor' = d
        /\ today' = d
    /\ pc' = "walk"
    /\ pending' = ""
    /\ seen' = {}
    /\ UNCHANGED <<data, lastExit, equity>>

Enter ==
    /\ pc = "scan"
    /\ \E d \in days :
        /\ NextEntryDay(d)
        /\ d > lastExit
        /\ EnoughHistory(d)
        /\ trade' \in Candidates(d, Least(equity, Equity0))
        /\ cursor' = d
        /\ today' = d
    /\ pc' = "walk"
    /\ pending' = ""
    /\ seen' = {}
    /\ UNCHANGED <<data, lastExit, equity>>

Finish ==
    /\ pc = "scan"
    /\ \A d \in EntryDays : d <= cursor
    /\ pc' = "done"
    /\ UNCHANGED <<data, cursor, lastExit, equity, trade, today, pending, seen>>

-----------------------------------------------------------------------------
(* _walk, one day at a time *)

NextDay(d) ==
    /\ pc = "walk"
    /\ d \in days
    /\ today < d /\ d <= SettleDay(trade.expiry)
    /\ \A x \in days : x > today => d <= x

Book(d, reason, cost, fees) ==
    LET pnl == (trade.credit - cost) * trade.lot * trade.lots - fees
    IN /\ trade' = [trade EXCEPT !.exit = d, !.reason = reason, !.fees = fees, !.pnl = pnl]
       /\ equity' = equity + pnl
       /\ lastExit' = d
       /\ pc' = "scan"
       /\ today' = d
       /\ UNCHANGED <<data, cursor>>

Read(d, q, steep) == seen' = seen \cup {[day |-> d, quote |-> q, steep |-> steep]}

\* An exit decided earlier is executed on the first day both legs are quoted.
ExecutePending ==
    /\ pending # ""
    /\ \E d \in days :
        /\ NextDay(d)
        /\ HasRows(d, trade.expiry)
        /\ \E q \in QuotesOn(d), fees \in Fees :
            /\ Read(d, q, FALSE)
            /\ Book(d, pending, CostToClose(q), fees)
    /\ pending' = ""

\* Otherwise the contract is settled at its intrinsic value, without orders.  An
\* exit still pending finds one of its legs unquoted.
SettleAtExpiry ==
    /\ \E d \in days :
        /\ NextDay(d)
        /\ d = SettleDay(trade.expiry)
        /\ HasRows(d, trade.expiry)
        /\ \E v \in SettlementValues, fees \in Fees :
            Book(d, "expiry", v.short - v.long, fees)
    /\ pending' = ""
    /\ UNCHANGED seen

\* _expiry_value finds no rows, or neither prices nor a forward among them.
Unvaluable ==
    /\ \E d \in days : NextDay(d) /\ d = SettleDay(trade.expiry)
    /\ pc' = "raised"
    /\ UNCHANGED <<data, cursor, lastExit, equity, trade, today, pending, seen>>

\* Mutant: a day without quotes forgets the decision.
StaleForgets ==
    /\ \E d \in days : NextDay(d) /\ d # SettleDay(trade.expiry) /\ today' = d
    /\ pending' = ""
    /\ UNCHANGED <<data, pc, cursor, lastExit, equity, trade, seen>>

\* Without quotes the decision is carried on.
Stale ==
    /\ \E d \in days : NextDay(d) /\ d # SettleDay(trade.expiry) /\ today' = d
    /\ UNCHANGED <<data, pc, cursor, lastExit, equity, trade, pending, seen>>

\* The decision of a day; `steep' says whether the short delta has reached
\* delta_manage.
Decision(d, q, steep) ==
    LET cost == q.short - q.long
    IN CASE 100 * cost <= TakeProfitPct * trade.credit -> "tp"
         [] 100 * cost > TakeProfitPct * trade.credit
            /\ mode = "stop2x" /\ 100 * cost >= StopPct * trade.credit -> "stop"
         [] 100 * cost > TakeProfitPct * trade.credit
            /\ mode = "mgmt" /\ (steep \/ SettleDay(trade.expiry) - d <= DteManage) -> "manage"
         [] OTHER -> ""

Mark ==
    /\ pending = ""
    /\ \E d \in days, q \in Marks, steep \in BOOLEAN :
        /\ NextDay(d)
        /\ steep => mode = "mgmt"
        /\ d # SettleDay(trade.expiry)
        /\ HasRows(d, trade.expiry)
        /\ Read(d, q, steep)
        /\ pending' = Decision(d, q, steep)
        /\ today' = d
    /\ UNCHANGED <<data, pc, cursor, lastExit, equity, trade>>

NoNextDay == \A d \in days : today < d => d > SettleDay(trade.expiry)

\* The data end before the expiry: run drops the trade and stops.
OpenAtEnd ==
    /\ pc = "walk" /\ NoNextDay /\ DataEndBefore(trade.expiry)
    /\ pc' = "dropped"
    /\ UNCHANGED <<data, cursor, lastExit, equity, trade, today, pending, seen>>

Hole ==
    /\ pc = "walk" /\ NoNextDay /\ ~DataEndBefore(trade.expiry)
    /\ pc' = "raised"
    /\ UNCHANGED <<data, cursor, lastExit, equity, trade, today, pending, seen>>

-----------------------------------------------------------------------------

Init ==
    /\ \E c \in Calendars :
        sessions = c.sessions /\ days = c.days /\ expiries = c.expiries
    /\ mode \in Modes
    /\ pc = "scan"
    /\ cursor = 0 /\ lastExit = 0 /\ today = 0
    /\ equity = Equity0
    /\ trade = NoPosition
    /\ pending = ""
    /\ seen = {}

Next ==
    \/ Pass \/ Enter \/ Finish
    \/ ExecutePending \/ SettleAtExpiry \/ Unvaluable \/ Stale \/ Mark
    \/ OpenAtEnd \/ Hole

Spec == Init /\ [][Next]_vars

-----------------------------------------------------------------------------
(* Properties *)

Closed == pc # "walk" /\ trade # NoPosition /\ trade.exit # 0

\* What the docstring's exit rules say of one reading (research/engine.py:18-20).
Triggers(r) ==
    LET cost == r.quote.short - r.quote.long
    IN \/ 100 * cost <= TakeProfitPct * trade.credit
       \/ mode = "stop2x" /\ 100 * cost >= StopPct * trade.credit
       \/ mode = "mgmt" /\ (r.steep \/ SettleDay(trade.expiry) - r.day <= DteManage)

\* "Exits are decided on a day's settle and EXECUTED at the next trading day's
\* settle" (research/engine.py:15-16), whatever days without quotes lie between:
\* the exit day is the first quoted day after the first day that asks for an exit,
\* and only if there is none does the position run to its settlement.
ExitByTheRules ==
    Closed =>
        LET asked(r) == Triggers(r) /\ r.day < trade.exit
        IN IF trade.reason = "expiry"
           THEN \A r, q \in seen : asked(r) => q.day <= r.day
           ELSE \E r \in seen :
                    /\ asked(r)
                    /\ \A q \in seen : /\ asked(q) => r.day <= q.day
                                       /\ q.day <= r.day \/ q.day = trade.exit

\* A position loses no more than the risk it was sized for, plus the slippage of
\* its two exit orders and its fees, on the smaller of the equity and the initial
\* equity (core/sizing.py:14-17, research/engine.py:258).
LossInsideRisk ==
    Closed =>
        100 * ((0 - trade.pnl) - trade.fees - 2 * Slip * trade.lot * trade.lots)
            <= trade.base * RiskPct

TypeOK ==
    /\ days \subseteq Nat \ {0} /\ expiries \subseteq Nat
    /\ pc \in {"scan", "walk", "done", "dropped", "raised"}
    /\ equity \in Int
    /\ pending \in Reasons
    /\ trade \in Trades \cup {NoPosition}

\* The inductive form of LossInsideRisk: every trade was sized on its own credit,
\* and has either no result yet or one that stays in its risk.
SizedTrade ==
    /\ TypeOK
    /\ pc = "walk" => trade # NoPosition
    /\ trade # NoPosition =>
        /\ 100 * ((Width - trade.credit) * trade.lot * trade.lots) <= trade.base * RiskPct
        /\ trade.exit # 0 =>
            100 * ((0 - trade.pnl) - trade.fees - 2 * Slip * trade.lot * trade.lots)
                <= trade.base * RiskPct

\* run() keeps one position at a time and closes each by its settlement day.
Sim == INSTANCE SimBook WITH
    live <- IF pc = "walk"
            THEN [opened |-> trade.entry, due |-> TrueSettleDay(trade.expiry)]
            ELSE NoPosition,
    lastClose <- lastExit,
    over <- pc \in {"done", "dropped", "raised"}
ImplementsSim == Sim!BookSpec

\* "entry still open when the data ends" (research/engine.py:267): what is dropped
\* has not been settled on a day of the data.
DroppedStillOpen ==
    pc = "dropped" => \A d \in days : d < TrueSettleDay(trade.expiry)
=============================================================================
