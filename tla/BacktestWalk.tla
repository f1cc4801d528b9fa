---------------------------- MODULE BacktestWalk ----------------------------
(***************************************************************************)
(* backtest.py: the put-spread back-test on a path of spot and VIX.  One   *)
(* position at a time; the exit is decided and booked on the same row.     *)
(* run_pcs_backtest is run on the whole path, or on the overlapping        *)
(* windows of walk_forward, each of which counts only the trades opened in *)
(* its test rows.                                                          *)
(*                                                                         *)
(* A path is fixed at the start, so that the windows see the same rows.    *)
(* Option prices are an operator of spot, strike, days and VIX.            *)
(***************************************************************************)
EXTENDS Sizing, FiniteSets, Sequences, Functions

CONSTANTS
    Paths,              \* sequences of rows [day, spot, vix], day 0 a Monday
    PutPrice(_, _, _, _), PutDelta(_, _, _, _),   \* of spot, strike, dte, vix
    ParamSets,          \* the PCSParams that are swept, see PCSParams
    HedgeWidth, OtmPct, FloorPct, Step,
    VixMax, VixLookback, MinVixHistory, IvrMin, SmaDays, Events,
    TargetDelta, MinCwPct, EntryWeekday, DteEntry, TpPct, SlPct, DeltaManage,
    LotSize, InitialCapital, MaxCapital, Slippage,
    Brokerage, SellPermille, BuyPermille,
    TrainDays, TestDays,
    NoSpread

Disabled == -1       \* dte_manage, time_stop_weekday; and allocation_pct = None

\* The levers that differ between runs; the rest are the constants above.
PCSParams == [touch : BOOLEAN, manage : Nat \cup {Disabled},
              timeStop : (0..6) \cup {Disabled}, allocation : Nat \cup {Disabled}]

ASSUME PathAssumption ==
    \A p \in Paths :
        /\ p \in Seq([day : Nat \ {0}, spot : Nat \ {0}, vix : Nat])
        /\ \A i, j \in DOMAIN p : i < j => p[i].day < p[j].day
ASSUME BacktestParamsAssumption == ParamSets \subseteq PCSParams
\* run_pcs_backtest refuses a spread that the capital cannot carry.
ASSUME CeilingAssumption ==
    /\ HedgeWidth \in Nat \ {0} /\ LotSize \in Nat \ {0} /\ DteEntry \in Nat \ {0}
    /\ HedgeWidth * LotSize <= InitialCapital
    /\ InitialCapital \in Nat /\ MaxCapital \in Nat
    /\ TrainDays \in Nat \ {0} /\ TestDays \in Nat \ {0}
ASSUME FrictionAssumption ==
    Slippage \in Nat /\ Brokerage \in Nat /\ SellPermille \in Nat /\ BuyPermille \in Nat

VARIABLES
    path, params,       \* fixed at the start
    first, last, from,  \* rows of this run, and the first one whose entries count
    forward,            \* walk_forward, not a plain run
    row,                \* the next row
    balance,
    position,
    trades,             \* closed trades of this run that count
    counted,            \* of all runs
    ended

runVars  == <<first, last, from>>
btInput  == <<path, params, forward>>
btVars   == <<path, params, forward, first, last, from, row, balance, position, trades,
              counted, ended>>

-----------------------------------------------------------------------------
(* _select_strikes *)

VixOk(v) ==
    LET lo   == Greatest(first, row - VixLookback + 1)
        hist == lo..row
    IN \/ Cardinality(hist) < MinVixHistory
       \/ 100 * Cardinality({i \in hist : path[i].vix <= v}) >= IvrMin * Cardinality(hist)

Blackout(d) == \E ev \in Events : ev - 1 <= d /\ d <= ev + 1

TrendOk(spot) ==
    \/ row - first + 1 < SmaDays
    \/ SmaDays * spot >= FoldFunctionOnSet(+, 0, [i \in first..row |-> path[i].spot],
                                           row - SmaDays + 1 .. row)

\* Python's round: half to even.
RoundToStep(n, d) ==
    LET q == n \div d
        r == 2 * (n % d)
    IN Step * (IF r > d \/ (r = d /\ q % 2 = 1) THEN q + 1 ELSE q)

\* The band of the live search, its ceiling floored to the grid.
Grid(spot) ==
    LET ceiling == Step * ((spot * (100 - OtmPct)) \div (100 * Step))
        floor   == RoundToStep(spot * (100 - FloorPct), 100 * Step)
    IN {k \in floor..ceiling : k % Step = 0}

\* The strikes that a spread of a path may have, and their hedges, have a price.
Strikes(p) == {k \in UNION {Grid(p[i].spot) : i \in DOMAIN p} : k - HedgeWidth > 0}

ASSUME PricingAssumption ==
    \A p \in Paths : \A i \in DOMAIN p, k \in Strikes(p), dte \in 0..DteEntry :
        /\ PutPrice(p[i].spot, k, dte, p[i].vix) \in Nat
        /\ PutPrice(p[i].spot, k - HedgeWidth, dte, p[i].vix) \in Nat

\* NoSpread is neither a position nor an open one of SimBook.
ASSUME SpreadAssumption ==
    NoSpread \notin [opened : Nat, due : Nat]
                        \cup [opened : Nat, due : Nat, short : Int, credit : Int, lots : Nat, base : Int]

SpreadPrice(r, k, dte) ==
    PutPrice(r.spot, k, dte, r.vix) - PutPrice(r.spot, k - HedgeWidth, dte, r.vix)

Score(r, k) ==
    LET gap == PutDelta(r.spot, k, DteEntry, r.vix) - TargetDelta
    IN IF gap >= 0 THEN gap ELSE 0 - gap

Priced(r) ==
    {k \in Grid(r.spot) :
        /\ k - HedgeWidth > 0
        /\ SpreadPrice(r, k, DteEntry) > 0
        /\ 100 * SpreadPrice(r, k, DteEntry) >= MinCwPct * HedgeWidth}

\* Nearest to the target delta; the strikes are tried from the top.
SelectStrikes(r) ==
    {k \in Priced(r) :
        /\ r.vix <= VixMax /\ VixOk(r.vix)
        /\ ~Blackout(r.day)
        /\ TrendOk(r.spot)
        /\ \A x \in Priced(r) :
            Score(r, k) < Score(r, x) \/ (Score(r, k) = Score(r, x) /\ x <= k)}

\* Mutant: a compounding run sizes on all of its equity.
LotsUnclamped(credit) ==
    IF params.allocation # Disabled
    THEN (balance * params.allocation) \div (100 * HedgeWidth * LotSize)
    ELSE RiskLots(HedgeWidth, credit, LotSize, balance, 0)

\* The equity is clamped as get_available_margin clamps it.
Lots(credit) ==
    LET base == Least(balance, MaxCapital)
    IN IF params.allocation # Disabled
       THEN (base * params.allocation) \div (100 * HedgeWidth * LotSize)
       ELSE RiskLots(HedgeWidth, credit, LotSize, base, 0)

-----------------------------------------------------------------------------
(* The loop of run_pcs_backtest *)

Today == path[row]

\* round_trip_fees on the net credit and cost.
RoundTripFees(credit, cost, qty) ==
    LET out == IF cost >= 0 THEN cost ELSE 0 - cost
    IN Brokerage + (SellPermille * (credit + out) * qty + BuyPermille * out * qty) \div 1000

\* The exit tests in the order of the code; the first that holds is the reason.
ExitTests(p, r, cost) ==
    LET dte == p.due - r.day
    IN << <<"Take Profit",  100 * cost <= TpPct * p.credit>>,
          <<"Stop Loss",    100 * cost >= SlPct * p.credit \/ (params.touch /\ r.spot <= p.short)>>,
          <<"Delta Manage", PutDelta(r.spot, p.short, Greatest(dte, 0), r.vix) >= DeltaManage>>,
          <<"DTE Manage",   params.manage # Disabled /\ dte <= params.manage /\ r.day > p.opened>>,
          <<"Time Stop",    params.timeStop # Disabled /\ r.day % 7 = params.timeStop /\ r.day > p.opened>>,
          <<"Expiry",       dte <= 0>> >>

Reason(p, r, cost) ==
    LET tests == ExitTests(p, r, cost)
        hold  == {i \in DOMAIN tests : tests[i][2]}
    IN IF hold = {} THEN "" ELSE tests[CHOOSE i \in hold : \A j \in hold : i <= j][1]

CostToClose(p, r) == SpreadPrice(r, p.short, Greatest(p.due - r.day, 0))

Friction(p, cost, reason) ==
    Slippage * LotSize * p.lots * (IF reason = "Expiry" /\ cost <= 0 THEN 1 ELSE 2)
        + RoundTripFees(p.credit, cost, LotSize * p.lots)

Result(p, cost, reason) ==
    Greatest((p.credit - cost) * LotSize * p.lots,
             (p.credit - HedgeWidth) * LotSize * p.lots)
        - Friction(p, cost, reason)

InRun == ~ended /\ row <= last

Skip ==
    /\ InRun /\ position = NoSpread
    /\ \/ Today.day % 7 # EntryWeekday
       \/ \A k \in SelectStrikes(Today) : Lots(SpreadPrice(Today, k, DteEntry)) <= 0
    /\ row' = row + 1
    /\ UNCHANGED <<btInput, runVars, balance, position, trades, counted, ended>>

EnterPcs ==
    /\ InRun /\ position = NoSpread
    /\ Today.day % 7 = EntryWeekday
    /\ \E k \in SelectStrikes(Today) :
        LET credit == SpreadPrice(Today, k, DteEntry)
        IN /\ Lots(credit) > 0
           /\ position' = [opened |-> Today.day, due |-> Today.day + DteEntry, short |-> k,
                           credit |-> credit, lots |-> Lots(credit), base |-> balance]
    /\ row' = row + 1
    /\ UNCHANGED <<btInput, runVars, balance, trades, counted, ended>>

Hold ==
    /\ InRun /\ position # NoSpread
    /\ Reason(position, Today, CostToClose(position, Today)) = ""
    /\ row' = row + 1
    /\ UNCHANGED <<btInput, runVars, balance, position, trades, counted, ended>>

Counts(p) == p.opened >= path[from].day

Exit ==
    /\ InRun /\ position # NoSpread
    /\ LET cost   == CostToClose(position, Today)
           reason == Reason(position, Today, cost)
           pnl    == Result(position, cost, reason)
       IN /\ reason # ""
          /\ balance' = balance + pnl
          /\ trades' = IF Counts(position)
                       THEN trades \cup {[opened |-> position.opened, closed |-> Today.day, pnl |-> pnl, fold |-> from,
                                          base |-> position.base,
                                          friction |-> Friction(position, cost, reason)]}
                       ELSE trades
    /\ position' = NoSpread
    /\ row' = row + 1
    /\ UNCHANGED <<btInput, runVars, counted, ended>>

\* What a run leaves open is in no result.
EndRun ==
    /\ ~ended /\ row > last
    /\ ~forward \/ last + TestDays > Len(path)
    /\ counted' = counted \cup trades
    /\ ended' = TRUE
    /\ UNCHANGED <<btInput, runVars, row, balance, position, trades>>

\* Mutant: the windows advance by half their length.
NextFoldRolling ==
    /\ ~ended /\ row > last
    /\ forward /\ last + TestDays <= Len(path)
    /\ counted' = counted \cup trades
    /\ LET step == TestDays \div 2
       IN /\ first' = first + step /\ from' = from + step /\ last' = last + step
          /\ row' = first + step
    /\ balance' = InitialCapital
    /\ position' = NoSpread
    /\ trades' = {}
    /\ UNCHANGED <<btInput, ended>>

\* walk_forward: the next window starts over, with a warm-up of the train rows.
NextFold ==
    /\ ~ended /\ row > last
    /\ forward /\ last + TestDays <= Len(path)
    /\ counted' = counted \cup trades
    /\ first' = first + TestDays /\ from' = from + TestDays /\ last' = last + TestDays
    /\ row' = first + TestDays
    /\ balance' = InitialCapital
    /\ position' = NoSpread
    /\ trades' = {}
    /\ UNCHANGED <<btInput, ended>>

BacktestInit ==
    /\ path \in Paths /\ params \in ParamSets
    /\ forward \in {f \in BOOLEAN : f => TrainDays + TestDays <= Len(path)}
    /\ first = 1
    /\ from = IF forward THEN TrainDays + 1 ELSE 1
    /\ last = IF forward THEN TrainDays + TestDays ELSE Len(path)
    /\ row = 1
    /\ balance = InitialCapital
    /\ position = NoSpread
    /\ trades = {} /\ counted = {}
    /\ ended = FALSE

BacktestNext == Skip \/ EnterPcs \/ Hold \/ Exit \/ EndRun \/ NextFold

BacktestSpec == BacktestInit /\ [][BacktestNext]_btVars

-----------------------------------------------------------------------------
(* Properties *)

\* A trade loses no more than the share of the clamped equity that it was sized
\* on, plus the slippage and fees of its orders: "a compounding backtest can never
\* take a position the live bot is structurally incapable of taking"
\* (backtest.py:341-344), and the loss is clamped before friction (backtest.py:384-388).
BacktestLossBounded ==
    \A t \in trades \cup counted :
        100 * ((0 - t.pnl) - t.friction)
            <= Least(t.base, MaxCapital)
                 * (IF params.allocation = Disabled THEN RiskPct ELSE params.allocation)

\* The trades that walk_forward reports form one book: no two of them, of the same
\* or of different windows, are ever open on the same day ("only count trades with
\* entry in test window", backtest.py:467-471).
FoldsKeepOneBook ==
    \A t, u \in trades \cup counted :
        t = u \/ t.closed < u.opened \/ u.closed < t.opened

\* Not so: a trade opened in the test rows and still open at their end is in no
\* window's result, though walk_forward is to "count trades with entry in test
\* window" (backtest.py:467).
EveryTestEntryReported ==
    (forward /\ row > last /\ position # NoSpread) => ~Counts(position)

\* Not so: "Nothing is traded to close when the spread expires worthless: no exit
\* haircut" (backtest.py:389), but the take-profit test comes first, and it holds of
\* a cost of zero: the reason is never Expiry, and the exit pays the haircut.
WorthlessExpiryTradesNothing ==
    (/\ InRun /\ position # NoSpread
     /\ Today.day >= position.due /\ CostToClose(position, Today) = 0)
        => Friction(position, 0, Reason(position, Today, 0))
            = Slippage * LotSize * position.lots
                + RoundTripFees(position.credit, 0, LotSize * position.lots)

\* The row on which a position is closed at the latest: its expiry, or the first
\* row after it; none if the path ends before.
DueDay(e) ==
    LET after == {path[i].day : i \in {j \in DOMAIN path : path[j].day >= e}}
    IN IF after = {} THEN e ELSE CHOOSE d \in after : \A x \in after : d <= x

\* A plain run keeps one position at a time, opens the next one strictly later,
\* and closes each by its expiry or on the first row after it (backtest.py:333-397).
BtSim == INSTANCE SimBook WITH
    NoPosition <- NoSpread,
    live <- IF forward \/ position = NoSpread
            THEN NoSpread
            ELSE [opened |-> position.opened, due |-> DueDay(position.due)],
    lastClose <- IF forward \/ trades = {} THEN 0
                 ELSE CHOOSE d \in {t.closed : t \in trades} : \A t \in trades : t.closed <= d,
    over <- ended
BacktestImplementsSim == BtSim!BookSpec
=============================================================================
