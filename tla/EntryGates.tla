----------------------------- MODULE EntryGates -----------------------------
(***************************************************************************)
(* The decision inside execute_daily_cycle that SpreadEngine leaves open:  *)
(* one entry attempt walks through the gates, selects a spread, sizes it   *)
(* and works its two orders toward the market.  Each gate reads its input  *)
(* (VIX, history, calendar, spot, chain, margin) when the code asks for it.*)
(*                                                                         *)
(* Prices are whole paise, percentages whole percents, OTM distances and   *)
(* deltas thousandths.  The two ways a leg can be given up are in          *)
(* SpreadEngine; here an attempt that gives up is simply "skipped".        *)
(***************************************************************************)
EXTENDS Sizing, Sequences, FiniteSets, Functions

CONSTANTS
    Enabled,          \* the optional gates switched on in config/settings.py
    Days, Events,     \* day numbers, day 0 a Monday; announcement days
    DaysBefore, DaysAfter,
    MidweekDays,      \* weekdays of MIDWEEK_ENTRY_DAYS, Monday = 0
    MidweekVix,       \* MIDWEEK_VIX_MIN .. MIDWEEK_VIX_MAX
    VixLow, VixElevated, VixMax,
    OtmLow, OtmNormal, OtmElevated,
    MinHistory, IvrMinPct,
    SmaDays,
    MinDte, MaxDte, HedgeWidth, MaxSpreadPct, MinCwPct, TargetDelta,
    Delta(_, _, _, _),   \* _approx_put_delta(spot, strike, vix, dte), in thousandths
    MaxCapital,
    RequoteAttempts, StepPct,
    MaxImprovement    \* bound: how much better than its limit an order trades

CONSTANTS              \* what the market and the account may answer
    Vixes, Histories, Spots, Closes, Chains, LotSizes, Margins, LifetimePnls, OpenRisks

Gates == {"ivr", "events", "trend", "midweek", "mid_price"}

NoVix   == -1    \* get_india_vix() is None
NoQuote == -1    \* an ask that is missing; a missing bid counts as 0

Quotes == [strike : Nat, dte : Nat, bid : Nat, ask : Nat \cup {NoQuote}]

ASSUME GatesAssumption == Enabled \subseteq Gates
ASSUME MoneyAssumption ==
    /\ MaxCapital \in Nat /\ StepPct \in 0..100 /\ RequoteAttempts \in Nat /\ MaxImprovement \in Nat
    /\ HedgeWidth \in Nat \ {0} /\ MaxSpreadPct \in Nat
ASSUME AccountAssumption ==
    /\ LotSizes \subseteq Nat /\ Margins \subseteq Int
    /\ LifetimePnls \subseteq Int /\ OpenRisks \subseteq Nat
\* The order book is not crossed: an ask that exists is not below the bid.
ASSUME BookAssumption ==
    \A c \in Chains : \A q \in c :
        q \in Quotes /\ (q.ask \in {0, NoQuote} \/ q.bid <= q.ask)

VARIABLES
    pc,        \* the gate the attempt stands at
    day, session,
    vix, otm, spot,
    short, long, lot,   \* the selected legs, the contract size
    equity, openRisk, lots,
    price,     \* limit of the order that is working
    tries,     \* requotes of this leg so far
    paid, got  \* fill prices of the hedge and of the short

vars == <<pc, day, session, vix, otm, spot, short, long, lot,
          equity, openRisk, lots, price, tries, paid, got>>
market  == <<day, session, vix, otm, spot>>
choice  == <<short, long, lot>>
sizeVars == <<equity, openRisk, lots>>
orderVars == <<price, tries, paid, got>>

Abs(n)         == IF n >= 0 THEN n ELSE -n

\* The integers nearest to n / d: Python rounds a tie either way, depending on
\* the binary value of the price.
Rounded(n, d) == {q \in {n \div d, n \div d + 1} : 2 * Abs(d * q - n) <= d}

-----------------------------------------------------------------------------
(* The gates *)

\* vix_regime_otm: a missing VIX enters at the normal distance.
VixRegimeOtm(v) ==
    CASE v = NoVix       -> OtmNormal
      [] v # NoVix /\ v < VixLow -> OtmLow
      [] v >= VixLow /\ v < VixElevated -> OtmNormal
      [] OTHER           -> OtmElevated

VixSkips(v) == v > VixMax

\* vix_percentile and ivr_allows_entry: missing data lets the entry through.
IvrAllowsEntry(v, history) ==
    \/ "ivr" \notin Enabled
    \/ v = NoVix
    \/ Len(history) < MinHistory
    \/ 100 * Cardinality({i \in DOMAIN history : history[i] <= v})
         >= IvrMinPct * Len(history)

InEventBlackout(d) ==
    \E ev \in Events : ev - DaysBefore <= d /\ d <= ev + DaysAfter

Weekday(d) == d % 7
IsFriday(d) == Weekday(d) = 4
IsMidweekDay(d) == Weekday(d) \in MidweekDays \ {4}

\* Mutant: a missing VIX passes the mid-week gate as it passes the others.
SessionAllowsFailOpen(s, d, v) ==
    CASE s = "friday" -> TRUE
      [] s = "midweek" \/ IsMidweekDay(d) ->
            "midweek" \in Enabled /\ v \in MidweekVix \cup {NoVix}
      [] OTHER -> IsFriday(d)

\* A Friday session run on another day proceeds; a mid-week one needs its VIX.
SessionAllows(s, d, v) ==
    CASE s = "friday" -> TRUE
      [] s = "midweek" \/ IsMidweekDay(d) -> "midweek" \in Enabled /\ v \in MidweekVix
      [] OTHER -> IsFriday(d)

\* sma and trend_allows_entry
SumOfLast(closes, n) ==
    FoldFunctionOnSet(+, 0, closes, Len(closes) - n + 1 .. Len(closes))

TrendAllowsEntry(sp, closes) ==
    \/ "trend" \notin Enabled
    \/ Len(closes) < SmaDays
    \/ SmaDays * sp >= SumOfLast(closes, SmaDays)

-----------------------------------------------------------------------------
(* _select_target_put *)

LegLiquid(q) ==
    /\ q.bid > 0
    /\ q.ask # NoQuote
    /\ 100 * (q.ask - q.bid) <= MaxSpreadPct * q.bid

Listed(chain) == {q \in chain : q.dte \in MinDte..MaxDte}

\* At or below the regime's OTM ceiling; inside the band under it if anything is.
ShortCandidates(chain, sp, o) ==
    LET below == {q \in Listed(chain) : 1000 * q.strike <= sp * (1000 - o)}
        band  == {q \in below :
                    2000 * q.strike >= sp * (2000 - Greatest(5 * o, 2 * o + 40))}
    IN IF band # {} THEN band ELSE below

\* Mutant: the strike nearest to the target on either side.
HedgesForEitherSide(chain, s) ==
    LET same == {q \in Listed(chain) : q.dte = s.dte /\ q.strike # s.strike}
        off(q) == Abs(q.strike - (s.strike - HedgeWidth))
    IN {q \in same : \A r \in same : off(q) <= off(r)}

\* The nearest strike at least HEDGE_WIDTH below, same expiry.
HedgesFor(chain, s) ==
    LET far == {q \in Listed(chain) : q.dte = s.dte /\ q.strike <= s.strike - HedgeWidth}
    IN {q \in far : \A r \in far : r.strike <= q.strike}

Width(p)  == p.short.strike - p.long.strike
Credit(p) == p.short.bid - p.long.ask

Acceptable(p, lotSize) ==
    /\ LegLiquid(p.short) /\ LegLiquid(p.long)
    /\ Width(p) > 0
    /\ Width(p) * lotSize <= MaxCapital
    /\ Credit(p) > 0
    /\ 100 * Credit(p) >= MinCwPct * Width(p)

\* abs(delta - target) - 0.05 * credit / width, times 20000 * width
ScaledScore(p, sp, v) ==
    20 * Width(p) * Abs(Delta(sp, p.short.strike, IF v = NoVix THEN 15 ELSE v, p.short.dte) - TargetDelta)
        - 1000 * Credit(p)

Better(p, q, sp, v) ==
    ScaledScore(p, sp, v) * Width(q) < ScaledScore(q, sp, v) * Width(p)

Pairs(chain, sp, o) ==
    UNION {{[short |-> s, long |-> h] : h \in HedgesFor(chain, s)} :
           s \in ShortCandidates(chain, sp, o)}

\* The best pairs; which one of several equals depends on the chain's order.
SelectTargetPut(chain, sp, o, v, lotSize) ==
    LET fit == {p \in Pairs(chain, sp, o) : Acceptable(p, lotSize)}
    IN IF HedgeWidth * lotSize > MaxCapital THEN {}
       ELSE {p \in fit : \A q \in fit : ~Better(q, p, sp, v)}

-----------------------------------------------------------------------------
(* One attempt, gate by gate *)

Skip == pc' = "skipped" /\ UNCHANGED <<market, choice, sizeVars, orderVars>>

Begin ==
    /\ pc = "vix"
    /\ \E v \in Vixes \cup {NoVix} :
        /\ vix' = v
        /\ otm' = VixRegimeOtm(v)
        /\ pc' = IF VixSkips(v) THEN "skipped" ELSE "ivr"
    /\ UNCHANGED <<day, session, spot, choice, sizeVars, orderVars>>

IvrGate ==
    /\ pc = "ivr"
    /\ \E h \in Histories : pc' = IF IvrAllowsEntry(vix, h) THEN "calendar" ELSE "skipped"
    /\ UNCHANGED <<market, choice, sizeVars, orderVars>>

CalendarGate ==
    /\ pc = "calendar"
    /\ pc' = IF ("events" \in Enabled /\ InEventBlackout(day))
                \/ ~SessionAllows(session, day, vix)
             THEN "skipped" ELSE "spot"
    /\ UNCHANGED <<market, choice, sizeVars, orderVars>>

\* The quote, then the trend on it.
TrendGate ==
    /\ pc = "spot"
    /\ \E sp \in Spots, closes \in Closes :
        /\ spot' = sp
        /\ pc' = IF TrendAllowsEntry(sp, closes) THEN "select" ELSE "skipped"
    /\ UNCHANGED <<day, session, vix, otm, choice, sizeVars, orderVars>>

\* A hedge nobody offers ends the attempt after the selection.
Select ==
    /\ pc = "select"
    /\ \E chain \in Chains, size \in LotSizes \ {0} :
        \E p \in SelectTargetPut(chain, spot, otm, vix, size) :
            /\ p.long.ask > 0
            /\ short' = p.short
            /\ long' = p.long
            /\ lot' = size
    /\ pc' = "size"
    /\ UNCHANGED <<market, sizeVars, orderVars>>

Pair == [short |-> short, long |-> long]

\* Mid prices count a missing side as the other one.
StartPrices(q, natural) ==
    IF "mid_price" \in Enabled
    THEN Rounded(q.bid + (IF q.ask > 0 THEN q.ask ELSE q.bid), 2)
    ELSE {natural}

\* Margin, capital ceiling and risk_lots on the natural credit.  Live, the
\* client clamps the margin and no P&L is added (LifetimePnls has 0).
Size ==
    /\ pc = "size"
    /\ \E margin \in Margins, pnl \in LifetimePnls, open \in OpenRisks :
        /\ margin > 0
        /\ Width(Pair) * lot <= MaxCapital
        /\ equity' = Least(margin + pnl, MaxCapital)
        /\ openRisk' = open
        /\ lots' = RiskLots(Width(Pair), Credit(Pair), lot, equity', open)
        /\ lots' # 0
    /\ price' \in StartPrices(long, long.ask)
    /\ pc' = "hedge"
    /\ UNCHANGED <<market, choice, tries, paid, got>>

-----------------------------------------------------------------------------
(* _place_entry_leg_with_requote: the prices *)

Toward(p, target) == Rounded(100 * p + (target - p) * StepPct, 100)

\* Mutant: the bid is raised by a step of itself, without regard to the ask.
RequoteHedgeUnclamped ==
    /\ pc = "hedge"
    /\ tries < RequoteAttempts
    /\ tries' = tries + 1
    /\ price' \in Rounded(price * (100 + StepPct), 100)
    /\ UNCHANGED <<pc, market, choice, sizeVars, paid, got>>

RequoteHedge ==
    /\ pc = "hedge"
    /\ tries < RequoteAttempts
    /\ tries' = tries + 1
    /\ \E p \in Toward(price, long.ask) : price' = Least(p, long.ask)
    /\ UNCHANGED <<pc, market, choice, sizeVars, paid, got>>

\* A limit order trades at its limit or better.
FillHedge ==
    /\ pc = "hedge"
    /\ \E better \in 0..MaxImprovement : price >= better /\ paid' = price - better
    /\ price' \in StartPrices(short, short.bid)
    /\ tries' = 0
    /\ pc' = "short"
    /\ UNCHANGED <<market, choice, sizeVars, got>>

RequoteShort ==
    /\ pc = "short"
    /\ tries < RequoteAttempts
    /\ tries' = tries + 1
    /\ \E p \in Toward(price, short.bid) : price' = Greatest(p, short.bid)
    /\ UNCHANGED <<pc, market, choice, sizeVars, paid, got>>

FillShort ==
    /\ pc = "short"
    /\ \E better \in 0..MaxImprovement : got' = price + better
    /\ pc' = "entered"
    /\ UNCHANGED <<market, choice, sizeVars, price, tries, paid>>

\* No quote, no lot size, no pair, no margin, no room in a budget, no fill.
GiveUp ==
    /\ pc \in {"spot", "select", "size", "hedge", "short"}
    /\ Skip

-----------------------------------------------------------------------------

NoLeg == [strike |-> 0, dte |-> 0, bid |-> 0, ask |-> 0]

Init ==
    /\ pc = "vix"
    /\ day \in Days
    /\ session \in {"friday", "midweek", "any"}
    /\ vix = NoVix /\ otm = OtmNormal /\ spot = 0
    /\ short = NoLeg /\ long = NoLeg /\ lot = 0
    /\ equity = 0 /\ openRisk = 0 /\ lots = 0
    /\ price = 0 /\ tries = 0 /\ paid = 0 /\ got = 0

Next ==
    \/ Begin \/ IvrGate \/ CalendarGate \/ TrendGate
    \/ Select \/ Size
    \/ RequoteHedge \/ FillHedge \/ RequoteShort \/ FillShort
    \/ GiveUp

Spec == Init /\ [][Next]_vars

-----------------------------------------------------------------------------
(* Properties *)

\* What lots of the spread can lose at a credit per share.
MaxLoss(credit) == (Width(Pair) - credit) * lot * lots

\* A loss of this size, next to what is open already, stays in both budgets.
InBudgets(loss) ==
    /\ 100 * loss <= equity * RiskPct
    /\ 100 * (loss + openRisk) <= equity * PortfolioPct

\* "lots are chosen so that [the max loss] stays <= RISK_PER_TRADE_PCT x equity,
\* and total open max loss <= MAX_PORTFOLIO_RISK_PCT x equity"
\* (config/settings.py:25-26): it does so at the prices the two legs have really
\* traded at, after any number of requotes, not only at the quotes it was sized on.
LossWithinBudgets == pc = "entered" => InBudgets(MaxLoss(got - paid))

Working == {"hedge", "short", "entered"}

\* The inductive form of LossWithinBudgets: sized on the natural credit, and every
\* limit price at the natural price of its leg or better.
SizedOnWorstCase ==
    /\ pc \in Working =>
        /\ lot \in Nat /\ lots \in Nat \ {0}
        /\ equity \in Int /\ openRisk \in Nat
        /\ InBudgets(MaxLoss(Credit(Pair)))
    /\ pc \in Working \cup {"size"} =>
        /\ short \in Quotes /\ long \in Quotes
        /\ lot \in Nat
        /\ Credit(Pair) > 0
        /\ short.ask \in {0, NoQuote} \/ short.bid <= short.ask
        /\ long.ask > 0 /\ long.bid <= long.ask
    /\ pc \in {"hedge", "short"} => price \in Int
    /\ pc = "hedge" => price <= long.ask
    /\ pc = "short" => price >= short.bid
    /\ pc \in {"short", "entered"} => paid \in Int /\ paid <= long.ask
    /\ pc = "entered" => got \in Int /\ got >= short.bid

\* The spread sent to the market is one expiry, at least HEDGE_WIDTH wide, its
\* width within MAX_CAPITAL, both legs with a bid and a known ask no further above it
\* than the setting allows, and the short leg outside the OTM distance of the VIX
\* regime the attempt started in.
SpreadInsideBounds ==
    pc \in Working =>
        /\ short.dte = long.dte
        /\ Width(Pair) >= HedgeWidth
        /\ Width(Pair) * lot <= MaxCapital
        /\ 1000 * short.strike <= spot * (1000 - VixRegimeOtm(vix))
        /\ \A q \in {short, long} :
               q.bid > 0 /\ q.ask # NoQuote /\ 100 * q.ask <= q.bid * (100 + MaxSpreadPct)

\* The gates fail open when the VIX is missing, except that a mid-week entry needs
\* it inside its band (wheel_strategy.py:926-938): without a VIX the bot
\* enters in a Friday session only.
BlindEntryOnlyOnFriday ==
    pc \in Working /\ vix \notin MidweekVix => session = "friday" \/ IsFriday(day)
=============================================================================
