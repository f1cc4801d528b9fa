------------------------------ MODULE TrendBook ------------------------------
(***************************************************************************)
(* research/e3_trend.py: the trend study on futures.  Each market trades   *)
(* one of several products (choose); simulate walks the sessions and, per  *)
(* market, marks the held contract to the open, rolls or switches, fills   *)
(* the weekly order, marks to the close and sets the next order.           *)
(*                                                                         *)
(* What the exchange lists and quotes is fixed by `tape'; every other step *)
(* follows from it.  Money is in whole units, signals are in thirds.       *)
(***************************************************************************)
EXTENDS Integers, FiniteSets, Functions

CONSTANTS
    Tapes,
    Markets, Products,            \* function: market -> its products
    Reference,                    \* function: market -> its reference product
    LastSession,                  \* sessions are 1..LastSession
    Week(_), FiscalYear(_),       \* of a session
    ContractOf(_, _, _),          \* tape, product, session: the continuous series' one
    ExpiryDay(_),                 \* of a contract
    Quote(_, _, _, _),            \* tape, product, contract, session
    Mult(_, _, _),                \* tape, product, session: units per lot
    Qualifies(_, _, _),           \* tape, product, session: listed long and liquid
    Vol(_, _, _),                 \* tape, product, session: percent, 0 = unknown
    Signal(_, _, _),              \* tape, market, session: -3..3
    NoFuture, NoQuote, NoProduct, NoOrder

CONSTANTS
    Capital,
    TargetRisk,                   \* function: number of live markets -> money
    CapX,                         \* CAP_X in tenths
    FutBuyPermille, FutSellPermille, TickSize,
    TaxPct

VARIABLES
    tape, session,
    held,                         \* choose: the product of each market
    live,                         \* its latest live flag
    slot,                         \* st
    nav, fy, fyPnl, lossCarried,
    final,                        \* the tax of the last year is paid
    spent, costs, taxes,          \* history: money put into lots, costs, taxes
    taxedBase, closedPnl          \* history: of the years taxed so far

trendVars == <<tape, session, held, live, slot, nav, fy, fyPnl, lossCarried, final,
               spent, costs, taxes, taxedBase, closedPnl>>

ASSUME TrendAssumption ==
    /\ Capital \in Nat /\ TaxPct \in 0..100 /\ LastSession \in Nat \ {0}
    /\ {FutBuyPermille, FutSellPermille, TickSize} \subseteq Nat
    /\ IsFiniteSet(Markets)
    /\ \A m \in Markets : Reference[m] \in Products[m]
    /\ \A n \in 1..Cardinality(Markets) : TargetRisk[n] \in Nat

\* The continuous series is made of quotes.  A lot that can be sized carries a risk of
\* at least one unit of money.
ASSUME TrendQuoteAssumption ==
    \A t \in Tapes, m \in Markets, d \in 1..LastSession :
        /\ Signal(t, m, d) \in -3..3
        /\ \A p \in Products[m] :
            /\ Mult(t, p, d) \in Nat \ {0} /\ Vol(t, p, d) \in Nat
            /\ \A x \in 1..LastSession : ContractOf(t, p, x) # NoFuture =>
                Quote(t, p, ContractOf(t, p, x), d) \in {NoQuote} \cup [open : Nat \ {0}, close : Nat \ {0}]
            /\ ContractOf(t, p, d) # NoFuture =>
                LET q == Quote(t, p, ContractOf(t, p, d), d)
                IN /\ q # NoQuote
                   /\ Vol(t, p, d) # 0 => q.close * Mult(t, p, d) * Vol(t, p, d) >= 100

Magnitude(n) == IF n >= 0 THEN n ELSE -n

\* rnd: the nearest integer to a / b, half away from zero.
Rnd(a, b) == IF a >= 0 THEN (2 * a + b) \div (2 * b) ELSE -((2 * (-a) + b) \div (2 * b))

-----------------------------------------------------------------------------
(* choose, live_n, target_lots *)

\* A market trades on the days its reference product is in the continuous series.
OpenOn(m, d) == ContractOf(tape, Reference[m], d) # NoFuture

ListedProducts(m, d) == {p \in Products[m] : ContractOf(tape, p, d) # NoFuture}

ContractQuote(p, d) == Quote(tape, p, ContractOf(tape, p, d), d)

Notional(p, d) == ContractQuote(p, d).close * Mult(tape, p, d)

RolledOn(p, d) ==
    /\ d > 1
    /\ ContractOf(tape, p, d) # NoFuture
    /\ \E x \in 1..d-1 :
        /\ ContractOf(tape, p, x) \notin {NoFuture, ContractOf(tape, p, d)}
        /\ \A y \in x+1..d-1 : ContractOf(tape, p, y) = NoFuture

\* Re-chosen when the reference product rolls, joins, or the held one is not
\* listed: the smallest lot that is listed long enough and liquid.
Choose(m, d) ==
    LET again == \/ ~\E x \in 1..d-1 : OpenOn(m, x)
                 \/ RolledOn(Reference[m], d)
                 \/ held[m] # NoProduct /\ held[m] \notin ListedProducts(m, d)
        fit   == {p \in ListedProducts(m, d) : Qualifies(tape, p, d)}
        small == {p \in fit : \A x \in fit : Notional(p, d) <= Notional(x, d)}
    IN IF ~again THEN held[m]
       ELSE IF fit = {} THEN NoProduct ELSE CHOOSE p \in small : TRUE

IsLive(m, p, d) == p # NoProduct /\ p \in ListedProducts(m, d) /\ Vol(tape, p, d) # 0

\* order_cost: fees by side, one tick and the slippage of n lots.
OrderCost(n, price, mult) ==
    (Magnitude(n) * mult * price
        * (IF n > 0 THEN FutBuyPermille ELSE FutSellPermille)) \div 1000
    + Magnitude(n) * mult * TickSize

TargetLots(signal, n, risk) ==
    IF n = 0 \/ 10 * risk > CapX * TargetRisk[n] THEN 0
    ELSE Rnd(signal * TargetRisk[n], 3 * risk)

TradeOk(cur, target) ==
    LET d == Magnitude(target - cur)
    IN d >= 1 /\ (cur = 0 \/ 4 * d >= Magnitude(cur))

-----------------------------------------------------------------------------
(* One session of one market: x carries its slot and the money that moves *)

Put(x, f) == [k \in DOMAIN x |-> IF k \in DOMAIN f THEN f[k] ELSE x[k]]

HeldQuote(s, d) == IF s.con = NoFuture THEN NoQuote ELSE Quote(tape, s.conProd, s.con, d)

\* Buying n lots at a price: the money that goes into them, and the cost.
Trade(x, n, price) ==
    Put(x, [lots  |-> x.lots + n, spent |-> x.spent + n * x.mult * price,
            cost  |-> x.cost + OrderCost(n, price, x.mult)])

\* Mutant: the open is not carried to the close.
MarkOpenTwice(x, q, d) ==
    IF q # NoQuote
    THEN Put(x, [pnl |-> x.pnl + x.lots * x.mult * (q.open - x.last)])
    ELSE IF x.con # NoFuture /\ x.lots # 0 /\ ExpiryDay(x.con) < d
    THEN Trade(x, -x.lots, x.last)
    ELSE x

\* Expired and unquoted, a position is closed at its last mark.
MarkOpen(x, q, d) ==
    IF q # NoQuote
    THEN Put(x, [pnl |-> x.pnl + x.lots * x.mult * (q.open - x.last), last |-> q.open])
    ELSE IF x.con # NoFuture /\ x.lots # 0 /\ ExpiryDay(x.con) < d
    THEN Trade(x, -x.lots, x.last)
    ELSE x

\* A switch of product with no order pending keeps the exposure in money.
Wanted(x, q, qn, d) ==
    IF x.pend # NoOrder THEN x.pend
    ELSE IF x.prod # x.conProd /\ x.lots # 0
    THEN Rnd(x.lots * x.mult * q.open, Mult(tape, x.prod, d) * qn.open)
    ELSE x.lots

\* Roll or product switch at the open; then the order is filled, but never one
\* for a new product in the old one.
RollAndFill(x, q, d) ==
    LET new   == IF x.prod = NoProduct THEN NoFuture ELSE ContractOf(tape, x.prod, d)
        qn    == IF new = NoFuture THEN NoQuote ELSE Quote(tape, x.prod, new, d)
        rolls == /\ new # NoFuture /\ <<x.prod, new>> # <<x.conProd, x.con>>
                 /\ qn # NoQuote
                 /\ q # NoQuote \/ x.lots = 0
        want  == IF rolls THEN Wanted(x, q, qn, d)
                 ELSE IF x.pend # NoOrder THEN x.pend ELSE x.lots
        out   == IF rolls /\ x.lots # 0 THEN Trade(x, -x.lots, q.open) ELSE x
        y     == IF rolls
                 THEN Put(out, [con |-> new, conProd |-> x.prod,
                                mult |-> Mult(tape, x.prod, d), last |-> qn.open])
                 ELSE out
        qy    == IF rolls THEN qn ELSE q
        fill  == qy # NoQuote /\ (x.prod = NoProduct \/ y.conProd = x.prod)
        z     == IF fill /\ want # y.lots THEN Trade(y, want - y.lots, qy.open) ELSE y
        w     == IF fill \/ want = z.lots THEN Put(z, [pend |-> NoOrder]) ELSE z
    IN IF qy = NoQuote THEN w
       ELSE Put(w, [pnl |-> w.pnl + w.lots * w.mult * (qy.close - w.last), last |-> qy.close])

LastOfWeek(m, d) ==
    LET later == {x \in d+1..LastSession : OpenOn(m, x)}
    IN \A x \in later : (\A y \in later : x <= y) => Week(x) # Week(d)

\* At the close: the product for the next open, and the weekly order.
Decide(x, m, p, isLive, n, d) ==
    IF ~isLive
    THEN Put(x, [prod |-> NoProduct, pend |-> IF x.lots # 0 THEN 0 ELSE NoOrder])
    ELSE IF ~LastOfWeek(m, d)
    THEN Put(x, [prod |-> p])
    ELSE LET risk == (Notional(p, d) * Vol(tape, p, d)) \div 100
             t    == TargetLots(Signal(tape, m, d), n, risk)
             cur  == IF x.lots = 0 \/ x.conProd = p THEN x.lots
                     ELSE Rnd(x.lots * x.mult * x.last, Notional(p, d))
         IN Put(x, [prod |-> p, pend |-> IF TradeOk(cur, t) THEN t ELSE NoOrder,
                    sizedIn |-> IF TradeOk(cur, t) THEN p ELSE x.sizedIn])

MarketSession(m, p, isLive, n, d) ==
    LET s == Put(slot[m], [pnl |-> 0, cost |-> 0, spent |-> 0])
        q == HeldQuote(s, d)
    IN Decide(RollAndFill(MarkOpen(s, q, d), q, d), m, p, isLive, n, d)

-----------------------------------------------------------------------------
(* simulate *)

\* fy_tax: tax, its base, and the loss carried out.
FyTax(pnl, cf) ==
    LET net == pnl - cf
    IN IF net > 0 THEN [tax |-> (TaxPct * net) \div 100, base |-> net, out |-> 0]
       ELSE [tax |-> 0, base |-> 0, out |-> -net]

PayTax(t) ==
    /\ taxes' = taxes + t.tax
    /\ taxedBase' = taxedBase + t.base
    /\ closedPnl' = closedPnl + fyPnl
    /\ lossCarried' = t.out

SumOver(f) == FoldFunctionOnSet(+, 0, f, DOMAIN f)

TrendSession ==
    /\ session < LastSession
    /\ LET d     == session + 1
           open  == {m \in Markets : OpenOn(m, d)}
           pick  == [m \in open |-> Choose(m, d)]
           isL   == [m \in Markets |->
                        IF m \in open THEN IsLive(m, pick[m], d) ELSE live[m]]
           n     == Cardinality({m \in Markets : isL[m]})
           after == [m \in open |-> MarketSession(m, pick[m], isL[m], n, d)]
           cost  == SumOver([m \in open |-> after[m].cost])
           pnl   == SumOver([m \in open |-> after[m].pnl]) - cost
           due   == fy # FiscalYear(d) /\ session > 0
           t     == FyTax(fyPnl, lossCarried)
       IN /\ IF due THEN PayTax(t) ELSE UNCHANGED <<taxes, taxedBase, closedPnl, lossCarried>>
          /\ nav' = nav + pnl - IF due THEN t.tax ELSE 0
          /\ fyPnl' = (IF due THEN 0 ELSE fyPnl) + pnl
          /\ fy' = FiscalYear(d)
          /\ held' = [m \in Markets |-> IF m \in open THEN pick[m] ELSE held[m]]
          /\ live' = isL
          /\ slot' = [m \in Markets |-> IF m \in open THEN after[m] ELSE slot[m]]
          /\ spent' = spent + SumOver([m \in open |-> after[m].spent])
          /\ costs' = costs + cost
          /\ session' = d
    /\ UNCHANGED <<tape, final>>

\* The year that is open at the end is taxed at once.
TrendFinal ==
    /\ session = LastSession /\ ~final
    /\ PayTax(FyTax(fyPnl, lossCarried))
    /\ nav' = nav - FyTax(fyPnl, lossCarried).tax
    /\ fyPnl' = 0
    /\ final' = TRUE
    /\ UNCHANGED <<tape, session, held, live, slot, fy, spent, costs>>

EmptySlot == [lots |-> 0, con |-> NoFuture, conProd |-> NoProduct, last |-> 0, mult |-> 0,
              prod |-> NoProduct, pend |-> NoOrder, sizedIn |-> NoProduct,
              pnl |-> 0, cost |-> 0, spent |-> 0]

TrendInit ==
    /\ tape \in Tapes /\ session = 0
    /\ held = [m \in Markets |-> NoProduct]
    /\ live = [m \in Markets |-> FALSE]
    /\ slot = [m \in Markets |-> EmptySlot]
    /\ nav = Capital /\ fy = 0 /\ fyPnl = 0 /\ lossCarried = 0
    /\ final = FALSE
    /\ spent = 0 /\ costs = 0 /\ taxes = 0 /\ taxedBase = 0 /\ closedPnl = 0

TrendNext == TrendSession \/ TrendFinal

TrendSpec == TrendInit /\ [][TrendNext]_trendVars

-----------------------------------------------------------------------------
(* Properties *)

\* Marking to market neither makes nor loses money: whatever was rolled, switched,
\* left unquoted or closed at a stale mark, the net asset value is the capital, less
\* what was put into lots, plus what the open lots are worth at their last mark,
\* less costs and taxes (research/e3_trend.py:221-262).
TrendNavExplained ==
    nav = Capital - spent - costs - taxes
            + SumOver([m \in Markets |-> slot[m].lots * slot[m].mult * slot[m].last])

\* Every loss is set off against gains exactly once: what the closed years earned is
\* what was taxed, less the loss still carried (research/e3_trend.py:177-180).
TrendLossUsedOnce == closedPnl = taxedBase - lossCarried

\* Not so: "never fill a new-product order in the old one" (research/e3_trend.py:242)
\* has a converse.  An order sized in lots of one product, unfilled until the market
\* has switched, is filled as that number of lots of the other.
OrderFilledInItsProduct ==
    [][\A m \in Markets :
        (slot[m].pend # NoOrder /\ slot[m].pend # 0 /\ slot[m].lots # slot[m].pend
            /\ slot'[m].lots = slot[m].pend)
        => slot'[m].conProd = slot[m].sizedIn]_slot
=============================================================================
