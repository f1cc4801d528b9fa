---------------------------- MODULE MomentumBook ----------------------------
(***************************************************************************)
(* research/e2_momentum.py, simulate: the momentum study on shares.  Each  *)
(* session marks every position, sells what was left to sell or has        *)
(* vanished, on a rebalance sells what fell out of the ranks, pays the tax *)
(* of a finished year, then buys down the ranks; the last session sells    *)
(* everything.                                                             *)
(*                                                                         *)
(* Rows, ranks and regime are fixed by `market'.  A position is kept as    *)
(* its worth, in whole units rounded down.                                 *)
(***************************************************************************)
EXTENDS Integers, FiniteSets, Functions

CONSTANTS
    MarketTapes, Names, Sessions,         \* sessions are 1..Sessions
    Row(_, _, _),       \* tape, name, session: [close, adj, flag, eq] or NoRow
    Rebalance(_, _),    \* tape, session: [on, rank, liquid, cap], rank a function
                        \*   name -> rank or 0; or NoBook
    YearOf(_),          \* financial year of a session, from 1
    YearLong,           \* sessions after which a gain is long-term
    FmvDay, LtcgFrom,   \* sessions
    NoRow, NoBook, NoFmv

CONSTANTS
    StartCash, Slots, Keep, Missing, HaircutPct,
    SlipTopPermille, SlipRestPermille, FeePermille, FlatFee,
    StPct, LtPct, LtExempt

VARIABLES
    market, day, phase,
    pos,                \* function: held name -> position
    cash,
    gains,              \* function: <<"st" | "lt", year>> -> taxable gain not taxed yet
    carried,            \* [st, lt]: losses carried forward
    dueYear,            \* the next year to be taxed
    rankAt, need, slotCash,
    soldToday,          \* history
    taxed, closedGains  \* history: of the years taxed so far

bookOf    == <<pos, cash, gains>>
taxState  == <<carried, dueYear, taxed, closedGains>>
buying    == <<rankAt, need, slotCash>>
momVars   == <<market, day, phase, pos, cash, gains, carried, dueYear,
               rankAt, need, slotCash, soldToday, taxed, closedGains>>

Years  == 1..YearOf(Sessions)

\* The book names a rank once.  What vanishes is sold before the next rebalance.
ASSUME MomentumAssumption ==
    /\ Sessions \in Nat \ {0} /\ Slots \in Nat \ {0} /\ HaircutPct \in 0..100
    /\ IsFiniteSet(Names) /\ Keep \in Nat /\ Missing \in Nat \ {0}
    /\ \A t \in MarketTapes, d, e \in 1..Sessions :
        /\ Rebalance(t, d) # NoBook => \A n, k \in Names :
            Rebalance(t, d).rank[n] = Rebalance(t, d).rank[k] => n = k \/ Rebalance(t, d).rank[n] = 0
        /\ (d < e /\ Rebalance(t, d) # NoBook /\ Rebalance(t, e) # NoBook) => e - d > Missing

\* Prices are above zero.
ASSUME TapeAssumption ==
    \A t \in MarketTapes, d \in 1..Sessions :
        /\ \A n \in Names :
            Row(t, n, d) \in {NoRow} \cup [close : Nat \ {0}, adj : Nat \ {0}, flag : BOOLEAN, eq : BOOLEAN]
        /\ Rebalance(t, d) \in {NoBook} \cup [on : BOOLEAN, rank : [Names -> Nat],
                                             liquid : [Names -> BOOLEAN], cap : [Names -> Nat]]

ASSUME YearAssumption ==
    /\ \A d \in 1..Sessions : YearOf(d) \in Nat \ {0}
    /\ \A d, e \in 1..Sessions : d <= e => YearOf(d) <= YearOf(e)

ASSUME MoneyAssumption ==
    /\ StartCash \in Nat /\ FlatFee \in Nat /\ LtExempt \in Nat
    /\ {SlipTopPermille, SlipRestPermille, FeePermille} \subseteq Nat
    /\ StPct \in Nat /\ LtPct \in Nat

AtLeastZero(n) == IF n >= 0 THEN n ELSE 0
Lesser(a, b)   == IF a <= b THEN a ELSE b
Larger(a, b)   == IF a >= b THEN a ELSE b
Total(f, S)    == FoldFunctionOnSet(+, 0, f, S)

-----------------------------------------------------------------------------
(* realise and fy_tax *)

SlipFor(liquid) == IF liquid THEN SlipTopPermille ELSE SlipRestPermille

Fees(value) == FlatFee + (FeePermille * value) \div 1000

\* What a sale of the gross worth brings in.
Net(gross, slip) ==
    LET value == (gross * (1000 - slip)) \div 1000
    IN value - Fees(value)

IsLong(p, d) == d > p.bought + YearLong

\* The basis is lifted to the fair value of the grandfathering day, not above the net.
TaxBasis(p, net, d) ==
    IF IsLong(p, d) /\ p.bought <= FmvDay /\ d >= LtcgFrom /\ p.fmv # NoFmv
    THEN Larger(p.basis, Lesser(p.fmv, net))
    ELSE p.basis

\* Long-term gains are exempt before LtcgFrom, and so are losses.
TaxableGain(p, net, d, kind) ==
    IF kind = IF IsLong(p, d) THEN (IF d >= LtcgFrom THEN "lt" ELSE "exempt") ELSE "st"
    THEN net - TaxBasis(p, net, d) ELSE 0

\* Names are sold for the nets given: out of the book, into cash and the year's gains.
Sell(nets, d, others) ==
    /\ pos' = others
    /\ cash' = cash + Total(nets, DOMAIN nets)
    /\ gains' = [k \in DOMAIN gains |->
                    IF k[2] # YearOf(d) THEN gains[k]
                    ELSE gains[k] + Total([n \in DOMAIN nets |-> TaxableGain(pos[n], nets[n], d, k[1])],
                                          DOMAIN nets)]

\* Mutant: a short-term loss set off against the long-term gains is carried as well.
SetOffTwice(st, lt, cf) ==
    LET u0  == IF st < 0 /\ lt > 0 THEN Lesser(-st, lt) ELSE 0
        st0 == st
        lt0 == lt - u0
        u1  == Lesser(cf.st, AtLeastZero(st0))
        u2  == Lesser(cf.lt, AtLeastZero(lt0))
        u3  == Lesser(cf.st - u1, AtLeastZero(lt0 - u2))
    IN [st |-> AtLeastZero(st0 - u1), lt |-> AtLeastZero(lt0 - u2 - u3),
        cf |-> [st |-> cf.st - u1 - u3 + AtLeastZero(u1 - st0),
                lt |-> cf.lt - u2 + AtLeastZero(u2 + u3 - lt0)]]

\* fy_tax: short-term losses against short-term, then long-term gains; long-term
\* losses against long-term gains only; first this year's, then the carried ones.
SetOff(st, lt, cf) ==
    LET u0  == IF st < 0 /\ lt > 0 THEN Lesser(-st, lt) ELSE 0
        st0 == st + u0
        lt0 == lt - u0
        u1  == Lesser(cf.st, AtLeastZero(st0))
        u2  == Lesser(cf.lt, AtLeastZero(lt0))
        u3  == Lesser(cf.st - u1, AtLeastZero(lt0 - u2))
    IN [st |-> AtLeastZero(st0 - u1), lt |-> AtLeastZero(lt0 - u2 - u3),
        cf |-> [st |-> cf.st - u1 - u3 + AtLeastZero(u1 - st0),
                lt |-> cf.lt - u2 + AtLeastZero(u2 + u3 - lt0)]]

FyTaxOf(s) == (StPct * s.st + LtPct * AtLeastZero(s.lt - LtExempt)) \div 100

Pay(y) ==
    LET s == SetOff(gains[<<"st", y>>], gains[<<"lt", y>>], carried)
    IN /\ cash' = cash - FyTaxOf(s)
       /\ carried' = s.cf
       /\ taxed' = taxed + s.st + s.lt
       /\ closedGains' = closedGains + gains[<<"st", y>>] + gains[<<"lt", y>>]
       /\ gains' = [gains EXCEPT ![<<"st", y>>] = 0, ![<<"lt", y>>] = 0]

-----------------------------------------------------------------------------
(* One session *)

RowOf(n, d) == Row(market, n, d)

\* Mutant: a day without a row is not counted.
MarkedForgetful(p, n, d) ==
    LET r == RowOf(n, d)
    IN IF r = NoRow THEN p
       ELSE LET w == IF r.flag THEN p.worth ELSE (p.worth * r.adj) \div p.last
            IN [p EXCEPT !.worth = w, !.last = r.adj, !.miss = 0,
                         !.fmv = IF d <= FmvDay THEN w ELSE @]

\* A flagged session is no tradable move: the units are rescaled.
Marked(p, n, d) ==
    LET r == RowOf(n, d)
    IN IF r = NoRow THEN [p EXCEPT !.miss = @ + 1]
       ELSE LET w == IF r.flag THEN p.worth ELSE (p.worth * r.adj) \div p.last
            IN [p EXCEPT !.worth = w, !.last = r.adj, !.miss = 0,
                         !.fmv = IF d <= FmvDay THEN w ELSE @]

Mark ==
    /\ phase = "mark"
    /\ LET now     == [n \in DOMAIN pos |-> Marked(pos[n], n, day)]
           forced  == {n \in DOMAIN now : RowOf(n, day) = NoRow /\ now[n].miss = Missing}
           pending == {n \in DOMAIN now : RowOf(n, day) # NoRow /\ now[n].sell}
           out     == forced \cup pending
           nets    == [n \in out |->
                        IF n \in forced THEN Net((now[n].worth * (100 - HaircutPct)) \div 100, 0)
                        ELSE Net(now[n].worth, now[n].slip)]
       IN /\ pos' = [n \in DOMAIN pos \ out |-> now[n]]
          /\ cash' = cash + Total(nets, out)
          /\ gains' = [k \in DOMAIN gains |->
                        IF k[2] # YearOf(day) THEN gains[k]
                        ELSE gains[k] + Total([n \in out |-> TaxableGain(now[n], nets[n], day, k[1])], out)]
          /\ soldToday' = out
    /\ phase' = IF Rebalance(market, day) = NoBook THEN "tax" ELSE "rebalance"
    /\ UNCHANGED <<market, day, taxState, buying>>

\* What fell out of the ranks, or everything when the regime is off, is sold; what
\* has no row today is sold on its next one.
Rebalanced ==
    /\ phase = "rebalance"
    /\ LET u     == Rebalance(market, day)
           stay  == {n \in DOMAIN pos : pos[n].sell \/ (u.on /\ u.rank[n] \in 1..Keep)}
           out   == {n \in DOMAIN pos \ stay : RowOf(n, day) # NoRow}
           slip  == [n \in Names |-> SlipFor(u.liquid[n])]
           nets  == [n \in out |-> Net(pos[n].worth, slip[n])]
       IN /\ Sell(nets, day, [n \in DOMAIN pos \ out |->
                                IF n \in stay THEN pos[n]
                                ELSE [pos[n] EXCEPT !.slip = slip[n], !.sell = TRUE]])
          /\ soldToday' = soldToday \cup out
    /\ phase' = "tax"
    /\ UNCHANGED <<market, day, taxState, buying>>

\* Every financial year that has ended is taxed, before anything is bought.
PayDue ==
    /\ phase = "tax" /\ YearOf(day) > dueYear
    /\ Pay(dueYear)
    /\ dueYear' = dueYear + 1
    /\ UNCHANGED <<market, day, phase, pos, buying, soldToday>>

StartBuying ==
    /\ phase = "tax" /\ YearOf(day) <= dueYear
    /\ LET u == Rebalance(market, day)
           n == Slots - Cardinality({x \in DOMAIN pos : ~pos[x].sell})
       IN IF u # NoBook /\ u.on /\ n > 0 /\ cash > 0
          THEN phase' = "buy" /\ need' = n /\ slotCash' = cash \div n
          ELSE phase' = "close" /\ need' = 0 /\ slotCash' = 0
    /\ rankAt' = 1
    /\ UNCHANGED <<market, day, bookOf, taxState, soldToday>>

\* The most shares whose cost and fees fit the slot, within the liquidity cap.
Affordable(close, slip, cap) ==
    LET most == Lesser((1000 * slotCash) \div (close * (1000 + slip)), cap)
        cost(k) == (k * close * (1000 + slip)) \div 1000
        fits == {k \in 1..most : cost(k) + Fees(cost(k)) <= slotCash}
    IN IF fits = {} THEN [shares |-> 0, paid |-> 0]
       ELSE LET k == CHOOSE x \in fits : \A y \in fits : y <= x
            IN [shares |-> k, paid |-> cost(k) + Fees(cost(k))]

\* The name of the next rank: bought if it is not held and trades in the EQ series.
BuyNext ==
    /\ phase = "buy"
    /\ rankAt <= Keep /\ need > 0 /\ slotCash > 0
    /\ LET u      == Rebalance(market, day)
           fit    == {n \in Names \ DOMAIN pos :
                        /\ u.rank[n] = rankAt
                        /\ RowOf(n, day) # NoRow
                        /\ RowOf(n, day).eq
                        /\ Affordable(RowOf(n, day).close, SlipFor(u.liquid[n]), u.cap[n]).shares > 0}
       IN IF fit = {} THEN UNCHANGED <<pos, cash, need>>
          ELSE \E n \in fit :
            LET r == RowOf(n, day)
                b == Affordable(r.close, SlipFor(u.liquid[n]), u.cap[n])
            IN /\ cash' = cash - b.paid
               /\ need' = need - 1
               /\ pos' = [x \in DOMAIN pos \cup {n} |->
                            IF x # n THEN pos[x]
                            ELSE [worth |-> b.shares * r.close, basis |-> b.paid, bought |-> day,
                                  last |-> r.adj, slip |-> SlipFor(u.liquid[n]), miss |-> 0, sell |-> FALSE,
                                  fmv |-> IF day <= FmvDay THEN b.shares * r.close ELSE NoFmv]]
    /\ rankAt' = rankAt + 1
    /\ UNCHANGED <<market, day, phase, gains, taxState, slotCash, soldToday>>

DoneBuying ==
    /\ phase = "buy"
    /\ rankAt > Keep \/ need = 0 \/ slotCash = 0
    /\ phase' = "close"
    /\ UNCHANGED <<market, day, bookOf, taxState, buying, soldToday>>

NextSession ==
    /\ phase = "close" /\ day < Sessions
    /\ day' = day + 1
    /\ phase' = "mark"
    /\ soldToday' = {}
    /\ UNCHANGED <<market, bookOf, taxState, buying>>

\* End of the window: everything is sold at its last close.
SellAll ==
    /\ phase = "close" /\ day = Sessions
    /\ Sell([n \in DOMAIN pos |-> Net(pos[n].worth, pos[n].slip)], day, [n \in {} |-> 0])
    /\ phase' = "over"
    /\ UNCHANGED <<market, day, taxState, buying, soldToday>>

\* ... and every year that is left is taxed.
PayRest ==
    /\ phase = "over" /\ dueYear \in Years
    /\ Pay(dueYear)
    /\ dueYear' = dueYear + 1
    /\ UNCHANGED <<market, day, phase, pos, buying, soldToday>>

MomInit ==
    /\ market \in MarketTapes /\ day = 1 /\ phase = "mark"
    /\ pos = [n \in {} |-> 0] /\ cash = StartCash
    /\ gains = [k \in {"st", "lt"} \X Years |-> 0]
    /\ carried = [st |-> 0, lt |-> 0] /\ dueYear = 1
    /\ rankAt = 1 /\ need = 0 /\ slotCash = 0
    /\ soldToday = {} /\ taxed = 0 /\ closedGains = 0

MomNext ==
    \/ Mark \/ Rebalanced \/ PayDue \/ StartBuying \/ BuyNext \/ DoneBuying
    \/ NextSession \/ SellAll \/ PayRest

MomSpec == MomInit /\ [][MomNext]_momVars

-----------------------------------------------------------------------------
(* Properties *)

\* "never rebuy a name just sold" (research/e2_momentum.py:237): nothing that was sold
\* in a session, by rank, by a sale left over from an earlier rebalance or for want of
\* rows, is bought back in it.
NeverRebuysSameDay ==
    phase # "over" => \A n \in soldToday : n \notin DOMAIN pos

\* Every loss is set off exactly once: what the taxed years earned, short-term and
\* long-term, is what was taxed less the losses still carried
\* (research/e2_momentum.py:123-143).
MomentumLossUsedOnce == closedGains = taxed - carried.st - carried.lt

\* Shares are bought from the cash that is there: only taxes and fees can make it
\* negative, and then nothing is bought (research/e2_momentum.py:235-252).
NeverBuysOnCredit ==
    [][Cardinality(DOMAIN pos') > Cardinality(DOMAIN pos) => cash' >= 0]_momVars
=============================================================================
