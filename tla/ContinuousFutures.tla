-------------------------- MODULE ContinuousFutures --------------------------
(***************************************************************************)
(* research/futures.py: one product's contracts made into one series.      *)
(* continuous() walks the days on which anything is quoted and holds the   *)
(* nearest contract with more than `Roll' sessions left; at a change of    *)
(* contract it measures the gap between the two, and at the end it shifts  *)
(* everything before by the sum of the later gaps.                         *)
(*                                                                         *)
(* A contract is named by its expiry date.  Its price is the market's      *)
(* price of the day plus a basis of its own.                               *)
(***************************************************************************)
EXTENDS Integers, FiniteSets, Sequences, Functions

CONSTANTS
    Cal,             \* the dates with rows, in order; day 0 a Monday
    Expiries,
    Month(_),        \* of a date
    LifetimeLots,    \* function: expiry -> lots
    QuoteSets,       \* what may be quoted on a day
    Market,          \* function: date -> price
    Basis,           \* function: expiry -> basis
    Roll,
    NoContract

ASSUME CalAssumption ==
    /\ Cal \in Seq(Nat)
    /\ \A i, j \in DOMAIN Cal : i < j => Cal[i] < Cal[j]
    /\ QuoteSets \subseteq SUBSET Expiries

ASSUME ContractAssumption ==
    /\ Expiries \subseteq Nat /\ NoContract \notin Expiries
    /\ \A i \in DOMAIN Cal : Market[Cal[i]] \in Int
    /\ \A e \in Expiries : Basis[e] \in Int

VARIABLES
    at,              \* index of the last date walked
    quoted,          \* function: walked date -> contracts quoted on it
    holding,
    series,          \* rows [date, expiry]
    gaps             \* sequence of [date, size, kind]

contVars == <<at, quoted, holding, series, gaps>>

\* monthly: no weeklies, and of each month the last expiry quoted that day.
Monthly(q) ==
    LET main == {e \in q : \A x \in Expiries :
                    Month(x) = Month(e) => 10 * LifetimeLots[e] >= LifetimeLots[x]}
    IN {e \in main : \A x \in main : Month(x) = Month(e) => x <= e}

\* A date without rows is not in the calendar.
ASSUME QuoteAssumption == \A q \in QuoteSets : Monthly(q) # {}

\* Monthly contracts are a month apart: two dates within a week are one contract's.
ASSUME RedatedAssumption ==
    \A q, r \in QuoteSets : \A a \in Monthly(q), b \in Monthly(r) :
        a <= b /\ b - a <= 7 => Basis[a] = Basis[b]

Price(e, d) == Market[d] + Basis[e]

\* Sessions left after date i; weekdays stand for those beyond the data.
Left(e, i) ==
    LET end == Cal[Len(Cal)]
    IN IF e <= end
       THEN Cardinality({j \in DOMAIN Cal : j > i /\ Cal[j] <= e})
       ELSE Len(Cal) - i + Cardinality({d \in end+1..e : d % 7 < 5})

\* The contract to hold, of those quoted; never one of an earlier month.
Pick(q, i) ==
    LET ok == {e \in q : /\ Left(e, i) > Roll
                         /\ holding = NoContract \/ Month(e) >= Month(holding)}
    IN IF ok # {} THEN CHOOSE e \in ok : \A x \in ok : e <= x
       ELSE IF holding \in q THEN holding ELSE NoContract

LastRow == series[Len(series)].date

\* Mutant: the gap is taken between two dates' prices.
GapAcrossDates(new, d, q) ==
    [date |-> d, kind |-> "measured", size |-> Price(new, d) - Price(holding, LastRow)]

\* Measured on the last date on which both were quoted; a contract re-dated by a
\* few days has none; else the last close of the old one stands in.
Gap(new, d, q) ==
    LET both == {x \in DOMAIN q : {new, holding} \subseteq q[x]}
        dc   == CHOOSE x \in both : \A y \in both : y <= x
        days == IF new > holding THEN new - holding ELSE holding - new
    IN CASE both # {} ->
            [date |-> d, kind |-> "measured", size |-> Price(new, dc) - Price(holding, dc)]
         [] both = {} /\ days > 7 ->
            [date |-> d, kind |-> "stale",
             size |-> Price(new, d) - Price(holding, LastRow)]
         [] OTHER -> [date |-> d, kind |-> "redated", size |-> 0]

\* One date of the loop; without a contract it leaves no row.
Walk ==
    /\ at < Len(Cal)
    /\ \E raw \in QuoteSets :
        LET d == Cal[at + 1]
            q == [x \in DOMAIN quoted \cup {d} |-> IF x = d THEN Monthly(raw) ELSE quoted[x]]
            p == Pick(q[d], at + 1)
        IN /\ quoted' = q
           /\ IF p = NoContract THEN UNCHANGED <<holding, series, gaps>>
              ELSE /\ holding' = p
                   /\ series' = Append(series, [date |-> d, expiry |-> p])
                   /\ gaps' = IF holding \in {NoContract, p} THEN gaps
                              ELSE Append(gaps, Gap(p, d, q))
    /\ at' = at + 1

ContInit ==
    /\ at = 0
    /\ quoted = [x \in {} |-> {}]
    /\ holding = NoContract
    /\ series = <<>> /\ gaps = <<>>

ContNext == Walk

ContSpec == ContInit /\ [][ContNext]_contVars

\* adj_close: a roll shifts everything strictly before it.
AdjClose(i) ==
    Price(series[i].expiry, series[i].date)
        + FoldFunctionOnSet(+, 0, [j \in DOMAIN gaps |-> gaps[j].size],
                            {j \in DOMAIN gaps : gaps[j].date > series[i].date})

-----------------------------------------------------------------------------
(* Properties *)

\* The series moves as the market does through every pattern of listings, holes,
\* rolls and re-dated expiries: what a contract costs more than another never shows
\* in it ("gap measured on the last day both were quoted, so it never mixes two
\* dates' prices", research/futures.py:326).  Only at the stale fallback it stands still.
SeriesFollowsMarket ==
    \A i \in DOMAIN series :
        i > 1 =>
            AdjClose(i) - AdjClose(i - 1) =
                IF \E j \in DOMAIN gaps : gaps[j].date = series[i].date /\ gaps[j].kind = "stale"
                THEN 0
                ELSE Market[series[i].date] - Market[series[i - 1].date]
=============================================================================
