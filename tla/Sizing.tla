------------------------------- MODULE Sizing -------------------------------
(***************************************************************************)
(* core/sizing.py: the number of lots, shared by the bot and by both       *)
(* back-tests.  Money is in whole units, the two risk fractions in whole   *)
(* percents.                                                               *)
(***************************************************************************)
EXTENDS Integers

CONSTANTS RiskPct, PortfolioPct

ASSUME RiskAssumption == RiskPct \in Nat /\ PortfolioPct \in Nat

Least(a, b)    == IF a <= b THEN a ELSE b
Greatest(a, b) == IF a >= b THEN a ELSE b

MaxLossPerLot(width, credit, lotSize) == (width - Greatest(credit, 0)) * lotSize

\* risk_lots: as many lots as both budgets allow, none when the inputs are bad.
RiskLots(width, credit, lotSize, eq, open) ==
    LET loss == MaxLossPerLot(width, credit, lotSize)
    IN IF loss <= 0 \/ eq <= 0 THEN 0
       ELSE Greatest(0, Least((eq * RiskPct) \div (100 * loss),
                              (eq * PortfolioPct - 100 * open) \div (100 * loss)))
=============================================================================
