---------------------------- MODULE SizingProofs ----------------------------
(***************************************************************************)
(* The number of lots respects both budgets, for every spread, every       *)
(* equity and every amount that is at risk already.  The back-tests that   *)
(* size with them also walk over sets of days: one fact about those.       *)
(***************************************************************************)
EXTENDS Sizing, WellFoundedInduction, TLAPS

\* The quotient of a division by a positive number, times it, is no more than
\* what was divided.
LEMMA FloorBelow ==
    ASSUME NEW a \in Int, NEW b \in Nat \ {0}, NEW q \in Int, q <= a \div b
    PROVE  q * b <= a
  <1>1. /\ a \div b \in Int
        /\ a = b * (a \div b) + (a % b)
        /\ a % b >= 0
    OBVIOUS
  <1>2. (a \div b) * b <= a
    BY <1>1
  <1>3. q * b <= (a \div b) * b
    BY <1>1
  <1> QED BY <1>1, <1>2, <1>3

\* The number of lots is a natural number.
LEMMA RiskLotsNatural ==
    ASSUME NEW width \in Int, NEW credit \in Int, NEW size \in Nat, NEW eq \in Int,
           NEW open \in Nat
    PROVE  RiskLots(width, credit, size, eq, open) \in Nat
  <1> DEFINE loss == MaxLossPerLot(width, credit, size)
             risk == eq * RiskPct
             rest == eq * PortfolioPct - 100 * open
  <1>1. loss \in Int /\ risk \in Int /\ rest \in Int
    BY RiskAssumption DEF MaxLossPerLot, Greatest
  <1>2. CASE loss <= 0 \/ eq <= 0
    BY <1>2 DEF RiskLots
  <1>3. CASE ~(loss <= 0 \/ eq <= 0)
    <2>1. RiskLots(width, credit, size, eq, open)
            = Greatest(0, Least(risk \div (100 * loss), rest \div (100 * loss)))
      BY <1>3 DEF RiskLots
    <2> HIDE DEF loss, risk, rest
    <2>2. risk \div (100 * loss) \in Int /\ rest \div (100 * loss) \in Int
      BY <1>1, <1>3
    <2> QED BY <2>1, <2>2 DEF Least, Greatest
  <1> QED BY <1>2, <1>3

\* risk_lots stays in both budgets (core/sizing.py:14-17).
LEMMA RiskLotsFits ==
    ASSUME NEW width \in Int, NEW credit \in Int, NEW size \in Nat, NEW eq \in Int,
           NEW open \in Nat, credit > 0, RiskLots(width, credit, size, eq, open) # 0
    PROVE  LET n == RiskLots(width, credit, size, eq, open)
           IN  /\ 100 * ((width - credit) * size * n) <= eq * RiskPct
               /\ 100 * ((width - credit) * size * n + open) <= eq * PortfolioPct
  <1> DEFINE n == RiskLots(width, credit, size, eq, open)
             loss == (width - credit) * size
             risk == eq * RiskPct
             rest == eq * PortfolioPct - 100 * open
  <1>0. n \in Nat \ {0}
    <2>1. RiskLots(width, credit, size, eq, open) \in Nat
      BY RiskLotsNatural
    <2> QED BY <2>1
  <1>1. /\ loss \in Int /\ risk \in Int /\ rest \in Int /\ n \in Int
        /\ MaxLossPerLot(width, credit, size) = loss
    BY <1>0, RiskAssumption DEF MaxLossPerLot, Greatest
  <1>2. loss > 0 /\ n = Greatest(0, Least(risk \div (100 * loss), rest \div (100 * loss)))
    BY <1>1 DEF RiskLots
  <1>3. 100 * loss \in Nat \ {0}
    BY <1>1, <1>2
  <1>4. n <= risk \div (100 * loss) /\ n <= rest \div (100 * loss)
    <2> HIDE DEF n, loss, risk, rest
    <2>1. risk \div (100 * loss) \in Int /\ rest \div (100 * loss) \in Int
      BY <1>1, <1>3
    <2> QED BY <1>0, <1>1, <1>2, <2>1 DEF Least, Greatest
  <1>5. n * (100 * loss) <= risk /\ n * (100 * loss) <= rest
    <2> HIDE DEF n, loss, risk, rest
    <2> QED BY <1>1, <1>3, <1>4, FloorBelow
  <1>6. n * (100 * loss) = 100 * (loss * n)
    <2> HIDE DEF n, loss
    <2> QED BY <1>1
  <1>7. 100 * (loss * n) <= risk /\ 100 * (loss * n + open) <= rest + 100 * open
    <2> HIDE DEF n, loss, risk, rest
    <2>1. loss * n \in Int
      BY <1>1
    <2> QED BY <1>1, <1>5, <1>6, <2>1
  <1>8. rest + 100 * open = eq * PortfolioPct
    BY <1>1, RiskAssumption
  <1> QED BY <1>7, <1>8

\* A set of days that has an upper bound has a last day.
LEMMA LatestExists ==
    ASSUME NEW A, A \subseteq Nat, NEW e \in Nat, A # {}, \A x \in A : x <= e
    PROVE  \E m \in A : \A x \in A : x <= m
  <1> DEFINE T == {e - x : x \in A}
  <1>1. \A x \in A : x \in Nat /\ e - x \in Nat
    OBVIOUS
  <1>2. T \subseteq Nat /\ T # {}
    BY <1>1, Zenon
  <1>3. PICK n \in T : \A k \in T : ~ (<<k, n>> \in OpToRel(<, Nat))
    BY <1>2, NatLessThanWellFounded, WFMin, Zenon
  <1>4. \A k \in T : ~(k < n)
    BY <1>2, <1>3 DEF OpToRel
  <1>5. PICK m \in A : n = e - m
    BY <1>3
  <1>6. ASSUME NEW x \in A PROVE x <= m
    <2>1. ~(e - x < e - m)
      BY <1>4, <1>5
    <2> QED BY <1>1, <2>1
  <1> QED BY <1>5, <1>6
=============================================================================
