--------------------------- MODULE ResearchProofs ---------------------------
(***************************************************************************)
(* Theorems about the research programs: the put-spread back-test keeps    *)
(* every loss within its share, its folds trade one book and each of its   *)
(* runs is a run of the simulator's loop; the momentum and the trend books *)
(* use a loss once, the first never buys back what it sold that day nor on *)
(* credit, and the second's net asset value is what its trades explain.    *)
(* The continuous series of futures follows the market, the parser of      *)
(* press releases reports what their readers find in them, and the archive *)
(* of index changes is the history of the index.                           *)
(*                                                                         *)
(* The books add up over all they hold.  Sums over a finite set are folds; *)
(* the first section shows what they are by a smallest counterexample.     *)
(***************************************************************************)
EXTENDS BacktestWalk, MomentumBook, TrendBook, ContinuousFutures, ChangeLedger, ReleaseParser,
        SizingProofs, FiniteSetTheorems, SequenceTheorems

-----------------------------------------------------------------------------
(* Sums over a finite set *)

Sum(f, S) == FoldFunctionOnSet(+, 0, f, S)

First(s) == CHOOSE x \in s : TRUE

Summed(f, g, s) == IF s = {} THEN 0 ELSE f[First(s)] + g[s \ {First(s)}]

\* The recursive function behind a sum of the community modules.
Iter(f, S) == CHOOSE g : g = [s \in SUBSET S |-> Summed(f, g, s)]

LEMMA SumIsIter ==
    ASSUME NEW f, NEW S
    PROVE  Sum(f, S) = Iter(f, S)[S]
  BY Zenon DEF Sum, FoldFunctionOnSet, MapThenFoldSet, Iter, Summed, First

LEMMA FirstIn ==
    ASSUME NEW s, s # {}
    PROVE  First(s) \in s
  BY DEF First

LEMMA SmallestOf ==
    ASSUME NEW A, A \subseteq Nat, A # {}
    PROVE  \E m \in A : \A x \in A : m <= x
  <1>1. PICK m \in A : \A x \in A : ~ (<<x, m>> \in OpToRel(<, Nat))
    BY NatLessThanWellFounded, WFMin, Zenon
  <1>2. \A x \in A : ~(x < m)
    BY <1>1 DEF OpToRel
  <1> QED BY <1>2

\* A statement on the subsets of a finite set that fails somewhere fails first on a
\* set of a certain size.
LEMMA SmallestSubset ==
    ASSUME NEW S, IsFiniteSet(S), NEW T, T \subseteq SUBSET S, T # {}
    PROVE  \E x \in T : \A y \in T : ~(Cardinality(y) < Cardinality(x))
  <1> DEFINE A == {Cardinality(x) : x \in T}
  <1>1. \A x \in T : Cardinality(x) \in Nat
    BY FS_Subset, FS_CardinalityType
  <1>2. A \subseteq Nat /\ A # {}
    BY <1>1
  <1>2a. PICK m \in A : \A a \in A : m <= a
    BY <1>2, SmallestOf
  <1>3. PICK x \in T : m = Cardinality(x)
    OBVIOUS
  <1>4. ASSUME NEW y \in T PROVE ~(Cardinality(y) < Cardinality(x))
    BY <1>1, <1>2a, <1>3
  <1> QED BY <1>4

LEMMA WithoutFirst ==
    ASSUME NEW S, IsFiniteSet(S), NEW s \in SUBSET S, s # {}
    PROVE  /\ s \ {First(s)} \in SUBSET S
           /\ Cardinality(s \ {First(s)}) = Cardinality(s) - 1
           /\ Cardinality(s) \in Nat \ {0}
  <1>1. IsFiniteSet(s) /\ First(s) \in s
    BY FirstIn, FS_Subset
  <1>2. Cardinality(s) \in Nat /\ Cardinality(s) # 0
    BY <1>1, FS_CardinalityType, FS_EmptySet
  <1> QED BY <1>1, <1>2, FS_RemoveElement

\* There is one: built up from the empty set.
LEMMA SumExists ==
    ASSUME NEW f, NEW S, IsFiniteSet(S)
    PROVE  \E g : g = [s \in SUBSET S |-> Summed(f, g, s)]
  <1> DEFINE UpTo(n) == \E g : /\ g = [s \in SUBSET S |-> g[s]]
                               /\ \A s \in SUBSET S : Cardinality(s) <= n => g[s] = Summed(f, g, s)
  <1>0. \A s \in SUBSET S : Cardinality(s) \in Nat /\ IsFiniteSet(s)
    BY FS_Subset, FS_CardinalityType
  <1>1. UpTo(0)
    <2> DEFINE g == [s \in SUBSET S |-> 0]
    <2>1. ASSUME NEW s \in SUBSET S, Cardinality(s) <= 0 PROVE g[s] = Summed(f, g, s)
      <3>1. s = {}
        BY <1>0, <2>1, FS_EmptySet
      <3> QED BY <3>1 DEF Summed
    <2> HIDE DEF g
    <2>2. g = [s \in SUBSET S |-> g[s]]
      BY DEF g
    <2> QED BY <2>1, <2>2
  <1>2. ASSUME NEW n \in Nat, UpTo(n) PROVE UpTo(n + 1)
    <2>1. PICK g : /\ g = [s \in SUBSET S |-> g[s]]
                   /\ \A s \in SUBSET S : Cardinality(s) <= n => g[s] = Summed(f, g, s)
      BY <1>2
    <2> DEFINE h == [s \in SUBSET S |-> Summed(f, g, s)]
    <2>2. ASSUME NEW s \in SUBSET S, Cardinality(s) <= n + 1 PROVE h[s] = Summed(f, h, s)
      <3>1. CASE s = {}
        BY <3>1 DEF Summed
      <3>2. CASE s # {}
        <4> DEFINE r == s \ {First(s)}
        <4>1. r \in SUBSET S /\ Cardinality(r) <= n
          BY <2>2, <3>2, WithoutFirst
        <4>2. h[r] = g[r]
          BY <2>1, <4>1
        <4> QED BY <3>2, <4>2 DEF Summed
      <3> QED BY <3>1, <3>2
    <2>3. h = [s \in SUBSET S |-> h[s]]
      OBVIOUS
    <2> HIDE DEF h
    <2> QED BY <2>2, <2>3
  <1> HIDE DEF UpTo
  <1>3. \A n \in Nat : UpTo(n)
    <2> DEFINE A == {n \in Nat : ~UpTo(n)}
    <2>1. ASSUME A # {} PROVE FALSE
      <3>1. PICK m \in A : \A x \in A : m <= x
        BY <2>1, SmallestOf
      <3>2. m # 0 /\ m \in Nat
        BY <1>1
      <3>3. m - 1 \in Nat /\ ~(m <= m - 1)
        BY <3>2
      <3>4. UpTo(m - 1)
        BY <3>1, <3>3
      <3>5. m - 1 + 1 = m
        BY <3>2
      <3> QED BY <1>2, <3>3, <3>4, <3>5
    <2> QED BY <2>1
  <1>4. PICK g : /\ g = [s \in SUBSET S |-> g[s]]
                 /\ \A s \in SUBSET S : Cardinality(s) <= Cardinality(S) => g[s] = Summed(f, g, s)
    BY <1>0, <1>3 DEF UpTo
  <1>5. \A s \in SUBSET S : Cardinality(s) <= Cardinality(S)
    BY FS_Subset
  <1> QED
    <2>1. g = [s \in SUBSET S |-> g[s]]
      BY <1>4, Zenon
    <2>2. \A s \in SUBSET S : g[s] = Summed(f, g, s)
      BY <1>4, <1>5, Zenon
    <2>3. [s \in SUBSET S |-> g[s]] = [s \in SUBSET S |-> Summed(f, g, s)]
      BY <2>2, Zenon
    <2> QED BY <2>1, <2>3

LEMMA IterUnfolds ==
    ASSUME NEW f, NEW S, IsFiniteSet(S)
    PROVE  \A s \in SUBSET S : Iter(f, S)[s] = Summed(f, Iter(f, S), s)
  <1>1. Iter(f, S) = [s \in SUBSET S |-> Summed(f, Iter(f, S), s)]
    BY SumExists, Zenon DEF Iter
  <1> QED BY <1>1, Zenon

\* A subset is summed the same way inside a larger set as alone.
LEMMA SumInside ==
    ASSUME NEW f, NEW S, IsFiniteSet(S)
    PROVE  \A s \in SUBSET S : Iter(f, S)[s] = Iter(f, s)[s]
  <1> DEFINE T == {s \in SUBSET S : \E R \in SUBSET S : s \subseteq R /\ Iter(f, S)[s] # Iter(f, R)[s]}
  <1>0. T \subseteq SUBSET S
    OBVIOUS
  <1> HIDE DEF T
  <1>1. ASSUME T # {} PROVE FALSE
    <2>1. PICK s \in T : \A y \in T : ~(Cardinality(y) < Cardinality(s))
      BY <1>0, <1>1, SmallestSubset
    <2>2. PICK R \in SUBSET S : s \subseteq R /\ Iter(f, S)[s] # Iter(f, R)[s]
      BY <2>1 DEF T
    <2>3. /\ s \in SUBSET S /\ s \in SUBSET R /\ IsFiniteSet(R)
          /\ Iter(f, S)[s] = Summed(f, Iter(f, S), s)
          /\ Iter(f, R)[s] = Summed(f, Iter(f, R), s)
      BY <1>0, <2>2, IterUnfolds, FS_Subset
    <2>4. s # {}
      BY <2>2, <2>3 DEF Summed
    <2> DEFINE r == s \ {First(s)}
    <2>5. /\ r \in SUBSET S /\ r \subseteq R /\ Cardinality(r) = Cardinality(s) - 1
          /\ Cardinality(s) \in Nat \ {0}
      BY <2>3, <2>4, WithoutFirst
    <2>6. r \notin T
      BY <2>1, <2>5
    <2>7. Iter(f, S)[r] = Iter(f, R)[r]
      BY <2>2, <2>5, <2>6 DEF T
    <2> QED BY <2>2, <2>3, <2>4, <2>7 DEF Summed
  <1>2. \A s \in SUBSET S : s \notin T
    BY <1>1
  <1> QED BY <1>2 DEF T

\* The sum over nothing, and over something.
LEMMA SumEmpty ==
    ASSUME NEW f
    PROVE  Sum(f, {}) = 0
  BY IterUnfolds, SumIsIter, FS_EmptySet DEF Summed

LEMMA SumFirst ==
    ASSUME NEW f, NEW S, IsFiniteSet(S), S # {}
    PROVE  Sum(f, S) = f[First(S)] + Sum(f, S \ {First(S)})
  <1>1. Iter(f, S)[S] = f[First(S)] + Iter(f, S)[S \ {First(S)}]
    BY IterUnfolds DEF Summed
  <1>2. Iter(f, S)[S \ {First(S)}] = Iter(f, S \ {First(S)})[S \ {First(S)}]
    BY SumInside
  <1> QED BY <1>1, <1>2, SumIsIter

\* A sum of integers is an integer.
LEMMA SumInt ==
    ASSUME NEW f, NEW S, IsFiniteSet(S), \A x \in S : f[x] \in Int
    PROVE  Sum(f, S) \in Int
  <1> DEFINE T == {s \in SUBSET S : Sum(f, s) \notin Int}
  <1>1. ASSUME T # {} PROVE FALSE
    <2>1. PICK s \in T : \A y \in T : ~(Cardinality(y) < Cardinality(s))
      BY <1>1, SmallestSubset
    <2>2. s # {}
      BY <2>1, SumEmpty
    <2>3. /\ s \ {First(s)} \in SUBSET S /\ First(s) \in S /\ IsFiniteSet(s)
          /\ Cardinality(s \ {First(s)}) < Cardinality(s)
      BY <2>1, <2>2, FirstIn, WithoutFirst, FS_Subset
    <2>4. Sum(f, s \ {First(s)}) \in Int
      BY <2>1, <2>3
    <2> QED BY <2>1, <2>2, <2>3, <2>4, SumFirst
  <1> QED BY <1>1

\* The order does not matter.
LEMMA SumWithout ==
    ASSUME NEW f, NEW S, IsFiniteSet(S), \A x \in S : f[x] \in Int, NEW y \in S
    PROVE  Sum(f, S) = f[y] + Sum(f, S \ {y})
  <1> DEFINE T == {s \in SUBSET S : \E x \in s : Sum(f, s) # f[x] + Sum(f, s \ {x})}
  <1>1. ASSUME T # {} PROVE FALSE
    <2>1. PICK s \in T : \A z \in T : ~(Cardinality(z) < Cardinality(s))
      BY <1>1, SmallestSubset
    <2>2. PICK x \in s : Sum(f, s) # f[x] + Sum(f, s \ {x})
      BY <2>1
    <2> DEFINE z == First(s)
    <2>3. z \in s /\ IsFiniteSet(s) /\ s \in SUBSET S /\ s # {}
      BY <2>1, <2>2, FirstIn, FS_Subset
    <2> HIDE DEF z, T
    <2>4. Sum(f, s) = f[z] + Sum(f, s \ {z}) /\ x # z
      BY <2>2, <2>3, SumFirst DEF z
    <2>5. /\ Cardinality(s \ {z}) < Cardinality(s) /\ Cardinality(s \ {x}) < Cardinality(s)
          /\ s \ {z} \in SUBSET S /\ s \ {x} \in SUBSET S
          /\ x \in s \ {z} /\ z \in s \ {x}
      <3>1. /\ Cardinality(s \ {z}) = Cardinality(s) - 1 /\ Cardinality(s) \in Nat
            /\ Cardinality(s \ {x}) = Cardinality(s) - 1
        BY <2>2, <2>3, FS_RemoveElement, FS_CardinalityType
      <3> QED BY <2>2, <2>3, <2>4, <3>1
    <2>6. s \ {z} \notin T /\ s \ {x} \notin T
      BY <2>1, <2>5
    <2>7. /\ Sum(f, s \ {z}) = f[x] + Sum(f, (s \ {z}) \ {x})
          /\ Sum(f, s \ {x}) = f[z] + Sum(f, (s \ {x}) \ {z})
      BY <2>5, <2>6, Zenon DEF T
    <2>8. (s \ {z}) \ {x} = (s \ {x}) \ {z}
      OBVIOUS
    <2>9. /\ f[x] \in Int /\ f[z] \in Int
          /\ Sum(f, (s \ {x}) \ {z}) \in Int
      <3>1. IsFiniteSet((s \ {x}) \ {z}) /\ (s \ {x}) \ {z} \subseteq S
        BY <2>3, FS_Subset
      <3> QED BY <2>2, <2>3, <3>1, SumInt
    <2>10. /\ Sum(f, s) = f[z] + (f[x] + Sum(f, (s \ {x}) \ {z}))
           /\ f[x] + Sum(f, s \ {x}) = f[x] + (f[z] + Sum(f, (s \ {x}) \ {z}))
      BY <2>4, <2>7, <2>8
    <2> QED BY <2>2, <2>9, <2>10
  <1>2. S \notin T
    BY <1>1
  <1> QED BY <1>2

\* What is summed of two functions of the same set.
LEMMA SumOfBoth ==
    ASSUME NEW f, NEW g, NEW h, NEW S, IsFiniteSet(S),
           \A x \in S : f[x] \in Int /\ g[x] \in Int /\ h[x] = f[x] + g[x]
    PROVE  Sum(h, S) = Sum(f, S) + Sum(g, S)
  <1> DEFINE T == {s \in SUBSET S : Sum(h, s) # Sum(f, s) + Sum(g, s)}
  <1>1. ASSUME T # {} PROVE FALSE
    <2>1. PICK s \in T : \A z \in T : ~(Cardinality(z) < Cardinality(s))
      BY <1>1, SmallestSubset
    <2>2. s # {}
      <3>1. Sum(h, {}) = 0 /\ Sum(f, {}) = 0 /\ Sum(g, {}) = 0
        BY SumEmpty
      <3> QED BY <2>1, <3>1
    <2> DEFINE r == s \ {First(s)}
               x == First(s)
    <2>3. /\ r \in SUBSET S /\ x \in S /\ IsFiniteSet(s) /\ IsFiniteSet(r)
          /\ Cardinality(r) < Cardinality(s)
      BY <2>1, <2>2, FirstIn, WithoutFirst, FS_Subset
    <2>4. Sum(h, r) = Sum(f, r) + Sum(g, r) /\ Sum(f, r) \in Int /\ Sum(g, r) \in Int
      BY <2>1, <2>3, SumInt
    <2>5. /\ Sum(h, s) = h[x] + Sum(h, r) /\ Sum(f, s) = f[x] + Sum(f, r)
          /\ Sum(g, s) = g[x] + Sum(g, r)
      BY <2>2, <2>3, SumFirst
    <2>6. Sum(h, s) # Sum(f, s) + Sum(g, s)
      BY <2>1
    <2> HIDE DEF r, x
    <2>7. f[x] \in Int /\ g[x] \in Int /\ h[x] = f[x] + g[x]
      BY <2>3
    <2> QED BY <2>4, <2>5, <2>6, <2>7
  <1> QED BY <1>1

\* Outside of the larger of two sets nothing is added.
LEMMA SumZeroOutside ==
    ASSUME NEW f, NEW g, NEW S, IsFiniteSet(S), NEW R, R \subseteq S,
           \A x \in S : f[x] \in Int,
           \A x \in R : f[x] = g[x], \A x \in S \ R : f[x] = 0
    PROVE  Sum(f, S) = Sum(g, R)
  <1> DEFINE T == {s \in SUBSET S : Sum(f, s) # Sum(g, s \cap R)}
  <1>1. ASSUME T # {} PROVE FALSE
    <2>1. PICK s \in T : \A z \in T : ~(Cardinality(z) < Cardinality(s))
      BY <1>1, SmallestSubset
    <2>2. s # {}
      BY <2>1, SumEmpty
    <2> DEFINE r == s \ {First(s)}
               x == First(s)
    <2>3. /\ r \in SUBSET S /\ x \in s /\ x \in S /\ IsFiniteSet(s) /\ IsFiniteSet(r)
          /\ Cardinality(r) < Cardinality(s)
      BY <2>1, <2>2, FirstIn, WithoutFirst, FS_Subset
    <2>4. Sum(f, r) = Sum(g, r \cap R) /\ Sum(f, r) \in Int
      BY <2>1, <2>3, SumInt
    <2>5. Sum(f, s) = f[x] + Sum(f, r)
      BY <2>2, <2>3, SumFirst
    <2>6. Sum(f, s) # Sum(g, s \cap R)
      BY <2>1
    <2>7. r = s \ {x}
      OBVIOUS
    <2> HIDE DEF r, x
    <2>8. CASE x \in R
      <3>1. x \in s \cap R /\ (s \cap R) \ {x} = r \cap R /\ IsFiniteSet(s \cap R)
        BY <2>3, <2>7, <2>8, FS_Subset
      <3>2. \A z \in s \cap R : g[z] \in Int
        BY <2>3
      <3>3. Sum(g, s \cap R) = g[x] + Sum(g, r \cap R)
        BY <3>1, <3>2, SumWithout
      <3> QED BY <2>4, <2>5, <2>6, <2>8, <3>3
    <2>9. CASE x \notin R
      <3>1. s \cap R = r \cap R
        BY <2>7, <2>9
      <3>2. f[x] = 0
        BY <2>3, <2>9
      <3>3. Sum(f, s) = Sum(f, r)
        BY <2>4, <2>5, <3>2
      <3> QED BY <2>4, <2>6, <3>1, <3>3
    <2> QED BY <2>8, <2>9
  <1>2. S \notin T /\ S \cap R = R
    BY <1>1
  <1> QED BY <1>2
-----------------------------------------------------------------------------
(* BacktestWalk: where a run stands *)

Rows == [day : Nat \ {0}, spot : Nat \ {0}, vix : Nat]
Positions == [opened : Nat, due : Nat, short : Int, credit : Int, lots : Nat, base : Int]

\* The window of a run lies in the path, and its next row in the window.
InWindow ==
    /\ path \in Paths /\ params \in ParamSets /\ forward \in BOOLEAN /\ ended \in BOOLEAN
    /\ first \in Nat \ {0} /\ from \in Nat \ {0} /\ last \in Nat /\ row \in Nat \ {0}
    /\ last <= Len(path) /\ row <= last + 1 /\ first <= from
    /\ forward => last = from + TestDays - 1
    /\ ~forward => from = 1
    /\ balance \in Int

\* A trade of this size stays in the share of the equity that it was sized on.
Share == IF params.allocation = Disabled THEN RiskPct ELSE params.allocation
SizedOn(credit, lots, base) ==
    100 * ((HedgeWidth - credit) * (LotSize * lots)) <= Least(base, MaxCapital) * Share

\* A position was opened on an earlier row, at a strike of the grid, and sized on what
\* the equity was then.
Opened(p) ==
    /\ p \in Positions
    /\ p.short \in Strikes(path)
    /\ p.due = p.opened + DteEntry
    /\ \E i \in DOMAIN path : i < row /\ path[i].day = p.opened
    /\ SizedOn(p.credit, p.lots, p.base)

LEMMA PathRows ==
    ASSUME path \in Paths
    PROVE  /\ Len(path) \in Nat /\ DOMAIN path = 1..Len(path)
           /\ \A i \in DOMAIN path : path[i] \in Rows
           /\ \A i, j \in DOMAIN path : i < j => path[i].day < path[j].day
  <1>1. path \in Seq(Rows) /\ \A i, j \in DOMAIN path : i < j => path[i].day < path[j].day
    BY PathAssumption DEF Rows
  <1> QED BY <1>1

LEMMA TodayInPath ==
    ASSUME InWindow, InRun
    PROVE  /\ row \in DOMAIN path /\ Today \in Rows
           /\ \A i \in DOMAIN path : i < row => path[i].day < Today.day
  <1>1. row \in 1..Len(path)
    BY PathRows DEF InWindow, InRun
  <1> QED BY <1>1, PathRows DEF InWindow, Today

\* What closing a position costs on a row is an integer.
LEMMA CostTyped ==
    ASSUME InWindow, InRun, NEW p, Opened(p)
    PROVE  CostToClose(p, Today) \in Int
  <1>1. row \in DOMAIN path /\ Today.day \in Nat /\ p.opened \in Nat /\ p.due = p.opened + DteEntry
        /\ p.short \in Strikes(path)
    BY TodayInPath DEF Opened, Positions, Rows
  <1>2. p.opened < Today.day
    BY TodayInPath DEF Opened
  <1> DEFINE dte == Greatest(p.due - Today.day, 0)
  <1>3. dte \in 0..DteEntry
    <2>1. \A o, t, w \in Nat : o < t => Greatest(o + w - t, 0) \in 0..w
      BY DEF Greatest
    <2>2. dte = Greatest(p.opened + DteEntry - Today.day, 0) /\ DteEntry \in Nat
      BY <1>1, CeilingAssumption
    <2> HIDE DEF dte
    <2> QED BY <1>1, <1>2, <2>1, <2>2, Zenon
  <1> HIDE DEF dte
  <1>4. /\ PutPrice(Today.spot, p.short, dte, Today.vix) \in Int
        /\ PutPrice(Today.spot, p.short - HedgeWidth, dte, Today.vix) \in Int
    BY <1>1, <1>3, PricingAssumption DEF Today, InWindow
  <1> QED BY <1>4 DEF CostToClose, SpreadPrice, dte

LEMMA FrictionTyped ==
    ASSUME NEW credit \in Int, NEW lots \in Nat, NEW cost \in Int, NEW reason,
           NEW p, p.credit = credit, p.lots = lots
    PROVE  Friction(p, cost, reason) \in Int
  <1> DEFINE qty == LotSize * lots
             out == IF cost >= 0 THEN cost ELSE 0 - cost
             sold == SellPermille * (credit + out) * qty + BuyPermille * out * qty
             side == IF reason = "Expiry" /\ cost <= 0 THEN 1 ELSE 2
  <1>1. qty \in Nat /\ out \in Int
    BY CeilingAssumption
  <1>2. sold \in Int
    BY <1>1, FrictionAssumption
  <1>3. sold \div 1000 \in Int
    <2> HIDE DEF sold
    <2> QED BY <1>2
  <1>4. RoundTripFees(credit, cost, qty) = Brokerage + sold \div 1000
    BY DEF RoundTripFees
  <1>5. RoundTripFees(credit, cost, qty) \in Int
    BY <1>3, <1>4, FrictionAssumption
  <1>6. Slippage * LotSize * lots * side \in Int
    BY CeilingAssumption, FrictionAssumption
  <1> QED BY <1>5, <1>6 DEF Friction

\* The result of a trade stays in its share: the loss is clamped before friction.
LEMMA ResultSizedOn ==
    ASSUME InWindow, NEW p \in Positions, NEW cost \in Int, NEW reason,
           SizedOn(p.credit, p.lots, p.base)
    PROVE  /\ Result(p, cost, reason) \in Int
           /\ 100 * ((0 - Result(p, cost, reason)) - Friction(p, cost, reason))
                <= Least(p.base, MaxCapital) * Share
  <1> DEFINE f == Friction(p, cost, reason)
             qty == LotSize * p.lots
             c == p.credit
             worst == (HedgeWidth - c) * qty
             limit == Least(p.base, MaxCapital) * Share
  <1>1. c \in Int /\ p.lots \in Nat /\ p.base \in Int /\ HedgeWidth \in Int
        /\ LotSize \in Int
    BY CeilingAssumption DEF Positions
  <1>2. f \in Int /\ qty \in Int
    BY <1>1, FrictionTyped
  <1>3. /\ (c - cost) * LotSize * p.lots = (c - cost) * qty
        /\ (c - HedgeWidth) * LotSize * p.lots = 0 - worst
        /\ (c - cost) * qty \in Int /\ worst \in Int
    BY <1>1
  <1>4. Result(p, cost, reason) = Greatest((c - cost) * qty, 0 - worst) - f
    BY <1>3 DEF Result
  <1>5. 100 * worst <= limit
    BY DEF SizedOn
  <1>6. Result(p, cost, reason) \in Int /\ (0 - Result(p, cost, reason)) - f <= worst
    <2> DEFINE x == (c - cost) * qty
    <2>1. x \in Int /\ worst \in Int /\ f \in Int
      BY <1>2, <1>3
    <2> HIDE DEF x, worst, f
    <2> QED BY <1>4, <2>1 DEF Greatest, x
  <1>7. limit \in Int
    <2>1. Least(p.base, MaxCapital) \in Int
      BY <1>1, CeilingAssumption DEF Least
    <2>2. Share \in Int
      BY RiskAssumption, BacktestParamsAssumption DEF InWindow, PCSParams, Share, Disabled
    <2> QED BY <2>1, <2>2
  <1> HIDE DEF worst, f, limit
  <1>8. worst \in Int /\ f \in Int
    BY <1>2, <1>3 DEF worst
  <1>9. 100 * ((0 - Result(p, cost, reason)) - f) <= 100 * worst
    BY <1>6, <1>8
  <1>10. 100 * ((0 - Result(p, cost, reason)) - f) <= limit
    BY <1>5, <1>6, <1>7, <1>8, <1>9
  <1> QED BY <1>6, <1>10 DEF f, limit

\* Sizing: a compounding run by its allocation, any other by both budgets.
LEMMA LotsSized ==
    ASSUME InWindow, NEW credit \in Int, credit > 0, Lots(credit) > 0
    PROVE  Lots(credit) \in Nat /\ SizedOn(credit, Lots(credit), balance)
  <1> DEFINE base == Least(balance, MaxCapital)
             n == Lots(credit)
  <1>1. /\ base \in Int /\ HedgeWidth \in Nat \ {0} /\ LotSize \in Nat \ {0}
        /\ params.allocation \in Nat \cup {Disabled}
    BY CeilingAssumption, BacktestParamsAssumption DEF InWindow, PCSParams, Least
  <1> HIDE DEF base
  <1>2. CASE params.allocation # Disabled
    <2> DEFINE a == params.allocation
               w == 100 * HedgeWidth * LotSize
    <2>1. a \in Nat /\ w \in Nat \ {0} /\ n = (base * a) \div w /\ Share = a
      BY <1>1, <1>2 DEF Lots, base, Share
    <2>2. n \in Nat /\ n * w <= base * a
      <3>1. base * a \in Int
        BY <1>1, <2>1
      <3> HIDE DEF w, a
      <3>2. (base * a) \div w \in Int
        BY <2>1, <3>1
      <3>3. n \in Int
        BY <2>1, <3>2
      <3> HIDE DEF n
      <3>4. n > 0
        BY DEF n
      <3> QED BY <2>1, <3>1, <3>3, <3>4, FloorBelow
    <2> HIDE DEF n, a
    <2>3. 100 * ((HedgeWidth - credit) * (LotSize * n)) <= n * w
      <3> DEFINE q == LotSize * n
      <3>1. q \in Nat /\ n * w = 100 * (HedgeWidth * q)
        BY <1>1, <2>2
      <3> HIDE DEF q, w
      <3>2. credit * q >= 0 /\ (HedgeWidth - credit) * q = HedgeWidth * q - credit * q
            /\ HedgeWidth * q \in Int /\ credit * q \in Int
        BY <1>1, <3>1
      <3> QED BY <3>1, <3>2 DEF q
    <2>4. 100 * ((HedgeWidth - credit) * (LotSize * n)) <= base * a
      <3>1. /\ 100 * ((HedgeWidth - credit) * (LotSize * n)) \in Int /\ n * w \in Int
            /\ base * a \in Int
        BY <1>1, <2>1, <2>2
      <3> QED BY <2>2, <2>3, <3>1
    <2> QED BY <2>1, <2>2, <2>4 DEF SizedOn, base, n
  <1>3. CASE params.allocation = Disabled
    <2>1. n = RiskLots(HedgeWidth, credit, LotSize, base, 0) /\ Share = RiskPct
      BY <1>3 DEF Lots, base, Share
    <2>a. HedgeWidth \in Int /\ LotSize \in Nat /\ 0 \in Nat
      BY <1>1
    <2>b. RiskLots(HedgeWidth, credit, LotSize, base, 0) \in Nat
      BY <1>1, <2>a, RiskLotsNatural
    <2>2. n \in Nat
      BY <2>1, <2>b
    <2>3. 100 * ((HedgeWidth - credit) * LotSize * n) <= base * RiskPct
      <3>1. n # 0
        BY <2>2
      <3>2. RiskLots(HedgeWidth, credit, LotSize, base, 0) # 0
        BY <2>1, <3>1
      <3>3. 100 * ((HedgeWidth - credit) * LotSize * RiskLots(HedgeWidth, credit, LotSize, base, 0))
                <= base * RiskPct
        BY <1>1, <2>a, <3>2, RiskLotsFits
      <3> QED BY <2>1, <3>3
    <2>4. (HedgeWidth - credit) * LotSize * n = (HedgeWidth - credit) * (LotSize * n)
      BY <1>1, <2>2
    <2> QED BY <2>1, <2>2, <2>3, <2>4 DEF SizedOn, base
  <1> QED BY <1>2, <1>3

\* What an entry makes.
LEMMA EntryOpens ==
    ASSUME InWindow, EnterPcs
    PROVE  position' # NoSpread /\ Opened(position)' /\ position'.opened = Today.day
  <1>1. PICK k \in SelectStrikes(Today) :
            LET credit == SpreadPrice(Today, k, DteEntry)
            IN /\ Lots(credit) > 0
               /\ position' = [opened |-> Today.day, due |-> Today.day + DteEntry, short |-> k,
                               credit |-> credit, lots |-> Lots(credit), base |-> balance]
    BY DEF EnterPcs
  <1> DEFINE c == SpreadPrice(Today, k, DteEntry)
  <1>2. /\ InRun /\ row' = row + 1 /\ UNCHANGED <<path, params>>
        /\ row \in DOMAIN path /\ Today \in Rows /\ DteEntry \in Nat
    BY TodayInPath, CeilingAssumption DEF EnterPcs, btInput
  <1>3. k \in Strikes(path) /\ c > 0
    BY <1>2 DEF SelectStrikes, Priced, Strikes, Today
  <1>4. k \in Int
    BY <1>3 DEF Strikes, Grid
  <1>5. c \in Int
    <2>1. DteEntry \in 0..DteEntry
      BY <1>2
    <2> QED BY <1>2, <1>3, <2>1, PricingAssumption DEF SpreadPrice, Today, InWindow
  <1> HIDE DEF c
  <1>6. Lots(c) \in Nat /\ SizedOn(c, Lots(c), balance)
    BY <1>1, <1>3, <1>5, LotsSized DEF c
  <1>7. position' = [opened |-> Today.day, due |-> Today.day + DteEntry, short |-> k,
                     credit |-> c, lots |-> Lots(c), base |-> balance]
    BY <1>1 DEF c
  <1>8. position' \in Positions
    <2>1. Today.day \in Nat /\ Today.day + DteEntry \in Nat /\ balance \in Int
      BY <1>2 DEF Rows, InWindow
    <2> QED BY <1>4, <1>5, <1>6, <1>7, <2>1 DEF Positions
  <1>9. \E i \in DOMAIN path : i < row + 1 /\ path[i].day = Today.day
    BY <1>2 DEF Today, InWindow
  <1>10. SizedOn(position.credit, position.lots, position.base)'
    BY <1>2, <1>6, <1>7 DEF SizedOn, Share
  <1>11. Opened(position)'
    BY <1>2, <1>3, <1>7, <1>8, <1>9, <1>10 DEF Opened
  <1> QED BY <1>7, <1>8, <1>11, SpreadAssumption DEF Positions

HeldSized == position # NoSpread => Opened(position)

Bounded(t) == 100 * ((0 - t.pnl) - t.friction) <= Least(t.base, MaxCapital) * Share

LossInv == InWindow /\ HeldSized /\ BacktestLossBounded

LEMMA BoundedBook == BacktestLossBounded <=> \A t \in trades \cup counted : Bounded(t)
  BY DEF BacktestLossBounded, Bounded, Share

LEMMA LossStart == BacktestInit => LossInv
  <1> SUFFICES ASSUME BacktestInit PROVE LossInv
    OBVIOUS
  <1>1. Len(path) \in Nat
    BY PathRows DEF BacktestInit
  <1>2. InWindow
    <2>1. /\ TrainDays \in Nat \ {0} /\ TestDays \in Nat \ {0} /\ InitialCapital \in Int
          /\ first = 1 /\ row = 1 /\ balance = InitialCapital
          /\ path \in Paths /\ params \in ParamSets
          /\ from = IF forward THEN TrainDays + 1 ELSE 1
          /\ last = IF forward THEN TrainDays + TestDays ELSE Len(path)
      BY CeilingAssumption DEF BacktestInit
    <2>1a. forward \in BOOLEAN /\ (forward => TrainDays + TestDays <= Len(path)) /\ ended \in BOOLEAN
      BY Zenon DEF BacktestInit
    <2>2. CASE forward
      BY <1>1, <2>1, <2>1a, <2>2 DEF InWindow
    <2>3. CASE ~forward
      BY <1>1, <2>1, <2>1a, <2>3 DEF InWindow
    <2> QED BY <2>2, <2>3
  <1> QED BY <1>2 DEF BacktestInit, LossInv, HeldSized, BacktestLossBounded

\* The trade that an exit books.
LEMMA ExitBooks ==
    ASSUME LossInv, Exit
    PROVE  \E pnl, paid :
            /\ pnl \in Int
            /\ balance' = balance + pnl
            /\ LET t == [opened |-> position.opened, closed |-> Today.day, pnl |-> pnl,
                         fold |-> from, base |-> position.base, friction |-> paid]
               IN  /\ Bounded(t)
                   /\ trades' = IF Counts(position) THEN trades \cup {t} ELSE trades
  <1> DEFINE cost == CostToClose(position, Today)
             reason == Reason(position, Today, cost)
             pnl == Result(position, cost, reason)
             paid == Friction(position, cost, reason)
             t == [opened |-> position.opened, closed |-> Today.day, pnl |-> pnl,
                   fold |-> from, base |-> position.base, friction |-> paid]
  <1>1. /\ balance' = balance + pnl
        /\ trades' = IF Counts(position) THEN trades \cup {t} ELSE trades
    BY DEF Exit
  <1>2. InRun /\ InWindow /\ Opened(position)
    BY DEF Exit, LossInv, HeldSized
  <1>3. cost \in Int
    BY <1>2, CostTyped
  <1> HIDE DEF cost, reason
  <1>4. /\ pnl \in Int
        /\ 100 * ((0 - pnl) - paid) <= Least(position.base, MaxCapital) * Share
    BY <1>2, <1>3, ResultSizedOn DEF Opened
  <1>5. t.pnl = pnl /\ t.base = position.base /\ t.friction = paid
    OBVIOUS
  <1> HIDE DEF pnl, paid, t
  <1>6. Bounded(t)
    BY <1>4, <1>5 DEF Bounded
  <1> QED BY <1>1, <1>4, <1>6 DEF t

LEMMA LossStep == LossInv /\ [BacktestNext]_btVars => LossInv'
  <1> SUFFICES ASSUME LossInv, [BacktestNext]_btVars PROVE LossInv'
    OBVIOUS
  <1> USE DEF btInput, runVars
  <1>1. InWindow /\ HeldSized /\ \A t \in trades \cup counted : Bounded(t)
    BY BoundedBook DEF LossInv
  <1>2. ASSUME InWindow', HeldSized', UNCHANGED params,
               \A t \in trades' \cup counted' : Bounded(t)
        PROVE  LossInv'
    BY <1>2 DEF LossInv, BacktestLossBounded, Bounded, Share
  <1>3. ASSUME InRun, row' = row + 1, UNCHANGED <<btInput, runVars, ended>>, balance' \in Int
        PROVE  InWindow'
    BY <1>1, <1>3 DEF InWindow, InRun
  <1>4. CASE Skip
    BY <1>1, <1>2, <1>3, <1>4 DEF Skip, HeldSized, InWindow
  <1>5. CASE EnterPcs
    <2>1. HeldSized'
      BY <1>1, <1>5, EntryOpens DEF HeldSized
    <2> QED BY <1>1, <1>2, <1>3, <1>5, <2>1 DEF EnterPcs, InWindow
  <1>6. CASE Hold
    <2>1. HeldSized'
      <3>1. Opened(position) => Opened(position)'
        <4>1. /\ UNCHANGED <<path, params, position>> /\ row' = row + 1 /\ row \in Nat
              /\ DOMAIN path \subseteq Nat
          <5>1. path \in Paths /\ row \in Nat
            BY <1>1 DEF InWindow
          <5>2. DOMAIN path \subseteq Nat
            BY <5>1, PathRows
          <5> QED BY <1>6, <5>1, <5>2 DEF Hold
        <4>2. \A i \in DOMAIN path : i < row => i < row'
          BY <4>1
        <4> QED BY <4>1, <4>2 DEF Opened, SizedOn, Share
      <3> QED BY <1>1, <1>6, <3>1 DEF Hold, HeldSized
    <2> QED BY <1>1, <1>2, <1>3, <1>6, <2>1 DEF Hold, InWindow
  <1>7. CASE Exit
    <2>1. PICK pnl, paid :
            /\ pnl \in Int
            /\ balance' = balance + pnl
            /\ LET t == [opened |-> position.opened, closed |-> Today.day, pnl |-> pnl,
                         fold |-> from, base |-> position.base, friction |-> paid]
               IN  /\ Bounded(t)
                   /\ trades' = IF Counts(position) THEN trades \cup {t} ELSE trades
      BY <1>7, ExitBooks
    <2>2. balance' \in Int
      BY <1>1, <2>1 DEF InWindow
    <2>3. \A t \in trades' \cup counted' : Bounded(t)
      BY <1>1, <1>7, <2>1 DEF Exit
    <2>4. HeldSized'
      BY <1>7 DEF Exit, HeldSized
    <2>5. InWindow'
      BY <1>3, <1>7, <2>2 DEF Exit
    <2> QED BY <1>2, <1>7, <2>3, <2>4, <2>5 DEF Exit
  <1>8. CASE EndRun
    <2>1. InWindow' /\ HeldSized' /\ UNCHANGED params
      BY <1>1, <1>8 DEF EndRun, InWindow, HeldSized, Opened, SizedOn, Share
    <2>2. \A t \in trades' \cup counted' : Bounded(t)
      BY <1>1, <1>8 DEF EndRun
    <2> QED BY <1>2, <2>1, <2>2
  <1>9. CASE NextFold
    <2>1. InWindow'
      <3>1. /\ forward /\ last + TestDays <= Len(path) /\ last = from + TestDays - 1
            /\ first \in Nat \ {0} /\ from \in Nat \ {0} /\ last \in Nat /\ first <= from
            /\ TestDays \in Nat \ {0} /\ InitialCapital \in Nat /\ Len(path) \in Nat
        BY <1>1, <1>9, CeilingAssumption, PathRows DEF NextFold, InWindow
      <3>2. /\ first' = first + TestDays /\ from' = from + TestDays /\ last' = last + TestDays
            /\ row' = first + TestDays /\ balance' = InitialCapital
            /\ UNCHANGED <<path, params, forward, ended>>
        BY <1>9 DEF NextFold
      <3>3. /\ first' \in Nat \ {0} /\ from' \in Nat \ {0} /\ last' \in Nat /\ row' \in Nat \ {0}
            /\ last' <= Len(path) /\ row' <= last' + 1 /\ first' <= from'
            /\ last' = from' + TestDays - 1 /\ balance' \in Int
        BY <3>1, <3>2
      <3> QED BY <1>1, <3>1, <3>2, <3>3 DEF InWindow
    <2>2. HeldSized' /\ UNCHANGED params
      BY <1>9 DEF NextFold, HeldSized
    <2>3. \A t \in trades' \cup counted' : Bounded(t)
      BY <1>1, <1>9 DEF NextFold
    <2> QED BY <1>2, <2>1, <2>2, <2>3
  <1>10. CASE UNCHANGED btVars
    <2>1. InWindow' /\ HeldSized' /\ UNCHANGED <<params, trades, counted>>
      BY <1>1, <1>10 DEF btVars, InWindow, HeldSized, Opened, SizedOn, Share
    <2> QED BY <1>1, <1>2, <2>1
  <1> QED BY <1>4, <1>5, <1>6, <1>7, <1>8, <1>9, <1>10 DEF BacktestNext

LEMMA AlwaysLossInv == BacktestSpec => []LossInv
  BY LossStart, LossStep, PTL DEF BacktestSpec

\* No trade of the put-spread back-test loses more than the share of the clamped equity
\* it was sized on, plus the slippage and fees of its orders: on every path, with every
\* price, in a plain run and in every window (backtest.py:341-344, backtest.py:384-388).
THEOREM BacktestLossAlwaysBounded == BacktestSpec => []BacktestLossBounded
  <1>1. LossInv => BacktestLossBounded
    BY DEF LossInv
  <1> QED BY <1>1, AlwaysLossInv, PTL

-----------------------------------------------------------------------------
(* BacktestWalk: the windows form one book *)

\* Before the end, what this run counts was opened in its test rows and closed on an
\* earlier row, before what is open was opened; what earlier windows counted was closed
\* before the test rows.
BookInv ==
    /\ FoldsKeepOneBook
    /\ ~ended =>
        /\ \A t \in trades :
            /\ t.opened \in Nat /\ path[from].day <= t.opened
            /\ from \in DOMAIN path /\ \E i \in DOMAIN path : i < row /\ i <= last /\ t.closed = path[i].day
            /\ position # NoSpread => t.closed < position.opened
        /\ \A t \in counted :
            t.closed \in Nat /\ from \in DOMAIN path /\ t.closed < path[from].day

Apart(t, u) == t = u \/ t.closed < u.opened \/ u.closed < t.opened

LEMMA BookStep ==
    ASSUME LossInv, BookInv, [BacktestNext]_btVars
    PROVE  BookInv'
  <1> USE DEF btInput, runVars
  <1>1. InWindow /\ HeldSized /\ \A t, u \in trades \cup counted : Apart(t, u)
    BY DEF LossInv, BookInv, FoldsKeepOneBook, Apart
  <1>2. ASSUME \A t, u \in trades' \cup counted' : Apart(t, u)
        PROVE  FoldsKeepOneBook'
    BY <1>2 DEF FoldsKeepOneBook, Apart
  <1>3. row \in Nat /\ DOMAIN path \subseteq Nat /\ \A i \in DOMAIN path : i < row => i < row + 1
    BY <1>1, PathRows DEF InWindow
  <1>4. CASE Skip \/ Hold
    <2>1. /\ row' = row + 1
          /\ UNCHANGED <<path, from, last, position, trades, counted, ended>>
      BY <1>4 DEF Skip, Hold
    <2> QED BY <1>1, <1>2, <1>3, <2>1 DEF BookInv
  <1>5. CASE EnterPcs
    <2>1. /\ row' = row + 1 /\ InRun /\ position = NoSpread
          /\ UNCHANGED <<path, from, last, trades, counted, ended>>
      BY <1>5 DEF EnterPcs
    <2>2. position'.opened = Today.day
      BY <1>1, <1>5, EntryOpens
    <2>3. \A i \in DOMAIN path : i < row => path[i].day < Today.day
      BY <1>1, <2>1, TodayInPath
    <2> QED BY <1>1, <1>2, <1>3, <2>1, <2>2, <2>3 DEF BookInv
  <1>6. CASE Exit
    <2>1. /\ row' = row + 1 /\ InRun /\ position # NoSpread /\ position' = NoSpread
          /\ UNCHANGED <<path, from, last, counted, ended>>
      BY <1>6 DEF Exit
    <2>2. PICK t : /\ trades' = IF Counts(position) THEN trades \cup {t} ELSE trades
                   /\ t.opened = position.opened /\ t.closed = Today.day
      <3>1. PICK pnl, paid :
                LET t == [opened |-> position.opened, closed |-> Today.day, pnl |-> pnl,
                          fold |-> from, base |-> position.base, friction |-> paid]
                IN  trades' = IF Counts(position) THEN trades \cup {t} ELSE trades
        BY <1>6, ExitBooks
      <3> DEFINE t == [opened |-> position.opened, closed |-> Today.day, pnl |-> pnl,
                       fold |-> from, base |-> position.base, friction |-> paid]
      <3>2. t.opened = position.opened /\ t.closed = Today.day
        OBVIOUS
      <3>3. trades' = IF Counts(position) THEN trades \cup {t} ELSE trades
        BY <3>1
      <3> HIDE DEF t
      <3> QED BY <3>2, <3>3
    <2>3. row \in DOMAIN path /\ row < row' /\ row <= last /\ position.opened \in Nat
      BY <1>1, <2>1, TodayInPath DEF InRun, HeldSized, Opened, Positions, InWindow
    <2>4. CASE ~Counts(position)
      BY <1>1, <1>2, <1>3, <2>1, <2>2, <2>4 DEF BookInv
    <2>5. CASE Counts(position)
      <3>1. trades' = trades \cup {t} /\ path[from].day <= position.opened
        BY <2>2, <2>5 DEF Counts
      <3>2. from \in DOMAIN path /\ path[from].day \in Nat
        <4>1. from \in DOMAIN path
          BY <1>1, <2>1, PathRows, CeilingAssumption DEF InWindow, InRun
        <4> QED BY <1>1, <4>1, PathRows DEF InWindow, Rows
      <3>3. \A u \in trades : u.closed < t.opened
        BY <2>1, <2>2 DEF BookInv, InRun
      <3>4. ASSUME NEW u \in counted PROVE u.closed < t.opened
        <4>1. u.closed \in Nat /\ u.closed < path[from].day
          BY <2>1 DEF BookInv, InRun
        <4>2. \A x, y, z \in Nat : x < y /\ y <= z => x < z
          OBVIOUS
        <4> QED BY <2>2, <2>3, <3>1, <3>2, <4>1, <4>2, Zenon
      <3>5. \A x, y \in trades' \cup counted' : Apart(x, y)
        BY <1>1, <2>1, <3>1, <3>3, <3>4 DEF Apart
      <3>6. \A x \in trades' :
              /\ x.opened \in Nat /\ path[from].day <= x.opened
              /\ \E i \in DOMAIN path : i < row' /\ i <= last /\ x.closed = path[i].day
        <4>1. \E i \in DOMAIN path : i < row' /\ i <= last /\ t.closed = path[i].day
          BY <2>2, <2>3 DEF Today
        <4>2. \A x \in trades :
              /\ x.opened \in Nat /\ path[from].day <= x.opened
              /\ \E i \in DOMAIN path : i < row' /\ i <= last /\ x.closed = path[i].day
          BY <1>3, <2>1 DEF BookInv, InRun
        <4> QED BY <2>2, <2>3, <3>1, <4>1, <4>2
      <3>7. \A x \in counted : x.closed \in Nat /\ x.closed < path[from].day
        BY <2>1 DEF BookInv, InRun
      <3> QED BY <1>2, <2>1, <3>2, <3>5, <3>6, <3>7 DEF BookInv
    <2> QED BY <2>4, <2>5
  <1>7. CASE EndRun
    <2>1. ended' /\ trades' \cup counted' = trades \cup counted
      BY <1>7 DEF EndRun
    <2> QED BY <1>1, <1>2, <2>1 DEF BookInv
  <1>8. CASE NextFold
    <2>1. /\ trades' = {} /\ counted' = counted \cup trades /\ ~ended /\ forward
          /\ from' = from + TestDays /\ UNCHANGED path /\ last + TestDays <= Len(path)
      BY <1>8 DEF NextFold
    <2>2. /\ from \in Nat \ {0} /\ last \in Nat /\ TestDays \in Nat \ {0} /\ Len(path) \in Nat
          /\ last = from + TestDays - 1
      BY <1>1, <2>1, PathRows, CeilingAssumption DEF InWindow
    <2>3. from' \in 1..Len(path) /\ from < from' /\ last < from'
      BY <2>1, <2>2
    <2>4. from' \in DOMAIN path /\ path[from'].day \in Nat
      BY <1>1, <2>3, PathRows DEF InWindow, Rows
    <2>5. ASSUME NEW t \in trades PROVE t.closed \in Nat /\ t.closed < path[from'].day
      <3>1. PICK i \in DOMAIN path : i <= last /\ t.closed = path[i].day
        BY <2>1 DEF BookInv
      <3>2. i < from'
        BY <1>3, <2>2, <2>3, <3>1
      <3> QED BY <1>1, <2>4, <3>1, <3>2, PathRows DEF InWindow, Rows
    <2>6. ASSUME NEW t \in counted PROVE t.closed \in Nat /\ t.closed < path[from'].day
      <3>1. t.closed \in Nat /\ t.closed < path[from].day /\ from \in DOMAIN path
        BY <2>1 DEF BookInv
      <3>2. path[from].day < path[from'].day /\ path[from].day \in Nat
        BY <1>1, <2>3, <2>4, <3>1, PathRows DEF InWindow, Rows
      <3>3. \A x, y, z \in Nat : x < y /\ y < z => x < z
        OBVIOUS
      <3> QED BY <2>4, <3>1, <3>2, <3>3, Zenon
    <2> QED BY <1>1, <1>2, <2>1, <2>4, <2>5, <2>6 DEF BookInv
  <1>9. CASE UNCHANGED btVars
    BY <1>1, <1>2, <1>9 DEF BookInv, btVars
  <1> QED BY <1>4, <1>5, <1>6, <1>7, <1>8, <1>9 DEF BacktestNext

\* The trades that walk_forward reports, of whatever windows, form one book: no two of
\* them are ever open on the same day (backtest.py:467-471).
THEOREM FoldsAlwaysOneBook == BacktestSpec => []FoldsKeepOneBook
  <1>1. BacktestInit => BookInv
    BY DEF BacktestInit, BookInv, FoldsKeepOneBook
  <1>2. LossInv /\ BookInv /\ [BacktestNext]_btVars => BookInv'
    BY BookStep
  <1>3. BookInv => FoldsKeepOneBook
    BY DEF BookInv
  <1> QED BY <1>1, <1>2, <1>3, AlwaysLossInv, PTL DEF BacktestSpec

-----------------------------------------------------------------------------
(* BacktestWalk: a plain run is a book of single positions *)

\* The six tests of an exit, the last of which is the expiry.
SixTests(a, b, c, d, e, f) ==
    << <<"Take Profit", a>>, <<"Stop Loss", b>>, <<"Delta Manage", c>>,
       <<"DTE Manage", d>>, <<"Time Stop", e>>, <<"Expiry", f>> >>

LEMMA OneToSix ==
    /\ 6 \in 1..6 /\ 1..6 \subseteq Nat
    /\ \A i \in 1..6 : i = 1 \/ i = 2 \/ i = 3 \/ i = 4 \/ i = 5 \/ i = 6
    /\ \A a, b, c, d, e, f : DOMAIN SixTests(a, b, c, d, e, f) = 1..6
  BY DEF SixTests

\* A position is not held at or beyond its expiry.
LEMMA HeldBeforeExpiry ==
    ASSUME NEW p, NEW r, NEW cost, Reason(p, r, cost) = ""
    PROVE  ~(p.due - r.day <= 0)
  <1> DEFINE tests == ExitTests(p, r, cost)
             hold == {i \in DOMAIN tests : tests[i][2]}
  <1>1. /\ DOMAIN tests = 1..6 /\ tests[6][2] = (p.due - r.day <= 0)
        /\ \A i \in 1..6 : tests[i][1] # ""
        /\ 6 \in 1..6 /\ 1..6 \subseteq Nat
    <2> DEFINE over == p.due - r.day <= 0
    <2>1. \E a, b, c, d, e : tests = SixTests(a, b, c, d, e, over)
      BY ZenonT(60) DEF ExitTests, SixTests
    <2> HIDE DEF over
    <2>2. PICK a, b, c, d, e : tests = SixTests(a, b, c, d, e, over)
      BY <2>1, Zenon
    <2> HIDE DEF tests
    <2>3. /\ DOMAIN tests = 1..6 /\ tests[6][2] = over
          /\ \A i \in 1..6 : tests[i][1] # ""
      <3> DEFINE U == SixTests(a, b, c, d, e, over)
      <3>1. DOMAIN U = 1..6
        BY OneToSix, Zenon
      <3>2. U[6][2] = over
        BY DEF SixTests
      <3>3. U[6][1] = "Expiry"
        BY DEF SixTests
      <3>4. U[1][1] = "Take Profit" /\ U[2][1] = "Stop Loss" /\ U[3][1] = "Delta Manage"
        BY DEF SixTests
      <3>5. U[4][1] = "DTE Manage" /\ U[5][1] = "Time Stop"
        BY DEF SixTests
      <3>6. tests = U
        BY <2>2
      <3> HIDE DEF U
      <3>7. ASSUME NEW i \in 1..6 PROVE U[i][1] # ""
        <4>1. i = 1 \/ i = 2 \/ i = 3 \/ i = 4 \/ i = 5 \/ i = 6
          BY OneToSix, Zenon
        <4> QED BY <3>3, <3>4, <3>5, <4>1
      <3> QED BY <3>1, <3>2, <3>6, <3>7, Zenon
    <2> QED BY <2>3, OneToSix, Zenon DEF over
  <1> HIDE DEF tests
  <1>4. ASSUME p.due - r.day <= 0 PROVE FALSE
    <2>1. 6 \in hold /\ hold \subseteq Nat
      BY <1>1, <1>4, Zenon
    <2>2. PICK m \in hold : \A j \in hold : m <= j
      BY <2>1, SmallestOf
    <2>3. (CHOOSE i \in hold : \A j \in hold : i <= j) \in hold
      BY <2>2
    <2>4. Reason(p, r, cost) = tests[CHOOSE i \in hold : \A j \in hold : i <= j][1]
      BY <2>1 DEF Reason, tests
    <2> QED BY <1>1, <2>3, <2>4
  <1> QED BY <1>4

\* The day a position is closed at the latest is not before its expiry, and not before
\* any row up to which all the rows were.
LEMMA DueNotBefore ==
    ASSUME path \in Paths, NEW e \in Nat
    PROVE  /\ DueDay(e) \in Nat /\ e <= DueDay(e)
           /\ \A r \in DOMAIN path :
                (\A i \in DOMAIN path : i < r => path[i].day < e) => path[r].day <= DueDay(e)
  <1> DEFINE after == {path[i].day : i \in {j \in DOMAIN path : path[j].day >= e}}
  <1>1. \A i \in DOMAIN path : path[i].day \in Nat /\ i \in Nat
    BY PathRows DEF Rows
  <1>2. \A i, j \in DOMAIN path : i < j => path[i].day < path[j].day
    BY PathRows
  <1>3. CASE after = {}
    <2>1. DueDay(e) = e
      BY <1>3 DEF DueDay
    <2>2. \A i \in DOMAIN path : ~(path[i].day >= e)
      BY <1>3
    <2>3. \A i \in DOMAIN path : path[i].day <= e
      BY <1>1, <2>2
    <2> QED BY <2>1, <2>3
  <1>4. CASE after # {}
    <2>1. \A d \in after : d \in Nat /\ d >= e
      BY <1>1
    <2>2. after \subseteq Nat
      BY <2>1
    <2>3. PICK m \in after : \A x \in after : m <= x
      BY <1>4, <2>2, SmallestOf
    <2>4. DueDay(e) = CHOOSE d \in after : \A x \in after : d <= x
      BY <1>4 DEF DueDay
    <2>5. DueDay(e) \in after /\ \A x \in after : DueDay(e) <= x
      BY <2>3, <2>4
    <2>6. PICK k \in DOMAIN path : path[k].day = DueDay(e) /\ path[k].day >= e
      BY <2>5
    <2>7. ASSUME NEW r \in DOMAIN path, \A i \in DOMAIN path : i < r => path[i].day < e
          PROVE  path[r].day <= DueDay(e)
      <3>1. ~(k < r)
        BY <1>1, <2>6, <2>7
      <3>2. k = r \/ r < k
        BY <1>1, <3>1
      <3>3. path[r].day <= path[k].day
        <4>1. CASE k = r
          BY <1>1, <4>1
        <4>2. CASE r < k
          <5>1. path[r].day < path[k].day
            BY <1>2, <4>2
          <5> QED BY <1>1, <5>1
        <4> QED BY <3>2, <4>1, <4>2
      <3> QED BY <2>6, <3>3
    <2>8. DueDay(e) \in Nat /\ e <= DueDay(e)
      BY <2>1, <2>5
    <2> QED BY <2>7, <2>8
  <1> QED BY <1>3, <1>4

\* In a plain run, one trade was closed last, and what is open was not due on any
\* earlier row.
PlainInv ==
    ~forward =>
        /\ trades # {} => \E t \in trades : \A u \in trades : u.closed <= t.closed
        /\ position # NoSpread => \A i \in DOMAIN path : i < row => path[i].day < position.due

LEMMA PlainCounts ==
    ASSUME InWindow, ~forward, NEW p, Opened(p)
    PROVE  Counts(p)
  <1>1. PICK i \in DOMAIN path : path[i].day = p.opened
    BY DEF Opened
  <1>2. from = 1 /\ DOMAIN path = 1..Len(path) /\ Len(path) \in Nat
    BY PathRows DEF InWindow
  <1>3. 1 \in DOMAIN path /\ (i = 1 \/ 1 < i)
    BY <1>2
  <1>4. path[1].day \in Nat /\ path[i].day \in Nat /\ (1 < i => path[1].day < path[i].day)
    BY <1>3, PathRows DEF InWindow, Rows
  <1> QED BY <1>1, <1>2, <1>3, <1>4 DEF Counts

\* A plain run that closes a position books it as its last one.
LEMMA PlainExit ==
    ASSUME LossInv, BookInv, Exit, ~forward
    PROVE  \E t : /\ trades' = trades \cup {t} /\ t.closed = Today.day /\ Today.day \in Nat
                  /\ \A u \in trades' : u.closed <= t.closed
  <1>1. /\ InRun /\ InWindow /\ position # NoSpread /\ Opened(position)
    BY DEF Exit, LossInv, HeldSized
  <1>2. PICK pnl, paid :
            LET t == [opened |-> position.opened, closed |-> Today.day, pnl |-> pnl,
                      fold |-> from, base |-> position.base, friction |-> paid]
            IN  trades' = IF Counts(position) THEN trades \cup {t} ELSE trades
    BY ExitBooks
  <1> DEFINE t == [opened |-> position.opened, closed |-> Today.day, pnl |-> pnl,
                   fold |-> from, base |-> position.base, friction |-> paid]
  <1>3. trades' = trades \cup {t}
    BY <1>1, <1>2, PlainCounts
  <1>4. t.closed = Today.day
    OBVIOUS
  <1> HIDE DEF t
  <1>5. Today.day \in Nat /\ \A i \in DOMAIN path : i < row => path[i].day < Today.day
    BY <1>1, TodayInPath DEF Rows
  <1>6. ASSUME NEW u \in trades PROVE u.closed <= t.closed
    <2>1. PICK i \in DOMAIN path : i < row /\ u.closed = path[i].day
      BY <1>1 DEF BookInv, InRun
    <2>2. path[i].day \in Nat /\ path[i].day < Today.day
      BY <1>1, <1>5, <2>1, PathRows DEF InWindow, Rows
    <2>3. path[i].day <= Today.day
      BY <1>5, <2>2
    <2> QED BY <1>4, <2>1, <2>3
  <1>7. t.closed <= t.closed
    BY <1>4, <1>5
  <1> QED BY <1>3, <1>4, <1>5, <1>6, <1>7

LEMMA PlainStep ==
    ASSUME LossInv, BookInv, PlainInv, [BacktestNext]_btVars
    PROVE  PlainInv'
  <1> USE DEF btInput, runVars
  <1>0. InWindow
    BY DEF LossInv
  <1>1. CASE forward
    <2>1. forward' = forward
      BY <1>1 DEF BacktestNext, Skip, EnterPcs, Hold, Exit, EndRun, NextFold, btVars
    <2> QED BY <1>1, <2>1 DEF PlainInv
  <1>2. CASE ~forward
    <2>1. \A i \in DOMAIN path : i \in Nat /\ path[i].day \in Nat
      BY <1>0, PathRows DEF InWindow, Rows
    <2>2. ASSUME InRun PROVE \A i \in DOMAIN path : i < row + 1 => i < row \/ i = row
      BY <1>0, <2>1 DEF InWindow
    <2>3. CASE Skip
      BY <2>3 DEF Skip, PlainInv
    <2>4. CASE EnterPcs
      <3>1. /\ InRun /\ UNCHANGED <<path, forward, trades>> /\ row' = row + 1
        BY <2>4 DEF EnterPcs
      <3>2. position'.due = Today.day + DteEntry
        BY <1>0, <2>4, EntryOpens DEF Opened, EnterPcs
      <3>3. /\ Today.day \in Nat /\ DteEntry \in Nat \ {0} /\ Today.day = path[row].day
            /\ \A i \in DOMAIN path : i < row => path[i].day < Today.day
        BY <1>0, <3>1, TodayInPath, CeilingAssumption DEF Rows, Today
      <3>4. ASSUME NEW i \in DOMAIN path, i < row + 1 PROVE path[i].day < position'.due
        <4>1. path[i].day \in Nat /\ path[i].day <= Today.day
          BY <2>1, <2>2, <3>1, <3>3, <3>4
        <4>2. path[i].day < Today.day + DteEntry
          BY <3>3, <4>1
        <4> QED BY <3>2, <4>2
      <3> QED BY <1>2, <3>1, <3>4 DEF PlainInv
    <2>5. CASE Hold
      <3>1. /\ InRun /\ UNCHANGED <<path, forward, trades, position>> /\ row' = row + 1
            /\ position # NoSpread
        BY <2>5 DEF Hold
      <3>2. ~(position.due - Today.day <= 0)
        BY <2>5, HeldBeforeExpiry DEF Hold
      <3>3. position.due \in Nat /\ Today.day \in Nat /\ Today.day = path[row].day
        BY <1>0, <3>1, TodayInPath DEF LossInv, HeldSized, Opened, Positions, Rows, Today
      <3>4. path[row].day < position.due
        BY <3>2, <3>3
      <3> QED BY <1>2, <2>2, <3>1, <3>4 DEF PlainInv
    <2>6. CASE Exit
      <3>1. PICK t : trades' = trades \cup {t} /\ \A u \in trades' : u.closed <= t.closed
        BY <1>2, <2>6, PlainExit
      <3> QED BY <2>6, <3>1 DEF PlainInv, Exit
    <2>7. CASE EndRun \/ UNCHANGED btVars
      BY <2>7 DEF PlainInv, EndRun, btVars
    <2>8. CASE NextFold
      BY <1>2, <2>8 DEF NextFold
    <2> QED BY <2>3, <2>4, <2>5, <2>6, <2>7, <2>8 DEF BacktestNext
  <1> QED BY <1>1, <1>2

LEMMA PlainIsSimStep ==
    ASSUME LossInv, BookInv, BookInv', PlainInv, [BacktestNext]_btVars
    PROVE  [BtSim!BookNext]_(BtSim!bookVars)
  <1> USE DEF btInput, runVars
  <1>0. InWindow
    BY DEF LossInv
  <1>1. \A e : path' = path => DueDay(e)' = DueDay(e)
    BY DEF DueDay
  <1>2. CASE Skip \/ Hold \/ UNCHANGED btVars
    <2>1. UNCHANGED <<path, forward, position, trades, ended>>
      BY <1>2 DEF Skip, Hold, btVars
    <2>2. DueDay(position.due)' = DueDay(position.due)
      BY <2>1 DEF DueDay
    <2> QED BY <2>1, <2>2 DEF BtSim!bookVars
  <1>3. CASE EndRun
    <2>1. UNCHANGED <<path, forward, position, trades>> /\ ended'
      BY <1>3 DEF EndRun
    <2>2. DueDay(position.due)' = DueDay(position.due)
      BY <2>1 DEF DueDay
    <2> QED BY <2>1, <2>2 DEF BtSim!BookNext, BtSim!End
  <1>4. CASE forward /\ (EnterPcs \/ Exit \/ NextFold)
    <2>1. forward' /\ ended' = ended
      BY <1>4 DEF EnterPcs, Exit, NextFold
    <2> QED BY <1>4, <2>1 DEF BtSim!bookVars
  <1>5. CASE ~forward /\ EnterPcs
    <2>1. /\ UNCHANGED <<path, forward, trades, ended>> /\ position = NoSpread
          /\ ~ended /\ InRun /\ ~forward
      BY <1>5 DEF EnterPcs, InRun
    <2>2. /\ position' # NoSpread /\ position'.opened = Today.day
          /\ position'.due = Today.day + DteEntry
      BY <1>0, <1>5, EntryOpens DEF Opened
    <2>3. Today.day \in Nat \ {0} /\ DteEntry \in Nat \ {0}
      BY <1>0, <2>1, TodayInPath, CeilingAssumption DEF Rows
    <2> DEFINE e == Today.day + DteEntry
               opens == [opened |-> Today.day, due |-> DueDay(e)]
               last0 == IF trades = {} THEN 0
                        ELSE CHOOSE d \in {t.closed : t \in trades} : \A t \in trades : t.closed <= d
    <2>4. DueDay(e) \in Nat /\ Today.day < DueDay(e)
      <3>1. e \in Nat /\ Today.day < e
        BY <2>3
      <3> HIDE DEF e
      <3>2. DueDay(e) \in Nat /\ e <= DueDay(e)
        BY <1>0, <3>1, DueNotBefore DEF InWindow
      <3> QED BY <2>3, <3>1, <3>2
    <2>5. DueDay(position.due)' = DueDay(e)
      BY <2>1, <2>2 DEF DueDay
    <2>6. last0 < Today.day
      <3>1. CASE trades = {}
        BY <2>3, <3>1
      <3>2. CASE trades # {}
        <4>1. PICK t \in trades : \A u \in trades : u.closed <= t.closed
          BY <2>1, <3>2 DEF PlainInv
        <4>2. last0 \in {u.closed : u \in trades}
          BY <3>2, <4>1
        <4>3. \A u \in trades : u.closed < Today.day
          BY <2>1, <2>2 DEF BookInv
        <4> QED BY <4>2, <4>3
      <3> QED BY <3>1, <3>2
    <2> HIDE DEF e, last0
    <2>7. opens \in [opened : Nat, due : Nat] /\ opens.opened = Today.day /\ opens.due = DueDay(e)
      BY <2>3, <2>4
    <2>8. BtSim!Open
      BY <2>1, <2>2, <2>4, <2>5, <2>6, <2>7 DEF BtSim!Open, last0
    <2> QED BY <2>8 DEF BtSim!BookNext
  <1>6. CASE ~forward /\ Exit
    <2>1. /\ UNCHANGED <<path, forward, ended>> /\ position # NoSpread /\ position' = NoSpread
          /\ ~ended /\ InRun /\ ~forward
      BY <1>6 DEF Exit, InRun
    <2>2. PICK t : /\ trades' = trades \cup {t} /\ t.closed = Today.day /\ Today.day \in Nat
                   /\ \A u \in trades' : u.closed <= t.closed
      BY <1>6, PlainExit
    <2>3. /\ position.opened \in Nat /\ position.due \in Nat /\ position.opened < Today.day
          /\ row \in DOMAIN path /\ Today.day = path[row].day
      BY <1>0, <2>1, TodayInPath DEF LossInv, HeldSized, Opened, Positions, Today
    <2>4. Today.day <= DueDay(position.due) /\ DueDay(position.due) \in Nat
      BY <1>0, <2>1, <2>3, DueNotBefore DEF PlainInv, InWindow
    <2> DEFINE last1 == CHOOSE d \in {u.closed : u \in trades'} : \A u \in trades' : u.closed <= d
    <2>5. last1 = Today.day
      <3>1. Today.day \in {u.closed : u \in trades'} /\ \A u \in trades' : u.closed <= Today.day
        BY <2>2
      <3>2. last1 \in {u.closed : u \in trades'} /\ \A u \in trades' : u.closed <= last1
        BY <3>1
      <3>3. last1 <= Today.day /\ Today.day <= last1
        BY <3>1, <3>2
      <3>4. \A u \in trades' : u.closed \in Nat
        <4>1. ASSUME NEW u \in trades' PROVE u.closed \in Nat
          <5>1. ~ended' /\ path' = path
            BY <2>1
          <5>2. PICK i \in DOMAIN path : u.closed = path[i].day
            BY <4>1, <5>1 DEF BookInv
          <5> QED BY <1>0, <5>2, PathRows DEF InWindow, Rows
        <4> QED BY <4>1
      <3>5. last1 \in Nat
        BY <3>2, <3>4
      <3> HIDE DEF last1
      <3> QED BY <2>2, <3>3, <3>5
    <2> DEFINE opens == [opened |-> position.opened, due |-> DueDay(position.due)]
    <2>6. opens # NoSpread /\ opens.opened = position.opened /\ opens.due = DueDay(position.due)
      BY <2>3, <2>4, SpreadAssumption
    <2>7. trades' # {}
      BY <2>2
    <2> HIDE DEF opens, last1
    <2>8. BtSim!Close
      BY <2>1, <2>2, <2>3, <2>4, <2>5, <2>6, <2>7 DEF BtSim!Close, last1, opens
    <2> QED BY <2>8 DEF BtSim!BookNext
  <1>7. CASE ~forward /\ NextFold
    BY <1>7 DEF NextFold
  <1> QED BY <1>2, <1>3, <1>4, <1>5, <1>6, <1>7 DEF BacktestNext

LEMMA AlwaysBookInv == BacktestSpec => []BookInv
  <1>1. BacktestInit => BookInv
    BY DEF BacktestInit, BookInv, FoldsKeepOneBook
  <1>2. LossInv /\ BookInv /\ [BacktestNext]_btVars => BookInv'
    BY BookStep
  <1> QED BY <1>1, <1>2, AlwaysLossInv, PTL DEF BacktestSpec

\* A plain run keeps one position at a time, opens the next one strictly later, and
\* closes each by its expiry or on the first row after it (backtest.py:333-397).
THEOREM BacktestRunsImplementSim == BacktestSpec => BacktestImplementsSim
  <1>1. BacktestInit => PlainInv /\ BtSim!BookInit
    BY DEF BacktestInit, PlainInv, BtSim!BookInit
  <1>2. LossInv /\ BookInv /\ PlainInv /\ [BacktestNext]_btVars => PlainInv'
    BY PlainStep
  <1>3. LossInv /\ BookInv /\ BookInv' /\ PlainInv /\ [BacktestNext]_btVars
            => [BtSim!BookNext]_(BtSim!bookVars)
    BY PlainIsSimStep
  <1> QED
    BY <1>1, <1>2, <1>3, AlwaysLossInv, AlwaysBookInv, PTL
    DEF BacktestSpec, BacktestImplementsSim, BtSim!BookSpec
-----------------------------------------------------------------------------
(* MomentumBook: what it holds and owes *)

Holding == [worth : Int, basis : Int, bought : Nat, last : Nat \ {0}, slip : Nat, miss : Nat,
            sell : BOOLEAN, fmv : Int \cup {NoFmv}]

MomTyped ==
    /\ market \in MarketTapes /\ day \in 1..Sessions
    /\ DOMAIN pos \subseteq Names
    /\ \A n \in DOMAIN pos : pos[n] \in Holding
    /\ cash \in Int
    /\ gains \in [{"st", "lt"} \X Years -> Int]
    /\ carried \in [st : Int, lt : Int] /\ dueYear \in Nat \ {0}
    /\ taxed \in Int /\ closedGains \in Int
    /\ rankAt \in Nat \ {0} /\ need \in Int /\ slotCash \in Int

LEMMA TotalInt ==
    ASSUME NEW f, NEW S, IsFiniteSet(S), \A x \in S : f[x] \in Int
    PROVE  Total(f, S) \in Int
  BY SumInt DEF Total, Sum

LEMMA RowTyped ==
    ASSUME market \in MarketTapes, day \in 1..Sessions, NEW n \in Names, RowOf(n, day) # NoRow
    PROVE  /\ RowOf(n, day) \in [close : Nat \ {0}, adj : Nat \ {0}, flag : BOOLEAN, eq : BOOLEAN]
           /\ RowOf(n, day).close \in Nat \ {0} /\ RowOf(n, day).adj \in Nat \ {0}
  <1>1. RowOf(n, day) \in [close : Nat \ {0}, adj : Nat \ {0}, flag : BOOLEAN, eq : BOOLEAN]
    BY TapeAssumption, Zenon DEF RowOf
  <1> QED BY <1>1

LEMMA BookTypedToday ==
    ASSUME market \in MarketTapes, day \in 1..Sessions, Rebalance(market, day) # NoBook
    PROVE  Rebalance(market, day) \in [on : BOOLEAN, rank : [Names -> Nat],
                                       liquid : [Names -> BOOLEAN], cap : [Names -> Nat]]
  BY TapeAssumption, Zenon

LEMMA SlipNat == \A liquid : SlipFor(liquid) \in Nat
  BY MoneyAssumption DEF SlipFor

LEMMA FeesNat == \A value \in Int : Fees(value) \in Int
  BY MoneyAssumption DEF Fees

LEMMA NetInt ==
    ASSUME NEW gross \in Int, NEW slip \in Int
    PROVE  Net(gross, slip) \in Int
  <1> DEFINE v == (gross * (1000 - slip)) \div 1000
  <1>1. v \in Int
    OBVIOUS
  <1>2. Fees(v) \in Int /\ Net(gross, slip) = v - Fees(v)
    BY <1>1, FeesNat DEF Net
  <1> QED BY <1>1, <1>2

LEMMA GainInt ==
    ASSUME NEW p \in Holding, NEW net \in Int, NEW d, NEW kind
    PROVE  TaxableGain(p, net, d, kind) \in Int
  <1>1. p.basis \in Int /\ (p.fmv # NoFmv => p.fmv \in Int)
    BY DEF Holding
  <1>2. TaxBasis(p, net, d) \in Int
    <2>1. \A a, b, c \in Int : Larger(a, Lesser(b, c)) \in Int
      BY DEF Larger, Lesser
    <2> QED BY <1>1, <2>1, Zenon DEF TaxBasis
  <1>3. TaxableGain(p, net, d, kind) \in {net - TaxBasis(p, net, d), 0}
    BY Zenon DEF TaxableGain
  <1> QED BY <1>2, <1>3

\* The two forms a day's mark takes.
LEMMA HoldingMarked ==
    ASSUME NEW p \in Holding
    PROVE  /\ [p EXCEPT !.miss = @ + 1] \in Holding
           /\ [p EXCEPT !.miss = @ + 1].sell = p.sell
           /\ [p EXCEPT !.miss = @ + 1].miss = p.miss + 1
           /\ \A w \in Int, l \in Nat \ {0}, g \in Int \cup {NoFmv} :
                LET q == [p EXCEPT !.worth = w, !.last = l, !.miss = 0, !.fmv = g]
                IN q \in Holding /\ q.sell = p.sell /\ q.miss = 0
  <1> DEFINE q == [p EXCEPT !.miss = @ + 1]
  <1>1. q = [p EXCEPT !.miss = p.miss + 1] /\ p.miss + 1 \in Nat
    BY DEF Holding
  <1>2. \A m \in Nat : LET x == [p EXCEPT !.miss = m] IN x \in Holding /\ x.sell = p.sell /\ x.miss = m
    BY DEF Holding
  <1>3. ASSUME NEW w \in Int, NEW l \in Nat \ {0}, NEW g \in Int \cup {NoFmv}
        PROVE  LET x == [p EXCEPT !.worth = w, !.last = l, !.miss = 0, !.fmv = g]
               IN x \in Holding /\ x.sell = p.sell /\ x.miss = 0
    BY DEF Holding
  <1> QED BY <1>1, <1>2, <1>3, Zenon

\* A day's mark keeps whether a sale is left over, and counts the days without a row.
LEMMA MarkedTyped ==
    ASSUME MomTyped, NEW n \in DOMAIN pos
    PROVE  /\ Marked(pos[n], n, day) \in Holding
           /\ Marked(pos[n], n, day).sell = pos[n].sell
           /\ Marked(pos[n], n, day).miss = IF RowOf(n, day) = NoRow THEN pos[n].miss + 1 ELSE 0
  <1> DEFINE p == pos[n]
             r == RowOf(n, day)
             w == IF r.flag THEN p.worth ELSE (p.worth * r.adj) \div p.last
  <1>1. /\ p \in Holding /\ p.worth \in Int /\ p.last \in Nat \ {0} /\ p.miss \in Nat
        /\ p.fmv \in Int \cup {NoFmv}
    BY DEF MomTyped, Holding
  <1>2. CASE r = NoRow
    <2>1. Marked(p, n, day) = [p EXCEPT !.miss = @ + 1]
      BY <1>2 DEF Marked
    <2> QED BY <1>1, <1>2, <2>1, HoldingMarked, Zenon
  <1>3. CASE r # NoRow
    <2>1. r.adj \in Nat \ {0}
      BY <1>3, RowTyped DEF MomTyped
    <2>2. Marked(p, n, day) = [p EXCEPT !.worth = w, !.last = r.adj, !.miss = 0,
                                        !.fmv = IF day <= FmvDay THEN w ELSE @]
      BY <1>3 DEF Marked
    <2>3. w \in Int
      <3> HIDE DEF p, r
      <3> QED BY <1>1, <2>1
    <2>4. (IF day <= FmvDay THEN w ELSE p.fmv) \in Int \cup {NoFmv}
      BY <1>1, <2>3, Zenon
    <2> DEFINE g == IF day <= FmvDay THEN w ELSE p.fmv
    <2>5. Marked(p, n, day) = [p EXCEPT !.worth = w, !.last = r.adj, !.miss = 0, !.fmv = g]
      BY <2>2
    <2>6. p \in Holding /\ w \in Int /\ r.adj \in Nat \ {0} /\ g \in Int \cup {NoFmv}
      BY <1>1, <2>1, <2>3, <2>4, Zenon
    <2> HIDE DEF p, r, w, g
    <2>7. LET q == [p EXCEPT !.worth = w, !.last = r.adj, !.miss = 0, !.fmv = g]
          IN q \in Holding /\ q.sell = p.sell /\ q.miss = 0
      <3>1. \A x \in Int, l \in Nat \ {0}, y \in Int \cup {NoFmv} :
               LET q == [p EXCEPT !.worth = x, !.last = l, !.miss = 0, !.fmv = y]
               IN q \in Holding /\ q.sell = p.sell /\ q.miss = 0
        BY <2>6, HoldingMarked, Zenon
      <3> QED BY <2>6, <3>1, Zenon
    <2> QED BY <1>3, <2>5, <2>7, Zenon DEF p, r, w, g
  <1> QED BY <1>2, <1>3

\* The gains once the names of a set are sold for the nets given.
BookedGains(S, now, nets) ==
    [k \in DOMAIN gains |->
        IF k[2] # YearOf(day) THEN gains[k]
        ELSE gains[k] + Total([n \in S |-> TaxableGain(now[n], nets[n], day, k[1])], S)]

\* What a day books: to cash what its sales bring, to its year's gains what they earn.
LEMMA GainsBooked ==
    ASSUME MomTyped, NEW S, IsFiniteSet(S), NEW now, NEW nets,
           \A n \in S : now[n] \in Holding /\ nets[n] \in Int
    PROVE  /\ cash + Total(nets, S) \in Int
           /\ BookedGains(S, now, nets) \in [{"st", "lt"} \X Years -> Int]
  <1>1. Total(nets, S) \in Int
    BY TotalInt
  <1>2. \A kind : Total([n \in S |-> TaxableGain(now[n], nets[n], day, kind)], S) \in Int
    <2> TAKE kind
    <2> DEFINE f == [n \in S |-> TaxableGain(now[n], nets[n], day, kind)]
    <2>1. \A n \in S : f[n] \in Int
      BY GainInt
    <2>2. Total(f, S) \in Int
      <3> HIDE DEF f
      <3> QED BY <2>1, TotalInt
    <2> QED BY <2>2
  <1>3. DOMAIN gains = {"st", "lt"} \X Years /\ \A k \in {"st", "lt"} \X Years : gains[k] \in Int
    BY DEF MomTyped
  <1>4. cash \in Int
    BY DEF MomTyped
  <1> DEFINE G(k) == IF k[2] # YearOf(day) THEN gains[k]
                     ELSE gains[k] + Total([n \in S |-> TaxableGain(now[n], nets[n], day, k[1])], S)
  <1>5. \A k \in {"st", "lt"} \X Years : G(k) \in Int
    <2> TAKE k \in {"st", "lt"} \X Years
    <2> DEFINE t == Total([n \in S |-> TaxableGain(now[n], nets[n], day, k[1])], S)
    <2>1. t \in Int /\ gains[k] \in Int
      BY <1>2, <1>3
    <2>2. G(k) \in {gains[k], gains[k] + t}
      BY Zenon
    <2> HIDE DEF t, G
    <2> QED BY <2>1, <2>2
  <1>6. [k \in DOMAIN gains |-> G(k)] \in [{"st", "lt"} \X Years -> Int]
    <2> HIDE DEF G
    <2> QED BY <1>3, <1>5
  <1>7. cash + Total(nets, S) \in Int
    BY <1>1, <1>4
  <1> QED BY <1>6, <1>7, Zenon DEF BookedGains

LEMMA SetOffKeeps ==
    ASSUME NEW st \in Int, NEW lt \in Int, NEW cf \in [st : Int, lt : Int]
    PROVE  LET s == SetOff(st, lt, cf)
           IN /\ s.st \in Int /\ s.lt \in Int /\ s.cf \in [st : Int, lt : Int]
              /\ s.st + s.lt - s.cf.st - s.cf.lt = st + lt - cf.st - cf.lt
  <1> DEFINE u0  == IF st < 0 /\ lt > 0 THEN Lesser(-st, lt) ELSE 0
             st0 == st + u0
             lt0 == lt - u0
             u1  == Lesser(cf.st, AtLeastZero(st0))
             u2  == Lesser(cf.lt, AtLeastZero(lt0))
             u3  == Lesser(cf.st - u1, AtLeastZero(lt0 - u2))
             a   == AtLeastZero(st0 - u1)
             b   == AtLeastZero(lt0 - u2 - u3)
             c   == AtLeastZero(u1 - st0)
             e   == AtLeastZero(u2 + u3 - lt0)
             s   == SetOff(st, lt, cf)
  <1>0. cf.st \in Int /\ cf.lt \in Int
    OBVIOUS
  <1>1. \A x, y \in Int : Lesser(x, y) \in Int /\ AtLeastZero(x) \in Int
    BY DEF Lesser, AtLeastZero
  <1>2. \A x \in Int : AtLeastZero(x) - AtLeastZero(-x) = x
    BY DEF AtLeastZero
  <1>3. u0 \in Int /\ st0 \in Int /\ lt0 \in Int
    <2>1. u0 \in Int
      BY <1>1
    <2> HIDE DEF u0
    <2> QED BY <2>1
  <1>3a. st0 + lt0 = st + lt
    <2>1. u0 \in Int
      BY <1>1
    <2> HIDE DEF u0
    <2> QED BY <2>1
  <1>4. u1 \in Int /\ u2 \in Int
    <2> HIDE DEF st0, lt0
    <2> QED BY <1>0, <1>1, <1>3
  <1>5. u3 \in Int
    <2> HIDE DEF lt0, u1, u2
    <2>1. cf.st - u1 \in Int /\ lt0 - u2 \in Int
      BY <1>0, <1>3, <1>4
    <2>2. AtLeastZero(lt0 - u2) \in Int
      BY <1>1, <2>1
    <2> QED BY <1>1, <2>1, <2>2
  <1>6. /\ s.st = a /\ s.lt = b
        /\ s.cf = [st |-> cf.st - u1 - u3 + c, lt |-> cf.lt - u2 + e]
    BY DEF SetOff
  <1> HIDE DEF st0, lt0, u1, u2, u3
  <1>7. a \in Int /\ b \in Int /\ c \in Int /\ e \in Int
    <2>1. /\ st0 - u1 \in Int /\ lt0 - u2 - u3 \in Int
          /\ u1 - st0 \in Int /\ u2 + u3 - lt0 \in Int
      BY <1>3, <1>4, <1>5
    <2> QED BY <1>1, <2>1
  <1>8. a - c = st0 - u1
    <2>1. st0 - u1 \in Int /\ -(st0 - u1) = u1 - st0
      BY <1>3, <1>4
    <2> QED BY <1>2, <2>1
  <1>9. b - e = lt0 - u2 - u3
    <2>1. lt0 - u2 - u3 \in Int /\ -(lt0 - u2 - u3) = u2 + u3 - lt0
      BY <1>3, <1>4, <1>5
    <2> QED BY <1>2, <2>1
  <1> HIDE DEF a, b, c, e, s
  <1>10. a + b - (cf.st - u1 - u3 + c) - (cf.lt - u2 + e) = st + lt - cf.st - cf.lt
    BY <1>0, <1>3, <1>3a, <1>4, <1>5, <1>7, <1>8, <1>9
  <1>11. cf.st - u1 - u3 + c \in Int /\ cf.lt - u2 + e \in Int
    BY <1>0, <1>4, <1>5, <1>7
  <1> QED BY <1>6, <1>7, <1>10, <1>11 DEF s

LEMMA PositionsFinite == MomTyped => IsFiniteSet(DOMAIN pos) /\ \A S \in SUBSET DOMAIN pos : IsFiniteSet(S)
  <1>1. IsFiniteSet(Names)
    BY MomentumAssumption
  <1>2. MomTyped => DOMAIN pos \subseteq Names
    BY DEF MomTyped
  <1> QED BY <1>1, <1>2, FS_Subset

\* The tax of a year takes its gains out once.
LEMMA PayTyped ==
    ASSUME MomTyped, NEW y \in Years, Pay(y)
    PROVE  /\ cash' \in Int /\ gains' \in [{"st", "lt"} \X Years -> Int]
           /\ carried' \in [st : Int, lt : Int] /\ taxed' \in Int /\ closedGains' \in Int
           /\ MomentumLossUsedOnce => MomentumLossUsedOnce'
  <1> DEFINE st == gains[<<"st", y>>]
             lt == gains[<<"lt", y>>]
             s  == SetOff(st, lt, carried)
  <1>1. /\ st \in Int /\ lt \in Int /\ carried \in [st : Int, lt : Int]
        /\ cash \in Int /\ taxed \in Int /\ closedGains \in Int
        /\ gains \in [{"st", "lt"} \X Years -> Int]
    BY DEF MomTyped
  <1>2. /\ cash' = cash - FyTaxOf(s) /\ carried' = s.cf /\ taxed' = taxed + s.st + s.lt
        /\ closedGains' = closedGains + st + lt
        /\ gains' = [gains EXCEPT ![<<"st", y>>] = 0, ![<<"lt", y>>] = 0]
    BY DEF Pay
  <1>3. /\ s.st \in Int /\ s.lt \in Int /\ s.cf \in [st : Int, lt : Int]
        /\ s.st + s.lt - s.cf.st - s.cf.lt = st + lt - carried.st - carried.lt
    BY <1>1, SetOffKeeps
  <1> HIDE DEF st, lt, s
  <1>4. FyTaxOf(s) \in Int
    <2>1. \A n \in Int : AtLeastZero(n) \in Int
      BY DEF AtLeastZero
    <2>2. AtLeastZero(s.lt - LtExempt) \in Int
      BY <1>3, <2>1, MoneyAssumption
    <2> HIDE DEF AtLeastZero
    <2> QED BY <1>3, <2>2, MoneyAssumption DEF FyTaxOf
  <1>5. gains' \in [{"st", "lt"} \X Years -> Int]
    BY <1>1, <1>2
  <1>6. /\ carried.st \in Int /\ carried.lt \in Int
        /\ s.cf.st \in Int /\ s.cf.lt \in Int
    BY <1>1, <1>3
  <1>7. closedGains = taxed - carried.st - carried.lt
        => closedGains' = taxed' - carried'.st - carried'.lt
    BY <1>1, <1>2, <1>3, <1>6
  <1>8. cash' \in Int /\ taxed' \in Int /\ closedGains' \in Int /\ carried' \in [st : Int, lt : Int]
    BY <1>1, <1>2, <1>3, <1>4
  <1> QED BY <1>5, <1>7, <1>8 DEF MomentumLossUsedOnce

LEMMA YearsGoBy ==
    ASSUME MomTyped
    PROVE  YearOf(day) \in Nat \ {0} /\ YearOf(day) \in Years
  <1>1. /\ YearOf(day) \in Nat \ {0} /\ YearOf(Sessions) \in Nat \ {0}
        /\ YearOf(day) <= YearOf(Sessions)
    <2>1. day \in 1..Sessions /\ Sessions \in 1..Sessions /\ day <= Sessions
      BY MomentumAssumption DEF MomTyped
    <2> QED BY <2>1, YearAssumption
  <1> QED BY <1>1 DEF Years

LEMMA MomStart == MomInit => MomTyped
  <1> SUFFICES ASSUME MomInit PROVE MomTyped
    OBVIOUS
  <1>1. day \in 1..Sessions /\ cash \in Int
    BY MomentumAssumption, MoneyAssumption DEF MomInit
  <1>2. DOMAIN pos = {}
    BY DEF MomInit
  <1>3. gains \in [{"st", "lt"} \X Years -> Int]
    BY DEF MomInit
  <1>4. carried \in [st : Int, lt : Int] /\ dueYear \in Nat \ {0} /\ taxed \in Int /\ closedGains \in Int
        /\ rankAt \in Nat \ {0} /\ need \in Int /\ slotCash \in Int
    BY DEF MomInit
  <1> QED BY <1>1, <1>2, <1>3, <1>4 DEF MomTyped, MomInit

\* What a mark does to the book: out are the names it sells.
ForcedOut  == {n \in DOMAIN pos : RowOf(n, day) = NoRow /\ Marked(pos[n], n, day).miss = Missing}
PendingOut == {n \in DOMAIN pos : RowOf(n, day) # NoRow /\ Marked(pos[n], n, day).sell}

LEMMA MarkBooks ==
    ASSUME MomTyped, Mark
    PROVE  LET out == ForcedOut \cup PendingOut
           IN /\ DOMAIN pos' = DOMAIN pos \ out
              /\ \A n \in DOMAIN pos' : pos'[n] = Marked(pos[n], n, day)
              /\ cash' \in Int /\ gains' \in [{"st", "lt"} \X Years -> Int]
              /\ soldToday' = out
  <1> DEFINE now     == [n \in DOMAIN pos |-> Marked(pos[n], n, day)]
             forced  == {n \in DOMAIN now : RowOf(n, day) = NoRow /\ now[n].miss = Missing}
             pending == {n \in DOMAIN now : RowOf(n, day) # NoRow /\ now[n].sell}
             out     == forced \cup pending
             nets    == [n \in out |->
                          IF n \in forced THEN Net((now[n].worth * (100 - HaircutPct)) \div 100, 0)
                          ELSE Net(now[n].worth, now[n].slip)]
  <1>1. /\ pos' = [n \in DOMAIN pos \ out |-> now[n]]
        /\ cash' = cash + Total(nets, out)
        /\ gains' = BookedGains(out, now, nets)
        /\ soldToday' = out
    BY Zenon DEF Mark, BookedGains
  <1>2. \A n \in DOMAIN pos : now[n] = Marked(pos[n], n, day)
    OBVIOUS
  <1>3. forced = ForcedOut /\ pending = PendingOut
    <2>1. DOMAIN now = DOMAIN pos
      OBVIOUS
    <2> HIDE DEF now
    <2> QED BY <1>2, <2>1 DEF ForcedOut, PendingOut
  <1>4. IsFiniteSet(out)
    BY PositionsFinite
  <1>5. \A n \in out : now[n] \in Holding
    BY <1>2, MarkedTyped
  <1> HIDE DEF now
  <1>6. \A n \in out : nets[n] \in Int
    <2> TAKE n \in out
    <2>1. now[n].worth \in Int /\ now[n].slip \in Int
      BY <1>5 DEF Holding
    <2>2. (now[n].worth * (100 - HaircutPct)) \div 100 \in Int
      BY <2>1, MomentumAssumption
    <2>3. Net((now[n].worth * (100 - HaircutPct)) \div 100, 0) \in Int /\ Net(now[n].worth, now[n].slip) \in Int
      <3>1. 0 \in Int
        OBVIOUS
      <3> QED BY <2>1, <2>2, <3>1, NetInt, Zenon
    <2> QED BY <2>3
  <1> HIDE DEF nets, out
  <1>7. cash' \in Int /\ gains' \in [{"st", "lt"} \X Years -> Int]
    <2>1. \A n \in out : now[n] \in Holding /\ nets[n] \in Int
      BY <1>5, <1>6
    <2>2. /\ cash + Total(nets, out) \in Int
          /\ BookedGains(out, now, nets) \in [{"st", "lt"} \X Years -> Int]
      BY <1>4, <2>1, GainsBooked
    <2> QED BY <1>1, <2>2, Zenon
  <1>8. DOMAIN pos' = DOMAIN pos \ out /\ \A n \in DOMAIN pos' : pos'[n] = Marked(pos[n], n, day)
    <2>1. DOMAIN pos' = DOMAIN pos \ out /\ \A n \in DOMAIN pos \ out : pos'[n] = now[n]
      BY <1>1
    <2> QED BY <1>2, <2>1
  <1>9. out = ForcedOut \cup PendingOut
    BY <1>3 DEF out
  <1> QED BY <1>1, <1>7, <1>8, <1>9

\* ... and a rebalance.
StayIn(u)  == {n \in DOMAIN pos : pos[n].sell \/ (u.on /\ u.rank[n] \in 1..Keep)}
RankedOut(u) == {n \in DOMAIN pos \ StayIn(u) : RowOf(n, day) # NoRow}

LEMMA SellBooks ==
    ASSUME MomTyped, NEW S \in SUBSET DOMAIN pos, NEW nets, DOMAIN nets = S, NEW others,
           \A n \in S : nets[n] \in Int, Sell(nets, day, others)
    PROVE  pos' = others /\ cash' \in Int /\ gains' \in [{"st", "lt"} \X Years -> Int]
  <1>1. /\ pos' = others
        /\ cash' = cash + Total(nets, S)
        /\ gains' = BookedGains(S, pos, nets)
    BY Zenon DEF Sell, BookedGains
  <1>2. IsFiniteSet(S) /\ \A n \in S : pos[n] \in Holding
    BY PositionsFinite DEF MomTyped
  <1>3. /\ cash + Total(nets, S) \in Int
        /\ BookedGains(S, pos, nets) \in [{"st", "lt"} \X Years -> Int]
    BY <1>2, GainsBooked
  <1> QED BY <1>1, <1>3, Zenon

LEMMA RebalancedBooks ==
    ASSUME MomTyped, Rebalanced, Rebalance(market, day) # NoBook
    PROVE  /\ DOMAIN pos' = DOMAIN pos \ RankedOut(Rebalance(market, day))
           /\ \A n \in DOMAIN pos' : /\ pos'[n] \in Holding /\ pos'[n].miss = pos[n].miss
                                     /\ pos'[n].sell => pos[n].sell \/ RowOf(n, day) = NoRow
           /\ cash' \in Int /\ gains' \in [{"st", "lt"} \X Years -> Int]
           /\ soldToday' = soldToday \cup RankedOut(Rebalance(market, day))
  <1> DEFINE u     == Rebalance(market, day)
             slip  == [n \in Names |-> SlipFor(u.liquid[n])]
             nets  == [n \in RankedOut(u) |-> Net(pos[n].worth, slip[n])]
             others == [n \in DOMAIN pos \ RankedOut(u) |->
                                IF n \in StayIn(u) THEN pos[n]
                                ELSE [pos[n] EXCEPT !.slip = slip[n], !.sell = TRUE]]
  <1>1. Sell(nets, day, others) /\ soldToday' = soldToday \cup RankedOut(u)
    BY Zenon DEF Rebalanced, StayIn, RankedOut
  <1>2. DOMAIN pos \subseteq Names /\ \A n \in DOMAIN pos : pos[n] \in Holding
    BY DEF MomTyped
  <1>3. \A n \in DOMAIN pos : slip[n] \in Nat
    BY <1>2, SlipNat
  <1> HIDE DEF slip, u
  <1>4. RankedOut(u) \in SUBSET DOMAIN pos
    BY DEF RankedOut
  <1>5. \A n \in RankedOut(u) : nets[n] \in Int
    <2>1. \A n \in RankedOut(u) : pos[n].worth \in Int /\ slip[n] \in Int
      BY <1>2, <1>3, <1>4 DEF Holding
    <2> QED BY <2>1, NetInt
  <1>6. DOMAIN nets = RankedOut(u)
    OBVIOUS
  <1> HIDE DEF nets
  <1>7. pos' = others /\ cash' \in Int /\ gains' \in [{"st", "lt"} \X Years -> Int]
    <2> HIDE DEF others
    <2> QED BY <1>1, <1>4, <1>5, <1>6, SellBooks
  <1>8. ASSUME NEW n \in DOMAIN pos \ RankedOut(u)
        PROVE  /\ others[n] \in Holding /\ others[n].miss = pos[n].miss
               /\ others[n].sell => pos[n].sell \/ RowOf(n, day) = NoRow
    <2>1. pos[n] \in Holding /\ slip[n] \in Nat
      BY <1>2, <1>3
    <2>2. \A p \in Holding, k \in Nat : LET q == [p EXCEPT !.slip = k, !.sell = TRUE]
                                        IN q \in Holding /\ q.miss = p.miss
      BY DEF Holding
    <2>3. LET q == [pos[n] EXCEPT !.slip = slip[n], !.sell = TRUE]
          IN q \in Holding /\ q.miss = pos[n].miss
      BY <2>1, <2>2, Zenon
    <2>4. CASE n \in StayIn(u)
      <3>1. others[n] = pos[n]
        BY <2>4
      <3> QED BY <2>1, <3>1
    <2>5. CASE n \notin StayIn(u)
      <3>1. RowOf(n, day) = NoRow
        BY <2>5 DEF RankedOut
      <3>2. others[n] = [pos[n] EXCEPT !.slip = slip[n], !.sell = TRUE]
        BY <2>5
      <3> QED BY <2>3, <3>1, <3>2, Zenon
    <2> QED BY <2>4, <2>5
  <1>9. DOMAIN others = DOMAIN pos \ RankedOut(u)
    OBVIOUS
  <1> HIDE DEF others
  <1>10. /\ DOMAIN pos' = DOMAIN pos \ RankedOut(u)
         /\ \A n \in DOMAIN pos' : /\ pos'[n] \in Holding /\ pos'[n].miss = pos[n].miss
                                   /\ pos'[n].sell => pos[n].sell \/ RowOf(n, day) = NoRow
    BY <1>7, <1>8, <1>9, Zenon
  <1> QED BY <1>1, <1>7, <1>10, Zenon DEF u

\* A purchase never costs more than its slot.
LEMMA AffordableFits ==
    ASSUME MomTyped, NEW close \in Nat \ {0}, NEW slip \in Nat, NEW cap \in Nat
    PROVE  LET b == Affordable(close, slip, cap)
           IN /\ b.shares \in Int /\ b.paid \in Int
              /\ b.shares > 0 => b.paid <= slotCash
  <1> DEFINE most == Lesser((1000 * slotCash) \div (close * (1000 + slip)), cap)
             cost(k) == (k * close * (1000 + slip)) \div 1000
             fits == {k \in 1..most : cost(k) + Fees(cost(k)) <= slotCash}
             b == Affordable(close, slip, cap)
  <1>1. CASE fits = {}
    <2>1. b = [shares |-> 0, paid |-> 0]
      BY <1>1 DEF Affordable
    <2> QED BY <2>1
  <1>2. CASE fits # {}
    <2> DEFINE k == CHOOSE x \in fits : \A y \in fits : y <= x
    <2>1. b = [shares |-> k, paid |-> cost(k) + Fees(cost(k))]
      BY <1>2 DEF Affordable
    <2>2. most \in Int
      <3>1. close * (1000 + slip) \in Nat \ {0} /\ slotCash \in Int
        BY DEF MomTyped
      <3>2. (1000 * slotCash) \div (close * (1000 + slip)) \in Int
        BY <3>1
      <3> QED BY <3>2 DEF Lesser
    <2>3. k \in fits
      <3>1. fits \subseteq Nat /\ \A x \in fits : x <= most /\ x >= 1
        BY <2>2
      <3>2. most \in Nat
        BY <1>2, <2>2, <3>1
      <3>3. \E m \in fits : \A x \in fits : x <= m
        <4> HIDE DEF fits, most
        <4>1. fits \subseteq Nat /\ \A x \in fits : x <= most
          BY <3>1
        <4> QED BY <1>2, <3>2, <4>1, LatestExists
      <3> HIDE DEF fits
      <3> QED BY <3>3
    <2>4. k \in Int /\ cost(k) + Fees(cost(k)) <= slotCash
      <3> HIDE DEF k, cost, most
      <3> QED BY <2>2, <2>3
    <2>5. cost(k) \in Int /\ Fees(cost(k)) \in Int
      <3> HIDE DEF k
      <3>1. cost(k) \in Int
        BY <2>4
      <3> QED BY <3>1, FeesNat
    <2> HIDE DEF k, cost
    <2> QED BY <2>1, <2>4, <2>5
  <1> QED BY <1>1, <1>2

\* Buying takes a new name, of a rank that is kept, for at most a slot.
LEMMA BuyBooks ==
    ASSUME MomTyped, BuyNext, Rebalance(market, day) # NoBook
    PROVE  \/ UNCHANGED <<pos, cash, need>>
           \/ LET u == Rebalance(market, day)
              IN \E n \in Names \ DOMAIN pos :
                    /\ u.rank[n] \in 1..Keep /\ RowOf(n, day) # NoRow
                    /\ DOMAIN pos' = DOMAIN pos \cup {n}
                    /\ \A x \in DOMAIN pos : pos'[x] = pos[x]
                    /\ pos'[n] \in Holding /\ pos'[n].miss = 0 /\ ~pos'[n].sell
                    /\ cash' \in Int /\ cash' >= cash - slotCash /\ need' = need - 1
  <1> SUFFICES ASSUME ~UNCHANGED <<pos, cash, need>>
               PROVE  LET u == Rebalance(market, day)
                      IN \E n \in Names \ DOMAIN pos :
                            /\ u.rank[n] \in 1..Keep /\ RowOf(n, day) # NoRow
                            /\ DOMAIN pos' = DOMAIN pos \cup {n}
                            /\ \A x \in DOMAIN pos : pos'[x] = pos[x]
                            /\ pos'[n] \in Holding /\ pos'[n].miss = 0 /\ ~pos'[n].sell
                            /\ cash' \in Int /\ cash' >= cash - slotCash /\ need' = need - 1
    OBVIOUS
  <1> DEFINE u == Rebalance(market, day)
             slip(n) == SlipFor(u.liquid[n])
             b(n) == Affordable(RowOf(n, day).close, slip(n), u.cap[n])
             h(n) == [worth |-> b(n).shares * RowOf(n, day).close, basis |-> b(n).paid, bought |-> day,
                      last |-> RowOf(n, day).adj, slip |-> slip(n), miss |-> 0, sell |-> FALSE,
                      fmv |-> IF day <= FmvDay THEN b(n).shares * RowOf(n, day).close ELSE NoFmv]
  <1>1. PICK n \in Names \ DOMAIN pos :
            /\ u.rank[n] = rankAt /\ RowOf(n, day) # NoRow /\ b(n).shares > 0
            /\ cash' = cash - b(n).paid /\ need' = need - 1
            /\ pos' = [x \in DOMAIN pos \cup {n} |-> IF x # n THEN pos[x] ELSE h(n)]
    BY Zenon DEF BuyNext
  <1>2. rankAt \in 1..Keep
    BY MomentumAssumption DEF MomTyped, BuyNext
  <1>3. u \in [on : BOOLEAN, rank : [Names -> Nat], liquid : [Names -> BOOLEAN], cap : [Names -> Nat]]
    BY BookTypedToday DEF MomTyped
  <1>4. u.cap[n] \in Nat /\ slip(n) \in Nat
    <2>1. u.cap[n] \in Nat
      <3> HIDE DEF u
      <3> QED BY <1>3
    <2> QED BY <2>1, SlipNat
  <1>5. RowOf(n, day).close \in Nat \ {0} /\ RowOf(n, day).adj \in Nat \ {0}
    BY <1>1, RowTyped DEF MomTyped
  <1>6. b(n).shares \in Int /\ b(n).paid \in Int /\ b(n).paid <= slotCash
    BY <1>1, <1>4, <1>5, AffordableFits
  <1>7. cash \in Int /\ slotCash \in Int /\ day \in Nat
    BY MomentumAssumption DEF MomTyped
  <1> HIDE DEF b, slip, u
  <1>8. cash' \in Int /\ cash' >= cash - slotCash
    BY <1>1, <1>6, <1>7
  <1>9. h(n) \in Holding /\ h(n).miss = 0 /\ ~h(n).sell
    <2> DEFINE w == b(n).shares * RowOf(n, day).close
               g == IF day <= FmvDay THEN w ELSE NoFmv
    <2>1. w \in Int
      BY <1>5, <1>6
    <2>2. g \in Int \cup {NoFmv}
      <3> HIDE DEF w
      <3> QED BY <2>1, Zenon
    <2>3. h(n) = [worth |-> w, basis |-> b(n).paid, bought |-> day, last |-> RowOf(n, day).adj,
                  slip |-> slip(n), miss |-> 0, sell |-> FALSE, fmv |-> g]
      OBVIOUS
    <2> HIDE DEF h, w, g
    <2> QED BY <1>4, <1>5, <1>6, <1>7, <2>1, <2>2, <2>3 DEF Holding
  <1> HIDE DEF h
  <1>10. /\ DOMAIN pos' = DOMAIN pos \cup {n} /\ pos'[n] = h(n)
         /\ \A x \in DOMAIN pos : pos'[x] = pos[x]
    BY <1>1
  <1>11. u.rank[n] \in 1..Keep
    BY <1>1, <1>2
  <1> QED BY <1>1, <1>8, <1>9, <1>10, <1>11, Zenon DEF u

LEMMA SellAllBooks ==
    ASSUME MomTyped, SellAll
    PROVE  DOMAIN pos' = {} /\ cash' \in Int /\ gains' \in [{"st", "lt"} \X Years -> Int]
  <1> DEFINE nets == [n \in DOMAIN pos |-> Net(pos[n].worth, pos[n].slip)]
             none == [n \in {} |-> 0]
  <1>1. Sell(nets, day, none)
    BY DEF SellAll
  <1>2. \A n \in DOMAIN pos : nets[n] \in Int
    <2>1. \A n \in DOMAIN pos : pos[n].worth \in Int /\ pos[n].slip \in Int
      BY DEF MomTyped, Holding
    <2> QED BY <2>1, NetInt
  <1>3. DOMAIN nets = DOMAIN pos /\ DOMAIN none = {} /\ DOMAIN pos \in SUBSET DOMAIN pos
    OBVIOUS
  <1> HIDE DEF nets, none
  <1>4. pos' = none /\ cash' \in Int /\ gains' \in [{"st", "lt"} \X Years -> Int]
    BY <1>1, <1>2, <1>3, SellBooks
  <1> QED BY <1>3, <1>4

-----------------------------------------------------------------------------
(* MomentumBook: nothing is bought back on the day of its sale, nor on credit *)

\* The last session whose marks are made.
Seen == IF phase = "mark" THEN day - 1 ELSE day

\* A sale that is left over is left from a rebalance since which the name had no row,
\* and a name that has none for long enough is gone.
LeftOver(n, e) ==
    /\ pos[n].miss < Missing
    /\ pos[n].sell => \E d \in 1..Sessions :
                        /\ d <= e /\ Rebalance(market, d) # NoBook
                        /\ pos[n].miss >= e - d + 1

\* What was sold today is no longer held, and no name of today's book to be bought.
SoldIsGone ==
    \A n \in soldToday :
        /\ n \notin DOMAIN pos
        /\ Rebalance(market, day) # NoBook =>
            \/ RowOf(n, day) = NoRow
            \/ ~Rebalance(market, day).on
            \/ Rebalance(market, day).rank[n] \notin 1..Keep

MomInv ==
    /\ MomTyped
    /\ MomentumLossUsedOnce
    /\ \A n \in DOMAIN pos : LeftOver(n, Seen)
    /\ phase = "mark" => soldToday = {}
    /\ SoldIsGone
    /\ phase = "rebalance" => /\ Rebalance(market, day) # NoBook
                              /\ \A n \in DOMAIN pos : RowOf(n, day) = NoRow => pos[n].miss >= 1
    /\ phase = "buy" => /\ Rebalance(market, day) # NoBook /\ Rebalance(market, day).on
                        /\ cash >= need * slotCash

LEMMA MomInvStart == MomInit => MomInv
  <1> SUFFICES ASSUME MomInit PROVE MomInv
    OBVIOUS
  <1>1. MomTyped
    BY MomStart
  <1>2. DOMAIN pos = {} /\ soldToday = {} /\ phase = "mark"
    BY DEF MomInit
  <1>3. MomentumLossUsedOnce
    BY DEF MomInit, MomentumLossUsedOnce
  <1> QED BY <1>1, <1>2, <1>3 DEF MomInv, SoldIsGone

\* Marking a session.
LEMMA MarkKeeps ==
    ASSUME MomInv, Mark
    PROVE  MomInv'
  <1> DEFINE out == ForcedOut \cup PendingOut
  <1>1. /\ phase = "mark" /\ phase' \in {"tax", "rebalance"}
        /\ phase' = "rebalance" => Rebalance(market, day) # NoBook
        /\ market' = market /\ day' = day
        /\ UNCHANGED <<taxState, buying>>
    BY DEF Mark
  <1>2. /\ DOMAIN pos' = DOMAIN pos \ out
        /\ \A n \in DOMAIN pos' : pos'[n] = Marked(pos[n], n, day)
        /\ cash' \in Int /\ gains' \in [{"st", "lt"} \X Years -> Int]
        /\ soldToday' = out
    BY MarkBooks DEF MomInv
  <1> HIDE DEF out
  <1>3. \A n \in DOMAIN pos : /\ Marked(pos[n], n, day) \in Holding
                              /\ Marked(pos[n], n, day).sell = pos[n].sell
                              /\ Marked(pos[n], n, day).miss = IF RowOf(n, day) = NoRow THEN pos[n].miss + 1 ELSE 0
    BY MarkedTyped DEF MomInv
  <1>4. MomTyped'
    <2>1. DOMAIN pos' \subseteq Names /\ \A n \in DOMAIN pos' : pos'[n] \in Holding
      BY <1>2, <1>3 DEF MomInv, MomTyped
    <2> QED BY <1>1, <1>2, <2>1, Zenon DEF MomInv, MomTyped, taxState, buying, Years
  <1>5. MomentumLossUsedOnce'
    BY <1>1 DEF MomInv, MomentumLossUsedOnce, taxState
  <1>6. day \in Nat \ {0} /\ day \in 1..Sessions /\ Seen = day - 1 /\ Missing \in Nat \ {0}
    BY <1>1, MomentumAssumption DEF MomInv, MomTyped, Seen
  <1>7. \A n \in DOMAIN pos : pos[n].miss \in Nat
    BY DEF MomInv, MomTyped, Holding
  <1>8. ASSUME NEW n \in DOMAIN pos'
        PROVE  /\ pos'[n].miss < Missing
               /\ pos'[n].sell => RowOf(n, day) = NoRow /\ pos[n].sell
               /\ RowOf(n, day) = NoRow => pos'[n].miss = pos[n].miss + 1
    <2>1. n \in DOMAIN pos /\ n \notin ForcedOut /\ n \notin PendingOut /\ pos'[n] = Marked(pos[n], n, day)
      BY <1>2 DEF out
    <2>2. LeftOver(n, Seen)
      BY <2>1 DEF MomInv
    <2>3. pos[n].miss < Missing /\ pos[n].miss \in Nat
      BY <1>7, <2>1, <2>2 DEF LeftOver
    <2>4. RowOf(n, day) = NoRow => Marked(pos[n], n, day).miss # Missing
      BY <2>1 DEF ForcedOut
    <2>5. Marked(pos[n], n, day).sell => RowOf(n, day) = NoRow
      BY <2>1 DEF PendingOut
    <2> QED BY <1>3, <1>6, <2>1, <2>3, <2>4, <2>5
  <1>9. ASSUME NEW n \in DOMAIN pos' PROVE LeftOver(n, Seen)'
    <2>1. Seen' = day
      BY <1>1 DEF Seen
    <2>2. n \in DOMAIN pos /\ pos'[n].miss < Missing
      BY <1>2, <1>8
    <2>3. ASSUME pos'[n].sell
          PROVE  \E d \in 1..Sessions : /\ d <= day /\ Rebalance(market, d) # NoBook
                                        /\ pos'[n].miss >= day - d + 1
      <3>1. pos[n].sell /\ pos'[n].miss = pos[n].miss + 1 /\ pos[n].miss \in Nat
        BY <1>7, <1>8, <2>2, <2>3
      <3>2. PICK d \in 1..Sessions : /\ d <= day - 1 /\ Rebalance(market, d) # NoBook
                                     /\ pos[n].miss >= day - 1 - d + 1
        BY <1>6, <2>2, <3>1 DEF MomInv, LeftOver
      <3>3. d <= day /\ pos'[n].miss >= day - d + 1
        BY <1>6, <3>1, <3>2
      <3> QED BY <3>2, <3>3
    <2> QED BY <1>1, <2>1, <2>2, <2>3 DEF LeftOver
  <1>10. ASSUME Rebalance(market, day) # NoBook, NEW n \in out PROVE RowOf(n, day) = NoRow
    <2>1. ASSUME n \in PendingOut PROVE FALSE
      <3>1. n \in DOMAIN pos /\ pos[n].sell /\ LeftOver(n, day - 1) /\ pos[n].miss \in Nat
        BY <1>3, <1>6, <1>7, <2>1 DEF PendingOut, MomInv
      <3>2. PICK d \in 1..Sessions : /\ d <= day - 1 /\ Rebalance(market, d) # NoBook
                                     /\ pos[n].miss >= day - 1 - d + 1
        BY <3>1 DEF LeftOver
      <3>3. day - d > Missing
        <4>1. d < day /\ market \in MarketTapes
          BY <1>6, <3>2 DEF MomInv, MomTyped
        <4> QED BY <1>6, <1>10, <3>2, <4>1, MomentumAssumption
      <3>4. pos[n].miss < Missing
        BY <3>1 DEF LeftOver
      <3> QED BY <1>6, <3>1, <3>2, <3>3, <3>4
    <2> QED BY <2>1 DEF out, ForcedOut
  <1>11. SoldIsGone'
    <2>1. \A n \in out : /\ n \notin DOMAIN pos'
                         /\ Rebalance(market, day) # NoBook => RowOf(n, day) = NoRow
      BY <1>2, <1>10
    <2> QED BY <1>1, <1>2, <2>1, Zenon DEF SoldIsGone, RowOf
  <1>12. phase' = "rebalance" => \A n \in DOMAIN pos' : RowOf(n, day) = NoRow => pos'[n].miss >= 1
    <2>1. \A n \in DOMAIN pos' : pos[n].miss \in Nat
      BY <1>2, <1>7
    <2> QED BY <1>8, <2>1
  <1> QED BY <1>1, <1>4, <1>5, <1>9, <1>11, <1>12 DEF MomInv, RowOf

\* Selling what fell out of the ranks.
LEMMA RebalancedKeeps ==
    ASSUME MomInv, Rebalanced
    PROVE  MomInv'
  <1> DEFINE u == Rebalance(market, day)
             out == RankedOut(u)
  <1>1. /\ phase = "rebalance" /\ phase' = "tax"
        /\ market' = market /\ day' = day
        /\ UNCHANGED <<taxState, buying>>
    BY DEF Rebalanced
  <1>2. /\ u # NoBook /\ MomTyped /\ MomentumLossUsedOnce
        /\ \A n \in DOMAIN pos : RowOf(n, day) = NoRow => pos[n].miss >= 1
    BY <1>1 DEF MomInv
  <1>3. /\ DOMAIN pos' = DOMAIN pos \ RankedOut(Rebalance(market, day))
        /\ \A n \in DOMAIN pos' : /\ pos'[n] \in Holding /\ pos'[n].miss = pos[n].miss
                                  /\ pos'[n].sell => pos[n].sell \/ RowOf(n, day) = NoRow
        /\ cash' \in Int /\ gains' \in [{"st", "lt"} \X Years -> Int]
        /\ soldToday' = soldToday \cup RankedOut(Rebalance(market, day))
    BY <1>2, RebalancedBooks, Zenon
  <1>4. \A n \in out : n \notin DOMAIN pos' /\ (~u.on \/ u.rank[n] \notin 1..Keep)
    BY <1>3 DEF RankedOut, StayIn
  <1> HIDE DEF u, out
  <1>5. MomTyped'
    <2>1. DOMAIN pos' \subseteq Names /\ \A n \in DOMAIN pos' : pos'[n] \in Holding
      BY <1>2, <1>3 DEF MomTyped
    <2> QED BY <1>1, <1>2, <1>3, <2>1, Zenon DEF MomTyped, taxState, buying, Years
  <1>6. MomentumLossUsedOnce'
    BY <1>1, <1>2 DEF MomentumLossUsedOnce, taxState
  <1>7. day \in Nat \ {0} /\ day \in 1..Sessions /\ Seen = day /\ Seen' = day
    BY <1>1, <1>2, MomentumAssumption DEF MomTyped, Seen
  <1>8. ASSUME NEW n \in DOMAIN pos' PROVE LeftOver(n, Seen)'
    <2>1. n \in DOMAIN pos /\ LeftOver(n, day) /\ pos'[n].miss = pos[n].miss /\ pos[n].miss \in Nat
      BY <1>2, <1>3, <1>7 DEF MomInv, MomTyped, Holding
    <2>2. pos'[n].miss < Missing
      BY <2>1 DEF LeftOver
    <2>3. ASSUME pos'[n].sell
          PROVE  \E d \in 1..Sessions : /\ d <= day /\ Rebalance(market, d) # NoBook
                                        /\ pos'[n].miss >= day - d + 1
      <3>1. CASE pos[n].sell
        BY <2>1, <3>1 DEF LeftOver
      <3>2. CASE RowOf(n, day) = NoRow
        <4>1. pos'[n].miss >= day - day + 1
          BY <1>2, <1>7, <2>1, <3>2
        <4>2. day <= day /\ Rebalance(market, day) # NoBook
          BY <1>2, <1>7 DEF u
        <4> QED BY <1>7, <4>1, <4>2
      <3> QED BY <1>3, <2>3, <3>1, <3>2
    <2> QED BY <1>1, <1>7, <2>2, <2>3 DEF LeftOver
  <1>9. SoldIsGone'
    <2>1. \A n \in soldToday : /\ n \notin DOMAIN pos'
                               /\ u # NoBook => RowOf(n, day) = NoRow \/ ~u.on \/ u.rank[n] \notin 1..Keep
      BY <1>3 DEF MomInv, SoldIsGone, u
    <2> QED BY <1>1, <1>3, <1>4, <2>1, Zenon DEF SoldIsGone, RowOf, u, out
  <1> QED BY <1>1, <1>5, <1>6, <1>8, <1>9 DEF MomInv

\* Buying the name of a rank.
LEMMA BuyKeeps ==
    ASSUME MomInv, BuyNext
    PROVE  MomInv' /\ (Cardinality(DOMAIN pos') > Cardinality(DOMAIN pos) => cash' >= 0)
  <1> DEFINE u == Rebalance(market, day)
  <1>1. /\ phase = "buy" /\ phase' = "buy" /\ market' = market /\ day' = day
        /\ need > 0 /\ slotCash > 0 /\ rankAt' = rankAt + 1
        /\ UNCHANGED <<gains, taxState, slotCash, soldToday>>
    BY DEF BuyNext
  <1>2. /\ u # NoBook /\ u.on /\ cash >= need * slotCash /\ MomTyped /\ MomentumLossUsedOnce /\ SoldIsGone
        /\ \A n \in DOMAIN pos : LeftOver(n, Seen)
    BY <1>1 DEF MomInv
  <1>3. /\ day \in Nat \ {0} /\ Seen = day /\ Seen' = day /\ Missing \in Nat \ {0}
        /\ cash \in Int /\ need \in Int /\ slotCash \in Int /\ rankAt \in Nat \ {0}
    BY <1>1, <1>2, MomentumAssumption DEF MomTyped, Seen
  <1>4. MomentumLossUsedOnce'
    BY <1>1, <1>2 DEF MomentumLossUsedOnce, taxState
  <1>5. CASE UNCHANGED <<pos, cash, need>>
    <2>1. MomTyped'
      BY <1>1, <1>2, <1>3, <1>5 DEF MomTyped, taxState, Years
    <2>2. \A n \in DOMAIN pos' : LeftOver(n, Seen)'
      BY <1>1, <1>2, <1>3, <1>5, Zenon DEF LeftOver
    <2>3. SoldIsGone'
      BY <1>1, <1>2, <1>5, Zenon DEF SoldIsGone, RowOf
    <2>4. cash' >= need' * slotCash'
      BY <1>1, <1>2, <1>5
    <2>5. ~(Cardinality(DOMAIN pos') > Cardinality(DOMAIN pos))
      <3>1. Cardinality(DOMAIN pos) \in Nat
        BY <1>2, PositionsFinite, FS_CardinalityType
      <3> QED BY <1>5, <3>1
    <2> QED BY <1>1, <1>2, <1>4, <2>1, <2>2, <2>3, <2>4, <2>5 DEF MomInv
  <1>6. CASE ~UNCHANGED <<pos, cash, need>>
    <2>1. PICK n \in Names \ DOMAIN pos :
                    /\ u.rank[n] \in 1..Keep /\ RowOf(n, day) # NoRow
                    /\ DOMAIN pos' = DOMAIN pos \cup {n}
                    /\ \A x \in DOMAIN pos : pos'[x] = pos[x]
                    /\ pos'[n] \in Holding /\ pos'[n].miss = 0 /\ ~pos'[n].sell
                    /\ cash' \in Int /\ cash' >= cash - slotCash /\ need' = need - 1
      BY <1>2, <1>6, BuyBooks
    <2>2. MomTyped'
      <3>1. DOMAIN pos' \subseteq Names /\ \A x \in DOMAIN pos' : pos'[x] \in Holding
        BY <1>2, <2>1 DEF MomTyped
      <3>2. rankAt' \in Nat \ {0} /\ need' \in Int
        BY <1>1, <1>3, <2>1
      <3> QED BY <1>1, <1>2, <2>1, <3>1, <3>2, Zenon DEF MomTyped, taxState, Years
    <2>3. ASSUME NEW x \in DOMAIN pos' PROVE LeftOver(x, Seen)'
      <3>1. CASE x = n
        BY <1>3, <2>1, <3>1 DEF LeftOver
      <3>2. CASE x # n
        <4>1. x \in DOMAIN pos /\ pos'[x] = pos[x] /\ LeftOver(x, Seen)
          BY <1>2, <2>1, <3>2
        <4> QED BY <1>1, <1>3, <4>1, Zenon DEF LeftOver
      <3> QED BY <3>1, <3>2
    <2>4. n \notin soldToday
      BY <1>2, <2>1 DEF SoldIsGone
    <2>5. SoldIsGone'
      <3>1. \A x \in soldToday : x \notin DOMAIN pos'
        BY <1>2, <2>1, <2>4 DEF SoldIsGone
      <3> QED BY <1>1, <1>2, <3>1, Zenon DEF SoldIsGone, RowOf
    <2>6. cash' >= need' * slotCash' /\ cash' >= 0
      <3>1. \A m, s, c, d \in Int : m > 0 /\ s > 0 /\ c >= m * s /\ d >= c - s => d >= (m - 1) * s /\ d >= 0
        <4> TAKE m, s, c, d \in Int
        <4> HAVE m > 0 /\ s > 0 /\ c >= m * s /\ d >= c - s
        <4>1. m * s - s = (m - 1) * s /\ m * s \in Int
          OBVIOUS
        <4>2. (m - 1) * s >= 0
          OBVIOUS
        <4> QED BY <4>1, <4>2
      <3>2. slotCash' = slotCash /\ need' = need - 1
        BY <1>1, <2>1
      <3> QED BY <1>1, <1>2, <1>3, <2>1, <3>1, <3>2
    <2> QED BY <1>1, <1>2, <1>4, <2>2, <2>3, <2>5, <2>6 DEF MomInv
  <1> QED BY <1>5, <1>6

\* Paying the tax of a year.
LEMMA PayKeeps ==
    ASSUME MomInv, PayDue \/ PayRest
    PROVE  MomInv'
  <1>1. /\ Pay(dueYear) /\ dueYear' = dueYear + 1 /\ phase \in {"tax", "over"}
        /\ UNCHANGED <<market, day, phase, pos, buying, soldToday>>
    BY DEF PayDue, PayRest
  <1>2. dueYear \in Years
    <2>1. ASSUME PayDue PROVE dueYear \in Years
      <3>1. YearOf(day) \in Years /\ dueYear \in Nat \ {0} /\ YearOf(day) > dueYear
        BY <2>1, YearsGoBy DEF MomInv, MomTyped, PayDue
      <3>2. YearOf(Sessions) \in Nat
        BY MomentumAssumption, YearAssumption
      <3> QED BY <3>1, <3>2 DEF Years
    <2> QED BY <2>1, Zenon DEF PayRest
  <1>3. /\ cash' \in Int /\ gains' \in [{"st", "lt"} \X Years -> Int]
        /\ carried' \in [st : Int, lt : Int] /\ taxed' \in Int /\ closedGains' \in Int
        /\ MomentumLossUsedOnce'
    BY <1>1, <1>2, PayTyped DEF MomInv
  <1>4. MomTyped'
    <2>1. dueYear' \in Nat \ {0}
      BY <1>1 DEF MomInv, MomTyped
    <2> QED BY <1>1, <1>3, <2>1, Zenon DEF MomInv, MomTyped, buying, Years
  <1>6. SoldIsGone' /\ \A n \in DOMAIN pos' : LeftOver(n, Seen)'
    <2>1. Seen' = Seen
      BY <1>1 DEF Seen
    <2> QED BY <1>1, <2>1, Zenon DEF MomInv, SoldIsGone, RowOf, LeftOver
  <1> QED BY <1>1, <1>3, <1>4, <1>6 DEF MomInv

LEMMA StartBuyingKeeps ==
    ASSUME MomInv, StartBuying
    PROVE  MomInv'
  <1> DEFINE u == Rebalance(market, day)
             n == Slots - Cardinality({x \in DOMAIN pos : ~pos[x].sell})
  <1>1. /\ phase = "tax" /\ rankAt' = 1
        /\ UNCHANGED <<market, day, bookOf, taxState, soldToday>>
        /\ \/ u # NoBook /\ u.on /\ n > 0 /\ cash > 0 /\ phase' = "buy" /\ need' = n /\ slotCash' = cash \div n
           \/ phase' = "close" /\ need' = 0 /\ slotCash' = 0
    BY DEF StartBuying
  <1>2. n \in Int /\ cash \in Int
    <2>1. IsFiniteSet({x \in DOMAIN pos : ~pos[x].sell})
      BY PositionsFinite DEF MomInv
    <2>2. Cardinality({x \in DOMAIN pos : ~pos[x].sell}) \in Nat
      BY <2>1, FS_CardinalityType
    <2> HIDE DEF MomInv
    <2> QED BY <2>2, MomentumAssumption DEF MomInv, MomTyped
  <1> HIDE DEF n, u
  <1>3. need' \in Int /\ slotCash' \in Int /\ rankAt' \in Nat \ {0}
    BY <1>1, <1>2
  <1>4. MomTyped'
    BY <1>1, <1>3, Zenon DEF MomInv, MomTyped, bookOf, taxState, Years
  <1>5. phase' = "buy" => u # NoBook /\ u.on /\ cash' >= need' * slotCash'
    <2> SUFFICES ASSUME phase' = "buy" PROVE u # NoBook /\ u.on /\ cash' >= need' * slotCash'
      OBVIOUS
    <2>1. u # NoBook /\ u.on /\ n > 0 /\ need' = n /\ slotCash' = cash \div n /\ cash' = cash
      BY <1>1 DEF bookOf
    <2>2. n * (cash \div n) <= cash
      BY <1>2, <2>1
    <2> QED BY <2>1, <2>2
  <1>6. SoldIsGone' /\ MomentumLossUsedOnce' /\ \A x \in DOMAIN pos' : LeftOver(x, Seen)'
    <2>1. Seen' = Seen
      BY <1>1 DEF Seen
    <2> QED BY <1>1, <2>1, Zenon DEF MomInv, SoldIsGone, RowOf, LeftOver, MomentumLossUsedOnce, bookOf, taxState
  <1> QED BY <1>1, <1>4, <1>5, <1>6 DEF MomInv, u

LEMMA OthersKeep ==
    ASSUME MomInv, DoneBuying \/ NextSession \/ SellAll \/ UNCHANGED momVars
    PROVE  MomInv'
  <1>1. CASE DoneBuying
    <2>1. /\ phase' = "close" /\ Seen' = Seen
          /\ UNCHANGED <<market, day, bookOf, taxState, buying, soldToday>>
      BY <1>1 DEF DoneBuying, Seen
    <2> QED BY <2>1 DEF MomInv, MomTyped, SoldIsGone, RowOf, LeftOver, MomentumLossUsedOnce,
                        bookOf, taxState, buying, Years
  <1>2. CASE NextSession
    <2>1. /\ phase' = "mark" /\ day' = day + 1 /\ phase = "close" /\ soldToday' = {}
          /\ UNCHANGED <<market, bookOf, taxState, buying>>
          /\ day \in Nat /\ day' \in 1..Sessions
      BY <1>2, MomentumAssumption DEF NextSession, MomInv, MomTyped
    <2>2. Seen' = Seen
      BY <2>1 DEF Seen
    <2>3. MomTyped'
      BY <2>1, Zenon DEF MomInv, MomTyped, bookOf, taxState, buying, Years
    <2>4. MomentumLossUsedOnce' /\ \A n \in DOMAIN pos' : LeftOver(n, Seen)'
      BY <2>1, <2>2, Zenon DEF MomInv, LeftOver, MomentumLossUsedOnce, bookOf, taxState
    <2> QED BY <2>1, <2>3, <2>4 DEF MomInv, SoldIsGone
  <1>3. CASE SellAll
    <2>1. /\ DOMAIN pos' = {} /\ cash' \in Int /\ gains' \in [{"st", "lt"} \X Years -> Int]
          /\ phase' = "over" /\ UNCHANGED <<market, day, taxState, buying, soldToday>>
      BY <1>3, SellAllBooks DEF MomInv, SellAll
    <2>2. MomTyped'
      BY <2>1, Zenon DEF MomInv, MomTyped, taxState, buying, Years
    <2>3. MomentumLossUsedOnce'
      BY <2>1 DEF MomInv, MomentumLossUsedOnce, taxState
    <2>4. SoldIsGone'
      BY <2>1, Zenon DEF MomInv, SoldIsGone, RowOf
    <2> QED BY <2>1, <2>2, <2>3, <2>4 DEF MomInv
  <1>4. CASE UNCHANGED momVars
    BY <1>4 DEF MomInv, MomTyped, SoldIsGone, RowOf, LeftOver, MomentumLossUsedOnce, Seen,
                momVars, Years
  <1> QED BY <1>1, <1>2, <1>3, <1>4

LEMMA MomStep == MomInv /\ [MomNext]_momVars => MomInv'
  <1> SUFFICES ASSUME MomInv, [MomNext]_momVars PROVE MomInv'
    OBVIOUS
  <1>1. CASE Mark
    BY <1>1, MarkKeeps
  <1>2. CASE Rebalanced
    BY <1>2, RebalancedKeeps
  <1>3. CASE BuyNext
    BY <1>3, BuyKeeps
  <1>4. CASE PayDue \/ PayRest
    BY <1>4, PayKeeps
  <1>5. CASE StartBuying
    BY <1>5, StartBuyingKeeps
  <1>6. CASE DoneBuying \/ NextSession \/ SellAll \/ UNCHANGED momVars
    BY <1>6, OthersKeep
  <1> QED BY <1>1, <1>2, <1>3, <1>4, <1>5, <1>6 DEF MomNext

LEMMA AlwaysMomInv == MomSpec => []MomInv
  BY MomInvStart, MomStep, PTL DEF MomSpec

\* No name is bought back in the session in which it was sold, whichever way: what is
\* left over from a rebalance has no row since, and is gone before the next one.
THEOREM NeverRebuysToday == MomSpec => []NeverRebuysSameDay
  <1>1. MomInv => NeverRebuysSameDay
    BY DEF MomInv, SoldIsGone, NeverRebuysSameDay
  <1> QED BY <1>1, AlwaysMomInv, PTL

\* The set-off of losses, this year's and carried, short-term and long-term, loses
\* none and uses none twice, for every sequence of trades.
THEOREM MomentumLossOnce == MomSpec => []MomentumLossUsedOnce
  <1>1. MomInv => MomentumLossUsedOnce
    BY DEF MomInv
  <1> QED BY <1>1, AlwaysMomInv, PTL

\* Only a purchase adds a name to the book.
LEMMA OnlyBuyingAdds ==
    ASSUME MomInv, MomNext, ~BuyNext
    PROVE  DOMAIN pos' \subseteq DOMAIN pos
  <1>1. CASE Mark
    BY <1>1, MarkBooks DEF MomInv
  <1>2. CASE Rebalanced
    <2>1. Rebalance(market, day) # NoBook
      BY <1>2 DEF MomInv, Rebalanced
    <2>2. DOMAIN pos' = DOMAIN pos \ RankedOut(Rebalance(market, day))
      BY <1>2, <2>1, RebalancedBooks DEF MomInv
    <2> QED BY <2>2
  <1>3. CASE SellAll
    BY <1>3, SellAllBooks DEF MomInv
  <1>4. CASE PayDue \/ PayRest \/ StartBuying \/ DoneBuying \/ NextSession
    <2>1. pos' = pos
      BY <1>4 DEF PayDue, PayRest, StartBuying, DoneBuying, NextSession, bookOf
    <2> QED BY <2>1
  <1> QED BY <1>1, <1>2, <1>3, <1>4 DEF MomNext

\* Whatever is bought is paid from cash: each purchase costs at most a slot with its
\* fees, and the selection takes no more names than the cash has slots for.
THEOREM NeverOnCredit == MomSpec => NeverBuysOnCredit
  <1>1. MomInv /\ [MomNext]_momVars
        => [Cardinality(DOMAIN pos') > Cardinality(DOMAIN pos) => cash' >= 0]_momVars
    <2> SUFFICES ASSUME MomInv, MomNext, Cardinality(DOMAIN pos') > Cardinality(DOMAIN pos)
                 PROVE  cash' >= 0
      BY Zenon
    <2>1. CASE BuyNext
      BY <2>1, BuyKeeps
    <2>2. CASE ~BuyNext
      <3>1. DOMAIN pos' \subseteq DOMAIN pos /\ IsFiniteSet(DOMAIN pos)
        BY <2>2, OnlyBuyingAdds, PositionsFinite DEF MomInv
      <3>2. Cardinality(DOMAIN pos') <= Cardinality(DOMAIN pos)
            /\ Cardinality(DOMAIN pos') \in Nat /\ Cardinality(DOMAIN pos) \in Nat
        BY <3>1, FS_Subset, FS_CardinalityType
      <3> QED BY <3>2
    <2> QED BY <2>1, <2>2
  <1> QED BY <1>1, AlwaysMomInv, PTL DEF MomSpec, NeverBuysOnCredit

-----------------------------------------------------------------------------
(* TrendBook: the slot of a market *)

Fields == {"lots", "con", "conProd", "last", "mult", "prod", "pend", "sizedIn", "pnl", "cost", "spent"}

SlotOk(x, m) ==
    /\ DOMAIN x = Fields
    /\ x.lots \in Int /\ x.last \in Int /\ x.mult \in Int
    /\ x.pnl \in Int /\ x.cost \in Int /\ x.spent \in Int
    /\ x.pend \in Int \cup {NoOrder}
    /\ x.prod \in Products[m] \cup {NoProduct}
    /\ x.con # NoFuture => /\ x.conProd \in Products[m]
                           /\ \E d \in 1..LastSession : x.con = ContractOf(tape, x.conProd, d)

\* What the lots are worth at their mark, less what the session put into and took out
\* of them: no step of a session changes it.
Ledger(x) == x.lots * x.mult * x.last - x.spent - x.pnl

Prices == [open : Nat \ {0}, close : Nat \ {0}]

LEMMA RndInt == \A a \in Int, b \in Nat \ {0} : Rnd(a, b) \in Int
  BY DEF Rnd

LEMMA OrderCostInt ==
    ASSUME NEW n \in Int, NEW price \in Int, NEW mult \in Int
    PROVE  OrderCost(n, price, mult) \in Int
  <1>1. Magnitude(n) \in Int
    BY DEF Magnitude
  <1>2. (IF n > 0 THEN FutBuyPermille ELSE FutSellPermille) \in Int /\ TickSize \in Int
    BY TrendAssumption
  <1> DEFINE f == IF n > 0 THEN FutBuyPermille ELSE FutSellPermille
             k == Magnitude(n)
  <1>3. OrderCost(n, price, mult) = (k * mult * price * f) \div 1000 + k * mult * TickSize
    BY DEF OrderCost
  <1>4. f \in Int /\ k \in Int
    BY <1>1, <1>2
  <1> HIDE DEF f, k
  <1>5. k * mult * price * f \in Int /\ k * mult * TickSize \in Int
    BY <1>2, <1>4
  <1>6. (k * mult * price * f) \div 1000 \in Int
    BY <1>5
  <1> QED BY <1>3, <1>5, <1>6

LEMMA TradeKeeps ==
    ASSUME NEW m, NEW x, SlotOk(x, m), NEW n \in Int, NEW price \in Int
    PROVE  LET y == Trade(x, n, price)
           IN /\ SlotOk(y, m) /\ y.lots = x.lots + n /\ y.spent = x.spent + n * x.mult * price
              /\ y.con = x.con /\ y.conProd = x.conProd /\ y.last = x.last /\ y.mult = x.mult
              /\ y.prod = x.prod /\ y.pend = x.pend /\ y.pnl = x.pnl
              /\ price = x.last => Ledger(y) = Ledger(x)
  <1> DEFINE l == x.lots + n
             s == x.spent + n * x.mult * price
             c == x.cost + OrderCost(n, price, x.mult)
             y == Trade(x, n, price)
  <1>1. y = Put(x, [lots |-> l, spent |-> s, cost |-> c])
    BY DEF Trade
  <1>2. l \in Int /\ s \in Int /\ c \in Int
    <2>1. x.lots \in Int /\ x.spent \in Int /\ x.mult \in Int /\ x.cost \in Int
      BY DEF SlotOk
    <2>2. OrderCost(n, price, x.mult) \in Int
      BY <2>1, OrderCostInt
    <2> QED BY <2>1, <2>2
  <1>3. DOMAIN x = Fields
    BY DEF SlotOk
  <1> HIDE DEF l, s, c, y
  <1>4. /\ DOMAIN y = Fields /\ y.lots = l /\ y.spent = s /\ y.cost = c
        /\ y.con = x.con /\ y.conProd = x.conProd /\ y.last = x.last /\ y.mult = x.mult
        /\ y.prod = x.prod /\ y.pend = x.pend /\ y.pnl = x.pnl
    BY <1>1, <1>3 DEF Put, Fields
  <1>5. SlotOk(y, m)
    BY <1>2, <1>4 DEF SlotOk
  <1>6. price = x.last => Ledger(y) = Ledger(x)
    <2> DEFINE a == x.lots
               b == x.mult
               e == x.last
               p == x.pnl
               q == x.spent
    <2>1. a \in Int /\ b \in Int /\ e \in Int /\ p \in Int /\ q \in Int
      BY DEF SlotOk
    <2> HIDE DEF a, b, e, p, q
    <2>2. (a + n) * b * e - (q + n * b * e) - p = a * b * e - q - p
      BY <2>1
    <2>3. (x.lots + n) * x.mult * x.last - (x.spent + n * x.mult * x.last) - x.pnl
          = x.lots * x.mult * x.last - x.spent - x.pnl
      BY <2>2, Zenon DEF a, b, e, p, q
    <2>4. /\ y.lots = x.lots + n /\ y.spent = x.spent + n * x.mult * price
          /\ y.mult = x.mult /\ y.last = x.last /\ y.pnl = x.pnl
      BY <1>4, Zenon DEF l, s
    <2> QED BY <2>3, <2>4, Zenon DEF Ledger
  <1>7. y.lots = x.lots + n /\ y.spent = x.spent + n * x.mult * price
    BY <1>4, Zenon DEF l, s
  <1> QED BY <1>4, <1>5, <1>6, <1>7, Zenon DEF y

\* Marking a quoted position to a price.
LEMMA MarkLedger ==
    ASSUME NEW m, NEW x, SlotOk(x, m), NEW price \in Int
    PROVE  LET y == Put(x, [pnl |-> x.pnl + x.lots * x.mult * (price - x.last), last |-> price])
           IN /\ SlotOk(y, m) /\ Ledger(y) = Ledger(x) /\ y.last = price
              /\ y.con = x.con /\ y.conProd = x.conProd /\ y.lots = x.lots /\ y.mult = x.mult
              /\ y.prod = x.prod /\ y.pend = x.pend
  <1> DEFINE g == x.pnl + x.lots * x.mult * (price - x.last)
             y == Put(x, [pnl |-> g, last |-> price])
  <1>1. x.lots \in Int /\ x.spent \in Int /\ x.mult \in Int /\ x.last \in Int /\ x.pnl \in Int
    BY DEF SlotOk
  <1>2. g \in Int
    BY <1>1
  <1>3. DOMAIN x = Fields
    BY DEF SlotOk
  <1>4. g = x.pnl + x.lots * x.mult * (price - x.last)
    OBVIOUS
  <1> HIDE DEF g
  <1>5. /\ DOMAIN y = Fields /\ y.pnl = g /\ y.last = price
        /\ y.con = x.con /\ y.conProd = x.conProd /\ y.lots = x.lots /\ y.mult = x.mult
        /\ y.prod = x.prod /\ y.pend = x.pend /\ y.spent = x.spent /\ y.cost = x.cost
    BY <1>3 DEF Put, Fields
  <1> HIDE DEF y
  <1>6. SlotOk(y, m)
    BY <1>2, <1>5 DEF SlotOk
  <1>7. Ledger(y) = Ledger(x)
    <2> DEFINE a == x.lots
               b == x.mult
               e == x.last
               p == x.pnl
               q == x.spent
    <2>0. a \in Int /\ b \in Int /\ e \in Int /\ p \in Int /\ q \in Int
      BY <1>1
    <2> HIDE DEF a, b, e, p, q
    <2>1. a * b * price - q - (p + a * b * (price - e)) = a * b * e - q - p
      BY <2>0
    <2>2. x.lots * x.mult * price - x.spent - (x.pnl + x.lots * x.mult * (price - x.last))
          = x.lots * x.mult * x.last - x.spent - x.pnl
      BY <2>1, Zenon DEF a, b, e, p, q
    <2> QED BY <1>4, <1>5, <2>2, Zenon DEF Ledger
  <1> QED BY <1>5, <1>6, <1>7, Zenon DEF g, y

LEMMA MarkOpenKeeps ==
    ASSUME NEW m, NEW x, SlotOk(x, m), NEW d, NEW q, q # NoQuote => q \in Prices
    PROVE  LET y == MarkOpen(x, q, d)
           IN /\ SlotOk(y, m) /\ Ledger(y) = Ledger(x)
              /\ q # NoQuote => y.last = q.open
  <1>1. CASE q # NoQuote
    <2>1. MarkOpen(x, q, d) = Put(x, [pnl |-> x.pnl + x.lots * x.mult * (q.open - x.last), last |-> q.open])
      BY <1>1 DEF MarkOpen
    <2>2. q.open \in Int
      BY <1>1 DEF Prices
    <2> QED BY <2>1, <2>2, MarkLedger
  <1>2. CASE q = NoQuote /\ x.con # NoFuture /\ x.lots # 0 /\ ExpiryDay(x.con) < d
    <2>1. MarkOpen(x, q, d) = Trade(x, -x.lots, x.last)
      BY <1>2, Zenon DEF MarkOpen
    <2>2. -x.lots \in Int /\ x.last \in Int
      BY DEF SlotOk
    <2> QED BY <1>2, <2>1, <2>2, TradeKeeps
  <1>3. CASE q = NoQuote /\ ~(x.con # NoFuture /\ x.lots # 0 /\ ExpiryDay(x.con) < d)
    <2>1. MarkOpen(x, q, d) = x
      BY <1>3, Zenon DEF MarkOpen
    <2> QED BY <1>3, <2>1
  <1> QED BY <1>1, <1>2, <1>3


LEMMA ListedQuoted ==
    ASSUME tape \in Tapes, NEW m \in Markets, NEW p \in Products[m], NEW d \in 1..LastSession,
           ContractOf(tape, p, d) # NoFuture
    PROVE  /\ Quote(tape, p, ContractOf(tape, p, d), d) \in Prices
           /\ Notional(p, d) \in Nat \ {0}
           /\ Vol(tape, p, d) # 0 => Notional(p, d) * Vol(tape, p, d) >= 100
  <1> DEFINE q == Quote(tape, p, ContractOf(tape, p, d), d)
             u == Mult(tape, p, d)
             v == Vol(tape, p, d)
  <1>1. /\ q \in {NoQuote} \cup Prices /\ q # NoQuote
        /\ v # 0 => q.close * u * v >= 100
        /\ u \in Nat \ {0} /\ v \in Nat
    BY TrendQuoteAssumption, Zenon DEF Prices
  <1>2. Notional(p, d) = q.close * u
    BY DEF Notional, ContractQuote
  <1>3. q.close \in Nat \ {0}
    BY <1>1 DEF Prices
  <1> HIDE DEF q, u, v
  <1>4. q.close * u \in Nat \ {0}
    BY <1>1, <1>3
  <1> QED BY <1>1, <1>2, <1>4, Zenon DEF q, v

LEMMA HeldQuoteTyped ==
    ASSUME tape \in Tapes, NEW m \in Markets, NEW x, SlotOk(x, m), NEW d \in 1..LastSession,
           HeldQuote(x, d) # NoQuote
    PROVE  HeldQuote(x, d) \in Prices
  <1>1. x.con # NoFuture /\ HeldQuote(x, d) = Quote(tape, x.conProd, x.con, d)
    BY DEF HeldQuote
  <1>2. PICK e \in 1..LastSession : x.con = ContractOf(tape, x.conProd, e)
    BY <1>1 DEF SlotOk
  <1>3. x.conProd \in Products[m]
    BY <1>1 DEF SlotOk
  <1>4. Quote(tape, x.conProd, ContractOf(tape, x.conProd, e), d) \in {NoQuote} \cup Prices
    BY <1>1, <1>2, <1>3, TrendQuoteAssumption, Zenon DEF Prices
  <1> QED BY <1>1, <1>2, <1>4

\* Rolling, switching and filling trade at the mark.
LEMMA RollAndFillKeeps ==
    ASSUME tape \in Tapes, NEW m \in Markets, NEW x, SlotOk(x, m), NEW d \in 1..LastSession,
           NEW q, q # NoQuote => q \in Prices /\ x.last = q.open
    PROVE  SlotOk(RollAndFill(x, q, d), m) /\ Ledger(RollAndFill(x, q, d)) = Ledger(x)
  <1> DEFINE new   == IF x.prod = NoProduct THEN NoFuture ELSE ContractOf(tape, x.prod, d)
             qn    == IF new = NoFuture THEN NoQuote ELSE Quote(tape, x.prod, new, d)
             rolls == /\ new # NoFuture /\ <<x.prod, new>> # <<x.conProd, x.con>>
                      /\ qn # NoQuote
                      /\ q # NoQuote \/ x.lots = 0
             want  == IF rolls THEN Wanted(x, q, qn, d)
                      ELSE IF x.pend # NoOrder THEN x.pend ELSE x.lots
             out   == IF rolls /\ x.lots # 0 THEN Trade(x, -x.lots, q.open) ELSE x
             y     == IF rolls
                      THEN Put(out, [con |-> new, conProd |-> x.prod,
                                     mult |-> Mult(tape, x.prod, d), last |-> qn.open])
                      ELSE out
             qy    == IF rolls THEN qn ELSE q
             fill  == qy # NoQuote /\ (x.prod = NoProduct \/ y.conProd = x.prod)
             z     == IF fill /\ want # y.lots THEN Trade(y, want - y.lots, qy.open) ELSE y
             w     == IF fill \/ want = z.lots THEN Put(z, [pend |-> NoOrder]) ELSE z
             end   == IF qy = NoQuote THEN w
                      ELSE Put(w, [pnl |-> w.pnl + w.lots * w.mult * (qy.close - w.last), last |-> qy.close])
  <1>1. RollAndFill(x, q, d) = end
    BY Zenon DEF RollAndFill
  <1>2. q # NoQuote => q.open \in Nat \ {0} /\ q.close \in Nat \ {0}
    BY DEF Prices
  <1>3. /\ x.lots \in Int /\ x.mult \in Int /\ x.pend \in Int \cup {NoOrder}
        /\ x.prod \in Products[m] \cup {NoProduct}
    BY DEF SlotOk
  <1>4. ASSUME rolls
        PROVE  /\ x.prod \in Products[m] /\ new = ContractOf(tape, x.prod, d) /\ new # NoFuture
               /\ qn \in Prices /\ qn.open \in Nat \ {0} /\ qn.close \in Nat \ {0}
               /\ Mult(tape, x.prod, d) \in Nat \ {0}
               /\ q # NoQuote \/ x.lots = 0
    <2>1. new # NoFuture /\ (q # NoQuote \/ x.lots = 0)
      BY <1>4
    <2>2. x.prod # NoProduct /\ new = ContractOf(tape, x.prod, d) /\ qn = Quote(tape, x.prod, new, d)
      BY <2>1
    <2>3. x.prod \in Products[m]
      BY <1>3, <2>2
    <2>4. qn \in Prices
      BY <2>1, <2>2, <2>3, ListedQuoted
    <2>5. Mult(tape, x.prod, d) \in Nat \ {0}
      BY <2>3, TrendQuoteAssumption, Zenon
    <2>6. qn.open \in Nat \ {0} /\ qn.close \in Nat \ {0}
      <3> HIDE DEF qn
      <3> QED BY <2>4 DEF Prices
    <2> QED BY <2>1, <2>2, <2>3, <2>4, <2>5, <2>6
  <1>5. want \in Int
    <2>1. CASE ~rolls
      <3>1. want = IF x.pend # NoOrder THEN x.pend ELSE x.lots
        BY <2>1
      <3> HIDE DEF want, rolls
      <3> QED BY <1>3, <3>1
    <2>2. CASE rolls
      <3>1. want = Wanted(x, q, qn, d)
        BY <2>2
      <3> HIDE DEF want, rolls, qn, new
      <3>2. ASSUME x.pend = NoOrder, x.prod # x.conProd, x.lots # 0
            PROVE  Rnd(x.lots * x.mult * q.open, Mult(tape, x.prod, d) * qn.open) \in Int
        <4>1. x.lots * x.mult * q.open \in Int
          BY <1>2, <1>3, <1>4, <2>2, <3>2
        <4>2. Mult(tape, x.prod, d) * qn.open \in Nat \ {0}
          BY <1>4, <2>2
        <4> QED BY <4>1, <4>2, RndInt
      <3>3. \/ want = x.pend /\ x.pend # NoOrder
            \/ /\ x.pend = NoOrder /\ x.prod # x.conProd /\ x.lots # 0
               /\ want = Rnd(x.lots * x.mult * q.open, Mult(tape, x.prod, d) * qn.open)
            \/ want = x.lots
        BY <3>1, Zenon DEF Wanted
      <3> QED BY <1>3, <3>2, <3>3
    <2> QED BY <2>1, <2>2
  <1>6. SlotOk(out, m) /\ Ledger(out) = Ledger(x) /\ out.prod = x.prod /\ (rolls => out.lots = 0)
        /\ out.last = x.last
    <2>1. CASE rolls /\ x.lots # 0
      <3>1. out = Trade(x, -x.lots, q.open) /\ q # NoQuote
        BY <2>1, Zenon
      <3>2. -x.lots \in Int /\ q.open \in Int /\ q.open = x.last /\ x.lots + (-x.lots) = 0
        BY <1>2, <1>3, <3>1
      <3> HIDE DEF out, rolls
      <3> QED BY <3>1, <3>2, TradeKeeps
    <2>2. CASE ~(rolls /\ x.lots # 0)
      <3>1. out = x
        BY <2>2, Zenon
      <3> HIDE DEF out, rolls
      <3> QED BY <2>2, <3>1
    <2> QED BY <2>1, <2>2
  <1>7. /\ SlotOk(y, m) /\ Ledger(y) = Ledger(x)
        /\ qy # NoQuote => qy.open \in Int /\ qy.close \in Int /\ y.last = qy.open
    <2>1. CASE rolls
      <3> DEFINE u == Mult(tape, x.prod, d)
                 l == qn.open
      <3>1. y = Put(out, [con |-> new, conProd |-> x.prod, mult |-> u, last |-> l]) /\ qy = qn
        BY <2>1, Zenon
      <3>2. u \in Int /\ l \in Int /\ x.prod \in Products[m] /\ new = ContractOf(tape, x.prod, d)
        BY <1>4, <2>1
      <3>3. qn.close \in Int
        BY <1>4, <2>1
      <3>4. DOMAIN out = Fields /\ out.lots = 0
        BY <1>6, <2>1 DEF SlotOk
      <3> HIDE DEF y, out, new, rolls, u
      <3>5. /\ DOMAIN y = Fields /\ y.con = new /\ y.conProd = x.prod /\ y.mult = u /\ y.last = l
            /\ y.lots = out.lots /\ y.pnl = out.pnl /\ y.cost = out.cost /\ y.spent = out.spent
            /\ y.pend = out.pend /\ y.prod = out.prod
        <4> HIDE DEF l
        <4> QED BY <3>1, <3>4 DEF Put, Fields
      <3>6. SlotOk(y, m)
        <4> HIDE DEF l
        <4> QED BY <1>6, <3>2, <3>5 DEF SlotOk
      <3>7. Ledger(y) = Ledger(out)
        <4>1. /\ out.pnl \in Int /\ out.spent \in Int /\ out.mult \in Int /\ out.last \in Int
          BY <1>6 DEF SlotOk
        <4> HIDE DEF l
        <4> QED BY <3>2, <3>4, <3>5, <4>1 DEF Ledger
      <3> QED BY <1>6, <3>1, <3>2, <3>3, <3>5, <3>6, <3>7
    <2>2. CASE ~rolls
      <3>1. y = out /\ qy = q
        BY <2>2, Zenon
      <3> HIDE DEF y, qy, out, rolls
      <3> QED BY <1>2, <1>6, <3>1
    <2> QED BY <2>1, <2>2
  <1>8. SlotOk(z, m) /\ Ledger(z) = Ledger(x)
    <2>1. CASE fill /\ want # y.lots
      <3>1. z = Trade(y, want - y.lots, qy.open) /\ qy # NoQuote
        BY <2>1, Zenon
      <3> HIDE DEF z, y, qy, want, fill
      <3>2. want - y.lots \in Int /\ qy.open \in Int /\ qy.open = y.last
        BY <1>5, <1>7, <3>1 DEF SlotOk
      <3> QED BY <1>7, <3>1, <3>2, TradeKeeps
    <2>2. CASE ~(fill /\ want # y.lots)
      <3>1. z = y
        BY <2>2, Zenon
      <3> HIDE DEF z, y, qy, want, fill
      <3> QED BY <1>7, <3>1
    <2> QED BY <2>1, <2>2
  <1> HIDE DEF z, y, qy, fill, want
  <1>9. SlotOk(w, m) /\ Ledger(w) = Ledger(x)
    <2>1. CASE fill \/ want = z.lots
      <3>1. w = Put(z, [pend |-> NoOrder])
        BY <2>1, Zenon
      <3>2. DOMAIN z = Fields
        BY <1>8 DEF SlotOk
      <3> HIDE DEF w
      <3>3. /\ DOMAIN w = Fields /\ w.pend = NoOrder /\ w.lots = z.lots /\ w.mult = z.mult /\ w.last = z.last
            /\ w.pnl = z.pnl /\ w.cost = z.cost /\ w.spent = z.spent /\ w.con = z.con
            /\ w.conProd = z.conProd /\ w.prod = z.prod
        BY <3>1, <3>2 DEF Put, Fields
      <3>4. SlotOk(w, m)
        BY <1>8, <3>3 DEF SlotOk
      <3>5. Ledger(w) = Ledger(z)
        BY <3>3, Zenon DEF Ledger
      <3> QED BY <1>8, <3>4, <3>5
    <2>2. CASE ~(fill \/ want = z.lots)
      <3>1. w = z
        BY <2>2, Zenon
      <3> HIDE DEF w
      <3> QED BY <1>8, <3>1
    <2> QED BY <2>1, <2>2
  <1> HIDE DEF w
  <1>10. SlotOk(end, m) /\ Ledger(end) = Ledger(x)
    <2>1. CASE qy = NoQuote
      <3>1. end = w
        BY <2>1, Zenon
      <3> QED BY <1>9, <3>1
    <2>2. CASE qy # NoQuote
      <3>1. end = Put(w, [pnl |-> w.pnl + w.lots * w.mult * (qy.close - w.last), last |-> qy.close])
        BY <2>2, Zenon
      <3>2. qy.close \in Int
        BY <1>7, <2>2
      <3> HIDE DEF end
      <3> QED BY <1>9, <3>1, <3>2, MarkLedger
    <2> QED BY <2>1, <2>2
  <1> HIDE DEF end
  <1> QED BY <1>1, <1>10

\* Deciding moves no lots.
LEMMA DecideKeeps ==
    ASSUME tape \in Tapes, NEW m \in Markets, NEW x, SlotOk(x, m), NEW d \in 1..LastSession,
           NEW n \in 0..Cardinality(Markets), NEW p, NEW isLive, isLive => IsLive(m, p, d)
    PROVE  LET y == Decide(x, m, p, isLive, n, d)
           IN SlotOk(y, m) /\ Ledger(y) = Ledger(x)
  <1> DEFINE y == Decide(x, m, p, isLive, n, d)
  <1>0. DOMAIN x = Fields
    BY DEF SlotOk
  <1>1. ASSUME NEW f \in Products[m] \cup {NoProduct}, NEW g \in Int \cup {NoOrder},
               \/ y = Put(x, [prod |-> f, pend |-> g])
               \/ y = Put(x, [prod |-> f]) /\ g = x.pend
               \/ \E h : y = Put(x, [prod |-> f, pend |-> g, sizedIn |-> h])
        PROVE  SlotOk(y, m) /\ Ledger(y) = Ledger(x)
    <2> HIDE DEF y
    <2>1. /\ DOMAIN y = Fields /\ y.prod = f /\ y.pend = g /\ y.lots = x.lots /\ y.mult = x.mult
          /\ y.last = x.last /\ y.pnl = x.pnl /\ y.cost = x.cost /\ y.spent = x.spent
          /\ y.con = x.con /\ y.conProd = x.conProd
      <3>1. CASE y = Put(x, [prod |-> f, pend |-> g])
        BY <1>0, <3>1 DEF Put, Fields
      <3>2. CASE y = Put(x, [prod |-> f]) /\ g = x.pend
        BY <1>0, <3>2 DEF Put, Fields
      <3>3. CASE \E h : y = Put(x, [prod |-> f, pend |-> g, sizedIn |-> h])
        <4>1. PICK h : y = Put(x, [prod |-> f, pend |-> g, sizedIn |-> h])
          BY <3>3
        <4> QED BY <1>0, <4>1 DEF Put, Fields
      <3> QED BY <1>1, <3>1, <3>2, <3>3
    <2>2. SlotOk(y, m)
      BY <2>1 DEF SlotOk
    <2>3. Ledger(y) = Ledger(x)
      BY <2>1, Zenon DEF Ledger
    <2> QED BY <2>2, <2>3
  <1>2. CASE ~isLive
    <2> DEFINE g == IF x.lots # 0 THEN 0 ELSE NoOrder
    <2>1. y = Put(x, [prod |-> NoProduct, pend |-> g])
      BY <1>2, Zenon DEF Decide
    <2>2. g \in Int \cup {NoOrder} /\ NoProduct \in Products[m] \cup {NoProduct}
      OBVIOUS
    <2> HIDE DEF g
    <2> QED BY <1>1, <2>1, <2>2, Zenon
  <1>3. CASE isLive
    <2>1. p \in Products[m] /\ ContractOf(tape, p, d) # NoFuture /\ Vol(tape, p, d) # 0
      BY <1>3, Zenon DEF IsLive, ListedProducts
    <2>2. p \in Products[m] \cup {NoProduct}
      BY <2>1
    <2>3. CASE ~LastOfWeek(m, d)
      <3>1. y = Put(x, [prod |-> p])
        BY <1>3, <2>3, Zenon DEF Decide
      <3>2. x.pend \in Int \cup {NoOrder}
        BY DEF SlotOk
      <3> QED BY <1>1, <2>2, <3>1, <3>2, Zenon
    <2>4. CASE LastOfWeek(m, d)
      <3> DEFINE risk == (Notional(p, d) * Vol(tape, p, d)) \div 100
                 t    == TargetLots(Signal(tape, m, d), n, risk)
                 cur  == IF x.lots = 0 \/ x.conProd = p THEN x.lots
                         ELSE Rnd(x.lots * x.mult * x.last, Notional(p, d))
                 g    == IF TradeOk(cur, t) THEN t ELSE NoOrder
                 h    == IF TradeOk(cur, t) THEN p ELSE x.sizedIn
      <3>1. y = Put(x, [prod |-> p, pend |-> g, sizedIn |-> h])
        BY <1>3, <2>4, Zenon DEF Decide
      <3>2. t \in Int
        <4>1. risk \in Nat \ {0}
          <5>1. Notional(p, d) \in Nat \ {0} /\ Notional(p, d) * Vol(tape, p, d) >= 100
            BY <2>1, ListedQuoted
          <5>2. Vol(tape, p, d) \in Nat
            BY <2>1, TrendQuoteAssumption, Zenon
          <5>3. \A a \in Int : a >= 100 => a \div 100 \in Nat \ {0}
            OBVIOUS
          <5>4. Notional(p, d) * Vol(tape, p, d) \in Int
            BY <5>1, <5>2
          <5> QED BY <5>1, <5>3, <5>4
        <4>2. Signal(tape, m, d) \in Int
          <5>1. Signal(tape, m, d) \in -3..3
            BY TrendQuoteAssumption, Zenon
          <5> QED BY <5>1
        <4> HIDE DEF risk
        <4>3. CASE n = 0
          <5>1. t = 0
            BY <4>3, Zenon DEF TargetLots
          <5> QED BY <5>1
        <4>4. CASE n # 0
          <5>1. Cardinality(Markets) \in Nat
            BY TrendAssumption, FS_CardinalityType
          <5>2. n \in 1..Cardinality(Markets)
            BY <4>4, <5>1
          <5>3. TargetRisk[n] \in Nat
            BY <5>2, TrendAssumption
          <5>4. Signal(tape, m, d) * TargetRisk[n] \in Int /\ 3 * risk \in Nat \ {0}
            BY <4>1, <4>2, <5>3
          <5>5. Rnd(Signal(tape, m, d) * TargetRisk[n], 3 * risk) \in Int
            BY <5>4, RndInt
          <5>6. t \in {0, Rnd(Signal(tape, m, d) * TargetRisk[n], 3 * risk)}
            BY Zenon DEF TargetLots
          <5> QED BY <5>5, <5>6
        <4> QED BY <4>3, <4>4
      <3> HIDE DEF t, cur
      <3>3. g \in Int \cup {NoOrder}
        BY <3>2
      <3> HIDE DEF g, h
      <3> QED BY <1>1, <2>2, <3>1, <3>3, Zenon
    <2> QED BY <2>3, <2>4
  <1> QED BY <1>2, <1>3

Value(x) == x.lots * x.mult * x.last

\* A session of a market: what its lots are worth goes up by the money put into them
\* and by what the marks earn.
LEMMA MarketSessionKeeps ==
    ASSUME tape \in Tapes, NEW m \in Markets, SlotOk(slot[m], m), NEW d \in 1..LastSession,
           NEW n \in 0..Cardinality(Markets), NEW p, NEW isLive, isLive => IsLive(m, p, d)
    PROVE  LET y == MarketSession(m, p, isLive, n, d)
           IN SlotOk(y, m) /\ Value(y) = Value(slot[m]) + y.spent + y.pnl
  <1> DEFINE x == slot[m]
             s == Put(x, [pnl |-> 0, cost |-> 0, spent |-> 0])
             q == HeldQuote(s, d)
             a == MarkOpen(s, q, d)
             b == RollAndFill(a, q, d)
             y == Decide(b, m, p, isLive, n, d)
  <1>1. SlotOk(s, m) /\ Ledger(s) = Value(x) /\ SlotOk(x, m)
    <2>1. DOMAIN x = Fields
      BY DEF SlotOk
    <2>2. SlotOk(x, m)
      OBVIOUS
    <2> HIDE DEF x
    <2>3. s = Put(x, [pnl |-> 0, cost |-> 0, spent |-> 0])
      OBVIOUS
    <2> HIDE DEF s
    <2>4. /\ DOMAIN s = Fields /\ s.pnl = 0 /\ s.cost = 0 /\ s.spent = 0 /\ s.lots = x.lots
          /\ s.mult = x.mult /\ s.last = x.last /\ s.pend = x.pend /\ s.prod = x.prod
          /\ s.con = x.con /\ s.conProd = x.conProd
      BY <2>1, <2>3 DEF Put, Fields
    <2>5. SlotOk(s, m)
      BY <2>2, <2>4 DEF SlotOk
    <2>6. x.lots \in Int /\ x.mult \in Int /\ x.last \in Int
      BY <2>2 DEF SlotOk
    <2>7. Ledger(s) = Value(x)
      BY <2>4, <2>6 DEF Ledger, Value
    <2> QED BY <2>2, <2>5, <2>7
  <1>2. q # NoQuote => q \in Prices
    <2> HIDE DEF s
    <2> QED BY <1>1, HeldQuoteTyped
  <1> HIDE DEF s, q
  <1>3. SlotOk(a, m) /\ Ledger(a) = Ledger(s) /\ (q # NoQuote => a.last = q.open)
    BY <1>1, <1>2, MarkOpenKeeps
  <1> HIDE DEF a
  <1>4. SlotOk(b, m) /\ Ledger(b) = Ledger(a)
    BY <1>2, <1>3, RollAndFillKeeps
  <1> HIDE DEF b
  <1>5. SlotOk(y, m) /\ Ledger(y) = Ledger(b)
    BY <1>4, DecideKeeps
  <1>6. MarketSession(m, p, isLive, n, d) = y
    BY Zenon DEF MarketSession, s, q, a, b
  <1> HIDE DEF y
  <1>7. Value(y) - y.spent - y.pnl = Value(x)
    BY <1>1, <1>3, <1>4, <1>5 DEF Ledger, Value
  <1>8. Value(y) \in Int /\ Value(x) \in Int /\ y.spent \in Int /\ y.pnl \in Int
    BY <1>1, <1>5 DEF SlotOk, Value
  <1>9. Value(y) = Value(x) + y.spent + y.pnl
    BY <1>7, <1>8
  <1> QED BY <1>5, <1>6, <1>9

TrendInv ==
    /\ tape \in Tapes /\ session \in 0..LastSession
    /\ DOMAIN slot = Markets /\ \A m \in Markets : SlotOk(slot[m], m)
    /\ {nav, fyPnl, lossCarried, spent, costs, taxes, taxedBase, closedPnl} \subseteq Int
    /\ TrendNavExplained
    /\ TrendLossUsedOnce

LEMMA FyTaxKeeps ==
    ASSUME NEW pnl \in Int, NEW cf \in Int
    PROVE  LET t == FyTax(pnl, cf)
           IN /\ t.tax \in Int /\ t.base \in Int /\ t.out \in Int
              /\ t.base - t.out = pnl - cf
  <1> DEFINE net == pnl - cf
             t == FyTax(pnl, cf)
  <1>1. net \in Int /\ TaxPct \in Int
    BY TrendAssumption
  <1>2. CASE net > 0
    <2>1. t = [tax |-> (TaxPct * net) \div 100, base |-> net, out |-> 0]
      BY <1>2, Zenon DEF FyTax
    <2>2. (TaxPct * net) \div 100 \in Int
      BY <1>1
    <2> QED BY <1>1, <2>1, <2>2
  <1>3. CASE ~(net > 0)
    <2>1. t = [tax |-> 0, base |-> 0, out |-> -net]
      BY <1>3, Zenon DEF FyTax
    <2>2. t.tax = 0 /\ t.base = 0 /\ t.out = -net
      BY <2>1
    <2> QED BY <1>1, <2>2
  <1> QED BY <1>2, <1>3

LEMMA TrendStart == TrendInit => TrendInv
  <1> SUFFICES ASSUME TrendInit PROVE TrendInv
    OBVIOUS
  <1>1. tape \in Tapes /\ session \in 0..LastSession
    BY TrendAssumption DEF TrendInit
  <1>2. \A m \in Markets : slot[m] = EmptySlot
    BY DEF TrendInit
  <1>3. DOMAIN slot = Markets
    BY DEF TrendInit
  <1>4. \A m \in Markets : SlotOk(slot[m], m)
    <2> TAKE m \in Markets
    <2>1. SlotOk(EmptySlot, m)
      BY DEF SlotOk, EmptySlot, Fields
    <2> QED BY <1>2, <2>1
  <1>5. {nav, fyPnl, lossCarried, spent, costs, taxes, taxedBase, closedPnl} \subseteq Int
    <2>1. Capital \in Int
      BY TrendAssumption
    <2> QED BY <2>1 DEF TrendInit
  <1>6. TrendLossUsedOnce
    BY DEF TrendInit, TrendLossUsedOnce
  <1>7. TrendNavExplained
    <2> DEFINE v == [m \in Markets |-> slot[m].lots * slot[m].mult * slot[m].last]
    <2>1. \A m \in Markets : v[m] = 0
      BY <1>2 DEF EmptySlot
    <2>2. DOMAIN v = Markets
      OBVIOUS
    <2>3. TrendNavExplained <=> nav = Capital - spent - costs - taxes + Sum(v, DOMAIN v)
      BY Zenon DEF TrendNavExplained, SumOver, Sum
    <2> HIDE DEF v
    <2>4. Sum(v, Markets) = Sum(v, {})
      BY <2>1, TrendAssumption, SumZeroOutside
    <2>5. Sum(v, Markets) = 0
      BY <2>4, SumEmpty
    <2> QED BY <2>2, <2>3, <2>5, TrendAssumption DEF TrendInit
  <1> QED BY <1>1, <1>3, <1>4, <1>5, <1>6, <1>7 DEF TrendInv

LEMMA FinalKeeps ==
    ASSUME TrendInv, TrendFinal
    PROVE  TrendInv'
  <1> DEFINE t == FyTax(fyPnl, lossCarried)
             v == SumOver([m \in Markets |-> slot[m].lots * slot[m].mult * slot[m].last])
  <1>1. /\ taxes' = taxes + t.tax /\ taxedBase' = taxedBase + t.base
        /\ closedPnl' = closedPnl + fyPnl /\ lossCarried' = t.out
        /\ nav' = nav - t.tax /\ fyPnl' = 0
        /\ UNCHANGED <<tape, session, slot, spent, costs>>
    BY DEF TrendFinal, PayTax
  <1>2. /\ nav \in Int /\ fyPnl \in Int /\ lossCarried \in Int /\ spent \in Int /\ costs \in Int
        /\ taxes \in Int /\ taxedBase \in Int /\ closedPnl \in Int
    BY DEF TrendInv
  <1>3. t.tax \in Int /\ t.base \in Int /\ t.out \in Int /\ t.base - t.out = fyPnl - lossCarried
    BY <1>2, FyTaxKeeps
  <1>4. nav = Capital - spent - costs - taxes + v /\ closedPnl = taxedBase - lossCarried
    BY DEF TrendInv, TrendNavExplained, TrendLossUsedOnce
  <1>5. v' = v
    BY <1>1, Zenon
  <1>6. v \in Int
    <2> DEFINE f == [m \in Markets |-> slot[m].lots * slot[m].mult * slot[m].last]
    <2>1. \A m \in Markets : f[m] \in Int
      BY DEF TrendInv, SlotOk
    <2>2. v = Sum(f, Markets)
      <3>1. DOMAIN f = Markets /\ v = SumOver(f)
        OBVIOUS
      <3> HIDE DEF f, v
      <3> QED BY <3>1 DEF SumOver, Sum
    <2> HIDE DEF f, v
    <2> QED BY <2>1, <2>2, TrendAssumption, SumInt
  <1> HIDE DEF t
  <1>7. TrendNavExplained'
    <2>1. nav' = Capital - spent' - costs' - taxes' + v'
      <3> HIDE DEF v
      <3> QED BY <1>1, <1>2, <1>3, <1>4, <1>5, <1>6, TrendAssumption
    <2> QED BY <2>1 DEF TrendNavExplained
  <1>8. TrendLossUsedOnce'
    <2>1. closedPnl = taxedBase - lossCarried
      BY <1>4
    <2>2. closedPnl' = closedPnl + fyPnl /\ taxedBase' = taxedBase + t.base /\ lossCarried' = t.out
      BY <1>1
    <2>3. closedPnl' = taxedBase' - lossCarried'
      BY <1>2, <1>3, <2>1, <2>2
    <2> QED BY <2>3 DEF TrendLossUsedOnce
  <1>9. {nav', fyPnl', lossCarried', spent', costs', taxes', taxedBase', closedPnl'} \subseteq Int
    <2> HIDE DEF v
    <2> QED BY <1>1, <1>2, <1>3
  <1> QED BY <1>1, <1>7, <1>8, <1>9 DEF TrendInv, SlotOk

LEMMA SumOverIs == \A f : SumOver(f) = Sum(f, DOMAIN f)
  BY Zenon DEF SumOver, Sum

\* What the markets that trade add, over all the markets.
LEMMA AddsUp ==
    ASSUME NEW f, NEW g, NEW a, NEW open, open \subseteq Markets,
           \A m \in Markets : f[m] \in Int,
           \A m \in open : a[m] \in Int /\ g[m] = f[m] + a[m],
           \A m \in Markets \ open : g[m] = f[m]
    PROVE  Sum(g, Markets) = Sum(f, Markets) + Sum(a, open)
  <1> DEFINE az == [m \in Markets |-> IF m \in open THEN a[m] ELSE 0]
  <1>1. IsFiniteSet(Markets)
    BY TrendAssumption
  <1>2. \A m \in Markets : az[m] \in Int
    OBVIOUS
  <1>3. \A m \in open : az[m] = a[m]
    OBVIOUS
  <1>4. \A m \in Markets \ open : az[m] = 0
    OBVIOUS
  <1> HIDE DEF az
  <1>5. \A m \in Markets : g[m] = f[m] + az[m]
    BY <1>3, <1>4
  <1>6. Sum(g, Markets) = Sum(f, Markets) + Sum(az, Markets)
    BY <1>1, <1>2, <1>5, SumOfBoth
  <1>7. Sum(az, Markets) = Sum(a, open)
    BY <1>1, <1>2, <1>3, <1>4, SumZeroOutside
  <1> QED BY <1>6, <1>7

LEMMA SessionKeeps ==
    ASSUME TrendInv, TrendSession
    PROVE  TrendInv'
  <1> DEFINE d     == session + 1
             open  == {m \in Markets : OpenOn(m, d)}
             pick  == [m \in open |-> Choose(m, d)]
             isL   == [m \in Markets |->
                          IF m \in open THEN IsLive(m, pick[m], d) ELSE live[m]]
             n     == Cardinality({m \in Markets : isL[m]})
             after == [m \in open |-> MarketSession(m, pick[m], isL[m], n, d)]
             cost  == SumOver([m \in open |-> after[m].cost])
             earn  == SumOver([m \in open |-> after[m].pnl])
             put   == SumOver([m \in open |-> after[m].spent])
             closes == fy # FiscalYear(d) /\ session > 0
             t     == FyTax(fyPnl, lossCarried)
             f     == [m \in Markets |-> slot[m].lots * slot[m].mult * slot[m].last]
             v     == SumOver(f)
             g     == [m \in Markets |-> slot'[m].lots * slot'[m].mult * slot'[m].last]
  <1>1. /\ session < LastSession
        /\ IF closes THEN PayTax(t) ELSE UNCHANGED <<taxes, taxedBase, closedPnl, lossCarried>>
        /\ nav' = nav + (earn - cost) - IF closes THEN t.tax ELSE 0
        /\ fyPnl' = (IF closes THEN 0 ELSE fyPnl) + (earn - cost)
        /\ slot' = [m \in Markets |-> IF m \in open THEN after[m] ELSE slot[m]]
        /\ spent' = spent + put
        /\ costs' = costs + cost
        /\ session' = d
        /\ UNCHANGED <<tape, final>>
    BY Zenon DEF TrendSession
  <1>2. d \in 1..LastSession /\ d \in 0..LastSession
    <2>1. session \in 0..LastSession
      BY DEF TrendInv
    <2>2. session < LastSession
      BY <1>1
    <2>3. LastSession \in Nat
      BY TrendAssumption
    <2> QED BY <2>1, <2>2, <2>3
  <1>3. n \in 0..Cardinality(Markets)
    <2>1. IsFiniteSet(Markets) /\ {m \in Markets : isL[m]} \subseteq Markets
      BY TrendAssumption
    <2> HIDE DEF isL
    <2>2. Cardinality({m \in Markets : isL[m]}) <= Cardinality(Markets)
      BY <2>1, FS_Subset
    <2>3. Cardinality({m \in Markets : isL[m]}) \in Nat /\ Cardinality(Markets) \in Nat
      BY <2>1, FS_Subset, FS_CardinalityType
    <2> QED BY <2>2, <2>3
  <1>4. tape \in Tapes /\ DOMAIN slot = Markets /\ \A m \in Markets : SlotOk(slot[m], m)
    BY DEF TrendInv
  <1>5. ASSUME NEW m \in open
        PROVE  /\ SlotOk(after[m], m)
               /\ Value(after[m]) = Value(slot[m]) + after[m].spent + after[m].pnl
    <2>1. isL[m] => IsLive(m, pick[m], d)
      <3> HIDE DEF pick
      <3>1. isL[m] = IsLive(m, pick[m], d)
        OBVIOUS
      <3> QED BY <3>1
    <2>2. after[m] = MarketSession(m, pick[m], isL[m], n, d) /\ m \in Markets
      BY Zenon
    <2> HIDE DEF pick, isL, n, d, after, open
    <2>3. LET y == MarketSession(m, pick[m], isL[m], n, d)
          IN SlotOk(y, m) /\ Value(y) = Value(slot[m]) + y.spent + y.pnl
      BY <1>2, <1>3, <1>4, <2>1, <2>2, MarketSessionKeeps
    <2> QED BY <2>2, <2>3, Zenon
  <1> HIDE DEF pick, isL, n, after
  <1>6. open \subseteq Markets
    OBVIOUS
  <1> HIDE DEF open
  <1>7. DOMAIN slot' = Markets /\ \A m \in Markets : SlotOk(slot'[m], m)
    BY <1>1, <1>4, <1>5
  <1>8. /\ \A m \in open : slot'[m] = after[m]
        /\ \A m \in Markets \ open : slot'[m] = slot[m]
    BY <1>1, <1>6
  <1>9. /\ v' = v + put + earn
        /\ v \in Int /\ put \in Int /\ earn \in Int /\ cost \in Int
    <2> DEFINE a == [m \in open |-> after[m].spent]
               b == [m \in open |-> after[m].pnl]
               c == [m \in open |-> after[m].cost]
    <2>1. \A m \in open : a[m] \in Int /\ b[m] \in Int /\ c[m] \in Int
      <3>1. \A m \in open : after[m].spent \in Int /\ after[m].pnl \in Int /\ after[m].cost \in Int
        BY <1>5 DEF SlotOk
      <3> QED BY <3>1
    <2>2. \A m \in Markets : f[m] \in Int
      <3>1. \A m \in Markets : slot[m].lots \in Int /\ slot[m].mult \in Int /\ slot[m].last \in Int
        BY <1>4 DEF SlotOk
      <3> QED BY <3>1
    <2>3. \A m \in open : g[m] = f[m] + a[m] + b[m]
      <3> TAKE m \in open
      <3>1. g[m] = Value(slot'[m]) /\ f[m] = Value(slot[m])
        BY <1>6 DEF Value
      <3>2. a[m] = after[m].spent /\ b[m] = after[m].pnl
        OBVIOUS
      <3> HIDE DEF f, g, a, b
      <3> QED BY <1>5, <1>8, <3>1, <3>2
    <2>4. \A m \in Markets \ open : g[m] = f[m]
      BY <1>8
    <2>5. v = Sum(f, Markets) /\ v' = Sum(g, Markets)
      <3>1. DOMAIN f = Markets /\ DOMAIN g = Markets
        OBVIOUS
      <3>2. v = Sum(f, DOMAIN f) /\ v' = Sum(g, DOMAIN g)
        <4>1. v = SumOver(f) /\ v' = SumOver(g)
          BY Zenon
        <4> HIDE DEF f, g, v
        <4> QED BY <4>1, SumOverIs
      <3> QED BY <3>1, <3>2, Zenon
    <2>6. put = Sum(a, open) /\ earn = Sum(b, open) /\ cost = Sum(c, open)
      <3>1. DOMAIN a = open /\ DOMAIN b = open /\ DOMAIN c = open
        OBVIOUS
      <3>2. put = SumOver(a) /\ earn = SumOver(b) /\ cost = SumOver(c)
        OBVIOUS
      <3> HIDE DEF a, b, c, put, earn, cost
      <3> QED BY <3>1, <3>2, SumOverIs
    <2> HIDE DEF f, g, a, b, c, v, put, earn, cost
    <2> DEFINE h == [m \in Markets |-> IF m \in open THEN f[m] + a[m] ELSE f[m]]
    <2>7. /\ \A m \in Markets : h[m] \in Int
          /\ \A m \in open : h[m] = f[m] + a[m] /\ g[m] = h[m] + b[m]
          /\ \A m \in Markets \ open : h[m] = f[m] /\ g[m] = h[m]
      BY <1>6, <2>1, <2>2, <2>3, <2>4
    <2> HIDE DEF h
    <2>8. Sum(h, Markets) = Sum(f, Markets) + Sum(a, open)
      BY <1>6, <2>1, <2>2, <2>7, AddsUp
    <2>9. Sum(g, Markets) = Sum(h, Markets) + Sum(b, open)
      BY <1>6, <2>1, <2>7, AddsUp
    <2>10. Sum(f, Markets) \in Int /\ Sum(a, open) \in Int /\ Sum(b, open) \in Int /\ Sum(c, open) \in Int
      <3>1. IsFiniteSet(Markets) /\ IsFiniteSet(open)
        BY <1>6, TrendAssumption, FS_Subset
      <3>2. (\A m \in open : a[m] \in Int) /\ (\A m \in open : b[m] \in Int) /\ (\A m \in open : c[m] \in Int)
        BY <2>1
      <3> QED BY <2>2, <3>1, <3>2, SumInt
    <2> QED BY <2>5, <2>6, <2>8, <2>9, <2>10
  <1>10. /\ nav \in Int /\ fyPnl \in Int /\ lossCarried \in Int /\ spent \in Int /\ costs \in Int
         /\ taxes \in Int /\ taxedBase \in Int /\ closedPnl \in Int /\ Capital \in Int
    BY TrendAssumption DEF TrendInv
  <1>11. t.tax \in Int /\ t.base \in Int /\ t.out \in Int /\ t.base - t.out = fyPnl - lossCarried
    BY <1>10, FyTaxKeeps
  <1>12. nav = Capital - spent - costs - taxes + v
    BY DEF TrendInv, TrendNavExplained
  <1>13. closedPnl = taxedBase - lossCarried
    BY DEF TrendInv, TrendLossUsedOnce
  <1> DEFINE tax == IF closes THEN t.tax ELSE 0
  <1>14. taxes' = taxes + tax /\ tax \in Int /\ nav' = nav + (earn - cost) - tax
    <2>1. CASE closes
      BY <1>1, <1>11, <2>1 DEF PayTax
    <2>2. CASE ~closes
      <3>1. taxes' = taxes /\ tax = 0 /\ nav' = nav + (earn - cost) - tax
        BY <1>1, <2>2
      <3> HIDE DEF tax
      <3> QED BY <1>10, <3>1
    <2> QED BY <2>1, <2>2
  <1>15. spent' = spent + put /\ costs' = costs + cost
    BY <1>1
  <1>16. closedPnl' = taxedBase' - lossCarried' /\ closedPnl' \in Int /\ taxedBase' \in Int /\ lossCarried' \in Int
    <2>1. CASE closes
      <3>1. closedPnl' = closedPnl + fyPnl /\ taxedBase' = taxedBase + t.base /\ lossCarried' = t.out
        BY <1>1, <2>1 DEF PayTax
      <3> HIDE DEF t, closes
      <3> QED BY <1>10, <1>11, <1>13, <3>1
    <2>2. CASE ~closes
      <3>1. closedPnl' = closedPnl /\ taxedBase' = taxedBase /\ lossCarried' = lossCarried
        BY <1>1, <2>2
      <3> QED BY <1>10, <1>13, <3>1
    <2> QED BY <2>1, <2>2
  <1>17. fyPnl' \in Int
    <2>1. (IF closes THEN 0 ELSE fyPnl) \in Int
      BY <1>10
    <2>2. fyPnl' = (IF closes THEN 0 ELSE fyPnl) + (earn - cost)
      BY <1>1
    <2> HIDE DEF earn, cost, closes
    <2> QED BY <1>9, <2>1, <2>2
  <1>18. session' \in 0..LastSession /\ tape' \in Tapes /\ tape' = tape
    BY <1>1, <1>2, <1>4
  <1> HIDE DEF v, put, earn, cost, t, closes, tax, d
  <1>19. nav' = Capital - spent' - costs' - taxes' + v'
    BY <1>9, <1>10, <1>12, <1>14, <1>15
  <1>20. {nav', fyPnl', lossCarried', spent', costs', taxes', taxedBase', closedPnl'} \subseteq Int
    BY <1>9, <1>10, <1>14, <1>15, <1>16, <1>17
  <1>21. TrendNavExplained' /\ TrendLossUsedOnce'
    BY <1>16, <1>19, Zenon DEF TrendNavExplained, TrendLossUsedOnce, v
  <1>22. \A m \in Markets : SlotOk(slot[m], m)'
    BY <1>7, <1>18 DEF SlotOk
  <1> QED BY <1>7, <1>18, <1>20, <1>21, <1>22 DEF TrendInv

LEMMA AlwaysTrendInv == TrendSpec => []TrendInv
  <1>1. TrendInv /\ [TrendNext]_trendVars => TrendInv'
    <2> SUFFICES ASSUME TrendInv, [TrendNext]_trendVars PROVE TrendInv'
      OBVIOUS
    <2>1. CASE TrendSession
      BY <2>1, SessionKeeps
    <2>2. CASE TrendFinal
      BY <2>2, FinalKeeps
    <2>3. CASE UNCHANGED trendVars
      BY <2>3 DEF TrendInv, SlotOk, TrendNavExplained, TrendLossUsedOnce, trendVars
    <2> QED BY <2>1, <2>2, <2>3 DEF TrendNext
  <1> QED BY <1>1, TrendStart, PTL DEF TrendSpec

\* The net asset value of the trend book is what its trades explain, for every tape:
\* no roll, switch, fill or close at a stale mark makes money or loses it.
THEOREM TrendNavAlwaysExplained == TrendSpec => []TrendNavExplained
  <1>1. TrendInv => TrendNavExplained
    BY DEF TrendInv
  <1> QED BY <1>1, AlwaysTrendInv, PTL

\* What the closed years earned is what was taxed, less the loss still carried.
THEOREM TrendLossOnce == TrendSpec => []TrendLossUsedOnce
  <1>1. TrendInv => TrendLossUsedOnce
    BY DEF TrendInv
  <1> QED BY <1>1, AlwaysTrendInv, PTL

-----------------------------------------------------------------------------
(* ContinuousFutures *)

\* The contracts that may be held.
Held == UNION {Monthly(q) : q \in QuoteSets}

Walked == {Cal[k] : k \in 1..at}

SeriesRows == [date : {Cal[k] : k \in DOMAIN Cal}, expiry : Held]

GapRows == [date : {Cal[k] : k \in DOMAIN Cal}, size : Int, kind : {"measured", "stale", "redated"}]

RowPrice(i) == Price(series[i].expiry, series[i].date)

\* Gap j is what the change of contract into row i needs: the difference of the two
\* contracts, or, at the stale fallback, of the two rows.
Bridges(j, i) ==
    /\ gaps[j].date = series[i].date
    /\ gaps[j].size = IF gaps[j].kind = "stale" THEN RowPrice(i) - RowPrice(i - 1)
                      ELSE Basis[series[i].expiry] - Basis[series[i - 1].expiry]

WalkInv ==
    /\ at \in 0..Len(Cal)
    /\ DOMAIN quoted = Walked
    /\ \A x \in Walked : quoted[x] \subseteq Held
    /\ series \in Seq(SeriesRows)
    /\ \A i \in DOMAIN series : series[i].date \in Walked
    /\ \A i, k \in DOMAIN series : i < k => series[i].date < series[k].date
    /\ holding = IF series = <<>> THEN NoContract ELSE series[Len(series)].expiry
    /\ gaps \in Seq(GapRows)
    /\ \A j \in DOMAIN gaps : \E i \in DOMAIN series : i > 1 /\ gaps[j].date = series[i].date
    /\ \A j, k \in DOMAIN gaps : gaps[j].date = gaps[k].date => j = k
    /\ \A i \in DOMAIN series : i > 1 =>
            \/ /\ series[i].expiry = series[i - 1].expiry
               /\ \A j \in DOMAIN gaps : gaps[j].date # series[i].date
            \/ \E j \in DOMAIN gaps : Bridges(j, i)

LEMMA HeldTyped == Held \subseteq Expiries /\ Held \subseteq Nat /\ NoContract \notin Held
  <1>1. \A q \in QuoteSets : Monthly(q) \subseteq Expiries
    BY CalAssumption DEF Monthly
  <1> QED BY <1>1, ContractAssumption DEF Held

LEMMA PriceTyped ==
    ASSUME NEW e \in Held, NEW k \in DOMAIN Cal
    PROVE  Price(e, Cal[k]) \in Int /\ Basis[e] \in Int /\ Market[Cal[k]] \in Int
  BY HeldTyped, ContractAssumption DEF Price

LEMMA WalkStart == ContInit => WalkInv
  <1> SUFFICES ASSUME ContInit PROVE WalkInv
    OBVIOUS
  <1>1. at = 0 /\ Walked = {} /\ Len(Cal) \in Nat
    BY CalAssumption DEF ContInit, Walked
  <1> QED BY <1>1 DEF ContInit, WalkInv

\* The gap of a change of contract, measured on any date or on none.
LEMMA GapBridges ==
    ASSUME WalkInv, series # <<>>, at < Len(Cal), NEW p \in Held, p # holding, NEW q,
           DOMAIN q = Walked \cup {Cal[at + 1]}
    PROVE  LET d == Cal[at + 1]
               g == Gap(p, d, q)
           IN  /\ g \in GapRows /\ g.date = d
               /\ g.size = IF g.kind = "stale" THEN Price(p, d) - RowPrice(Len(series))
                           ELSE Basis[p] - Basis[holding]
  <1> DEFINE d == Cal[at + 1]
             g == Gap(p, d, q)
             both == {x \in DOMAIN q : {p, holding} \subseteq q[x]}
             dc == CHOOSE x \in both : \A y \in both : y <= x
             days == IF p > holding THEN p - holding ELSE holding - p
             Fits == /\ g \in GapRows /\ g.date = d
                     /\ g.size = IF g.kind = "stale" THEN Price(p, d) - RowPrice(Len(series))
                                 ELSE Basis[p] - Basis[holding]
  <1>1. /\ at \in Nat /\ Len(Cal) \in Nat /\ DOMAIN Cal = 1..Len(Cal) /\ at + 1 \in DOMAIN Cal
        /\ 1..at \subseteq DOMAIN Cal
        /\ \A k \in DOMAIN Cal : Cal[k] \in Nat
        /\ \A i, j \in DOMAIN Cal : i < j => Cal[i] < Cal[j]
    BY CalAssumption DEF WalkInv
  <1>2. /\ Len(series) \in DOMAIN series /\ series[Len(series)] \in SeriesRows
        /\ holding = series[Len(series)].expiry /\ holding \in Held
    <2>1. series \in Seq(SeriesRows) /\ holding = series[Len(series)].expiry
      BY DEF WalkInv
    <2>2. Len(series) \in 1..Len(series) /\ DOMAIN series = 1..Len(series)
      BY <2>1, EmptySeq
    <2>3. series[Len(series)] \in SeriesRows
      BY <2>1, <2>2
    <2> QED BY <2>1, <2>2, <2>3 DEF SeriesRows
  <1>3. p \in Nat /\ holding \in Nat
    BY <1>2, HeldTyped
  <1>4. PICK k \in DOMAIN Cal : series[Len(series)].date = Cal[k]
    BY <1>2 DEF SeriesRows
  <1>5. /\ Price(p, d) \in Int /\ Price(holding, Cal[k]) \in Int /\ Basis[p] \in Int /\ Basis[holding] \in Int
        /\ RowPrice(Len(series)) = Price(holding, LastRow) /\ LastRow = Cal[k]
    BY <1>1, <1>2, <1>4, PriceTyped DEF RowPrice, LastRow
  <1>5a. d \in {Cal[m] : m \in DOMAIN Cal}
    BY <1>1
  <1>5b. ASSUME NEW n \in Int, NEW w \in {"measured", "stale", "redated"}
         PROVE  [date |-> d, size |-> n, kind |-> w] \in GapRows
    BY <1>5a DEF GapRows
  <1> HIDE DEF d
  <1>6. ASSUME both # {} PROVE Fits
    <2>1. both \subseteq {Cal[m] : m \in DOMAIN Cal}
      BY <1>1 DEF Walked
    <2>2. both \subseteq Nat /\ d \in Nat /\ \A x \in both : x <= d
      <3>1. \A m \in 1..at : Cal[m] \in Nat /\ Cal[m] <= d
        BY <1>1 DEF d
      <3> QED BY <1>1, <3>1 DEF Walked, d
    <2>3. \E x \in both : \A y \in both : y <= x
      BY <1>6, <2>2, LatestExists
    <2>4. dc \in both
      BY <2>3
    <2>5. PICK m \in DOMAIN Cal : dc = Cal[m]
      BY <2>1, <2>4
    <2>6. Price(p, dc) - Price(holding, dc) = Basis[p] - Basis[holding]
      <3>1. Market[dc] \in Int
        BY <1>2, <2>5, PriceTyped
      <3> HIDE DEF dc
      <3> QED BY <1>5, <3>1 DEF Price
    <2>7. g = [date |-> d, kind |-> "measured", size |-> Price(p, dc) - Price(holding, dc)]
      BY <1>6 DEF Gap
    <2> HIDE DEF dc, both, g
    <2>8. Price(p, dc) - Price(holding, dc) \in Int
      BY <1>5, <2>6
    <2>9. g \in GapRows
      BY <1>5b, <2>7, <2>8
    <2> QED BY <2>6, <2>7, <2>9 DEF Fits
  <1>7. ASSUME both = {}, days > 7 PROVE Fits
    <2>1. g = [date |-> d, kind |-> "stale", size |-> Price(p, d) - Price(holding, LastRow)]
      BY <1>7 DEF Gap
    <2> HIDE DEF both, g
    <2>2. Price(p, d) - Price(holding, LastRow) \in Int
      BY <1>5
    <2>3. g \in GapRows
      BY <1>5b, <2>1, <2>2
    <2> QED BY <1>5, <2>1, <2>3 DEF Fits
  <1>8. ASSUME both = {}, ~(days > 7) PROVE Fits
    <2>1. g = [date |-> d, kind |-> "redated", size |-> 0]
      BY <1>8 DEF Gap
    <2>2. Basis[p] = Basis[holding]
      <3>1. PICK q1 \in QuoteSets, q2 \in QuoteSets : p \in Monthly(q1) /\ holding \in Monthly(q2)
        BY <1>2 DEF Held
      <3>2. (p <= holding /\ holding - p <= 7) \/ (holding <= p /\ p - holding <= 7)
        BY <1>3, <1>8
      <3> QED BY <3>1, <3>2, RedatedAssumption
    <2> HIDE DEF both, g
    <2>3. g \in GapRows
      <3>1. [date |-> d, size |-> 0, kind |-> "redated"] \in GapRows
        BY <1>5a DEF GapRows
      <3> QED BY <2>1, <3>1
    <2> QED BY <1>5, <2>1, <2>2, <2>3 DEF Fits
  <1> QED BY <1>6, <1>7, <1>8 DEF d

LEMMA MonthlyHeld == \A q \in QuoteSets : Monthly(q) \subseteq Held
  BY DEF Held

LEMMA PickHeld ==
    ASSUME NEW q, q \subseteq Held, NEW i
    PROVE  Pick(q, i) = NoContract \/ Pick(q, i) \in Held
  <1> DEFINE ok == {e \in q : /\ Left(e, i) > Roll
                              /\ holding = NoContract \/ Month(e) >= Month(holding)}
  <1>1. CASE ok # {}
    <2>1. \E e \in ok : \A x \in ok : e <= x
      BY <1>1, HeldTyped, SmallestOf
    <2>2. Pick(q, i) \in ok
      BY <1>1, <2>1 DEF Pick
    <2> QED BY <2>2
  <1>2. CASE ok = {}
    BY <1>2 DEF Pick
  <1> QED BY <1>1, <1>2

LEMMA WalkStep == WalkInv /\ [ContNext]_contVars => WalkInv'
  <1> SUFFICES ASSUME WalkInv, [ContNext]_contVars PROVE WalkInv'
    OBVIOUS
  <1>1. CASE UNCHANGED contVars
    BY <1>1 DEF WalkInv, Walked, Bridges, RowPrice, Price, contVars
  <1>2. CASE Walk
    <2>1a. PICK raw \in QuoteSets : \E q, p :
            LET d == Cal[at + 1]
            IN  /\ q = [x \in DOMAIN quoted \cup {d} |-> IF x = d THEN Monthly(raw) ELSE quoted[x]]
                /\ p = Pick(q[d], at + 1)
                /\ quoted' = q
                /\ IF p = NoContract THEN UNCHANGED <<holding, series, gaps>>
                   ELSE /\ holding' = p
                        /\ series' = Append(series, [date |-> d, expiry |-> p])
                        /\ gaps' = IF holding \in {NoContract, p} THEN gaps
                                   ELSE Append(gaps, Gap(p, d, q))
      BY <1>2 DEF Walk
    <2>1. PICK q, p :
            LET d == Cal[at + 1]
            IN  /\ q = [x \in DOMAIN quoted \cup {d} |-> IF x = d THEN Monthly(raw) ELSE quoted[x]]
                /\ p = Pick(q[d], at + 1)
                /\ quoted' = q
                /\ IF p = NoContract THEN UNCHANGED <<holding, series, gaps>>
                   ELSE /\ holding' = p
                        /\ series' = Append(series, [date |-> d, expiry |-> p])
                        /\ gaps' = IF holding \in {NoContract, p} THEN gaps
                                   ELSE Append(gaps, Gap(p, d, q))
      BY <2>1a
    <2> DEFINE d == Cal[at + 1]
    <2>0. PICK n : n = Len(series)
      OBVIOUS
    <2>2. /\ at < Len(Cal) /\ at' = at + 1
          /\ at \in Nat /\ Len(Cal) \in Nat /\ DOMAIN Cal = 1..Len(Cal)
          /\ at + 1 \in DOMAIN Cal
          /\ \A k \in DOMAIN Cal : Cal[k] \in Nat
          /\ \A i, j \in DOMAIN Cal : i < j => Cal[i] < Cal[j]
      BY <1>2, CalAssumption DEF WalkInv, Walk
    <2>3. Walked' = Walked \cup {d} /\ d \notin Walked /\ \A x \in Walked : x < d /\ x \in Nat
      <3>1. 1..at' = 1..at \cup {at + 1}
        BY <2>2
      <3>2. \A k \in 1..at : Cal[k] < d /\ Cal[k] \in Nat
        BY <2>2
      <3> QED BY <2>2, <3>1, <3>2 DEF Walked
    <2>4. /\ DOMAIN quoted' = Walked' /\ \A x \in Walked' : quoted'[x] \subseteq Held
          /\ DOMAIN q = Walked \cup {d} /\ q[d] = Monthly(raw) /\ quoted' = q
      <3>1. /\ q = [x \in Walked \cup {d} |-> IF x = d THEN Monthly(raw) ELSE quoted[x]]
            /\ quoted' = q
        BY <2>1 DEF WalkInv
      <3>2. Monthly(raw) \subseteq Held /\ \A x \in Walked : quoted[x] \subseteq Held
        BY MonthlyHeld DEF WalkInv
      <3> HIDE DEF d
      <3> QED BY <2>3, <3>1, <3>2
    <2>5. p = NoContract \/ p \in Held
      <3>1. q[d] \subseteq Held
        BY <2>4, MonthlyHeld
      <3> QED BY <2>1, <3>1, PickHeld
    <2>6. CASE p = NoContract
      <3>1. UNCHANGED <<holding, series, gaps>>
        BY <2>1, <2>6
      <3>2. at' \in 0..Len(Cal)
        BY <2>2
      <3> QED BY <2>3, <2>4, <3>1, <3>2 DEF WalkInv, Bridges, RowPrice, Price
    <2>7. CASE p # NoContract
      <3>1. /\ p \in Held /\ holding' = p
            /\ series' = Append(series, [date |-> d, expiry |-> p])
            /\ gaps' = IF holding \in {NoContract, p} THEN gaps ELSE Append(gaps, Gap(p, d, q))
        BY <2>1, <2>5, <2>7
      <3> DEFINE fresh == [date |-> d, expiry |-> p]
      <3>2. series \in Seq(SeriesRows) /\ fresh \in SeriesRows /\ n \in Nat /\ DOMAIN series = 1..n
        <4>1. d \in {Cal[k] : k \in DOMAIN Cal}
          BY <2>2
        <4>2. series \in Seq(SeriesRows)
          BY DEF WalkInv
        <4> HIDE DEF d
        <4> QED BY <2>0, <3>1, <4>1, <4>2, LenProperties DEF SeriesRows
      <3>3. /\ series' \in Seq(SeriesRows) /\ Len(series') = n + 1 /\ DOMAIN series' = 1..n+1
            /\ series'[n + 1] = fresh /\ \A i \in 1..n : series'[i] = series[i]
        BY <2>0, <3>1, <3>2, AppendProperties, LenProperties
      <3>4. /\ series' # <<>> /\ holding' = series'[Len(series')].expiry
            /\ series'[n + 1].date = d /\ series'[n + 1].expiry = p
        BY <3>1, <3>3, EmptySeq
      <3> HIDE DEF fresh, d
      <3>5. /\ \A i \in 1..n+1 : series'[i].date \in Walked'
            /\ \A i, k \in 1..n+1 : i < k => series'[i].date < series'[k].date
        <4>1. \A i \in 1..n : series'[i].date \in Walked /\ series'[i].date < d
          BY <2>3, <3>2, <3>3 DEF WalkInv
        <4>2. \A i, k \in 1..n : i < k => series'[i].date < series'[k].date
          BY <3>2, <3>3 DEF WalkInv
        <4>3. \A i \in 1..n+1 : i \in 1..n \/ i = n + 1
          BY <3>2
        <4> QED BY <2>3, <3>2, <3>4, <4>1, <4>2, <4>3
      <3>6. at' \in 0..Len(Cal)
        BY <2>2
      <3>7. /\ gaps \in Seq(GapRows)
            /\ \A j \in DOMAIN gaps : \E i \in 1..n : i > 1 /\ gaps[j].date = series'[i].date
            /\ \A j \in DOMAIN gaps : gaps[j].date # d
        <4>1. \A j \in DOMAIN gaps : \E i \in 1..n : i > 1 /\ gaps[j].date = series'[i].date
          BY <3>2, <3>3 DEF WalkInv
        <4>2. \A i \in 1..n : series'[i].date # d
          BY <2>3, <3>2, <3>3 DEF WalkInv
        <4> QED BY <4>1, <4>2 DEF WalkInv
      <3>8. \A i \in 1..n : RowPrice(i)' = RowPrice(i)
        BY <3>3 DEF RowPrice, Price
      <3>9. RowPrice(n + 1)' = Price(p, d)
        BY <3>4 DEF RowPrice, Price
      <3>10. CASE gaps' = gaps /\ (n > 0 => series'[n].expiry = p)
        <4>1. ASSUME NEW i \in 1..n+1, i > 1
              PROVE  \/ /\ series'[i].expiry = series'[i - 1].expiry
                        /\ \A j \in DOMAIN gaps' : gaps'[j].date # series'[i].date
                     \/ \E j \in DOMAIN gaps' : Bridges(j, i)'
          <5>1. CASE i = n + 1
            BY <3>2, <3>4, <3>7, <3>10, <4>1, <5>1
          <5>2. CASE i \in 1..n
            <6>1. i - 1 \in 1..n
              BY <3>2, <4>1, <5>2
            <6>2. \A j : Bridges(j, i)' <=> Bridges(j, i)
              BY <3>3, <3>8, <3>10, <5>2, <6>1 DEF Bridges
            <6>3. \/ /\ series[i].expiry = series[i - 1].expiry
                     /\ \A j \in DOMAIN gaps : gaps[j].date # series[i].date
                  \/ \E j \in DOMAIN gaps : Bridges(j, i)
              BY <3>2, <4>1, <5>2 DEF WalkInv
            <6> QED BY <3>3, <3>10, <5>2, <6>1, <6>2, <6>3
          <5> QED BY <3>2, <5>1, <5>2
        <4>2. \A j \in DOMAIN gaps' : \E i \in 1..n+1 : i > 1 /\ gaps'[j].date = series'[i].date
          BY <3>2, <3>7, <3>10
        <4>3. \A j, k \in DOMAIN gaps' : gaps'[j].date = gaps'[k].date => j = k
          BY <3>10 DEF WalkInv
        <4> QED BY <2>4, <3>3, <3>4, <3>5, <3>6, <3>7, <3>10, <4>1, <4>2, <4>3 DEF WalkInv
      <3>11. CASE holding \notin {NoContract, p}
        <4> DEFINE g == Gap(p, d, q)
        <4>0. PICK m : m = Len(gaps)
          OBVIOUS
        <4>1. series # <<>> /\ n > 0 /\ holding = series'[n].expiry
          <5>1. series # <<>>
            BY <3>11 DEF WalkInv
          <5>2. n > 0
            BY <3>2, <5>1, <2>0, EmptySeq
          <5> QED BY <2>0, <3>2, <3>3, <5>1, <5>2 DEF WalkInv
        <4>2. /\ g \in GapRows /\ g.date = d
              /\ g.size = IF g.kind = "stale" THEN Price(p, d) - RowPrice(n)
                          ELSE Basis[p] - Basis[holding]
          BY <2>0, <2>2, <2>4, <3>1, <3>11, <4>1, GapBridges DEF d
        <4>3. gaps' = Append(gaps, g)
          BY <3>1, <3>11
        <4> HIDE DEF g
        <4>4. /\ m \in Nat /\ DOMAIN gaps = 1..m /\ gaps' \in Seq(GapRows) /\ DOMAIN gaps' = 1..m+1
              /\ gaps'[m + 1] = g /\ \A j \in 1..m : gaps'[j] = gaps[j]
          BY <3>7, <4>0, <4>2, <4>3, AppendProperties, LenProperties
        <4>5. \A j \in 1..m+1 : j \in 1..m \/ j = m + 1
          BY <4>4
        <4>6. n + 1 \in 1..n+1 /\ n + 1 > 1 /\ m + 1 \in 1..m+1 /\ n + 1 - 1 = n
              /\ 1..n \subseteq 1..n+1 /\ 1..m \subseteq 1..m+1
          BY <3>2, <4>1, <4>4
        <4>7. \A j \in DOMAIN gaps' : \E i \in 1..n+1 : i > 1 /\ gaps'[j].date = series'[i].date
          <5>1. \A j \in 1..m : \E i \in 1..n : i > 1 /\ gaps'[j].date = series'[i].date
            BY <3>7, <4>4
          <5>2. gaps'[m + 1].date = series'[n + 1].date
            BY <3>4, <4>2, <4>4
          <5> QED BY <4>4, <4>5, <4>6, <5>1, <5>2
        <4>8. \A j, k \in DOMAIN gaps' : gaps'[j].date = gaps'[k].date => j = k
          <5>1. \A j, k \in 1..m : gaps[j].date = gaps[k].date => j = k
            BY <4>4 DEF WalkInv
          <5> QED BY <3>7, <4>2, <4>4, <4>5, <5>1
        <4>9. ASSUME NEW i \in 1..n+1, i > 1
              PROVE  \/ /\ series'[i].expiry = series'[i - 1].expiry
                        /\ \A j \in DOMAIN gaps' : gaps'[j].date # series'[i].date
                     \/ \E j \in DOMAIN gaps' : Bridges(j, i)'
          <5>1. CASE i = n + 1
            <6>1. n \in 1..n /\ i - 1 = n
              BY <3>2, <4>1, <5>1
            <6>2. RowPrice(i)' = Price(p, d) /\ RowPrice(i - 1)' = RowPrice(n)
              BY <3>8, <3>9, <5>1, <6>1
            <6>3. Bridges(m + 1, i)'
              BY <3>4, <4>1, <4>2, <4>4, <5>1, <6>1, <6>2 DEF Bridges
            <6> QED BY <4>4, <4>6, <6>3
          <5>2. CASE i \in 1..n
            <6>1. i - 1 \in 1..n /\ series'[i].date # d
              <7>1. i - 1 \in 1..n
                BY <3>2, <4>9, <5>2
              <7>2. series[i].date < d /\ series[i].date \in Nat
                BY <2>3, <3>2, <5>2 DEF WalkInv
              <7>3. d \in Nat
                BY <2>2 DEF d
              <7> QED BY <3>3, <5>2, <7>1, <7>2, <7>3
            <6>2. \A j \in 1..m : Bridges(j, i)' <=> Bridges(j, i)
              BY <3>3, <3>8, <4>4, <5>2, <6>1 DEF Bridges
            <6>3. \/ /\ series[i].expiry = series[i - 1].expiry
                     /\ \A j \in 1..m : gaps[j].date # series[i].date
                  \/ \E j \in 1..m : Bridges(j, i)
              BY <3>2, <4>4, <4>9, <5>2 DEF WalkInv
            <6> QED BY <3>3, <4>2, <4>4, <4>5, <4>6, <5>2, <6>1, <6>2, <6>3
          <5> QED BY <3>2, <5>1, <5>2
        <4> QED BY <2>4, <3>3, <3>4, <3>5, <3>6, <4>4, <4>7, <4>8, <4>9 DEF WalkInv
      <3>12. holding \in {NoContract, p} => gaps' = gaps /\ (n > 0 => series'[n].expiry = p)
        <4>1. ASSUME holding \in {NoContract, p}, n > 0 PROVE series'[n].expiry = p
          <5>1. series # <<>> /\ n \in 1..n
            BY <2>0, <3>2, <4>1, EmptySeq
          <5>2. holding = series[n].expiry /\ series[n] \in SeriesRows
            BY <2>0, <3>2, <5>1 DEF WalkInv
          <5>3. holding # NoContract
            BY <5>2, HeldTyped DEF SeriesRows
          <5> QED BY <3>3, <4>1, <5>1, <5>2, <5>3
        <4> QED BY <3>1, <4>1
      <3> QED BY <3>10, <3>11, <3>12
    <2> QED BY <2>6, <2>7
  <1> QED BY <1>1, <1>2 DEF ContNext

LEMMA AlwaysWalkInv == ContSpec => []WalkInv
  BY WalkStart, WalkStep, PTL DEF ContSpec

LEMMA WalkFollows == WalkInv => SeriesFollowsMarket
  <1> SUFFICES ASSUME WalkInv, NEW i \in DOMAIN series, i > 1
               PROVE  AdjClose(i) - AdjClose(i - 1) =
                        IF \E j \in DOMAIN gaps : gaps[j].date = series[i].date /\ gaps[j].kind = "stale"
                        THEN 0
                        ELSE Market[series[i].date] - Market[series[i - 1].date]
    BY DEF SeriesFollowsMarket
  <1> DEFINE size == [j \in DOMAIN gaps |-> gaps[j].size]
             Later(k) == {j \in DOMAIN gaps : gaps[j].date > series[k].date}
             e == series[i].expiry
             o == series[i - 1].expiry
             d == series[i].date
             c == series[i - 1].date
  <1>1. series \in Seq(SeriesRows) /\ gaps \in Seq(GapRows) /\ DOMAIN series = 1..Len(series)
        /\ Len(series) \in Nat /\ DOMAIN gaps = 1..Len(gaps) /\ Len(gaps) \in Nat
    BY LenProperties DEF WalkInv
  <1>2. i \in 1..Len(series) /\ i - 1 \in 1..Len(series)
    BY <1>1
  <1>3. /\ e \in Held /\ o \in Held
        /\ \E k \in DOMAIN Cal : d = Cal[k]
        /\ \E k \in DOMAIN Cal : c = Cal[k]
    <2>1. series[i] \in SeriesRows /\ series[i - 1] \in SeriesRows
      BY <1>1, <1>2, ElementOfSeq
    <2> QED BY <2>1 DEF SeriesRows
  <1>4. /\ Basis[e] \in Int /\ Basis[o] \in Int /\ Market[d] \in Int /\ Market[c] \in Int
        /\ Price(e, d) = Market[d] + Basis[e] /\ Price(o, c) = Market[c] + Basis[o]
        /\ d \in Nat /\ c \in Nat /\ c < d
    <2>1. \A k \in DOMAIN Cal : Cal[k] \in Nat
      BY CalAssumption
    <2>2. c < d
      BY <1>1, <1>2 DEF WalkInv
    <2> QED BY <1>3, <2>1, <2>2, PriceTyped DEF Price
  <1>5. \A j \in DOMAIN gaps : size[j] = gaps[j].size /\ size[j] \in Int
    <2>1. \A j \in DOMAIN gaps : gaps[j] \in GapRows
      BY <1>1, ElementOfSeq
    <2> QED BY <2>1 DEF GapRows
  <1>6. /\ AdjClose(i) = Price(e, d) + Sum(size, Later(i))
        /\ AdjClose(i - 1) = Price(o, c) + Sum(size, Later(i - 1))
    BY DEF AdjClose, Sum
  <1>7. \A k : IsFiniteSet(Later(k))
    <2>1. IsFiniteSet(1..Len(gaps))
      BY <1>1, FS_Interval
    <2>2. \A k : Later(k) \in SUBSET (1..Len(gaps))
      BY <1>1
    <2> QED BY <2>1, <2>2, FS_Subset
  <1>8. Later(i - 1) = Later(i) \cup {j \in DOMAIN gaps : gaps[j].date = d}
    <2>1. ASSUME NEW j \in DOMAIN gaps
          PROVE  gaps[j].date > c <=> gaps[j].date > d \/ gaps[j].date = d
      <3>1. PICK k \in DOMAIN series : gaps[j].date = series[k].date
        BY DEF WalkInv
      <3>2. gaps[j].date \in Nat
        <4>1. series[k] \in SeriesRows /\ \A m \in DOMAIN Cal : Cal[m] \in Nat
          BY <1>1, ElementOfSeq, CalAssumption
        <4> QED BY <3>1, <4>1 DEF SeriesRows
      <3>3. k < i - 1 \/ k = i - 1 \/ k = i \/ k > i
        BY <1>1, <1>2
      <3>4. k < i - 1 => gaps[j].date < c
        BY <1>1, <1>2, <3>1 DEF WalkInv
      <3>5. k > i => d < gaps[j].date
        BY <1>1, <1>2, <3>1 DEF WalkInv
      <3> QED BY <1>4, <3>1, <3>2, <3>3, <3>4, <3>5
    <2> QED BY <2>1
  <1>9. Sum(size, Later(i)) \in Int
    <2> HIDE DEF size
    <2> QED BY <1>5, <1>7, SumInt
  <1> HIDE DEF size
  <1>10. CASE e = o /\ \A j \in DOMAIN gaps : gaps[j].date # d
    <2>1. Later(i - 1) = Later(i)
      BY <1>8, <1>10
    <2>2. Basis[e] = Basis[o] /\ Sum(size, Later(i - 1)) = Sum(size, Later(i))
      BY <1>10, <2>1
    <2>3. ~ \E j \in DOMAIN gaps : gaps[j].date = d /\ gaps[j].kind = "stale"
      BY <1>10
    <2>4. AdjClose(i) - AdjClose(i - 1) = Market[d] - Market[c]
      <3> HIDE DEF Later, e, o, d, c
      <3> QED BY <1>4, <1>6, <1>9, <2>2
    <2> QED BY <2>3, <2>4
  <1>11. ASSUME NEW j \in DOMAIN gaps, Bridges(j, i)
         PROVE  AdjClose(i) - AdjClose(i - 1) =
                        IF \E k \in DOMAIN gaps : gaps[k].date = d /\ gaps[k].kind = "stale"
                        THEN 0
                        ELSE Market[d] - Market[c]
    <2>1. \A k \in DOMAIN gaps : gaps[k].date = d => k = j
      BY <1>11 DEF WalkInv, Bridges
    <2>2. j \in Later(i - 1) /\ Later(i - 1) \ {j} = Later(i)
      BY <1>4, <1>8, <1>11, <2>1 DEF Bridges
    <2>3. Sum(size, Later(i - 1)) = gaps[j].size + Sum(size, Later(i))
      BY <1>5, <1>7, <2>2, SumWithout
    <2>4. (\E k \in DOMAIN gaps : gaps[k].date = d /\ gaps[k].kind = "stale") <=> gaps[j].kind = "stale"
      BY <1>11, <2>1 DEF Bridges
    <2>5. gaps[j].size = IF gaps[j].kind = "stale" THEN Price(e, d) - Price(o, c) ELSE Basis[e] - Basis[o]
      BY <1>11 DEF Bridges, RowPrice
    <2> HIDE DEF Later, e, o, d, c
    <2> QED BY <1>4, <1>6, <1>9, <2>3, <2>4, <2>5
  <1>12. (e = o /\ \A j \in DOMAIN gaps : gaps[j].date # d) \/ \E j \in DOMAIN gaps : Bridges(j, i)
    BY DEF WalkInv
  <1> QED BY <1>10, <1>11, <1>12

\* The continuous series moves as the market does, for every calendar, every pattern of
\* listings and every number of sessions before a roll: no change of contract shows in it.
THEOREM SeriesAlwaysFollows == ContSpec => []SeriesFollowsMarket
  BY WalkFollows, AlwaysWalkInv, PTL

-----------------------------------------------------------------------------
(* ChangeLedger *)

LedgerRows == [stock : Stocks, side : {"add", "remove"}, announced : Nat, effective : Nat]

\* What merge_repeats makes of a row that is no repeat.
MergedRow(L, x) ==
    LET repeat == {q \in L : x \in Before(L, q) /\ IsRepeat(L, q)}
    IN IF repeat = {} THEN x
       ELSE [x EXCEPT !.effective = (CHOOSE q \in repeat : TRUE).effective]

\* Row r comes after all that was said of its company.
Newer(L, r) ==
    /\ L \subseteq LedgerRows /\ r \in LedgerRows
    /\ \A q \in L : q.stock = r.stock => q.announced < r.announced

LEMMA MergeIs ==
    ASSUME NEW L
    PROVE  MergeRepeats(L) = {MergedRow(L, x) : x \in {x \in L : ~IsRepeat(L, x)}}
  BY DEF MergeRepeats, MergedRow

LEMMA MergedFrom ==
    ASSUME NEW L, L \subseteq LedgerRows
    PROVE  /\ MergeRepeats(L) \subseteq LedgerRows
           /\ \A m \in MergeRepeats(L) : \E x \in L :
                m.stock = x.stock /\ m.side = x.side /\ m.announced = x.announced
  <1> SUFFICES ASSUME NEW x \in L
               PROVE  LET m == MergedRow(L, x)
                      IN  m \in LedgerRows /\ m.stock = x.stock /\ m.side = x.side /\ m.announced = x.announced
    BY MergeIs
  <1> DEFINE repeat == {q \in L : x \in Before(L, q) /\ IsRepeat(L, q)}
             c == CHOOSE q \in repeat : TRUE
  <1>1. CASE repeat = {}
    BY <1>1 DEF MergedRow
  <1>2. CASE repeat # {}
    <2>1. c \in LedgerRows
      BY <1>2
    <2>2. MergedRow(L, x) = [x EXCEPT !.effective = c.effective]
      BY <1>2 DEF MergedRow
    <2> HIDE DEF c
    <2> QED BY <2>1, <2>2 DEF LedgerRows
  <1> QED BY <1>1, <1>2

\* A new row changes nothing about the older ones.
LEMMA NewerKeeps ==
    ASSUME NEW L, NEW r, Newer(L, r)
    PROVE  /\ \A x \in L \cup {r} : Before(L \cup {r}, x) = Before(L, x)
           /\ \A x \in L \cup {r} : IsRepeat(L \cup {r}, x) <=> IsRepeat(L, x)
           /\ \A x \in L \cup {r} : r \notin Before(L, x)
           /\ r \notin L
  <1>1. ASSUME NEW x \in L \cup {r}
        PROVE  /\ Before(L \cup {r}, x) = Before(L, x)
               /\ r \notin Before(L, x)
    <2> DEFINE older(K) == {q \in K : q.stock = x.stock /\ q.side = x.side /\ q.announced < x.announced}
    <2>1. ~(r.stock = x.stock /\ r.announced < x.announced)
      BY DEF Newer, LedgerRows
    <2>2. older(L \cup {r}) = older(L) /\ r \notin older(L)
      BY <2>1
    <2>3. \A K : Before(K, x) = {q \in older(K) : \A o \in older(K) : o.announced <= q.announced}
      BY DEF Before
    <2> HIDE DEF older
    <2> QED BY <2>2, <2>3
  <1>2. r \notin L
    BY DEF Newer, LedgerRows
  <1> QED BY <1>1, <1>2 DEF IsRepeat

LEMMA MergeNew ==
    ASSUME NEW L, NEW r, Newer(L, r), ~IsRepeat(L, r)
    PROVE  MergeRepeats(L \cup {r}) = MergeRepeats(L) \cup {r}
  <1> DEFINE N == L \cup {r}
             repeats(K, x) == {q \in K : x \in Before(K, q) /\ IsRepeat(K, q)}
  <1>1. {x \in N : ~IsRepeat(N, x)} = {x \in L : ~IsRepeat(L, x)} \cup {r}
    BY NewerKeeps
  <1>2. \A x : repeats(N, x) = repeats(L, x)
    BY NewerKeeps
  <1>3. repeats(N, r) = {}
    BY NewerKeeps
  <1>4. MergedRow(N, r) = r /\ \A x : MergedRow(N, x) = MergedRow(L, x)
    <2>1. \A K, x : MergedRow(K, x) = IF repeats(K, x) = {} THEN x
                        ELSE [x EXCEPT !.effective = (CHOOSE q \in repeats(K, x) : TRUE).effective]
      BY DEF MergedRow
    <2> HIDE DEF N, repeats
    <2> QED BY <1>2, <1>3, <2>1
  <1>5. MergeRepeats(N) = {MergedRow(L, x) : x \in {x \in L : ~IsRepeat(L, x)} \cup {r}}
    <2>1. MergeRepeats(N) = {MergedRow(N, x) : x \in {x \in N : ~IsRepeat(N, x)}}
      BY MergeIs
    <2> HIDE DEF N
    <2> QED BY <1>1, <1>4, <2>1
  <1> QED BY <1>4, <1>5, MergeIs

LEMMA MergeRepeated ==
    ASSUME NEW L, NEW r, Newer(L, r), NEW p \in L, p.stock = r.stock, p.side = r.side,
           \A q \in L : q.stock = p.stock /\ q.side = p.side => q.announced <= p.announced,
           \A q \in L : q.stock = p.stock /\ q.announced = p.announced => q = p,
           r.announced <= p.effective, ~IsRepeat(L, p)
    PROVE  MergeRepeats(L \cup {r}) = (MergeRepeats(L) \ {p}) \cup {[p EXCEPT !.effective = r.effective]}
  <1> DEFINE N == L \cup {r}
             late == [p EXCEPT !.effective = r.effective]
             repeats(K, x) == {q \in K : x \in Before(K, q) /\ IsRepeat(K, q)}
             firsts == {x \in L : ~IsRepeat(L, x)}
  <1>1. Before(L, r) = {p}
    <2>1. p.announced < r.announced /\ p.announced \in Nat
      BY DEF Newer, LedgerRows
    <2>2. \A q \in L : q.announced \in Nat
      BY DEF Newer, LedgerRows
    <2>3. p \in Before(L, r)
      BY <2>1 DEF Before
    <2>4. ASSUME NEW q \in Before(L, r) PROVE q = p
      <3>1. q \in L /\ q.stock = p.stock /\ q.side = p.side /\ p.announced <= q.announced
        BY <2>1 DEF Before
      <3>2. q.announced <= p.announced
        BY <3>1
      <3> QED BY <2>1, <2>2, <3>1, <3>2
    <2> QED BY <2>3, <2>4
  <1>2. IsRepeat(L, r)
    BY <1>1 DEF IsRepeat
  <1>3. {x \in N : ~IsRepeat(N, x)} = firsts /\ p \in firsts
    BY <1>2, NewerKeeps
  <1>3a. /\ Before(N, r) = {p} /\ IsRepeat(N, r)
         /\ \A q \in L : Before(N, q) = Before(L, q) /\ (IsRepeat(N, q) <=> IsRepeat(L, q))
    BY <1>1, <1>2, NewerKeeps
  <1>4. \A x : x # p => repeats(N, x) = repeats(L, x)
    <2> SUFFICES ASSUME NEW x, x # p PROVE repeats(N, x) = repeats(L, x)
      OBVIOUS
    <2>1. r \notin repeats(N, x)
      BY <1>3a
    <2>2. \A q \in L : q \in repeats(N, x) <=> q \in repeats(L, x)
      BY <1>3a
    <2>3. repeats(N, x) \subseteq L \cup {r} /\ repeats(L, x) \subseteq L
      OBVIOUS
    <2> HIDE DEF repeats
    <2> QED BY <2>1, <2>2, <2>3
  <1>5. repeats(L, p) = {}
    <2>1. ASSUME NEW q \in L, p \in Before(L, q) PROVE FALSE
      <3>1. p.stock = q.stock /\ p.side = q.side /\ p.announced < q.announced
        BY <2>1 DEF Before
      <3>2. p.announced \in Nat /\ q.announced \in Nat
        BY DEF Newer, LedgerRows
      <3> QED BY <3>1, <3>2
    <2> QED BY <2>1
  <1>6. repeats(N, p) = {r}
    <2>1. \A q \in L : p \notin Before(L, q) \/ ~IsRepeat(L, q)
      BY <1>5
    <2>2. r \in repeats(N, p)
      BY <1>3a
    <2>3. \A q \in L : q \notin repeats(N, p)
      BY <1>3a, <2>1
    <2>4. repeats(N, p) \subseteq L \cup {r}
      OBVIOUS
    <2> HIDE DEF repeats
    <2> QED BY <2>2, <2>3, <2>4
  <1>7. /\ MergedRow(N, p) = late /\ MergedRow(L, p) = p
        /\ \A x : x # p => MergedRow(N, x) = MergedRow(L, x)
    <2>1. \A K, x : MergedRow(K, x) = IF repeats(K, x) = {} THEN x
                        ELSE [x EXCEPT !.effective = (CHOOSE q \in repeats(K, x) : TRUE).effective]
      BY DEF MergedRow
    <2> HIDE DEF N, repeats
    <2> QED BY <1>4, <1>5, <1>6, <2>1
  <1>8. ASSUME NEW x \in firsts, MergedRow(L, x) = p PROVE x = p
    <2>1. x \in L
      OBVIOUS
    <2>2. MergedRow(L, x).stock = x.stock /\ MergedRow(L, x).announced = x.announced
      <3> DEFINE c == CHOOSE q \in repeats(L, x) : TRUE
      <3>1. MergedRow(L, x) = x \/ MergedRow(L, x) = [x EXCEPT !.effective = c.effective]
        BY DEF MergedRow
      <3>2. x \in LedgerRows
        BY <2>1 DEF Newer
      <3> HIDE DEF c
      <3> QED BY <3>1, <3>2 DEF LedgerRows
    <2> QED BY <1>8, <2>1, <2>2
  <1>9. MergeRepeats(L) = {MergedRow(L, x) : x \in firsts}
    BY MergeIs
  <1>10. MergeRepeats(N) = {MergedRow(N, x) : x \in firsts}
    <2>1. MergeRepeats(N) = {MergedRow(N, x) : x \in {x \in N : ~IsRepeat(N, x)}}
      BY MergeIs
    <2> HIDE DEF N, firsts
    <2> QED BY <1>3, <2>1
  <1> HIDE DEF N, firsts, late
  <1>11. MergeRepeats(N) = (MergeRepeats(L) \ {p}) \cup {late}
    BY <1>3, <1>7, <1>8, <1>9, <1>10
  <1> QED BY <1>11 DEF N, late

LEMMA CancelNew ==
    ASSUME NEW K, NEW r, \A m \in K \cup {r} : ~Undoes(r, m) /\ ~Undoes(m, r)
    PROVE  CancelPairs(K \cup {r}) = CancelPairs(K) \cup {r}
  BY DEF CancelPairs

\* The last row of a company and side.
Newest(r) ==
    /\ r \in releases
    /\ \A q \in releases : q.stock = r.stock /\ q.side = r.side => q.announced <= r.announced

\* What the exchange would announce next of a company.
NextSide(c) == IF c \in member THEN "remove" ELSE "add"

\* Nothing is due: a row of today or later will not be taken for a repeat, nor for the
\* undoing of a change.
IdleOk(c) ==
    /\ \A m \in MergeRepeats(releases) : m.stock = c => m.effective <= calendar \/ m.effective <= quiet[c]
    /\ \A r : Newest(r) /\ r.stock = c =>
            \/ r.effective <= quiet[c]
            \/ IF r.side = NextSide(c) THEN r.effective < calendar ELSE r.effective <= calendar

\* Change D of company c is due: the archive has it as it is due now, the rows before it
\* were over when it was announced, and the next row of its side is a repeat.
DueOk(c, D) ==
    /\ D \in LedgerRows /\ D.stock = c /\ D.side = NextSide(c)
    /\ D.announced <= calendar /\ calendar < D.effective
    /\ D \in MergeRepeats(releases)
    /\ \A m \in MergeRepeats(releases) :
            m.stock = c /\ m # D => m.announced < D.announced /\ m.effective <= D.announced
    /\ \A r : Newest(r) /\ r.stock = c =>
            IF r.side = D.side THEN r.effective = D.effective ELSE r.effective <= D.announced
    /\ told[c] = 0 => Newest(D) /\ ~IsRepeat(releases, D)

StockOk(c) == IF due[c] = Nothing THEN IdleOk(c) ELSE DueOk(c, due[c])

LedgerInv ==
    /\ calendar \in Nat
    /\ quiet \in [Stocks -> Int] /\ told \in [Stocks -> Nat]
    /\ DOMAIN due = Stocks
    /\ releases \subseteq LedgerRows
    /\ \A r \in releases : r.announced <= calendar
    /\ \A r, q \in releases : r.stock = q.stock /\ r.announced = q.announced => r = q
    /\ \A h \in history : h.effective <= calendar
    /\ \A c \in Stocks : StockOk(c)
    /\ ArchiveIsHistory

LEMMA LedgerStart == LedgerInit => LedgerInv
  <1> SUFFICES ASSUME LedgerInit PROVE LedgerInv
    OBVIOUS
  <1>1. releases = {} /\ history = {} /\ \A c \in Stocks : due[c] = Nothing
    BY DEF LedgerInit
  <1>2. MergeRepeats(releases) = {}
    BY <1>1 DEF MergeRepeats
  <1>3. Build(releases) = {}
    BY <1>2 DEF Build, CancelPairs
  <1>4. ArchiveIsHistory
    BY <1>1, <1>3 DEF ArchiveIsHistory
  <1>5. calendar \in Nat /\ quiet \in [Stocks -> Int] /\ told \in [Stocks -> Nat] /\ DOMAIN due = Stocks
    BY DEF LedgerInit
  <1> QED BY <1>1, <1>2, <1>4, <1>5 DEF LedgerInv, StockOk, IdleOk, Newest

\* A row that a company may publish is newer than all it has published.
LEMMA SpokenNewer ==
    ASSUME LedgerInv, NEW r \in LedgerRows, r.announced = calendar, MaySpeak(r.stock)
    PROVE  /\ Newer(releases, r)
           /\ \A q \in releases : q.stock = r.stock => q.announced < calendar
           /\ r \notin releases
  BY DEF LedgerInv, MaySpeak, Said, Newer, LedgerRows

\* What a new row does not change: the newest rows of the other companies and sides.
LEMMA NewestAfter ==
    ASSUME NEW r, Newer(releases, r), releases' = releases \cup {r}
    PROVE  \A q : Newest(q)' <=> (q = r \/ (Newest(q) /\ ~(q.stock = r.stock /\ q.side = r.side)))
  BY DEF Newest, Newer, LedgerRows

\* A row of one company leaves the others as they are.
LEMMA OthersKept ==
    ASSUME LedgerInv, NEW r, Newer(releases, r), releases' = releases \cup {r},
           NEW x \in Stocks, x # r.stock, UNCHANGED <<calendar, member>>,
           due'[x] = due[x], quiet'[x] = quiet[x], told'[x] = told[x],
           \A m : m.stock = x => (m \in MergeRepeats(releases') <=> m \in MergeRepeats(releases))
    PROVE  StockOk(x)'
  <1>1. StockOk(x)
    BY DEF LedgerInv
  <1>2. \A q : q.stock = x => (Newest(q)' <=> Newest(q))
    BY NewestAfter
  <1>3. \A c : NextSide(c)' = NextSide(c)
    BY DEF NextSide
  <1>4. CASE due[x] = Nothing
    <2>1. IdleOk(x)
      BY <1>1, <1>4 DEF StockOk
    <2>2. IdleOk(x)'
      BY <1>2, <1>3, <2>1 DEF IdleOk
    <2> QED BY <1>4, <2>2 DEF StockOk
  <1>5. CASE due[x] # Nothing
    <2>1. PICK D : D = due[x]
      OBVIOUS
    <2>2. DueOk(x, D)
      BY <1>1, <1>5, <2>1 DEF StockOk
    <2>3. D.stock = x /\ D \in LedgerRows
      BY <2>2 DEF DueOk
    <2>4. told[x] = 0 => (IsRepeat(releases', D) <=> IsRepeat(releases, D))
      BY <2>2, NewerKeeps DEF DueOk, Newest
    <2>5. DueOk(x, D)'
      BY <1>2, <1>3, <2>2, <2>3, <2>4 DEF DueOk
    <2> QED BY <1>5, <2>1, <2>5 DEF StockOk
  <1> QED BY <1>4, <1>5

LEMMA AnnounceKeeps ==
    ASSUME LedgerInv, NEW c \in Stocks, NEW e \in 1..LastDate, Announce(c, e)
    PROVE  LedgerInv'
  <1> DEFINE M == MergeRepeats(releases)
  <1>0. PICK D : D = due'[c]
    OBVIOUS
  <1>1. /\ D = ChangeRow(c, NextSide(c), calendar, e) /\ D \in LedgerRows
        /\ D.stock = c /\ D.side = NextSide(c) /\ D.announced = calendar /\ D.effective = e
        /\ D # Nothing /\ \A x \in Stocks : x # c => due'[x] = due[x]
    BY <1>0, LedgerAssumption DEF Announce, ChangeRow, LedgerRows, NextSide, LedgerInv
  <1>2. /\ due[c] = Nothing /\ calendar > quiet[c] /\ e > calendar /\ MaySpeak(c)
        /\ releases' = releases \cup {D} /\ told' = [told EXCEPT ![c] = 0] /\ DOMAIN due' = Stocks
        /\ UNCHANGED <<calendar, member, quiet, history>>
    BY <1>0 DEF Announce, LedgerInv
  <1>3. calendar \in Nat /\ e \in Nat /\ quiet[c] \in Int /\ IdleOk(c)
    BY <1>2, LedgerAssumption DEF LedgerInv, StockOk
  <1>4. Newer(releases, D) /\ (\A q \in releases : q.stock = c => q.announced < calendar) /\ D \notin releases
    BY <1>1, <1>2, SpokenNewer
  <1>5. ~IsRepeat(releases, D)
    <2>1. ASSUME NEW q \in Before(releases, D), D.announced <= q.effective PROVE FALSE
      <3>1. q \in releases /\ q.stock = c /\ q.side = D.side
        BY <1>1 DEF Before
      <3>2. Newest(q)
        BY <1>1, <1>4, <3>1 DEF Before, Newest
      <3>3. q.effective <= quiet[c] \/ q.effective < calendar
        BY <1>1, <1>3, <3>1, <3>2 DEF IdleOk
      <3>4. q.effective \in Nat
        BY <3>1 DEF LedgerInv, LedgerRows
      <3> QED BY <1>1, <1>2, <1>3, <2>1, <3>3, <3>4
    <2> QED BY <2>1 DEF IsRepeat
  <1>6. MergeRepeats(releases') = M \cup {D}
    BY <1>2, <1>4, <1>5, MergeNew
  <1>7. M \subseteq LedgerRows /\ \A m \in M : m.stock = c => m.announced < calendar /\ m.effective <= calendar
    <2>1. releases \subseteq LedgerRows
      BY DEF LedgerInv
    <2>2. \A m \in M : m \in LedgerRows /\ m.effective \in Nat
      BY <2>1, MergedFrom DEF LedgerRows
    <2>3. \A m \in M : m.stock = c => m.announced < calendar
      BY <1>4, <2>1, MergedFrom
    <2>4. \A m \in M : m.stock = c => m.effective <= calendar
      BY <1>2, <1>3, <2>2 DEF IdleOk
    <2> QED BY <2>2, <2>3, <2>4
  <1>8. Build(releases') = Build(releases) \cup {D}
    <2>1. ASSUME NEW m \in M \cup {D} PROVE ~Undoes(D, m) /\ ~Undoes(m, D)
      <3>1. m = D \/ (m.stock = c => m.announced < calendar /\ m.effective <= calendar)
        BY <1>7
      <3>2. m.announced \in Nat /\ m.effective \in Nat
        BY <1>1, <1>7 DEF LedgerRows
      <3> QED BY <1>1, <1>2, <1>3, <3>1, <3>2 DEF Undoes
    <2> HIDE DEF M
    <2> QED BY <1>6, <2>1, CancelNew DEF Build, M
  <1>9. ArchiveIsHistory'
    <2> DEFINE dues == {x \in Stocks : due[x] # Nothing}
    <2>1. {x \in Stocks : due'[x] # Nothing} = dues \cup {c}
      BY <1>0, <1>1
    <2>2. {due'[x] : x \in dues \cup {c}} = {due[x] : x \in dues} \cup {D}
      <3>1. c \notin dues /\ dues \subseteq Stocks
        BY <1>2
      <3>2. \A x \in dues : due'[x] = due[x]
        BY <1>1, <3>1
      <3> HIDE DEF dues
      <3> QED BY <1>0, <3>2
    <2>3. Build(releases) = history \cup {due[x] : x \in dues}
      BY DEF LedgerInv, ArchiveIsHistory
    <2> HIDE DEF dues
    <2> QED BY <1>2, <1>8, <2>1, <2>2, <2>3 DEF ArchiveIsHistory
  <1>10. ASSUME NEW x \in Stocks PROVE StockOk(x)'
    <2>1. \A q : Newest(q)' <=> (q = D \/ (Newest(q) /\ ~(q.stock = c /\ q.side = D.side)))
      BY <1>1, <1>2, <1>4, NewestAfter
    <2>2. CASE x = c
      <3>1. \A r : Newest(r)' /\ r.stock = c =>
                IF r.side = D.side THEN r.effective = D.effective ELSE r.effective <= D.announced
        <4>1. ASSUME NEW r, Newest(r), r.stock = c, r.side # D.side PROVE r.effective <= calendar
          <5>1. r.effective <= quiet[c] \/ r.effective <= calendar
            BY <1>1, <1>3, <4>1 DEF IdleOk
          <5>2. r.effective \in Nat
            BY <4>1 DEF Newest, LedgerInv, LedgerRows
          <5> QED BY <1>2, <1>3, <5>1, <5>2
        <4> QED BY <1>1, <2>1, <4>1
      <3>2. ~IsRepeat(releases', D) /\ Newest(D)'
        BY <1>2, <1>4, <1>5, <2>1, NewerKeeps
      <3>3. DueOk(c, D)'
        <4>1. NextSide(c)' = NextSide(c)
          BY <1>2 DEF NextSide
        <4>2. /\ D.side = NextSide(c)' /\ D.announced <= calendar' /\ calendar' < D.effective
              /\ D \in MergeRepeats(releases')
          BY <1>1, <1>2, <1>3, <1>6, <4>1
        <4>3. \A m \in MergeRepeats(releases') :
                m.stock = c /\ m # D => m.announced < D.announced /\ m.effective <= D.announced
          BY <1>1, <1>6, <1>7
        <4> QED BY <1>1, <3>1, <3>2, <4>2, <4>3 DEF DueOk
      <3> QED BY <1>0, <1>1, <2>2, <3>3 DEF StockOk
    <2>3. CASE x # c
      <3>1. due'[x] = due[x] /\ told'[x] = told[x]
        BY <1>1, <1>2, <2>3 DEF LedgerInv
      <3>2. \A m : m.stock = x => (m \in MergeRepeats(releases') <=> m \in MergeRepeats(releases))
        BY <1>1, <1>6, <2>3
      <3> QED BY <1>1, <1>2, <1>4, <2>3, <3>1, <3>2, OthersKept
    <2> QED BY <2>2, <2>3
  <1>11. /\ releases' \subseteq LedgerRows /\ \A r \in releases' : r.announced <= calendar'
         /\ \A r, q \in releases' : r.stock = q.stock /\ r.announced = q.announced => r = q
    BY <1>1, <1>2, <1>3, <1>4 DEF LedgerInv
  <1>12. told' \in [Stocks -> Nat] /\ quiet' = quiet /\ calendar' = calendar /\ history' = history
    BY <1>2 DEF LedgerInv
  <1> QED BY <1>2, <1>9, <1>10, <1>11, <1>12 DEF LedgerInv

\* The rows of a company whose change D is due.
LEMMA DueFacts ==
    ASSUME LedgerInv, NEW c \in Stocks, due[c] # Nothing, MaySpeak(c)
    PROVE  LET M == MergeRepeats(releases)
               D == due[c]
           IN  /\ DueOk(c, D) /\ D \in M /\ D \in LedgerRows /\ D.stock = c /\ D.announced < calendar
               /\ M \subseteq LedgerRows /\ calendar \in Nat
               /\ \A m \in M : m.stock = c => m.announced < calendar
               /\ D \in Build(releases)
               /\ D \notin history
               /\ Build(releases) = history \cup {due[x] : x \in {x \in Stocks : due[x] # Nothing}}
               /\ \A x \in Stocks : x # c => due[x] # D
  <1> DEFINE M == MergeRepeats(releases)
             D == due[c]
  <1>1. DueOk(c, D) /\ D \in LedgerRows /\ D \in M /\ D.stock = c /\ calendar < D.effective
    BY DEF LedgerInv, StockOk, DueOk
  <1>2. releases \subseteq LedgerRows /\ calendar \in Nat
    BY DEF LedgerInv
  <1>3. M \subseteq LedgerRows /\ \A m \in M : m.stock = c => m.announced < calendar
    <2>1. \A q \in releases : q.stock = c => q.announced < calendar
      BY DEF MaySpeak, Said
    <2> QED BY <1>2, <2>1, MergedFrom
  <1>4. Build(releases) = history \cup {due[x] : x \in {x \in Stocks : due[x] # Nothing}}
    BY DEF LedgerInv, ArchiveIsHistory
  <1>5. D \notin history
    BY <1>1, <1>2 DEF LedgerInv, LedgerRows
  <1>6. \A x \in Stocks : x # c => due[x] # D
    <2>1. ASSUME NEW x \in Stocks, x # c, due[x] = D PROVE FALSE
      <3>1. DueOk(x, D)
        BY <2>1 DEF LedgerInv, StockOk
      <3> QED BY <1>1, <2>1, <3>1 DEF DueOk
    <2> QED BY <2>1
  <1> QED BY <1>1, <1>2, <1>3, <1>4, <1>5, <1>6

LEMMA RepeatKeeps ==
    ASSUME LedgerInv, Repeats <= 1, NEW c \in Stocks, NEW e \in 1..LastDate, Repeat(c, e)
    PROVE  LedgerInv'
  <1> DEFINE M == MergeRepeats(releases)
  <1>0. PICK D, r, E : /\ D = due[c] /\ r = ChangeRow(c, D.side, calendar, e)
                       /\ E = [D EXCEPT !.effective = e]
    OBVIOUS
  <1>1. /\ D # Nothing /\ MaySpeak(c) /\ told[c] = 0 /\ e > calendar
        /\ due' = [due EXCEPT ![c] = E] /\ told' = [told EXCEPT ![c] = told[c] + 1]
        /\ releases' = releases \cup {r}
        /\ UNCHANGED <<calendar, member, quiet, history>>
    BY <1>0, LedgerAssumption DEF Repeat, LedgerInv
  <1>2. /\ DueOk(c, D) /\ D \in M /\ D \in LedgerRows /\ D.stock = c /\ D.announced < calendar
        /\ M \subseteq LedgerRows /\ calendar \in Nat
        /\ \A m \in M : m.stock = c => m.announced < calendar
        /\ D \in Build(releases) /\ D \notin history
        /\ Build(releases) = history \cup {due[x] : x \in {x \in Stocks : due[x] # Nothing}}
        /\ \A x \in Stocks : x # c => due[x] # D
    BY <1>0, <1>1, DueFacts
  <1>3. /\ r \in LedgerRows /\ r.stock = c /\ r.side = D.side /\ r.announced = calendar /\ r.effective = e
        /\ E \in LedgerRows /\ E.stock = c /\ E.side = D.side /\ E.announced = D.announced /\ E.effective = e
        /\ E # Nothing /\ e \in Nat
    BY <1>0, <1>2, LedgerAssumption DEF ChangeRow, LedgerRows
  <1>4. Newer(releases, r) /\ r \notin releases
    BY <1>1, <1>3, SpokenNewer
  <1>5. /\ D \in releases /\ ~IsRepeat(releases, D) /\ calendar < D.effective /\ D.effective \in Nat
        /\ \A q \in releases : q.stock = D.stock /\ q.side = D.side => q.announced <= D.announced
        /\ \A q \in releases : q.stock = D.stock /\ q.announced = D.announced => q = D
    BY <1>1, <1>2 DEF DueOk, Newest, LedgerInv, LedgerRows
  <1>6. MergeRepeats(releases') = (M \ {D}) \cup {E}
    <2>1. r.announced <= D.effective
      BY <1>2, <1>3, <1>5
    <2>2. E = [D EXCEPT !.effective = r.effective]
      BY <1>0, <1>3
    <2> QED BY <1>1, <1>2, <1>3, <1>4, <1>5, <2>1, <2>2, MergeRepeated
  <1>7. \A m \in M : m.stock = c /\ m # D => m.announced < D.announced /\ m.effective <= D.announced
    BY <1>2 DEF DueOk
  <1>8. Build(releases') = (Build(releases) \ {D}) \cup {E}
    <2>1. ASSUME NEW m \in M \ {D} PROVE ~Undoes(D, m) /\ ~Undoes(m, D) /\ ~Undoes(E, m) /\ ~Undoes(m, E)
      <3>1. m.stock = c => m.announced < D.announced /\ m.effective <= D.announced
        BY <1>7
      <3>2. m.announced \in Nat /\ m.effective \in Nat /\ D.announced \in Nat
        BY <1>2 DEF LedgerRows
      <3> QED BY <1>1, <1>2, <1>3, <1>5, <3>1, <3>2 DEF Undoes
    <2>2. ~Undoes(D, D) /\ ~Undoes(E, E)
      BY DEF Undoes
    <2> DEFINE K == M \ {D}
    <2>3. CancelPairs(K \cup {D}) = CancelPairs(K) \cup {D} /\ CancelPairs(K \cup {E}) = CancelPairs(K) \cup {E}
      <3> HIDE DEF M
      <3>1. \A m \in K \cup {D} : ~Undoes(D, m) /\ ~Undoes(m, D)
        BY <2>1, <2>2
      <3>2. \A m \in K \cup {E} : ~Undoes(E, m) /\ ~Undoes(m, E)
        BY <2>1, <2>2
      <3> HIDE DEF K
      <3> QED BY <3>1, <3>2, CancelNew
    <2>4. K \cup {D} = M /\ D \notin CancelPairs(K)
      BY <1>2 DEF CancelPairs
    <2> HIDE DEF K, M
    <2> QED BY <1>6, <2>3, <2>4 DEF Build, M, K
  <1>9. ArchiveIsHistory'
    <2> DEFINE dues == {x \in Stocks : due[x] # Nothing}
    <2>1. {x \in Stocks : due'[x] # Nothing} = dues /\ c \in dues
      BY <1>0, <1>1, <1>3 DEF LedgerInv
    <2>2. {due'[x] : x \in dues} = ({due[x] : x \in dues} \ {D}) \cup {E}
      <3>1. due'[c] = E /\ \A x \in dues : x # c => due'[x] = due[x] /\ due[x] # D
        BY <1>1, <1>2 DEF LedgerInv
      <3>2. c \in dues /\ due[c] = D
        BY <1>0, <2>1
      <3> HIDE DEF dues
      <3> QED BY <3>1, <3>2
    <2>3. Build(releases) = history \cup {due[x] : x \in dues} /\ D \notin history
      BY <1>2
    <2> HIDE DEF dues
    <2> QED BY <1>1, <1>8, <2>1, <2>2, <2>3 DEF ArchiveIsHistory
  <1>10. ASSUME NEW x \in Stocks PROVE StockOk(x)'
    <2>1. \A q : Newest(q)' <=> (q = r \/ (Newest(q) /\ ~(q.stock = c /\ q.side = D.side)))
      BY <1>1, <1>3, <1>4, NewestAfter
    <2>2. CASE x = c
      <3>1. \A q : Newest(q)' /\ q.stock = c =>
                IF q.side = E.side THEN q.effective = E.effective ELSE q.effective <= E.announced
        <4>1. \A q : Newest(q) /\ q.stock = c /\ q.side # D.side => q.effective <= D.announced
          BY <1>2 DEF DueOk
        <4> QED BY <1>3, <2>1, <4>1
      <3>2. told'[c] # 0
        BY <1>1 DEF LedgerInv
      <3>3. E.side = NextSide(c)' /\ E.announced <= calendar' /\ calendar' < E.effective
        <4>1. D.side = NextSide(c) /\ D.announced <= calendar
          BY <1>2 DEF DueOk
        <4> QED BY <1>1, <1>3, <4>1 DEF NextSide
      <3>4. E \in MergeRepeats(releases') /\ \A m \in MergeRepeats(releases') :
                m.stock = c /\ m # E => m.announced < E.announced /\ m.effective <= E.announced
        BY <1>3, <1>6, <1>7
      <3>5. DueOk(c, E)'
        BY <1>3, <3>1, <3>2, <3>3, <3>4 DEF DueOk
      <3>6. due'[c] = E
        BY <1>1 DEF LedgerInv
      <3> QED BY <1>3, <2>2, <3>5, <3>6 DEF StockOk
    <2>3. CASE x # c
      <3>1. due'[x] = due[x] /\ told'[x] = told[x]
        BY <1>1, <2>3 DEF LedgerInv
      <3>2. \A m : m.stock = x => (m \in MergeRepeats(releases') <=> m \in MergeRepeats(releases))
        BY <1>2, <1>3, <1>6, <2>3
      <3> QED BY <1>1, <1>3, <1>4, <2>3, <3>1, <3>2, OthersKept
    <2> QED BY <2>2, <2>3
  <1>11. /\ releases' \subseteq LedgerRows /\ \A q \in releases' : q.announced <= calendar'
         /\ \A q, o \in releases' : q.stock = o.stock /\ q.announced = o.announced => q = o
    <2>1. \A q \in releases : q.stock = c => q.announced < calendar
      BY <1>1, <1>3, SpokenNewer
    <2> QED BY <1>1, <1>2, <1>3, <2>1 DEF LedgerInv
  <1>12. told' \in [Stocks -> Nat] /\ quiet' = quiet /\ calendar' = calendar /\ history' = history /\ DOMAIN due' = Stocks
    BY <1>1 DEF LedgerInv
  <1> QED BY <1>9, <1>10, <1>11, <1>12 DEF LedgerInv

LEMMA TakeBackKeeps ==
    ASSUME LedgerInv, NEW c \in Stocks, NEW e \in 1..LastDate, TakeBack(c, e)
    PROVE  LedgerInv'
  <1> DEFINE M == MergeRepeats(releases)
  <1>0. PICK D, r : /\ D = due[c]
                    /\ r = ChangeRow(c, IF D.side = "add" THEN "remove" ELSE "add", calendar, e)
    OBVIOUS
  <1>1. /\ D # Nothing /\ MaySpeak(c) /\ calendar < e /\ e <= D.effective
        /\ due' = [due EXCEPT ![c] = Nothing] /\ quiet' = [quiet EXCEPT ![c] = D.effective]
        /\ releases' = releases \cup {r}
        /\ UNCHANGED <<calendar, member, told, history>>
    BY <1>0 DEF TakeBack
  <1>2. /\ DueOk(c, D) /\ D \in M /\ D \in LedgerRows /\ D.stock = c /\ D.announced < calendar
        /\ M \subseteq LedgerRows /\ calendar \in Nat
        /\ \A m \in M : m.stock = c => m.announced < calendar
        /\ D \in Build(releases) /\ D \notin history
        /\ Build(releases) = history \cup {due[x] : x \in {x \in Stocks : due[x] # Nothing}}
        /\ \A x \in Stocks : x # c => due[x] # D
    BY <1>0, <1>1, DueFacts
  <1>3. /\ r \in LedgerRows /\ r.stock = c /\ r.side # D.side /\ r.announced = calendar /\ r.effective = e
        /\ e \in Nat /\ D.effective \in Nat /\ D.announced \in Nat
    BY <1>0, <1>2 DEF ChangeRow, LedgerRows
  <1>4. Newer(releases, r) /\ r \notin releases /\ \A q \in releases : q.stock = c => q.announced < calendar
    BY <1>1, <1>3, SpokenNewer
  <1>5. ~IsRepeat(releases, r)
    <2>1. ASSUME NEW q \in Before(releases, r), r.announced <= q.effective PROVE FALSE
      <3>1. q \in releases /\ q.stock = c /\ q.side # D.side
        BY <1>3, <2>1 DEF Before
      <3>2. Newest(q)
        BY <1>3, <1>4, <2>1, <3>1 DEF Before, Newest
      <3>3. q.effective <= D.announced /\ q.effective \in Nat
        BY <1>2, <3>1, <3>2 DEF DueOk, LedgerInv, LedgerRows
      <3> QED BY <1>2, <1>3, <2>1, <3>3
    <2> QED BY <2>1 DEF IsRepeat
  <1>6. MergeRepeats(releases') = M \cup {r}
    BY <1>1, <1>4, <1>5, MergeNew
  <1>7. \A m \in M : m.stock = c /\ m # D => m.announced < D.announced /\ m.effective <= D.announced
    BY <1>2 DEF DueOk
  <1>8. Build(releases') = Build(releases) \ {D}
    <2>1. ASSUME NEW m \in M \cup {r}, m # D PROVE ~Undoes(r, m) /\ ~Undoes(m, r)
      <3>1. CASE m = r
        BY <3>1 DEF Undoes
      <3>2. CASE m \in M
        <4>1. m.stock = c => m.announced < D.announced /\ m.effective <= D.announced
          BY <1>7, <2>1, <3>2
        <4>2. m.announced \in Nat /\ m.effective \in Nat
          BY <1>2, <3>2 DEF LedgerRows
        <4> QED BY <1>2, <1>3, <4>1, <4>2 DEF Undoes
      <3> QED BY <3>1, <3>2
    <2>2. Undoes(r, D) /\ calendar < D.effective
      BY <1>1, <1>2, <1>3 DEF Undoes, DueOk
    <2>3. D \in M
      BY <1>2
    <2> HIDE DEF M
    <2>4. CancelPairs(M \cup {r}) = CancelPairs(M) \ {D}
      <3>1. ASSUME NEW m \in M, m # D
            PROVE  m \in CancelPairs(M \cup {r}) <=> m \in CancelPairs(M)
        BY <2>1, <3>1 DEF CancelPairs
      <3>2. r \notin CancelPairs(M \cup {r}) /\ D \notin CancelPairs(M \cup {r})
        BY <2>2, <2>3 DEF CancelPairs
      <3>3. CancelPairs(M \cup {r}) \subseteq M \cup {r} /\ CancelPairs(M) \subseteq M
        BY DEF CancelPairs
      <3> QED BY <3>1, <3>2, <3>3
    <2> QED BY <1>6, <2>4 DEF Build, M
  <1>9. ArchiveIsHistory'
    <2> DEFINE dues == {x \in Stocks : due[x] # Nothing}
    <2>1. {x \in Stocks : due'[x] # Nothing} = dues \ {c} /\ c \in dues
      BY <1>0, <1>1 DEF LedgerInv
    <2>2. {due'[x] : x \in dues \ {c}} = {due[x] : x \in dues} \ {D}
      <3>1. \A x \in dues : x # c => due'[x] = due[x] /\ due[x] # D
        BY <1>1, <1>2 DEF LedgerInv
      <3>2. c \in dues /\ due[c] = D
        BY <1>0, <2>1
      <3> HIDE DEF dues
      <3> QED BY <3>1, <3>2
    <2>3. Build(releases) = history \cup {due[x] : x \in dues} /\ D \notin history
      BY <1>2
    <2> HIDE DEF dues
    <2> QED BY <1>1, <1>8, <2>1, <2>2, <2>3 DEF ArchiveIsHistory
  <1>10. ASSUME NEW x \in Stocks PROVE StockOk(x)'
    <2>1. \A q : Newest(q)' <=> (q = r \/ (Newest(q) /\ ~(q.stock = c /\ q.side = r.side)))
      BY <1>1, <1>3, <1>4, NewestAfter
    <2>2. CASE x = c
      <3>1. quiet'[c] = D.effective /\ due'[c] = Nothing
        BY <1>1 DEF LedgerInv
      <3>2. ASSUME NEW m \in M \cup {r}, m.stock = c PROVE m.effective <= D.effective
        <4>1. calendar < D.effective /\ m.effective \in Nat
          BY <1>2, <1>3 DEF DueOk, LedgerRows
        <4> QED BY <1>1, <1>2, <1>3, <1>7, <3>2, <4>1
      <3>3. ASSUME NEW q, Newest(q)', q.stock = c PROVE q.effective <= D.effective
        <4>1. CASE q = r
          BY <1>1, <1>3, <4>1
        <4>2. CASE Newest(q)
          <5>1. q.effective = D.effective \/ q.effective <= D.announced
            BY <1>2, <3>3, <4>2 DEF DueOk
          <5>2. q.effective \in Nat /\ D.announced < D.effective
            BY <1>1, <1>2, <1>3, <4>2 DEF Newest, LedgerInv, LedgerRows
          <5> QED BY <1>3, <5>1, <5>2
        <4> QED BY <2>1, <3>3, <4>1, <4>2
      <3>4. IdleOk(c)'
        BY <1>6, <3>1, <3>2, <3>3 DEF IdleOk
      <3> QED BY <2>2, <3>1, <3>4 DEF StockOk
    <2>3. CASE x # c
      <3>1. due'[x] = due[x] /\ told'[x] = told[x] /\ quiet'[x] = quiet[x]
        BY <1>1, <2>3 DEF LedgerInv
      <3>2. \A m : m.stock = x => (m \in MergeRepeats(releases') <=> m \in MergeRepeats(releases))
        BY <1>3, <1>6, <2>3
      <3> QED BY <1>1, <1>3, <1>4, <2>3, <3>1, <3>2, OthersKept
    <2> QED BY <2>2, <2>3
  <1>11. /\ releases' \subseteq LedgerRows /\ \A q \in releases' : q.announced <= calendar'
         /\ \A q, o \in releases' : q.stock = o.stock /\ q.announced = o.announced => q = o
    BY <1>1, <1>2, <1>3, <1>4 DEF LedgerInv
  <1>12. told' \in [Stocks -> Nat] /\ quiet' \in [Stocks -> Int] /\ calendar' = calendar /\ history' = history /\ DOMAIN due' = Stocks
    BY <1>1, <1>3 DEF LedgerInv
  <1> QED BY <1>9, <1>10, <1>11, <1>12 DEF LedgerInv

LEMMA NextDayKeeps ==
    ASSUME LedgerInv, NextDay
    PROVE  LedgerInv'
  <1> DEFINE now == {c \in Stocks : due[c] # Nothing /\ due[c].effective = calendar + 1}
             dues == {x \in Stocks : due[x] # Nothing}
  <1>1. /\ calendar' = calendar + 1 /\ calendar \in Nat
        /\ member' = (member \ {c \in now : due[c].side = "remove"}) \cup {c \in now : due[c].side = "add"}
        /\ history' = history \cup {due[c] : c \in now}
        /\ due' = [c \in Stocks |-> IF c \in now THEN Nothing ELSE due[c]]
        /\ UNCHANGED <<told, quiet, releases>>
    BY DEF NextDay, LedgerInv
  <1>2. \A x \in Stocks : due'[x] = IF x \in now THEN Nothing ELSE due[x]
    BY <1>1
  <1>3. \A x \in dues : DueOk(x, due[x]) /\ due[x] \in LedgerRows
    BY DEF LedgerInv, StockOk, DueOk
  <1>4. ArchiveIsHistory'
    <2>1. {x \in Stocks : due'[x] # Nothing} = dues \ now /\ now \subseteq dues
      BY <1>2
    <2>2. {due'[x] : x \in dues \ now} = {due[x] : x \in dues \ now}
      <3>1. \A x \in dues \ now : due'[x] = due[x]
        BY <1>2
      <3> HIDE DEF dues, now
      <3> QED BY <3>1
    <2>3. Build(releases) = history \cup {due[x] : x \in dues}
      BY DEF LedgerInv, ArchiveIsHistory
    <2>4. Build(releases') = Build(releases)
      BY <1>1
    <2> HIDE DEF dues, now
    <2> QED BY <1>1, <2>1, <2>2, <2>3, <2>4 DEF ArchiveIsHistory
  <1>5. \A h \in history' : h.effective <= calendar'
    <2>1. \A h \in history : h.effective <= calendar
      BY DEF LedgerInv
    <2>2. \A c \in now : due[c].effective = calendar + 1
      OBVIOUS
    <2>3. history \subseteq Build(releases)
      BY DEF LedgerInv, ArchiveIsHistory
    <2>4. \A h \in history : h \in LedgerRows
      <3>1. MergeRepeats(releases) \subseteq LedgerRows
        BY MergedFrom DEF LedgerInv
      <3> QED BY <2>3, <3>1 DEF Build, CancelPairs
    <2>5. \A h \in history : h.effective \in Nat
      BY <2>4 DEF LedgerRows
    <2> HIDE DEF now
    <2> QED BY <1>1, <2>1, <2>2, <2>5
  <1>6. ASSUME NEW x \in Stocks PROVE StockOk(x)'
    <2>1. \A q : Newest(q)' <=> Newest(q)
      BY <1>1 DEF Newest
    <2>2. MergeRepeats(releases') = MergeRepeats(releases) /\ quiet'[x] = quiet[x] /\ told'[x] = told[x]
      BY <1>1
    <2>3. \A q : Newest(q) => q.effective \in Nat
      BY DEF Newest, LedgerInv, LedgerRows
    <2>4. \A m \in MergeRepeats(releases) : m.effective \in Nat
      BY MergedFrom DEF LedgerInv, LedgerRows
    <2>5. x \notin now => NextSide(x)' = NextSide(x)
      BY <1>1 DEF NextSide
    <2>6. CASE due[x] = Nothing
      <3>1. x \notin now /\ due'[x] = Nothing
        BY <1>2, <2>6
      <3>2. IdleOk(x)
        BY <2>6 DEF LedgerInv, StockOk
      <3>3. NextSide(x)' = NextSide(x)
        BY <2>5, <3>1
      <3>4. \A m \in MergeRepeats(releases') : m.stock = x => m.effective <= calendar' \/ m.effective <= quiet'[x]
        BY <1>1, <2>2, <2>4, <3>2 DEF IdleOk
      <3>5. ASSUME NEW q, Newest(q), q.stock = x
            PROVE  q.effective <= quiet[x] \/ q.effective < calendar'
        <4>1. q.effective <= quiet[x] \/ q.effective <= calendar
          BY <2>3, <3>2, <3>5, <1>1 DEF IdleOk
        <4> QED BY <1>1, <2>3, <3>5, <4>1
      <3>6. \A q : Newest(q)' /\ q.stock = x =>
              \/ q.effective <= quiet'[x]
              \/ IF q.side = NextSide(x)' THEN q.effective < calendar' ELSE q.effective <= calendar'
        BY <1>1, <2>1, <2>2, <2>3, <3>5
      <3>7. IdleOk(x)'
        BY <3>4, <3>6 DEF IdleOk
      <3> QED BY <3>1, <3>7 DEF StockOk
    <2>7. CASE x \in now
      <3>1. PICK D : D = due[x]
        OBVIOUS
      <3>2. /\ due'[x] = Nothing /\ DueOk(x, D) /\ D \in LedgerRows /\ D.effective = calendar'
            /\ D.announced <= calendar
        BY <1>1, <1>2, <1>3, <2>7, <3>1 DEF DueOk
      <3>3. NextSide(x)' # D.side
        <4>1. D.side = NextSide(x) /\ D.side \in {"add", "remove"}
          BY <3>2 DEF DueOk, LedgerRows
        <4> QED BY <1>1, <2>7, <3>1, <4>1 DEF NextSide
      <3>4. \A m \in MergeRepeats(releases') : m.stock = x => m.effective <= calendar'
        <4>1. ASSUME NEW m \in MergeRepeats(releases), m.stock = x PROVE m.effective <= calendar'
          <5>1. m = D \/ m.effective <= D.announced
            BY <3>2, <4>1 DEF DueOk
          <5> QED BY <1>1, <2>4, <3>2, <5>1 DEF LedgerRows
        <4> QED BY <2>2, <4>1
      <3>5. ASSUME NEW q, Newest(q), q.stock = x
            PROVE  IF q.side = NextSide(x)' THEN q.effective < calendar' ELSE q.effective <= calendar'
        <4>1. IF q.side = D.side THEN q.effective = D.effective ELSE q.effective <= D.announced
          BY <3>2, <3>5 DEF DueOk
        <4>2. q.effective \in Nat /\ D.announced \in Nat
          BY <2>3, <3>2, <3>5 DEF LedgerRows
        <4> QED BY <1>1, <3>2, <3>3, <4>1, <4>2
      <3>6. IdleOk(x)'
        BY <2>1, <3>4, <3>5 DEF IdleOk
      <3> QED BY <3>2, <3>6 DEF StockOk
    <2>8. CASE due[x] # Nothing /\ x \notin now
      <3>1. PICK D : D = due[x]
        OBVIOUS
      <3>2. due'[x] = D /\ DueOk(x, D) /\ D \in LedgerRows /\ D.effective # calendar + 1 /\ D # Nothing
        BY <1>2, <1>3, <2>8, <3>1
      <3>3. D.announced <= calendar' /\ calendar' < D.effective
        BY <1>1, <3>2 DEF DueOk, LedgerRows
      <3>4. NextSide(x)' = NextSide(x) /\ (IsRepeat(releases', D) <=> IsRepeat(releases, D))
        BY <1>1, <2>5, <2>8
      <3>5. DueOk(x, D)'
        BY <2>1, <2>2, <3>2, <3>3, <3>4 DEF DueOk
      <3> QED BY <3>2, <3>5 DEF StockOk
    <2> QED BY <2>6, <2>7, <2>8
  <1>7. \A r \in releases' : r.announced <= calendar'
    BY <1>1 DEF LedgerInv, LedgerRows
  <1> HIDE DEF now
  <1> QED BY <1>1, <1>4, <1>5, <1>6, <1>7 DEF LedgerInv

LEMMA AlwaysLedgerInv == Repeats <= 1 => (LedgerSpec => []LedgerInv)
  <1> SUFFICES ASSUME Repeats <= 1 PROVE LedgerSpec => []LedgerInv
    OBVIOUS
  <1>1. LedgerInv /\ [LedgerNext]_ledgerVars => LedgerInv'
    <2> SUFFICES ASSUME LedgerInv, [LedgerNext]_ledgerVars PROVE LedgerInv'
      OBVIOUS
    <2>1. CASE UNCHANGED ledgerVars
      BY <2>1 DEF ledgerVars, LedgerInv, StockOk, IdleOk, DueOk, Newest, NextSide, ArchiveIsHistory
    <2> QED BY <2>1, NextDayKeeps, AnnounceKeeps, RepeatKeeps, TakeBackKeeps DEF LedgerNext
  <1> QED BY <1>1, LedgerStart, PTL DEF LedgerSpec

\* With at most one repeat of a change, as the code supposes (research/index_changes.py:449),
\* the archive is the history of the index, for any companies, any dates and any number of
\* releases: a change brought forward, put off or taken back before it is due appears as
\* what became of it.
THEOREM ArchiveAlwaysHistory ==
    ASSUME Repeats <= 1
    PROVE  LedgerSpec => []ArchiveIsHistory
  <1>1. LedgerInv => ArchiveIsHistory
    BY DEF LedgerInv
  <1> QED BY <1>1, AlwaysLedgerInv, PTL

-----------------------------------------------------------------------------
(* The parser of press releases *)

Contexts ==
    [index : Indices \cup {Other, None}, side : {"add", "remove", None}, kind : Reasons,
     pend : Nat, scope : Nat, last : Nat]

\* The line that tells the index of what follows line i.
Teller(r, i) == LastOf({j \in 1..i : TellsIndex(r, j)})

\* The index carried is the one told, or the one in the prose before the first table.
IndexCarried(r, c, i) ==
    LET k == Teller(r, i)
    IN /\ k \in 0..i
       /\ IF k # 0 /\ ~r.lines[k].group THEN c.index = IndexTold(r, k) /\ c.index # None
          ELSE /\ c.scope = k
               /\ \/ c.index = None /\ \A m \in (k + 1)..i : ~OpensTable(r.lines[m])
                  \/ /\ c.index # None
                     /\ \E j \in (k + 1)..i :
                            /\ OpensTable(r.lines[j])
                            /\ \A m \in (k + 1)..(j - 1) : ~OpensTable(r.lines[m])
                            /\ c.index = InProse(r, k, j)

\* What the parser carries over line i is what a reader finds looking back from it.
Carries(r, c, i) ==
    /\ c \in Contexts
    /\ HeadedBy(r, i) \in 0..i
    /\ c.side = SideAfter(r, i)
    /\ c.kind = KindAt(r, i)
    /\ c.side # None => /\ c.pend = Pending(r, i)
                        /\ c.last = LastSerial(r, i)
                        /\ c.index # None
    /\ IndexCarried(r, c, i)

LEMMA TopIsLast ==
    ASSUME NEW S, NEW i \in Nat, i \in S, \A j \in S : j \in Nat /\ j <= i
    PROVE  LastOf(S) = i
  <1>1. \A m \in S : (\A j \in S : j <= m) => m = i
    OBVIOUS
  <1>2. \E m \in S : \A j \in S : j <= m
    OBVIOUS
  <1> QED BY <1>1, <1>2 DEF LastOf

LEMMA HeadedNext ==
    ASSUME NEW r, NEW i \in Nat, i > 0
    PROVE  HeadedBy(r, i) = IF OpensSection(r.lines[i]) \/ OpensTable(r.lines[i])
                            THEN i ELSE HeadedBy(r, i - 1)
  <1> DEFINE S(n) == {j \in 1..n : OpensSection(r.lines[j]) \/ OpensTable(r.lines[j])}
  <1>1. CASE OpensSection(r.lines[i]) \/ OpensTable(r.lines[i])
    <2>1. i \in S(i) /\ \A j \in S(i) : j \in Nat /\ j <= i
      BY <1>1
    <2> HIDE DEF S
    <2>2. LastOf(S(i)) = i
      BY <2>1, TopIsLast
    <2> QED BY <1>1, <2>2 DEF HeadedBy, S
  <1>2. CASE ~(OpensSection(r.lines[i]) \/ OpensTable(r.lines[i]))
    <2>1. S(i) = S(i - 1)
      BY <1>2
    <2> QED BY <1>2, <2>1 DEF HeadedBy
  <1> QED BY <1>1, <1>2

LEMMA TellerNext ==
    ASSUME NEW r, NEW i \in Nat, i > 0
    PROVE  Teller(r, i) = IF TellsIndex(r, i) THEN i ELSE Teller(r, i - 1)
  <1> DEFINE S(n) == {j \in 1..n : TellsIndex(r, j)}
  <1>1. CASE TellsIndex(r, i)
    <2>1. i \in S(i) /\ \A j \in S(i) : j \in Nat /\ j <= i
      BY <1>1
    <2> HIDE DEF S
    <2>2. LastOf(S(i)) = i
      BY <2>1, TopIsLast
    <2> QED BY <1>1, <2>2 DEF Teller, S
  <1>2. CASE ~TellsIndex(r, i)
    <2>1. S(i) = S(i - 1)
      BY <1>2
    <2> QED BY <1>2, <2>1 DEF Teller
  <1> QED BY <1>1, <1>2

\* The reason that holds, from line to line.
LEMMA KindNext ==
    ASSUME NEW r, NEW i \in Nat, i > 0
    PROVE  KindAt(r, i) =
             IF ByClause(r, r.lines[i]) THEN ClauseKind(r, r.lines[i].head)
             ELSE IF r.lines[i].why = None THEN KindAt(r, i - 1)
             ELSE IF r.lines[i].why = "release" THEN r.kind ELSE r.lines[i].why
  <1> DEFINE S(n) == {j \in 1..n : ByClause(r, r.lines[j]) \/ r.lines[j].why # None}
             Given(k) == IF k = 0 THEN r.kind
                         ELSE IF ByClause(r, r.lines[k]) THEN ClauseKind(r, r.lines[k].head)
                         ELSE IF r.lines[k].why = "release" THEN r.kind ELSE r.lines[k].why
  <1>a. KindAt(r, i) = Given(LastOf(S(i))) /\ KindAt(r, i - 1) = Given(LastOf(S(i - 1)))
    BY DEF KindAt
  <1>1. CASE ByClause(r, r.lines[i]) \/ r.lines[i].why # None
    <2>1. i \in S(i) /\ \A j \in S(i) : j \in Nat /\ j <= i
      BY <1>1
    <2> HIDE DEF S
    <2>2. LastOf(S(i)) = i
      BY <2>1, TopIsLast
    <2> QED BY <1>1, <1>a, <2>2
  <1>2. CASE ~(ByClause(r, r.lines[i]) \/ r.lines[i].why # None)
    <2>1. S(i) = S(i - 1)
      BY <1>2
    <2> HIDE DEF S
    <2>2. LastOf(S(i)) = LastOf(S(i - 1))
      BY <2>1
    <2> QED BY <1>2, <1>a, <2>2
  <1> QED BY <1>1, <1>2

\* Inside a table a line leaves its number, if that is all, and the headings leave what is there.
LEMMA PendingNext ==
    ASSUME NEW r, NEW i \in Nat, i > 0, HeadedBy(r, i - 1) \in 0..(i - 1),
           HeadedBy(r, i) = HeadedBy(r, i - 1)
    PROVE  Pending(r, i) = IF r.lines[i].heading THEN Pending(r, i - 1)
                           ELSE IF r.lines[i].text = None THEN r.lines[i].number ELSE 0
  <1> DEFINE h == HeadedBy(r, i)
             S(n) == {j \in (h + 1)..n : ~r.lines[j].heading}
  <1>0. h \in 0..(i - 1)
    OBVIOUS
  <1>a. /\ Pending(r, i) = LET p == LastOf(S(i)) IN
            IF p # 0 /\ r.lines[p].text = None THEN r.lines[p].number ELSE 0
        /\ Pending(r, i - 1) = LET p == LastOf(S(i - 1)) IN
            IF p # 0 /\ r.lines[p].text = None THEN r.lines[p].number ELSE 0
    BY DEF Pending
  <1>1. CASE ~r.lines[i].heading
    <2>1. i \in S(i) /\ \A j \in S(i) : j \in Nat /\ j <= i
      BY <1>0, <1>1
    <2> HIDE DEF S
    <2>2. LastOf(S(i)) = i
      BY <2>1, TopIsLast
    <2> QED BY <1>1, <1>a, <2>2
  <1>2. CASE r.lines[i].heading
    <2>1. S(i) = S(i - 1)
      BY <1>0, <1>2
    <2> HIDE DEF S
    <2> QED BY <1>2, <1>a, <2>1
  <1> QED BY <1>1, <1>2

LEMMA LastSerialNext ==
    ASSUME NEW r, NEW i \in Nat, i > 0, HeadedBy(r, i - 1) \in 0..(i - 1),
           HeadedBy(r, i) = HeadedBy(r, i - 1)
    PROVE  LastSerial(r, i) = IF r.lines[i].printed # None THEN Serial(r, i)
                              ELSE LastSerial(r, i - 1)
  <1> DEFINE h == HeadedBy(r, i)
             S(n) == {j \in (h + 1)..n : r.lines[j].printed # None}
  <1>0. h \in 0..(i - 1)
    OBVIOUS
  <1>a. /\ LastSerial(r, i) = LET p == LastOf(S(i)) IN IF p = 0 THEN 0 ELSE Serial(r, p)
        /\ LastSerial(r, i - 1) = LET p == LastOf(S(i - 1)) IN IF p = 0 THEN 0 ELSE Serial(r, p)
    BY DEF LastSerial
  <1>1. CASE r.lines[i].printed # None
    <2>1. i \in S(i) /\ \A j \in S(i) : j \in Nat /\ j <= i
      BY <1>0, <1>1
    <2> HIDE DEF S
    <2>2. LastOf(S(i)) = i
      BY <2>1, TopIsLast
    <2> QED BY <1>1, <1>a, <2>2
  <1>2. CASE r.lines[i].printed = None
    <2>1. S(i) = S(i - 1)
      BY <1>0, <1>2
    <2> HIDE DEF S
    <2> QED BY <1>2, <1>a, <2>1
  <1> QED BY <1>1, <1>2

\* A line that opens a table or a section starts with nothing pending and no row.
LEMMA OpenedEmpty ==
    ASSUME NEW r, NEW i \in Nat, HeadedBy(r, i) = i
    PROVE  Pending(r, i) = 0 /\ LastSerial(r, i) = 0
  <1>1. (HeadedBy(r, i) + 1)..i = {}
    OBVIOUS
  <1>2. LastOf({}) = 0
    BY DEF LastOf
  <1>3. /\ {j \in (HeadedBy(r, i) + 1)..i : ~r.lines[j].heading} = {}
        /\ {j \in (HeadedBy(r, i) + 1)..i : r.lines[j].printed # None} = {}
    BY <1>1
  <1> QED BY <1>2, <1>3 DEF Pending, LastSerial

\* A place in the prose counts as four times its line and its turn there.
LEMMA LaterByRank ==
    ASSUME NEW a \in Nat, NEW b \in Nat, NEW i \in 1..3, NEW j \in 1..3, 4 * b + j <= 4 * a + i
    PROVE  a > b \/ (a = b /\ i >= j)
  OBVIOUS

\* The prose names a wanted index, or none.
LEMMA ProseNames ==
    ASSUME NEW r \in Releases, NEW scope \in Nat, NEW upto \in 1..(Len(r.lines) + 1)
    PROVE  InProse(r, scope, upto) \in Indices \cup {Other}
  <1> DEFINE named == {p \in (scope..(upto - 1)) \X (1..3) :
                            p[1] > 0 /\ p[2] <= Len(r.lines[p[1]].prose)}
             later(p, q) == p[1] > q[1] \/ (p[1] = q[1] /\ p[2] >= q[2])
  <1>1. CASE named = {}
    BY <1>1 DEF InProse
  <1>2. CASE named # {}
    <2>1. r.lines \in Seq(Lines)
      BY ReleaseAssumption
    <2>2. \A p \in named : /\ p[1] \in 1..Len(r.lines) /\ p[1] < upto
                           /\ p[2] \in 1..3 /\ p[2] <= Len(r.lines[p[1]].prose)
      BY <2>1
    <2> DEFINE A == {4 * p[1] + p[2] : p \in named}
    <2>3. \E m \in A : \A x \in A : x <= m
      <3>1. A \subseteq Nat /\ A # {} /\ \A x \in A : x <= 4 * upto + 3
        BY <1>2, <2>2
      <3> HIDE DEF A
      <3>2. 4 * upto + 3 \in Nat
        BY <2>1
      <3> QED BY <3>1, <3>2, LatestExists
    <2>4. \E p \in named : \A q \in named : later(p, q)
      <3>1. PICK p \in named : \A q \in named : 4 * q[1] + q[2] <= 4 * p[1] + p[2]
        BY <2>3
      <3>2. ASSUME NEW q \in named PROVE later(p, q)
        <4>1. p[1] \in Nat /\ q[1] \in Nat /\ p[2] \in 1..3 /\ q[2] \in 1..3
          BY <2>1, <2>2
        <4>2. 4 * q[1] + q[2] <= 4 * p[1] + p[2]
          BY <3>1
        <4>3. p[1] > q[1] \/ (p[1] = q[1] /\ p[2] >= q[2])
          BY <4>1, <4>2, LaterByRank
        <4> QED BY <4>3
      <3> QED BY <3>2
    <2> DEFINE p == CHOOSE p \in named : \A q \in named : later(p, q)
    <2>5. p \in named
      BY <2>4
    <2>6. InProse(r, scope, upto) = r.lines[p[1]].prose[p[2]]
      BY <1>2 DEF InProse
    <2> HIDE DEF p
    <2>7. r.lines[p[1]] \in Lines
      BY <2>1, <2>2, <2>5
    <2>8. r.lines[p[1]].prose \in Seq(Indices)
      BY <2>7 DEF Lines
    <2>9. p[2] \in 1..Len(r.lines[p[1]].prose)
      BY <2>2, <2>5, <2>8
    <2> QED BY <2>6, <2>8, <2>9
  <1> QED BY <1>1, <1>2
ParserOK ==
    /\ release \in Releases
    /\ line \in 1..(Len(release.lines) + 1)
    /\ Carries(release, ctx, line - 1)

LEMMA LineTyped ==
    ASSUME ParserOK, Reading
    PROVE  /\ line \in Nat /\ line > 0 /\ line - 1 \in Nat /\ line \in 1..Len(release.lines)
           /\ (line + 1) - 1 = line /\ line + 1 \in 1..(Len(release.lines) + 1)
           /\ Here \in Lines /\ Here = release.lines[line]
           /\ Here.text = None => Here.number # 0
           /\ ctx \in Contexts
  <1>1. release.lines \in Seq(Lines)
    BY ReleaseAssumption DEF ParserOK
  <1>2. line \in Int /\ Len(release.lines) \in Nat /\ DOMAIN release.lines = 1..Len(release.lines)
    BY <1>1 DEF ParserOK
  <1>3. line \in 1..Len(release.lines)
    BY <1>2 DEF ParserOK, Reading
  <1>4. Here \in Lines
    BY <1>1, <1>3 DEF Here
  <1>5. Here.text = None => Here.number # 0
    BY <1>2, <1>3, ReleaseAssumption DEF ParserOK, Here
  <1> QED BY <1>2, <1>3, <1>4, <1>5 DEF ParserOK, Carries, Here

LEMMA ClauseTyped ==
    ASSUME NEW r \in Releases, NEW x
    PROVE  r.kind \in Reasons /\ ClauseKind(r, x) \in Reasons
  BY ReleaseAssumption DEF ClauseKind

\* The reason carried is the one that holds at the line.
LEMMA KindCarried ==
    ASSUME ParserOK, Reading
    PROVE  /\ KindAt(release, line) \in Reasons
           /\ Here.group => KindAfter(Here) = KindAt(release, line)
           /\ ~Here.group => Headed(Here).kind = KindAt(release, line)
  <1>1. /\ line \in Nat /\ line > 0 /\ Here = release.lines[line] /\ release \in Releases
        /\ Here.why \in Reasons \cup {None, "release"}
        /\ ctx.kind = KindAt(release, line - 1) /\ ctx.kind \in Reasons /\ ctx \in Contexts
    BY LineTyped DEF ParserOK, Carries, Lines, Contexts
  <1>2. /\ release.kind \in Reasons /\ ClauseKind(release, Here.head) \in Reasons
        /\ None # "release"
    BY <1>1, ClauseTyped, NamesAssumption
  <1>3. KindAfter(Here) = IF Here.why = None THEN KindAt(release, line - 1)
                          ELSE IF Here.why = "release" THEN release.kind ELSE Here.why
    BY <1>1, <1>2 DEF KindAfter
  <1>4. KindAt(release, line) =
            IF ByClause(release, Here) THEN ClauseKind(release, Here.head) ELSE KindAfter(Here)
    BY <1>1, <1>3, KindNext
  <1>5. KindAfter(Here) \in Reasons
    BY <1>1, <1>2, <1>3
  <1>6. ~Here.group => Headed(Here).kind =
            IF ByClause(release, Here) THEN ClauseKind(release, Here.head) ELSE KindAfter(Here)
    BY <1>1 DEF Headed, ByClause, Contexts
  <1> QED BY <1>2, <1>4, <1>5, <1>6 DEF ByClause

\* The context after the heading of a line, if it has one.
LEMMA HeadedFields ==
    ASSUME ParserOK, Reading, ~Here.group
    PROVE  /\ Headed(Here) \in Contexts
           /\ Headed(Here).last = ctx.last
           /\ Here.head = None => /\ Headed(Here).index = ctx.index
                                  /\ Headed(Here).side = ctx.side
                                  /\ Headed(Here).pend = ctx.pend
                                  /\ Headed(Here).scope = ctx.scope
           /\ Here.head # None => /\ Headed(Here).index = Here.head
                                  /\ Headed(Here).side = None
                                  /\ Headed(Here).pend = 0
                                  /\ Headed(Here).scope = line
  <1>1. /\ ctx \in Contexts /\ Here.head \in Indices \cup {Other, None} /\ line \in Nat
        /\ Headed(Here).kind \in Reasons
    BY LineTyped, KindCarried DEF Lines
  <1> DEFINE k == Headed(Here).kind
  <1>2. CASE Here.head = None
    <2>1. Headed(Here) = [ctx EXCEPT !.kind = KindAfter(Here)]
      BY <1>2 DEF Headed
    <2>2. KindAfter(Here) \in Reasons
      BY <1>1, <2>1 DEF Contexts
    <2> QED BY <1>1, <1>2, <2>1, <2>2 DEF Contexts
  <1>3. CASE Here.head # None
    <2> DEFINE q == IF DOMAIN release.clauses # {} THEN ClauseKind(release, Here.head)
                    ELSE KindAfter(Here)
    <2>1. Headed(Here) = [ctx EXCEPT !.index = Here.head, !.side = None, !.pend = 0, !.scope = line,
                                     !.kind = q]
      BY <1>3 DEF Headed
    <2> HIDE DEF q
    <2>2. q \in Reasons
      BY <1>1, <2>1 DEF Contexts
    <2>3. Headed(Here) = [index |-> Here.head, side |-> None, kind |-> q, pend |-> 0,
                          scope |-> line, last |-> ctx.last]
      BY <1>1, <2>1 DEF Contexts
    <2>4. ctx.last \in Nat
      BY <1>1 DEF Contexts
    <2> QED BY <1>1, <1>3, <2>2, <2>3, <2>4 DEF Contexts
  <1> QED BY <1>2, <1>3

\* A group starts a section without an index.
LEMMA GroupCarries ==
    ASSUME ParserOK, Reading, Here.group
    PROVE  Carries(release, GroupContext(Here), line)
  <1> DEFINE d == GroupContext(Here)
  <1>1. /\ line \in Nat /\ line > 0 /\ Here = release.lines[line] /\ ctx \in Contexts
        /\ KindAt(release, line) \in Reasons
        /\ KindAfter(Here) = KindAt(release, line)
    BY LineTyped, KindCarried
  <1>2. /\ d \in Contexts /\ d.index = None /\ d.side = None /\ d.scope = line
        /\ d.kind = KindAt(release, line)
    BY <1>1 DEF GroupContext, Contexts
  <1> HIDE DEF d
  <1>3. OpensSection(release.lines[line]) /\ ~OpensTable(release.lines[line])
    BY <1>1 DEF OpensSection, OpensTable
  <1>4. HeadedBy(release, line) = line
    BY <1>1, <1>3, HeadedNext
  <1>5. SideAfter(release, line) = None
    BY <1>3, <1>4 DEF SideAfter
  <1>6. Teller(release, line) = line
    BY <1>1, <1>3, TellerNext DEF TellsIndex
  <1>7. (line + 1)..line = {}
    BY <1>1
  <1>8. IndexCarried(release, d, line)
    BY <1>1, <1>2, <1>6, <1>7 DEF IndexCarried
  <1> QED BY <1>1, <1>2, <1>4, <1>5, <1>8 DEF Carries, d

\* A line that heads a section by the name of its index, and opens no table yet.
LEMMA HeadingCarries ==
    ASSUME ParserOK, Reading, ~Here.group, Here.side = None, Here.head # None
    PROVE  Carries(release, Headed(Here), line)
  <1> DEFINE d == Headed(Here)
  <1>1. /\ line \in Nat /\ line > 0 /\ Here = release.lines[line]
        /\ d \in Contexts /\ d.index = Here.head /\ d.side = None
        /\ d.kind = KindAt(release, line)
    BY LineTyped, HeadedFields, KindCarried
  <1> HIDE DEF d
  <1>2. OpensSection(release.lines[line]) /\ ~OpensTable(release.lines[line])
    BY <1>1 DEF OpensSection, OpensTable
  <1>3. HeadedBy(release, line) = line
    BY <1>1, <1>2, HeadedNext
  <1>4. SideAfter(release, line) = None
    BY <1>2, <1>3 DEF SideAfter
  <1>5. Teller(release, line) = line
    BY <1>1, <1>2, TellerNext DEF TellsIndex
  <1>6. IndexTold(release, line) = Here.head
    BY <1>1, <1>2 DEF IndexTold, StartsUnknown, LooksLikeRow, InTable
  <1>7. IndexCarried(release, d, line)
    BY <1>1, <1>5, <1>6 DEF IndexCarried
  <1> QED BY <1>1, <1>3, <1>4, <1>7 DEF Carries, d

\* A sentence opens a table, of the index it names, else of the one carried, else of the one
\* in the prose.
LEMMA SentenceCarries ==
    ASSUME ParserOK, Reading, ~Here.group, Here.side # None, NEW c, c = Headed(Here)
    PROVE  Carries(release, [c EXCEPT !.index = IndexOfTable(Here, c), !.side = Here.side,
                                      !.pend = 0, !.last = 0], line)
  <1> DEFINE i == IndexOfTable(Here, c)
             d == [c EXCEPT !.index = i, !.side = Here.side, !.pend = 0, !.last = 0]
             k == Teller(release, line - 1)
  <1>1. /\ line \in Nat /\ line > 0 /\ Here = release.lines[line] /\ Here \in Lines
        /\ release \in Releases /\ line \in 1..(Len(release.lines) + 1)
        /\ c \in Contexts /\ c.kind = KindAt(release, line)
        /\ Here.named \in Indices \cup {Other, None} /\ Here.head \in Indices \cup {Other, None}
        /\ Here.side \in {"add", "remove"}
        /\ None \notin Indices \cup {Other}
    BY LineTyped, HeadedFields, KindCarried, NamesAssumption DEF Lines, ParserOK
  <1>2. OpensTable(release.lines[line]) /\ ~StartsUnknown(release, line)
    BY <1>1 DEF OpensTable, StartsUnknown, LooksLikeRow, InTable
  <1>3. /\ HeadedBy(release, line) = line
        /\ SideAfter(release, line) = Here.side
        /\ Pending(release, line) = 0 /\ LastSerial(release, line) = 0
    BY <1>1, <1>2, HeadedNext, OpenedEmpty DEF SideAfter
  <1>4. i \in Indices \cup {Other} =>
            /\ d \in Contexts /\ d.index = i /\ d.side = Here.side /\ d.pend = 0 /\ d.last = 0
            /\ d.scope = c.scope /\ d.kind = c.kind
    BY <1>1 DEF Contexts
  <1>5. ASSUME Here.head # None \/ Here.named # None
        PROVE  i \in Indices \cup {Other} /\ IndexCarried(release, d, line)
    <2>1. i = IF Here.named # None THEN Here.named ELSE Here.head
      BY <1>1, <1>5, HeadedFields DEF IndexOfTable
    <2>2. i \in Indices \cup {Other}
      BY <1>1, <1>5, <2>1
    <2>3. TellsIndex(release, line)
      BY <1>1, <1>2, <1>5 DEF TellsIndex, OpensSection
    <2>4. Teller(release, line) = line
      BY <1>1, <2>3, TellerNext
    <2>5. IndexTold(release, line) = i
      BY <1>1, <1>2, <2>1 DEF IndexTold
    <2> HIDE DEF i, d
    <2>6. IndexCarried(release, d, line)
      BY <1>1, <1>4, <2>2, <2>4, <2>5 DEF IndexCarried
    <2> QED BY <2>2, <2>6
  <1>6. ASSUME Here.head = None, Here.named = None
        PROVE  i \in Indices \cup {Other} /\ IndexCarried(release, d, line)
    <2>1. c.index = ctx.index /\ c.scope = ctx.scope
      BY <1>6, HeadedFields
    <2>2. ~TellsIndex(release, line)
      BY <1>1, <1>2, <1>6 DEF TellsIndex, OpensSection
    <2>3. Teller(release, line) = k
      BY <1>1, <2>2, TellerNext
    <2>4. IndexCarried(release, ctx, line - 1) /\ k \in 0..(line - 1)
      BY DEF ParserOK, Carries, IndexCarried
    <2>5. i = IF ctx.index # None THEN ctx.index ELSE InProse(release, ctx.scope, line)
      BY <1>6, <2>1 DEF IndexOfTable
    <2>6. i \in Indices \cup {Other}
      <3>1. CASE ctx.index # None
        BY <1>1, <2>1, <2>5, <3>1 DEF Contexts
      <3>2. CASE ctx.index = None
        <4>1. ctx.scope \in Nat
          BY <1>1, <2>1 DEF Contexts
        <4> QED BY <1>1, <2>5, <3>2, <4>1, ProseNames
      <3> QED BY <3>1, <3>2
    <2>7. d.index = i /\ d.index # None /\ d.scope = ctx.scope
      BY <1>1, <1>4, <2>1, <2>6
    <2> HIDE DEF i, d, k
    <2>8. CASE k # 0 /\ ~release.lines[k].group
      BY <1>1, <2>3, <2>4, <2>5, <2>6, <2>7, <2>8 DEF IndexCarried, k
    <2>9. CASE ~(k # 0 /\ ~release.lines[k].group)
      <3>1. ctx.scope = k
        BY <2>4, <2>9 DEF IndexCarried, k
      <3>2. \E j \in (k + 1)..line :
                /\ OpensTable(release.lines[j])
                /\ \A m \in (k + 1)..(j - 1) : ~OpensTable(release.lines[m])
                /\ d.index = InProse(release, k, j)
        <4>1. CASE ctx.index = None
          <5>1. \A m \in (k + 1)..(line - 1) : ~OpensTable(release.lines[m])
            BY <2>4, <2>9, <4>1 DEF IndexCarried, k
          <5>2. line \in (k + 1)..line
            BY <1>1, <2>4
          <5> QED BY <1>2, <2>5, <2>7, <3>1, <4>1, <5>1, <5>2
        <4>2. CASE ctx.index # None
          <5>1. PICK j \in (k + 1)..(line - 1) :
                    /\ OpensTable(release.lines[j])
                    /\ \A m \in (k + 1)..(j - 1) : ~OpensTable(release.lines[m])
                    /\ ctx.index = InProse(release, k, j)
            BY <2>4, <2>9, <4>2 DEF IndexCarried, k
          <5>2. j \in (k + 1)..line
            BY <1>1, <2>4
          <5> QED BY <2>5, <2>7, <4>2, <5>1, <5>2
        <4> QED BY <4>1, <4>2
      <3>3. k \in 0..line
        BY <1>1, <2>4
      <3>4. d.scope = k /\ d.index # None /\ ~(k # 0 /\ ~release.lines[k].group)
        BY <2>7, <2>9, <3>1
      <3> QED BY <2>3, <2>6, <3>2, <3>3, <3>4 DEF IndexCarried
    <2> QED BY <2>6, <2>8, <2>9
  <1>7. i \in Indices \cup {Other} /\ IndexCarried(release, d, line)
    BY <1>5, <1>6
  <1> HIDE DEF i, d, k
  <1>8. /\ d \in Contexts /\ d.side = Here.side /\ d.pend = 0 /\ d.last = 0
        /\ d.kind = KindAt(release, line) /\ d.index # None
    BY <1>1, <1>4, <1>7
  <1>9. Carries(release, d, line)
    BY <1>1, <1>3, <1>7, <1>8 DEF Carries
  <1> QED BY <1>9 DEF d, i

\* A line that opens nothing changes only the serials and the reason, or starts the table of
\* an unknown section.
LEMMA QuietCarries ==
    ASSUME ParserOK, Reading, ~Here.group, Here.side = None, Here.head = None,
           NEW d \in Contexts, d.side = ctx.side, d.scope = ctx.scope,
           d.kind = KindAt(release, line),
           d.index = IF StartsUnknown(release, line) THEN Other ELSE ctx.index,
           ctx.side # None => /\ d.pend = Pending(release, line)
                              /\ d.last = LastSerial(release, line)
    PROVE  Carries(release, d, line)
  <1>1. /\ line \in Nat /\ line > 0 /\ Here = release.lines[line]
        /\ None # Other
    BY LineTyped, NamesAssumption
  <1>2. ~OpensSection(release.lines[line]) /\ ~OpensTable(release.lines[line])
    BY <1>1 DEF OpensSection, OpensTable
  <1>3. HeadedBy(release, line) = HeadedBy(release, line - 1)
    BY <1>1, <1>2, HeadedNext
  <1>4. /\ HeadedBy(release, line - 1) \in 0..(line - 1)
        /\ ctx.side = SideAfter(release, line - 1)
        /\ ctx.side # None => ctx.index # None
        /\ IndexCarried(release, ctx, line - 1)
    BY DEF ParserOK, Carries
  <1>5. SideAfter(release, line) = ctx.side
    BY <1>3, <1>4 DEF SideAfter
  <1>6. HeadedBy(release, line) \in 0..line
    BY <1>1, <1>3, <1>4
  <1>7. IndexCarried(release, d, line)
    <2>1. CASE StartsUnknown(release, line)
      <3>1. Teller(release, line) = line
        BY <1>1, <2>1, TellerNext DEF TellsIndex
      <3>2. IndexTold(release, line) = Other
        BY <1>2, <2>1 DEF IndexTold
      <3> QED BY <1>1, <2>1, <3>1, <3>2 DEF IndexCarried
    <2>2. CASE ~StartsUnknown(release, line)
      <3> DEFINE k == Teller(release, line - 1)
      <3>1. Teller(release, line) = k
        BY <1>1, <1>2, <2>2, TellerNext DEF TellsIndex
      <3>2. k \in 0..(line - 1) /\ d.index = ctx.index
        BY <1>4, <2>2 DEF IndexCarried
      <3> HIDE DEF k
      <3>3. k \in 0..line
        BY <1>1, <3>2
      <3>4. CASE k # 0 /\ ~release.lines[k].group
        BY <1>4, <3>1, <3>2, <3>3, <3>4 DEF IndexCarried, k
      <3>5. CASE ~(k # 0 /\ ~release.lines[k].group)
        <4>1. d.scope = k
          BY <1>4, <3>5 DEF IndexCarried, k
        <4>2. CASE ctx.index = None
          <5>1. \A m \in (k + 1)..(line - 1) : ~OpensTable(release.lines[m])
            BY <1>4, <3>5, <4>2 DEF IndexCarried, k
          <5>2. \A m \in (k + 1)..line : ~OpensTable(release.lines[m])
            BY <1>1, <1>2, <3>2, <5>1
          <5> QED BY <3>1, <3>2, <3>3, <3>5, <4>1, <4>2, <5>2 DEF IndexCarried, k
        <4>3. CASE ctx.index # None
          <5>1. PICK j \in (k + 1)..(line - 1) :
                    /\ OpensTable(release.lines[j])
                    /\ \A m \in (k + 1)..(j - 1) : ~OpensTable(release.lines[m])
                    /\ ctx.index = InProse(release, k, j)
            BY <1>4, <3>5, <4>3 DEF IndexCarried, k
          <5>2. j \in (k + 1)..line
            BY <1>1, <3>2
          <5> QED BY <3>1, <3>2, <3>3, <3>5, <4>1, <4>3, <5>1, <5>2 DEF IndexCarried, k
        <4> QED BY <4>2, <4>3
      <3> QED BY <3>4, <3>5
    <2> QED BY <2>1, <2>2
  <1>8. d.side # None => d.index # None
    BY <1>1, <1>4
  <1> QED BY <1>5, <1>6, <1>7, <1>8 DEF Carries
\* The index carried is the one a reader finds at a line of a table.
LEMMA IndexFound ==
    ASSUME NEW r, NEW c, NEW i \in Nat, Carries(r, c, i), c.side # None
    PROVE  c.index = IndexAt(r, i)
  <1> DEFINE k == Teller(r, i)
             Found(j) == /\ OpensTable(r.lines[j])
                         /\ \A m \in (k + 1)..(j - 1) : ~OpensTable(r.lines[m])
  <1>1. c.index # None /\ IndexCarried(r, c, i) /\ k \in 0..i
    BY DEF Carries, IndexCarried
  <1>2. IndexAt(r, i) = IF k # 0 /\ ~r.lines[k].group THEN IndexTold(r, k)
                        ELSE InProse(r, k, CHOOSE j \in (k + 1)..i : Found(j))
    BY DEF IndexAt, Teller
  <1>3. CASE k # 0 /\ ~r.lines[k].group
    BY <1>1, <1>2, <1>3 DEF IndexCarried
  <1>4. CASE ~(k # 0 /\ ~r.lines[k].group)
    <2>1. PICK j \in (k + 1)..i : Found(j) /\ c.index = InProse(r, k, j)
      BY <1>1, <1>4 DEF IndexCarried
    <2>2. ASSUME NEW m \in (k + 1)..i, Found(m) PROVE m = j
      <3>1. ~(m < j) /\ ~(j < m)
        <4> HIDE DEF k
        <4>1. m \in Int /\ j \in Int /\ k + 1 <= m /\ k + 1 <= j
          BY <1>1
        <4>2. m < j => m \in (k + 1)..(j - 1)
          BY <1>1, <4>1
        <4>3. j < m => j \in (k + 1)..(m - 1)
          BY <1>1, <4>1
        <4> QED BY <2>1, <2>2, <4>2, <4>3
      <3> QED BY <1>1, <3>1
    <2> HIDE DEF Found, k
    <2>3. (CHOOSE x \in (k + 1)..i : Found(x)) = j
      BY <2>1, <2>2
    <2> QED BY <1>2, <1>4, <2>1, <2>3
  <1> QED BY <1>3, <1>4

\* The rows of the wanted indices on the first lines of a release.
PrintedBefore(r, i) ==
    {r.lines[j].printed : j \in {m \in DOMAIN r.lines :
        m < i /\ r.lines[m].printed # None /\ r.lines[m].printed.index \in Indices}}

OfIndices(S) == {x \in S : x.index \in Indices}

LEMMA PrintedNext ==
    ASSUME NEW r, NEW i \in DOMAIN r.lines, DOMAIN r.lines \subseteq Nat
    PROVE  PrintedBefore(r, i + 1) = PrintedBefore(r, i) \cup
             (IF r.lines[i].printed # None /\ r.lines[i].printed.index \in Indices
              THEN {r.lines[i].printed} ELSE {})
  <1> DEFINE N(n) == {m \in DOMAIN r.lines :
                        m < n /\ r.lines[m].printed # None /\ r.lines[m].printed.index \in Indices}
             W == r.lines[i].printed # None /\ r.lines[i].printed.index \in Indices
  <1>1. \A m \in DOMAIN r.lines : m < i + 1 <=> m < i \/ m = i
    OBVIOUS
  <1>2. N(i + 1) = N(i) \cup (IF W THEN {i} ELSE {})
    BY <1>1, Zenon
  <1>3. PrintedBefore(r, i) = {r.lines[j].printed : j \in N(i)}
    BY DEF PrintedBefore
  <1>4. PrintedBefore(r, i + 1) = {r.lines[j].printed : j \in N(i + 1)}
    BY DEF PrintedBefore
  <1> HIDE DEF N
  <1> QED BY <1>2, <1>3, <1>4, Zenon

RowsRead == OfIndices(rows) = PrintedBefore(release, line)

ReaderOK == ParserOK /\ LaidOut(release) /\ RowsRead

\* A line that reads as no row adds none, whatever the parser remembers.
LEMMA NothingRead ==
    ASSUME ReaderOK, Reading, UNCHANGED <<release, rows>>, line' = line + 1,
           ~LooksLikeRow(release, line)
    PROVE  RowsRead'
  <1>1. line \in DOMAIN release.lines /\ DOMAIN release.lines \subseteq Nat
    BY LineTyped, ReleaseAssumption DEF ReaderOK, ParserOK
  <1>2. release.lines[line].printed = None
    BY <1>1 DEF ReaderOK, LaidOut
  <1>3. PrintedBefore(release, line + 1) = PrintedBefore(release, line)
    <2>1. PrintedBefore(release, line + 1) = PrintedBefore(release, line) \cup
             (IF release.lines[line].printed # None /\ release.lines[line].printed.index \in Indices
              THEN {release.lines[line].printed} ELSE {})
      BY <1>1, PrintedNext
    <2> QED BY <1>2, <2>1
  <1> QED BY <1>3 DEF ReaderOK, RowsRead

LEMMA SkippedCarries ==
    ASSUME ParserOK, LaidOut(release), Reading, ~Here.group, Here.side = None, Here.head = None,
           Here.heading \/ ctx.side = None
    PROVE  Carries(release, Headed(Here), line) /\ ~LooksLikeRow(release, line)
  <1> DEFINE d == Headed(Here)
  <1>1. /\ line \in Nat /\ line > 0 /\ Here = release.lines[line] /\ release \in Releases
        /\ line \in DOMAIN release.lines
        /\ d \in Contexts /\ d.kind = KindAt(release, line) /\ d.last = ctx.last
        /\ d.index = ctx.index /\ d.side = ctx.side /\ d.pend = ctx.pend /\ d.scope = ctx.scope
    BY LineTyped, HeadedFields, KindCarried, ReleaseAssumption DEF ParserOK
  <1> HIDE DEF d
  <1>2. /\ ctx.side = SideAfter(release, line - 1) /\ HeadedBy(release, line - 1) \in 0..(line - 1)
        /\ ctx.side # None => /\ ctx.pend = Pending(release, line - 1)
                              /\ ctx.last = LastSerial(release, line - 1)
    BY DEF ParserOK, Carries
  <1>3. ~LooksLikeRow(release, line)
    BY <1>1, <1>2 DEF LooksLikeRow, InTable
  <1>4. release.lines[line].printed = None
    BY <1>1, <1>3 DEF LaidOut
  <1>5. HeadedBy(release, line) = HeadedBy(release, line - 1)
    BY <1>1, HeadedNext DEF OpensSection, OpensTable
  <1>6. ctx.side # None => /\ d.pend = Pending(release, line)
                           /\ d.last = LastSerial(release, line)
    BY <1>1, <1>2, <1>4, <1>5, PendingNext, LastSerialNext
  <1>7. ~StartsUnknown(release, line)
    BY <1>3 DEF StartsUnknown
  <1>8. d.index = IF StartsUnknown(release, line) THEN Other ELSE ctx.index
    BY <1>1, <1>7
  <1>9. Carries(release, d, line)
    BY <1>1, <1>6, <1>8, QuietCarries
  <1> QED BY <1>3, <1>9 DEF d

\* A line of a table: its serial is a reader's, and what becomes a row looks like one.
LEMMA TableLineReads ==
    ASSUME ReaderOK, TableLine
    PROVE  Carries(release, ctx', line) /\ RowsRead'
  <1> DEFINE c == Headed(Here)
             number == IF Here.number = 0 THEN c.pend ELSE Here.number
             plain == [c EXCEPT !.pend = 0]
  <1>1. /\ Reading /\ ~Here.group /\ Here.side = None /\ ~Here.heading
        /\ c.side # None /\ c.index # None
        /\ line' = line + 1 /\ release' = release
        /\ CASE number = 0        -> ctx' = plain /\ UNCHANGED rows
             [] Here.text = None  -> ctx' = [plain EXCEPT !.pend = number] /\ UNCHANGED rows
             [] OTHER             -> ReadRow(plain, number)
    BY DEF TableLine, NoTableYet
  <1>2. ParserOK /\ LaidOut(release) /\ RowsRead
    BY DEF ReaderOK
  <1>3. Here.head = None
    BY <1>1, <1>2, HeadedFields
  <1>4. /\ line \in Nat /\ line > 0 /\ line - 1 \in Nat /\ Here = release.lines[line]
        /\ line \in DOMAIN release.lines /\ DOMAIN release.lines \subseteq Nat
        /\ Here \in Lines /\ Here.number \in Nat /\ (Here.text = None => Here.number # 0)
        /\ c \in Contexts /\ c.kind = KindAt(release, line)
        /\ c.index = ctx.index /\ c.side = ctx.side /\ c.pend = ctx.pend
        /\ c.scope = ctx.scope /\ c.last = ctx.last
    <2>1. /\ line \in Nat /\ line > 0 /\ line - 1 \in Nat /\ Here = release.lines[line]
          /\ line \in 1..Len(release.lines) /\ Here \in Lines
          /\ (Here.text = None => Here.number # 0)
      BY <1>1, <1>2, LineTyped
    <2>2. DOMAIN release.lines = 1..Len(release.lines)
      BY <1>2, ReleaseAssumption DEF ParserOK
    <2>3. Here.number \in Nat
      BY <2>1 DEF Lines
    <2>4. /\ c \in Contexts /\ c.kind = KindAt(release, line)
          /\ c.index = ctx.index /\ c.side = ctx.side /\ c.pend = ctx.pend
          /\ c.scope = ctx.scope /\ c.last = ctx.last
      BY <1>1, <1>2, <1>3, HeadedFields, KindCarried
    <2> QED BY <2>1, <2>2, <2>3, <2>4
  <1> HIDE DEF c
  <1>5. /\ ctx.side = SideAfter(release, line - 1) /\ HeadedBy(release, line - 1) \in 0..(line - 1)
        /\ ctx.pend = Pending(release, line - 1) /\ ctx.last = LastSerial(release, line - 1)
        /\ Carries(release, ctx, line - 1)
    BY <1>1, <1>2, <1>4 DEF ParserOK, Carries
  <1>6. number = Serial(release, line) /\ number \in Nat
    BY <1>4, <1>5 DEF Serial, Contexts
  <1>7. HeadedBy(release, line) = HeadedBy(release, line - 1)
    BY <1>1, <1>3, <1>4, HeadedNext DEF OpensSection, OpensTable
  <1>8. /\ Pending(release, line) = IF Here.text = None THEN Here.number ELSE 0
        /\ LastSerial(release, line) = IF Here.printed # None THEN number
                                       ELSE LastSerial(release, line - 1)
    BY <1>1, <1>4, <1>5, <1>6, <1>7, PendingNext, LastSerialNext
  <1>9. /\ LooksLikeRow(release, line) <=>
             /\ Here.text # None /\ number # 0
             /\ ctx.last # 0 => number = 1 \/ number = ctx.last + 1
        /\ Here.printed # None <=> LooksLikeRow(release, line)
    <2>1. InTable(release, line)
      BY <1>1, <1>3, <1>4, <1>5 DEF InTable, OpensSection, OpensTable
    <2> QED BY <1>2, <1>4, <1>5, <1>6, <2>1 DEF LooksLikeRow, LaidOut
  <1>10. /\ plain \in Contexts /\ plain.index = ctx.index /\ plain.side = ctx.side
         /\ plain.kind = KindAt(release, line) /\ plain.pend = 0
         /\ plain.scope = ctx.scope /\ plain.last = ctx.last
    BY <1>4 DEF Contexts
  <1> HIDE DEF plain, number
  <1>11. CASE number = 0
    <2>1. Here.text # None
      BY <1>4, <1>11 DEF number
    <2>2. ctx' = plain /\ UNCHANGED rows /\ ~LooksLikeRow(release, line)
      BY <1>1, <1>9, <1>11, <2>1
    <2>3. plain.pend = Pending(release, line) /\ plain.last = LastSerial(release, line)
      BY <1>5, <1>8, <1>9, <1>10, <2>1, <2>2
    <2>4. Carries(release, plain, line)
      BY <1>1, <1>2, <1>3, <1>10, <2>2, <2>3, QuietCarries DEF StartsUnknown
    <2> QED BY <1>1, <2>2, <2>4, NothingRead
  <1>12. CASE number # 0 /\ Here.text = None
    <2> DEFINE d == [plain EXCEPT !.pend = number]
    <2>1. ctx' = d /\ UNCHANGED rows /\ ~LooksLikeRow(release, line)
      BY <1>1, <1>9, <1>12
    <2>2. number = Here.number
      BY <1>4, <1>12 DEF number
    <2>3. /\ d \in Contexts /\ d.index = ctx.index /\ d.side = ctx.side /\ d.last = ctx.last
          /\ d.kind = KindAt(release, line) /\ d.pend = number /\ d.scope = ctx.scope
      BY <1>6, <1>10 DEF Contexts
    <2> HIDE DEF d
    <2>4. d.pend = Pending(release, line) /\ d.last = LastSerial(release, line)
      BY <1>5, <1>8, <1>9, <1>12, <2>1, <2>2, <2>3
    <2>5. Carries(release, d, line)
      BY <1>1, <1>2, <1>3, <2>1, <2>3, <2>4, QuietCarries DEF StartsUnknown
    <2> QED BY <1>1, <2>1, <2>5, NothingRead
  <1>13. CASE number # 0 /\ Here.text # None
    <2>1. ReadRow(plain, number)
      BY <1>1, <1>13
    <2>2. CASE ctx.last # 0 /\ number # ctx.last + 1 /\ number # 1
      <3>1. ctx' = plain /\ UNCHANGED rows /\ ~LooksLikeRow(release, line)
        BY <1>9, <1>10, <2>1, <2>2 DEF ReadRow
      <3>2. plain.pend = Pending(release, line) /\ plain.last = LastSerial(release, line)
        BY <1>5, <1>8, <1>9, <1>10, <1>13, <3>1
      <3>3. Carries(release, plain, line)
        BY <1>1, <1>2, <1>3, <1>10, <3>1, <3>2, QuietCarries DEF StartsUnknown
      <3> QED BY <1>1, <3>1, <3>3, NothingRead
    <2>3. CASE ~(ctx.last # 0 /\ number # ctx.last + 1 /\ number # 1)
      <3> DEFINE index == IF ctx.last # 0 /\ number # ctx.last + 1 THEN Other ELSE ctx.index
                 d == [plain EXCEPT !.index = index, !.last = number]
                 noted == [index |-> index, side |-> ctx.side, text |-> Here.text,
                         date |-> RowDate, kind |-> KindAt(release, line)]
      <3>1. ctx' = d /\ rows' = rows \cup {noted}
        BY <1>10, <2>1, <2>3 DEF ReadRow
      <3>2. LooksLikeRow(release, line)
        BY <1>9, <1>13, <2>3
      <3>3. index = IF StartsUnknown(release, line) THEN Other ELSE ctx.index
        BY <1>5, <1>6, <3>2 DEF StartsUnknown
      <3>4. index \in Indices \cup {Other, None}
        BY <1>4 DEF Contexts
      <3> HIDE DEF index
      <3>5. /\ d \in Contexts /\ d.index = index /\ d.side = ctx.side /\ d.last = number
            /\ d.kind = KindAt(release, line) /\ d.pend = 0 /\ d.scope = ctx.scope
        BY <1>6, <1>10, <3>4 DEF Contexts
      <3> HIDE DEF d
      <3>6. d.pend = Pending(release, line) /\ d.last = LastSerial(release, line)
        BY <1>8, <1>9, <1>13, <3>2, <3>5
      <3>7. Carries(release, d, line)
        BY <1>1, <1>2, <1>3, <3>3, <3>5, <3>6, QuietCarries
      <3>8. noted = ReadAs(release, line)
        <4>1. index = IndexAt(release, line)
          BY <1>1, <1>4, <3>5, <3>7, IndexFound
        <4>2. ctx.side = SideAfter(release, line)
          BY <3>5, <3>7 DEF Carries
        <4>3. RowDate = (IF release.lines[line].own = 0 THEN EffectiveDate(release, line)
                         ELSE release.lines[line].own)
          BY DEF RowDate, Here
        <4> QED BY <1>4, <4>1, <4>2, <4>3 DEF ReadAs, Here
      <3>9. noted.index = index /\ IndexAt(release, line) = index
        BY <3>8 DEF ReadAs
      <3> HIDE DEF noted
      <3>10. Here.printed # None
        BY <1>9, <3>2
      <3>11. \/ Here.printed = noted
             \/ Here.printed.index \notin Indices /\ noted.index \notin Indices
        BY <1>2, <1>4, <3>8, <3>9, <3>10 DEF LaidOut
      <3>12. OfIndices(rows') = OfIndices(rows) \cup (IF noted.index \in Indices THEN {noted} ELSE {})
        BY <3>1 DEF OfIndices
      <3>13. PrintedBefore(release, line + 1) = PrintedBefore(release, line) \cup
               (IF Here.printed.index \in Indices THEN {Here.printed} ELSE {})
        BY <1>4, <3>10, PrintedNext
      <3>14. OfIndices(rows') = PrintedBefore(release, line + 1)
        BY <1>2, <3>11, <3>12, <3>13 DEF RowsRead
      <3>15. RowsRead'
        BY <1>1, <3>14 DEF RowsRead
      <3> QED BY <3>1, <3>7, <3>15
    <2> QED BY <2>2, <2>3
  <1> QED BY <1>11, <1>12, <1>13

LEMMA StartReads ==
    ASSUME LaidOut(release), ParseInit
    PROVE  ReaderOK
  <1>1. release \in Releases /\ line = 1 /\ rows = {}
        /\ ctx = [index |-> None, side |-> None, kind |-> release.kind, pend |-> 0,
                  scope |-> 0, last |-> 0]
    BY DEF ParseInit
  <1>2. Len(release.lines) \in Nat /\ DOMAIN release.lines = 1..Len(release.lines)
        /\ release.kind \in Reasons
    BY <1>1, ReleaseAssumption
  <1>3. 1..0 = {} /\ LastOf({}) = 0
    BY DEF LastOf
  <1>4. HeadedBy(release, 0) = 0 /\ Teller(release, 0) = 0 /\ KindAt(release, 0) = release.kind
    <2>1. /\ {j \in 1..0 : OpensSection(release.lines[j]) \/ OpensTable(release.lines[j])} = {}
          /\ {j \in 1..0 : TellsIndex(release, j)} = {}
          /\ {j \in 1..0 : ByClause(release, release.lines[j]) \/ release.lines[j].why # None} = {}
      BY <1>3
    <2> QED BY <1>3, <2>1 DEF HeadedBy, Teller, KindAt
  <1>5. SideAfter(release, 0) = None
    BY <1>4 DEF SideAfter
  <1>6. ctx \in Contexts
    BY <1>1, <1>2 DEF Contexts
  <1>7. IndexCarried(release, ctx, 0)
    BY <1>1, <1>4 DEF IndexCarried
  <1>8. Carries(release, ctx, 0)
    BY <1>1, <1>4, <1>5, <1>6, <1>7 DEF Carries
  <1>9. RowsRead
    <2>1. OfIndices(rows) = {} /\ PrintedBefore(release, line) = {}
      BY <1>1, <1>2 DEF OfIndices, PrintedBefore
    <2> QED BY <2>1 DEF RowsRead
  <1>10. line - 1 = 0 /\ line \in 1..(Len(release.lines) + 1)
    BY <1>1, <1>2
  <1> QED BY <1>1, <1>8, <1>9, <1>10 DEF ReaderOK, ParserOK

LEMMA ParserStep ==
    ASSUME ReaderOK, [ParseNext]_parseVars
    PROVE  ReaderOK'
  <1>1. CASE UNCHANGED parseVars
    BY <1>1 DEF parseVars, ReaderOK, ParserOK, RowsRead
  <1>2. ASSUME ParseNext, Carries(release, ctx', line), RowsRead'
        PROVE  ReaderOK'
    <2>1. Reading /\ line' = line + 1 /\ release' = release
      BY <1>2 DEF ParseNext, GroupLine, Sentence, SkipLine, TableLine
    <2>2. ParserOK /\ LaidOut(release)
      BY DEF ReaderOK
    <2>3. line' - 1 = line /\ line' \in 1..(Len(release.lines) + 1)
      BY <2>1, <2>2, LineTyped
    <2> QED BY <1>2, <2>1, <2>2, <2>3 DEF ReaderOK, ParserOK
  <1>3. ASSUME Reading, UNCHANGED <<release, rows>>, line' = line + 1,
               Here.group \/ Here.side # None \/ Here.head # None
        PROVE  RowsRead'
    <2>1. ~LooksLikeRow(release, line)
      BY <1>3 DEF LooksLikeRow, InTable, OpensSection, OpensTable, Here
    <2> QED BY <1>3, <2>1, NothingRead
  <1>4. CASE GroupLine
    <2>1. Carries(release, ctx', line)
      BY <1>4, GroupCarries DEF GroupLine, ReaderOK
    <2> QED BY <1>2, <1>3, <1>4, <2>1 DEF GroupLine, ParseNext
  <1>5. CASE Sentence
    <2>1. Carries(release, ctx', line)
      BY <1>5, SentenceCarries DEF Sentence, ReaderOK
    <2> QED BY <1>2, <1>3, <1>5, <2>1 DEF Sentence, ParseNext
  <1>6. CASE SkipLine
    <2>1. /\ Reading /\ ~Here.group /\ Here.side = None /\ line' = line + 1
          /\ UNCHANGED <<release, rows>>
          /\ ctx' = Headed(Here) /\ (Here.heading \/ NoTableYet(Headed(Here)))
          /\ ParserOK /\ LaidOut(release)
      BY <1>6 DEF SkipLine, ReaderOK
    <2>2. CASE Here.head # None
      BY <1>2, <1>3, <1>6, <2>1, <2>2, HeadingCarries DEF ParseNext
    <2>3. CASE Here.head = None
      <3>1. Here.heading \/ ctx.side = None
        BY <2>1, <2>3, HeadedFields DEF NoTableYet, ParserOK, Carries
      <3>2. Carries(release, ctx', line) /\ ~LooksLikeRow(release, line)
        BY <2>1, <2>3, <3>1, SkippedCarries
      <3> QED BY <1>2, <1>6, <2>1, <3>2, NothingRead DEF ParseNext
    <2> QED BY <2>2, <2>3
  <1>7. CASE TableLine
    BY <1>2, <1>7, TableLineReads DEF ParseNext
  <1> QED BY <1>1, <1>4, <1>5, <1>6, <1>7 DEF ParseNext

\* Of every release that is laid out for its readers, with any number of groups, sections and
\* tables, the parser reports what they read: what it carries from line to line is at each
\* row what is found by looking back from it (index_changes.py:172-250).
THEOREM ParserReads == ParseSpec => [](LaidOut(release) => ReportsWhatIsPrinted)
  <1>1. ParseInit => (LaidOut(release) => ReaderOK)
    BY StartReads
  <1>2. (LaidOut(release) => ReaderOK) /\ [ParseNext]_parseVars => (LaidOut(release) => ReaderOK)'
    <2> SUFFICES ASSUME LaidOut(release) => ReaderOK, [ParseNext]_parseVars, LaidOut(release)'
                 PROVE  ReaderOK'
      OBVIOUS
    <2>1. release' = release
      BY DEF ParseNext, GroupLine, Sentence, SkipLine, TableLine, parseVars
    <2>2. ReaderOK
      BY <2>1
    <2> QED BY <2>2, ParserStep
  <1>3. ReaderOK => ReportsWhatIsPrinted
    <2> SUFFICES ASSUME ReaderOK, line > Len(release.lines)
                 PROVE  OfIndices(rows) = PrintedRows
      BY DEF ReportsWhatIsPrinted, OfIndices
    <2>1. /\ line \in 1..(Len(release.lines) + 1)
          /\ DOMAIN release.lines = 1..Len(release.lines) /\ Len(release.lines) \in Nat
      BY ReleaseAssumption DEF ReaderOK, ParserOK
    <2>2. \A j \in DOMAIN release.lines : j < line
      BY <2>1
    <2>3. PrintedBefore(release, line) = PrintedRows
      BY <2>2 DEF PrintedBefore, PrintedRows
    <2> QED BY <2>3 DEF ReaderOK, RowsRead
  <1> QED BY <1>1, <1>2, <1>3, PTL DEF ParseSpec
=============================================================================
