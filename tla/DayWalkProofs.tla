--------------------------- MODULE DayWalkProofs ---------------------------
(***************************************************************************)
(* For every calendar, every series of prices that are consistent within a *)
(* day, and every setting: a simulated position never loses more than the  *)
(* risk it was sized for, plus slippage and fees; positions follow one     *)
(* another and each is closed by its settlement (SimBook); and each leaves *)
(* by the exit rules, on the settle after the one that asked for it.       *)
(***************************************************************************)
EXTENDS DayWalk, SizingProofs

\* The two legs differ by at most the width, and closing them costs at most that
\* and the slippage of two orders.
LEMMA FlooredDiffer ==
    ASSUME NEW v, v.short \in Nat, v.long \in Nat, v.short - v.long <= Width
    PROVE  LET q == Floored(v)
           IN  q.short \in Nat /\ q.long \in Nat /\ q.short - q.long <= Width
  BY SettingsAssumption DEF Floored, Greatest

LEMMA ValuesDiffer ==
    ASSUME SizedTrade, trade # NoPosition, NEW v \in SettlementValues
    PROVE  v.short \in Nat /\ v.long \in Nat /\ v.short - v.long <= Width
  <1>1. CASE v \in Marks
    BY <1>1, ParityAssumption
  <1>2. CASE v \notin Marks
    <2>1. PICK s \in Closings :
            v = [short |-> PutValue(trade.strike, s), long |-> PutValue(trade.strike - Width, s)]
      BY <1>2 DEF SettlementValues
    <2>2. trade.strike \in Int /\ s \in Nat /\ Width \in Nat
      BY SettingsAssumption DEF SizedTrade, TypeOK, Trades
    <2> QED BY <2>1, <2>2 DEF PutValue, Greatest
  <1> QED BY <1>1, <1>2

LEMMA CostBounded ==
    ASSUME NEW q, q.short \in Nat, q.long \in Nat, q.short - q.long <= Width
    PROVE  CostToClose(q) \in Int /\ CostToClose(q) <= Width + 2 * Slip
  BY SettingsAssumption DEF CostToClose, BuyAt, SellAt, Greatest

LEMMA QuoteCost ==
    ASSUME SizedTrade, trade # NoPosition, NEW d, NEW q \in QuotesOn(d)
    PROVE  CostToClose(q) \in Int /\ CostToClose(q) <= Width + 2 * Slip
  <1>1. q.short \in Nat /\ q.long \in Nat /\ q.short - q.long <= Width
    <2>1. CASE q \in Marks
      BY <2>1, ParityAssumption
    <2>2. CASE q \notin Marks
      BY <2>2, ValuesDiffer, FlooredDiffer DEF QuotesOn
    <2> QED BY <2>1, <2>2
  <1> QED BY <1>1, CostBounded

\* What stays within the risk the trade t was sized for, open or with a result.
Sized(t) ==
    /\ 100 * ((Width - t.credit) * t.lot * t.lots) <= t.base * RiskPct
    /\ t.exit # 0 =>
         100 * ((0 - t.pnl) - t.fees - 2 * Slip * t.lot * t.lots) <= t.base * RiskPct

\* The result of a walk stays in the risk of its trade.
LEMMA ResultSized ==
    ASSUME NEW t \in Trades, NEW d \in Nat, NEW why \in Reasons, NEW cost \in Int,
           NEW paid \in Nat, cost <= Width + 2 * Slip, Sized(t)
    PROVE  LET pnl == (t.credit - cost) * t.lot * t.lots - paid
               u == [t EXCEPT !.exit = d, !.reason = why, !.fees = paid, !.pnl = pnl]
           IN  pnl \in Int /\ u \in Trades /\ Sized(u)
  <1> DEFINE pnl == (t.credit - cost) * t.lot * t.lots - paid
             u == [t EXCEPT !.exit = d, !.reason = why, !.fees = paid, !.pnl = pnl]
  <1>1. t.credit \in Int /\ t.lot \in Nat /\ t.lots \in Nat /\ t.base \in Int
    BY DEF Trades
  <1>2. Width \in Int /\ Slip \in Int /\ RiskPct \in Int
    BY SettingsAssumption, RiskAssumption
  <1>3. t.base * RiskPct \in Int
    BY <1>1, <1>2
  <1>4. /\ pnl \in Int
        /\ 100 * ((0 - pnl) - paid - 2 * Slip * t.lot * t.lots) <= t.base * RiskPct
    <2> DEFINE n == t.lot * t.lots
               c == t.credit
               r == t.base * RiskPct
    <2>1. n \in Nat /\ c \in Int /\ r \in Int
      BY <1>1, <1>3
    <2>2. /\ (c - cost) * t.lot * t.lots = (c - cost) * n
          /\ 2 * Slip * t.lot * t.lots = 2 * Slip * n
          /\ (Width - c) * t.lot * t.lots = (Width - c) * n
      BY <1>1, <1>2
    <2>3. 100 * ((Width - c) * n) <= r
      BY <2>2 DEF Sized
    <2> HIDE DEF n, c, r
    <2>4. /\ (Width + 2 * Slip - cost) * n >= 0
          /\ (Width + 2 * Slip - cost) * n
                = (Width - c) * n + 2 * Slip * n + (c - cost) * n
          /\ (c - cost) * n \in Int /\ 2 * Slip * n \in Int /\ (Width - c) * n \in Int
      BY <1>2, <2>1
    <2>5. 100 * ((0 - ((c - cost) * n - paid)) - paid - 2 * Slip * n) <= r
      BY <2>1, <2>3, <2>4
    <2> QED BY <2>1, <2>2, <2>4, <2>5 DEF c, r
  <1> HIDE DEF pnl
  <1>5. /\ u \in Trades
        /\ u.pnl = pnl /\ u.fees = paid /\ u.base = t.base /\ u.credit = t.credit
        /\ u.lot = t.lot /\ u.lots = t.lots
    BY <1>4 DEF Trades
  <1> HIDE DEF u
  <1>6. Sized(u)
    BY <1>4, <1>5 DEF Sized
  <1> QED BY <1>4, <1>5, <1>6 DEF pnl, u

\* Booking the result of a walk.
LEMMA ClosingSized ==
    ASSUME SizedTrade, pc = "walk", NEW d \in days, NEW why \in Reasons,
           NEW cost \in Int, NEW paid \in Fees,
           cost <= Width + 2 * Slip, Book(d, why, cost, paid), pending' \in Reasons
    PROVE  SizedTrade'
  <1>1. trade # NoPosition /\ trade \in Trades /\ Sized(trade) /\ equity \in Int
    BY DEF SizedTrade, TypeOK, Sized
  <1>2. d \in Nat /\ paid \in Nat
    BY SettingsAssumption DEF SizedTrade, TypeOK
  <1>3. PICK gain \in Int :
            trade' \in Trades /\ Sized(trade') /\ equity' = equity + gain
    BY <1>1, <1>2, ResultSized DEF Book
  <1>4. pc' = "scan" /\ UNCHANGED data
    BY DEF Book
  <1>5. TypeOK'
    BY <1>1, <1>3, <1>4 DEF SizedTrade, TypeOK, data
  <1>6. trade' # NoPosition
    BY <1>3, PositionAssumption
  <1> QED BY <1>3, <1>4, <1>5, <1>6 DEF SizedTrade, Sized

\* A trade that has just been opened.
LEMMA NewTradeTyped ==
    ASSUME NEW d \in Nat, NEW e \in Nat, NEW k \in Nat, NEW c \in Int,
           NEW lot \in Nat, NEW lots \in Nat, NEW base \in Int
    PROVE  [entry |-> d, expiry |-> e, strike |-> k, credit |-> c, lot |-> lot, lots |-> lots,
            base |-> base, exit |-> 0, reason |-> "", fees |-> 0, pnl |-> 0] \in Trades
  BY DEF Trades, Reasons

\* The size of an entry and what it can lose.
LEMMA SizeOfEntry ==
    ASSUME NEW c \in Int, c > 0, NEW lot \in Nat, NEW base \in Int,
           RiskLots(Width, c, lot, base, 0) # 0
    PROVE  /\ RiskLots(Width, c, lot, base, 0) \in Nat
           /\ 100 * ((Width - c) * lot * RiskLots(Width, c, lot, base, 0)) <= base * RiskPct
  <1>1. Width \in Int
    BY SettingsAssumption
  <1> QED BY <1>1, RiskLotsNatural, RiskLotsFits

\* An entry is sized on its own natural credit.
LEMMA EntrySized ==
    ASSUME SizedTrade, Enter
    PROVE  SizedTrade'
  <1> DEFINE base == Least(equity, Equity0)
  <1>1. PICK d \in days : trade' \in Candidates(d, base)
    BY DEF Enter
  <1>2. PICK e \in expiries, p \in UNION {Spreads(chain) : chain \in PutChains}, lot \in LotSizes :
            /\ trade' = Trade(d, e, p, lot, RiskLots(Width, Natural(p), lot, base, 0), base)
            /\ Acceptable(trade')
    BY <1>1 DEF Candidates
  <1>3. PICK chain \in PutChains : p.short \in chain /\ p.long \in chain
    BY <1>2 DEF Spreads
  <1>4. p.short.strike \in Nat /\ Natural(p) \in Int
    <2>1. p.short.settle \in Nat /\ p.long.settle \in Nat /\ p.short.strike \in Nat
      BY <1>3, PutsAssumption
    <2>2. Slip \in Nat /\ Tick \in Nat
      BY SettingsAssumption
    <2> QED BY <2>1, <2>2 DEF Natural, SellAt, BuyAt, Greatest
  <1>5. lot \in Nat /\ d \in Nat /\ e \in Nat /\ base \in Int
    <2>1. equity \in Int /\ Equity0 \in Nat /\ days \subseteq Nat /\ expiries \subseteq Nat
      BY SettingsAssumption DEF SizedTrade, TypeOK
    <2> QED BY <1>2, <2>1, SettingsAssumption DEF Least
  <1> HIDE DEF base
  <1>6. PICK c \in Int, n \in Nat :
            /\ c = Natural(p) /\ n = RiskLots(Width, c, lot, base, 0)
            /\ 100 * ((Width - c) * lot * n) <= base * RiskPct
    <2>1. Natural(p) > 0 /\ RiskLots(Width, Natural(p), lot, base, 0) # 0
      BY <1>2 DEF Acceptable, Trade
    <2> QED BY <1>4, <1>5, <2>1, SizeOfEntry
  <1>7. /\ trade'.credit = c /\ trade'.lot = lot /\ trade'.lots = n
        /\ trade'.base = base /\ trade'.exit = 0
    BY <1>2, <1>6 DEF Trade
  <1>8. trade' \in Trades
    <2>1. trade' = Trade(d, e, p, lot, n, base)
      BY <1>2, <1>6
    <2> QED BY <1>4, <1>5, <1>6, <2>1, NewTradeTyped DEF Trade
  <1>9. TypeOK'
    BY <1>8 DEF Enter, SizedTrade, TypeOK, Reasons, data
  <1>10. trade' # NoPosition
    BY <1>8, PositionAssumption
  <1> QED BY <1>6, <1>7, <1>9, <1>10 DEF SizedTrade

\* What a decision can be.
LEMMA DecisionTyped ==
    ASSUME NEW d, NEW q, NEW steep
    PROVE  Decision(d, q, steep) \in Reasons
  BY DEF Decision, Reasons

\* Steps that leave the trade and the equity alone.
LEMMA IdleSized ==
    ASSUME SizedTrade, UNCHANGED <<data, equity, trade>>,
           pc' \in {pc, "done", "dropped", "raised"},
           pending' \in Reasons
    PROVE  SizedTrade'
  BY DEF SizedTrade, TypeOK, data

LEMMA SizedStep == SizedTrade /\ [Next]_vars => SizedTrade'
  <1> SUFFICES ASSUME SizedTrade, [Next]_vars PROVE SizedTrade'
    OBVIOUS
  <1>0. pending \in Reasons /\ (pc = "walk" => trade # NoPosition)
    BY DEF SizedTrade, TypeOK
  <1>1. CASE Pass
    BY <1>0, <1>1, IdleSized DEF Pass
  <1>2. CASE Enter
    BY <1>2, EntrySized
  <1>3. CASE Finish
    BY <1>0, <1>3, IdleSized DEF Finish
  <1>4. CASE ExecutePending
    <2>0. PICK d \in days : \E q \in QuotesOn(d), fees \in Fees :
              NextDay(d) /\ Book(d, pending, CostToClose(q), fees)
      BY <1>4 DEF ExecutePending
    <2>1. PICK q \in QuotesOn(d), fees \in Fees :
              NextDay(d) /\ Book(d, pending, CostToClose(q), fees)
      BY <2>0
    <2>2. pc = "walk" /\ pending' \in Reasons /\ pending \in Reasons /\ trade # NoPosition
      BY <1>0, <1>4, <2>1 DEF ExecutePending, NextDay, Reasons
    <2>3. CostToClose(q) \in Int /\ CostToClose(q) <= Width + 2 * Slip
      BY <2>2, QuoteCost
    <2> QED BY <2>1, <2>2, <2>3, ClosingSized
  <1>5. CASE SettleAtExpiry
    <2>1. PICK d \in days, v \in SettlementValues, fees \in Fees :
              NextDay(d) /\ Book(d, "expiry", v.short - v.long, fees)
      BY <1>5 DEF SettleAtExpiry
    <2>2. pc = "walk" /\ pending' \in Reasons /\ trade # NoPosition
      BY <1>0, <1>5, <2>1 DEF SettleAtExpiry, NextDay, Reasons
    <2>3. v.short \in Nat /\ v.long \in Nat /\ v.short - v.long <= Width
      BY <2>2, ValuesDiffer
    <2>4. v.short - v.long \in Int /\ v.short - v.long <= Width + 2 * Slip
      BY <2>3, SettingsAssumption
    <2>5. "expiry" \in Reasons
      BY DEF Reasons
    <2> QED BY <2>1, <2>2, <2>4, <2>5, ClosingSized
  <1>6. CASE Unvaluable
    BY <1>0, <1>6, IdleSized DEF Unvaluable
  <1>7. CASE Stale
    BY <1>0, <1>7, IdleSized DEF Stale
  <1>8. CASE Mark
    BY <1>8, DecisionTyped, IdleSized DEF Mark
  <1>9. CASE OpenAtEnd
    BY <1>0, <1>9, IdleSized DEF OpenAtEnd
  <1>10. CASE Hole
    BY <1>0, <1>10, IdleSized DEF Hole
  <1>11. CASE UNCHANGED vars
    BY <1>0, <1>11, IdleSized DEF vars, data
  <1> QED BY <1>1, <1>2, <1>3, <1>4, <1>5, <1>6, <1>7, <1>8, <1>9, <1>10, <1>11 DEF Next

\* Every trade of a simulation stays in the risk it was sized for
\* (research/engine.py:258, core/sizing.py:14-17).
THEOREM SimulatedLossBounded == Spec => [](SizedTrade /\ LossInsideRisk)
  <1>1. Init => SizedTrade
    <2> SUFFICES ASSUME Init PROVE SizedTrade
      OBVIOUS
    <2>1. PICK c \in Calendars : days = c.days /\ expiries = c.expiries
      BY DEF Init
    <2>2. days \subseteq Nat \ {0} /\ expiries \subseteq Nat
      BY <2>1, CalendarAssumption
    <2>3. equity \in Int
      <3>1. equity = Equity0
        BY DEF Init
      <3> QED BY <3>1, SettingsAssumption
    <2> QED BY <2>2, <2>3 DEF Init, SizedTrade, TypeOK, Reasons
  <1>2. SizedTrade => LossInsideRisk
    BY DEF SizedTrade, LossInsideRisk, Closed
  <1> QED BY <1>1, <1>2, SizedStep, PTL DEF Spec
-----------------------------------------------------------------------------
(* The days of a walk *)

\* The CalendarAssumption, as the run keeps it, and where the walk stands.
OnDays ==
    /\ sessions \subseteq Nat \ {0} /\ days \subseteq sessions /\ expiries \subseteq Nat
    /\ today \in Nat /\ lastExit \in Nat
    /\ pc \in {"scan", "walk", "done", "dropped", "raised"}
    /\ pc = "walk" =>
        /\ trade \in Trades
        /\ trade.entry \in days /\ trade.entry <= today /\ trade.entry < trade.expiry
        /\ trade.exit = 0

\* The last day of a set that is not after e.
LEMMA LastOf ==
    ASSUME NEW D, D \subseteq Nat, NEW e \in Nat, NEW d \in D, d <= e
    PROVE  \E m \in D : m <= e /\ d <= m /\ \A x \in D : x <= e => x <= m
  <1> DEFINE A == {x \in D : x <= e}
  <1>1. PICK m \in A : \A x \in A : x <= m
    BY LatestExists
  <1> QED BY <1>1

\* A contract is settled on a session, not after its listed expiry and not before any
\* session up to it.
LEMMA TrueSettleIsLast ==
    ASSUME OnDays, NEW e \in Nat, NEW d \in sessions, d <= e
    PROVE  TrueSettleDay(e) \in Nat /\ TrueSettleDay(e) <= e /\ d <= TrueSettleDay(e)
  <1>1. \E s \in sessions : s <= e /\ \A x \in sessions : x <= e => x <= s
    BY LastOf DEF OnDays
  <1>2. /\ TrueSettleDay(e) \in sessions /\ TrueSettleDay(e) <= e
        /\ \A x \in sessions : x <= e => x <= TrueSettleDay(e)
    BY <1>1 DEF TrueSettleDay
  <1> QED BY <1>2 DEF OnDays

\* The walk does not look beyond the listed expiry, whatever is missing of the data.
LEMMA SettleNotAfter ==
    ASSUME OnDays, NEW e \in Nat, NEW a \in days, a < e
    PROVE  SettleDay(e) \in Nat /\ SettleDay(e) <= e
  <1>1. days \subseteq Nat
    BY DEF OnDays
  <1>2. CASE e \in days \/ \A x \in days : x <= e
    BY <1>2 DEF SettleDay
  <1>3. CASE ~(e \in days \/ \A x \in days : x <= e)
    <2> DEFINE A == {x \in days : x < e}
    <2>1. A \subseteq Nat /\ a \in A
      BY <1>1
    <2>5a. ASSUME NEW x \in A PROVE x <= e
      <3>1. x \in Nat /\ x < e
        BY <2>1
      <3> QED BY <3>1
    <2>2. PICK m \in A : \A x \in A : x <= m
      BY <2>1, <2>5a, LatestExists
    <2>3. \E d \in days : d < e /\ \A x \in days : x < e => x <= d
      BY <2>2
    <2>4. SettleDay(e) = CHOOSE d \in days : d < e /\ \A x \in days : x < e => x <= d
      BY <1>3 DEF SettleDay
    <2> HIDE DEF A
    <2>5. SettleDay(e) \in days /\ SettleDay(e) < e
      BY <2>3, <2>4
    <2>6. SettleDay(e) \in Nat
      BY <1>1, <2>5
    <2> QED BY <2>5, <2>6
  <1> QED BY <1>2, <1>3

\* In particular for the contract that is held.
LEMMA HeldSettles ==
    ASSUME OnDays, pc = "walk"
    PROVE  SettleDay(trade.expiry) \in Nat /\ SettleDay(trade.expiry) <= trade.expiry
  <1>1. trade.expiry \in Nat /\ trade.entry \in days /\ trade.entry < trade.expiry
    BY DEF OnDays, Trades
  <1> QED BY <1>1, SettleNotAfter

\* What Enter makes: a trade of this day, on a contract that is settled later.
LEMMA EnterOpens ==
    ASSUME OnDays, SizedTrade', Enter
    PROVE  /\ trade' \in Trades /\ trade'.exit = 0
           /\ trade'.entry \in days /\ trade'.entry = today' /\ lastExit < trade'.entry
           /\ trade'.entry < trade'.expiry /\ trade'.expiry \in Nat
           /\ trade'.entry < TrueSettleDay(trade'.expiry)
  <1>1. PICK d \in days : /\ d > lastExit /\ today' = d
                          /\ trade' \in Candidates(d, Least(equity, Equity0))
    BY DEF Enter
  <1>2. PICK e \in expiries :
            /\ NearestExpiry(d, e)
            /\ trade'.entry = d /\ trade'.expiry = e /\ trade'.exit = 0
    <2> DEFINE base == Least(equity, Equity0)
    <2>1. PICK e \in {x \in expiries : NearestExpiry(d, x)},
               p \in UNION {Spreads(chain) : chain \in PutChains}, lot \in LotSizes :
            trade' = Trade(d, e, p, lot, RiskLots(Width, Natural(p), lot, base, 0), base)
      BY <1>1 DEF Candidates
    <2> QED BY <2>1 DEF Trade
  <1>3. d < TrueSettleDay(e) /\ e - d >= DteLow
    BY <1>2, SettingsAssumption DEF NearestExpiry
  <1>4. d < e
    BY <1>1, <1>3, SettingsAssumption DEF OnDays
  <1>5. trade' \in Trades
    BY DEF Enter, SizedTrade, TypeOK
  <1> QED BY <1>1, <1>2, <1>3, <1>4, <1>5 DEF OnDays

\* A step of the walk is made on a later day of the data, not after the settlement.
LEMMA NextDayLater ==
    ASSUME OnDays, NEW d \in days, NextDay(d)
    PROVE  /\ pc = "walk" /\ d \in Nat \ {0} /\ trade.entry < d
           /\ d <= TrueSettleDay(trade.expiry)
  <1>1. pc = "walk" /\ today < d /\ d <= SettleDay(trade.expiry)
    BY DEF NextDay
  <1>2. d \in Nat \ {0} /\ d \in sessions /\ trade.entry \in Nat /\ trade.expiry \in Nat
    BY <1>1 DEF OnDays, Trades
  <1>3. trade.entry <= today /\ today \in Nat
    BY <1>1 DEF OnDays
  <1>4. SettleDay(trade.expiry) \in Nat /\ SettleDay(trade.expiry) <= trade.expiry
    BY <1>1, HeldSettles
  <1>5. d <= trade.expiry
    BY <1>1, <1>2, <1>4
  <1> QED BY <1>1, <1>2, <1>3, <1>5, TrueSettleIsLast

LEMMA OnDaysStart == Init => OnDays
  <1> SUFFICES ASSUME Init PROVE OnDays
    OBVIOUS
  <1>1. PICK c \in Calendars : sessions = c.sessions /\ days = c.days /\ expiries = c.expiries
    BY DEF Init
  <1> QED BY <1>1, CalendarAssumption DEF Init, OnDays

LEMMA OnDaysStep ==
    ASSUME OnDays, SizedTrade', [Next]_vars
    PROVE  OnDays'
  <1> USE DEF data
  <1>1. CASE Enter
    <2>1. pc' = "walk" /\ UNCHANGED <<data, lastExit>>
      BY <1>1 DEF Enter
    <2>2. trade'.entry <= today'
      <3>1. trade'.entry = today' /\ today' \in Nat
        BY <1>1, EnterOpens DEF OnDays
      <3> QED BY <3>1
    <2>3. today' \in Nat
      BY <1>1, EnterOpens DEF OnDays
    <2> QED BY <1>1, <2>1, <2>2, <2>3, EnterOpens DEF OnDays
  <1>2. ASSUME NEW d \in days, NextDay(d), UNCHANGED <<data, lastExit, trade, pc>>, today' = d
        PROVE  OnDays'
    <2>1. pc = "walk" /\ d \in Nat /\ today < d /\ trade.entry < d /\ trade.entry \in Nat
      BY <1>2, NextDayLater DEF OnDays, NextDay
    <2>2. trade'.entry <= today' /\ today' \in Nat
      BY <1>2, <2>1
    <2> QED BY <1>2, <2>1, <2>2 DEF OnDays
  <1>3. ASSUME NEW d \in days, NextDay(d), NEW why, NEW cost, NEW fees, Book(d, why, cost, fees)
        PROVE  OnDays'
    BY <1>3, NextDayLater DEF OnDays, Book
  <1>4. ASSUME UNCHANGED <<data, lastExit, trade, today>>,
               pc' = pc \/ pc' \in {"done", "dropped", "raised"}
        PROVE  OnDays'
    BY <1>4 DEF OnDays
  <1>5. CASE Pass \/ Finish \/ Unvaluable \/ OpenAtEnd \/ Hole \/ UNCHANGED vars
    BY <1>4, <1>5 DEF Pass, Finish, Unvaluable, OpenAtEnd, Hole, vars
  <1>6. CASE ExecutePending
    BY <1>3, <1>6 DEF ExecutePending
  <1>7. CASE SettleAtExpiry
    BY <1>3, <1>7 DEF SettleAtExpiry
  <1>8. CASE Stale
    BY <1>2, <1>8 DEF Stale
  <1>9. CASE Mark
    BY <1>2, <1>9 DEF Mark
  <1> QED BY <1>1, <1>5, <1>6, <1>7, <1>8, <1>9 DEF Next

LEMMA AlwaysSized == Spec => []SizedTrade
  BY SimulatedLossBounded, PTL

LEMMA AlwaysOnDays == Spec => []OnDays
  <1>1. OnDays /\ SizedTrade' /\ [Next]_vars => OnDays'
    BY OnDaysStep
  <1> QED BY <1>1, OnDaysStart, AlwaysSized, PTL DEF Spec

-----------------------------------------------------------------------------
(* run keeps one position at a time *)

LEMMA RunIsSimStep ==
    ASSUME OnDays, OnDays', SizedTrade', [Next]_vars
    PROVE  [Sim!BookNext]_(Sim!bookVars)
  <1> USE DEF data
  <1> DEFINE open(t) == [opened |-> t.entry, due |-> TrueSettleDay(t.expiry)]
  <1>1. CASE Enter
    <2>1. pc = "scan" /\ pc' = "walk" /\ UNCHANGED <<lastExit, sessions>>
      BY <1>1 DEF Enter
    <2>2. TrueSettleDay(trade.expiry)' = TrueSettleDay(trade'.expiry)
      BY <2>1 DEF TrueSettleDay
    <2>3. /\ trade'.entry \in Nat /\ trade'.entry < trade'.expiry
          /\ lastExit < trade'.entry /\ trade'.entry < TrueSettleDay(trade'.expiry)
      BY <1>1, EnterOpens DEF OnDays
    <2>4. TrueSettleDay(trade'.expiry) \in Nat
      BY <1>1, EnterOpens, TrueSettleIsLast DEF OnDays
    <2>5. Sim!Open
      BY <2>1, <2>2, <2>3, <2>4 DEF Sim!Open
    <2> QED BY <2>5 DEF Sim!BookNext
  <1>2. ASSUME NEW d \in days, NextDay(d), NEW why, NEW cost, NEW fees, Book(d, why, cost, fees)
        PROVE  Sim!Close
    <2>1. pc = "walk" /\ pc' = "scan" /\ lastExit' = d
      BY <1>2 DEF NextDay, Book
    <2>2. d \in Nat /\ trade.entry < d /\ d <= TrueSettleDay(trade.expiry)
      BY <1>2, NextDayLater
    <2>3. open(trade) # NoPosition
      <3>1. trade.entry \in Nat /\ trade.expiry \in Nat /\ trade.entry \in sessions
            /\ trade.entry < trade.expiry
        BY <2>1 DEF OnDays, Trades
      <3>2. TrueSettleDay(trade.expiry) \in Nat
        BY <3>1, TrueSettleIsLast
      <3> QED BY <3>1, <3>2, PositionAssumption
    <2> QED BY <2>1, <2>2, <2>3 DEF Sim!Close
  <1>3. ASSUME pc' \in {"done", "dropped", "raised"}, UNCHANGED <<lastExit, trade, sessions>>
        PROVE  Sim!BookNext
    <2>1. TrueSettleDay(trade.expiry)' = TrueSettleDay(trade.expiry)
      BY <1>3 DEF TrueSettleDay
    <2> QED BY <1>3, <2>1 DEF Sim!BookNext, Sim!End
  <1>4. ASSUME UNCHANGED <<pc, lastExit, trade, sessions>>
        PROVE  UNCHANGED Sim!bookVars
    <2>1. TrueSettleDay(trade.expiry)' = TrueSettleDay(trade.expiry)
      BY <1>4 DEF TrueSettleDay
    <2> QED BY <1>4, <2>1 DEF Sim!bookVars
  <1>5. CASE Pass \/ Stale \/ Mark \/ UNCHANGED vars
    BY <1>4, <1>5 DEF Pass, Stale, Mark, vars
  <1>6. CASE Finish \/ Unvaluable \/ OpenAtEnd \/ Hole
    BY <1>3, <1>6 DEF Finish, Unvaluable, OpenAtEnd, Hole
  <1>7. CASE ExecutePending
    BY <1>2, <1>7 DEF ExecutePending, Sim!BookNext
  <1>8. CASE SettleAtExpiry
    BY <1>2, <1>8 DEF SettleAtExpiry, Sim!BookNext
  <1> QED BY <1>1, <1>5, <1>6, <1>7, <1>8 DEF Next

\* Every run keeps one position at a time, opens the next one strictly after the last
\* exit and closes each by the day its contract is settled, whatever days are missing
\* from the data.
THEOREM RunImplementsSim == Spec => ImplementsSim
  <1>1. Init => Sim!BookInit
    BY DEF Init, Sim!BookInit
  <1>2. OnDays /\ OnDays' /\ SizedTrade' /\ [Next]_vars => [Sim!BookNext]_(Sim!bookVars)
    BY RunIsSimStep
  <1> QED
    BY <1>1, <1>2, AlwaysOnDays, AlwaysSized, PTL DEF Spec, ImplementsSim, Sim!BookSpec

-----------------------------------------------------------------------------
(* Exits are decided on one settle and executed on the next *)

\* While a position is walked, what was read of it is not later than today; it asked
\* for an exit on the last reading, if an exit is pending, and on no other one.
WalkRules ==
    /\ \A r \in seen : r.day \in Nat /\ r.day <= today
    /\ pending \in {"", "tp", "stop", "manage"}
    /\ pending = "" => \A r \in seen : ~Triggers(r)
    /\ pending # "" =>
        \E r \in seen : /\ Triggers(r)
                        /\ \A q \in seen : q.day <= r.day /\ (Triggers(q) => r.day <= q.day)

RulesKept ==
    /\ pc = "walk" => WalkRules
    /\ ExitByTheRules

\* The rules ask for an exit exactly when the code decides on one.
LEMMA DecisionIsTrigger ==
    ASSUME OnDays, pc = "walk", NEW d \in Nat, NEW q \in Marks, NEW steep \in BOOLEAN
    PROVE  /\ Decision(d, q, steep) \in {"", "tp", "stop", "manage"}
           /\ Decision(d, q, steep) # "" <=> Triggers([day |-> d, quote |-> q, steep |-> steep])
  <1> DEFINE cost == 100 * (q.short - q.long)
             goal == TakeProfitPct * trade.credit
             far  == StopPct * trade.credit
             left == SettleDay(trade.expiry) - d
  <1>1. cost \in Int /\ goal \in Int /\ far \in Int /\ left \in Int
    BY HeldSettles, ParityAssumption, SettingsAssumption DEF OnDays, Trades
  <1>2. Triggers([day |-> d, quote |-> q, steep |-> steep]) <=>
            \/ cost <= goal
            \/ mode = "stop2x" /\ cost >= far
            \/ mode = "mgmt" /\ (steep \/ left <= DteManage)
    BY DEF Triggers
  <1>3. Decision(d, q, steep) =
            CASE cost <= goal -> "tp"
              [] cost > goal /\ mode = "stop2x" /\ cost >= far -> "stop"
              [] cost > goal /\ mode = "mgmt" /\ (steep \/ left <= DteManage) -> "manage"
              [] OTHER -> ""
    BY DEF Decision
  <1> HIDE DEF cost, goal, far, left
  <1>4. CASE cost <= goal
    BY <1>1, <1>2, <1>3, <1>4
  <1>5. CASE ~(cost <= goal)
    <2>1. cost > goal
      BY <1>1, <1>5
    <2> QED BY <1>2, <1>3, <1>5, <2>1
  <1> QED BY <1>4, <1>5

\* Nothing that a rule looks at changes while a position is walked or booked.
LEMMA TriggersKept ==
    ASSUME UNCHANGED <<days, mode>>, trade'.credit = trade.credit,
           trade'.expiry = trade.expiry
    PROVE  \A r : Triggers(r)' <=> Triggers(r)
  BY DEF Triggers, SettleDay

\* The order of the days, for terms the solver does not see as numbers.
LEMMA NatOrder ==
    /\ \A x, y, z \in Nat : x <= y /\ y <= z => x <= z
    /\ \A x, y, z \in Nat : x <= y /\ y < z => x < z
    /\ \A x, y \in Nat : x < y => x <= y /\ ~(x = y)
    /\ \A x \in Nat : x <= x
  OBVIOUS

\* Booking a position on a later day than all that was read of it before.
LEMMA BookedByTheRules ==
    ASSUME OnDays, WalkRules, NEW d \in days, NextDay(d),
           NEW why \in Reasons, NEW cost, NEW fees, Book(d, why, cost, fees),
           \/ why = pending /\ pending # "" /\ \E read, steep : Read(d, read, steep)
           \/ why = "expiry" /\ UNCHANGED seen
    PROVE  ExitByTheRules'
  <1> USE DEF data
  <1>1. d \in Nat /\ today < d /\ today \in Nat /\ pc = "walk"
    BY NextDayLater DEF NextDay, OnDays
  <1>2. /\ trade'.exit = d /\ trade'.reason = why
        /\ trade'.credit = trade.credit /\ trade'.expiry = trade.expiry
    BY <1>1 DEF Book, OnDays, Trades
  <1>3. \A r : Triggers(r)' <=> Triggers(r)
    BY <1>2, TriggersKept DEF Book
  <1>4. ASSUME NEW r \in seen PROVE r.day \in Nat /\ r.day < d
    <2>1. r.day \in Nat /\ r.day <= today
      BY DEF WalkRules
    <2> QED BY <1>1, <2>1, NatOrder, Zenon
  <1>5. CASE why = "expiry" /\ UNCHANGED seen
    <2>1. ASSUME NEW r \in seen, NEW q \in seen, Triggers(r) PROVE q.day <= r.day
      <3>1. pending # ""
        BY <2>1 DEF WalkRules
      <3>2. PICK p \in seen : /\ Triggers(p)
                              /\ \A x \in seen : x.day <= p.day /\ (Triggers(x) => p.day <= x.day)
        BY <3>1 DEF WalkRules
      <3>3. q.day <= p.day /\ p.day <= r.day
        BY <2>1, <3>2
      <3> QED BY <1>4, <3>3, NatOrder, Zenon
    <2> QED BY <1>2, <1>3, <1>5, <2>1 DEF ExitByTheRules
  <1>6. CASE why = pending /\ pending # "" /\ \E read, steep : Read(d, read, steep)
    <2>1. PICK q, steep : seen' = seen \cup {[day |-> d, quote |-> q, steep |-> steep]}
      BY <1>6 DEF Read
    <2>2. why # "expiry"
      BY <1>6 DEF WalkRules
    <2>3. PICK r \in seen : /\ Triggers(r)
                            /\ \A p \in seen : p.day <= r.day /\ (Triggers(p) => r.day <= p.day)
      BY <1>6 DEF WalkRules
    <2>4. ASSUME NEW p \in seen'
          PROVE  /\ Triggers(p) /\ p.day < d => r.day <= p.day
                 /\ p.day <= r.day \/ p.day = d
      <3>1. CASE p \in seen
        BY <2>3, <3>1
      <3>2. CASE p = [day |-> d, quote |-> q, steep |-> steep]
        <4>1. p.day = d
          BY <3>2
        <4>2. ~(d < d)
          BY <1>1, NatOrder, Zenon
        <4> QED BY <4>1, <4>2
      <3> QED BY <2>1, <3>1, <3>2
    <2>5. r \in seen' /\ Triggers(r)' /\ r.day < trade'.exit
      BY <1>2, <1>3, <1>4, <2>1, <2>3
    <2> QED BY <1>2, <1>3, <2>2, <2>4, <2>5 DEF ExitByTheRules
  <1> QED BY <1>5, <1>6

LEMMA RulesKeptStep ==
    ASSUME OnDays, RulesKept, SizedTrade', [Next]_vars
    PROVE  RulesKept'
  <1> USE DEF data
  <1>1. CASE Enter
    BY <1>1 DEF Enter, RulesKept, WalkRules, ExitByTheRules, Closed
  <1>2. CASE ExecutePending
    <2>1. pc' = "scan"
      BY <1>2 DEF ExecutePending, Book
    <2>2. PICK d \in days : \E q \in QuotesOn(d), fees \in Fees :
            NextDay(d) /\ Read(d, q, FALSE) /\ Book(d, pending, CostToClose(q), fees)
      BY <1>2 DEF ExecutePending
    <2>3. pc = "walk" /\ pending # ""
      BY <1>2, <2>2 DEF ExecutePending, NextDay
    <2>4. pending \in Reasons /\ WalkRules
      BY <2>3 DEF RulesKept, WalkRules, Reasons
    <2> QED BY <2>1, <2>2, <2>3, <2>4, BookedByTheRules DEF RulesKept
  <1>3. CASE SettleAtExpiry
    <2>1. pc' = "scan"
      BY <1>3 DEF SettleAtExpiry, Book
    <2>2. PICK d \in days : \E v \in SettlementValues, fees \in Fees :
            NextDay(d) /\ Book(d, "expiry", v.short - v.long, fees)
      BY <1>3 DEF SettleAtExpiry
    <2>3. UNCHANGED seen
      BY <1>3 DEF SettleAtExpiry
    <2>4. WalkRules /\ "expiry" \in Reasons
      BY <2>2 DEF RulesKept, NextDay, Reasons
    <2> QED BY <2>1, <2>2, <2>3, <2>4, BookedByTheRules DEF RulesKept
  <1>4. CASE Stale
    <2>1. PICK d \in days : NextDay(d) /\ today' = d
      BY <1>4 DEF Stale
    <2>2. /\ UNCHANGED <<data, pc, trade, pending, seen>> /\ pc = "walk"
          /\ today < d /\ d \in Nat /\ today \in Nat
      BY <1>4, <2>1 DEF Stale, NextDay, OnDays
    <2>3. \A r : Triggers(r)' <=> Triggers(r)
      BY <2>2, TriggersKept
    <2>4. \A r \in seen' : r.day \in Nat /\ r.day <= today'
      <3>1. \A r \in seen : r.day \in Nat /\ r.day <= today
        BY <2>2 DEF RulesKept, WalkRules
      <3> QED BY <2>1, <2>2, <3>1
    <2>5. WalkRules'
      BY <2>2, <2>3, <2>4 DEF RulesKept, WalkRules
    <2> QED BY <2>2, <2>5 DEF RulesKept, ExitByTheRules, Closed
  <1>5. CASE Mark
    <2>1. PICK d \in days, q \in Marks, steep \in BOOLEAN :
            /\ NextDay(d) /\ Read(d, q, steep)
            /\ pending' = Decision(d, q, steep) /\ today' = d
      BY <1>5 DEF Mark
    <2> DEFINE r == [day |-> d, quote |-> q, steep |-> steep]
    <2>2. /\ UNCHANGED <<data, pc, trade>> /\ pc = "walk" /\ pending = ""
          /\ today < d /\ d \in Nat /\ today \in Nat
      BY <1>5, <2>1 DEF Mark, NextDay, OnDays
    <2>3. \A p : Triggers(p)' <=> Triggers(p)
      BY <2>2, TriggersKept
    <2>4. /\ pending' \in {"", "tp", "stop", "manage"}
          /\ pending' # "" <=> Triggers(r)
      BY <2>1, <2>2, DecisionIsTrigger
    <2>5. seen' = seen \cup {r}
      BY <2>1 DEF Read
    <2>6. r.day = d
      OBVIOUS
    <2> HIDE DEF r
    <2>7. \A p \in seen : p.day \in Nat /\ p.day <= today /\ ~Triggers(p)
      BY <2>2 DEF RulesKept, WalkRules
    <2>8. /\ \A p \in seen' : p.day \in Nat /\ p.day <= today'
          /\ pending' = "" => \A p \in seen' : ~Triggers(p)
          /\ pending' # "" => /\ Triggers(r) /\ r \in seen'
                              /\ \A p \in seen' : p.day <= r.day /\ (Triggers(p) => r.day <= p.day)
      <3>1. \A p \in seen' : p \in seen \/ p = r
        BY <2>5
      <3>2. \A p \in seen' : p.day \in Nat /\ p.day <= today'
        <4>1. ASSUME NEW p \in seen PROVE p.day \in Nat /\ p.day <= d
          BY <2>2, <2>7, NatOrder, Zenon
        <4>2. r.day \in Nat /\ r.day <= d /\ today' = d
          BY <2>1, <2>2, <2>6, NatOrder, Zenon
        <4> QED BY <3>1, <4>1, <4>2
      <3>3. pending' = "" => \A p \in seen' : ~Triggers(p)
        BY <2>4, <2>7, <3>1
      <3>4. r \in seen' /\ \A p \in seen' : p.day <= r.day /\ (Triggers(p) => r.day <= p.day)
        <4>1. today' = r.day /\ r.day \in Nat
          BY <2>1, <2>2, <2>6
        <4>2. \A p \in seen' : p.day <= r.day
          BY <3>2, <4>1
        <4>3. ASSUME NEW p \in seen', Triggers(p) PROVE r.day <= p.day
          <5>1. p = r
            BY <2>7, <3>1, <4>3
          <5> QED BY <4>1, <5>1
        <4> QED BY <2>5, <4>2, <4>3
      <3> QED BY <2>4, <3>2, <3>3, <3>4
    <2>9. WalkRules'
      BY <2>3, <2>4, <2>8 DEF WalkRules
    <2> QED BY <2>2, <2>9 DEF RulesKept, ExitByTheRules, Closed
  <1>6. CASE Unvaluable \/ OpenAtEnd \/ Hole
    <2>1. pc = "walk" /\ trade'.exit = 0 /\ pc' # "walk"
      BY <1>6 DEF Unvaluable, OpenAtEnd, Hole, NextDay, OnDays
    <2> QED BY <2>1 DEF RulesKept, ExitByTheRules, Closed
  <1>7. CASE Pass \/ Finish \/ UNCHANGED vars
    <2>1. /\ UNCHANGED <<data, trade, today, pending, seen>>
          /\ pc' = pc \/ (pc = "scan" /\ pc' = "done")
      BY <1>7 DEF Pass, Finish, vars
    <2>2. \A r : Triggers(r)' <=> Triggers(r)
      BY <2>1, TriggersKept
    <2>3. WalkRules' <=> WalkRules
      BY <2>1, <2>2 DEF WalkRules
    <2>4. Closed' => Closed
      BY <2>1 DEF Closed
    <2> QED BY <2>1, <2>2, <2>3, <2>4 DEF RulesKept, ExitByTheRules
  <1> QED BY <1>1, <1>2, <1>3, <1>4, <1>5, <1>6, <1>7 DEF Next

\* A position leaves on the first day with quotes after the first day whose settle asks
\* for an exit, across whatever days without quotes, and only if there is none on its
\* settlement.
THEOREM ExitsByTheRules == Spec => []ExitByTheRules
  <1>1. Init => RulesKept
    BY DEF Init, RulesKept, ExitByTheRules, Closed
  <1>2. OnDays /\ RulesKept /\ SizedTrade' /\ [Next]_vars => RulesKept'
    BY RulesKeptStep
  <1>3. RulesKept => ExitByTheRules
    BY DEF RulesKept
  <1> QED BY <1>1, <1>2, <1>3, AlwaysOnDays, AlwaysSized, PTL DEF Spec
=============================================================================
