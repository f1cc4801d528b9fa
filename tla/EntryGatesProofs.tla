-------------------------- MODULE EntryGatesProofs --------------------------
(***************************************************************************)
(* The loss of a spread that has been entered is inside both risk budgets, *)
(* whatever the settings, the quotes and the number of requotes; it is the *)
(* spread the gates asked for, in a session that they allow.               *)
(***************************************************************************)
EXTENDS EntryGates, SizingProofs

\* Multiplying by a natural number keeps an order.
LEMMA TimesKeepsOrder ==
    ASSUME NEW a \in Int, NEW b \in Int, NEW n \in Nat, a <= b
    PROVE  a * n <= b * n
  OBVIOUS

\* A price rounded between two whole numbers stays between them.
LEMMA RoundedBetween ==
    ASSUME NEW a \in Int, NEW n \in Int, NEW d \in Nat \ {0}, NEW p \in Rounded(n, d)
    PROVE  /\ p \in Int
           /\ n <= d * a => p <= a
           /\ d * a <= n => a <= p
  <1>1. /\ n \div d \in Int
        /\ p \in Int
        /\ 2 * Abs(d * p - n) <= d
    BY DEF Rounded
  <1>2. d * p \in Int /\ d * a \in Int
    BY <1>1
  <1>3. 2 * (d * p - n) <= d /\ 2 * (n - d * p) <= d
    BY <1>1, <1>2 DEF Abs
  <1>4. ASSUME n <= d * a, p >= a + 1
        PROVE  FALSE
    <2>1. d * p >= d * (a + 1)
      BY <1>1, <1>4
    <2>2. d * (a + 1) = d * a + d
      OBVIOUS
    <2> QED BY <1>2, <1>3, <1>4, <2>1, <2>2
  <1>5. ASSUME d * a <= n, p <= a - 1
        PROVE  FALSE
    <2>1. d * p <= d * (a - 1)
      BY <1>1, <1>5
    <2>2. d * (a - 1) = d * a - d
      OBVIOUS
    <2> QED BY <1>2, <1>3, <1>5, <2>1, <2>2
  <1> QED BY <1>1, <1>4, <1>5

\* The first limit of a leg: between the two sides of its book.
LEMMA StartBetween ==
    ASSUME NEW q \in Quotes, NEW natural \in Int, NEW p \in StartPrices(q, natural)
    PROVE  /\ p \in Int
           /\ natural = q.ask /\ q.ask > 0 /\ q.bid <= q.ask => p <= q.ask
           /\ natural = q.bid /\ (q.ask \in {0, NoQuote} \/ q.bid <= q.ask) => q.bid <= p
  <1>0. q.bid \in Nat /\ q.ask \in Int
    BY DEF Quotes, NoQuote
  <1>1. CASE "mid_price" \notin Enabled
    BY <1>0, <1>1 DEF StartPrices
  <1>2. CASE "mid_price" \in Enabled
    <2> DEFINE n == q.bid + (IF q.ask > 0 THEN q.ask ELSE q.bid)
    <2>1. n \in Int /\ p \in Rounded(n, 2)
      BY <1>0, <1>2 DEF StartPrices
    <2>2. /\ q.ask > 0 /\ q.bid <= q.ask => n <= 2 * q.ask
          /\ q.ask \in {0, NoQuote} \/ q.bid <= q.ask => 2 * q.bid <= n
      BY <1>0 DEF NoQuote
    <2> HIDE DEF n
    <2>3. /\ p \in Int
          /\ n <= 2 * q.ask => p <= q.ask
          /\ 2 * q.bid <= n => q.bid <= p
      BY <1>0, <2>1, RoundedBetween
    <2> QED BY <2>2, <2>3
  <1> QED BY <1>1, <1>2

\* A pair the selection returns: quoted legs, a positive credit.
LEMMA SelectedPair ==
    ASSUME NEW chain \in Chains, NEW size, NEW p \in SelectTargetPut(chain, spot, otm, vix, size)
    PROVE  /\ p.short \in Quotes /\ p.long \in Quotes
           /\ Credit(p) > 0
           /\ p.short.ask \in {0, NoQuote} \/ p.short.bid <= p.short.ask
           /\ p.long.ask > 0 => p.long.bid <= p.long.ask
  <1>1. p \in Pairs(chain, spot, otm) /\ Acceptable(p, size)
    BY DEF SelectTargetPut
  <1>2. p.short \in chain /\ p.long \in chain
    BY <1>1 DEF Pairs, HedgesFor, ShortCandidates, Listed
  <1> QED BY <1>1, <1>2, BookAssumption DEF Acceptable, NoQuote

LEMMA SizedStart == Init => SizedOnWorstCase
  BY DEF Init, SizedOnWorstCase, Working

\* Sizing establishes the budgets on the natural credit.
LEMMA SizeFits ==
    ASSUME SizedOnWorstCase, Size
    PROVE  SizedOnWorstCase'
  <1>1. /\ short \in Quotes /\ long \in Quotes /\ lot \in Nat
        /\ Credit(Pair) > 0
        /\ short.ask \in {0, NoQuote} \/ short.bid <= short.ask
        /\ long.ask > 0 /\ long.bid <= long.ask
        /\ UNCHANGED <<market, choice>>
        /\ pc' = "hedge" /\ price' \in StartPrices(long, long.ask)
    BY DEF SizedOnWorstCase, Size, Working
  <1>2. PICK margin \in Margins, pnl \in LifetimePnls, open \in OpenRisks :
            /\ equity' = Least(margin + pnl, MaxCapital)
            /\ openRisk' = open
            /\ lots' = RiskLots(Width(Pair), Credit(Pair), lot, equity', open)
            /\ lots' # 0
    BY DEF Size
  <1>3. equity' \in Int /\ openRisk' \in Nat
    BY <1>2, AccountAssumption, MoneyAssumption, RiskAssumption DEF Least
  <1>4. Width(Pair) \in Int /\ Credit(Pair) \in Int
    BY <1>1 DEF Width, Credit, Pair, Quotes, NoQuote
  <1>5. lots' \in Nat \ {0}
    BY <1>1, <1>2, <1>3, <1>4, RiskLotsNatural
  <1>6. /\ 100 * ((Width(Pair) - Credit(Pair)) * lot * lots') <= equity' * RiskPct
        /\ 100 * ((Width(Pair) - Credit(Pair)) * lot * lots' + openRisk')
             <= equity' * PortfolioPct
    <2> DEFINE w == Width(Pair)
               c == Credit(Pair)
               e == equity'
               o == openRisk'
    <2>1. /\ w \in Int /\ c \in Int /\ c > 0 /\ e \in Int /\ o \in Nat /\ lot \in Nat
          /\ lots' = RiskLots(w, c, lot, e, o) /\ lots' # 0
      BY <1>1, <1>2, <1>3, <1>4, <1>5
    <2> HIDE DEF w, c, e, o
    <2>2. /\ 100 * ((w - c) * lot * RiskLots(w, c, lot, e, o)) <= e * RiskPct
          /\ 100 * ((w - c) * lot * RiskLots(w, c, lot, e, o) + o) <= e * PortfolioPct
      BY <2>1, RiskLotsFits
    <2> QED BY <2>1, <2>2 DEF w, c, e, o
  <1>7. InBudgets(MaxLoss(Credit(Pair)))'
    BY <1>1, <1>6 DEF InBudgets, MaxLoss, Pair, Width, Credit, choice
  <1>8. price' \in Int /\ price' <= long.ask
    <2>1. long.ask \in Int /\ long.bid \in Nat
      BY <1>1 DEF Quotes, NoQuote
    <2> QED BY <1>1, <2>1, StartBetween
  <1> QED BY <1>1, <1>3, <1>5, <1>7, <1>8
          DEF SizedOnWorstCase, Working, Pair, Credit, choice

\* A step of the two orders keeps every limit and fill on the right side.
LEMMA OrdersKeepBounds ==
    ASSUME SizedOnWorstCase,
           RequoteHedge \/ FillHedge \/ RequoteShort \/ FillShort
    PROVE  SizedOnWorstCase'
  <1>1. /\ pc \in {"hedge", "short"}
        /\ pc' \in Working
        /\ UNCHANGED <<short, long, lot, equity, openRisk, lots>>
    BY DEF RequoteHedge, FillHedge, RequoteShort, FillShort, choice, sizeVars, Working
  <1>2. /\ short \in Quotes /\ long \in Quotes
        /\ long.ask \in Nat /\ short.bid \in Nat
        /\ price \in Int
        /\ long.ask > 0
        /\ short.ask \in {0, NoQuote} \/ short.bid <= short.ask
    BY <1>1 DEF SizedOnWorstCase, Working, Quotes, NoQuote
  <1>3. InBudgets(MaxLoss(Credit(Pair)))'
    BY <1>1 DEF SizedOnWorstCase, Working, InBudgets, MaxLoss, Pair, Width, Credit
  <1>4. CASE RequoteHedge
    <2>1. /\ pc = "hedge" /\ pc' = "hedge" /\ price <= long.ask
          /\ \E p \in Toward(price, long.ask) : price' = Least(p, long.ask)
      BY <1>4 DEF RequoteHedge, SizedOnWorstCase
    <2>2. price' \in Int /\ price' <= long.ask
      BY <1>2, <2>1 DEF Toward, Rounded, Least
    <2> QED BY <1>1, <1>3, <2>1, <2>2 DEF SizedOnWorstCase, Working, Pair, Credit
  <1>5. CASE FillHedge
    <2>1. /\ pc = "hedge" /\ pc' = "short" /\ price <= long.ask
          /\ \E better \in 0..MaxImprovement : paid' = price - better
          /\ price' \in StartPrices(short, short.bid)
      BY <1>5 DEF FillHedge, SizedOnWorstCase
    <2>2. paid' \in Int /\ paid' <= long.ask
      BY <1>2, <2>1, MoneyAssumption, RiskAssumption
    <2>3. price' \in Int /\ price' >= short.bid
      BY <1>2, <2>1, StartBetween
    <2> QED BY <1>1, <1>3, <2>1, <2>2, <2>3 DEF SizedOnWorstCase, Working, Pair, Credit
  <1>6. CASE RequoteShort
    <2>1. /\ pc = "short" /\ pc' = "short" /\ paid' = paid
          /\ \E p \in Toward(price, short.bid) : price' = Greatest(p, short.bid)
      BY <1>6 DEF RequoteShort
    <2>2. price' \in Int /\ price' >= short.bid
      BY <1>2, <2>1 DEF Toward, Rounded, Greatest
    <2> QED BY <1>1, <1>3, <2>1, <2>2 DEF SizedOnWorstCase, Working, Pair, Credit
  <1>7. CASE FillShort
    <2>1. /\ pc = "short" /\ pc' = "entered" /\ paid' = paid /\ price >= short.bid
          /\ \E better \in 0..MaxImprovement : got' = price + better
      BY <1>7 DEF FillShort, SizedOnWorstCase
    <2>2. got' \in Int /\ got' >= short.bid
      BY <1>2, <2>1, MoneyAssumption, RiskAssumption
    <2> QED BY <1>1, <1>3, <2>1, <2>2 DEF SizedOnWorstCase, Working, Pair, Credit
  <1> QED BY <1>4, <1>5, <1>6, <1>7

LEMMA SizedStep == SizedOnWorstCase /\ [Next]_vars => SizedOnWorstCase'
  <1> SUFFICES ASSUME SizedOnWorstCase, [Next]_vars
               PROVE  SizedOnWorstCase'
    OBVIOUS
  <1>1. CASE Begin \/ IvrGate \/ CalendarGate \/ TrendGate \/ GiveUp
    <2>1. pc' \notin Working \cup {"size"}
      BY <1>1 DEF Begin, IvrGate, CalendarGate, TrendGate, GiveUp, Skip, Working
    <2> QED BY <2>1 DEF SizedOnWorstCase, Working
  <1>2. CASE Select
    <2>1. PICK chain \in Chains, size \in LotSizes \ {0} :
            \E p \in SelectTargetPut(chain, spot, otm, vix, size) :
                /\ p.long.ask > 0
                /\ short' = p.short /\ long' = p.long /\ lot' = size
      BY <1>2 DEF Select
    <2>2. PICK p \in SelectTargetPut(chain, spot, otm, vix, size) :
                /\ p.long.ask > 0
                /\ short' = p.short /\ long' = p.long /\ lot' = size
      BY <2>1
    <2>3. /\ p.short \in Quotes /\ p.long \in Quotes
          /\ Credit(p) > 0
          /\ p.short.ask \in {0, NoQuote} \/ p.short.bid <= p.short.ask
          /\ p.long.bid <= p.long.ask
      BY <2>2, SelectedPair
    <2>4. Credit(Pair)' = Credit(p)
      BY <2>2 DEF Pair, Credit
    <2>5. pc' = "size" /\ lot' \in Nat
      BY <1>2, <2>1, <2>2, AccountAssumption DEF Select
    <2> QED BY <2>2, <2>3, <2>4, <2>5 DEF SizedOnWorstCase, Working
  <1>3. CASE Size
    BY <1>3, SizeFits
  <1>4. CASE RequoteHedge \/ FillHedge \/ RequoteShort \/ FillShort
    BY <1>4, OrdersKeepBounds
  <1>5. CASE UNCHANGED vars
    BY <1>5 DEF vars, SizedOnWorstCase, Working, InBudgets, MaxLoss, Pair, Width, Credit
  <1> QED BY <1>1, <1>2, <1>3, <1>4, <1>5 DEF Next

\* A fill at a limit is never worse than the quote it was sized on.
LEMMA FilledInBudgets == SizedOnWorstCase => LossWithinBudgets
  <1> SUFFICES ASSUME SizedOnWorstCase, pc = "entered"
               PROVE  InBudgets(MaxLoss(got - paid))
    BY DEF LossWithinBudgets
  <1>1. /\ lot \in Nat /\ lots \in Nat /\ equity \in Int /\ openRisk \in Nat
        /\ InBudgets(MaxLoss(Credit(Pair)))
        /\ paid \in Int /\ paid <= long.ask
        /\ got \in Int /\ got >= short.bid
        /\ Width(Pair) \in Int /\ long.ask \in Int /\ short.bid \in Int
        /\ Credit(Pair) = short.bid - long.ask
    BY DEF SizedOnWorstCase, Working, Quotes, NoQuote, Width, Credit, Pair
  <1> DEFINE w == Width(Pair)
             worst == (w - Credit(Pair)) * lot * lots
             real == (w - (got - paid)) * lot * lots
  <1>2. w - (got - paid) <= w - Credit(Pair) /\ w \in Int /\ Credit(Pair) \in Int
    BY <1>1
  <1>3. worst \in Int /\ real \in Int /\ real <= worst
    <2> DEFINE a == w - (got - paid)
               b == w - Credit(Pair)
    <2>1. a \in Int /\ b \in Int /\ a <= b
      BY <1>1, <1>2
    <2> HIDE DEF a, b
    <2>2. a * lot \in Int /\ b * lot \in Int /\ a * lot <= b * lot
      BY <1>1, <2>1, TimesKeepsOrder
    <2>3. a * lot * lots \in Int /\ b * lot * lots \in Int /\ a * lot * lots <= b * lot * lots
      BY <1>1, <2>2, TimesKeepsOrder
    <2> QED BY <2>3 DEF a, b
  <1>4. 100 * worst <= equity * RiskPct /\ 100 * (worst + openRisk) <= equity * PortfolioPct
    BY <1>1 DEF InBudgets, MaxLoss
  <1>5. 100 * real <= equity * RiskPct /\ 100 * (real + openRisk) <= equity * PortfolioPct
    <2>1. equity * RiskPct \in Int /\ equity * PortfolioPct \in Int
      BY <1>1, MoneyAssumption, RiskAssumption
    <2> HIDE DEF worst, real
    <2> QED BY <1>1, <1>3, <1>4, <2>1
  <1> QED BY <1>5 DEF InBudgets, MaxLoss

\* Every spread the bot enters can lose no more than both risk budgets allow at the
\* prices it has really traded at: for every setting, quote and number of requotes.
THEOREM EntryRiskBounded == Spec => []LossWithinBudgets
  <1> QED BY SizedStart, SizedStep, FilledInBudgets, PTL DEF Spec

-----------------------------------------------------------------------------
(* What reaches the market *)

\* The pair chosen keeps its expiry, its width and its distance until it is traded.
ChosenInside ==
    /\ pc \notin {"vix", "skipped"} => otm = VixRegimeOtm(vix)
    /\ pc \in Working \cup {"size"} =>
        /\ short \in Quotes /\ long \in Quotes
        /\ short.dte = long.dte
        /\ Width(Pair) >= HedgeWidth
        /\ Width(Pair) * lot <= MaxCapital
        /\ 1000 * short.strike <= spot * (1000 - VixRegimeOtm(vix))
        /\ LegLiquid(short) /\ LegLiquid(long)

\* Of a pair: one expiry, the hedge far enough below, the short below the OTM ceiling.
LEMMA PairInside ==
    ASSUME NEW chain \in Chains, NEW sp, NEW o, NEW v, NEW size,
           NEW p \in SelectTargetPut(chain, sp, o, v, size)
    PROVE  /\ p.short \in Quotes /\ p.long \in Quotes
           /\ p.short.dte = p.long.dte
           /\ Width(p) >= HedgeWidth
           /\ Width(p) * size <= MaxCapital
           /\ 1000 * p.short.strike <= sp * (1000 - o)
           /\ LegLiquid(p.short) /\ LegLiquid(p.long)
  <1>1. p \in Pairs(chain, sp, o) /\ Acceptable(p, size)
    BY DEF SelectTargetPut
  <1>2. PICK s \in ShortCandidates(chain, sp, o) : \E h \in HedgesFor(chain, s) :
            p = [short |-> s, long |-> h]
    BY <1>1 DEF Pairs
  <1>3. p.short = s /\ p.long \in HedgesFor(chain, s)
    BY <1>2
  <1>4. s \in chain /\ 1000 * s.strike <= sp * (1000 - o)
    BY <1>2 DEF ShortCandidates, Listed
  <1>5. p.long \in chain /\ p.long.dte = s.dte /\ p.long.strike <= s.strike - HedgeWidth
    BY <1>3 DEF HedgesFor, Listed
  <1>6. s \in Quotes /\ p.long \in Quotes
    BY <1>4, <1>5, BookAssumption
  <1>7. Width(p) >= HedgeWidth
    <2>1. s.strike \in Nat /\ p.long.strike \in Nat
      BY <1>6 DEF Quotes
    <2> QED BY <1>3, <1>5, <2>1, MoneyAssumption DEF Width
  <1> QED BY <1>1, <1>3, <1>4, <1>5, <1>6, <1>7 DEF Acceptable

LEMMA ChosenStart == Init => ChosenInside
  BY DEF Init, ChosenInside, Working

LEMMA ChosenStep == ChosenInside /\ [Next]_vars => ChosenInside'
  <1> SUFFICES ASSUME ChosenInside, [Next]_vars
               PROVE  ChosenInside'
    OBVIOUS
  <1>1. CASE Begin
    BY <1>1 DEF Begin, ChosenInside, Working
  <1>2. CASE IvrGate \/ CalendarGate
    BY <1>2 DEF IvrGate, CalendarGate, market, ChosenInside, Working
  <1>3. CASE TrendGate
    BY <1>3 DEF TrendGate, ChosenInside, Working
  <1>4. CASE Select
    <2>1. PICK chain \in Chains, size \in LotSizes \ {0} :
            \E p \in SelectTargetPut(chain, spot, otm, vix, size) :
                short' = p.short /\ long' = p.long /\ lot' = size
      BY <1>4 DEF Select
    <2>2. PICK p \in SelectTargetPut(chain, spot, otm, vix, size) :
                short' = p.short /\ long' = p.long /\ lot' = size
      BY <2>1
    <2>3. otm = VixRegimeOtm(vix) /\ pc' = "size" /\ UNCHANGED <<otm, spot, vix>>
      BY <1>4 DEF Select, ChosenInside, market
    <2>4. /\ p.short \in Quotes /\ p.long \in Quotes
          /\ p.short.dte = p.long.dte
          /\ Width(p) >= HedgeWidth
          /\ Width(p) * size <= MaxCapital
          /\ 1000 * p.short.strike <= spot * (1000 - otm)
          /\ LegLiquid(p.short) /\ LegLiquid(p.long)
      BY PairInside
    <2>5. Width(Pair)' = Width(p)
      BY <2>2 DEF Pair, Width
    <2>6. LegLiquid(short)' = LegLiquid(p.short) /\ LegLiquid(long)' = LegLiquid(p.long)
      BY <2>2 DEF LegLiquid
    <2>7. VixRegimeOtm(vix)' = VixRegimeOtm(vix)
      BY <2>3 DEF VixRegimeOtm
    <2> QED BY <2>2, <2>3, <2>4, <2>5, <2>6, <2>7 DEF ChosenInside
  <1>5. CASE Size \/ RequoteHedge \/ FillHedge \/ RequoteShort \/ FillShort
    <2>1. /\ pc \in Working \cup {"size"} /\ pc' \in Working
          /\ pc \notin {"vix", "skipped"}
          /\ UNCHANGED <<market, choice>>
      BY <1>5 DEF Size, RequoteHedge, FillHedge, RequoteShort, FillShort, Working
    <2> QED BY <2>1 DEF ChosenInside, market, choice, Pair, Width, LegLiquid, VixRegimeOtm
  <1>6. CASE GiveUp
    BY <1>6 DEF GiveUp, Skip, ChosenInside, Working
  <1>7. CASE UNCHANGED vars
    BY <1>7 DEF vars, ChosenInside, Working, Pair, Width, LegLiquid, VixRegimeOtm
  <1> QED BY <1>1, <1>2, <1>3, <1>4, <1>5, <1>6, <1>7 DEF Next

LEMMA ChosenBounds == ChosenInside => SpreadInsideBounds
  <1> SUFFICES ASSUME ChosenInside, pc \in Working, NEW q \in {short, long}
               PROVE  /\ q.bid > 0 /\ q.ask # NoQuote
                      /\ 100 * q.ask <= q.bid * (100 + MaxSpreadPct)
    BY DEF ChosenInside, SpreadInsideBounds
  <1>1. /\ q \in Quotes /\ q.bid > 0 /\ q.ask # NoQuote
        /\ 100 * (q.ask - q.bid) <= MaxSpreadPct * q.bid
    BY DEF ChosenInside, LegLiquid
  <1>2. q.bid \in Nat /\ q.ask \in Int
    BY <1>1 DEF Quotes, NoQuote
  <1>3. q.bid * (100 + MaxSpreadPct) = 100 * q.bid + MaxSpreadPct * q.bid
    BY <1>2, MoneyAssumption
  <1>4. MaxSpreadPct * q.bid \in Int
    BY <1>2, MoneyAssumption
  <1> QED BY <1>1, <1>2, <1>3, <1>4

\* Whatever the settings, the chain and the number of requotes, the spread sent to the
\* market has one expiry, at least the hedge's width, a width inside the capital, bids and
\* near asks for both of its legs, and the distance of the VIX regime read at the start.
THEOREM SpreadAlwaysInsideBounds == Spec => []SpreadInsideBounds
  <1> QED BY ChosenStart, ChosenStep, ChosenBounds, PTL DEF Spec

\* What the calendar gate let through is still true of the session: nothing that an
\* attempt does later reads another day or another VIX.
SessionHeld ==
    /\ session \in {"friday", "midweek", "any"}
    /\ pc \in {"spot", "select", "size"} \cup Working => SessionAllows(session, day, vix)

LEMMA SessionStart == Init => SessionHeld
  BY DEF Init, SessionHeld, Working

LEMMA SessionStep == SessionHeld /\ [Next]_vars => SessionHeld'
  <1> SUFFICES ASSUME SessionHeld, [Next]_vars
               PROVE  SessionHeld'
    OBVIOUS
  <1>1. CASE Begin
    BY <1>1 DEF Begin, SessionHeld, Working
  <1>2. CASE IvrGate
    BY <1>2 DEF IvrGate, market, SessionHeld, Working
  <1>3. CASE CalendarGate
    <2>1. /\ pc' = "spot" => SessionAllows(session, day, vix)
          /\ pc' \in {"spot", "skipped"}
          /\ UNCHANGED <<session, day, vix>>
      BY <1>3 DEF CalendarGate, market
    <2>2. SessionAllows(session, day, vix)' = SessionAllows(session, day, vix)
      BY <2>1 DEF SessionAllows, IsMidweekDay, IsFriday, Weekday
    <2> QED BY <2>1, <2>2 DEF SessionHeld, Working
  <1>4. CASE \/ TrendGate \/ Select \/ Size
             \/ RequoteHedge \/ FillHedge \/ RequoteShort \/ FillShort
    <2>1. /\ pc \in {"spot", "select", "size"} \cup Working
          /\ UNCHANGED <<session, day, vix>>
      BY <1>4 DEF TrendGate, Select, Size, RequoteHedge, FillHedge, RequoteShort, FillShort,
                  market, Working
    <2>2. SessionAllows(session, day, vix)' = SessionAllows(session, day, vix)
      BY <2>1 DEF SessionAllows, IsMidweekDay, IsFriday, Weekday
    <2> QED BY <2>1, <2>2 DEF SessionHeld
  <1>5. CASE GiveUp
    BY <1>5 DEF GiveUp, Skip, market, SessionHeld, Working
  <1>6. CASE UNCHANGED vars
    BY <1>6 DEF vars, SessionHeld, Working, SessionAllows, IsMidweekDay, IsFriday, Weekday
  <1> QED BY <1>1, <1>2, <1>3, <1>4, <1>5, <1>6 DEF Next

LEMMA SessionBlind == SessionHeld => BlindEntryOnlyOnFriday
  BY DEF SessionHeld, SessionAllows, BlindEntryOnlyOnFriday, IsMidweekDay

\* On every calendar and with every set of gates switched on, an attempt whose VIX is
\* missing or outside the mid-week band trades in a Friday session or on a Friday only.
THEOREM BlindEntriesOnFridays == Spec => []BlindEntryOnlyOnFriday
  <1> QED BY SessionStart, SessionStep, SessionBlind, PTL DEF Spec
=============================================================================
