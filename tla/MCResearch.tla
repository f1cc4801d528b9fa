----------------------------- MODULE MCResearch -----------------------------
(***************************************************************************)
(* Six studies of the research engine that share nothing, checked in one   *)
(* run: `study' names the one that moves, the other five stay in one       *)
(* initial state.                                                          *)
(***************************************************************************)
EXTENDS BacktestWalk, TrendBook, MomentumBook, ContinuousFutures, ReleaseParser, ChangeLedger

VARIABLE study

-----------------------------------------------------------------------------
(* BacktestWalk *)

\* Steps of a path that look random.
Noise(seed, i, n) == (seed * (i * i + 3 * i + 1) + 7 * i + (seed * seed + i) \div 3) % n

\* Six weeks of weekdays from a Friday, with a holiday on one or two expiries.
MCDays(holidays) ==
    LET open == {d \in 4..44 : d % 7 < 5 /\ d \notin holidays}
    IN [n \in 1..Cardinality(open) |->
            CHOOSE d \in open : Cardinality({x \in open : x <= d}) = n]

MCSpots(seed, n) ==
    LET s[i \in 0..n] == IF i = 0 THEN 1000
                         ELSE s[i-1] + 5 * (Noise(seed, i, 7) - 3)
                                - (IF i = 14 + seed THEN 250 ELSE 0)
    IN s

MCPath(seed, holidays) ==
    LET ds == MCDays(holidays)
        sp == MCSpots(seed, Len(ds))
    IN [i \in DOMAIN ds |-> [day |-> ds[i], spot |-> sp[i], vix |-> 13 + Noise(seed + 3, i, 11)]]

\* A definition of its own is evaluated once; what a constant stands for, at each use.
PathTable == {MCPath(seed, h) : seed \in 1..20, h \in {{}, {18, 19}, {25, 39}}}
MCPaths == PathTable

MCTimeValue(spot, strike, dte, vix) ==
    LET gap == IF strike > spot THEN strike - spot ELSE spot - strike
    IN IF dte = 0 THEN 0 ELSE (vix * (dte + 6)) \div (12 + gap)

MCPutPrice(spot, strike, dte, vix) ==
    Greatest(strike - spot, 0) + MCTimeValue(spot, strike, dte, vix)

MCPutDelta(spot, strike, dte, vix) ==
    IF dte = 0 THEN (IF spot < strike THEN 100 ELSE 0)
    ELSE Greatest(2, Least(98, 50 + ((strike - spot) * 40) \div (vix + 2 * dte)))

MCParamSets == [touch : BOOLEAN, manage : {Disabled, 2}, timeStop : {Disabled, 2},
                allocation : {Disabled, 60}]

-----------------------------------------------------------------------------
(* TrendBook *)

Hash(a, b, c) == ((a * 7 + b * 13 + c * 29) * (a + 3 * b + 5 * c + 11) + a * b * 17) % 97

MCProducts == [gold |-> {"GOLD", "GOLDM"}, zinc |-> {"ZINC"}]
MCReference == [gold |-> "GOLD", zinc |-> "ZINC"]
MCWeek(d) == d \div 4
MCFiscalYear(d) == 1 + (d \div 6)
Id(p) == CASE p = "GOLD" -> 1 [] p = "GOLDM" -> 2 [] OTHER -> 3
MCExpiryDay(k) == 5 * k

\* Sometimes not listed; rolled one to three sessions before the expiry.
MCContractOf(t, p, d) ==
    IF Hash(t, Id(p), d) % 7 = 0 THEN NoFuture
    ELSE 1 + ((d + 1 + (Hash(t, Id(p), 50) % 3)) \div 5)

MCQuote(t, p, k, d) ==
    LET h == Hash(t + k, Id(p), d + 3)
    IN IF k # MCContractOf(t, p, d) /\ (h % 3 = 0 \/ d > MCExpiryDay(k)) THEN NoQuote
       ELSE [open |-> 80 + (h % 31), close |-> 80 + ((h * 5) % 37)]

MCMult(t, p, d) == IF p = "GOLD" THEN 10 ELSE IF p = "GOLDM" THEN 3 ELSE 4
MCQualifies(t, p, d) == Hash(t, Id(p) + 5, d) % 4 # 0
MCVol(t, p, d) == IF Hash(t, Id(p) + 9, d) % 8 = 0 THEN 0 ELSE 10 + (Hash(t, Id(p), d) % 10)
MCSignal(t, m, d) == (Hash(t, IF m = "gold" THEN 4 ELSE 5, d) % 7) - 3
MCTargetRisk == [n \in 1..2 |-> IF n = 1 THEN 300 ELSE 210]

-----------------------------------------------------------------------------
(* MomentumBook *)

Hash2(a, b, c) == ((a * 7 + b * 13 + c * 29) * (a + 3 * b + 5 * c + 11) + a * b * 17) % 97

MCRow(t, n, d) ==
    LET h == Hash2(t, n, d)
    IN IF h % 7 = 0 \/ (n = 1 + (t % 5) /\ d > 17) \/ (n # 1 + (t % 5) /\ d \in 9..12) THEN NoRow
       ELSE [close |-> 20 + (h % 13), adj |-> 8 + (h % 9), flag |-> h % 11 = 0, eq |-> h % 10 # 1]

\* A permutation of the names, the last of them unranked now and then.
MCRank(t, d) ==
    [n \in Names |-> LET r == 1 + ((n * (1 + ((t + d) % 4)) + t + d) % 5)
                     IN IF r = 5 /\ Hash2(t, 0, d) % 2 = 0 THEN 0 ELSE r]

MCRebalance(t, d) ==
    IF d % 4 # 1 THEN NoBook
    ELSE [on |-> Hash2(t, 7, d) % 5 # 0, rank |-> MCRank(t, d),
          liquid |-> [n \in Names |-> n % 2 = 0], cap |-> [n \in Names |-> 30 * n]]

MCMarketTapes == 0..89

MCYearOf(d) == 1 + (d \div 8)

-----------------------------------------------------------------------------
(* ContinuousFutures *)

\* Two weeks with a holiday; a weekly (7), a monthly re-dated by a day (9, 10) and
\* the next two months, the last of them beyond the data.
MCCal == <<4, 7, 8, 9, 10>>
MCExpiries == {7, 9, 10, 18, 31}
MCMonth(d) == d \div 12
MCLots == [e \in MCExpiries |-> IF e = 7 THEN 4 ELSE IF e = 9 THEN 43 ELSE 100]
MCQuoteSets == {{9}, {10}, {18}, {31}, {7, 9, 10}, {9, 18}, {10, 18}, {18, 31}, {7, 9, 10, 18, 31}}
MCMarket == [d \in 2..11 |-> 100 + 7 * d - ((d * d * d) % 11)]
MCBasis == [e \in MCExpiries |-> IF e \in {9, 10} THEN 1 ELSE e]

-----------------------------------------------------------------------------
(* ReleaseParser *)

MCNoLine == [group |-> FALSE, why |-> None, head |-> None, side |-> None, named |-> None,
             prose |-> <<>>, heading |-> FALSE, number |-> 0, text |-> 0, date |-> 0, own |-> 0,
             printed |-> None]
MCRows(ix, sd, dt, kd, base, noise) ==
    LET entry(n) == [MCNoLine EXCEPT !.number = n, !.text = base + n,
                        !.printed = [index |-> ix, side |-> sd, text |-> base + n, date |-> dt, kind |-> kd]]
        alone(n) == [MCNoLine EXCEPT !.number = n, !.text = None]
        own(n, l) == [l EXCEPT !.own = 6 + n, !.printed.date = 6 + n]
    IN CASE noise = "page"  -> <<entry(1), alone(7), entry(2)>>
         [] noise = "split" -> <<entry(1), alone(2), [entry(2) EXCEPT !.number = 0]>>
         [] noise = "prose" -> <<entry(1), [MCNoLine EXCEPT !.number = 51, !.text = 51], entry(2), MCNoLine>>
         [] noise = "own"   -> <<own(1, entry(1)), alone(2), own(2, [entry(2) EXCEPT !.number = 0]),
                                 entry(3), [MCNoLine EXCEPT !.own = 9]>>
         [] OTHER           -> <<[MCNoLine EXCEPT !.heading = TRUE], entry(1), entry(2)>>
MCSentence(sd, ix) == [MCNoLine EXCEPT !.side = sd, !.named = ix]

\* The lines of one section, from the date dt and for the reason kd.
MCSection(form, ix, dt, kd, base, noise) ==
    LET tables(jx, named) == <<MCSentence("remove", named)>> \o MCRows(jx, "remove", dt, kd, base, noise)
                             \o <<MCSentence("add", named)>> \o MCRows(jx, "add", dt, kd, base + 10, noise)
    IN CASE form = "headed"  -> <<[MCNoLine EXCEPT !.head = ix, !.prose = <<ix>>]>> \o tables(ix, None)
         [] form = "named"   -> tables(ix, ix)
         [] form = "group"   -> <<[MCNoLine EXCEPT !.group = TRUE, !.why = kd],
                                  [MCNoLine EXCEPT !.prose = <<ix>>]>> \o tables(ix, None)
         [] form = "prose"   -> <<[MCNoLine EXCEPT !.prose = <<"MID", ix>>]>> \o tables(ix, None)
         [] form = "other"   -> <<[MCNoLine EXCEPT !.head = Other]>> \o tables(Other, None)
         [] OTHER            -> <<MCNoLine>> \o MCRows(Other, "add", dt, kd, base, noise)

MCRelease(f, g, ix, jx, noise, dated, clauses) ==
    LET one == IF f = "group" THEN "scheduled" ELSE IF DOMAIN clauses # {} THEN clauses[ix] ELSE "ad_hoc"
        two == IF g = "group" THEN "criteria_revision"
                  ELSE IF DOMAIN clauses # {} /\ g = "headed" THEN clauses[jx] ELSE one
        date(d) == <<[MCNoLine EXCEPT !.date = d]>>
    IN [kind |-> "ad_hoc", clauses |-> clauses,
        lines |-> date(3) \o MCSection(f, ix, 3, one, 0, noise)
                  \o (IF dated THEN date(5) ELSE <<>>)
                  \o MCSection(g, jx, IF dated THEN 5 ELSE 3, two, 100, noise)]

MCNoises == {"none", "page", "split", "prose", "own"}
ReleaseTable ==
    {MCRelease(f, g, ix, jx, noise, dated, <<>>) :
        f \in {"headed", "named", "group", "prose", "other"},
        g \in {"headed", "named", "group", "other", "unknown"},
        ix \in {"TOP", "MID"}, jx \in {"TOP", "MID"}, noise \in MCNoises, dated \in BOOLEAN}
    \cup
    {MCRelease("headed", g, ix, jx, noise, FALSE, [TOP |-> "scheduled", MID |-> "ad_hoc"]) :
        g \in {"headed", "other", "unknown"},
        ix \in {"TOP", "MID"}, jx \in {"TOP", "MID"}, noise \in MCNoises}
MCReleases == ReleaseTable

ASSUME ReleasesLaidOut == \A r \in Releases : LaidOut(r)

-----------------------------------------------------------------------------
Studies == {"backtest", "trend", "momentum", "continuous", "release", "ledger"}

\* Every input for the study that moves, one for the others.
Input(name, S) == IF study = name THEN S ELSE {CHOOSE x \in S : TRUE}

ResearchInit ==
    /\ study \in Studies
    /\ path \in Input("backtest", Paths)
    /\ params \in Input("backtest", ParamSets)
    /\ forward \in Input("backtest", BOOLEAN)
    /\ tape \in Input("trend", Tapes)
    /\ market \in Input("momentum", MarketTapes)
    /\ release \in Input("release", Releases)
    /\ member \in Input("ledger", SUBSET Stocks)
    /\ BacktestInit /\ TrendInit /\ MomInit /\ ContInit /\ ParseInit /\ LedgerInit

ResearchNext ==
    /\ UNCHANGED study
    /\ \/ study = "backtest" /\ BacktestNext
          /\ UNCHANGED <<trendVars, momVars, contVars, parseVars, ledgerVars>>
       \/ study = "trend" /\ TrendNext
          /\ UNCHANGED <<btVars, momVars, contVars, parseVars, ledgerVars>>
       \/ study = "momentum" /\ MomNext
          /\ UNCHANGED <<btVars, trendVars, contVars, parseVars, ledgerVars>>
       \/ study = "continuous" /\ ContNext
          /\ UNCHANGED <<btVars, trendVars, momVars, parseVars, ledgerVars>>
       \/ study = "release" /\ ParseNext
          /\ UNCHANGED <<btVars, trendVars, momVars, contVars, ledgerVars>>
       \/ study = "ledger" /\ LedgerNext
          /\ UNCHANGED <<btVars, trendVars, momVars, contVars, parseVars>>

ResearchSpec == ResearchInit /\ [][ResearchNext]_<<study, btVars, trendVars, momVars, contVars, parseVars, ledgerVars>>
=============================================================================
