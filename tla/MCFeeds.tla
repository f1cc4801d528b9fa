------------------------------ MODULE MCFeeds ------------------------------
(***************************************************************************)
(* Four components that bring data in and share nothing, checked in one    *)
(* run: `feed' names the one that moves.                                   *)
(***************************************************************************)
EXTENDS DayFetch, WatchedKeys, InstrumentMaster, SmartMoney

VARIABLE feed

-----------------------------------------------------------------------------
(* DayFetch *)

MCFalse == [s \in {"mcx", "nse"} |-> IF s = "mcx" THEN 1 ELSE 2]

-----------------------------------------------------------------------------
(* InstrumentMaster *)

MCListed == [t \in 0..5 |-> IF t < 2 THEN {25, 65} ELSE {65}]

-----------------------------------------------------------------------------
(* SmartMoney *)

MCShares == [c \in {"A", "B"} |-> IF c = "A" THEN 1000 ELSE 2000]
D(i, c, n, s, q) == [id |-> i, company |-> c, inst |-> n, side |-> s, qty |-> q]
MCDeals == [l \in {"bulk", "block"} |->
   IF l = "bulk" THEN {D(1, "A", TRUE, "BUY", 4), D(2, "A", FALSE, "BUY", 40), D(3, "B", TRUE, "BUY", 11), D(4, "C", TRUE, "BUY", 90)}
   ELSE {D(5, "A", TRUE, "BUY", 4), D(6, "B", TRUE, "SELL", 3)}]

-----------------------------------------------------------------------------
FeedsInit ==
    /\ feed \in {"fetch", "watch", "master", "smart"}
    /\ source \in IF feed = "fetch" THEN {"mcx", "nse"} ELSE {"mcx"}
    /\ FetchInit /\ WatchInit /\ MasterInit /\ SmartInit

FeedsNext ==
    /\ UNCHANGED feed
    /\ \/ feed = "fetch" /\ FetchNext
          /\ UNCHANGED <<wsVars, masterVars, smVars>>
       \/ feed = "watch" /\ WatchNext
          /\ UNCHANGED <<fetchVars, masterVars, smVars>>
       \/ feed = "master" /\ MasterNext
          /\ UNCHANGED <<fetchVars, wsVars, smVars>>
       \/ feed = "smart" /\ SmartNext
          /\ UNCHANGED <<fetchVars, wsVars, masterVars>>

FeedsSpec == FeedsInit /\ [][FeedsNext]_<<feed, fetchVars, wsVars, masterVars, smVars>>
=============================================================================
