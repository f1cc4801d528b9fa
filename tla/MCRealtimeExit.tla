--------------------------- MODULE MCRealtimeExit ---------------------------
(***************************************************************************)
(* Small instances of RealtimeExit for TLC.  Wheels that monitors drive    *)
(* are interchangeable.                                                    *)
(***************************************************************************)
EXTENDS RealtimeExit, TLC

TickerSymmetry == Permutations(Tickers)
=============================================================================
