--------------------------- MODULE MCSpreadEngine ---------------------------
(***************************************************************************)
(* Small instances of SpreadEngine for TLC.  Threads of one kind are       *)
(* interchangeable: no definition tells two of them apart.                 *)
(***************************************************************************)
EXTENDS SpreadEngine, TLC

Symmetry == Permutations(Entrants) \cup Permutations(Exiters)
=============================================================================
