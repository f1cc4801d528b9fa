------------------------------ MODULE SimBook ------------------------------
(***************************************************************************)
(* What every single-position back-test of the repository promises about   *)
(* the days of its positions, whatever its prices and its rules: one       *)
(* position at a time, the next one opened strictly after the last one was *)
(* closed, each closed by the day its contract is settled, and only the    *)
(* end of the simulation leaves one open ("One position at a time (next    *)
(* entry must be strictly after the previous exit)",                       *)
(* research/engine.py:6-7).                                                *)
(***************************************************************************)
EXTENDS Naturals

CONSTANT NoPosition

VARIABLES
    live,       \* the open position [opened, due], or NoPosition
    lastClose,  \* the day the last one was closed, 0 before the first
    over        \* the simulation has ended

bookVars == <<live, lastClose, over>>

BookInit == live = NoPosition /\ lastClose = 0 /\ ~over

Open ==
    /\ ~over
    /\ live = NoPosition
    /\ live' \in [opened : Nat, due : Nat]
    /\ lastClose < live'.opened /\ live'.opened < live'.due
    /\ UNCHANGED <<lastClose, over>>

Close ==
    /\ ~over
    /\ live # NoPosition
    /\ lastClose' \in Nat
    /\ live.opened < lastClose' /\ lastClose' <= live.due
    /\ live' = NoPosition
    /\ UNCHANGED over

End ==
    /\ over' = TRUE
    /\ live' \in {live, NoPosition}
    /\ UNCHANGED lastClose

BookNext == Open \/ Close \/ End

BookSpec == BookInit /\ [][BookNext]_bookVars
=============================================================================
