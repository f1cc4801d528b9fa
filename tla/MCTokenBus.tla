----------------------------- MODULE MCTokenBus -----------------------------
(***************************************************************************)
(* Small instances of TokenBus: three threads, of one bot or the third on  *)
(* a second host.                                                          *)
(***************************************************************************)
EXTENDS TokenBus

CONSTANTS c1, c2, c3, h1, h2

\* All threads belong to one bot.
OneHost == [c \in Callers |-> h1]

Placement == [c \in Callers |-> IF c = c3 THEN h2 ELSE h1]
=============================================================================
