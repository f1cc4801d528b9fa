----------------------------- MODULE HedgedBook -----------------------------
(***************************************************************************)
(* What the strategy promises about the broker account, whatever its       *)
(* threads do and however often the process dies: per spread, a short put  *)
(* is only ever added behind a hedge that is already held, and a hedge is  *)
(* only ever dropped when no short put needs it ("never naked short",      *)
(* strategies/wheel_strategy.py:1058 and 1288-1293).                       *)
(*                                                                         *)
(* hedge[s] and sold[s] are the net quantities, in units of one entry, of  *)
(* the long leg held and of the short leg owed on spread s.  sold may go   *)
(* below zero: buying a put back twice leaves a long put, which is a       *)
(* bookkeeping error but no naked exposure.                                *)
(***************************************************************************)
EXTENDS Integers

CONSTANT Spreads

VARIABLES hedge, sold

bookVars == <<hedge, sold>>

\* Net long puts on spread s: what an adverse move leaves covered.
Margin(s) == hedge[s] - sold[s]

BookInit ==
    /\ hedge = [s \in Spreads |-> 0]
    /\ sold = [s \in Spreads |-> 0]

BuyHedge(s) ==
    /\ hedge' = [hedge EXCEPT ![s] = @ + 1]
    /\ UNCHANGED sold

SellShort(s) ==
    /\ Margin(s) >= 1
    /\ sold' = [sold EXCEPT ![s] = @ + 1]
    /\ UNCHANGED hedge

CoverShort(s) ==
    /\ sold' = [sold EXCEPT ![s] = @ - 1]
    /\ UNCHANGED hedge

SellHedge(s) ==
    /\ Margin(s) >= 1
    /\ hedge' = [hedge EXCEPT ![s] = @ - 1]
    /\ UNCHANGED sold

\* Index options are cash settled: both legs leave the account at expiry.
CashSettle(s) ==
    /\ hedge' = [hedge EXCEPT ![s] = 0]
    /\ sold' = [sold EXCEPT ![s] = 0]

BookNext ==
    \E s \in Spreads :
        \/ BuyHedge(s)
        \/ SellShort(s)
        \/ CoverShort(s)
        \/ SellHedge(s)
        \/ CashSettle(s)

BookSpec == BookInit /\ [][BookNext]_bookVars

\* No spread ever owes more short puts than it holds hedges
\* (strategies/wheel_strategy.py:1058, "never naked short").
NeverNaked == \A s \in Spreads : Margin(s) >= 0

=============================================================================
