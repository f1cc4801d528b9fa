----------------------------- MODULE WatchedKeys -----------------------------
(***************************************************************************)
(* core/ws_monitor.py: the websocket monitor keeps the instrument keys the *)
(* program wants (desired), those it believes subscribed (mirror) and,     *)
(* behind the SDK's streamer, those the feed sends (wire).  A scheduler    *)
(* job and the SDK's own thread, which runs the callbacks, apply the       *)
(* difference of the first two; no lock is held.                           *)
(***************************************************************************)
EXTENDS Naturals, FiniteSets

CONSTANTS
    Jobs,            \* threads that call update_subscriptions
    Sdk,             \* the streamer's thread
    Keys,
    KeyUpdates,      \* bound on the updates of a job
    Opens            \* bound on the opens of the socket

VARIABLES
    desired, mirror, wire,
    socket,          \* the connection itself
    connected,       \* what the callbacks have told
    step,            \* function: thread -> where it is
    added, removed,  \* function: thread -> its differences
    updates, opens,  \* bounds
    disturbed        \* history: since the last open something failed, or two threads met

wsVars == <<desired, mirror, wire, socket, connected, step, added, removed,
            updates, opens, disturbed>>
setVars == <<desired, mirror, wire>>
bounds  == <<updates, opens>>

Threads == Jobs \cup {Sdk}

ASSUME WatchedAssumption == Sdk \notin Jobs

Alone(t) == \A u \in Threads \ {t} : step[u] = "idle"

Goto(t, s) == step' = [step EXCEPT ![t] = s]

-----------------------------------------------------------------------------
(* The connection: external, as the streamer shows it. *)

\* The feed starts from nothing on every connection.
OpenSocket ==
    /\ ~socket /\ ~connected /\ step[Sdk] = "idle" /\ opens < Opens
    /\ socket' = TRUE /\ connected' = TRUE      \* _on_open, its first line
    /\ opens' = opens + 1
    /\ Goto(Sdk, "reset")
    /\ disturbed' = ~Alone(Sdk)
    /\ UNCHANGED <<setVars, added, removed, updates>>

Drop ==
    /\ socket
    /\ socket' = FALSE /\ wire' = {}
    /\ UNCHANGED <<desired, mirror, connected, step, added, removed, bounds, disturbed>>

\* _on_close, _on_reconnect_stopped and stop
OnClose ==
    /\ ~socket /\ connected /\ step[Sdk] = "idle"
    /\ connected' = FALSE
    /\ UNCHANGED <<setVars, socket, step, added, removed, bounds, disturbed>>

-----------------------------------------------------------------------------
\* Mutant: what was subscribed on the old connection is taken for subscribed.
OnOpenKeeping ==
    /\ step[Sdk] = "reset"
    /\ disturbed' = (disturbed \/ ~Alone(Sdk))
    /\ Goto(Sdk, "diff")
    /\ UNCHANGED <<setVars, socket, connected, added, removed, bounds>>

\* _on_open: subscribe from scratch.
OnOpen ==
    /\ step[Sdk] = "reset"
    /\ mirror' = {}
    /\ disturbed' = (disturbed \/ ~Alone(Sdk))
    /\ Goto(Sdk, "diff")
    /\ UNCHANGED <<desired, wire, socket, connected, added, removed, bounds>>

\* update_subscriptions: the wish is recorded ...
Update(t, keys) ==
    /\ step[t] = "idle" /\ updates[t] < KeyUpdates
    /\ desired' = keys
    /\ updates' = [updates EXCEPT ![t] = @ + 1]
    /\ disturbed' = (disturbed \/ ~Alone(t))
    /\ Goto(t, "check")
    /\ UNCHANGED <<mirror, wire, socket, connected, added, removed, opens>>

\* ... and applied if the socket is up.
CheckUp(t) ==
    /\ step[t] = "check"
    /\ Goto(t, IF connected THEN "diff" ELSE "idle")
    /\ disturbed' = (disturbed \/ ~Alone(t))
    /\ UNCHANGED <<setVars, socket, connected, added, removed, bounds>>

\* _apply_subscriptions
Diff(t) ==
    /\ step[t] = "diff"
    /\ added'   = [added EXCEPT ![t] = desired \ mirror]
    /\ removed' = [removed EXCEPT ![t] = mirror \ desired]
    /\ disturbed' = (disturbed \/ ~Alone(t))
    /\ Goto(t, "unsubscribe")
    /\ UNCHANGED <<setVars, socket, connected, bounds>>

\* The streamer raises when the connection is gone, and may raise at any time.
SendRaises(t) ==
    /\ \/ step[t] = "unsubscribe" /\ removed[t] # {}
       \/ step[t] = "subscribe" /\ added[t] # {}
    /\ Goto(t, "idle")
    /\ disturbed' = TRUE
    /\ UNCHANGED <<setVars, socket, connected, added, removed, bounds>>

Unsubscribe(t) ==
    /\ step[t] = "unsubscribe" /\ (removed[t] # {} => socket)
    /\ wire' = wire \ removed[t]
    /\ Goto(t, "subscribe")
    /\ disturbed' = (disturbed \/ ~Alone(t))
    /\ UNCHANGED <<desired, mirror, socket, connected, added, removed, bounds>>

Subscribe(t) ==
    /\ step[t] = "subscribe" /\ (added[t] # {} => socket)
    /\ wire' = wire \cup added[t]
    /\ Goto(t, "store")
    /\ disturbed' = (disturbed \/ ~Alone(t))
    /\ UNCHANGED <<desired, mirror, socket, connected, added, removed, bounds>>

\* The wish of this moment, not the one the difference was taken from.
Store(t) ==
    /\ step[t] = "store"
    /\ mirror' = desired
    /\ Goto(t, "idle")
    /\ disturbed' = (disturbed \/ ~Alone(t))
    /\ UNCHANGED <<desired, wire, socket, connected, added, removed, bounds>>

WatchInit ==
    /\ desired = {} /\ mirror = {} /\ wire = {}
    /\ socket = FALSE /\ connected = FALSE
    /\ step = [t \in Threads |-> "idle"]
    /\ added = [t \in Threads |-> {}] /\ removed = [t \in Threads |-> {}]
    /\ updates = [t \in Jobs |-> 0] /\ opens = 0
    /\ disturbed = FALSE

WatchNext ==
    \/ OpenSocket \/ Drop \/ OnClose \/ OnOpen
    \/ \E t \in Jobs : \/ \E keys \in SUBSET Keys : Update(t, keys)
                       \/ CheckUp(t)
    \/ \E t \in Threads : Diff(t) \/ SendRaises(t) \/ Unsubscribe(t) \/ Subscribe(t) \/ Store(t)

WatchSpec == WatchInit /\ [][WatchNext]_wsVars

-----------------------------------------------------------------------------
AtRest == connected /\ socket /\ \A t \in Threads : step[t] = "idle"

(* A reconnect repairs the subscriptions whatever happened before it: when *)
(* since the last open nothing raised and no two threads met, the feed     *)
(* sends exactly the keys wanted, those of positions opened while it was   *)
(* down included, and no others (ws_monitor.py:86, "resubscribe from       *)
(* scratch").                                                              *)
ReconnectRepairs == (AtRest /\ ~disturbed) => wire = desired

(* scheduler.py:117: "Queued now, applied by the monitor once the socket's *)
(* open event fires": at rest the feed never lacks a key that the monitor  *)
(* believes it has subscribed.                                             *)
MirrorIsOnWire == AtRest => mirror \subseteq wire
=============================================================================
