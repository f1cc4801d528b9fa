---------------------------- MODULE RealtimeExit ----------------------------
(***************************************************************************)
(* The real-time exit on top of SpreadEngine: on_realtime_tick of the      *)
(* monitor's WheelStateMachine, driven by websocket threads, and the       *)
(* functions of core/scheduler.py that start and stop the monitor and that *)
(* refresh its copy of the position after a scheduled job.                 *)
(*                                                                         *)
(* A ticker stands for one WheelStateMachine that a monitor drives: it is  *)
(* an Exiter whose jobs start on a tick and run on the copied thresholds   *)
(* instead of on the row.  STOP_ON_STRIKE_TOUCH has its default, True.     *)
(***************************************************************************)
EXTENDS SpreadEngine, Sequences

CONSTANTS
    Tickers,    \* wheels that monitors drive
    MaxStarts   \* bound: monitors built

Scheduled == Workers \ Tickers

ASSUME TickerAssumption == Tickers \subseteq Exiters \ Entrants
ASSUME StartsAssumption == MaxStarts \in Nat

VARIABLES
    wsWheel,          \* core/scheduler.py _ws_wheel
    wsMonitor,        \* the wheel that _ws_monitor drives, NoWorker for None
    sockets,          \* open streams that deliver ticks to each wheel
    exitThresholds,   \* the spread whose strike and keys the wheel compares with
    breachFirstSeen,  \* no breach, one seen, or one of DEBOUNCE_SECONDS ago
    wheelState,       \* self.state of each ticker
    todo,             \* what a scheduled thread still does after its job
    seen,             \* the row a scheduled thread has read for the monitor
    starts            \* monitors built so far

monitorVars == <<wsWheel, wsMonitor, sockets, starts>>
wheelVars   == <<exitThresholds, breachFirstSeen, wheelState>>
threadVars  == <<todo, seen>>
rtVars      == <<monitorVars, wheelVars, threadVars>>
allVars     == <<vars, rtVars>>

Breaches == {"none", "seen", "ripe"}
Chores   == {"build", "arm", "load", "apply"}

\* _refresh_realtime_state and _start_ws_monitor
Refresh == <<"load", "apply">>
Start   == <<"build", "arm">>

-----------------------------------------------------------------------------
(* Scheduled jobs: the engine's, each followed by a refresh *)

Idle(w) == job[w].pc = "idle" /\ todo[w] = <<>>

NextChore(w) == todo' = [todo EXCEPT ![w] = Tail(@)]

\* Mutant: the entry job does not refresh the monitor.
RefreshAfterExits(w) ==
    todo' = IF job[w].pc # "idle" /\ job'[w].pc = "idle" /\ job[w].leg \notin EntryLegs
            THEN [todo EXCEPT ![w] = Refresh] ELSE todo

RefreshAfter(w) ==
    todo' = IF job[w].pc # "idle" /\ job'[w].pc = "idle"
            THEN [todo EXCEPT ![w] = Refresh] ELSE todo

ScheduledStep(w) ==
    /\ w \in Scheduled
    /\ todo[w] = <<>>
    /\ StartEntry(w) \/ StartExit(w) \/ Step(w)
    /\ RefreshAfter(w)
    /\ UNCHANGED <<monitorVars, wheelVars, seen>>

\* check_exits finds no open position.
NothingToExit(w) ==
    /\ w \in Scheduled \cap Exiters
    /\ Idle(w)
    /\ \E r \in LoadState : r.stage # "STAGE_1_CSP"
    /\ todo' = [todo EXCEPT ![w] = Refresh]
    /\ UNCHANGED <<vars, monitorVars, wheelVars, seen>>

-----------------------------------------------------------------------------
(* The monitor: _restart_ws_monitor, _stop_ws_monitor, _start_ws_monitor *)

\* Mutant: the old stream is dropped without being disconnected.
StopWsMonitorLeaking ==
    /\ wsWheel' = NoWorker
    /\ wsMonitor' = NoWorker
    /\ UNCHANGED sockets

\* Mutant: the globals keep the monitor that was stopped.
StopWsMonitorKeeping ==
    /\ sockets' = IF wsMonitor = NoWorker THEN sockets
                  ELSE [sockets EXCEPT ![wsMonitor] = @ - 1]
    /\ UNCHANGED <<wsWheel, wsMonitor>>

StopWsMonitor ==
    /\ sockets' = IF wsMonitor = NoWorker THEN sockets
                  ELSE [sockets EXCEPT ![wsMonitor] = @ - 1]
    /\ wsWheel' = NoWorker
    /\ wsMonitor' = NoWorker

\* At start-up, at 08:55, or in the hourly job that found the stream down,
\* which refreshes afterwards.
RestartWsMonitor(w) ==
    /\ w \in Scheduled \cap Exiters
    /\ job[w].pc = "idle"
    /\ todo[w] \in {<<>>, Refresh}
    /\ starts < MaxStarts
    /\ StopWsMonitor
    /\ todo' = [todo EXCEPT ![w] = Start \o @]
    /\ UNCHANGED <<vars, wheelVars, seen, starts>>

\* _ws_wheel = WheelStateMachine(), which loads its state.
BuildWheel(w) ==
    /\ todo[w] # <<>> /\ Head(todo[w]) = "build"
    /\ starts < MaxStarts
    /\ starts' = starts + 1
    /\ \E m \in Tickers, r \in LoadState :
        /\ sockets[m] = 0 /\ job[m].pc = "idle" /\ m # wsWheel
        /\ wsWheel' = m
        /\ wheelState' = [wheelState EXCEPT ![m] = r]
        /\ exitThresholds' = [exitThresholds EXCEPT ![m] = NoSpread]
        /\ breachFirstSeen' = [breachFirstSeen EXCEPT ![m] = "none"]
    /\ NextChore(w)
    /\ UNCHANGED <<vars, wsMonitor, sockets, seen>>

\* No token, or the start fails: hourly exits only.
StartFails(w) ==
    /\ todo[w] # <<>> /\ Head(todo[w]) \in {"build", "arm"}
    /\ todo' = [todo EXCEPT
            ![w] = SubSeq(@, IF Head(@) = "build" THEN 3 ELSE 2, Len(@))]
    /\ UNCHANGED <<vars, monitorVars, wheelVars, seen>>

\* refresh_exit_thresholds: an open position, or nothing to watch.
Threshold(r) == IF r.stage = "STAGE_1_CSP" THEN r.spread ELSE NoSpread

\* Thresholds, WebSocketMonitor(...), start(): the global _ws_wheel is read
\* again, and may be another thread's by now.
ArmMonitor(w) ==
    /\ todo[w] # <<>> /\ Head(todo[w]) = "arm"
    /\ wsWheel # NoWorker
    /\ exitThresholds' = [exitThresholds EXCEPT ![wsWheel] = Threshold(wheelState[wsWheel])]
    /\ wsMonitor' = wsWheel
    /\ sockets' = [sockets EXCEPT ![wsWheel] = @ + 1]
    /\ NextChore(w)
    /\ UNCHANGED <<vars, wsWheel, starts, breachFirstSeen, wheelState, seen>>

-----------------------------------------------------------------------------
(* _refresh_realtime_state *)

LoadForMonitor(w) ==
    /\ todo[w] = Refresh
    /\ IF wsWheel = NoWorker \/ wsMonitor = NoWorker
       THEN /\ todo' = [todo EXCEPT ![w] = <<>>]
            /\ UNCHANGED seen
       ELSE /\ \E r \in LoadState : seen' = [seen EXCEPT ![w] = r]
            /\ NextChore(w)
    /\ UNCHANGED <<vars, monitorVars, wheelVars>>

\* The state of a wheel becomes r; an exit that is running on it goes on with r.
Rebind(m, r) ==
    /\ wheelState' = [wheelState EXCEPT ![m] = r]
    /\ job' = [job EXCEPT ![m] = IF @.pc = "idle" THEN @ ELSE [@ EXCEPT !.mem = r]]

ApplyToMonitor(w) ==
    /\ todo[w] = <<"apply">>
    /\ IF wsWheel = NoWorker
       THEN UNCHANGED <<job, exitThresholds, wheelState>>
       ELSE /\ Rebind(wsWheel, seen[w])
            /\ exitThresholds' =
                 [exitThresholds EXCEPT ![wsWheel] = Threshold(seen[w])]
    /\ NextChore(w)
    /\ UNCHANGED <<dbVars, lock, brokerVars, jobs, monitorVars, breachFirstSeen, seen>>

-----------------------------------------------------------------------------
(* on_realtime_tick *)

\* A tick of the index reaches wheel m, which watches a position and is not in
\* the middle of an exit.
Tick(m) ==
    /\ sockets[m] > 0
    /\ exitThresholds[m] # NoSpread
    /\ job[m].pc = "idle"

TickAbove(m) ==
    /\ Tick(m)
    /\ breachFirstSeen[m] # "none"
    /\ breachFirstSeen' = [breachFirstSeen EXCEPT ![m] = "none"]
    /\ UNCHANGED <<vars, monitorVars, exitThresholds, wheelState, threadVars>>

TickBreach(m) ==
    /\ Tick(m)
    /\ breachFirstSeen[m] = "none"
    /\ breachFirstSeen' = [breachFirstSeen EXCEPT ![m] = "seen"]
    /\ UNCHANGED <<vars, monitorVars, exitThresholds, wheelState, threadVars>>

\* DEBOUNCE_SECONDS pass.
Ripen(m) ==
    /\ breachFirstSeen[m] = "seen"
    /\ breachFirstSeen' = [breachFirstSeen EXCEPT ![m] = "ripe"]
    /\ UNCHANGED <<vars, monitorVars, exitThresholds, wheelState, threadVars>>

\* The state is loaded again and must show an open position; what is closed is
\* the spread of the thresholds.
TickConfirmed(m) ==
    /\ Tick(m)
    /\ breachFirstSeen[m] = "ripe"
    /\ breachFirstSeen' = [breachFirstSeen EXCEPT ![m] = "none"]
    /\ \E r \in LoadState :
        /\ wheelState' = [wheelState EXCEPT ![m] = r]
        /\ IF r.stage # "STAGE_1_CSP"
           THEN UNCHANGED <<job, jobs>>
           ELSE /\ jobs < MaxJobs
                /\ jobs' = jobs + 1
                /\ Become(m, [job[m] EXCEPT
                      !.mem = r, !.spread = exitThresholds[m], !.pc = "decide"])
    /\ UNCHANGED <<dbVars, lock, brokerVars, monitorVars, exitThresholds, threadVars>>

\* Mutant: the exit of a tick sells the hedge first.
TickExitHedgeFirst(m) ==
    \/ job[m].pc = "decide" /\ job[m].spread \notin expired /\ Become(m, At(m, "place", "STC"))
       /\ UNCHANGED <<dbVars, lock, brokerVars, jobs>>
    \/ OrderStep(m) \/ NoExit(m)
    \/ job[m].mem.stage # "ABSENT" /\ (ArchiveExit(m) \/ SaveClosed(m))

\* _execute_exit on the keys of the thresholds.
TickExit(m) ==
    \/ TriggerExit(m) \/ OrderStep(m) \/ NoExit(m)
    \/ job[m].mem.stage # "ABSENT" /\ (ArchiveExit(m) \/ SaveClosed(m))

TickExitStep(m) ==
    /\ m \in Tickers
    /\ TickExit(m)
    /\ wheelState' =
         IF job[m].pc = "close"
         THEN [wheelState EXCEPT ![m] =
                 [stage |-> "CLOSED", spread |-> NoSpread, lifetime |-> @.lifetime + 1]]
         ELSE wheelState
    /\ UNCHANGED <<monitorVars, exitThresholds, breachFirstSeen, threadVars>>

\* A refresh has replaced the state by an empty one: nothing is archived, and
\* self.state[symbol] raises KeyError.
TickExitLost(m) ==
    /\ m \in Tickers
    /\ job[m].pc \in {"archive", "close"}
    /\ job[m].mem.stage = "ABSENT"
    /\ Finish(m)
    /\ UNCHANGED <<dbVars, lock, brokerVars, jobs, monitorVars, wheelVars, threadVars>>

-----------------------------------------------------------------------------

RealtimeInit ==
    /\ Init
    /\ wsWheel = NoWorker
    /\ wsMonitor = NoWorker
    /\ sockets = [m \in Tickers |-> 0]
    /\ exitThresholds = [m \in Tickers |-> NoSpread]
    /\ breachFirstSeen = [m \in Tickers |-> "none"]
    /\ wheelState = [m \in Tickers |-> AbsentRow]
    /\ todo = [w \in Scheduled |-> <<>>]
    /\ seen = [w \in Scheduled |-> AbsentRow]
    /\ starts = 0

RealtimeCrash ==
    /\ Crash
    /\ wsWheel' = NoWorker
    /\ wsMonitor' = NoWorker
    /\ sockets' = [m \in Tickers |-> 0]
    /\ exitThresholds' = [m \in Tickers |-> NoSpread]
    /\ breachFirstSeen' = [m \in Tickers |-> "none"]
    /\ wheelState' = [m \in Tickers |-> AbsentRow]
    /\ todo' = [w \in Scheduled |-> <<>>]
    /\ seen' = [w \in Scheduled |-> AbsentRow]
    /\ UNCHANGED starts

WorldStep == (BrokerStep \/ LoseSession) /\ UNCHANGED rtVars

Chore(w) ==
    \/ BuildWheel(w) \/ StartFails(w) \/ ArmMonitor(w)
    \/ LoadForMonitor(w) \/ ApplyToMonitor(w)

MonitorTick(m) == TickAbove(m) \/ TickBreach(m) \/ Ripen(m) \/ TickConfirmed(m)

RealtimeNext ==
    \/ \E w \in Scheduled :
        ScheduledStep(w) \/ NothingToExit(w) \/ RestartWsMonitor(w) \/ Chore(w)
    \/ \E m \in Tickers : MonitorTick(m) \/ TickExitStep(m) \/ TickExitLost(m)
    \/ WorldStep
    \/ RealtimeCrash

RealtimeSpec == RealtimeInit /\ [][RealtimeNext]_allVars

-----------------------------------------------------------------------------
(* Properties *)

RealtimeTypeOK ==
    /\ TypeOK
    /\ wsWheel \in Tickers \cup {NoWorker}
    /\ wsMonitor \in Tickers \cup {NoWorker}
    /\ sockets \in [Tickers -> Nat]
    /\ exitThresholds \in [Tickers -> Spreads \cup {NoSpread}]
    /\ breachFirstSeen \in [Tickers -> Breaches]
    /\ wheelState \in [Tickers -> Rows]
    /\ todo \in [Scheduled -> Seq(Chores)]
    /\ seen \in [Scheduled -> Rows]
    /\ starts \in Nat

\* One stream at a time delivers ticks (_stop_ws_monitor, scheduler.py:59-68):
\* as long as one thread starts monitors, no restart leaves the old stream
\* running next to the new one.
OneStream ==
    /\ \A m \in Tickers : sockets[m] = (IF m = wsMonitor THEN 1 ELSE 0)
    /\ wsMonitor \in {wsWheel, NoWorker}

\* "Refresh the WS monitor's thresholds and subscriptions after position
\* changes" (scheduler.py:142): when no scheduled job is running, a monitor
\* that is up watches the open position, unless its last load failed.
OpenPositionWatched ==
    /\ \A w \in Scheduled : Idle(w)
    /\ wsMonitor # NoWorker
    /\ row.stage = "STAGE_1_CSP"
    => \/ exitThresholds[wsMonitor] = row.spread
       \/ wheelState[wsMonitor] = AbsentRow

\* The spread a tick starts to close is the one in the row it has just loaded
\* (wheel_strategy.py:1248-1273).
TickExitsOpenSpread ==
    [][\A m \in Tickers :
        job[m].pc = "idle" /\ job'[m].pc = "decide" =>
            job'[m].spread = job'[m].mem.spread]_allVars
=============================================================================
