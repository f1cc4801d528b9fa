------------------------- MODULE RealtimeExitProofs -------------------------
(***************************************************************************)
(* The margin argument of SpreadEngineProofs carried over to the real-time *)
(* exit: a tick, a refresh that replaces the state under a running exit,   *)
(* and a restart of the monitor add no claim on the hedge.  As long as one *)
(* thread starts monitors, one stream is open, and it watches the open     *)
(* position.  Entries stay exclusive, the composed system implements the   *)
(* book of the engine, and each of its jobs ends after a bounded number of *)
(* steps.                                                                  *)
(***************************************************************************)
EXTENDS RealtimeExit, SpreadEngineProofs, SequenceTheorems

\* The monitor the globals name has an open stream.
RealtimeOK ==
    /\ WellFormed
    /\ RealtimeTypeOK
    /\ wsMonitor # NoWorker => sockets[wsMonitor] >= 1

LEMMA TickersAreWorkers == Tickers \subseteq Workers /\ Scheduled \subseteq Workers
  BY TickerAssumption DEF Workers, Scheduled

LEMMA RowsTyped ==
    ASSUME TypeOK
    PROVE  /\ LoadState \subseteq Rows
           /\ AbsentRow \in Rows
           /\ \A r \in Rows : Threshold(r) \in Spreads \cup {NoSpread}
  BY StoreTyped, LiteralsTyped DEF Threshold, Rows

LEMMA ChoresTyped ==
    /\ Refresh \in Seq(Chores)
    /\ Start \in Seq(Chores)
    /\ <<>> \in Seq(Chores)
  BY DEF Refresh, Start, Chores

\* What a scheduled thread still has to do is a sequence of chores.
LEMMA TodoTyped ==
    ASSUME RealtimeTypeOK, NEW w \in Scheduled, todo[w] # <<>>
    PROVE  /\ Tail(todo[w]) \in Seq(Chores)
           /\ Start \o todo[w] \in Seq(Chores)
           /\ \A k \in {2, 3} : SubSeq(todo[w], k, Len(todo[w])) \in Seq(Chores)
  <1>1. todo[w] \in Seq(Chores) /\ Len(todo[w]) \in Nat
    BY DEF RealtimeTypeOK
  <1>2. Tail(todo[w]) \in Seq(Chores)
    BY <1>1
  <1>3. Start \o todo[w] \in Seq(Chores)
    BY <1>1, ChoresTyped
  <1>4. ASSUME NEW k \in {2, 3}
        PROVE  SubSeq(todo[w], k, Len(todo[w])) \in Seq(Chores)
    BY <1>1
  <1> QED BY <1>2, <1>3, <1>4

\* Steps of the engine leave the monitor's variables alone, or only extend what
\* the thread has to do.
LEMMA EngineKeepsWellFormed ==
    ASSUME WellFormed, [Next]_vars
    PROVE  WellFormed'
  <1>1. ASSUME NEW w \in Workers, StartEntry(w) \/ StartExit(w) \/ Step(w)
        PROVE  WellFormed'
    BY <1>1, WellFormedOrderStep, WellFormedEntryStep, WellFormedExitStep DEF Step
  <1>2. CASE BrokerStep
    BY <1>2, WellFormedBrokerStep
  <1>3. CASE Crash
    BY <1>3, WellFormedCrash
  <1>4. CASE LoseSession \/ UNCHANGED vars
    BY <1>4 DEF LoseSession, dbVars, brokerVars, vars, WellFormed, TypeOK
  <1> QED BY <1>1, <1>2, <1>3, <1>4 DEF Next

\* The steps that are the engine's own.
LEMMA EngineSteps ==
    ASSUME RealtimeOK
    PROVE  /\ \A w \in Scheduled : ScheduledStep(w) => Next
           /\ \A m \in Tickers : TickExitStep(m) => Next
           /\ WorldStep => Next
           /\ RealtimeCrash => Next
  <1>1. ASSUME NEW w \in Scheduled, ScheduledStep(w)
        PROVE  Next
    BY <1>1, TickersAreWorkers DEF ScheduledStep, Next
  <1>2. ASSUME NEW m \in Tickers, TickExitStep(m)
        PROVE  Next
    <2>1. Step(m)
      BY <1>2 DEF TickExitStep, TickExit, Step, ExitStep
    <2> QED BY <2>1, TickersAreWorkers DEF Next
  <1>3. WorldStep => Next
    BY DEF WorldStep, Next
  <1>4. RealtimeCrash => Next
    BY DEF RealtimeCrash, Next
  <1> QED BY <1>1, <1>2, <1>3, <1>4

\* A confirmed tick starts a job that claims nothing.
LEMMA TickConfirmedMoves ==
    ASSUME RealtimeOK, NEW m \in Tickers, NEW r \in Rows, job[m].pc = "idle",
           exitThresholds[m] # NoSpread,
           NEW j, j = [job[m] EXCEPT !.mem = r, !.spread = exitThresholds[m], !.pc = "decide"]
    PROVE  /\ JobOK(j) /\ j.ord = "none"
           /\ \A s : ~Claims(j, s)
  <1>1. job[m] \in Jobs /\ JobOK(job[m]) /\ exitThresholds[m] \in Spreads
    BY TickersAreWorkers DEF RealtimeOK, RealtimeTypeOK, WellFormed, JobOK
  <1>2. job[m].ord = "none" /\ "decide" \in Pcs
    BY <1>1 DEF JobOK, Pcs
  <1>3. j \in Jobs /\ j.ord = "none" /\ j.pc = "decide" /\ j.spread \in Spreads
    BY <1>1, <1>2 DEF Jobs
  <1> QED BY <1>3 DEF JobOK, Claims

\* A refresh replaces the state of a running job and nothing else of it.
LEMMA RebindMoves ==
    ASSUME RealtimeOK, NEW m \in Tickers, NEW r \in Rows,
           NEW j, j = IF job[m].pc = "idle" THEN job[m] ELSE [job[m] EXCEPT !.mem = r]
    PROVE  /\ JobOK(j)
           /\ j.pc = job[m].pc /\ j.ord = job[m].ord /\ j.spread = job[m].spread
           /\ \A s : Claims(j, s) <=> Claims(job[m], s)
  <1>1. job[m] \in Jobs /\ JobOK(job[m])
    BY TickersAreWorkers DEF RealtimeOK, WellFormed, JobOK
  <1>2. /\ j \in Jobs /\ j.pc = job[m].pc /\ j.ord = job[m].ord
        /\ j.spread = job[m].spread /\ j.leg = job[m].leg
    BY <1>1 DEF Jobs
  <1> QED BY <1>1, <1>2 DEF JobOK, Claims

\* The steps the monitor adds, as steps of one job.
LEMMA MonitorJobSteps ==
    ASSUME RealtimeOK,
           \/ \E w \in Scheduled : NothingToExit(w) \/ RestartWsMonitor(w) \/ Chore(w)
           \/ \E m \in Tickers : MonitorTick(m) \/ TickExitLost(m)
    PROVE  /\ UNCHANGED <<dbVars, lock, brokerVars>>
           /\ jobs' \in Nat
           /\ \/ UNCHANGED job
              \/ \E m \in Tickers : \E j :
                   /\ Become(m, j)
                   /\ JobOK(j)
                   /\ j.ord = "none" \/ (/\ j.pc = job[m].pc
                                         /\ j.ord = job[m].ord
                                         /\ j.spread = job[m].spread)
                   /\ \A s : Claims(j, s) => Claims(job[m], s)
  <1> USE DEF RealtimeOK, vars, dbVars, brokerVars
  <1>0. jobs \in Nat
    BY DEF RealtimeTypeOK, TypeOK
  <1>1. ASSUME NEW w \in Scheduled,
               \/ NothingToExit(w) \/ RestartWsMonitor(w)
               \/ BuildWheel(w) \/ StartFails(w) \/ ArmMonitor(w) \/ LoadForMonitor(w)
        PROVE  UNCHANGED <<dbVars, lock, brokerVars, jobs, job>>
    BY <1>1 DEF NothingToExit, RestartWsMonitor, BuildWheel, StartFails, ArmMonitor,
                LoadForMonitor
  <1>2. ASSUME NEW m \in Tickers, TickAbove(m) \/ TickBreach(m) \/ Ripen(m)
        PROVE  UNCHANGED <<dbVars, lock, brokerVars, jobs, job>>
    BY <1>2 DEF TickAbove, TickBreach, Ripen
  <1>3. ASSUME NEW w \in Scheduled, ApplyToMonitor(w), wsWheel # NoWorker
        PROVE  /\ UNCHANGED <<dbVars, lock, brokerVars, jobs>>
               /\ \E m \in Tickers : \E j :
                   /\ Become(m, j) /\ JobOK(j)
                   /\ j.pc = job[m].pc /\ j.ord = job[m].ord /\ j.spread = job[m].spread
                   /\ \A s : Claims(j, s) => Claims(job[m], s)
    <2> DEFINE m == wsWheel
               j == IF job[m].pc = "idle" THEN job[m] ELSE [job[m] EXCEPT !.mem = seen[w]]
    <2>1. m \in Tickers /\ seen[w] \in Rows
      BY <1>3 DEF RealtimeTypeOK
    <2>2. Become(m, j)
      BY <1>3, <2>1 DEF ApplyToMonitor, Rebind, Become
    <2>3. /\ JobOK(j) /\ j.pc = job[m].pc /\ j.ord = job[m].ord /\ j.spread = job[m].spread
          /\ \A s : Claims(j, s) => Claims(job[m], s)
      BY <2>1, RebindMoves
    <2>4. UNCHANGED <<dbVars, lock, brokerVars, jobs>>
      BY <1>3 DEF ApplyToMonitor
    <2> HIDE DEF j
    <2> QED BY <2>1, <2>2, <2>3, <2>4
  <1>4. ASSUME NEW w \in Scheduled, ApplyToMonitor(w), wsWheel = NoWorker
        PROVE  UNCHANGED <<dbVars, lock, brokerVars, jobs, job>>
    BY <1>4 DEF ApplyToMonitor
  <1>5. ASSUME NEW m \in Tickers, TickConfirmed(m)
        PROVE  /\ UNCHANGED <<dbVars, lock, brokerVars>> /\ jobs' \in Nat
               /\ \/ UNCHANGED job
                  \/ \E j : Become(m, j) /\ JobOK(j) /\ j.ord = "none"
                            /\ \A s : ~Claims(j, s)
    <2>1. PICK r \in LoadState :
            \/ r.stage # "STAGE_1_CSP" /\ UNCHANGED <<job, jobs>>
            \/ /\ jobs' = jobs + 1
               /\ Become(m, [job[m] EXCEPT
                      !.mem = r, !.spread = exitThresholds[m], !.pc = "decide"])
      BY <1>5 DEF TickConfirmed
    <2>2. r \in Rows /\ job[m].pc = "idle" /\ exitThresholds[m] # NoSpread
      BY <1>5, RowsTyped DEF TickConfirmed, Tick, RealtimeTypeOK
    <2>3. UNCHANGED <<dbVars, lock, brokerVars>>
      BY <1>5 DEF TickConfirmed
    <2> DEFINE j == [job[m] EXCEPT !.mem = r, !.spread = exitThresholds[m], !.pc = "decide"]
    <2>4. JobOK(j) /\ j.ord = "none" /\ \A s : ~Claims(j, s)
      BY <2>2, TickConfirmedMoves
    <2> HIDE DEF j
    <2>5. \/ UNCHANGED <<job, jobs>>
          \/ jobs' = jobs + 1 /\ Become(m, j)
      BY <2>1 DEF j
    <2> QED BY <1>0, <2>3, <2>4, <2>5
  <1>6. ASSUME NEW m \in Tickers, TickExitLost(m)
        PROVE  /\ UNCHANGED <<dbVars, lock, brokerVars, jobs>>
               /\ Become(m, IdleJob) /\ JobOK(IdleJob) /\ IdleJob.ord = "none"
               /\ \A s : ~Claims(IdleJob, s)
    <2>1. IdleJob \in Jobs /\ JobOK(IdleJob)
      BY LiteralsTyped DEF JobOK, IdleJob
    <2> QED BY <1>6, <2>1 DEF TickExitLost, Finish, IdleJob, Claims, SellLegs
  <1> QED
    BY <1>0, <1>1, <1>2, <1>3, <1>4, <1>5, <1>6 DEF Chore, MonitorTick

LEMMA MonitorKeepsWellFormed ==
    ASSUME RealtimeOK,
           \/ \E w \in Scheduled : NothingToExit(w) \/ RestartWsMonitor(w) \/ Chore(w)
           \/ \E m \in Tickers : MonitorTick(m) \/ TickExitLost(m)
    PROVE  WellFormed'
  <1>1. /\ UNCHANGED <<dbVars, lock, brokerVars>>
        /\ jobs' \in Nat
        /\ \/ UNCHANGED job
           \/ \E m \in Tickers : \E j : Become(m, j) /\ JobOK(j)
    BY MonitorJobSteps
  <1>2. job' \in [Workers -> Jobs] /\ \A v \in Workers : JobOK(job'[v])
    BY <1>1, BecomeOK, TickersAreWorkers DEF RealtimeOK, WellFormed, TypeOK
  <1> QED BY <1>1, <1>2 DEF RealtimeOK, WellFormed, TypeOK, dbVars, brokerVars

-----------------------------------------------------------------------------
(* Types *)

MonitorTyped ==
    /\ wsWheel \in Tickers \cup {NoWorker}
    /\ wsMonitor \in Tickers \cup {NoWorker}
    /\ sockets \in [Tickers -> Nat]
    /\ starts \in Nat
    /\ wsMonitor # NoWorker => sockets[wsMonitor] >= 1

WheelTyped ==
    /\ exitThresholds \in [Tickers -> Spreads \cup {NoSpread}]
    /\ breachFirstSeen \in [Tickers -> Breaches]
    /\ wheelState \in [Tickers -> Rows]

ThreadTyped ==
    /\ todo \in [Scheduled -> Seq(Chores)]
    /\ seen \in [Scheduled -> Rows]

LEMMA RealtimeParts ==
    RealtimeOK <=> WellFormed /\ MonitorTyped /\ WheelTyped /\ ThreadTyped
  BY DEF RealtimeOK, RealtimeTypeOK, WellFormed, MonitorTyped, WheelTyped, ThreadTyped

LEMMA MonitorStaysTyped ==
    ASSUME RealtimeOK, [RealtimeNext]_allVars
    PROVE  MonitorTyped'
  <1> USE RealtimeParts, StartsAssumption
          DEF MonitorTyped, monitorVars, rtVars, allVars
  <1>1. ASSUME NEW w \in Scheduled, RestartWsMonitor(w)
        PROVE  MonitorTyped'
    BY <1>1, WorkerAssumption, TickersAreWorkers DEF RestartWsMonitor, StopWsMonitor
  <1>2. ASSUME NEW w \in Scheduled, BuildWheel(w)
        PROVE  MonitorTyped'
    BY <1>2 DEF BuildWheel
  <1>3. ASSUME NEW w \in Scheduled, ArmMonitor(w)
        PROVE  MonitorTyped'
    BY <1>3 DEF ArmMonitor
  <1>4. ASSUME NEW w \in Scheduled,
               \/ ScheduledStep(w) \/ NothingToExit(w)
               \/ StartFails(w) \/ LoadForMonitor(w) \/ ApplyToMonitor(w)
        PROVE  UNCHANGED monitorVars
    BY <1>4 DEF ScheduledStep, NothingToExit, StartFails, LoadForMonitor, ApplyToMonitor
  <1>5. ASSUME NEW m \in Tickers, MonitorTick(m) \/ TickExitStep(m) \/ TickExitLost(m)
        PROVE  UNCHANGED monitorVars
    BY <1>5 DEF MonitorTick, TickAbove, TickBreach, Ripen, TickConfirmed, TickExitStep,
                TickExitLost
  <1>6. CASE WorldStep \/ UNCHANGED allVars
    BY <1>6 DEF WorldStep
  <1>7. CASE RealtimeCrash
    BY <1>7, WorkerAssumption, TickersAreWorkers DEF RealtimeCrash
  <1> QED
    BY <1>1, <1>2, <1>3, <1>4, <1>5, <1>6, <1>7 DEF RealtimeNext, Chore

LEMMA WheelStaysTyped ==
    ASSUME RealtimeOK, [RealtimeNext]_allVars
    PROVE  WheelTyped'
  <1> USE RealtimeParts DEF WheelTyped, wheelVars, rtVars, allVars, Breaches
  <1>0. /\ TypeOK /\ wsWheel \in Tickers \cup {NoWorker}
        /\ \A w \in Scheduled : seen[w] \in Rows
        /\ \A r \in Rows : Threshold(r) \in Spreads \cup {NoSpread}
        /\ LoadState \subseteq Rows
    BY RowsTyped DEF WellFormed, MonitorTyped, ThreadTyped
  <1>1. ASSUME NEW w \in Scheduled, BuildWheel(w)
        PROVE  WheelTyped'
    BY <1>0, <1>1 DEF BuildWheel
  <1>2. ASSUME NEW w \in Scheduled, ArmMonitor(w)
        PROVE  WheelTyped'
    BY <1>0, <1>2 DEF ArmMonitor
  <1>3. ASSUME NEW w \in Scheduled, ApplyToMonitor(w)
        PROVE  WheelTyped'
    BY <1>0, <1>3 DEF ApplyToMonitor, Rebind
  <1>4. ASSUME NEW w \in Scheduled,
               \/ ScheduledStep(w) \/ NothingToExit(w) \/ RestartWsMonitor(w)
               \/ StartFails(w) \/ LoadForMonitor(w)
        PROVE  UNCHANGED wheelVars
    BY <1>4 DEF ScheduledStep, NothingToExit, RestartWsMonitor, StartFails, LoadForMonitor
  <1>5. ASSUME NEW m \in Tickers, MonitorTick(m)
        PROVE  WheelTyped'
    <2>1. CASE TickAbove(m) \/ TickBreach(m) \/ Ripen(m)
      BY <2>1 DEF TickAbove, TickBreach, Ripen
    <2>2. CASE TickConfirmed(m)
      BY <1>0, <2>2 DEF TickConfirmed
    <2> QED BY <1>5, <2>1, <2>2 DEF MonitorTick
  <1>6. ASSUME NEW m \in Tickers, TickExitStep(m)
        PROVE  WheelTyped'
    <2>1. [stage |-> "CLOSED", spread |-> NoSpread, lifetime |-> wheelState[m].lifetime + 1]
            \in Rows
      BY DEF Rows, Stages
    <2> QED BY <1>6, <2>1 DEF TickExitStep
  <1>7. ASSUME NEW m \in Tickers, TickExitLost(m)
        PROVE  UNCHANGED wheelVars
    BY <1>7 DEF TickExitLost
  <1>8. CASE WorldStep \/ UNCHANGED allVars
    BY <1>8 DEF WorldStep
  <1>9. CASE RealtimeCrash
    BY <1>0, <1>9, RowsTyped DEF RealtimeCrash
  <1> QED
    BY <1>1, <1>2, <1>3, <1>4, <1>5, <1>6, <1>7, <1>8, <1>9 DEF RealtimeNext, Chore

LEMMA ThreadStaysTyped ==
    ASSUME RealtimeOK, [RealtimeNext]_allVars
    PROVE  ThreadTyped'
  <1> USE RealtimeParts, ChoresTyped DEF ThreadTyped, threadVars, rtVars, allVars
  <1>0. TypeOK /\ LoadState \subseteq Rows /\ AbsentRow \in Rows /\ RealtimeTypeOK
    BY RowsTyped DEF WellFormed, RealtimeOK
  <1>1. ASSUME NEW w \in Scheduled,
               ScheduledStep(w) \/ NothingToExit(w)
        PROVE  ThreadTyped'
    BY <1>1 DEF ScheduledStep, RefreshAfter, NothingToExit
  <1>2. ASSUME NEW w \in Scheduled, RestartWsMonitor(w)
        PROVE  ThreadTyped'
    <2>1. Start \o todo[w] \in Seq(Chores)
      OBVIOUS
    <2> QED BY <1>2, <2>1 DEF RestartWsMonitor
  <1>3. ASSUME NEW w \in Scheduled, BuildWheel(w) \/ ArmMonitor(w)
        PROVE  ThreadTyped'
    BY <1>0, <1>3, TodoTyped DEF BuildWheel, ArmMonitor, NextChore
  <1>4. ASSUME NEW w \in Scheduled, StartFails(w)
        PROVE  ThreadTyped'
    BY <1>0, <1>4, TodoTyped DEF StartFails
  <1>5. ASSUME NEW w \in Scheduled, LoadForMonitor(w)
        PROVE  ThreadTyped'
    <2>1. Tail(todo[w]) \in Seq(Chores)
      BY <1>0, <1>5, TodoTyped DEF LoadForMonitor, Refresh
    <2> QED BY <1>0, <1>5, <2>1 DEF LoadForMonitor, NextChore
  <1>6. ASSUME NEW w \in Scheduled, ApplyToMonitor(w)
        PROVE  ThreadTyped'
    <2>1. Tail(todo[w]) \in Seq(Chores)
      BY <1>0, <1>6, TodoTyped DEF ApplyToMonitor
    <2> QED BY <1>6, <2>1 DEF ApplyToMonitor, NextChore
  <1>7. ASSUME NEW m \in Tickers, MonitorTick(m) \/ TickExitStep(m) \/ TickExitLost(m)
        PROVE  UNCHANGED threadVars
    BY <1>7 DEF MonitorTick, TickAbove, TickBreach, Ripen, TickConfirmed, TickExitStep,
                TickExitLost
  <1>8. CASE WorldStep \/ UNCHANGED allVars
    BY <1>8 DEF WorldStep
  <1>9. CASE RealtimeCrash
    BY <1>0, <1>9 DEF RealtimeCrash
  <1> QED
    BY <1>1, <1>2, <1>3, <1>4, <1>5, <1>6, <1>7, <1>8, <1>9 DEF RealtimeNext, Chore

\* Every step is the engine's, a step the monitor adds, or a stutter.
LEMMA StepKinds ==
    ASSUME RealtimeOK, [RealtimeNext]_allVars
    PROVE  \/ [Next]_vars
           \/ \E w \in Scheduled : NothingToExit(w) \/ RestartWsMonitor(w) \/ Chore(w)
           \/ \E m \in Tickers : MonitorTick(m) \/ TickExitLost(m)
  BY EngineSteps DEF RealtimeNext, allVars

LEMMA RealtimeStart == RealtimeInit => RealtimeOK
  <1> SUFFICES ASSUME RealtimeInit
               PROVE  RealtimeOK
    OBVIOUS
  <1>1. WellFormed
    BY WellFormedStart DEF RealtimeInit
  <1>2. AbsentRow \in Rows
    BY <1>1, RowsTyped DEF WellFormed
  <1> QED
    BY <1>1, <1>2, RealtimeParts, ChoresTyped
       DEF RealtimeInit, MonitorTyped, WheelTyped, ThreadTyped, Breaches

\* The copies the monitor keeps of the position, its streams and what every
\* scheduled thread still has to do keep their types, whatever fails and however
\* many threads start monitors: no stream is disconnected twice.
THEOREM AlwaysRealtimeOK == RealtimeSpec => []RealtimeOK
  <1>1. RealtimeOK /\ [RealtimeNext]_allVars => RealtimeOK'
    <2> SUFFICES ASSUME RealtimeOK, [RealtimeNext]_allVars
                 PROVE  RealtimeOK'
      OBVIOUS
    <2>1. WellFormed'
      <3>1. WellFormed
        BY DEF RealtimeOK
      <3> QED BY <3>1, StepKinds, EngineKeepsWellFormed, MonitorKeepsWellFormed
    <2>2. MonitorTyped' /\ WheelTyped' /\ ThreadTyped'
      BY MonitorStaysTyped, WheelStaysTyped, ThreadStaysTyped
    <2> QED
      BY <2>1, <2>2 DEF RealtimeOK, RealtimeTypeOK, WellFormed, MonitorTyped, WheelTyped, ThreadTyped
  <1> QED BY <1>1, RealtimeStart, PTL DEF RealtimeSpec

\* So does the type invariant of the engine with its monitors.
THEOREM RealtimeTyping == RealtimeSpec => []RealtimeTypeOK
  <1>1. RealtimeOK => RealtimeTypeOK
    BY DEF RealtimeOK
  <1> QED BY <1>1, AlwaysRealtimeOK, PTL

-----------------------------------------------------------------------------
(* No naked short, ticks and restarts included *)

LEMMA MonitorKeepsHedged ==
    ASSUME RealtimeOK, WellFormed', Hedged,
           \/ \E w \in Scheduled : NothingToExit(w) \/ RestartWsMonitor(w) \/ Chore(w)
           \/ \E m \in Tickers : MonitorTick(m) \/ TickExitLost(m)
    PROVE  Hedged'
  <1>1. /\ UNCHANGED <<dbVars, lock, brokerVars>>
        /\ \/ UNCHANGED job
           \/ \E m \in Tickers : \E j :
                /\ Become(m, j)
                /\ JobOK(j)
                /\ j.ord = "none" \/ (/\ j.pc = job[m].pc
                                      /\ j.ord = job[m].ord
                                      /\ j.spread = job[m].spread)
                /\ \A s : Claims(j, s) => Claims(job[m], s)
    BY MonitorJobSteps
  <1>2. CASE UNCHANGED job
    BY <1>1, <1>2 DEF brokerVars, Hedged, MarginCovered, Claimants, Claims, StraySells
  <1>3. ASSUME NEW m \in Tickers, NEW j, Become(m, j), JobOK(j),
               j.ord = "none" \/ (/\ j.pc = job[m].pc
                                  /\ j.ord = job[m].ord
                                  /\ j.spread = job[m].spread),
               \A s : Claims(j, s) => Claims(job[m], s)
        PROVE  Hedged'
    <2>1. m \in Workers
      BY TickersAreWorkers
    <2>2. /\ j.pc = "cancel" => j.ord # "complete"
          /\ j.ord = "open" => j.spread \notin expired
      BY <1>3, <2>1 DEF Hedged
    <2>3. UNCHANGED brokerVars
      BY <1>1
    <2> QED BY <1>3, <2>1, <2>2, <2>3, HedgedBecome
  <1> QED BY <1>1, <1>2, <1>3

\* With a truthful broker the account never owes an unhedged short put, also
\* when the websocket thread exits on stale thresholds, next to the hourly exit,
\* with its state replaced under it, or twice on two streams.
THEOREM RealtimeNeverNaked == TruthfulBroker => (RealtimeSpec => []NeverNakedShort)
  <1> SUFFICES ASSUME TruthfulBroker
               PROVE  RealtimeSpec => []NeverNakedShort
    OBVIOUS
  <1>1. RealtimeInit => Hedged
    BY HedgedStart DEF RealtimeInit
  <1>2. RealtimeOK /\ RealtimeOK' /\ Hedged /\ [RealtimeNext]_allVars => Hedged'
    <2> SUFFICES ASSUME RealtimeOK, RealtimeOK', Hedged, [RealtimeNext]_allVars
                 PROVE  Hedged'
      OBVIOUS
    <2>1. WellFormed'
      BY DEF RealtimeOK
    <2> QED BY <2>1, StepKinds, HedgedStep, MonitorKeepsHedged
  <1>3. Hedged => NeverNakedShort
    BY HedgedNotNaked
  <1> QED BY <1>1, <1>2, <1>3, AlwaysRealtimeOK, PTL DEF RealtimeSpec

-----------------------------------------------------------------------------
(* One stream at a time *)

\* At most one thread runs scheduled jobs and starts monitors.
OneScheduled == \A v, w \in Scheduled : v = w

\* What a scheduled thread may still have to do.
Agendas == {<<>>, <<"load", "apply">>, <<"apply">>, <<"build", "arm">>, <<"arm">>,
            <<"build", "arm", "load", "apply">>, <<"arm", "load", "apply">>}

\* The agendas of a restart: the old monitor is stopped, the new one does not run yet.
Building == {<<"build", "arm">>, <<"build", "arm", "load", "apply">>}
Arming   == {<<"arm">>, <<"arm", "load", "apply">>}

LEMMA AgendaHeads ==
    ASSUME NEW q \in Agendas, q # <<>>
    PROVE  /\ Head(q) = "build" <=> q \in Building
           /\ Head(q) = "arm" <=> q \in Arming
           /\ Head(q) \in {"build", "arm"} <=> q \in Building \cup Arming
  BY DEF Agendas, Building, Arming

LEMMA AgendaTails ==
    /\ \A q \in Building : Tail(q) \in Arming
    /\ \A q \in Arming : Tail(q) \in {<<>>, Refresh}
    /\ Tail(Refresh) = <<"apply">>
    /\ Tail(<<"apply">>) = <<>>
  BY DEF Building, Arming, Refresh

LEMMA AgendaRests ==
    /\ \A q \in Building : SubSeq(q, 3, Len(q)) \in {<<>>, Refresh}
    /\ \A q \in Arming : SubSeq(q, 2, Len(q)) \in {<<>>, Refresh}
  <1>1. /\ SubSeq(<<"build", "arm">>, 3, 2) = <<>>
        /\ SubSeq(<<"arm">>, 2, 1) = <<>>
    OBVIOUS
  <1>2. ASSUME NEW q, NEW k \in Nat, NEW n \in Nat, n = k + 1, q[k] = "load", q[n] = "apply"
        PROVE  SubSeq(q, k, n) = Refresh
    <2>1. \A i \in k .. n : q[i] \in Chores
      BY <1>2 DEF Chores
    <2>2. /\ SubSeq(q, k, n) \in Seq(Chores) /\ Len(SubSeq(q, k, n)) = 2
          /\ \A i \in 1 .. 2 : SubSeq(q, k, n)[i] = q[k + i - 1]
      BY <1>2, <2>1, SubSeqProperties
    <2>3. SubSeq(q, k, n)[1] = "load" /\ SubSeq(q, k, n)[2] = "apply"
      BY <1>2, <2>2
    <2>4. Refresh \in Seq(Chores) /\ Len(Refresh) = 2 /\ Refresh[1] = "load" /\ Refresh[2] = "apply"
      BY ChoresTyped DEF Refresh
    <2> QED BY <1>2, <2>2, <2>3, <2>4, SeqEqual
  <1>3. /\ SubSeq(<<"build", "arm", "load", "apply">>, 3, 4) = Refresh
        /\ SubSeq(<<"arm", "load", "apply">>, 2, 3) = Refresh
    <2> DEFINE p == <<"build", "arm", "load", "apply">>
               q == <<"arm", "load", "apply">>
    <2>1. p[3] = "load" /\ p[4] = "apply" /\ q[2] = "load" /\ q[3] = "apply"
      OBVIOUS
    <2> HIDE DEF p, q
    <2>2. SubSeq(p, 3, 4) = Refresh
      BY <1>2, <2>1, 4 = 3 + 1
    <2>3. SubSeq(q, 2, 3) = Refresh
      BY <1>2, <2>1, 3 = 2 + 1
    <2> QED BY <2>2, <2>3 DEF p, q
  <1>4. /\ Len(<<"build", "arm">>) = 2 /\ Len(<<"arm">>) = 1
        /\ Len(<<"build", "arm", "load", "apply">>) = 4
        /\ Len(<<"arm", "load", "apply">>) = 3
    OBVIOUS
  <1> QED BY <1>1, <1>2, <1>3, <1>4, Zenon DEF Building, Arming

LEMMA AgendaStarts ==
    \A q \in {<<>>, Refresh} : Start \o q \in Building
  <1>1. Start \o <<>> = Start
    BY DEF Start
  <1>2. Start \o Refresh = <<"build", "arm", "load", "apply">>
    <2> DEFINE q == <<"build", "arm", "load", "apply">>
    <2>1. /\ q \in Seq(Chores) /\ Len(q) = 4
          /\ q[1] = "build" /\ q[2] = "arm" /\ q[3] = "load" /\ q[4] = "apply"
      BY DEF Chores
    <2>2. /\ Len(Start) = 2 /\ Start[1] = "build" /\ Start[2] = "arm"
          /\ Len(Refresh) = 2 /\ Refresh[1] = "load" /\ Refresh[2] = "apply"
      BY DEF Start, Refresh
    <2> HIDE DEF q
    <2>3. /\ Start \o Refresh \in Seq(Chores) /\ Len(Start \o Refresh) = 4
          /\ \A i \in 1 .. 4 :
                (Start \o Refresh)[i] = IF i <= 2 THEN Start[i] ELSE Refresh[i - 2]
      <3>1. /\ Start \o Refresh \in Seq(Chores)
            /\ Len(Start \o Refresh) = Len(Start) + Len(Refresh)
            /\ \A i \in 1 .. Len(Start) + Len(Refresh) : (Start \o Refresh)[i] =
                  IF i <= Len(Start) THEN Start[i] ELSE Refresh[i - Len(Start)]
        BY ChoresTyped, ConcatProperties, Zenon
      <3>2. Len(Start) + Len(Refresh) = 4
        BY <2>2
      <3> QED BY <2>2, <3>1, <3>2
    <2>4. \A i \in 1 .. 4 : (Start \o Refresh)[i] = q[i]
      BY <2>1, <2>2, <2>3
    <2>5. Start \o Refresh = q
      BY <2>1, <2>3, <2>4, SeqEqual
    <2> QED BY <2>5 DEF q
  <1> QED BY <1>1, <1>2, Zenon DEF Building, Start

LEMMA AgendaKinds ==
    /\ Building \subseteq Agendas /\ Arming \subseteq Agendas
    /\ <<>> \in Agendas /\ Refresh \in Agendas /\ <<"apply">> \in Agendas
    /\ Refresh \notin Building \cup Arming /\ <<>> \notin Building \cup Arming
    /\ <<"apply">> \notin Building \cup Arming /\ Building \cap Arming = {}
    /\ Refresh # <<>> /\ Refresh # <<"apply">> /\ <<"apply">> # <<>>
  BY DEF Agendas, Building, Arming, Refresh

\* While a restart is under way no monitor runs.
RestartsAlone ==
    /\ \A w \in Scheduled : todo[w] \in Agendas
    /\ \A w \in Scheduled : todo[w] \in Building \cup Arming => wsMonitor = NoWorker

Streams == RestartsAlone /\ OneStream

\* Only the thread w has something else to do, and it does not restart.
LEMMA StreamsKept ==
    ASSUME OneScheduled, Streams, NEW w \in Scheduled,
           UNCHANGED <<wsWheel, wsMonitor, sockets>>,
           NEW q \in Agendas, todo' = [todo EXCEPT ![w] = q],
           q \in Building \cup Arming => wsMonitor = NoWorker,
           RealtimeOK
    PROVE  Streams'
  <1>1. todo \in [Scheduled -> Seq(Chores)]
    BY DEF RealtimeOK, RealtimeTypeOK
  <1>2. todo'[w] = q /\ \A v \in Scheduled : v = w
    BY <1>1 DEF OneScheduled
  <1>3. RestartsAlone'
    BY <1>2 DEF RestartsAlone
  <1> QED BY <1>3 DEF Streams, OneStream

LEMMA StreamsStart == RealtimeInit => Streams
  BY AgendaKinds, WorkerAssumption, TickersAreWorkers
     DEF RealtimeInit, Streams, RestartsAlone, OneStream

LEMMA StreamsStep ==
    ASSUME OneScheduled, RealtimeOK, Streams, [RealtimeNext]_allVars
    PROVE  Streams'
  <1>0. /\ todo \in [Scheduled -> Seq(Chores)]
        /\ sockets \in [Tickers -> Nat]
        /\ wsWheel \in Tickers \cup {NoWorker} /\ wsMonitor \in Tickers \cup {NoWorker}
        /\ NoWorker \notin Tickers
    BY WorkerAssumption, TickersAreWorkers DEF RealtimeOK, RealtimeTypeOK
  <1>a. \A w \in Scheduled : todo[w] \in Agendas
    BY DEF Streams, RestartsAlone
  <1>1. ASSUME NEW w \in Scheduled, ScheduledStep(w)
        PROVE  Streams'
    <2>1. todo[w] = <<>> /\ UNCHANGED <<wsWheel, wsMonitor, sockets>>
      BY <1>1 DEF ScheduledStep, monitorVars
    <2>2. \E q \in {<<>>, Refresh} : todo' = [todo EXCEPT ![w] = q]
      <3>1. CASE todo' = [todo EXCEPT ![w] = Refresh]
        BY <3>1
      <3>2. CASE todo' = todo
        <4>1. todo = [todo EXCEPT ![w] = <<>>]
          BY <1>0, <2>1
        <4> QED BY <3>2, <4>1
      <3> QED BY <1>1, <3>1, <3>2 DEF ScheduledStep, RefreshAfter
    <2> QED BY <2>1, <2>2, StreamsKept, AgendaKinds
  <1>2. ASSUME NEW w \in Scheduled, NothingToExit(w)
        PROVE  Streams'
    <2>1. UNCHANGED <<wsWheel, wsMonitor, sockets>> /\ todo' = [todo EXCEPT ![w] = Refresh]
      BY <1>2 DEF NothingToExit, monitorVars
    <2> QED BY <2>1, StreamsKept, AgendaKinds
  <1>3. ASSUME NEW w \in Scheduled, RestartWsMonitor(w)
        PROVE  Streams'
    <2>1. /\ todo[w] \in {<<>>, Refresh} /\ todo' = [todo EXCEPT ![w] = Start \o todo[w]]
          /\ wsMonitor' = NoWorker /\ wsWheel' = NoWorker
      BY <1>3 DEF RestartWsMonitor, StopWsMonitor
    <2>2. Start \o todo[w] \in Building
      BY <2>1, AgendaStarts
    <2>3. \A m \in Tickers : sockets'[m] = 0
      <3>1. CASE wsMonitor = NoWorker
        BY <1>0, <1>3, <3>1 DEF RestartWsMonitor, StopWsMonitor, Streams, OneStream
      <3>2. CASE wsMonitor # NoWorker
        BY <1>0, <1>3, <3>2 DEF RestartWsMonitor, StopWsMonitor, Streams, OneStream
      <3> QED BY <3>1, <3>2
    <2>4. OneStream'
      BY <1>0, <2>1, <2>3 DEF OneStream
    <2>5. RestartsAlone'
      BY <1>0, <2>1, <2>2, AgendaKinds DEF RestartsAlone, OneScheduled
    <2> QED BY <2>4, <2>5 DEF Streams
  <1>4. ASSUME NEW w \in Scheduled, BuildWheel(w)
        PROVE  Streams'
    <2>1. /\ todo[w] \in Building /\ Tail(todo[w]) \in Arming
          /\ todo' = [todo EXCEPT ![w] = Tail(todo[w])]
      BY <1>a, <1>4, AgendaHeads, AgendaTails DEF BuildWheel, NextChore
    <2>2. wsMonitor = NoWorker /\ UNCHANGED <<wsMonitor, sockets>>
      BY <1>4, <2>1 DEF BuildWheel, Streams, RestartsAlone
    <2>3. OneStream'
      BY <1>0, <2>2 DEF Streams, OneStream
    <2>4. RestartsAlone'
      BY <1>0, <2>1, <2>2, AgendaKinds DEF RestartsAlone, OneScheduled
    <2> QED BY <2>3, <2>4 DEF Streams
  <1>5. ASSUME NEW w \in Scheduled, StartFails(w)
        PROVE  Streams'
    <2>1. \E q \in {<<>>, Refresh} : todo' = [todo EXCEPT ![w] = q]
      <3>1. CASE todo[w] \in Building
        BY <1>a, <1>5, <3>1, AgendaHeads, AgendaKinds, AgendaRests DEF StartFails
      <3>2. CASE todo[w] \in Arming
        <4>1. Head(todo[w]) # "build"
          BY <1>a, <1>5, <3>2, AgendaHeads, AgendaKinds DEF StartFails
        <4> QED BY <1>5, <3>2, <4>1, AgendaRests DEF StartFails
      <3> QED BY <1>a, <1>5, <3>1, <3>2, AgendaHeads DEF StartFails
    <2>2. UNCHANGED <<wsWheel, wsMonitor, sockets>>
      BY <1>5 DEF StartFails, monitorVars
    <2> QED BY <2>1, <2>2, StreamsKept, AgendaKinds
  <1>6. ASSUME NEW w \in Scheduled, ArmMonitor(w)
        PROVE  Streams'
    <2>1. /\ todo[w] \in Arming /\ Tail(todo[w]) \in {<<>>, Refresh}
          /\ todo' = [todo EXCEPT ![w] = Tail(todo[w])]
      BY <1>a, <1>6, AgendaHeads, AgendaTails DEF ArmMonitor, NextChore
    <2>2. /\ wsMonitor = NoWorker /\ wsWheel \in Tickers /\ UNCHANGED wsWheel
          /\ wsMonitor' = wsWheel
          /\ sockets' = [sockets EXCEPT ![wsWheel] = @ + 1]
      BY <1>0, <1>6, <2>1 DEF ArmMonitor, Streams, RestartsAlone
    <2>3. \A m \in Tickers : sockets[m] = 0
      BY <1>0, <2>2 DEF Streams, OneStream
    <2>4. OneStream'
      BY <1>0, <2>2, <2>3 DEF OneStream
    <2>5. RestartsAlone'
      BY <1>0, <2>1, AgendaKinds DEF RestartsAlone, OneScheduled
    <2> QED BY <2>4, <2>5 DEF Streams
  <1>7. ASSUME NEW w \in Scheduled, LoadForMonitor(w) \/ ApplyToMonitor(w)
        PROVE  Streams'
    <2>1. \E q \in {<<>>, <<"apply">>} : todo' = [todo EXCEPT ![w] = q]
      <3>1. CASE LoadForMonitor(w)
        BY <3>1, AgendaTails DEF LoadForMonitor, NextChore
      <3>2. CASE ApplyToMonitor(w)
        BY <3>2, AgendaTails DEF ApplyToMonitor, NextChore
      <3> QED BY <1>7, <3>1, <3>2
    <2>2. UNCHANGED <<wsWheel, wsMonitor, sockets>>
      BY <1>7 DEF LoadForMonitor, ApplyToMonitor, monitorVars
    <2> QED BY <2>1, <2>2, StreamsKept, AgendaKinds
  <1>8. CASE RealtimeCrash
    BY <1>0, <1>8, AgendaKinds DEF RealtimeCrash, Streams, RestartsAlone, OneStream
  <1>9. ASSUME UNCHANGED <<wsWheel, wsMonitor, sockets, todo>>
        PROVE  Streams'
    BY <1>9 DEF Streams, RestartsAlone, OneStream
  <1>10. ASSUME NEW m \in Tickers, MonitorTick(m) \/ TickExitStep(m) \/ TickExitLost(m)
        PROVE  UNCHANGED <<wsWheel, wsMonitor, sockets, todo>>
    BY <1>10 DEF MonitorTick, TickAbove, TickBreach, Ripen, TickConfirmed, TickExitStep,
                TickExitLost, monitorVars, threadVars
  <1>11. CASE WorldStep \/ UNCHANGED allVars
    BY <1>9, <1>11 DEF WorldStep, allVars, rtVars, monitorVars, threadVars
  <1> QED
    BY <1>1, <1>2, <1>3, <1>4, <1>5, <1>6, <1>7, <1>8, <1>9, <1>10, <1>11
       DEF RealtimeNext, Chore

\* As long as one thread starts monitors, whatever fails and however often the
\* stream is restarted, exactly the monitor of the globals has an open stream.
THEOREM OneStreamOpen == OneScheduled => (RealtimeSpec => []OneStream)
  <1> SUFFICES ASSUME OneScheduled PROVE RealtimeSpec => []OneStream
    OBVIOUS
  <1>1. RealtimeOK /\ Streams /\ [RealtimeNext]_allVars => Streams'
    BY StreamsStep
  <1>2. Streams => OneStream
    BY DEF Streams
  <1> QED BY <1>1, <1>2, StreamsStart, AlwaysRealtimeOK, PTL DEF RealtimeSpec

-----------------------------------------------------------------------------
(* The open position is watched *)

Open == row.stage = "STAGE_1_CSP"

\* The monitor's wheel compares with the strike of the open position, or knows of
\* none because its last load failed; an exit that runs on such a wheel saves nothing.
Watches(m) ==
    \/ exitThresholds[m] = row.spread
    \/ /\ exitThresholds[m] = NoSpread
       /\ wheelState[m] = AbsentRow
       /\ job[m].pc = "idle" \/ job[m].mem.stage = "ABSENT"

\* What a scheduled thread has read for the monitor, or built it with, is still true.
ReadForMonitor ==
    \A w \in Scheduled : todo[w] = <<"apply">> /\ Open => seen[w] \in {row, AbsentRow}

BuiltForMonitor ==
    \A w \in Scheduled : todo[w] \in Arming =>
        /\ wsWheel # NoWorker
        /\ job[wsWheel].pc = "idle"
        /\ Open => wheelState[wsWheel] \in {row, AbsentRow}

WatchedWhenIdle ==
    (\A w \in Scheduled : Idle(w)) /\ wsMonitor # NoWorker /\ Open => Watches(wsMonitor)

Watching == ReadForMonitor /\ BuiltForMonitor /\ WatchedWhenIdle

LEMMA WatchingStart == RealtimeInit => Watching
  BY AgendaKinds DEF RealtimeInit, Watching, ReadForMonitor, BuiltForMonitor, WatchedWhenIdle

\* A load sees the row, or nothing.
LEMMA LoadSees == \A r \in LoadState : r \in {row, AbsentRow}
  BY DEF LoadState

\* A load that saw the open position, or nothing, leaves a wheel that watches it.
LEMMA ThresholdsWatch ==
    ASSUME Open, NEW r \in {row, AbsentRow}
    PROVE  Threshold(r) = row.spread \/ (r = AbsentRow /\ Threshold(r) = NoSpread)
  BY DEF Open, Threshold, AbsentRow

\* A step inside the exit of a tick.
LEMMA TickExitMoves ==
    ASSUME RealtimeOK, NEW m \in Tickers, TickExit(m)
    PROVE  /\ job[m].pc # "idle"
           /\ \A v \in Workers \ {m} : job'[v] = job[v]
           /\ job'[m].pc = "idle" \/ job'[m].mem = job[m].mem
           /\ row' = row \/ row'.stage = "CLOSED"
           /\ job[m].mem.stage = "ABSENT" => job[m].pc # "close" /\ row' = row
  <1>0. /\ m \in Workers /\ job \in [Workers -> Jobs] /\ job[m] \in Jobs
    BY TickersAreWorkers DEF RealtimeOK, WellFormed, TypeOK
  <1>a. \A pc, leg : At(m, pc, leg).mem = job[m].mem
    BY <1>0 DEF At, Jobs
  <1>f. IdleJob.pc = "idle"
    BY DEF IdleJob
  <1>b. /\ AfterGiveUp(m).pc = "idle" \/ AfterGiveUp(m).mem = job[m].mem
        /\ AfterFill(m).mem = job[m].mem
        /\ RequoteOrGiveUp(m).pc = "idle" \/ RequoteOrGiveUp(m).mem = job[m].mem
    <2>1. job[m].leg \in Legs
      BY <1>0 DEF Jobs
    <2>2. AfterGiveUp(m).pc = "idle" \/ AfterGiveUp(m).mem = job[m].mem
      BY <1>a, <1>f, <2>1 DEF AfterGiveUp, Legs, BuyLegs, SellLegs
    <2>3. AfterFill(m).mem = job[m].mem
      BY <1>a, <2>1 DEF AfterFill, Legs, BuyLegs, SellLegs
    <2>4. [job[m] EXCEPT !.pc = "place", !.tries = job[m].tries + 1, !.ord = "none"].mem
            = job[m].mem
      BY <1>0 DEF Jobs
    <2> QED BY <2>2, <2>3, <2>4 DEF RequoteOrGiveUp
  <1>c. ASSUME NEW j, Become(m, j), j.pc = "idle" \/ j.mem = job[m].mem
        PROVE  /\ \A v \in Workers \ {m} : job'[v] = job[v]
               /\ job'[m].pc = "idle" \/ job'[m].mem = job[m].mem
    BY <1>0, <1>c DEF Become
  <1>m. /\ [job[m] EXCEPT !.pc = "poll", !.ord = "open"].mem = job[m].mem
        /\ [job[m] EXCEPT !.pc = "cancel"].mem = job[m].mem
        /\ [job[m] EXCEPT !.pc = "close"].mem = job[m].mem
    BY <1>0 DEF Jobs
  <1>1. CASE OrderStep(m)
    <2>1. job[m].pc \in {"place", "poll", "cancel"} /\ row' = row
      BY <1>1 DEF OrderStep, PlaceAccepted, PlaceReturnsNone, PollComplete, PollRejected,
                  PollTimeout, PollAbandon, CancelOrder, dbVars
    <2>2. \E j : Become(m, j) /\ (j.pc = "idle" \/ j.mem = job[m].mem)
      BY <1>1, <1>b, <1>m, Zenon
         DEF OrderStep, PlaceAccepted, PlaceReturnsNone, PollComplete, PollRejected,
             PollTimeout, PollAbandon, CancelOrder
    <2> QED BY <1>c, <2>1, <2>2
  <1>2. CASE TriggerExit(m) \/ NoExit(m)
    <2>1. job[m].pc = "decide" /\ row' = row
      BY <1>2 DEF TriggerExit, NoExit, dbVars
    <2>2. \E j : Become(m, j) /\ (j.pc = "idle" \/ j.mem = job[m].mem)
      BY <1>2, <1>a, <1>f, Zenon DEF TriggerExit, NoExit, Finish
    <2> QED BY <1>c, <2>1, <2>2
  <1>3. CASE job[m].mem.stage # "ABSENT" /\ (ArchiveExit(m) \/ SaveClosed(m))
    <2>1. job[m].pc \in {"archive", "close"}
      BY <1>3 DEF ArchiveExit, SaveClosed
    <2>2. row' = row \/ row'.stage = "CLOSED"
      BY <1>3 DEF ArchiveExit, SaveClosed, SaveState
    <2>3. \E j : Become(m, j) /\ (j.pc = "idle" \/ j.mem = job[m].mem)
      BY <1>3, <1>m, <1>f, Zenon DEF ArchiveExit, SaveClosed, Finish
    <2> QED BY <1>3, <1>c, <2>1, <2>2, <2>3
  <1> QED BY <1>1, <1>2, <1>3 DEF TickExit

\* After a step of its own job a scheduled thread is not idle: the refresh follows.
LEMMA NotIdleAfter ==
    ASSUME RealtimeOK, NEW w \in Scheduled, ScheduledStep(w)
    PROVE  ~Idle(w)'
  <1>0. /\ w \in Workers /\ job \in [Workers -> Jobs] /\ job[w] \in Jobs
        /\ todo \in [Scheduled -> Seq(Chores)]
    BY TickersAreWorkers DEF RealtimeOK, RealtimeTypeOK, WellFormed, TypeOK
  <1>1. CASE StartEntry(w)
    <2>1. PICK r \in LoadState :
            Become(w, [job[w] EXCEPT
                !.mem = r, !.pc = IF r.stage = "ABSENT" THEN "ensure" ELSE "trylock"])
      BY <1>1 DEF StartEntry
    <2>2. job'[w].pc # "idle"
      BY <1>0, <2>1 DEF Become, Jobs
    <2> QED BY <2>2 DEF Idle
  <1>2. CASE StartExit(w)
    <2>1. PICK r \in LoadState :
            Become(w, [job[w] EXCEPT !.mem = r, !.spread = r.spread, !.pc = "decide"])
      BY <1>2 DEF StartExit
    <2>2. job'[w].pc # "idle"
      BY <1>0, <2>1 DEF Become, Jobs
    <2> QED BY <2>2 DEF Idle
  <1>3. CASE Step(w)
    <2>1. job[w].pc # "idle"
      BY <1>3 DEF Step, OrderStep, EntryStep, ExitStep, PlaceAccepted, PlaceReturnsNone,
                  PollComplete, PollRejected, PollTimeout, PollAbandon, CancelOrder,
                  EnsureSymbolState, AcquireLock, SkipLocked, PassGates, BlockedByGate,
                  SaveEntry, Unlock, NoExit, TriggerExit, SettleExpired, ArchiveExit, SaveClosed
    <2>2. job'[w].pc = "idle" => todo'[w] = Refresh
      BY <1>0, <2>1 DEF ScheduledStep, RefreshAfter
    <2> QED BY <2>2, AgendaKinds DEF Idle
  <1> QED BY <1>1, <1>2, <1>3 DEF ScheduledStep

LEMMA WatchingStep ==
    ASSUME OneScheduled, RealtimeOK, Streams, Watching, [RealtimeNext]_allVars
    PROVE  Watching'
  <1>0. /\ todo \in [Scheduled -> Seq(Chores)]
        /\ seen \in [Scheduled -> Rows]
        /\ exitThresholds \in [Tickers -> Spreads \cup {NoSpread}]
        /\ wheelState \in [Tickers -> Rows]
        /\ job \in [Workers -> Jobs]
        /\ wsWheel \in Tickers \cup {NoWorker} /\ wsMonitor \in Tickers \cup {NoWorker}
        /\ NoWorker \notin Tickers
        /\ Tickers \subseteq Workers /\ Scheduled \cap Tickers = {}
    BY WorkerAssumption, TickersAreWorkers
       DEF RealtimeOK, RealtimeTypeOK, WellFormed, TypeOK, Scheduled
  <1>s. /\ \A w \in Scheduled : todo[w] \in Agendas
        /\ \A w \in Scheduled : todo[w] \in Building \cup Arming => wsMonitor = NoWorker
        /\ wsMonitor \in {wsWheel, NoWorker}
        /\ \A m \in Tickers : sockets[m] > 0 => m = wsMonitor
    <2>1. /\ \A w \in Scheduled : todo[w] \in Agendas
          /\ \A w \in Scheduled : todo[w] \in Building \cup Arming => wsMonitor = NoWorker
          /\ wsMonitor \in {wsWheel, NoWorker}
      BY DEF Streams, RestartsAlone, OneStream
    <2>2. \A m \in Tickers : sockets[m] > 0 => m = wsMonitor
      BY DEF Streams, OneStream
    <2> QED BY <2>1, <2>2
  <1>n. ASSUME NEW w \in Scheduled, ~Idle(w)', todo'[w] # <<"apply">>, todo'[w] \notin Arming
        PROVE  Watching'
    BY <1>n DEF OneScheduled, Watching, ReadForMonitor, BuiltForMonitor, WatchedWhenIdle
  <1>v. ASSUME NEW w \in Scheduled, wsMonitor' = NoWorker, todo'[w] # <<"apply">>,
               todo'[w] \notin Arming
        PROVE  Watching'
    BY <1>v DEF OneScheduled, Watching, ReadForMonitor, BuiltForMonitor, WatchedWhenIdle
  <1>1. ASSUME NEW w \in Scheduled, ScheduledStep(w)
        PROVE  Watching'
    <2>1. todo'[w] \in {<<>>, Refresh}
      BY <1>0, <1>1 DEF ScheduledStep, RefreshAfter
    <2> QED BY <1>1, <1>n, <2>1, NotIdleAfter, AgendaKinds
  <1>2. ASSUME NEW w \in Scheduled, NothingToExit(w)
        PROVE  Watching'
    <2>1. todo'[w] = Refresh
      BY <1>0, <1>2 DEF NothingToExit
    <2> QED BY <1>n, <2>1, AgendaKinds DEF Idle
  <1>3. ASSUME NEW w \in Scheduled, RestartWsMonitor(w)
        PROVE  Watching'
    <2>1. todo'[w] \in Building /\ wsMonitor' = NoWorker
      BY <1>0, <1>3, AgendaStarts DEF RestartWsMonitor, StopWsMonitor
    <2> QED BY <1>v, <2>1, AgendaKinds
  <1>4. ASSUME NEW w \in Scheduled, BuildWheel(w)
        PROVE  Watching'
    <2>1. todo[w] \in Building /\ todo'[w] \in Arming
      BY <1>0, <1>4, <1>s, AgendaHeads, AgendaTails DEF BuildWheel, NextChore
    <2>2. wsMonitor' = NoWorker /\ UNCHANGED <<row, job>>
      BY <1>4, <1>s, <2>1 DEF BuildWheel, vars, dbVars
    <2>3. PICK m \in Tickers, r \in LoadState :
            /\ job[m].pc = "idle" /\ wsWheel' = m
            /\ wheelState' = [wheelState EXCEPT ![m] = r]
      BY <1>4 DEF BuildWheel
    <2>4. wheelState'[wsWheel'] \in {row', AbsentRow} /\ wsWheel' # NoWorker
          /\ job'[wsWheel'].pc = "idle"
      BY <1>0, <2>2, <2>3, LoadSees
    <2>5. todo'[w] # <<"apply">>
      BY <2>1, AgendaKinds
    <2> QED BY <2>2, <2>4, <2>5
            DEF OneScheduled, Watching, ReadForMonitor, BuiltForMonitor, WatchedWhenIdle
  <1>5. ASSUME NEW w \in Scheduled, StartFails(w)
        PROVE  Watching'
    <2>1. todo[w] \in Building \cup Arming /\ wsMonitor' = NoWorker
      BY <1>5, <1>s, AgendaHeads DEF StartFails, monitorVars
    <2>2. todo'[w] \in {<<>>, Refresh}
      <3>1. CASE todo[w] \in Building
        BY <1>0, <1>5, <1>s, <3>1, AgendaHeads, AgendaKinds, AgendaRests DEF StartFails
      <3>2. CASE todo[w] \in Arming
        <4>1. Head(todo[w]) # "build"
          BY <1>5, <1>s, <3>2, AgendaHeads, AgendaKinds DEF StartFails
        <4> QED BY <1>0, <1>5, <3>2, <4>1, AgendaRests DEF StartFails
      <3> QED BY <2>1, <3>1, <3>2
    <2> QED BY <1>v, <2>1, <2>2, AgendaKinds
  <1>6. ASSUME NEW w \in Scheduled, ArmMonitor(w)
        PROVE  Watching'
    <2>1. todo[w] \in Arming /\ todo'[w] \in {<<>>, Refresh}
      BY <1>0, <1>6, <1>s, AgendaHeads, AgendaTails DEF ArmMonitor, NextChore
    <2>2. /\ wsWheel \in Tickers /\ wsMonitor' = wsWheel
          /\ exitThresholds' = [exitThresholds EXCEPT ![wsWheel] = Threshold(wheelState[wsWheel])]
          /\ UNCHANGED <<row, job, wheelState>>
      BY <1>0, <1>6 DEF ArmMonitor, vars, dbVars
    <2>3. job[wsWheel].pc = "idle" /\ (Open => wheelState[wsWheel] \in {row, AbsentRow})
      BY <2>1 DEF Watching, BuiltForMonitor
    <2>4. Open => Watches(wsMonitor)'
      BY <1>0, <2>2, <2>3, ThresholdsWatch DEF Watches
    <2>5. Open' <=> Open
      BY <2>2 DEF Open
    <2>6. WatchedWhenIdle'
      BY <2>4, <2>5 DEF WatchedWhenIdle
    <2> QED BY <2>1, <2>6, AgendaKinds DEF OneScheduled, Watching, ReadForMonitor, BuiltForMonitor
  <1>7. ASSUME NEW w \in Scheduled, LoadForMonitor(w)
        PROVE  Watching'
    <2>1. CASE wsWheel = NoWorker \/ wsMonitor = NoWorker
      <3>1. todo'[w] = <<>> /\ wsMonitor' = NoWorker
        BY <1>0, <1>7, <1>s, <2>1 DEF LoadForMonitor, monitorVars
      <3> QED BY <1>v, <3>1, AgendaKinds
    <2>2. CASE ~(wsWheel = NoWorker \/ wsMonitor = NoWorker)
      <3>1. /\ todo'[w] = <<"apply">> /\ UNCHANGED row
            /\ seen'[w] \in {row, AbsentRow}
        BY <1>0, <1>7, <2>2, LoadSees, AgendaTails DEF LoadForMonitor, NextChore, vars, dbVars
      <3>2. ~Idle(w)' /\ todo'[w] \notin Arming
        BY <3>1, AgendaKinds DEF Idle
      <3> QED BY <3>1, <3>2
              DEF OneScheduled, Watching, ReadForMonitor, BuiltForMonitor, WatchedWhenIdle
    <2> QED BY <2>1, <2>2
  <1>8. ASSUME NEW w \in Scheduled, ApplyToMonitor(w)
        PROVE  Watching'
    <2>1. /\ todo[w] = <<"apply">> /\ todo'[w] = <<>>
          /\ UNCHANGED <<row, wsWheel, wsMonitor>>
      BY <1>0, <1>8, AgendaTails DEF ApplyToMonitor, NextChore, dbVars, monitorVars
    <2>2. CASE wsMonitor = NoWorker
      BY <1>v, <2>1, <2>2, AgendaKinds
    <2>3. CASE wsMonitor # NoWorker
      <3>1. wsWheel = wsMonitor /\ wsMonitor \in Tickers
        BY <1>0, <1>s, <2>3
      <3>2. /\ wheelState'[wsMonitor] = seen[w]
            /\ exitThresholds'[wsMonitor] = Threshold(seen[w])
            /\ job'[wsMonitor] = IF job[wsMonitor].pc = "idle" THEN job[wsMonitor]
                                 ELSE [job[wsMonitor] EXCEPT !.mem = seen[w]]
        BY <1>0, <1>8, <2>3, <3>1 DEF ApplyToMonitor, Rebind
      <3>3. job'[wsMonitor].pc = "idle" \/ job'[wsMonitor].mem = seen[w]
        BY <1>0, <3>1, <3>2 DEF Jobs
      <3>4. Open => seen[w] \in {row, AbsentRow}
        BY <2>1 DEF Watching, ReadForMonitor
      <3>5. Open => Watches(wsMonitor)'
        BY <2>1, <3>2, <3>3, <3>4, ThresholdsWatch DEF Watches, AbsentRow
      <3>6. Open' <=> Open
        BY <2>1 DEF Open
      <3> QED BY <2>1, <3>5, <3>6, AgendaKinds
              DEF OneScheduled, Watching, ReadForMonitor, BuiltForMonitor, WatchedWhenIdle
    <2> QED BY <2>2, <2>3
  <1>t. ASSUME NEW m \in Tickers,
               MonitorTick(m) \/ TickExitStep(m) \/ TickExitLost(m)
        PROVE  /\ UNCHANGED <<todo, seen, wsWheel, wsMonitor, exitThresholds>>
               /\ row' = row \/ row'.stage = "CLOSED"
               /\ \A v \in Workers \ {m} : job'[v] = job[v]
               /\ \A v \in Tickers \ {m} : wheelState'[v] = wheelState[v]
               /\ job[m].pc = "idle" => sockets[m] > 0 \/ UNCHANGED <<job, wheelState>>
    <2>1. CASE TickAbove(m) \/ TickBreach(m) \/ Ripen(m)
      BY <2>1 DEF TickAbove, TickBreach, Ripen, threadVars, monitorVars, vars, dbVars
    <2>2. CASE TickConfirmed(m)
      BY <1>0, <2>2 DEF TickConfirmed, Tick, threadVars, monitorVars, dbVars, Become
    <2>3. CASE TickExitStep(m)
      <3>1. TickExit(m) /\ UNCHANGED <<todo, seen, wsWheel, wsMonitor, exitThresholds>>
            /\ \A v \in Tickers \ {m} : wheelState'[v] = wheelState[v]
        BY <1>0, <2>3 DEF TickExitStep, threadVars, monitorVars
      <3> QED BY <3>1, TickExitMoves
    <2>4. CASE TickExitLost(m)
      BY <1>0, <2>4 DEF TickExitLost, Finish, Become, threadVars, monitorVars, wheelVars, dbVars
    <2> QED BY <1>t, <2>1, <2>2, <2>3, <2>4 DEF MonitorTick
  <1>9. ASSUME NEW m \in Tickers, MonitorTick(m) \/ TickExitStep(m) \/ TickExitLost(m)
        PROVE  Watching'
    <2>1. Open' => Open /\ row' = row
      BY <1>9, <1>t DEF Open
    <2>2. \A w \in Scheduled : Idle(w)' <=> Idle(w)
      BY <1>0, <1>9, <1>t, TickersAreWorkers DEF Idle
    <2>3. ReadForMonitor'
      BY <1>9, <1>t, <2>1 DEF Watching, ReadForMonitor
    <2>4. BuiltForMonitor'
      <3> SUFFICES ASSUME NEW w \in Scheduled, todo'[w] \in Arming
                   PROVE  /\ wsWheel' # NoWorker
                          /\ job'[wsWheel'].pc = "idle"
                          /\ Open' => wheelState'[wsWheel'] \in {row', AbsentRow}
        BY DEF BuiltForMonitor
      <3>1. /\ todo[w] \in Arming /\ wsWheel' = wsWheel /\ wsMonitor = NoWorker
            /\ wsWheel # NoWorker /\ job[wsWheel].pc = "idle"
            /\ Open => wheelState[wsWheel] \in {row, AbsentRow}
        BY <1>9, <1>s, <1>t DEF Watching, BuiltForMonitor
      <3>2. job'[wsWheel] = job[wsWheel] /\ wheelState'[wsWheel] = wheelState[wsWheel]
        <4>1. CASE m = wsWheel
          BY <1>0, <1>9, <1>s, <1>t, <3>1, <4>1
        <4>2. CASE m # wsWheel
          BY <1>0, <1>9, <1>t, <3>1, <4>2
        <4> QED BY <4>1, <4>2
      <3> QED BY <2>1, <3>1, <3>2
    <2>5. WatchedWhenIdle'
      <3> SUFFICES ASSUME \A w \in Scheduled : Idle(w)', wsMonitor' # NoWorker, Open'
                   PROVE  Watches(wsMonitor)'
        BY DEF WatchedWhenIdle
      <3>1. /\ wsMonitor' = wsMonitor /\ wsMonitor \in Tickers
            /\ Open /\ row' = row /\ exitThresholds' = exitThresholds
            /\ Watches(wsMonitor)
        BY <1>0, <1>9, <1>t, <2>1, <2>2 DEF Watching, WatchedWhenIdle
      <3>2. CASE exitThresholds[wsMonitor] = row.spread
        BY <3>1, <3>2 DEF Watches
      <3>3. CASE m # wsMonitor
        BY <1>0, <1>9, <1>t, <3>1, <3>3 DEF Watches
      <3>4. CASE /\ m = wsMonitor
                 /\ exitThresholds[m] = NoSpread
                 /\ wheelState[m] = AbsentRow
                 /\ job[m].pc = "idle" \/ job[m].mem.stage = "ABSENT"
        <4>1. CASE TickAbove(m) \/ TickBreach(m) \/ Ripen(m)
          BY <3>1, <3>4, <4>1 DEF TickAbove, TickBreach, Ripen, vars, Watches
        <4>2. ~TickConfirmed(m)
          BY <3>4 DEF TickConfirmed, Tick
        <4>3. CASE TickExitStep(m)
          <5>1. /\ job[m].mem.stage = "ABSENT" /\ job[m].pc # "close"
                /\ job'[m].pc = "idle" \/ job'[m].mem = job[m].mem
            BY <3>4, <4>3, TickExitMoves DEF TickExitStep
          <5>2. wheelState' = wheelState
            BY <4>3, <5>1 DEF TickExitStep
          <5> QED BY <3>1, <3>4, <5>1, <5>2 DEF Watches
        <4>4. CASE TickExitLost(m)
          <5>1. job'[m].pc = "idle" /\ wheelState' = wheelState
            BY <1>0, <4>4 DEF TickExitLost, Finish, Become, IdleJob, wheelVars
          <5> QED BY <3>1, <3>4, <5>1 DEF Watches
        <4> QED BY <1>9, <4>1, <4>2, <4>3, <4>4 DEF MonitorTick
      <3> QED BY <3>1, <3>2, <3>3, <3>4 DEF Watches
    <2> QED BY <2>3, <2>4, <2>5 DEF Watching
  <1>k. ASSUME UNCHANGED <<row, rtVars>>,
               \A v \in Workers : job'[v].pc = job[v].pc /\ job'[v].mem = job[v].mem
        PROVE  Watching'
    <2>1. \A w \in Scheduled : Idle(w)' <=> Idle(w)
      BY <1>k, TickersAreWorkers DEF Idle, rtVars, threadVars
    <2>2. Open' <=> Open
      BY <1>k DEF Open
    <2>3. UNCHANGED <<row, todo, seen, wsWheel, wsMonitor, exitThresholds, wheelState>>
      BY <1>k DEF rtVars, monitorVars, wheelVars, threadVars
    <2>4. ReadForMonitor'
      BY <2>2, <2>3 DEF Watching, ReadForMonitor
    <2>5. BuiltForMonitor'
      BY <1>0, <1>k, <2>2, <2>3 DEF Watching, BuiltForMonitor
    <2>6. WatchedWhenIdle'
      <3>1. wsMonitor # NoWorker => (Watches(wsMonitor)' <=> Watches(wsMonitor))
        BY <1>0, <1>k, <2>3 DEF Watches
      <3> QED BY <2>1, <2>2, <2>3, <3>1 DEF Watching, WatchedWhenIdle
    <2> QED BY <2>4, <2>5, <2>6 DEF Watching
  <1>10. CASE WorldStep
    <2>1. UNCHANGED <<row, rtVars>>
      BY <1>10 DEF WorldStep, BrokerStep, LoseSession, FillOrder, RejectOrder, FillStray, Expire,
                   dbVars
    <2>2. \A v \in Workers : job'[v].pc = job[v].pc /\ job'[v].mem = job[v].mem
      <3>1. ASSUME NEW w \in Workers, FillOrder(w) \/ RejectOrder(w)
            PROVE  \A v \in Workers : job'[v].pc = job[v].pc /\ job'[v].mem = job[v].mem
        <4>1. \E o : Become(w, [job[w] EXCEPT !.ord = o])
          BY <3>1, Zenon DEF FillOrder, RejectOrder
        <4>2. job[w] \in Jobs
          BY <1>0
        <4> QED BY <1>0, <4>1, <4>2 DEF Become, Jobs
      <3>2. ASSUME NEW s \in Spreads, Expire(s)
            PROVE  \A v \in Workers : job'[v].pc = job[v].pc /\ job'[v].mem = job[v].mem
        BY <1>0, <3>2 DEF Expire, Jobs
      <3>3. CASE UNCHANGED job
        BY <3>3
      <3> QED BY <1>10, <3>1, <3>2, <3>3 DEF WorldStep, BrokerStep, LoseSession, FillStray
    <2> QED BY <1>k, <2>1, <2>2
  <1>11. CASE RealtimeCrash
    <2>1. wsMonitor' = NoWorker /\ \A w \in Scheduled : todo'[w] = <<>>
      BY <1>11 DEF RealtimeCrash
    <2> QED BY <2>1, AgendaKinds DEF Watching, ReadForMonitor, BuiltForMonitor, WatchedWhenIdle
  <1>12. CASE UNCHANGED allVars
    BY <1>12, <1>k DEF allVars, vars, dbVars
  <1> QED
    BY <1>1, <1>2, <1>3, <1>4, <1>5, <1>6, <1>7, <1>8, <1>9, <1>10, <1>11, <1>12
       DEF RealtimeNext, Chore

\* As long as one thread starts monitors and refreshes them, an open position is
\* watched by the monitor that is up whenever no scheduled job is running, unless its
\* last load failed: ticks that exit, failed loads and saves and restarts included.
THEOREM OpenAlwaysWatched == OneScheduled => (RealtimeSpec => []OpenPositionWatched)
  <1> SUFFICES ASSUME OneScheduled PROVE RealtimeSpec => []OpenPositionWatched
    OBVIOUS
  <1>1. RealtimeOK /\ Streams /\ Watching /\ [RealtimeNext]_allVars => Streams' /\ Watching'
    BY StreamsStep, WatchingStep
  <1>2. Watching => OpenPositionWatched
    BY DEF Watching, WatchedWhenIdle, Watches, Open, OpenPositionWatched
  <1> QED
    BY <1>1, <1>2, StreamsStart, WatchingStart, AlwaysRealtimeOK, PTL DEF RealtimeSpec

-----------------------------------------------------------------------------
(* The engine's other promises, ticks and restarts included *)

\* The steps the monitor adds: a refresh that replaces the memory of a running exit, an
\* exit that a tick starts, one that ends without its state.
LEMMA MonitorMoves ==
    ASSUME RealtimeOK,
           \/ \E w \in Scheduled : NothingToExit(w) \/ RestartWsMonitor(w) \/ Chore(w)
           \/ \E m \in Tickers : MonitorTick(m) \/ TickExitLost(m)
    PROVE  /\ UNCHANGED <<dbVars, lock, brokerVars>>
           /\ \/ UNCHANGED job
              \/ \E m \in Tickers :
                  \/ \E r \in Rows : Become(m, [job[m] EXCEPT !.mem = r])
                  \/ \E r \in Rows, s \in Spreads :
                        /\ job[m].pc = "idle"
                        /\ Become(m, [job[m] EXCEPT !.mem = r, !.spread = s, !.pc = "decide"])
                  \/ /\ job[m].pc \in {"archive", "close"}
                     /\ Become(m, IdleJob)
  <1> USE DEF RealtimeOK, vars
  <1>0. UNCHANGED <<dbVars, lock, brokerVars>>
    BY MonitorJobSteps
  <1>1. ASSUME NEW w \in Scheduled,
               \/ NothingToExit(w) \/ RestartWsMonitor(w)
               \/ BuildWheel(w) \/ StartFails(w) \/ ArmMonitor(w) \/ LoadForMonitor(w)
        PROVE  UNCHANGED job
    BY <1>1 DEF NothingToExit, RestartWsMonitor, BuildWheel, StartFails, ArmMonitor,
                LoadForMonitor
  <1>2. ASSUME NEW m \in Tickers, TickAbove(m) \/ TickBreach(m) \/ Ripen(m)
        PROVE  UNCHANGED job
    BY <1>2 DEF TickAbove, TickBreach, Ripen
  <1>3. ASSUME NEW w \in Scheduled, ApplyToMonitor(w)
        PROVE  \/ UNCHANGED job
               \/ \E m \in Tickers, r \in Rows : Become(m, [job[m] EXCEPT !.mem = r])
    <2>1. CASE wsWheel = NoWorker
      BY <1>3, <2>1 DEF ApplyToMonitor
    <2>2. CASE wsWheel # NoWorker
      <3>1. wsWheel \in Tickers /\ seen[w] \in Rows
        BY <2>2 DEF RealtimeTypeOK
      <3>2. job' = [job EXCEPT ![wsWheel] = IF @.pc = "idle" THEN @ ELSE [@ EXCEPT !.mem = seen[w]]]
        BY <1>3, <2>2 DEF ApplyToMonitor, Rebind
      <3>3. CASE job[wsWheel].pc = "idle"
        BY <3>2, <3>3 DEF RealtimeTypeOK, TypeOK
      <3>4. CASE job[wsWheel].pc # "idle"
        BY <3>1, <3>2, <3>4 DEF Become
      <3> QED BY <3>3, <3>4
    <2> QED BY <2>1, <2>2
  <1>4. ASSUME NEW m \in Tickers, TickConfirmed(m)
        PROVE  \/ UNCHANGED job
               \/ \E r \in Rows, s \in Spreads :
                    /\ job[m].pc = "idle"
                    /\ Become(m, [job[m] EXCEPT !.mem = r, !.spread = s, !.pc = "decide"])
    <2>1. PICK r \in LoadState :
            \/ r.stage # "STAGE_1_CSP" /\ UNCHANGED <<job, jobs>>
            \/ Become(m, [job[m] EXCEPT
                      !.mem = r, !.spread = exitThresholds[m], !.pc = "decide"])
      BY <1>4 DEF TickConfirmed
    <2>2. r \in Rows /\ job[m].pc = "idle" /\ exitThresholds[m] \in Spreads
      BY <1>4, RowsTyped DEF TickConfirmed, Tick, RealtimeTypeOK
    <2> QED BY <2>1, <2>2
  <1>5. ASSUME NEW m \in Tickers, TickExitLost(m)
        PROVE  job[m].pc \in {"archive", "close"} /\ Become(m, IdleJob)
    BY <1>5 DEF TickExitLost, Finish
  <1> QED BY <1>0, <1>1, <1>2, <1>3, <1>4, <1>5 DEF Chore, MonitorTick

LEMMA MonitorKeepsLock ==
    ASSUME RealtimeOK, LockHeld,
           \/ \E w \in Scheduled : NothingToExit(w) \/ RestartWsMonitor(w) \/ Chore(w)
           \/ \E m \in Tickers : MonitorTick(m) \/ TickExitLost(m)
    PROVE  LockHeld'
  <1>1. UNCHANGED lock /\ Tickers \subseteq Workers /\ \A w \in Workers : job[w] \in Jobs
    BY MonitorMoves, TickersAreWorkers DEF RealtimeOK, WellFormed, TypeOK
  <1>2. ASSUME NEW m \in Tickers, NEW j, Become(m, j), InEntry(j) => InEntry(job[m])
        PROVE  LockHeld'
    BY <1>1, <1>2 DEF LockHeld, Become, RealtimeOK, WellFormed, TypeOK
  <1>3. ASSUME NEW m \in Tickers, NEW r \in Rows
        PROVE  InEntry([job[m] EXCEPT !.mem = r]) => InEntry(job[m])
    BY <1>1 DEF InEntry, Jobs
  <1>4. ASSUME NEW m \in Tickers, NEW r \in Rows, NEW s \in Spreads
        PROVE  ~InEntry([job[m] EXCEPT !.mem = r, !.spread = s, !.pc = "decide"])
    BY <1>1 DEF InEntry, Jobs
  <1>5. CASE UNCHANGED job
    BY <1>1, <1>5 DEF LockHeld
  <1> QED BY <1>2, <1>3, <1>4, <1>5, MonitorMoves, LiteralsTyped

\* As long as the session that holds the advisory lock lives, no two threads send entry
\* orders, also with monitors whose ticks exit and whose refreshes replace the state of a
\* running exit: nothing they do lets an entry past the lock.
THEOREM RealtimeEntriesExclusive ==
    "session_lost" \notin Faults => (RealtimeSpec => []OneEntryInFlight)
  <1> SUFFICES ASSUME "session_lost" \notin Faults
               PROVE  RealtimeSpec => []OneEntryInFlight
    OBVIOUS
  <1>1. RealtimeInit => LockHeld
    BY LockHeldStart DEF RealtimeInit
  <1>2. RealtimeOK /\ LockHeld /\ [RealtimeNext]_allVars => LockHeld'
    <2> SUFFICES ASSUME RealtimeOK, LockHeld, [RealtimeNext]_allVars
                 PROVE  LockHeld'
      OBVIOUS
    <2>1. WellFormed
      BY DEF RealtimeOK
    <2> QED BY <2>1, StepKinds, LockHeldStep, MonitorKeepsLock
  <1>3. LockHeld => OneEntryInFlight
    BY DEF LockHeld, OneEntryInFlight
  <1> QED BY <1>1, <1>2, <1>3, AlwaysRealtimeOK, PTL DEF RealtimeSpec

\* With a truthful broker the engine together with its monitors still behaves as the
\* abstract book: what a tick sells, on thresholds that may be stale and beside the hourly
\* exit, is sold behind the margin the book asks for.
THEOREM RealtimeImplementsBook == TruthfulBroker => (RealtimeSpec => ImplementsBook)
  <1> SUFFICES ASSUME TruthfulBroker
               PROVE  RealtimeSpec => ImplementsBook
    OBVIOUS
  <1>1. RealtimeInit => Book!BookInit /\ Hedged
    BY HedgedStart DEF RealtimeInit, Init, Book!BookInit
  <1>2. RealtimeOK /\ RealtimeOK' /\ Hedged /\ [RealtimeNext]_allVars => Hedged'
    <2> SUFFICES ASSUME RealtimeOK, RealtimeOK', Hedged, [RealtimeNext]_allVars
                 PROVE  Hedged'
      OBVIOUS
    <2>1. WellFormed'
      BY DEF RealtimeOK
    <2> QED BY <2>1, StepKinds, HedgedStep, MonitorKeepsHedged
  <1>3. RealtimeOK /\ Hedged /\ [RealtimeNext]_allVars => [Book!BookNext]_(Book!bookVars)
    <2> SUFFICES ASSUME RealtimeOK, Hedged, [RealtimeNext]_allVars
                 PROVE  [Book!BookNext]_(Book!bookVars)
      OBVIOUS
    <2>1. CASE [Next]_vars
      BY <2>1, EngineStepIsBookStep
    <2>2. CASE \/ \E w \in Scheduled : NothingToExit(w) \/ RestartWsMonitor(w) \/ Chore(w)
               \/ \E m \in Tickers : MonitorTick(m) \/ TickExitLost(m)
      BY <2>2, MonitorMoves DEF brokerVars, Book!bookVars
    <2> QED BY <2>1, <2>2, StepKinds
  <1> QED BY <1>1, <1>2, <1>3, AlwaysRealtimeOK, PTL DEF RealtimeSpec, ImplementsBook, Book!BookSpec

\* A running job, scheduled or started by a tick, is brought nearer to its end by whatever
\* happens to it, but for a refresh that replaces its memory and nothing else.
RunsDownInMonitor(w) ==
    job[w].pc # "idle" =>
        \/ job'[w] = [job[w] EXCEPT !.mem = job'[w].mem]
        \/ StepsLeft(job'[w]) < StepsLeft(job[w])

TickJobsRunDown == [][\A w \in Workers : RunsDownInMonitor(w)]_allVars

LEMMA MonitorRunsDown ==
    ASSUME RealtimeOK, StepsBounded,
           \/ \E w \in Scheduled : NothingToExit(w) \/ RestartWsMonitor(w) \/ Chore(w)
           \/ \E m \in Tickers : MonitorTick(m) \/ TickExitLost(m)
    PROVE  StepsBounded' /\ \A w \in Workers : RunsDownInMonitor(w)
  <1>0. /\ Tickers \subseteq Workers /\ RequoteAttempts \in Nat /\ WellFormed
        /\ \A w \in Workers : /\ job[w] \in Jobs /\ JobOK(job[w])
                              /\ job[w].tries <= RequoteAttempts
                              /\ StepsLeft(job[w]) \in 0..MostSteps
                              /\ job[w] = [job[w] EXCEPT !.mem = job[w].mem]
    BY TickersAreWorkers, BoundAssumption DEF RealtimeOK, WellFormed, JobOK, StepsBounded, Jobs
  <1>1. ASSUME NEW m \in Tickers, NEW r \in Rows, Become(m, [job[m] EXCEPT !.mem = r])
        PROVE  StepsBounded' /\ \A w \in Workers : RunsDownInMonitor(w)
    <2> DEFINE j == [job[m] EXCEPT !.mem = r]
    <2>1. /\ j \in Jobs /\ j.pc = job[m].pc /\ j.leg = job[m].leg
          /\ j.tries = job[m].tries /\ j.ord = job[m].ord /\ j.mem = r
      BY <1>0 DEF Jobs
    <2>2. Become(m, j) /\ j = [job[m] EXCEPT !.mem = j.mem]
      BY <1>1, <2>1
    <2> HIDE DEF j
    <2>3. StepsLeft(j) = StepsLeft(job[m])
      BY <2>1 DEF StepsLeft, LinesLeft, Requotes
    <2>4. StepsBounded'
      BY <1>0, <2>1, <2>2, <2>3, StepsFrame
    <2>5. \A w \in Workers : job'[w] = IF w = m THEN j ELSE job[w]
      BY <1>0, <2>2 DEF Become, WellFormed, TypeOK
    <2> QED BY <1>0, <2>2, <2>4, <2>5 DEF RunsDownInMonitor
  <1>2. ASSUME NEW m \in Tickers, NEW r \in Rows, NEW s \in Spreads, job[m].pc = "idle",
               Become(m, [job[m] EXCEPT !.mem = r, !.spread = s, !.pc = "decide"])
        PROVE  StepsBounded' /\ \A w \in Workers : RunsDownInMonitor(w)
    <2> DEFINE j == [job[m] EXCEPT !.mem = r, !.spread = s, !.pc = "decide"]
    <2>1. j \in Jobs /\ j.tries = job[m].tries /\ j.ord = "none"
      BY <1>0, <1>2 DEF Jobs, Pcs, JobOK
    <2>2. Become(m, j)
      BY <1>2
    <2> HIDE DEF j
    <2>3. StepsLeft(j) \in 0..MostSteps
      BY <1>0, <2>1, LinesTyped
    <2>4. StepsBounded'
      BY <1>0, <2>1, <2>2, <2>3, StepsFrame
    <2>5. \A w \in Workers : job'[w] = IF w = m THEN j ELSE job[w]
      BY <1>0, <2>2 DEF Become, WellFormed, TypeOK
    <2> QED BY <1>0, <1>2, <2>4, <2>5 DEF RunsDownInMonitor
  <1>3. ASSUME NEW m \in Tickers, job[m].pc # "idle", Become(m, IdleJob)
        PROVE  StepsBounded' /\ \A w \in Workers : RunsDownInMonitor(w)
    <2>1. LinesLeft(IdleJob) < LinesLeft(job[m])
      BY <1>0, <1>3, RunningLines, IdleSteps
    <2>2. StepsLeft(IdleJob) < StepsLeft(job[m]) /\ StepsLeft(IdleJob) \in 0..MostSteps
      <3>1. /\ m \in Workers /\ job[m] \in Jobs /\ job[m].tries <= RequoteAttempts
            /\ IdleJob \in Jobs /\ IdleJob.tries <= RequoteAttempts
        <4>1. m \in Workers /\ job[m] \in Jobs /\ job[m].tries <= RequoteAttempts
          BY <1>0
        <4>2. IdleJob.tries <= RequoteAttempts
          BY IdleSteps, BoundAssumption
        <4> QED BY <4>1, <4>2, IdleSteps
      <3> QED BY <2>1, <3>1, FewerLines
    <2>3. StepsBounded'
      BY <1>0, <1>3, <2>2, IdleSteps, StepsFrame
    <2>4. \A w \in Workers : job'[w] = IF w = m THEN IdleJob ELSE job[w]
      BY <1>0, <1>3 DEF Become, WellFormed, TypeOK
    <2> QED BY <1>0, <2>2, <2>3, <2>4 DEF RunsDownInMonitor
  <1>4. CASE UNCHANGED job
    BY <1>0, <1>4 DEF StepsBounded, RunsDownInMonitor, MostSteps
  <1> QED BY <1>1, <1>2, <1>3, <1>4, MonitorMoves

\* No job of the composed system, hourly or started by a tick, has more than MostSteps before
\* it, and only a refresh of its memory changes it without bringing its end nearer: neither
\* restarts nor refreshes nor ticks can keep an exit going.
THEOREM TickJobsEndInSteps == RealtimeSpec => []StepsBounded /\ TickJobsRunDown
  <1>1. RealtimeInit => StepsBounded
    <2>1. 0 \in 0..MostSteps
      BY BoundAssumption DEF MostSteps
    <2> QED BY <2>1, IdleSteps, BoundAssumption DEF RealtimeInit, Init, StepsBounded
  <1>2. RealtimeOK /\ StepsBounded /\ [RealtimeNext]_allVars =>
            StepsBounded' /\ \A w \in Workers : RunsDownInMonitor(w)
    <2> SUFFICES ASSUME RealtimeOK, StepsBounded, [RealtimeNext]_allVars
                 PROVE  StepsBounded' /\ \A w \in Workers : RunsDownInMonitor(w)
      OBVIOUS
    <2>1. WellFormed /\ \A w \in Workers : job[w] = [job[w] EXCEPT !.mem = job[w].mem]
      BY DEF RealtimeOK, WellFormed, TypeOK, Jobs
    <2>2. CASE [Next]_vars
      <3>1. StepsBounded' /\ \A w \in Workers : RunsDown(w)
        BY <2>1, <2>2, StepsRunDown
      <3>2. ASSUME NEW w \in Workers, RunsDown(w) PROVE RunsDownInMonitor(w)
        BY <2>1, <3>2 DEF RunsDown, RunsDownInMonitor
      <3> QED BY <3>1, <3>2
    <2> QED BY <2>2, StepKinds, MonitorRunsDown
  <1>3. RealtimeOK /\ StepsBounded /\ [RealtimeNext]_allVars =>
            [\A w \in Workers : RunsDownInMonitor(w)]_allVars
    BY <1>2
  <1>4. RealtimeOK /\ StepsBounded /\ [RealtimeNext]_allVars => StepsBounded'
    BY <1>2
  <1> QED BY <1>1, <1>3, <1>4, AlwaysRealtimeOK, PTL DEF RealtimeSpec, TickJobsRunDown
=============================================================================
