------------------------- MODULE SpreadEngineProofs -------------------------
(***************************************************************************)
(* Theorems about SpreadEngine for every number of threads, every set of   *)
(* spreads and every bound on jobs and requotes.                           *)
(***************************************************************************)
EXTENDS SpreadEngine, FiniteSetTheorems, TLAPS

-----------------------------------------------------------------------------
(* What a leg leads to *)

LEMMA LegsListed ==
    Legs = {"BUY_HEDGE", "BTC", "SELL_SHORT", "UNWIND", "STC"}
  BY DEF Legs, BuyLegs, SellLegs

LEMMA LiteralsTyped ==
    /\ AbsentRow \in Rows
    /\ IdleRow \in Rows
    /\ JobOK(IdleJob)
    /\ ~InEntry(IdleJob)
    /\ \A s \in Spreads : ~Claims(IdleJob, s)
  BY SpreadAssumption
     DEF AbsentRow, IdleRow, IdleJob, Rows, JobOK, Jobs, Stages, Pcs, Legs,
         BuyLegs, OrderStates, InEntry, Claims

LEMMA AtMoves ==
    ASSUME NEW w \in Workers, JobOK(job[w]), job[w].spread \in Spreads,
           NEW pc \in Pcs \ {"cancel"}, NEW leg \in Legs
    PROVE  /\ JobOK(At(w, pc, leg))
           /\ At(w, pc, leg).pc = pc
           /\ At(w, pc, leg).leg = leg
           /\ At(w, pc, leg).ord = "none"
           /\ At(w, pc, leg).spread = job[w].spread
  BY DEF At, JobOK, Jobs, OrderStates

LEMMA PcsListed == {"place", "poll", "cancel", "save", "unlock", "archive", "idle"} \subseteq Pcs
  BY DEF Pcs

LEMMA AfterFillMoves ==
    ASSUME NEW w \in Workers, JobOK(job[w]), job[w].spread \in Spreads
    PROVE  /\ JobOK(AfterFill(w))
           /\ InEntry(AfterFill(w)) <=> job[w].leg \in EntryLegs \cup {"UNWIND"}
           /\ \A s \in Spreads :
                Claims(AfterFill(w), s) <=> job[w].spread = s /\ job[w].leg \in BuyLegs
  <1>1. job[w].leg \in Legs
    BY DEF JobOK, Jobs
  <1>2. CASE job[w].leg = "BUY_HEDGE"
    <2>1. AfterFill(w) = At(w, "place", "SELL_SHORT")
      BY <1>2 DEF AfterFill
    <2> QED
      BY <1>2, <2>1, AtMoves, LegsListed, PcsListed
         DEF InEntry, Claims, EntryLegs, BuyLegs, SellLegs
  <1>3. CASE job[w].leg = "SELL_SHORT"
    <2>1. AfterFill(w) = At(w, "save", "SELL_SHORT")
      BY <1>3 DEF AfterFill
    <2> QED
      BY <1>3, <2>1, AtMoves, LegsListed, PcsListed
         DEF InEntry, Claims, EntryLegs, BuyLegs, SellLegs
  <1>4. CASE job[w].leg = "UNWIND"
    <2>1. AfterFill(w) = At(w, "unlock", "UNWIND")
      BY <1>4 DEF AfterFill
    <2> QED
      BY <1>4, <2>1, AtMoves, LegsListed, PcsListed
         DEF InEntry, Claims, EntryLegs, BuyLegs, SellLegs
  <1>5. CASE job[w].leg = "BTC"
    <2>1. AfterFill(w) = At(w, "place", "STC")
      BY <1>5 DEF AfterFill
    <2> QED
      BY <1>5, <2>1, AtMoves, LegsListed, PcsListed
         DEF InEntry, Claims, EntryLegs, BuyLegs, SellLegs
  <1>6. CASE job[w].leg = "STC"
    <2>1. AfterFill(w) = At(w, "archive", "STC")
      BY <1>6 DEF AfterFill
    <2> QED
      BY <1>6, <2>1, AtMoves, LegsListed, PcsListed
         DEF InEntry, Claims, EntryLegs, BuyLegs, SellLegs
  <1> QED BY <1>1, <1>2, <1>3, <1>4, <1>5, <1>6, LegsListed

LEMMA AfterGiveUpMoves ==
    ASSUME NEW w \in Workers, JobOK(job[w]), job[w].spread \in Spreads
    PROVE  /\ JobOK(AfterGiveUp(w))
           /\ InEntry(AfterGiveUp(w)) <=> job[w].leg \in EntryLegs \cup {"UNWIND"}
           /\ \A s \in Spreads :
                Claims(AfterGiveUp(w), s) <=> job[w].spread = s /\ job[w].leg = "SELL_SHORT"
  <1>1. job[w].leg \in Legs
    BY DEF JobOK, Jobs
  <1>2. CASE job[w].leg = "BUY_HEDGE"
    <2>1. AfterGiveUp(w) = At(w, "unlock", "BUY_HEDGE")
      BY <1>2 DEF AfterGiveUp
    <2> QED
      BY <1>2, <2>1, AtMoves, LegsListed, PcsListed
         DEF InEntry, Claims, EntryLegs, BuyLegs, SellLegs
  <1>3. CASE job[w].leg = "SELL_SHORT"
    <2>1. AfterGiveUp(w) = At(w, "place", "UNWIND")
      BY <1>3 DEF AfterGiveUp
    <2> QED
      BY <1>3, <2>1, AtMoves, LegsListed, PcsListed
         DEF InEntry, Claims, EntryLegs, BuyLegs, SellLegs
  <1>4. CASE job[w].leg = "UNWIND"
    <2>1. AfterGiveUp(w) = At(w, "unlock", "UNWIND")
      BY <1>4 DEF AfterGiveUp
    <2> QED
      BY <1>4, <2>1, AtMoves, LegsListed, PcsListed
         DEF InEntry, Claims, EntryLegs, BuyLegs, SellLegs
  <1>5. CASE job[w].leg = "BTC"
    <2>1. AfterGiveUp(w) = IdleJob
      BY <1>5 DEF AfterGiveUp
    <2> QED
      BY <1>5, <2>1, LiteralsTyped DEF EntryLegs
  <1>6. CASE job[w].leg = "STC"
    <2>1. AfterGiveUp(w) = At(w, "archive", "STC")
      BY <1>6 DEF AfterGiveUp
    <2> QED
      BY <1>6, <2>1, AtMoves, LegsListed, PcsListed
         DEF InEntry, Claims, EntryLegs, BuyLegs, SellLegs
  <1> QED BY <1>1, <1>2, <1>3, <1>4, <1>5, <1>6, LegsListed

LEMMA RequoteOrGiveUpMoves ==
    ASSUME NEW w \in Workers, JobOK(job[w]), job[w].spread \in Spreads
    PROVE  /\ JobOK(RequoteOrGiveUp(w))
           /\ InEntry(RequoteOrGiveUp(w)) <=> job[w].leg \in EntryLegs \cup {"UNWIND"}
           /\ \A s \in Spreads :
                Claims(RequoteOrGiveUp(w), s)
                    <=> job[w].spread = s /\ job[w].leg = "SELL_SHORT"
  <1>1. CASE job[w].leg \in EntryLegs /\ job[w].tries < RequoteAttempts
    <2> DEFINE n == job[w].tries + 1
               j == [job[w] EXCEPT !.pc = "place", !.tries = n, !.ord = "none"]
    <2>1. RequoteOrGiveUp(w) = j
      BY <1>1 DEF RequoteOrGiveUp
    <2>2. job[w] \in Jobs /\ n \in Nat
      BY DEF JobOK, Jobs
    <2> HIDE DEF n
    <2>3. JobOK(j)
      BY <2>2, PcsListed DEF JobOK, Jobs, OrderStates
    <2>4. j.pc = "place" /\ j.ord = "none" /\ j.leg = job[w].leg /\ j.spread = job[w].spread
      BY <2>2 DEF Jobs
    <2> HIDE DEF j
    <2> QED
      BY <1>1, <2>1, <2>3, <2>4 DEF InEntry, Claims, EntryLegs, BuyLegs, SellLegs
  <1>2. CASE ~(job[w].leg \in EntryLegs /\ job[w].tries < RequoteAttempts)
    BY <1>2, AfterGiveUpMoves DEF RequoteOrGiveUp
  <1> QED BY <1>1, <1>2

-----------------------------------------------------------------------------
(* Type correctness and well-formed jobs *)

LEMMA BecomeOK ==
    ASSUME WellFormed, NEW w \in Workers, NEW j, JobOK(j), Become(w, j)
    PROVE  /\ job' \in [Workers -> Jobs]
           /\ \A v \in Workers : JobOK(job'[v])
  BY DEF WellFormed, TypeOK, Become, JobOK

LEMMA StoreTyped ==
    ASSUME TypeOK
    PROVE  /\ LoadState \subseteq Rows
           /\ \A r \in Rows : SaveState(r) \subseteq Rows
           /\ ArchiveTrade \subseteq Nat
  BY LiteralsTyped DEF TypeOK, LoadState, SaveState, ArchiveTrade

LEMMA ExecuteTyped ==
    ASSUME TypeOK, NEW s \in Spreads, NEW leg \in Legs, Execute(s, leg)
    PROVE  hedge' \in [Spreads -> Int] /\ sold' \in [Spreads -> Int]
  <1>1. LegHedge(leg) \in Int /\ LegSold(leg) \in Int
    BY LegsListed DEF LegHedge, LegSold
  <1> QED BY <1>1 DEF TypeOK, Execute

LEMMA AbandonTyped ==
    ASSUME WellFormed, NEW w \in Workers, job[w].spread \in Spreads, Abandon(w)
    PROVE  stray' \in [Spreads -> [Legs -> Nat]]
  <1>1. job[w].leg \in Legs
    BY DEF WellFormed, JobOK, Jobs
  <1> QED BY <1>1 DEF WellFormed, TypeOK, Abandon

LEMMA WellFormedStart == Init => WellFormed
  BY LiteralsTyped
     DEF Init, WellFormed, TypeOK, AbsentRow, JobOK

LEMMA WellFormedOrderStep ==
    ASSUME WellFormed, NEW w \in Workers, OrderStep(w)
    PROVE  WellFormed'
  <1> USE DEF dbVars, brokerVars
  <1>1. job[w].pc \in {"place", "poll", "cancel"}
    BY DEF OrderStep, PlaceAccepted, PlaceReturnsNone, PollComplete, PollRejected,
           PollTimeout, PollAbandon, CancelOrder
  <1>2. JobOK(job[w]) /\ job[w] \in Jobs /\ job[w].spread \in Spreads
    BY <1>1 DEF WellFormed, JobOK
  <1>3. ASSUME NEW j, JobOK(j), Become(w, j), UNCHANGED <<dbVars, lock, hedge, sold, expired, jobs>>,
               stray' \in [Spreads -> [Legs -> Nat]]
        PROVE  WellFormed'
    BY <1>3, BecomeOK DEF WellFormed, TypeOK
  <1>4. stray \in [Spreads -> [Legs -> Nat]]
    BY DEF WellFormed, TypeOK
  <1>5. CASE PlaceAccepted(w)
    <2> DEFINE j == [job[w] EXCEPT !.pc = "poll", !.ord = "open"]
    <2>1. JobOK(j)
      BY <1>2, PcsListed DEF JobOK, Jobs, OrderStates
    <2> QED BY <1>3, <1>4, <1>5, <2>1 DEF PlaceAccepted
  <1>6. CASE PlaceReturnsNone(w)
    BY <1>2, <1>3, <1>4, <1>6, AfterGiveUpMoves, AbandonTyped DEF PlaceReturnsNone
  <1>7. CASE PollComplete(w)
    BY <1>2, <1>3, <1>4, <1>7, AfterFillMoves DEF PollComplete
  <1>8. CASE PollRejected(w)
    BY <1>2, <1>3, <1>4, <1>8, RequoteOrGiveUpMoves DEF PollRejected
  <1>9. CASE PollTimeout(w)
    <2> DEFINE j == [job[w] EXCEPT !.pc = "cancel"]
    <2>1. JobOK(j)
      BY <1>2, <1>9, PcsListed DEF PollTimeout, JobOK, Jobs
    <2> QED BY <1>3, <1>4, <1>9, <2>1 DEF PollTimeout
  <1>10. CASE PollAbandon(w)
    BY <1>2, <1>3, <1>4, <1>10, AfterGiveUpMoves, AbandonTyped DEF PollAbandon
  <1>11. CASE CancelOrder(w)
    BY <1>2, <1>3, <1>4, <1>11, RequoteOrGiveUpMoves, AbandonTyped DEF CancelOrder
  <1> QED BY <1>5, <1>6, <1>7, <1>8, <1>9, <1>10, <1>11 DEF OrderStep

LEMMA WellFormedEntryStep ==
    ASSUME WellFormed, NEW w \in Workers, StartEntry(w) \/ EntryStep(w)
    PROVE  WellFormed'
  <1> USE DEF dbVars, brokerVars
  <1>1. JobOK(job[w]) /\ job[w] \in Jobs
    BY DEF WellFormed, JobOK
  <1>2. TypeOK
    BY DEF WellFormed
  <1>3. ASSUME NEW j, JobOK(j), Become(w, j), UNCHANGED <<history, brokerVars>>,
               lock' \in Workers \cup {NoWorker}, jobs' \in Nat, row' \in Rows,
               row'.stage = "STAGE_1_CSP" => row'.spread \in Spreads
        PROVE  WellFormed'
    BY <1>3, BecomeOK DEF WellFormed, TypeOK
  <1>4. /\ lock \in Workers \cup {NoWorker} /\ jobs \in Nat /\ row \in Rows
        /\ row.stage = "STAGE_1_CSP" => row.spread \in Spreads
    BY DEF WellFormed, TypeOK
  <1>5. ASSUME NEW pc \in Pcs \ {"poll", "cancel", "place", "save", "decide"},
               NEW m \in Rows, job[w].ord = "none"
        PROVE  JobOK([job[w] EXCEPT !.mem = m, !.pc = pc])
    BY <1>1, <1>5 DEF JobOK, Jobs
  <1>6. ASSUME NEW pc \in Pcs \ {"poll", "cancel", "place", "save", "decide"},
               job[w].ord = "none"
        PROVE  JobOK([job[w] EXCEPT !.pc = pc])
    BY <1>1, <1>6 DEF JobOK, Jobs
  <1>7. {"ensure", "trylock", "gates", "unlock"}
            \subseteq Pcs \ {"poll", "cancel", "place", "save", "decide"}
    BY DEF Pcs
  <1>8. job[w].pc \notin {"poll", "cancel"} => job[w].ord = "none"
    BY <1>1 DEF JobOK
  <1>9. CASE StartEntry(w)
    <2>1. PICK r \in LoadState :
            Become(w, [job[w] EXCEPT
                !.mem = r, !.pc = IF r.stage = "ABSENT" THEN "ensure" ELSE "trylock"])
      BY <1>9 DEF StartEntry
    <2> DEFINE pc == IF r.stage = "ABSENT" THEN "ensure" ELSE "trylock"
    <2>2. r \in Rows /\ pc \in Pcs \ {"poll", "cancel", "place", "save", "decide"}
      BY <1>2, <1>7, StoreTyped
    <2>3. /\ jobs' = jobs + 1
          /\ job[w].pc = "idle"
          /\ UNCHANGED <<history, brokerVars, lock, row>>
      BY <1>9, Zenon DEF StartEntry
    <2>4. job[w].ord = "none" /\ jobs' \in Nat
      BY <1>4, <1>8, <2>3
    <2>5. Become(w, [job[w] EXCEPT !.mem = r, !.pc = pc])
      BY <2>1
    <2> HIDE DEF pc
    <2>6. JobOK([job[w] EXCEPT !.mem = r, !.pc = pc])
      BY <1>5, <2>2, <2>4
    <2> QED
      BY <1>3, <1>4, <2>3, <2>4, <2>5, <2>6
  <1>10. CASE EnsureSymbolState(w)
    <2>1. row' \in Rows /\ (row'.stage = "STAGE_1_CSP" => row'.spread \in Spreads)
      BY <1>2, <1>4, <1>10, LiteralsTyped DEF EnsureSymbolState, SaveState, IdleRow
    <2> QED
      BY <1>3, <1>4, <1>5, <1>7, <1>8, <1>10, <2>1, LiteralsTyped DEF EnsureSymbolState
  <1>11. CASE AcquireLock(w)
    BY <1>3, <1>4, <1>6, <1>7, <1>8, <1>11 DEF AcquireLock
  <1>12. CASE SkipLocked(w)
    BY <1>3, <1>4, <1>12, LiteralsTyped DEF SkipLocked, Finish
  <1>13. CASE PassGates(w)
    <2>1. PICK s \in Spreads :
            Become(w, [job[w] EXCEPT !.pc = "place", !.leg = "BUY_HEDGE", !.spread = s])
      BY <1>13 DEF PassGates
    <2>2. JobOK([job[w] EXCEPT !.pc = "place", !.leg = "BUY_HEDGE", !.spread = s])
      BY <1>1, <1>8, <1>13, LegsListed, PcsListed DEF PassGates, JobOK, Jobs
    <2> QED BY <1>3, <1>4, <1>13, <2>1, <2>2 DEF PassGates
  <1>14. CASE BlockedByGate(w)
    BY <1>3, <1>4, <1>6, <1>7, <1>8, <1>14 DEF BlockedByGate
  <1>15. CASE SaveEntry(w)
    <2> DEFINE r == [stage |-> "STAGE_1_CSP", spread |-> job[w].spread,
                     lifetime |-> job[w].mem.lifetime]
    <2>1. r \in Rows /\ r.spread \in Spreads
      BY <1>1, <1>15 DEF SaveEntry, JobOK, Jobs, Rows, Stages
    <2>2. row' \in Rows /\ (row'.stage = "STAGE_1_CSP" => row'.spread \in Spreads)
      BY <1>4, <1>15, <2>1 DEF SaveEntry, SaveState
    <2> QED BY <1>3, <1>4, <1>6, <1>7, <1>8, <1>15, <2>2 DEF SaveEntry
  <1>16. CASE Unlock(w)
    BY <1>3, <1>4, <1>16, LiteralsTyped DEF Unlock, Finish
  <1> QED
    BY <1>9, <1>10, <1>11, <1>12, <1>13, <1>14, <1>15, <1>16 DEF EntryStep

LEMMA WellFormedExitStep ==
    ASSUME WellFormed, NEW w \in Workers, StartExit(w) \/ ExitStep(w)
    PROVE  WellFormed'
  <1> USE DEF dbVars, brokerVars
  <1>1. JobOK(job[w]) /\ job[w] \in Jobs
    BY DEF WellFormed, JobOK
  <1>2. TypeOK
    BY DEF WellFormed
  <1>3. ASSUME NEW j, JobOK(j), Become(w, j), UNCHANGED <<lock, brokerVars>>,
               history' \in Nat, jobs' \in Nat, row' \in Rows,
               row'.stage = "STAGE_1_CSP" => row'.spread \in Spreads
        PROVE  WellFormed'
    BY <1>3, BecomeOK DEF WellFormed, TypeOK
  <1>4. /\ history \in Nat /\ jobs \in Nat /\ row \in Rows
        /\ row.stage = "STAGE_1_CSP" => row.spread \in Spreads
    BY DEF WellFormed, TypeOK
  <1>5. ASSUME NEW pc \in {"archive", "close"}, job[w].ord = "none"
        PROVE  JobOK([job[w] EXCEPT !.pc = pc])
    BY <1>1, <1>5 DEF JobOK, Jobs, Pcs
  <1>6. job[w].pc \notin {"poll", "cancel"} => job[w].ord = "none"
    BY <1>1 DEF JobOK
  <1>7. CASE StartExit(w)
    <2>1. PICK r \in LoadState :
            /\ r.stage = "STAGE_1_CSP"
            /\ Become(w, [job[w] EXCEPT !.mem = r, !.spread = r.spread, !.pc = "decide"])
      BY <1>7 DEF StartExit
    <2>2. r \in Rows /\ r.spread \in Spreads
      BY <1>2, <1>4, <2>1, StoreTyped DEF LoadState, AbsentRow
    <2>3. JobOK([job[w] EXCEPT !.mem = r, !.spread = r.spread, !.pc = "decide"])
      BY <1>1, <1>6, <1>7, <2>2 DEF StartExit, JobOK, Jobs, Pcs
    <2>4. jobs' = jobs + 1
      BY <1>7, Zenon DEF StartExit
    <2>5. jobs' \in Nat
      BY <1>4, <2>4
    <2> QED BY <1>3, <1>4, <1>7, <2>1, <2>3, <2>5 DEF StartExit
  <1>8. CASE NoExit(w)
    BY <1>3, <1>4, <1>8, LiteralsTyped DEF NoExit, Finish
  <1>9. CASE TriggerExit(w)
    <2>1. JobOK(At(w, "place", "BTC"))
      BY <1>1, <1>9, AtMoves, LegsListed, PcsListed DEF TriggerExit, JobOK
    <2> QED BY <1>3, <1>4, <1>9, <2>1 DEF TriggerExit
  <1>10. CASE SettleExpired(w)
    BY <1>3, <1>4, <1>5, <1>6, <1>10 DEF SettleExpired
  <1>11. CASE ArchiveExit(w)
    <2>1. history' \in Nat
      BY <1>2, <1>11, StoreTyped DEF ArchiveExit
    <2> QED BY <1>3, <1>4, <1>5, <1>6, <1>11, <2>1 DEF ArchiveExit
  <1>12. CASE SaveClosed(w)
    <2> DEFINE r == [stage |-> "CLOSED", spread |-> NoSpread,
                     lifetime |-> job[w].mem.lifetime + 1]
    <2>1. r \in Rows
      BY <1>1 DEF Jobs, Rows, Stages
    <2>2. row' \in Rows /\ (row'.stage = "STAGE_1_CSP" => row'.spread \in Spreads)
      BY <1>4, <1>12, <2>1 DEF SaveClosed, SaveState
    <2> QED BY <1>3, <1>4, <1>12, <2>2, LiteralsTyped DEF SaveClosed, Finish
  <1> QED BY <1>7, <1>8, <1>9, <1>10, <1>11, <1>12 DEF ExitStep

LEMMA WellFormedBrokerStep ==
    ASSUME WellFormed, BrokerStep
    PROVE  WellFormed'
  <1> USE DEF dbVars, brokerVars
  <1>1. TypeOK
    BY DEF WellFormed
  <1>2. ASSUME NEW w \in Workers, FillOrder(w) \/ RejectOrder(w)
        PROVE  WellFormed'
    <2>1. JobOK(job[w]) /\ job[w] \in Jobs /\ job[w].ord = "open"
      BY <1>2 DEF WellFormed, JobOK, FillOrder, RejectOrder
    <2>2. ASSUME NEW o \in {"complete", "rejected"}
          PROVE  JobOK([job[w] EXCEPT !.ord = o])
      BY <2>1, <2>2 DEF JobOK, Jobs, OrderStates
    <2>3. job[w].spread \in Spreads /\ job[w].leg \in Legs
      BY <2>1 DEF JobOK, Jobs
    <2>4. PICK o \in {"complete", "rejected"} : Become(w, [job[w] EXCEPT !.ord = o])
      BY <1>2 DEF FillOrder, RejectOrder
    <2>5. job' \in [Workers -> Jobs] /\ \A v \in Workers : JobOK(job'[v])
      BY <2>2, <2>4, BecomeOK
    <2>6. hedge' \in [Spreads -> Int] /\ sold' \in [Spreads -> Int]
      BY <1>1, <1>2, <2>3, ExecuteTyped DEF FillOrder, RejectOrder, TypeOK
    <2>7. UNCHANGED <<dbVars, lock, stray, expired, jobs>>
      BY <1>2 DEF FillOrder, RejectOrder
    <2> QED BY <2>5, <2>6, <2>7 DEF WellFormed, TypeOK
  <1>3. ASSUME NEW s \in Spreads, NEW l \in Legs, FillStray(s, l)
        PROVE  WellFormed'
    <2>1. hedge' \in [Spreads -> Int] /\ sold' \in [Spreads -> Int]
      BY <1>1, <1>3, ExecuteTyped DEF FillStray
    <2>2. stray' \in [Spreads -> [Legs -> Nat]]
      BY <1>1, <1>3 DEF FillStray, TypeOK
    <2> QED BY <1>3, <2>1, <2>2 DEF WellFormed, TypeOK, FillStray
  <1>4. ASSUME NEW s \in Spreads, Expire(s)
        PROVE  WellFormed'
    <2>1. ASSUME NEW w \in Workers
          PROVE  JobOK(job'[w])
      <3>1. JobOK(job[w]) /\ job[w] \in Jobs
        BY DEF WellFormed, JobOK
      <3>2. CASE job[w].spread = s /\ job[w].ord = "open"
        <4>1. job'[w] = [job[w] EXCEPT !.ord = "rejected"]
          BY <1>4, <3>2 DEF Expire
        <4> QED BY <3>1, <3>2, <4>1 DEF JobOK, Jobs, OrderStates
      <3>3. CASE ~(job[w].spread = s /\ job[w].ord = "open")
        BY <1>4, <3>1, <3>3 DEF Expire
      <3> QED BY <3>2, <3>3
    <2>2. job' \in [Workers -> Jobs]
      BY <1>4, <2>1 DEF Expire, JobOK
    <2>3. stray' \in [Spreads -> [Legs -> Nat]]
      BY <1>1, <1>4 DEF Expire, TypeOK
    <2> QED BY <1>4, <2>1, <2>2, <2>3 DEF WellFormed, TypeOK, Expire
  <1> QED BY <1>2, <1>3, <1>4 DEF BrokerStep

LEMMA WellFormedCrash ==
    ASSUME WellFormed, Crash
    PROVE  WellFormed'
  <1>1. ASSUME NEW s \in Spreads, NEW l \in Legs
        PROVE  stray[s][l] + Cardinality({w \in Workers : /\ job[w].ord = "open"
                                                          /\ job[w].spread = s
                                                          /\ job[w].leg = l}) \in Nat
    <2> DEFINE T == {w \in Workers : /\ job[w].ord = "open"
                                     /\ job[w].spread = s
                                     /\ job[w].leg = l}
    <2>1. Cardinality(T) \in Nat
      BY WorkerAssumption, FS_Subset, FS_CardinalityType
    <2>2. stray[s][l] \in Nat
      BY DEF WellFormed, TypeOK
    <2> QED BY <2>1, <2>2
  <1>2. stray' \in [Spreads -> [Legs -> Nat]]
    BY <1>1 DEF Crash
  <1> QED
    BY <1>2, LiteralsTyped DEF Crash, WellFormed, TypeOK, JobOK, dbVars

\* The row, the lock, the account and every thread's job always have the shape
\* the code gives them; whatever fails, and for any number of threads.
THEOREM AlwaysWellFormed == Spec => []WellFormed
  <1>1. Init => WellFormed
    BY WellFormedStart
  <1>2. WellFormed /\ [Next]_vars => WellFormed'
    <2> SUFFICES ASSUME WellFormed, [Next]_vars
                 PROVE  WellFormed'
      OBVIOUS
    <2>1. ASSUME NEW w \in Workers, StartEntry(w) \/ StartExit(w) \/ Step(w)
          PROVE  WellFormed'
      BY <2>1, WellFormedOrderStep, WellFormedEntryStep, WellFormedExitStep DEF Step
    <2>2. CASE BrokerStep
      BY <2>2, WellFormedBrokerStep
    <2>3. CASE Crash
      BY <2>3, WellFormedCrash
    <2>4. CASE LoseSession \/ UNCHANGED vars
      BY <2>4 DEF LoseSession, dbVars, brokerVars, vars, WellFormed, TypeOK
    <2> QED BY <2>1, <2>2, <2>3, <2>4 DEF Next
  <1> QED BY <1>1, <1>2, PTL DEF Spec

\* The state keeps its types, with every fault and any number of threads.
THEOREM Typing == Spec => []TypeOK
  <1>1. WellFormed => TypeOK
    BY DEF WellFormed
  <1> QED BY <1>1, AlwaysWellFormed, PTL

-----------------------------------------------------------------------------
(* Mutual exclusion of entries *)

LEMMA LockHeldStart == Init => LockHeld
  BY LiteralsTyped DEF Init, LockHeld

LEMMA LockHeldBecome ==
    ASSUME WellFormed, LockHeld, NEW w \in Workers, NEW j, Become(w, j),
           InEntry(j) => InEntry(job[w]), UNCHANGED lock
    PROVE  LockHeld'
  BY DEF WellFormed, TypeOK, LockHeld, Become

LEMMA LockHeldOrderStep ==
    ASSUME WellFormed, LockHeld, NEW w \in Workers, OrderStep(w)
    PROVE  LockHeld'
  <1>1. job[w].pc \in {"place", "poll", "cancel"} /\ UNCHANGED lock
    BY DEF OrderStep, PlaceAccepted, PlaceReturnsNone, PollComplete, PollRejected,
           PollTimeout, PollAbandon, CancelOrder
  <1>2. JobOK(job[w]) /\ job[w] \in Jobs /\ job[w].spread \in Spreads
    BY <1>1 DEF WellFormed, JobOK
  <1>3. InEntry(job[w]) <=> job[w].leg \in EntryLegs \cup {"UNWIND"}
    BY <1>1 DEF InEntry
  <1>4. CASE PlaceAccepted(w)
    <2>1. InEntry([job[w] EXCEPT !.pc = "poll", !.ord = "open"]) => InEntry(job[w])
      BY <1>2, <1>3 DEF InEntry, Jobs
    <2> QED BY <1>1, <1>4, <2>1, LockHeldBecome DEF PlaceAccepted
  <1>5. CASE PlaceReturnsNone(w)
    BY <1>1, <1>2, <1>3, <1>5, AfterGiveUpMoves, LockHeldBecome DEF PlaceReturnsNone
  <1>6. CASE PollComplete(w)
    BY <1>1, <1>2, <1>3, <1>6, AfterFillMoves, LockHeldBecome DEF PollComplete
  <1>7. CASE PollRejected(w)
    BY <1>1, <1>2, <1>3, <1>7, RequoteOrGiveUpMoves, LockHeldBecome DEF PollRejected
  <1>8. CASE PollTimeout(w)
    <2>1. InEntry([job[w] EXCEPT !.pc = "cancel"]) => InEntry(job[w])
      BY <1>2, <1>3 DEF InEntry, Jobs
    <2> QED BY <1>1, <1>8, <2>1, LockHeldBecome DEF PollTimeout
  <1>9. CASE PollAbandon(w)
    BY <1>1, <1>2, <1>3, <1>9, AfterGiveUpMoves, LockHeldBecome DEF PollAbandon
  <1>10. CASE CancelOrder(w)
    BY <1>1, <1>2, <1>3, <1>10, RequoteOrGiveUpMoves, LockHeldBecome DEF CancelOrder
  <1> QED BY <1>4, <1>5, <1>6, <1>7, <1>8, <1>9, <1>10 DEF OrderStep

LEMMA LockHeldEntryStep ==
    ASSUME WellFormed, LockHeld, NEW w \in Workers, StartEntry(w) \/ EntryStep(w)
    PROVE  LockHeld'
  <1>1. job \in [Workers -> Jobs] /\ job[w] \in Jobs
    BY DEF WellFormed, TypeOK
  <1>2. CASE StartEntry(w)
    <2>1. PICK r \in LoadState :
            Become(w, [job[w] EXCEPT
                !.mem = r, !.pc = IF r.stage = "ABSENT" THEN "ensure" ELSE "trylock"])
      BY <1>2 DEF StartEntry
    <2>2. ~InEntry([job[w] EXCEPT
                !.mem = r, !.pc = IF r.stage = "ABSENT" THEN "ensure" ELSE "trylock"])
      BY <1>1 DEF InEntry, Jobs
    <2>3. UNCHANGED lock
      BY <1>2 DEF StartEntry
    <2> QED BY <2>1, <2>2, <2>3, LockHeldBecome
  <1>3. CASE EnsureSymbolState(w)
    <2>1. ~InEntry([job[w] EXCEPT !.mem = IdleRow, !.pc = "trylock"])
      BY <1>1 DEF InEntry, Jobs
    <2> QED BY <1>3, <2>1, LockHeldBecome DEF EnsureSymbolState
  <1>4. CASE AcquireLock(w)
    <2>1. \A v \in Workers : ~InEntry(job[v])
      BY <1>4, WorkerAssumption DEF AcquireLock, LockHeld
    <2> QED BY <1>1, <1>4, <2>1 DEF AcquireLock, LockHeld, Become
  <1>5. CASE SkipLocked(w)
    BY <1>5, LiteralsTyped, LockHeldBecome DEF SkipLocked, Finish
  <1>6. CASE PassGates(w)
    <2>1. InEntry(job[w]) /\ UNCHANGED lock
      BY <1>6 DEF PassGates, InEntry
    <2>2. PICK s \in Spreads :
            Become(w, [job[w] EXCEPT !.pc = "place", !.leg = "BUY_HEDGE", !.spread = s])
      BY <1>6 DEF PassGates
    <2> QED BY <2>1, <2>2, LockHeldBecome
  <1>7. CASE BlockedByGate(w)
    <2>1. InEntry(job[w])
      BY <1>7 DEF BlockedByGate, InEntry
    <2> QED BY <1>7, <2>1, LockHeldBecome DEF BlockedByGate
  <1>8. CASE SaveEntry(w)
    <2>1. InEntry(job[w])
      BY <1>8 DEF SaveEntry, InEntry
    <2> QED BY <1>8, <2>1, LockHeldBecome DEF SaveEntry
  <1>9. CASE Unlock(w)
    <2>1. InEntry(job[w])
      BY <1>9 DEF Unlock, InEntry
    <2>2. \A v \in Workers : InEntry(job[v]) => v = w
      BY <2>1 DEF LockHeld
    <2>3. job' = [job EXCEPT ![w] = IdleJob]
      BY <1>9 DEF Unlock, Finish, Become
    <2> QED BY <1>1, <2>2, <2>3, LiteralsTyped DEF LockHeld
  <1> QED BY <1>2, <1>3, <1>4, <1>5, <1>6, <1>7, <1>8, <1>9 DEF EntryStep

LEMMA LockHeldExitStep ==
    ASSUME WellFormed, LockHeld, NEW w \in Workers, StartExit(w) \/ ExitStep(w)
    PROVE  LockHeld'
  <1>1. job[w] \in Jobs /\ JobOK(job[w])
    BY DEF WellFormed, JobOK
  <1>2. UNCHANGED lock
    BY DEF StartExit, ExitStep, NoExit, TriggerExit, SettleExpired, ArchiveExit, SaveClosed
  <1>3. PICK j : Become(w, j) /\ ~InEntry(j)
    <2>1. CASE StartExit(w)
      <3>1. PICK r \in LoadState :
              Become(w, [job[w] EXCEPT !.mem = r, !.spread = r.spread, !.pc = "decide"])
        BY <2>1 DEF StartExit
      <3>2. ~InEntry([job[w] EXCEPT !.mem = r, !.spread = r.spread, !.pc = "decide"])
        BY <1>1 DEF InEntry, Jobs
      <3> QED BY <3>1, <3>2
    <2>2. CASE NoExit(w) \/ SaveClosed(w)
      BY <2>2, LiteralsTyped DEF NoExit, SaveClosed, Finish
    <2>3. CASE TriggerExit(w)
      <3>1. ~InEntry(At(w, "place", "BTC"))
        BY <1>1, <2>3, AtMoves, LegsListed, PcsListed
           DEF TriggerExit, JobOK, InEntry, EntryLegs
      <3> QED BY <2>3, <3>1 DEF TriggerExit
    <2>4. CASE SettleExpired(w)
      <3>1. ~InEntry([job[w] EXCEPT !.pc = "archive"])
        BY <1>1 DEF InEntry, Jobs
      <3> QED BY <2>4, <3>1 DEF SettleExpired
    <2>5. CASE ArchiveExit(w)
      <3>1. ~InEntry([job[w] EXCEPT !.pc = "close"])
        BY <1>1 DEF InEntry, Jobs
      <3> QED BY <2>5, <3>1 DEF ArchiveExit
    <2> QED BY <2>1, <2>2, <2>3, <2>4, <2>5 DEF ExitStep
  <1> QED BY <1>2, <1>3, LockHeldBecome

LEMMA LockHeldBrokerStep ==
    ASSUME WellFormed, LockHeld, BrokerStep
    PROVE  LockHeld'
  <1>1. job \in [Workers -> Jobs]
    BY DEF WellFormed, TypeOK
  <1>2. UNCHANGED lock
    BY DEF BrokerStep, FillOrder, RejectOrder, Expire, FillStray
  <1>3. ASSUME NEW v \in Workers
        PROVE  InEntry(job'[v]) <=> InEntry(job[v])
    <2>1. job'[v] = job[v] \/ \E o \in OrderStates : job'[v] = [job[v] EXCEPT !.ord = o]
      BY <1>1 DEF BrokerStep, FillOrder, RejectOrder, Expire, FillStray, Become, OrderStates
    <2> QED BY <1>1, <2>1 DEF InEntry, Jobs
  <1> QED BY <1>2, <1>3 DEF LockHeld

LEMMA LockHeldStep ==
    ASSUME "session_lost" \notin Faults, WellFormed, LockHeld, [Next]_vars
    PROVE  LockHeld'
  <1>1. ASSUME NEW w \in Workers, StartEntry(w) \/ StartExit(w) \/ Step(w)
        PROVE  LockHeld'
    BY <1>1, LockHeldOrderStep, LockHeldEntryStep, LockHeldExitStep DEF Step
  <1>2. CASE BrokerStep
    BY <1>2, LockHeldBrokerStep
  <1>3. CASE Crash
    BY <1>3, LiteralsTyped DEF Crash, LockHeld
  <1>4. CASE LoseSession \/ UNCHANGED vars
    BY <1>4 DEF LoseSession, vars, LockHeld
  <1> QED BY <1>1, <1>2, <1>3, <1>4 DEF Next

\* At most one thread at a time is inside execute_daily_cycle's locked part, for
\* any number of threads, whatever fails but the session that holds the lock.
THEOREM EntriesExclusive ==
    "session_lost" \notin Faults => (Spec => []OneEntryInFlight)
  <1> SUFFICES ASSUME "session_lost" \notin Faults
               PROVE  Spec => []OneEntryInFlight
    OBVIOUS
  <1>1. Init => LockHeld
    BY LockHeldStart
  <1>2. WellFormed /\ LockHeld /\ [Next]_vars => LockHeld'
    BY LockHeldStep
  <1>3. LockHeld => OneEntryInFlight
    BY DEF LockHeld, OneEntryInFlight
  <1> QED BY <1>1, <1>2, <1>3, AlwaysWellFormed, PTL DEF Spec

-----------------------------------------------------------------------------
(* Never naked short *)

\* Two finite sets that agree off one element differ in size by that element.
LEMMA DifferByOne ==
    ASSUME NEW A, NEW B, NEW x, IsFiniteSet(A), IsFiniteSet(B),
           \A y : y # x => (y \in A <=> y \in B)
    PROVE  /\ Cardinality(A) \in Nat
           /\ Cardinality(B) \in Nat
           /\ (x \in A <=> x \in B) => Cardinality(B) = Cardinality(A)
           /\ x \in A /\ x \notin B => Cardinality(B) = Cardinality(A) - 1
           /\ x \notin A /\ x \in B => Cardinality(B) = Cardinality(A) + 1
  <1>1. Cardinality(A) \in Nat /\ Cardinality(B) \in Nat
    BY FS_CardinalityType
  <1>2. CASE x \in A <=> x \in B
    <2>1. A = B
      BY <1>2
    <2> QED BY <1>1, <2>1
  <1>3. CASE x \in A /\ x \notin B
    <2>1. B = A \ {x}
      BY <1>3
    <2> QED BY <1>1, <1>3, <2>1, FS_RemoveElement
  <1>4. CASE x \notin A /\ x \in B
    <2>1. B = A \cup {x}
      BY <1>4
    <2> QED BY <1>1, <1>4, <2>1, FS_AddElement
  <1> QED BY <1>2, <1>3, <1>4

LEMMA ClaimantsFinite ==
    ASSUME NEW s
    PROVE  IsFiniteSet(Claimants(s)) /\ Cardinality(Claimants(s)) \in Nat
  BY WorkerAssumption, FS_Subset, FS_CardinalityType DEF Claimants

\* One thread moves on: the claims on s change by that thread's claim.
LEMMA ClaimantsMove ==
    ASSUME WellFormed, NEW w \in Workers, NEW j, Become(w, j), NEW s
    PROVE  /\ Cardinality(Claimants(s)) \in Nat
           /\ Cardinality(Claimants(s))' \in Nat
           /\ (Claims(job[w], s) <=> Claims(j, s))
                => Cardinality(Claimants(s))' = Cardinality(Claimants(s))
           /\ Claims(job[w], s) /\ ~Claims(j, s)
                => Cardinality(Claimants(s))' = Cardinality(Claimants(s)) - 1
           /\ ~Claims(job[w], s) /\ Claims(j, s)
                => Cardinality(Claimants(s))' = Cardinality(Claimants(s)) + 1
  <1> DEFINE A == {v \in Workers : Claims(job[v], s)}
             B == {v \in Workers : Claims(job'[v], s)}
  <1>1. IsFiniteSet(A) /\ IsFiniteSet(B)
    BY WorkerAssumption, FS_Subset
  <1>2. \A v \in Workers : v # w => job'[v] = job[v]
    BY DEF WellFormed, TypeOK, Become
  <1>3. job'[w] = j
    BY DEF WellFormed, TypeOK, Become
  <1>4. \A v : v # w => (v \in A <=> v \in B)
    BY <1>2
  <1>5. w \in A <=> Claims(job[w], s)
    OBVIOUS
  <1>6. w \in B <=> Claims(j, s)
    BY <1>3
  <1>7. Claimants(s) = A
    BY DEF Claimants
  <1>8. Claimants(s)' = B
    BY DEF Claimants, Claims
  <1> HIDE DEF A, B
  <1> QED BY <1>1, <1>4, <1>5, <1>6, <1>7, <1>8, DifferByOne

\* A step of one thread that trades nothing and adds no claim keeps Hedged.
LEMMA HedgedBecome ==
    ASSUME Hedged, WellFormed', NEW w \in Workers, NEW j, Become(w, j),
           j.pc = "cancel" => j.ord # "complete",
           j.ord = "open" => j.spread \notin expired,
           UNCHANGED brokerVars,
           \A s \in Spreads : Claims(j, s) => Claims(job[w], s)
    PROVE  Hedged'
  <1> USE DEF brokerVars
  <1>1. ASSUME NEW v \in Workers
        PROVE  /\ job'[v].pc = "cancel" => job'[v].ord # "complete"
               /\ job'[v].ord = "open" => job'[v].spread \notin expired'
    BY DEF Hedged, WellFormed, TypeOK, Become
  <1>2. ASSUME NEW s \in Spreads \ expired'
        PROVE  hedge'[s] - sold'[s] >= Cardinality(Claimants(s))' + StraySells(s)'
    <2>1. hedge[s] - sold[s] >= Cardinality(Claimants(s)) + StraySells(s)
      BY DEF Hedged, MarginCovered
    <2>2. Cardinality(Claimants(s))' <= Cardinality(Claimants(s))
      BY ClaimantsMove DEF Hedged
    <2>3. StraySells(s)' = StraySells(s)
      BY DEF StraySells
    <2>4. /\ hedge[s] \in Int /\ sold[s] \in Int /\ StraySells(s) \in Int
          /\ Cardinality(Claimants(s)) \in Nat /\ Cardinality(Claimants(s))' \in Nat
      BY ClaimantsMove, LegsListed DEF Hedged, WellFormed, TypeOK, StraySells
    <2>5. hedge'[s] = hedge[s] /\ sold'[s] = sold[s]
      OBVIOUS
    <2> QED BY <2>1, <2>2, <2>3, <2>4, <2>5
  <1>3. MarginCovered'
    BY <1>2 DEF MarginCovered
  <1> QED BY <1>1, <1>3 DEF Hedged

\* An unwind or STC order that is left working takes its claim along.
LEMMA HedgedAbandon ==
    ASSUME Hedged, WellFormed', NEW w \in Workers, PollAbandon(w), job[w].ord = "open"
    PROVE  Hedged'
  <1> DEFINE j == AfterGiveUp(w)
             s0 == job[w].spread
             l0 == job[w].leg
  <1>1. /\ JobOK(job[w]) /\ job[w] \in Jobs /\ s0 \in Spreads
        /\ l0 \in {"UNWIND", "STC"} /\ job[w].pc = "poll"
    BY DEF Hedged, WellFormed, JobOK, PollAbandon, UncancelledLegs
  <1>2. Become(w, j) /\ Abandon(w) /\ UNCHANGED <<hedge, sold, expired>>
    BY DEF PollAbandon
  <1>3. /\ j.pc = "cancel" => j.ord # "complete"
        /\ j.ord # "open"
    <2>1. j = At(w, "unlock", "UNWIND") \/ j = At(w, "archive", "STC")
      BY <1>1 DEF AfterGiveUp
    <2>2. j.ord = "none"
      BY <1>1, <2>1, AtMoves, LegsListed, PcsListed
    <2> QED BY <2>2
  <1>4. \A s \in Spreads : ~Claims(j, s)
    BY <1>1, AfterGiveUpMoves
  <1>5. Claims(job[w], s0)
    BY <1>1 DEF Claims, SellLegs
  <1>6. ASSUME NEW s \in Spreads
        PROVE  /\ s # s0 => ~Claims(job[w], s)
               /\ StraySells(s)' = StraySells(s) + (IF s = s0 THEN 1 ELSE 0)
    BY <1>1, <1>2, LegsListed DEF Claims, StraySells, Abandon, Hedged, WellFormed, TypeOK
  <1> HIDE DEF j, s0, l0
  <1>7. ASSUME NEW v \in Workers
        PROVE  /\ job'[v].pc = "cancel" => job'[v].ord # "complete"
               /\ job'[v].ord = "open" => job'[v].spread \notin expired'
    BY <1>2, <1>3 DEF Hedged, WellFormed, TypeOK, Become
  <1>8. ASSUME NEW s \in Spreads \ expired'
        PROVE  hedge'[s] - sold'[s] >= Cardinality(Claimants(s))' + StraySells(s)'
    <2>1. hedge[s] - sold[s] >= Cardinality(Claimants(s)) + StraySells(s)
      BY <1>2 DEF Hedged, MarginCovered
    <2>2. Cardinality(Claimants(s))' = Cardinality(Claimants(s)) - (IF s = s0 THEN 1 ELSE 0)
      BY <1>2, <1>4, <1>5, <1>6, ClaimantsMove DEF Hedged
    <2>3. /\ hedge[s] \in Int /\ sold[s] \in Int /\ StraySells(s) \in Int
          /\ Cardinality(Claimants(s)) \in Nat
      BY ClaimantsFinite, LegsListed DEF Hedged, WellFormed, TypeOK, StraySells
    <2> QED BY <1>2, <1>6, <2>1, <2>2, <2>3
  <1>9. MarginCovered'
    BY <1>8 DEF MarginCovered
  <1>10. \A s \in expired' : /\ hedge'[s] = 0
                             /\ sold'[s] = 0
                             /\ \A l \in Legs : stray'[s][l] = 0
    <2>1. s0 \notin expired
      BY DEF Hedged, s0
    <2> QED BY <1>2, <2>1 DEF Hedged, Abandon, WellFormed, TypeOK, s0
  <1> QED BY <1>7, <1>9, <1>10 DEF Hedged

LEMMA NoneMoves ==
    ASSUME NEW w \in Workers, JobOK(job[w]), job[w].spread \in Spreads
    PROVE  /\ AfterFill(w).ord = "none"
           /\ AfterGiveUp(w).ord = "none"
           /\ RequoteOrGiveUp(w).ord = "none"
  <1>1. job[w].leg \in Legs /\ job[w] \in Jobs
    BY DEF JobOK, Jobs
  <1>2. \A pc \in {"place", "save", "unlock", "archive"}, l \in Legs : At(w, pc, l).ord = "none"
    BY AtMoves, PcsListed
  <1>3. AfterFill(w).ord = "none"
    BY <1>1, <1>2, LegsListed DEF AfterFill
  <1>4. IdleJob.ord = "none"
    BY DEF IdleJob
  <1>5. AfterGiveUp(w).ord = "none"
    BY <1>1, <1>2, <1>4, LegsListed DEF AfterGiveUp
  <1>6. RequoteOrGiveUp(w).ord = "none"
    <2>1. [job[w] EXCEPT !.pc = "place", !.tries = job[w].tries + 1, !.ord = "none"].ord = "none"
      BY <1>1 DEF Jobs
    <2> QED BY <1>5, <2>1 DEF RequoteOrGiveUp
  <1> QED BY <1>3, <1>5, <1>6

LEMMA HedgedOrderStep ==
    ASSUME TruthfulBroker, Hedged, WellFormed', NEW w \in Workers, OrderStep(w)
    PROVE  Hedged'
  <1>1. job[w].pc \in {"place", "poll", "cancel"}
    BY DEF OrderStep, PlaceAccepted, PlaceReturnsNone, PollComplete, PollRejected,
           PollTimeout, PollAbandon, CancelOrder
  <1>2. JobOK(job[w]) /\ job[w] \in Jobs /\ job[w].spread \in Spreads
    BY <1>1 DEF Hedged, WellFormed, JobOK
  <1>3. /\ "late_fill" \notin Faults
        /\ "lost_reply" \notin Faults
        /\ "status_error" \notin Faults
    BY DEF TruthfulBroker
  <1>4. CASE PlaceAccepted(w)
    <2> DEFINE j == [job[w] EXCEPT !.pc = "poll", !.ord = "open"]
    <2>1. /\ j.pc = "poll" /\ j.ord = "open" /\ j.spread = job[w].spread /\ j.leg = job[w].leg
          /\ job[w].pc = "place" /\ job[w].ord = "none" /\ job[w].spread \notin expired
      BY <1>2, <1>4 DEF PlaceAccepted, JobOK, Jobs
    <2>2. Become(w, j) /\ UNCHANGED brokerVars
      BY <1>4 DEF PlaceAccepted
    <2> HIDE DEF j
    <2>3. \A s \in Spreads : Claims(j, s) => Claims(job[w], s)
      BY <2>1 DEF Claims
    <2> QED BY <2>1, <2>2, <2>3, HedgedBecome
  <1>5. CASE PlaceReturnsNone(w)
    <2>1. Become(w, AfterGiveUp(w)) /\ UNCHANGED brokerVars /\ job[w].pc = "place"
      BY <1>3, <1>5 DEF PlaceReturnsNone, brokerVars
    <2>2. job[w].ord = "none"
      BY <1>2, <2>1 DEF JobOK
    <2>3. \A s \in Spreads : Claims(AfterGiveUp(w), s) => Claims(job[w], s)
      BY <1>2, <2>1, <2>2, AfterGiveUpMoves DEF Claims, SellLegs
    <2> QED BY <1>2, <2>1, <2>3, NoneMoves, HedgedBecome
  <1>6. CASE PollComplete(w)
    <2>1. Become(w, AfterFill(w)) /\ UNCHANGED brokerVars /\ job[w].ord = "complete"
      BY <1>6 DEF PollComplete
    <2>2. \A s \in Spreads : Claims(AfterFill(w), s) => Claims(job[w], s)
      BY <1>2, <2>1, AfterFillMoves DEF Claims
    <2> QED BY <1>2, <2>1, <2>2, NoneMoves, HedgedBecome
  <1>7. CASE PollRejected(w)
    <2>1. /\ Become(w, RequoteOrGiveUp(w)) /\ UNCHANGED brokerVars
          /\ job[w].pc = "poll" /\ job[w].ord = "rejected"
      BY <1>7 DEF PollRejected
    <2>2. \A s \in Spreads : Claims(RequoteOrGiveUp(w), s) => Claims(job[w], s)
      BY <1>2, <2>1, RequoteOrGiveUpMoves DEF Claims, SellLegs
    <2> QED BY <1>2, <2>1, <2>2, NoneMoves, HedgedBecome
  <1>8. CASE PollTimeout(w)
    <2> DEFINE j == [job[w] EXCEPT !.pc = "cancel"]
    <2>1. Become(w, j) /\ UNCHANGED brokerVars /\ job[w].pc = "poll"
      BY <1>8 DEF PollTimeout
    <2>2. job[w].ord = "open"
      BY <1>3, <1>8 DEF PollTimeout, Unsettled
    <2>3. j.pc = "cancel" /\ j.ord = "open" /\ j.spread = job[w].spread /\ j.leg = job[w].leg
      BY <1>2, <2>2 DEF Jobs
    <2>4. j.spread \notin expired
      BY <2>2, <2>3 DEF Hedged
    <2> HIDE DEF j
    <2>5. \A s \in Spreads : Claims(j, s) => Claims(job[w], s)
      BY <2>1, <2>2, <2>3 DEF Claims
    <2> QED BY <2>1, <2>3, <2>4, <2>5, HedgedBecome
  <1>9. CASE PollAbandon(w)
    <2>1. CASE job[w].ord = "open"
      BY <1>9, <2>1, HedgedAbandon
    <2>2. CASE job[w].ord # "open"
      <3>1. /\ Become(w, AfterGiveUp(w)) /\ UNCHANGED brokerVars
            /\ job[w].leg # "SELL_SHORT"
        BY <1>9, <2>2 DEF PollAbandon, brokerVars, UncancelledLegs
      <3>2. \A s \in Spreads : Claims(AfterGiveUp(w), s) => Claims(job[w], s)
        BY <1>2, <3>1, AfterGiveUpMoves
      <3> QED BY <1>2, <3>1, <3>2, NoneMoves, HedgedBecome
    <2> QED BY <2>1, <2>2
  <1>10. CASE CancelOrder(w)
    <2>1. /\ Become(w, RequoteOrGiveUp(w)) /\ UNCHANGED brokerVars
          /\ job[w].pc = "cancel"
      BY <1>3, <1>10 DEF CancelOrder, brokerVars
    <2>2. job[w].ord # "complete"
      BY <2>1 DEF Hedged
    <2>3. \A s \in Spreads : Claims(RequoteOrGiveUp(w), s) => Claims(job[w], s)
      BY <1>2, <2>1, <2>2, RequoteOrGiveUpMoves DEF Claims, SellLegs
    <2> QED BY <1>2, <2>1, <2>3, NoneMoves, HedgedBecome
  <1> QED BY <1>4, <1>5, <1>6, <1>7, <1>8, <1>9, <1>10 DEF OrderStep

LEMMA HedgedEntryExitStep ==
    ASSUME Hedged, WellFormed', NEW w \in Workers,
           StartEntry(w) \/ EntryStep(w) \/ StartExit(w) \/ ExitStep(w)
    PROVE  Hedged'
  <1>1. job[w] \in Jobs /\ JobOK(job[w])
    BY DEF Hedged, WellFormed, JobOK
  <1>2. job[w].pc \notin {"poll", "cancel"} /\ job[w].ord = "none"
    BY <1>1 DEF JobOK, StartEntry, EntryStep, StartExit, ExitStep, EnsureSymbolState,
       AcquireLock, SkipLocked, PassGates, BlockedByGate, SaveEntry, Unlock,
       NoExit, TriggerExit, SettleExpired, ArchiveExit, SaveClosed
  <1>3. UNCHANGED brokerVars
    BY DEF StartEntry, EntryStep, StartExit, ExitStep, EnsureSymbolState,
       AcquireLock, SkipLocked, PassGates, BlockedByGate, SaveEntry, Unlock,
       NoExit, TriggerExit, SettleExpired, ArchiveExit, SaveClosed
  <1>4. ASSUME NEW j, Become(w, j), j.ord = "none", \A s \in Spreads : ~Claims(j, s)
        PROVE  Hedged'
    BY <1>3, <1>4, HedgedBecome
  <1>5. ASSUME NEW m, NEW pc \in Pcs \ {"place", "poll", "cancel"},
               Become(w, [job[w] EXCEPT !.mem = m, !.pc = pc])
        PROVE  Hedged'
    <2> DEFINE j == [job[w] EXCEPT !.mem = m, !.pc = pc]
    <2>1. j.ord = "none" /\ j.pc = pc
      BY <1>1, <1>2 DEF Jobs
    <2> HIDE DEF j
    <2>2. \A s \in Spreads : ~Claims(j, s)
      BY <2>1 DEF Claims
    <2> QED BY <1>4, <1>5, <2>1, <2>2 DEF j
  <1>6. ASSUME NEW pc \in Pcs \ {"place", "poll", "cancel"},
               Become(w, [job[w] EXCEPT !.pc = pc])
        PROVE  Hedged'
    <2> DEFINE j == [job[w] EXCEPT !.pc = pc]
    <2>1. j.ord = "none" /\ j.pc = pc
      BY <1>1, <1>2 DEF Jobs
    <2> HIDE DEF j
    <2>2. \A s \in Spreads : ~Claims(j, s)
      BY <2>1 DEF Claims
    <2> QED BY <1>4, <1>6, <2>1, <2>2 DEF j
  <1>7. {"ensure", "trylock", "gates", "unlock", "decide", "archive", "close"}
            \subseteq Pcs \ {"place", "poll", "cancel"}
    BY DEF Pcs
  <1>8. Finish(w) => Hedged'
    <2>1. IdleJob.ord = "none"
      BY DEF IdleJob
    <2> QED BY <1>4, <2>1, LiteralsTyped DEF Finish
  <1>9. CASE StartEntry(w)
    <2>1. PICK r \in LoadState :
            Become(w, [job[w] EXCEPT
                !.mem = r, !.pc = IF r.stage = "ABSENT" THEN "ensure" ELSE "trylock"])
      BY <1>9 DEF StartEntry
    <2> DEFINE pc == IF r.stage = "ABSENT" THEN "ensure" ELSE "trylock"
    <2>2. pc \in Pcs \ {"place", "poll", "cancel"}
      BY <1>7
    <2>3. Become(w, [job[w] EXCEPT !.mem = r, !.pc = pc])
      BY <2>1
    <2> HIDE DEF pc
    <2> QED BY <1>5, <2>2, <2>3
  <1>10. CASE EnsureSymbolState(w)
    BY <1>5, <1>7, <1>10 DEF EnsureSymbolState
  <1>11. CASE AcquireLock(w) \/ BlockedByGate(w) \/ SaveEntry(w) \/ SettleExpired(w)
               \/ ArchiveExit(w)
    BY <1>6, <1>7, <1>11
       DEF AcquireLock, BlockedByGate, SaveEntry, SettleExpired, ArchiveExit
  <1>12. CASE SkipLocked(w) \/ Unlock(w) \/ NoExit(w) \/ SaveClosed(w)
    BY <1>8, <1>12 DEF SkipLocked, Unlock, NoExit, SaveClosed
  <1>13. CASE PassGates(w)
    <2>1. PICK s0 \in Spreads :
            Become(w, [job[w] EXCEPT !.pc = "place", !.leg = "BUY_HEDGE", !.spread = s0])
      BY <1>13 DEF PassGates
    <2> DEFINE j == [job[w] EXCEPT !.pc = "place", !.leg = "BUY_HEDGE", !.spread = s0]
    <2>2. j.ord = "none" /\ j.leg = "BUY_HEDGE"
      BY <1>1, <1>2 DEF Jobs
    <2>3. Become(w, j)
      BY <2>1
    <2> HIDE DEF j
    <2>4. \A s \in Spreads : ~Claims(j, s)
      BY <2>2 DEF Claims, SellLegs
    <2> QED BY <1>4, <2>2, <2>3, <2>4
  <1>14. CASE StartExit(w)
    <2>1. PICK r \in LoadState :
            Become(w, [job[w] EXCEPT !.mem = r, !.spread = r.spread, !.pc = "decide"])
      BY <1>14 DEF StartExit
    <2> DEFINE j == [job[w] EXCEPT !.mem = r, !.spread = r.spread, !.pc = "decide"]
    <2>2. j.ord = "none" /\ j.pc = "decide"
      BY <1>1, <1>2 DEF Jobs
    <2>3. Become(w, j)
      BY <2>1
    <2> HIDE DEF j
    <2>4. \A s \in Spreads : ~Claims(j, s)
      BY <2>2 DEF Claims
    <2> QED BY <1>4, <2>2, <2>3, <2>4
  <1>15. CASE TriggerExit(w)
    <2>1. job[w].spread \in Spreads /\ Become(w, At(w, "place", "BTC"))
      BY <1>1, <1>15 DEF TriggerExit, JobOK
    <2>2. At(w, "place", "BTC").ord = "none" /\ At(w, "place", "BTC").leg = "BTC"
      BY <1>1, <2>1, AtMoves, LegsListed, PcsListed
    <2>3. \A s \in Spreads : ~Claims(At(w, "place", "BTC"), s)
      BY <2>2 DEF Claims, SellLegs
    <2> QED BY <1>4, <2>1, <2>2, <2>3
  <1> QED
    BY <1>9, <1>10, <1>11, <1>12, <1>13, <1>14, <1>15 DEF EntryStep, ExitStep

\* What one trade does to the margin, the strays and the claims of its spread.
LEMMA ExecuteMargin ==
    ASSUME TypeOK, NEW s \in Spreads, NEW leg \in Legs, Execute(s, leg)
    PROVE  /\ \A t \in Spreads : t # s => hedge'[t] = hedge[t] /\ sold'[t] = sold[t]
           /\ leg \in BuyLegs => hedge'[s] - sold'[s] = hedge[s] - sold[s] + 1
           /\ leg \in SellLegs => hedge'[s] - sold'[s] = hedge[s] - sold[s] - 1
  <1>1. hedge[s] \in Int /\ sold[s] \in Int
    BY DEF TypeOK
  <1>2. hedge'[s] = hedge[s] + LegHedge(leg) /\ sold'[s] = sold[s] + LegSold(leg)
    BY DEF TypeOK, Execute
  <1>3. /\ leg \in BuyLegs => LegHedge(leg) - LegSold(leg) = 1
        /\ leg \in SellLegs => LegHedge(leg) - LegSold(leg) = -1
        /\ LegHedge(leg) \in Int /\ LegSold(leg) \in Int
    BY LegsListed DEF LegHedge, LegSold, BuyLegs, SellLegs
  <1>4. \A t \in Spreads : t # s => hedge'[t] = hedge[t] /\ sold'[t] = sold[t]
    BY DEF TypeOK, Execute
  <1> QED BY <1>1, <1>2, <1>3, <1>4

LEMMA HedgedFill ==
    ASSUME TruthfulBroker, Hedged, WellFormed', NEW w \in Workers, FillOrder(w)
    PROVE  Hedged'
  <1> DEFINE j == [job[w] EXCEPT !.ord = "complete"]
             s0 == job[w].spread
  <1>1. /\ job[w] \in Jobs /\ job[w].pc = "poll" /\ job[w].ord = "open"
        /\ s0 \in Spreads /\ s0 \notin expired /\ job[w].leg \in Legs
    BY DEF Hedged, WellFormed, JobOK, Jobs, FillOrder, TruthfulBroker
  <1>2. Become(w, j) /\ Execute(s0, job[w].leg) /\ UNCHANGED <<stray, expired>>
    BY DEF FillOrder
  <1>3. j.pc = "poll" /\ j.ord = "complete" /\ j.spread = s0 /\ j.leg = job[w].leg
    BY <1>1 DEF Jobs
  <1> HIDE DEF j
  <1>4. ASSUME NEW v \in Workers
        PROVE  /\ job'[v].pc = "cancel" => job'[v].ord # "complete"
               /\ job'[v].ord = "open" => job'[v].spread \notin expired'
    BY <1>2, <1>3 DEF Hedged, WellFormed, TypeOK, Become
  <1>5. TypeOK /\ WellFormed
    BY DEF Hedged, WellFormed
  <1>6. ASSUME NEW s \in Spreads \ expired'
        PROVE  hedge'[s] - sold'[s] >= Cardinality(Claimants(s))' + StraySells(s)'
    <2>1. hedge[s] - sold[s] >= Cardinality(Claimants(s)) + StraySells(s)
      BY <1>2 DEF Hedged, MarginCovered
    <2>2. StraySells(s)' = StraySells(s)
      BY <1>2 DEF StraySells
    <2>3. /\ hedge[s] \in Int /\ sold[s] \in Int /\ StraySells(s) \in Int
          /\ Cardinality(Claimants(s)) \in Nat
      BY <1>5, ClaimantsFinite, LegsListed DEF TypeOK, StraySells
    <2>4. CASE s # s0
      <3>1. ~Claims(job[w], s) /\ ~Claims(j, s)
        BY <1>3, <2>4 DEF Claims
      <3>2. Cardinality(Claimants(s))' = Cardinality(Claimants(s))
        BY <1>2, <1>5, <3>1, ClaimantsMove
      <3>3. hedge'[s] = hedge[s] /\ sold'[s] = sold[s]
        BY <1>1, <1>2, <1>5, <2>4, ExecuteMargin
      <3> QED BY <2>1, <2>2, <2>3, <3>2, <3>3
    <2>5. CASE s = s0 /\ job[w].leg \in BuyLegs
      <3>1. ~Claims(job[w], s) /\ Claims(j, s)
        BY <1>1, <1>3, <2>5 DEF Claims, BuyLegs, SellLegs
      <3>2. Cardinality(Claimants(s))' = Cardinality(Claimants(s)) + 1
        BY <1>2, <1>5, <3>1, ClaimantsMove
      <3>3. hedge'[s] - sold'[s] = hedge[s] - sold[s] + 1
        BY <1>1, <1>2, <1>5, <2>5, ExecuteMargin
      <3> QED BY <2>1, <2>2, <2>3, <3>2, <3>3
    <2>6. CASE s = s0 /\ job[w].leg \in SellLegs
      <3>1. Claims(job[w], s) /\ ~Claims(j, s)
        BY <1>1, <1>3, <2>6 DEF Claims, BuyLegs, SellLegs
      <3>2. Cardinality(Claimants(s))' = Cardinality(Claimants(s)) - 1
        BY <1>2, <1>5, <3>1, ClaimantsMove
      <3>3. hedge'[s] - sold'[s] = hedge[s] - sold[s] - 1
        BY <1>1, <1>2, <1>5, <2>6, ExecuteMargin
      <3> QED BY <2>1, <2>2, <2>3, <3>2, <3>3
    <2> QED BY <1>1, <2>4, <2>5, <2>6 DEF Legs
  <1>7. MarginCovered'
    BY <1>6 DEF MarginCovered
  <1>8. \A s \in expired' : /\ hedge'[s] = 0
                            /\ sold'[s] = 0
                            /\ \A l \in Legs : stray'[s][l] = 0
    BY <1>1, <1>2, <1>5, ExecuteMargin DEF Hedged, TypeOK
  <1> QED BY <1>4, <1>7, <1>8 DEF Hedged

LEMMA HedgedReject ==
    ASSUME Hedged, WellFormed', NEW w \in Workers, RejectOrder(w)
    PROVE  Hedged'
  <1> DEFINE j == [job[w] EXCEPT !.ord = "rejected"]
  <1>1. job[w] \in Jobs /\ job[w].ord = "open"
    BY DEF Hedged, WellFormed, JobOK, RejectOrder
  <1>2. Become(w, j) /\ UNCHANGED brokerVars
    BY DEF RejectOrder
  <1>3. /\ j.pc = job[w].pc /\ j.ord = "rejected"
        /\ j.spread = job[w].spread /\ j.leg = job[w].leg
    BY <1>1 DEF Jobs
  <1> HIDE DEF j
  <1>4. \A s \in Spreads : Claims(j, s) => Claims(job[w], s)
    BY <1>1, <1>3 DEF Claims
  <1> QED BY <1>2, <1>3, <1>4, HedgedBecome

LEMMA HedgedStray ==
    ASSUME Hedged, WellFormed', NEW s0 \in Spreads, NEW l0 \in Legs, FillStray(s0, l0)
    PROVE  Hedged'
  <1>1. /\ stray[s0][l0] > 0 /\ Execute(s0, l0) /\ UNCHANGED <<expired, job>>
        /\ stray' = [stray EXCEPT ![s0][l0] = @ - 1]
    BY DEF FillStray
  <1>2. s0 \notin expired
    BY <1>1 DEF Hedged
  <1>3. TypeOK
    BY DEF Hedged, WellFormed
  <1>4. ASSUME NEW s \in Spreads \ expired'
        PROVE  hedge'[s] - sold'[s] >= Cardinality(Claimants(s))' + StraySells(s)'
    <2>1. hedge[s] - sold[s] >= Cardinality(Claimants(s)) + StraySells(s)
      BY <1>1 DEF Hedged, MarginCovered
    <2>2. Cardinality(Claimants(s))' = Cardinality(Claimants(s))
      BY <1>1 DEF Claimants, Claims
    <2>3. /\ hedge[s] \in Int /\ sold[s] \in Int
          /\ hedge'[s] \in Int /\ sold'[s] \in Int
          /\ Cardinality(Claimants(s)) \in Nat
      BY <1>3, ClaimantsFinite DEF WellFormed, TypeOK
    <2>4. /\ StraySells(s) \in Int /\ StraySells(s)' \in Int
          /\ StraySells(s)' = StraySells(s)
                - (IF s = s0 /\ l0 \in SellLegs THEN 1 ELSE 0)
      BY <1>1, <1>3, LegsListed DEF StraySells, TypeOK, SellLegs
    <2>5. CASE s # s0
      <3>1. hedge'[s] = hedge[s] /\ sold'[s] = sold[s]
        BY <1>1, <1>3, <2>5, ExecuteMargin
      <3> QED BY <2>1, <2>2, <2>3, <2>4, <2>5, <3>1
    <2>6. CASE s = s0 /\ l0 \in BuyLegs
      <3>1. hedge'[s] - sold'[s] = hedge[s] - sold[s] + 1
        BY <1>1, <1>3, <2>6, ExecuteMargin
      <3>2. l0 \notin SellLegs
        BY <2>6 DEF BuyLegs, SellLegs
      <3> QED BY <2>1, <2>2, <2>3, <2>4, <2>6, <3>1, <3>2
    <2>7. CASE s = s0 /\ l0 \in SellLegs
      <3>1. hedge'[s] - sold'[s] = hedge[s] - sold[s] - 1
        BY <1>1, <1>3, <2>7, ExecuteMargin
      <3> QED BY <2>1, <2>2, <2>3, <2>4, <2>7, <3>1
    <2> QED BY <2>5, <2>6, <2>7 DEF Legs
  <1>5. MarginCovered'
    BY <1>4 DEF MarginCovered
  <1>6. \A s \in expired' : /\ hedge'[s] = 0
                            /\ sold'[s] = 0
                            /\ \A l \in Legs : stray'[s][l] = 0
    BY <1>1, <1>2, <1>3, ExecuteMargin DEF Hedged, TypeOK
  <1> QED BY <1>1, <1>5, <1>6 DEF Hedged

LEMMA HedgedExpire ==
    ASSUME Hedged, WellFormed', NEW s0 \in Spreads, Expire(s0)
    PROVE  Hedged'
  <1>1. TypeOK /\ job \in [Workers -> Jobs]
    BY DEF Hedged, WellFormed, TypeOK
  <1>2. /\ expired' = expired \cup {s0}
        /\ hedge' = [hedge EXCEPT ![s0] = 0]
        /\ sold' = [sold EXCEPT ![s0] = 0]
        /\ stray' = [stray EXCEPT ![s0] = [l \in Legs |-> 0]]
    BY DEF Expire
  <1>3. ASSUME NEW v \in Workers
        PROVE  \/ job'[v] = job[v] /\ (job[v].ord = "open" => job[v].spread # s0)
               \/ /\ job'[v].ord = "rejected" /\ job[v].spread = s0
                  /\ job'[v].spread = s0 /\ job'[v].pc = job[v].pc
    BY <1>1 DEF Expire, Jobs
  <1>4. ASSUME NEW v \in Workers
        PROVE  /\ job'[v].pc = "cancel" => job'[v].ord # "complete"
               /\ job'[v].ord = "open" => job'[v].spread \notin expired'
    BY <1>2, <1>3 DEF Hedged
  <1>5. ASSUME NEW s \in Spreads \ expired'
        PROVE  hedge'[s] - sold'[s] >= Cardinality(Claimants(s))' + StraySells(s)'
    <2>1. hedge[s] - sold[s] >= Cardinality(Claimants(s)) + StraySells(s)
      BY <1>2 DEF Hedged, MarginCovered
    <2>2. s # s0
      BY <1>2
    <2>3. \A v \in Workers : Claims(job'[v], s) <=> Claims(job[v], s)
      BY <1>3, <2>2 DEF Claims
    <2>4. Claimants(s)' = Claimants(s)
      BY <2>3 DEF Claimants, Claims
    <2>5. StraySells(s)' = StraySells(s) /\ hedge'[s] = hedge[s] /\ sold'[s] = sold[s]
      BY <1>1, <1>2, <2>2 DEF StraySells, TypeOK
    <2> QED BY <2>1, <2>4, <2>5
  <1>6. MarginCovered'
    BY <1>5 DEF MarginCovered
  <1>7. \A s \in expired' : /\ hedge'[s] = 0
                            /\ sold'[s] = 0
                            /\ \A l \in Legs : stray'[s][l] = 0
    BY <1>1, <1>2 DEF Hedged, TypeOK
  <1> QED BY <1>4, <1>6, <1>7 DEF Hedged

\* Three disjoint parts are together no larger than the whole.
LEMMA ThreeParts ==
    ASSUME NEW C, IsFiniteSet(C), NEW T1, NEW T2, NEW T3,
           T1 \subseteq C, T2 \subseteq C, T3 \subseteq C,
           T1 \cap T2 = {}, T1 \cap T3 = {}, T2 \cap T3 = {}
    PROVE  /\ Cardinality(T1) \in Nat /\ Cardinality(T2) \in Nat /\ Cardinality(T3) \in Nat
           /\ Cardinality(T1) + Cardinality(T2) + Cardinality(T3) <= Cardinality(C)
  <1>1. IsFiniteSet(T1) /\ IsFiniteSet(T2) /\ IsFiniteSet(T3)
    BY FS_Subset
  <1>2. /\ Cardinality(T1) \in Nat /\ Cardinality(T2) \in Nat /\ Cardinality(T3) \in Nat
        /\ Cardinality(C) \in Nat
    BY <1>1, FS_CardinalityType
  <1>3. IsFiniteSet(T1 \cup T2) /\ Cardinality(T1 \cup T2) = Cardinality(T1) + Cardinality(T2)
    <2>1. /\ IsFiniteSet(T1 \cup T2)
          /\ Cardinality(T1 \cup T2)
               = Cardinality(T1) + Cardinality(T2) - Cardinality(T1 \cap T2)
      BY <1>1, FS_Union
    <2>2. Cardinality(T1 \cap T2) = 0
      BY FS_EmptySet
    <2> QED BY <1>2, <2>1, <2>2
  <1>4. (T1 \cup T2) \cap T3 = {}
    OBVIOUS
  <1>5. Cardinality((T1 \cup T2) \cup T3) = Cardinality(T1 \cup T2) + Cardinality(T3)
    <2>1. Cardinality((T1 \cup T2) \cup T3)
            = Cardinality(T1 \cup T2) + Cardinality(T3) - Cardinality((T1 \cup T2) \cap T3)
      BY <1>1, <1>3, FS_Union
    <2>2. Cardinality((T1 \cup T2) \cap T3) = 0
      BY <1>4, FS_EmptySet
    <2> QED BY <1>2, <1>3, <2>1, <2>2
  <1>6. Cardinality((T1 \cup T2) \cup T3) <= Cardinality(C)
    <2>1. (T1 \cup T2) \cup T3 \in SUBSET C
      OBVIOUS
    <2> QED BY <2>1, FS_Subset
  <1> QED BY <1>2, <1>3, <1>5, <1>6

\* The orders that outlive a crash are covered by the claims that die with it.
LEMMA HedgedCrash ==
    ASSUME Hedged, WellFormed', Crash
    PROVE  Hedged'
  <1>1. TypeOK
    BY DEF Hedged, WellFormed
  <1> DEFINE T(s, l) == {w \in Workers : /\ job[w].ord = "open"
                                         /\ job[w].spread = s
                                         /\ job[w].leg = l}
  <1>2. \A s \in Spreads, l \in Legs : stray'[s][l] = stray[s][l] + Cardinality(T(s, l))
    BY DEF Crash
  <1>3. \A w \in Workers : job'[w] = IdleJob
    BY DEF Crash
  <1>4. UNCHANGED <<hedge, sold, expired>>
    BY DEF Crash
  <1>5. ASSUME NEW s \in Spreads \ expired'
        PROVE  hedge'[s] - sold'[s] >= Cardinality(Claimants(s))' + StraySells(s)'
    <2> DEFINE A == T(s, "SELL_SHORT")
               B == T(s, "UNWIND")
               C == T(s, "STC")
    <2>1. hedge[s] - sold[s] >= Cardinality(Claimants(s)) + StraySells(s)
      BY <1>4 DEF Hedged, MarginCovered
    <2>2. A \subseteq Claimants(s) /\ B \subseteq Claimants(s) /\ C \subseteq Claimants(s)
      BY DEF Hedged, WellFormed, JobOK, Claimants, Claims, SellLegs
    <2>3. A \cap B = {} /\ A \cap C = {} /\ B \cap C = {}
      OBVIOUS
    <2>4. StraySells(s)' = StraySells(s) + Cardinality(A) + Cardinality(B) + Cardinality(C)
      <3>1. /\ stray[s]["SELL_SHORT"] \in Int /\ stray[s]["UNWIND"] \in Int
            /\ stray[s]["STC"] \in Int
        BY <1>1, LegsListed DEF TypeOK
      <3>2. /\ stray'[s]["SELL_SHORT"] = stray[s]["SELL_SHORT"] + Cardinality(A)
            /\ stray'[s]["UNWIND"] = stray[s]["UNWIND"] + Cardinality(B)
            /\ stray'[s]["STC"] = stray[s]["STC"] + Cardinality(C)
        BY <1>2, LegsListed
      <3>3. Cardinality(A) \in Nat /\ Cardinality(B) \in Nat /\ Cardinality(C) \in Nat
        BY <2>2, <2>3, ClaimantsFinite, ThreeParts
      <3> HIDE DEF A, B, C
      <3> QED BY <3>1, <3>2, <3>3 DEF StraySells
    <2> HIDE DEF A, B, C
    <2>5. Cardinality(A) + Cardinality(B) + Cardinality(C) <= Cardinality(Claimants(s))
      BY <2>2, <2>3, ClaimantsFinite, ThreeParts
    <2>6. Cardinality(Claimants(s))' = 0
      <3>1. \A w \in Workers : ~Claims(job'[w], s)
        BY <1>3, LiteralsTyped
      <3>2. Claimants(s)' = {}
        BY <3>1 DEF Claimants, Claims
      <3> QED BY <3>2, FS_EmptySet
    <2>7. /\ hedge[s] \in Int /\ sold[s] \in Int /\ StraySells(s) \in Int
          /\ Cardinality(Claimants(s)) \in Nat
      BY <1>1, ClaimantsFinite, LegsListed DEF TypeOK, StraySells
    <2>8. Cardinality(A) \in Nat /\ Cardinality(B) \in Nat /\ Cardinality(C) \in Nat
      BY <2>2, <2>3, ClaimantsFinite, ThreeParts
    <2>9. hedge'[s] = hedge[s] /\ sold'[s] = sold[s]
      BY <1>4
    <2> QED BY <2>1, <2>4, <2>5, <2>6, <2>7, <2>8, <2>9
  <1>6. MarginCovered'
    BY <1>5 DEF MarginCovered
  <1>7. ASSUME NEW s \in expired', NEW l \in Legs
        PROVE  stray'[s][l] = 0
    <2>1. s \in Spreads /\ s \in expired /\ stray[s][l] = 0
      BY <1>1, <1>4 DEF TypeOK, Hedged
    <2>2. T(s, l) = {}
      BY <2>1 DEF Hedged
    <2>3. Cardinality(T(s, l)) = 0
      BY <2>2, FS_EmptySet
    <2> QED BY <1>2, <2>1, <2>3
  <1>8. \A s \in expired' : hedge'[s] = 0 /\ sold'[s] = 0
    BY <1>4 DEF Hedged
  <1>9. IdleJob.pc = "idle" /\ IdleJob.ord = "none"
    BY DEF IdleJob
  <1> HIDE DEF T
  <1> QED BY <1>3, <1>6, <1>7, <1>8, <1>9 DEF Hedged

LEMMA HedgedStart == Init => Hedged
  <1> SUFFICES ASSUME Init PROVE Hedged
    OBVIOUS
  <1>1. WellFormed
    BY WellFormedStart
  <1>2. IdleJob.pc = "idle" /\ IdleJob.ord = "none"
    BY DEF IdleJob
  <1>3. ASSUME NEW s \in Spreads \ expired
        PROVE  hedge[s] - sold[s] >= Cardinality(Claimants(s)) + StraySells(s)
    <2>1. Claimants(s) = {}
      BY LiteralsTyped DEF Init, Claimants
    <2>2. StraySells(s) = 0
      BY LegsListed DEF Init, StraySells
    <2> QED BY <2>1, <2>2, FS_EmptySet DEF Init
  <1> QED BY <1>1, <1>2, <1>3 DEF Init, Hedged, MarginCovered

LEMMA HedgedStep ==
    ASSUME TruthfulBroker, Hedged, WellFormed', [Next]_vars
    PROVE  Hedged'
  <1>1. ASSUME NEW w \in Workers, StartEntry(w) \/ StartExit(w) \/ Step(w)
        PROVE  Hedged'
    BY <1>1, HedgedOrderStep, HedgedEntryExitStep DEF Step
  <1>2. CASE BrokerStep
    BY <1>2, HedgedFill, HedgedReject, HedgedStray, HedgedExpire DEF BrokerStep
  <1>3. CASE Crash
    BY <1>3, HedgedCrash
  <1>4. CASE LoseSession \/ UNCHANGED vars
    BY <1>4 DEF LoseSession, brokerVars, vars, Hedged, MarginCovered, Claimants, Claims,
                StraySells
  <1> QED BY <1>1, <1>2, <1>3, <1>4 DEF Next

\* With a broker that answers truthfully, every sell order always has an option
\* of its own behind it, whatever threads overlap and wherever the process dies.
THEOREM AlwaysHedged == TruthfulBroker => (Spec => []Hedged)
  <1> SUFFICES ASSUME TruthfulBroker
               PROVE  Spec => []Hedged
    OBVIOUS
  <1>1. Init => Hedged
    BY HedgedStart
  <1>2. WellFormed' /\ Hedged /\ [Next]_vars => Hedged'
    BY HedgedStep
  <1> QED BY <1>1, <1>2, AlwaysWellFormed, PTL DEF Spec

\* A spread in the account never owes more short puts than it holds hedges.
LEMMA HedgedNotNaked ==
    ASSUME Hedged
    PROVE  NeverNakedShort
  <1>1. ASSUME NEW s \in Spreads
        PROVE  hedge[s] >= sold[s]
    <2>1. hedge[s] \in Int /\ sold[s] \in Int
      BY DEF Hedged, WellFormed, TypeOK
    <2>2. CASE s \in expired
      BY <2>1, <2>2 DEF Hedged
    <2>3. CASE s \notin expired
      <3>1. hedge[s] - sold[s] >= Cardinality(Claimants(s)) + StraySells(s)
        BY <2>3 DEF Hedged, MarginCovered
      <3>2. StraySells(s) \in Nat
        BY LegsListed DEF Hedged, WellFormed, TypeOK, StraySells
      <3> QED BY <2>1, <3>1, <3>2, ClaimantsFinite
    <2> QED BY <2>2, <2>3
  <1> QED BY <1>1 DEF NeverNakedShort

\* Never naked short, for any number of overlapping entries and exits, process
\* deaths and lost database writes.
THEOREM NeverNaked == TruthfulBroker => (Spec => []NeverNakedShort)
  <1> SUFFICES ASSUME TruthfulBroker
               PROVE  Spec => []NeverNakedShort
    OBVIOUS
  <1>1. Hedged => NeverNakedShort
    BY HedgedNotNaked
  <1> QED BY <1>1, AlwaysHedged, PTL

-----------------------------------------------------------------------------
(* The engine implements the abstract book *)

\* A traded leg is one step of the book, a sell needing a margin of its own.
LEMMA ExecuteIsBookStep ==
    ASSUME TypeOK, NEW s \in Spreads, NEW leg \in Legs, Execute(s, leg),
           leg \in SellLegs => hedge[s] - sold[s] >= 1
    PROVE  Book!BookNext
  <1>1. hedge \in [Spreads -> Int] /\ sold \in [Spreads -> Int]
    BY DEF TypeOK
  <1>2. /\ hedge' = [hedge EXCEPT ![s] = hedge[s] + LegHedge(leg)]
        /\ sold' = [sold EXCEPT ![s] = sold[s] + LegSold(leg)]
    BY DEF Execute
  <1>3. leg \in {"BUY_HEDGE", "BTC", "SELL_SHORT", "UNWIND", "STC"}
    BY LegsListed
  <1>4. CASE leg = "BUY_HEDGE"
    <2>1. LegHedge(leg) = 1 /\ LegSold(leg) = 0
      BY <1>4 DEF LegHedge, LegSold
    <2>2. Book!BuyHedge(s)
      BY <1>1, <1>2, <2>1 DEF Book!BuyHedge
    <2> QED BY <2>2 DEF Book!BookNext
  <1>5. CASE leg = "BTC"
    <2>1. LegHedge(leg) = 0 /\ LegSold(leg) = -1
      BY <1>5 DEF LegHedge, LegSold
    <2>2. hedge[s] + LegHedge(leg) = hedge[s] /\ sold[s] + LegSold(leg) = sold[s] - 1
      BY <1>1, <2>1
    <2>3. hedge' = hedge /\ sold' = [sold EXCEPT ![s] = sold[s] - 1]
      BY <1>1, <1>2, <2>2
    <2>4. Book!CoverShort(s)
      BY <2>3 DEF Book!CoverShort
    <2> QED BY <2>4 DEF Book!BookNext
  <1>6. CASE leg = "SELL_SHORT"
    <2>1. LegHedge(leg) = 0 /\ LegSold(leg) = 1
      BY <1>6 DEF LegHedge, LegSold
    <2>2. hedge[s] + LegHedge(leg) = hedge[s] /\ sold[s] + LegSold(leg) = sold[s] + 1
      BY <1>1, <2>1
    <2>3. hedge' = hedge /\ sold' = [sold EXCEPT ![s] = sold[s] + 1]
      BY <1>1, <1>2, <2>2
    <2>4. hedge[s] - sold[s] >= 1
      BY <1>6 DEF SellLegs
    <2>5. Book!SellShort(s)
      BY <2>3, <2>4 DEF Book!SellShort, Book!Margin
    <2> QED BY <2>5 DEF Book!BookNext
  <1>7. CASE leg \in {"UNWIND", "STC"}
    <2>1. LegHedge(leg) = -1 /\ LegSold(leg) = 0
      BY <1>7 DEF LegHedge, LegSold
    <2>2. hedge[s] + LegHedge(leg) = hedge[s] - 1 /\ sold[s] + LegSold(leg) = sold[s]
      BY <1>1, <2>1
    <2>3. hedge' = [hedge EXCEPT ![s] = hedge[s] - 1] /\ sold' = sold
      BY <1>1, <1>2, <2>2
    <2>4. hedge[s] - sold[s] >= 1
      BY <1>7 DEF SellLegs
    <2>5. Book!SellHedge(s)
      BY <2>3, <2>4 DEF Book!SellHedge, Book!Margin
    <2> QED BY <2>5 DEF Book!BookNext
  <1> QED BY <1>3, <1>4, <1>5, <1>6, <1>7

\* The sell order of a watching thread is a claim on the margin.
LEMMA FillHasMargin ==
    ASSUME Hedged, NEW w \in Workers, FillOrder(w), job[w].leg \in SellLegs
    PROVE  hedge[job[w].spread] - sold[job[w].spread] >= 1
  <1> DEFINE s == job[w].spread
  <1>1. /\ job[w].ord = "open" /\ s \in Spreads \ expired
        /\ job[w].pc \in {"place", "poll", "cancel"}
    BY DEF FillOrder, Hedged, WellFormed, JobOK
  <1>2. w \in Claimants(s)
    BY <1>1, LiteralsTyped DEF Claimants, Claims
  <1>3. Cardinality(Claimants(s)) \in Nat /\ Cardinality(Claimants(s)) # 0
    BY <1>2, ClaimantsFinite, FS_EmptySet
  <1>4. hedge[s] - sold[s] >= Cardinality(Claimants(s)) + StraySells(s)
    BY <1>1 DEF Hedged, MarginCovered
  <1>5. StraySells(s) \in Nat /\ hedge[s] \in Int /\ sold[s] \in Int
    BY <1>1, LegsListed DEF Hedged, WellFormed, TypeOK, StraySells
  <1> HIDE DEF s
  <1>6. hedge[s] - sold[s] >= 1
    BY <1>3, <1>4, <1>5
  <1> QED BY <1>6 DEF s

\* So is a sell order nobody watches.
LEMMA StrayHasMargin ==
    ASSUME Hedged, NEW s \in Spreads, NEW leg \in SellLegs, FillStray(s, leg)
    PROVE  hedge[s] - sold[s] >= 1
  <1>1. leg \in Legs /\ stray[s][leg] # 0
    BY DEF FillStray, Legs, SellLegs, BuyLegs, Hedged, WellFormed, TypeOK
  <1>2. s \notin expired
    BY <1>1 DEF Hedged
  <1>3. hedge[s] - sold[s] >= Cardinality(Claimants(s)) + StraySells(s)
    BY <1>2 DEF Hedged, MarginCovered
  <1>4. Cardinality(Claimants(s)) \in Nat /\ hedge[s] \in Int /\ sold[s] \in Int
    BY ClaimantsFinite DEF Hedged, WellFormed, TypeOK
  <1>5. /\ stray[s]["SELL_SHORT"] \in Nat /\ stray[s]["UNWIND"] \in Nat
        /\ stray[s]["STC"] \in Nat
    BY LegsListed DEF Hedged, WellFormed, TypeOK
  <1>6. leg \in {"SELL_SHORT", "UNWIND", "STC"}
    BY DEF SellLegs
  <1>7. StraySells(s) >= 1
    BY <1>1, <1>5, <1>6 DEF StraySells
  <1>8. StraySells(s) \in Nat
    BY <1>5 DEF StraySells
  <1> QED BY <1>3, <1>4, <1>7, <1>8

LEMMA BrokerStepIsBookStep ==
    ASSUME Hedged, BrokerStep
    PROVE  [Book!BookNext]_(Book!bookVars)
  <1>1. TypeOK
    BY DEF Hedged, WellFormed
  <1>2. ASSUME NEW w \in Workers, FillOrder(w)
        PROVE  Book!BookNext
    <2>1. job[w].spread \in Spreads /\ job[w].leg \in Legs
      BY <1>2 DEF FillOrder, Hedged, WellFormed, JobOK, Jobs
    <2>2. Execute(job[w].spread, job[w].leg)
      BY <1>2 DEF FillOrder
    <2> QED BY <1>1, <1>2, <2>1, <2>2, FillHasMargin, ExecuteIsBookStep
  <1>3. ASSUME NEW w \in Workers, RejectOrder(w)
        PROVE  UNCHANGED Book!bookVars
    BY <1>3 DEF RejectOrder, brokerVars, Book!bookVars
  <1>4. ASSUME NEW s \in Spreads, Expire(s)
        PROVE  Book!BookNext
    <2>1. Book!CashSettle(s)
      BY <1>4 DEF Expire, Book!CashSettle
    <2> QED BY <2>1 DEF Book!BookNext
  <1>5. ASSUME NEW s \in Spreads, NEW l \in Legs, FillStray(s, l)
        PROVE  Book!BookNext
    <2>1. Execute(s, l)
      BY <1>5 DEF FillStray
    <2> QED BY <1>1, <1>5, <2>1, StrayHasMargin, ExecuteIsBookStep
  <1> QED BY <1>2, <1>3, <1>4, <1>5 DEF BrokerStep

LEMMA StepKeepsBook ==
    ASSUME NEW w \in Workers, StartEntry(w) \/ StartExit(w) \/ Step(w)
    PROVE  UNCHANGED <<hedge, sold>>
  <1>1. CASE StartEntry(w) \/ StartExit(w)
    BY <1>1 DEF StartEntry, StartExit, brokerVars
  <1>2. CASE OrderStep(w)
    BY <1>2 DEF OrderStep, PlaceAccepted, PlaceReturnsNone, PollComplete, PollRejected,
                PollTimeout, PollAbandon, CancelOrder, brokerVars
  <1>3. CASE EntryStep(w)
    BY <1>3 DEF EntryStep, EnsureSymbolState, AcquireLock, SkipLocked, PassGates,
                BlockedByGate, SaveEntry, Unlock, brokerVars
  <1>4. CASE ExitStep(w)
    BY <1>4 DEF ExitStep, NoExit, TriggerExit, SettleExpired, ArchiveExit, SaveClosed,
                brokerVars
  <1> QED BY <1>1, <1>2, <1>3, <1>4 DEF Step

LEMMA EngineStepIsBookStep ==
    ASSUME Hedged, [Next]_vars
    PROVE  [Book!BookNext]_(Book!bookVars)
  <1>1. ASSUME NEW w \in Workers, StartEntry(w) \/ StartExit(w) \/ Step(w)
        PROVE  UNCHANGED Book!bookVars
    BY <1>1, StepKeepsBook DEF Book!bookVars
  <1>2. CASE BrokerStep
    BY <1>2, BrokerStepIsBookStep
  <1>3. CASE Crash
    BY <1>3 DEF Crash, Book!bookVars
  <1>4. CASE LoseSession \/ UNCHANGED vars
    BY <1>4 DEF LoseSession, brokerVars, vars, Book!bookVars
  <1> QED BY <1>1, <1>2, <1>3, <1>4 DEF Next

\* With a truthful broker every behaviour of the engine is one of the abstract
\* book: a short put is only added behind a held hedge, and a hedge only sold
\* when no short put needs it.
THEOREM EngineImplementsBook == TruthfulBroker => (Spec => ImplementsBook)
  <1> SUFFICES ASSUME TruthfulBroker
               PROVE  Spec => ImplementsBook
    OBVIOUS
  <1>1. Init => Book!BookInit
    BY DEF Init, Book!BookInit
  <1>2. Hedged /\ [Next]_vars => [Book!BookNext]_(Book!bookVars)
    BY EngineStepIsBookStep
  <1> QED BY <1>1, <1>2, AlwaysHedged, PTL DEF Spec, ImplementsBook, Book!BookSpec

-----------------------------------------------------------------------------
(* The abstract book *)

BookTyped == hedge \in [Spreads -> Int] /\ sold \in [Spreads -> Int]

\* The abstract book never owes more short puts of a spread than it holds hedges:
\* what the margin guards of its two sells are for.
THEOREM BookNeverNaked == Book!BookSpec => []Book!NeverNaked
  <1>1. Book!BookInit => BookTyped /\ Book!NeverNaked
    BY DEF Book!BookInit, BookTyped, Book!NeverNaked, Book!Margin
  <1>2. BookTyped /\ Book!NeverNaked /\ [Book!BookNext]_(Book!bookVars) => (BookTyped /\ Book!NeverNaked)'
    <2> SUFFICES ASSUME BookTyped, Book!NeverNaked, [Book!BookNext]_(Book!bookVars)
                 PROVE  (BookTyped /\ Book!NeverNaked)'
      OBVIOUS
    <2> USE DEF BookTyped, Book!NeverNaked, Book!Margin
    <2>1. ASSUME NEW s \in Spreads, Book!BuyHedge(s)
          PROVE  (BookTyped /\ Book!NeverNaked)'
      BY <2>1 DEF Book!BuyHedge
    <2>2. ASSUME NEW s \in Spreads, Book!SellShort(s)
          PROVE  (BookTyped /\ Book!NeverNaked)'
      BY <2>2 DEF Book!SellShort
    <2>3. ASSUME NEW s \in Spreads, Book!CoverShort(s)
          PROVE  (BookTyped /\ Book!NeverNaked)'
      BY <2>3 DEF Book!CoverShort
    <2>4. ASSUME NEW s \in Spreads, Book!SellHedge(s)
          PROVE  (BookTyped /\ Book!NeverNaked)'
      BY <2>4 DEF Book!SellHedge
    <2>5. ASSUME NEW s \in Spreads, Book!CashSettle(s)
          PROVE  (BookTyped /\ Book!NeverNaked)'
      BY <2>5 DEF Book!CashSettle
    <2>6. CASE UNCHANGED Book!bookVars
      BY <2>6 DEF Book!bookVars
    <2> QED BY <2>1, <2>2, <2>3, <2>4, <2>5, <2>6 DEF Book!BookNext
  <1> QED BY <1>1, <1>2, PTL DEF Book!BookSpec

-----------------------------------------------------------------------------
(* What a job knows of the row it will write *)

\* One thread enters and one thread exits at a time, and the database keeps what
\* it is told: the conditions of the theorems about the row.
OneThreadPerKind ==
    /\ \A v, w \in Entrants : v = w
    /\ \A v, w \in Exiters : v = w

DatabaseKeeps == "db_error" \notin Faults

\* An entry that has read the row and sent nothing yet.
BeforeTrade(j) == j.pc \in {"ensure", "trylock", "gates"}

\* An entry that has sent orders, up to the save of the position.
InTrade(j) ==
    \/ j.pc = "save"
    \/ j.pc \in {"place", "poll", "cancel"} /\ j.leg \in EntryLegs \cup {"UNWIND"}

\* An exit that has found a position in the row.
Exiting(j) ==
    \/ j.pc \in {"decide", "archive", "close"}
    \/ j.pc \in {"place", "poll", "cancel"} /\ j.leg \in {"BTC", "STC"}

\* What thread w read is what the row r holds, for as long as it may write it: an
\* entry that saw no position, an exit from the moment it saw one.
Known(r, w, j) ==
    /\ j.pc = "idle" => j = IdleJob
    /\ BeforeTrade(j) =>
        /\ w \in Entrants
        /\ j.mem.stage # "STAGE_1_CSP" => r = j.mem
        /\ j.pc = "ensure" <=> j.mem.stage = "ABSENT"
    /\ InTrade(j) =>
        /\ w \in Entrants
        /\ j.mem.stage \in {"IDLE", "CLOSED"}
        /\ r = j.mem
    /\ Exiting(j) =>
        /\ w \in Exiters
        /\ r.stage = "STAGE_1_CSP"
        /\ j.mem = r
        /\ j.spread = r.spread

RowKnown ==
    /\ row.stage = "ABSENT" => row = AbsentRow
    /\ row.stage # "STAGE_1_CSP" => row.spread = NoSpread
    /\ \A w \in Workers : Known(row, w, job[w])

LEMMA IdleKnown ==
    ASSUME NEW w \in Workers, NEW r
    PROVE  Known(r, w, IdleJob)
  BY DEF Known, IdleJob, BeforeTrade, InTrade, Exiting

\* A thread's step that leaves the row alone and keeps what the thread knows.
LEMMA KnownFrame ==
    ASSUME WellFormed, RowKnown, NEW w \in Workers, NEW j, Become(w, j),
           UNCHANGED row, Known(row, w, j)
    PROVE  RowKnown'
  <1>1. ASSUME NEW v \in Workers
        PROVE  Known(row, v, job'[v])
    BY <1>1 DEF RowKnown, WellFormed, TypeOK, Become
  <1>2. \A v \in Workers : Known(row', v, job'[v])
    BY <1>1 DEF Known
  <1> QED BY <1>2 DEF RowKnown

LEMMA RowKnownStart == Init => RowKnown
  BY IdleKnown DEF Init, RowKnown, AbsentRow

\* What placing, polling and cancelling an order makes of a job.
LEMMA AtFields ==
    ASSUME NEW w \in Workers, JobOK(job[w]), NEW pc, NEW leg
    PROVE  /\ At(w, pc, leg).pc = pc
           /\ At(w, pc, leg).leg = leg
           /\ At(w, pc, leg).ord = "none"
           /\ At(w, pc, leg).tries = 0
           /\ At(w, pc, leg).mem = job[w].mem
           /\ At(w, pc, leg).spread = job[w].spread
  BY DEF At, JobOK, Jobs

\* An order step keeps the side of the book its thread works on.
SameSide(j, k) ==
    \/ k = IdleJob
    \/ /\ k.pc \in {"place", "poll", "cancel", "save", "unlock", "archive"}
       /\ k.mem = j.mem
       /\ k.spread = j.spread
       /\ Exiting(k) => Exiting(j)
       /\ InTrade(k) => InTrade(j)

LEMMA FillOrGiveUpSameSide ==
    ASSUME NEW w \in Workers, JobOK(job[w]), job[w].pc \in {"place", "poll", "cancel"}
    PROVE  /\ SameSide(job[w], AfterFill(w))
           /\ SameSide(job[w], AfterGiveUp(w))
           /\ SameSide(job[w], RequoteOrGiveUp(w))
  <1>1. job[w].leg \in Legs /\ job[w] \in Jobs
    BY DEF JobOK, Jobs
  <1>2. SameSide(job[w], AfterFill(w))
    BY <1>1, AtFields, LegsListed DEF AfterFill, SameSide, Exiting, InTrade, EntryLegs
  <1>3. SameSide(job[w], AfterGiveUp(w))
    BY <1>1, AtFields, LegsListed DEF AfterGiveUp, SameSide, Exiting, InTrade, EntryLegs
  <1>4. SameSide(job[w], RequoteOrGiveUp(w))
    <2> DEFINE n == job[w].tries + 1
               j == [job[w] EXCEPT !.pc = "place", !.tries = n, !.ord = "none"]
    <2>1. RequoteOrGiveUp(w) = j \/ RequoteOrGiveUp(w) = AfterGiveUp(w)
      BY DEF RequoteOrGiveUp
    <2> HIDE DEF n
    <2>2. /\ j.pc = "place" /\ j.leg = job[w].leg /\ j.mem = job[w].mem
          /\ j.spread = job[w].spread
      BY <1>1 DEF Jobs
    <2> HIDE DEF j
    <2>3. SameSide(job[w], j)
      BY <2>2 DEF SameSide, Exiting, InTrade
    <2> QED BY <1>3, <2>1, <2>3
  <1> QED BY <1>2, <1>3, <1>4

LEMMA OrderMoves ==
    ASSUME WellFormed, NEW w \in Workers, OrderStep(w)
    PROVE  /\ job[w].pc \in {"place", "poll", "cancel"}
           /\ UNCHANGED dbVars
           /\ \E j : Become(w, j) /\ SameSide(job[w], j)
  <1>1. job[w].pc \in {"place", "poll", "cancel"} /\ UNCHANGED dbVars
    BY DEF OrderStep, PlaceAccepted, PlaceReturnsNone, PollComplete, PollRejected,
           PollTimeout, PollAbandon, CancelOrder
  <1>2. JobOK(job[w]) /\ job[w] \in Jobs
    BY DEF WellFormed, JobOK
  <1>3. CASE PlaceAccepted(w)
    <2> DEFINE j == [job[w] EXCEPT !.pc = "poll", !.ord = "open"]
    <2>1. /\ j.pc = "poll" /\ j.leg = job[w].leg /\ j.mem = job[w].mem
          /\ j.spread = job[w].spread /\ Become(w, j)
      BY <1>2, <1>3 DEF Jobs, PlaceAccepted
    <2> HIDE DEF j
    <2> QED BY <1>1, <2>1 DEF SameSide, Exiting, InTrade
  <1>4. CASE PollTimeout(w)
    <2> DEFINE j == [job[w] EXCEPT !.pc = "cancel"]
    <2>1. /\ j.pc = "cancel" /\ j.leg = job[w].leg /\ j.mem = job[w].mem
          /\ j.spread = job[w].spread /\ Become(w, j)
      BY <1>2, <1>4 DEF Jobs, PollTimeout
    <2> HIDE DEF j
    <2> QED BY <1>1, <2>1 DEF SameSide, Exiting, InTrade
  <1>5. CASE PollComplete(w)
    BY <1>1, <1>2, <1>5, FillOrGiveUpSameSide DEF PollComplete
  <1>6. CASE PlaceReturnsNone(w)
    BY <1>1, <1>2, <1>6, FillOrGiveUpSameSide DEF PlaceReturnsNone
  <1>7. CASE PollRejected(w)
    BY <1>1, <1>2, <1>7, FillOrGiveUpSameSide DEF PollRejected
  <1>8. CASE PollAbandon(w)
    BY <1>1, <1>2, <1>8, FillOrGiveUpSameSide DEF PollAbandon
  <1>9. CASE CancelOrder(w)
    BY <1>1, <1>2, <1>9, FillOrGiveUpSameSide DEF CancelOrder
  <1> QED BY <1>1, <1>3, <1>4, <1>5, <1>6, <1>7, <1>8, <1>9 DEF OrderStep

LEMMA RowKnownOrderStep ==
    ASSUME WellFormed, RowKnown, NEW w \in Workers, OrderStep(w)
    PROVE  RowKnown'
  <1>1. PICK j : Become(w, j) /\ SameSide(job[w], j)
    BY OrderMoves
  <1>2. Known(row, w, job[w])
    BY DEF RowKnown
  <1>3. Known(row, w, j)
    BY <1>1, <1>2, IdleKnown DEF SameSide, Known, BeforeTrade
  <1>4. UNCHANGED row
    BY OrderMoves DEF dbVars
  <1> QED BY <1>1, <1>3, <1>4, KnownFrame

\* A thread's step that writes the row: what the others know must survive it.
LEMMA KnownWrite ==
    ASSUME WellFormed, RowKnown, NEW w \in Workers, NEW j, Become(w, j), Known(row', w, j),
           row'.stage = "ABSENT" => row' = AbsentRow,
           row'.stage # "STAGE_1_CSP" => row'.spread = NoSpread,
           \A v \in Workers \ {w} :
             /\ ~InTrade(job[v])
             /\ BeforeTrade(job[v]) => job[v].mem.stage = "STAGE_1_CSP"
             /\ ~Exiting(job[v])
    PROVE  RowKnown'
  <1>1. job'[w] = j /\ \A v \in Workers \ {w} : job'[v] = job[v]
    BY DEF WellFormed, TypeOK, Become
  <1>2. Known(row', w, job'[w])
    BY <1>1 DEF Known
  <1>3. ASSUME NEW v \in Workers \ {w}
        PROVE  Known(row', v, job'[v])
    BY <1>1, <1>3 DEF RowKnown, Known, InTrade, BeforeTrade, Exiting
  <1> QED BY <1>2, <1>3 DEF RowKnown

LEMMA RowKnownEntryStep ==
    ASSUME OneThreadPerKind, DatabaseKeeps, WellFormed, RowKnown, NEW w \in Workers,
           StartEntry(w) \/ EntryStep(w)
    PROVE  RowKnown'
  <1> USE DEF dbVars
  <1>1. job[w] \in Jobs /\ Known(row, w, job[w]) /\ row \in Rows
    BY DEF WellFormed, JobOK, RowKnown, TypeOK
  <1>2. LoadState = {row} /\ \A r : SaveState(r) = {r}
    BY DEF DatabaseKeeps, LoadState, SaveState
  <1>3. ASSUME NEW v \in Workers \ {w}, w \in Entrants
        PROVE  ~InTrade(job[v]) /\ ~BeforeTrade(job[v])
    BY <1>3 DEF OneThreadPerKind, RowKnown, Known
  <1>4. CASE StartEntry(w)
    <2> DEFINE pc == IF row.stage = "ABSENT" THEN "ensure" ELSE "trylock"
               j == [job[w] EXCEPT !.mem = row, !.pc = pc]
    <2>1. w \in Entrants /\ UNCHANGED row /\ Become(w, j)
      BY <1>2, <1>4, Zenon DEF StartEntry
    <2> HIDE DEF pc
    <2>2. j.pc = pc /\ j.mem = row
      BY <1>1 DEF Jobs
    <2> HIDE DEF j
    <2>3. Known(row, w, j)
      BY <2>1, <2>2 DEF pc, Known, BeforeTrade, InTrade, Exiting
    <2> QED BY <2>1, <2>3, KnownFrame
  <1>5. CASE EnsureSymbolState(w)
    <2> DEFINE j == [job[w] EXCEPT !.mem = IdleRow, !.pc = "trylock"]
    <2>1. job[w].pc = "ensure" /\ row' = IdleRow /\ Become(w, j)
      BY <1>2, <1>5 DEF EnsureSymbolState
    <2>2. j.pc = "trylock" /\ j.mem = IdleRow
      BY <1>1 DEF Jobs
    <2> HIDE DEF j
    <2>3. w \in Entrants /\ row.stage = "ABSENT"
      BY <1>1, <2>1 DEF Known, BeforeTrade
    <2>4. Known(row', w, j)
      BY <2>1, <2>2, <2>3 DEF Known, BeforeTrade, InTrade, Exiting, IdleRow
    <2>5. \A v \in Workers \ {w} : ~Exiting(job[v])
      BY <2>3 DEF RowKnown, Known
    <2> QED BY <1>3, <2>1, <2>3, <2>4, <2>5, KnownWrite DEF IdleRow
  <1>6. CASE AcquireLock(w)
    <2> DEFINE j == [job[w] EXCEPT !.pc = "gates"]
    <2>1. job[w].pc = "trylock" /\ UNCHANGED row /\ Become(w, j)
      BY <1>6 DEF AcquireLock
    <2>2. j.pc = "gates" /\ j.mem = job[w].mem
      BY <1>1 DEF Jobs
    <2> HIDE DEF j
    <2>3. Known(row, w, j)
      BY <1>1, <2>1, <2>2 DEF Known, BeforeTrade, InTrade, Exiting
    <2> QED BY <2>1, <2>3, KnownFrame
  <1>7. CASE SkipLocked(w)
    BY <1>7, KnownFrame, IdleKnown DEF SkipLocked, Finish
  <1>8. CASE PassGates(w)
    <2>1. PICK s \in Spreads :
            Become(w, [job[w] EXCEPT !.pc = "place", !.leg = "BUY_HEDGE", !.spread = s])
      BY <1>8 DEF PassGates
    <2> DEFINE j == [job[w] EXCEPT !.pc = "place", !.leg = "BUY_HEDGE", !.spread = s]
    <2>2. job[w].pc = "gates" /\ UNCHANGED row /\ job[w].mem.stage \in {"IDLE", "CLOSED"}
      BY <1>8 DEF PassGates, MayEnter
    <2>3. j.pc = "place" /\ j.leg = "BUY_HEDGE" /\ j.mem = job[w].mem
      BY <1>1 DEF Jobs
    <2>4. Become(w, j)
      BY <2>1
    <2> HIDE DEF j
    <2>5. Known(row, w, j)
      BY <1>1, <2>2, <2>3 DEF Known, BeforeTrade, InTrade, Exiting
    <2> QED BY <2>2, <2>4, <2>5, KnownFrame
  <1>9. CASE BlockedByGate(w)
    <2> DEFINE j == [job[w] EXCEPT !.pc = "unlock"]
    <2>1. UNCHANGED row /\ Become(w, j) /\ j.pc = "unlock"
      BY <1>1, <1>9 DEF BlockedByGate, Jobs
    <2> HIDE DEF j
    <2>2. Known(row, w, j)
      BY <2>1 DEF Known, BeforeTrade, InTrade, Exiting
    <2> QED BY <2>1, <2>2, KnownFrame
  <1>10. CASE SaveEntry(w)
    <2> DEFINE j == [job[w] EXCEPT !.pc = "unlock"]
    <2>1. /\ job[w].pc = "save" /\ Become(w, j) /\ j.pc = "unlock"
          /\ row'.stage = "STAGE_1_CSP"
      BY <1>1, <1>2, <1>10 DEF SaveEntry, Jobs
    <2> HIDE DEF j
    <2>2. w \in Entrants /\ row.stage \in {"IDLE", "CLOSED"}
      BY <1>1, <2>1 DEF Known, InTrade
    <2>3. \A v \in Workers \ {w} : ~Exiting(job[v])
      BY <2>2 DEF RowKnown, Known
    <2>4. Known(row', w, j)
      BY <2>1 DEF Known, BeforeTrade, InTrade, Exiting
    <2> QED BY <1>3, <2>1, <2>2, <2>3, <2>4, KnownWrite
  <1>11. CASE Unlock(w)
    BY <1>11, KnownFrame, IdleKnown DEF Unlock, Finish
  <1> QED
    BY <1>4, <1>5, <1>6, <1>7, <1>8, <1>9, <1>10, <1>11 DEF EntryStep

LEMMA RowKnownExitStep ==
    ASSUME OneThreadPerKind, DatabaseKeeps, WellFormed, RowKnown, NEW w \in Workers,
           StartExit(w) \/ ExitStep(w)
    PROVE  RowKnown'
  <1> USE DEF dbVars
  <1>1. job[w] \in Jobs /\ JobOK(job[w]) /\ Known(row, w, job[w]) /\ row \in Rows
    BY DEF WellFormed, JobOK, RowKnown, TypeOK
  <1>2. LoadState = {row} /\ \A r : SaveState(r) = {r}
    BY DEF DatabaseKeeps, LoadState, SaveState
  <1>3. CASE StartExit(w)
    <2> DEFINE j == [job[w] EXCEPT !.mem = row, !.spread = row.spread, !.pc = "decide"]
    <2>1. w \in Exiters /\ UNCHANGED row /\ row.stage = "STAGE_1_CSP" /\ Become(w, j)
      BY <1>2, <1>3 DEF StartExit
    <2>2. j.pc = "decide" /\ j.mem = row /\ j.spread = row.spread
      BY <1>1 DEF Jobs
    <2> HIDE DEF j
    <2>3. Known(row, w, j)
      BY <2>1, <2>2 DEF Known, BeforeTrade, InTrade, Exiting
    <2> QED BY <2>1, <2>3, KnownFrame
  <1>4. CASE NoExit(w)
    BY <1>4, KnownFrame, IdleKnown DEF NoExit, Finish
  <1>5. CASE TriggerExit(w)
    <2> DEFINE j == At(w, "place", "BTC")
    <2>1. /\ j.pc = "place" /\ j.leg = "BTC" /\ j.mem = job[w].mem
          /\ j.spread = job[w].spread /\ job[w].pc = "decide" /\ Become(w, j)
          /\ UNCHANGED row
      BY <1>1, <1>5, AtFields DEF TriggerExit
    <2> HIDE DEF j
    <2>2. Known(row, w, j)
      BY <1>1, <2>1 DEF Known, BeforeTrade, InTrade, Exiting, EntryLegs
    <2> QED BY <2>1, <2>2, KnownFrame
  <1>6. ASSUME NEW pc \in {"archive", "close"}, Exiting(job[w]), UNCHANGED row,
               Become(w, [job[w] EXCEPT !.pc = pc])
        PROVE  RowKnown'
    <2> DEFINE j == [job[w] EXCEPT !.pc = pc]
    <2>1. /\ j.pc = pc /\ j.mem = job[w].mem /\ j.spread = job[w].spread
          /\ Become(w, j)
      BY <1>1, <1>6 DEF Jobs
    <2> HIDE DEF j
    <2>2. Known(row, w, j)
      BY <1>1, <1>6, <2>1 DEF Known, BeforeTrade, InTrade, Exiting
    <2> QED BY <1>6, <2>1, <2>2, KnownFrame
  <1>7. CASE SettleExpired(w)
    BY <1>6, <1>7 DEF SettleExpired, Exiting
  <1>8. CASE ArchiveExit(w)
    BY <1>6, <1>8 DEF ArchiveExit, Exiting
  <1>9. CASE SaveClosed(w)
    <2>1. job[w].pc = "close" /\ Become(w, IdleJob)
      BY <1>9 DEF SaveClosed, Finish
    <2>2. row'.stage = "CLOSED" /\ row'.spread = NoSpread
      BY <1>2, <1>9 DEF SaveClosed
    <2>3. w \in Exiters /\ row.stage = "STAGE_1_CSP"
      BY <1>1, <2>1 DEF Known, Exiting
    <2>4. \A v \in Workers \ {w} :
            /\ ~InTrade(job[v])
            /\ BeforeTrade(job[v]) => job[v].mem.stage = "STAGE_1_CSP"
            /\ ~Exiting(job[v])
      BY <2>3 DEF OneThreadPerKind, RowKnown, Known
    <2>5. Known(row', w, IdleJob)
      BY DEF Known, IdleJob, AbsentRow, BeforeTrade, InTrade, Exiting
    <2> QED BY <2>1, <2>2, <2>4, <2>5, KnownWrite DEF IdleJob, AbsentRow
  <1> QED BY <1>3, <1>4, <1>5, <1>7, <1>8, <1>9 DEF ExitStep

\* The broker only changes the state of a watched order.
LEMMA BrokerKeepsJob ==
    ASSUME WellFormed, BrokerStep, NEW w \in Workers
    PROVE  \/ job'[w] = job[w]
           \/ /\ job[w].ord = "open"
              /\ job'[w].ord \in {"complete", "rejected"}
              /\ job'[w].pc = job[w].pc /\ job[w].pc \in {"poll", "cancel"}
              /\ job'[w].mem = job[w].mem
              /\ job'[w].leg = job[w].leg
              /\ job'[w].spread = job[w].spread
  <1>1. JobOK(job[w]) /\ job[w] \in Jobs /\ job \in [Workers -> Jobs]
    BY DEF WellFormed, JobOK, TypeOK
  <1>2. ASSUME NEW o \in {"complete", "rejected"}, job[w].ord = "open",
               job'[w] = [job[w] EXCEPT !.ord = o]
        PROVE  /\ job'[w].ord = o
               /\ job'[w].pc = job[w].pc /\ job[w].pc \in {"poll", "cancel"}
               /\ job'[w].mem = job[w].mem
               /\ job'[w].leg = job[w].leg
               /\ job'[w].spread = job[w].spread
    BY <1>1, <1>2 DEF JobOK, Jobs
  <1>3. \/ job'[w] = job[w]
        \/ /\ job[w].ord = "open"
           /\ \E o \in {"complete", "rejected"} : job'[w] = [job[w] EXCEPT !.ord = o]
    BY <1>1 DEF BrokerStep, FillOrder, RejectOrder, Expire, FillStray, Become
  <1> QED BY <1>2, <1>3

LEMMA RowKnownBrokerStep ==
    ASSUME WellFormed, RowKnown, BrokerStep
    PROVE  RowKnown'
  <1> USE DEF dbVars
  <1>1. UNCHANGED row
    BY DEF BrokerStep, FillOrder, RejectOrder, Expire, FillStray
  <1>2. ASSUME NEW w \in Workers
        PROVE  Known(row', w, job'[w])
    <2>1. job[w] \in Jobs /\ Known(row, w, job[w])
      BY DEF WellFormed, JobOK, RowKnown
    <2> QED BY <1>1, <2>1, BrokerKeepsJob DEF Known, InTrade, BeforeTrade, Exiting
  <1> QED BY <1>1, <1>2 DEF RowKnown

LEMMA RowKnownStep ==
    ASSUME OneThreadPerKind, DatabaseKeeps, WellFormed, RowKnown, [Next]_vars
    PROVE  RowKnown'
  <1>1. ASSUME NEW w \in Workers, StartEntry(w) \/ StartExit(w) \/ Step(w)
        PROVE  RowKnown'
    BY <1>1, RowKnownOrderStep, RowKnownEntryStep, RowKnownExitStep DEF Step
  <1>2. CASE BrokerStep
    BY <1>2, RowKnownBrokerStep
  <1>3. CASE Crash
    <2>1. \A w \in Workers : job'[w] = IdleJob
      BY <1>3 DEF Crash
    <2>2. ASSUME NEW w \in Workers
          PROVE  Known(row', w, job'[w])
      BY <2>1 DEF Known, IdleJob, AbsentRow, BeforeTrade, InTrade, Exiting
    <2> QED BY <1>3, <2>2 DEF Crash, RowKnown, dbVars
  <1>4. CASE LoseSession \/ UNCHANGED vars
    BY <1>4 DEF LoseSession, dbVars, vars, RowKnown, Known
  <1> QED BY <1>1, <1>2, <1>3, <1>4 DEF Next

\* While one thread enters and one exits and the database keeps its writes, what
\* a job read before its orders is still what the row holds when it writes.
THEOREM AlwaysRowKnown ==
    OneThreadPerKind /\ DatabaseKeeps => (Spec => []RowKnown)
  <1> SUFFICES ASSUME OneThreadPerKind, DatabaseKeeps
               PROVE  Spec => []RowKnown
    OBVIOUS
  <1>1. Init => RowKnown
    BY RowKnownStart
  <1>2. WellFormed /\ RowKnown /\ [Next]_vars => RowKnown'
    BY RowKnownStep
  <1> QED BY <1>1, <1>2, AlwaysWellFormed, PTL DEF Spec

\* Only three steps write the row.
LEMMA RowWriters ==
    ASSUME WellFormed, [Next]_vars, row' # row
    PROVE  \E w \in Workers : EnsureSymbolState(w) \/ SaveEntry(w) \/ SaveClosed(w)
  <1> USE DEF dbVars
  <1>1. ASSUME NEW w \in Workers, StartEntry(w) \/ StartExit(w) \/ Step(w)
        PROVE  EnsureSymbolState(w) \/ SaveEntry(w) \/ SaveClosed(w)
    <2>1. ~OrderStep(w)
      BY OrderMoves
    <2>2. ~StartEntry(w) /\ ~StartExit(w)
      BY DEF StartEntry, StartExit
    <2>3. EntryStep(w) => EnsureSymbolState(w) \/ SaveEntry(w)
      BY DEF EntryStep, AcquireLock, SkipLocked, PassGates, BlockedByGate, Unlock
    <2>4. ExitStep(w) => SaveClosed(w)
      BY DEF ExitStep, NoExit, TriggerExit, SettleExpired, ArchiveExit
    <2> QED BY <1>1, <2>1, <2>2, <2>3, <2>4 DEF Step
  <1>2. ~BrokerStep
    BY DEF BrokerStep, FillOrder, RejectOrder, Expire, FillStray
  <1>3. ~Crash /\ ~LoseSession /\ ~UNCHANGED vars
    BY DEF Crash, LoseSession, vars
  <1> QED BY <1>1, <1>2, <1>3 DEF Next

\* The row of an open position is only ever replaced by the write that closes it
\* and books its P&L, whatever the broker does and wherever the process dies, as
\* long as one thread enters, one exits and the database keeps its writes.
THEOREM PositionKept ==
    OneThreadPerKind /\ DatabaseKeeps => (Spec => NoLivePositionOverwritten)
  <1> SUFFICES ASSUME OneThreadPerKind, DatabaseKeeps
               PROVE  Spec => NoLivePositionOverwritten
    OBVIOUS
  <1> DEFINE Kept == row.stage = "STAGE_1_CSP" /\ row' # row =>
                        /\ row'.stage = "CLOSED"
                        /\ row'.lifetime = row.lifetime + 1
  <1>1. ASSUME WellFormed, RowKnown, [Next]_vars
        PROVE  [Kept]_vars
    <2> SUFFICES ASSUME row.stage = "STAGE_1_CSP", row' # row
                 PROVE  row'.stage = "CLOSED" /\ row'.lifetime = row.lifetime + 1
      BY DEF Kept
    <2>1. PICK w \in Workers : EnsureSymbolState(w) \/ SaveEntry(w) \/ SaveClosed(w)
      BY <1>1, RowWriters
    <2>2. Known(row, w, job[w])
      BY <1>1 DEF RowKnown
    <2>3. ~EnsureSymbolState(w) /\ ~SaveEntry(w)
      BY <2>2 DEF EnsureSymbolState, SaveEntry, Known, BeforeTrade, InTrade
    <2>4. SaveClosed(w) /\ job[w].mem = row
      BY <2>1, <2>2, <2>3 DEF SaveClosed, Known, Exiting
    <2> QED BY <2>4 DEF SaveClosed, SaveState, DatabaseKeeps
  <1> QED
    BY <1>1, AlwaysWellFormed, AlwaysRowKnown, PTL DEF Spec, NoLivePositionOverwritten, Kept

-----------------------------------------------------------------------------
(* The ledger *)

LEMMA OneAtMost ==
    ASSUME NEW S, \A v, w \in S : v = w
    PROVE  Cardinality(S) = IF S = {} THEN 0 ELSE 1
  <1>1. CASE S = {}
    BY <1>1, FS_EmptySet
  <1>2. CASE S # {}
    <2>1. PICK w \in S : TRUE
      BY <1>2
    <2>2. S = {w}
      BY <2>1
    <2> QED BY <1>2, <2>2, FS_Singleton
  <1> QED BY <1>1, <1>2

\* The exit whose trade is archived and not yet in the row.
Booking == {w \in Workers : job[w].pc = "close"}

LEMMA LedgerFrame ==
    ASSUME WellFormed, LedgerAgrees, NEW w \in Workers, NEW j, Become(w, j),
           j.pc = "close" <=> job[w].pc = "close",
           UNCHANGED history, row'.lifetime = row.lifetime
    PROVE  LedgerAgrees'
  <1>1. Booking' = Booking
    BY DEF Booking, WellFormed, TypeOK, Become
  <1> QED BY <1>1 DEF LedgerAgrees, Booking

LEMMA LedgerThreadStep ==
    ASSUME OneThreadPerKind, DatabaseKeeps, WellFormed, RowKnown, LedgerAgrees,
           NEW w \in Workers, StartEntry(w) \/ StartExit(w) \/ Step(w)
    PROVE  LedgerAgrees'
  <1> USE DEF dbVars
  <1>1. job[w] \in Jobs /\ Known(row, w, job[w]) /\ row \in Rows /\ history \in Nat
    BY DEF WellFormed, JobOK, RowKnown, TypeOK
  <1>2. LoadState = {row} /\ ArchiveTrade = {history + 1} /\ \A r : SaveState(r) = {r}
    BY DEF DatabaseKeeps, LoadState, SaveState, ArchiveTrade
  <1>3. IdleJob.pc = "idle"
    BY DEF IdleJob
  <1>4. \A pc, m, s, l :
          /\ [job[w] EXCEPT !.pc = pc].pc = pc
          /\ [job[w] EXCEPT !.mem = m, !.pc = pc].pc = pc
          /\ [job[w] EXCEPT !.mem = m, !.spread = s, !.pc = pc].pc = pc
          /\ [job[w] EXCEPT !.pc = pc, !.leg = l, !.spread = s].pc = pc
    BY <1>1 DEF Jobs
  <1>5. CASE OrderStep(w)
    <2>1. PICK j : Become(w, j) /\ SameSide(job[w], j)
      BY <1>5, OrderMoves
    <2>2. j.pc # "close" /\ job[w].pc # "close"
      BY <1>3, <1>5, <2>1, OrderMoves DEF SameSide
    <2> QED BY <1>5, <2>1, <2>2, OrderMoves, LedgerFrame
  <1>6. CASE StartEntry(w) \/ StartExit(w)
    <2>1. CASE StartEntry(w)
      <3> DEFINE pc == IF row.stage = "ABSENT" THEN "ensure" ELSE "trylock"
                 j == [job[w] EXCEPT !.mem = row, !.pc = pc]
      <3>1. UNCHANGED dbVars /\ Become(w, j) /\ job[w].pc = "idle"
        BY <1>2, <2>1, Zenon DEF StartEntry
      <3>2. j.pc = pc
        BY <1>4
      <3> HIDE DEF j
      <3> QED BY <3>1, <3>2, LedgerFrame
    <2>2. CASE StartExit(w)
      <3> DEFINE j == [job[w] EXCEPT !.mem = row, !.spread = row.spread, !.pc = "decide"]
      <3>1. UNCHANGED dbVars /\ Become(w, j) /\ job[w].pc = "idle"
        BY <1>2, <2>2 DEF StartExit
      <3>2. j.pc = "decide"
        BY <1>4
      <3> HIDE DEF j
      <3> QED BY <3>1, <3>2, LedgerFrame
    <2> QED BY <1>6, <2>1, <2>2
  <1>7. CASE EnsureSymbolState(w)
    <2>1. job[w].pc = "ensure" /\ row' = IdleRow /\ UNCHANGED history
      BY <1>2, <1>7 DEF EnsureSymbolState
    <2>2. row = AbsentRow
      BY <1>1, <2>1 DEF Known, BeforeTrade, RowKnown
    <2> QED BY <1>4, <1>7, <2>1, <2>2, LedgerFrame DEF EnsureSymbolState, AbsentRow, IdleRow
  <1>8. CASE SaveEntry(w)
    <2>1. row'.lifetime = job[w].mem.lifetime /\ job[w].pc = "save" /\ UNCHANGED history
      BY <1>2, <1>8 DEF SaveEntry
    <2>2. row'.lifetime = row.lifetime
      BY <1>1, <2>1 DEF Known, InTrade
    <2> QED BY <1>4, <1>8, <2>1, <2>2, LedgerFrame DEF SaveEntry
  <1>9. ASSUME NEW pc \in {"gates", "unlock", "archive", "place"}, NEW j, Become(w, j),
               j.pc = pc, job[w].pc # "close", UNCHANGED dbVars
        PROVE  LedgerAgrees'
    BY <1>9, LedgerFrame
  <1>10. CASE SkipLocked(w) \/ Unlock(w) \/ NoExit(w)
    BY <1>3, <1>10, LedgerFrame DEF SkipLocked, Unlock, NoExit, Finish
  <1>14. CASE AcquireLock(w)
    BY <1>4, <1>9, <1>14 DEF AcquireLock
  <1>15. CASE PassGates(w)
    <2>1. PICK s \in Spreads :
            Become(w, [job[w] EXCEPT !.pc = "place", !.leg = "BUY_HEDGE", !.spread = s])
      BY <1>15 DEF PassGates
    <2> DEFINE j == [job[w] EXCEPT !.pc = "place", !.leg = "BUY_HEDGE", !.spread = s]
    <2>2. j.pc = "place" /\ Become(w, j)
      BY <1>4, <2>1
    <2> HIDE DEF j
    <2> QED BY <1>9, <1>15, <2>2 DEF PassGates
  <1>16. CASE BlockedByGate(w)
    BY <1>4, <1>9, <1>16 DEF BlockedByGate
  <1>17. CASE TriggerExit(w)
    <2>1. At(w, "place", "BTC").pc = "place"
      BY AtFields DEF WellFormed
    <2> QED BY <1>9, <1>17, <2>1 DEF TriggerExit
  <1>18. CASE SettleExpired(w)
    BY <1>4, <1>9, <1>18 DEF SettleExpired
  <1>11. ASSUME Exiting(job[w]), NEW v \in Workers, job[v].pc = "close"
         PROVE  v = w
    BY <1>1, <1>11 DEF Known, Exiting, OneThreadPerKind, RowKnown
  <1>12. CASE ArchiveExit(w)
    <2>1. /\ history' = history + 1 /\ UNCHANGED row /\ job[w].pc = "archive"
          /\ Become(w, [job[w] EXCEPT !.pc = "close"])
      BY <1>2, <1>12 DEF ArchiveExit
    <2>2. Booking = {} /\ Booking' = {w}
      BY <1>4, <1>11, <2>1 DEF Exiting, Booking, WellFormed, TypeOK, Become
    <2>3. Cardinality(Booking) = 0 /\ Cardinality(Booking') = 1
      BY <2>2, FS_EmptySet, FS_Singleton
    <2> QED BY <1>1, <2>1, <2>3 DEF LedgerAgrees, Booking, Rows
  <1>13. CASE SaveClosed(w)
    <2>1. /\ UNCHANGED history /\ job[w].pc = "close" /\ Become(w, IdleJob)
          /\ row'.lifetime = job[w].mem.lifetime + 1
      BY <1>2, <1>13 DEF SaveClosed, Finish
    <2>2. job[w].mem = row
      BY <1>1, <2>1 DEF Known, Exiting
    <2>3. Booking = {w} /\ Booking' = {}
      BY <1>3, <1>11, <2>1 DEF Exiting, Booking, WellFormed, TypeOK, Become
    <2>4. Cardinality(Booking) = 1 /\ Cardinality(Booking') = 0
      BY <2>3, FS_EmptySet, FS_Singleton
    <2> QED BY <1>1, <2>1, <2>2, <2>4 DEF LedgerAgrees, Booking, Rows
  <1> QED
    BY <1>5, <1>6, <1>7, <1>8, <1>10, <1>12, <1>13, <1>14, <1>15, <1>16,
       <1>17, <1>18
       DEF Step, EntryStep, ExitStep

LEMMA LedgerStep ==
    ASSUME OneThreadPerKind, DatabaseKeeps, "crash" \notin Faults,
           WellFormed, RowKnown, LedgerAgrees, [Next]_vars
    PROVE  LedgerAgrees'
  <1>1. ASSUME NEW w \in Workers, StartEntry(w) \/ StartExit(w) \/ Step(w)
        PROVE  LedgerAgrees'
    BY <1>1, LedgerThreadStep
  <1>2. CASE BrokerStep
    <2>1. UNCHANGED dbVars
      BY <1>2 DEF BrokerStep, FillOrder, RejectOrder, Expire, FillStray, dbVars
    <2>2. \A w \in Workers : job'[w].pc = job[w].pc
      BY <1>2, BrokerKeepsJob
    <2>3. Booking' = Booking
      BY <2>2 DEF Booking
    <2> QED BY <2>1, <2>3 DEF LedgerAgrees, Booking, dbVars
  <1>3. ~Crash
    BY DEF Crash
  <1>4. CASE LoseSession \/ UNCHANGED vars
    BY <1>4 DEF LoseSession, dbVars, vars, LedgerAgrees
  <1> QED BY <1>1, <1>2, <1>3, <1>4 DEF Next

\* No booking is lost or doubled: the P&L carried in the row is the sum of the
\* trade history, but for the trade between its archive and its save, whatever
\* the broker answers.  A crash between the two writes is what it does not survive.
THEOREM BooksAgree ==
    OneThreadPerKind /\ DatabaseKeeps /\ "crash" \notin Faults => (Spec => []LedgerAgrees)
  <1> SUFFICES ASSUME OneThreadPerKind, DatabaseKeeps, "crash" \notin Faults
               PROVE  Spec => []LedgerAgrees
    OBVIOUS
  <1>1. Init => LedgerAgrees
    <2> SUFFICES ASSUME Init PROVE LedgerAgrees
      OBVIOUS
    <2>1. {w \in Workers : job[w].pc = "close"} = {}
      BY DEF Init, IdleJob
    <2> QED BY <2>1, FS_EmptySet DEF Init, AbsentRow, LedgerAgrees
  <1>2. WellFormed /\ RowKnown /\ LedgerAgrees /\ [Next]_vars => LedgerAgrees'
    BY LedgerStep
  <1> QED BY <1>1, <1>2, AlwaysWellFormed, AlwaysRowKnown, PTL DEF Spec

-----------------------------------------------------------------------------
(* The short leg: what the account owes and what the row says *)

\* What an order, a leg and a program counter say of each other in a job.
Tidy(j) ==
    /\ j.pc = "cancel" => j.ord # "complete"
    /\ j.ord = "open" => j.spread \notin expired
    /\ j.leg = "STC" => Exiting(j)
    /\ j.pc = "save" => j.leg = "SELL_SHORT"
    /\ j.pc = "decide" => j.leg = "BUY_HEDGE"
    /\ j.pc \in {"archive", "close"} => j.leg = "STC" \/ j.spread \in expired

\* One short of spread s should be in the account: the row shows it and no exit
\* has bought it back, or an entry has sold it and not saved it yet.
Owed(s) ==
    \/ row.spread = s /\ \A w \in Workers : ~Covered(job[w], s)
    \/ \E w \in Workers : Unsaved(job[w], s)

Account ==
    /\ \A w \in Workers : Tidy(job[w])
    /\ \A s \in Spreads : stray[s]["SELL_SHORT"] = 0 /\ stray[s]["BTC"] = 0
    /\ \A s \in expired : sold[s] = 0
    /\ \A s \in Spreads \ expired : sold[s] = IF Owed(s) THEN 1 ELSE 0

\* A step of a job that neither trades a short leg nor saves one.
SameShort(j, k) ==
    \A s \in Spreads : /\ Unsaved(k, s) <=> Unsaved(j, s)
                       /\ Covered(k, s) <=> Covered(j, s)

LEMMA IdleTidy ==
    /\ Tidy(IdleJob)
    /\ \A s \in Spreads : ~Unsaved(IdleJob, s) /\ ~Covered(IdleJob, s)
  BY DEF Tidy, IdleJob, Unsaved, Covered

LEMMA AfterFillShort ==
    ASSUME NEW w \in Workers, JobOK(job[w]), job[w].pc = "poll", job[w].ord = "complete"
    PROVE  Tidy(AfterFill(w)) /\ SameShort(job[w], AfterFill(w))
  <1>1. job[w].leg \in Legs
    BY DEF JobOK, Jobs
  <1>2. CASE job[w].leg = "BUY_HEDGE"
    BY <1>2, AtFields DEF AfterFill, Tidy, SameShort, Unsaved, Covered, Exiting
  <1>3. CASE job[w].leg = "SELL_SHORT"
    BY <1>3, AtFields DEF AfterFill, Tidy, SameShort, Unsaved, Covered, Exiting
  <1>4. CASE job[w].leg = "UNWIND"
    BY <1>4, AtFields DEF AfterFill, Tidy, SameShort, Unsaved, Covered, Exiting
  <1>5. CASE job[w].leg = "BTC"
    BY <1>5, AtFields DEF AfterFill, Tidy, SameShort, Unsaved, Covered, Exiting
  <1>6. CASE job[w].leg = "STC"
    BY <1>6, AtFields DEF AfterFill, Tidy, SameShort, Unsaved, Covered, Exiting
  <1> QED BY <1>1, <1>2, <1>3, <1>4, <1>5, <1>6, LegsListed

LEMMA AfterGiveUpShort ==
    ASSUME NEW w \in Workers, JobOK(job[w]), job[w].pc \in {"place", "poll", "cancel"},
           job[w].ord # "complete" \/ job[w].leg \in UncancelledLegs
    PROVE  Tidy(AfterGiveUp(w)) /\ SameShort(job[w], AfterGiveUp(w))
  <1>1. job[w].leg \in Legs
    BY DEF JobOK, Jobs
  <1>2. CASE job[w].leg = "BUY_HEDGE"
    BY <1>2, AtFields DEF AfterGiveUp, Tidy, SameShort, Unsaved, Covered, Exiting
  <1>3. CASE job[w].leg = "SELL_SHORT"
    BY <1>3, AtFields
       DEF AfterGiveUp, Tidy, SameShort, Unsaved, Covered, Exiting, UncancelledLegs
  <1>4. CASE job[w].leg = "UNWIND"
    BY <1>4, AtFields DEF AfterGiveUp, Tidy, SameShort, Unsaved, Covered, Exiting
  <1>5. CASE job[w].leg = "BTC"
    <2>1. AfterGiveUp(w) = IdleJob
      BY <1>5 DEF AfterGiveUp
    <2> QED
      BY <1>5, <2>1, IdleTidy DEF SameShort, Unsaved, Covered, UncancelledLegs
  <1>6. CASE job[w].leg = "STC"
    BY <1>6, AtFields DEF AfterGiveUp, Tidy, SameShort, Unsaved, Covered, Exiting
  <1> QED BY <1>1, <1>2, <1>3, <1>4, <1>5, <1>6, LegsListed

LEMMA RequoteShort ==
    ASSUME NEW w \in Workers, JobOK(job[w]), job[w].pc \in {"poll", "cancel"},
           job[w].ord # "complete"
    PROVE  Tidy(RequoteOrGiveUp(w)) /\ SameShort(job[w], RequoteOrGiveUp(w))
  <1> DEFINE n == job[w].tries + 1
             j == [job[w] EXCEPT !.pc = "place", !.tries = n, !.ord = "none"]
  <1>1. \/ RequoteOrGiveUp(w) = j /\ job[w].leg \in EntryLegs
        \/ RequoteOrGiveUp(w) = AfterGiveUp(w)
    BY DEF RequoteOrGiveUp
  <1>2. job[w] \in Jobs
    BY DEF JobOK
  <1> HIDE DEF n
  <1>3. j.pc = "place" /\ j.leg = job[w].leg /\ j.ord = "none" /\ j.spread = job[w].spread
    BY <1>2 DEF Jobs
  <1> HIDE DEF j
  <1>4. job[w].leg \in EntryLegs => Tidy(j) /\ SameShort(job[w], j)
    BY <1>3 DEF Tidy, SameShort, Unsaved, Covered, EntryLegs
  <1> QED BY <1>1, <1>4, AfterGiveUpShort

LEMMA OrderMovesShort ==
    ASSUME TruthfulBroker, WellFormed, NEW w \in Workers, Tidy(job[w]), OrderStep(w)
    PROVE  /\ \E j : Become(w, j) /\ Tidy(j) /\ SameShort(job[w], j)
           /\ UNCHANGED <<row, sold, expired>>
           /\ \A s \in Spreads : /\ stray'[s]["SELL_SHORT"] = stray[s]["SELL_SHORT"]
                                 /\ stray'[s]["BTC"] = stray[s]["BTC"]
  <1> USE DEF dbVars, brokerVars
  <1>1. JobOK(job[w]) /\ job[w] \in Jobs
    BY DEF WellFormed, JobOK
  <1>2. "late_fill" \notin Faults /\ "lost_reply" \notin Faults /\ "status_error" \notin Faults
    BY DEF TruthfulBroker
  <1>3. CASE PlaceAccepted(w)
    <2> DEFINE j == [job[w] EXCEPT !.pc = "poll", !.ord = "open"]
    <2>1. /\ j.pc = "poll" /\ j.leg = job[w].leg /\ j.ord = "open"
          /\ j.spread = job[w].spread
      BY <1>1 DEF Jobs
    <2>2. /\ job[w].pc = "place" /\ job[w].ord = "none" /\ job[w].spread \notin expired
          /\ Become(w, j) /\ UNCHANGED <<row, sold, expired, stray>>
      BY <1>1, <1>3 DEF PlaceAccepted, JobOK
    <2> HIDE DEF j
    <2>3. Tidy(j) /\ SameShort(job[w], j)
      BY <2>1, <2>2 DEF Tidy, SameShort, Unsaved, Covered, Exiting
    <2> QED BY <2>2, <2>3
  <1>4. CASE PlaceReturnsNone(w)
    <2>1. /\ job[w].pc = "place" /\ job[w].ord = "none" /\ UNCHANGED <<row, sold, expired, stray>>
          /\ Become(w, AfterGiveUp(w))
      BY <1>1, <1>2, <1>4 DEF PlaceReturnsNone, JobOK
    <2> QED BY <1>1, <2>1, AfterGiveUpShort
  <1>5. CASE PollComplete(w)
    BY <1>1, <1>5, AfterFillShort DEF PollComplete
  <1>6. CASE PollRejected(w)
    BY <1>1, <1>6, RequoteShort DEF PollRejected
  <1>7. CASE PollTimeout(w)
    <2> DEFINE j == [job[w] EXCEPT !.pc = "cancel"]
    <2>1. /\ j.pc = "cancel" /\ j.leg = job[w].leg /\ j.ord = job[w].ord
          /\ j.spread = job[w].spread
      BY <1>1 DEF Jobs
    <2>2. /\ job[w].pc = "poll" /\ job[w].ord = "open" /\ job[w].leg \notin UncancelledLegs
          /\ Become(w, j) /\ UNCHANGED <<row, sold, expired, stray>>
      BY <1>1, <1>2, <1>7 DEF PollTimeout, Unsettled
    <2> HIDE DEF j
    <2>3. Tidy(j) /\ SameShort(job[w], j)
      BY <2>1, <2>2 DEF Tidy, SameShort, Unsaved, Covered, Exiting, UncancelledLegs
    <2> QED BY <2>2, <2>3
  <1>8. CASE PollAbandon(w)
    <2>1. /\ job[w].pc = "poll" /\ job[w].leg \in UncancelledLegs
          /\ UNCHANGED <<row, sold, expired>> /\ Become(w, AfterGiveUp(w))
          /\ Abandon(w) \/ UNCHANGED stray
      BY <1>8 DEF PollAbandon
    <2>2. ASSUME NEW s \in Spreads, NEW l \in {"SELL_SHORT", "BTC"}
          PROVE  stray'[s][l] = stray[s][l]
      <3>1. stray \in [Spreads -> [Legs -> Nat]] /\ job[w].spread \in Spreads /\ l \in Legs
        BY <1>1, <2>1, LegsListed DEF WellFormed, TypeOK, JobOK
      <3>2. job[w].leg # l
        BY <2>1 DEF UncancelledLegs
      <3> QED BY <2>1, <3>1, <3>2 DEF Abandon
    <2> QED BY <1>1, <2>1, <2>2, AfterGiveUpShort
  <1>9. CASE CancelOrder(w)
    <2>1. /\ job[w].pc = "cancel" /\ job[w].ord # "complete"
          /\ UNCHANGED <<row, sold, expired, stray>>
          /\ Become(w, RequoteOrGiveUp(w))
      BY <1>2, <1>9 DEF CancelOrder, Tidy
    <2> QED BY <1>1, <2>1, RequoteShort
  <1> QED BY <1>3, <1>4, <1>5, <1>6, <1>7, <1>8, <1>9 DEF OrderStep

\* A thread's step that moves no short leg and keeps the row's spread.
LEMMA AccountFrame ==
    ASSUME WellFormed, Account, NEW w \in Workers, NEW j, Become(w, j), Tidy(j),
           SameShort(job[w], j), row'.spread = row.spread, UNCHANGED <<sold, expired>>,
           \A s \in Spreads : /\ stray'[s]["SELL_SHORT"] = stray[s]["SELL_SHORT"]
                              /\ stray'[s]["BTC"] = stray[s]["BTC"]
    PROVE  Account'
  <1>1. job'[w] = j /\ \A v \in Workers \ {w} : job'[v] = job[v]
    BY DEF WellFormed, TypeOK, Become
  <1>2. \A v \in Workers : Tidy(job[v])'
    BY <1>1 DEF Account, Tidy
  <1>3. ASSUME NEW s \in Spreads
        PROVE  Owed(s)' <=> Owed(s)
    <2>1. \A v \in Workers : /\ Unsaved(job'[v], s) <=> Unsaved(job[v], s)
                             /\ Covered(job'[v], s) <=> Covered(job[v], s)
      BY <1>1 DEF SameShort
    <2> QED BY <2>1 DEF Owed
  <1> QED BY <1>2, <1>3 DEF Account

\* A row without a position names no spread, and the two jobs that may be between
\* a trade and its save know which state the row is in.
LEMMA UnsavedRow ==
    ASSUME WellFormed, RowKnown, NEW w \in Workers, NEW s \in Spreads, Unsaved(job[w], s)
    PROVE  w \in Entrants /\ row.stage # "STAGE_1_CSP" /\ row.spread = NoSpread
  <1>1. JobOK(job[w]) /\ Known(row, w, job[w])
    BY DEF WellFormed, RowKnown
  <1>2. InTrade(job[w])
    BY <1>1 DEF Unsaved, JobOK, InTrade, EntryLegs
  <1> QED BY <1>1, <1>2 DEF Known, RowKnown

LEMMA CoveredRow ==
    ASSUME WellFormed, RowKnown, NEW w \in Workers, Tidy(job[w]), NEW s \in Spreads,
           Covered(job[w], s)
    PROVE  w \in Exiters /\ row.stage = "STAGE_1_CSP" /\ row.spread = s
  <1>1. JobOK(job[w]) /\ Known(row, w, job[w])
    BY DEF WellFormed, RowKnown
  <1>2. Exiting(job[w])
    BY <1>1 DEF Covered, JobOK, Exiting, Tidy
  <1> QED BY <1>1, <1>2 DEF Known, Covered

LEMMA AccountEntryStep ==
    ASSUME OneThreadPerKind, DatabaseKeeps, WellFormed, RowKnown, Account,
           NEW w \in Workers, StartEntry(w) \/ EntryStep(w)
    PROVE  Account'
  <1> USE DEF dbVars, brokerVars
  <1>1. /\ job[w] \in Jobs /\ JobOK(job[w]) /\ Known(row, w, job[w]) /\ Tidy(job[w])
        /\ row \in Rows
    BY DEF WellFormed, JobOK, RowKnown, Account, TypeOK
  <1>2. LoadState = {row} /\ \A r : SaveState(r) = {r}
    BY DEF DatabaseKeeps, LoadState, SaveState
  <1>3. ASSUME NEW j, Become(w, j), Tidy(j), SameShort(job[w], j),
               row'.spread = row.spread, UNCHANGED brokerVars
        PROVE  Account'
    BY <1>3, AccountFrame
  <1>4. CASE StartEntry(w)
    <2> DEFINE pc == IF row.stage = "ABSENT" THEN "ensure" ELSE "trylock"
               j == [job[w] EXCEPT !.mem = row, !.pc = pc]
    <2>1. UNCHANGED <<row, brokerVars>> /\ Become(w, j) /\ job[w] = IdleJob
      BY <1>1, <1>2, <1>4, Zenon DEF StartEntry, Known
    <2> HIDE DEF pc
    <2>2. j.pc = pc /\ j.leg = "BUY_HEDGE" /\ j.ord = "none"
      BY <1>1, <2>1 DEF Jobs, IdleJob
    <2> HIDE DEF j
    <2>3. Tidy(j) /\ SameShort(job[w], j)
      BY <2>1, <2>2, IdleTidy DEF pc, Tidy, SameShort, Unsaved, Covered
    <2> QED BY <1>3, <2>1, <2>3
  <1>5. ASSUME NEW pc \in {"trylock", "gates", "unlock"}, NEW m, NEW j,
               Become(w, j), j.pc = pc, j.leg = job[w].leg, j.ord = job[w].ord,
               j.spread = job[w].spread, job[w].pc \in {"ensure", "trylock", "gates"},
               row'.spread = row.spread, UNCHANGED brokerVars
        PROVE  Account'
    <2>1. Tidy(j) /\ SameShort(job[w], j)
      BY <1>1, <1>5 DEF Tidy, JobOK, SameShort, Unsaved, Covered, Exiting
    <2> QED BY <1>3, <1>5, <2>1
  <1>6. CASE EnsureSymbolState(w)
    <2> DEFINE j == [job[w] EXCEPT !.mem = IdleRow, !.pc = "trylock"]
    <2>1. /\ job[w].pc = "ensure" /\ row' = IdleRow /\ Become(w, j) /\ UNCHANGED brokerVars
          /\ j.pc = "trylock" /\ j.leg = job[w].leg /\ j.ord = job[w].ord
          /\ j.spread = job[w].spread
      BY <1>1, <1>2, <1>6 DEF EnsureSymbolState, Jobs
    <2>2. row.spread = NoSpread /\ row'.spread = NoSpread
      BY <1>1, <2>1 DEF Known, BeforeTrade, RowKnown, AbsentRow, IdleRow
    <2> HIDE DEF j
    <2> QED BY <1>5, <2>1, <2>2
  <1>7. CASE AcquireLock(w)
    <2> DEFINE j == [job[w] EXCEPT !.pc = "gates"]
    <2>1. /\ job[w].pc = "trylock" /\ Become(w, j) /\ UNCHANGED <<row, brokerVars>>
          /\ j.pc = "gates" /\ j.leg = job[w].leg /\ j.ord = job[w].ord
          /\ j.spread = job[w].spread
      BY <1>1, <1>7 DEF AcquireLock, Jobs
    <2> HIDE DEF j
    <2> QED BY <1>5, <2>1
  <1>8. CASE SkipLocked(w)
    <2>1. /\ job[w].pc = "trylock" /\ Become(w, IdleJob) /\ UNCHANGED <<row, brokerVars>>
      BY <1>8 DEF SkipLocked, Finish
    <2>2. SameShort(job[w], IdleJob)
      BY <1>1, <2>1, IdleTidy DEF JobOK, Tidy, Exiting, SameShort, Unsaved, Covered
    <2> QED BY <1>3, <2>1, <2>2, IdleTidy
  <1>9. CASE PassGates(w)
    <2>1. PICK s \in Spreads :
            Become(w, [job[w] EXCEPT !.pc = "place", !.leg = "BUY_HEDGE", !.spread = s])
      BY <1>9 DEF PassGates
    <2> DEFINE j == [job[w] EXCEPT !.pc = "place", !.leg = "BUY_HEDGE", !.spread = s]
    <2>2. /\ job[w].pc = "gates" /\ UNCHANGED <<row, brokerVars>>
          /\ j.pc = "place" /\ j.leg = "BUY_HEDGE" /\ j.ord = job[w].ord
      BY <1>1, <1>9 DEF PassGates, Jobs
    <2>3. Become(w, j)
      BY <2>1
    <2> HIDE DEF j
    <2>4. Tidy(j) /\ SameShort(job[w], j)
      BY <1>1, <2>2 DEF JobOK, Tidy, Exiting, SameShort, Unsaved, Covered
    <2> QED BY <1>3, <2>2, <2>3, <2>4
  <1>10. CASE BlockedByGate(w)
    <2> DEFINE j == [job[w] EXCEPT !.pc = "unlock"]
    <2>1. /\ job[w].pc = "gates" /\ Become(w, j) /\ UNCHANGED <<row, brokerVars>>
          /\ j.pc = "unlock" /\ j.leg = job[w].leg /\ j.ord = job[w].ord
          /\ j.spread = job[w].spread
      BY <1>1, <1>10 DEF BlockedByGate, Jobs
    <2> HIDE DEF j
    <2> QED BY <1>5, <2>1
  <1>11. CASE SaveEntry(w)
    <2> DEFINE j == [job[w] EXCEPT !.pc = "unlock"]
               s == job[w].spread
    <2>1. /\ job[w].pc = "save" /\ Become(w, j) /\ UNCHANGED brokerVars
          /\ j.pc = "unlock" /\ j.leg = job[w].leg /\ j.ord = job[w].ord
          /\ j.spread = s /\ row'.spread = s
      BY <1>1, <1>2, <1>11 DEF SaveEntry, Jobs
    <2> HIDE DEF j
    <2>2. s \in Spreads /\ job[w].leg = "SELL_SHORT" /\ job[w].ord = "none"
      BY <1>1, <2>1 DEF JobOK, Tidy
    <2>3. Unsaved(job[w], s) /\ w \in Entrants /\ row.stage # "STAGE_1_CSP"
          /\ row.spread = NoSpread
      BY <2>1, <2>2, UnsavedRow DEF Unsaved
    <2>4. \A v \in Workers, t \in Spreads :
            /\ Unsaved(job[v], t) => v = w
            /\ ~Covered(job[v], t)
      BY <2>3, UnsavedRow, CoveredRow DEF OneThreadPerKind, Account
    <2>5. job'[w] = j /\ \A v \in Workers \ {w} : job'[v] = job[v]
      BY <2>1 DEF WellFormed, TypeOK, Become
    <2>6. \A v \in Workers, t \in Spreads : ~Unsaved(job'[v], t) /\ ~Covered(job'[v], t)
      BY <2>1, <2>2, <2>4, <2>5 DEF Unsaved, Covered
    <2>7. ASSUME NEW t \in Spreads
          PROVE  Owed(t)' <=> Owed(t)
      <3>1. Owed(t)' <=> t = s
        BY <2>1, <2>6 DEF Owed
      <3>2. Owed(t) <=> t = s
        BY <2>2, <2>3, <2>4, SpreadAssumption DEF Owed, Unsaved
      <3> QED BY <3>1, <3>2
    <2>8. Tidy(j)
      BY <2>1, <2>2 DEF Tidy
    <2>9. \A v \in Workers : Tidy(job[v])'
      BY <2>1, <2>5, <2>8 DEF Account, Tidy
    <2> QED BY <2>1, <2>7, <2>9 DEF Account
  <1>12. CASE Unlock(w)
    <2>1. /\ job[w].pc = "unlock" /\ Become(w, IdleJob) /\ UNCHANGED <<row, brokerVars>>
      BY <1>12 DEF Unlock, Finish
    <2>2. SameShort(job[w], IdleJob)
      BY <1>1, <2>1, IdleTidy DEF JobOK, Tidy, Exiting, SameShort, Unsaved, Covered
    <2> QED BY <1>3, <2>1, <2>2, IdleTidy
  <1> QED
    BY <1>4, <1>6, <1>7, <1>8, <1>9, <1>10, <1>11, <1>12 DEF EntryStep

LEMMA AccountExitStep ==
    ASSUME OneThreadPerKind, DatabaseKeeps, WellFormed, RowKnown, Account,
           NEW w \in Workers, StartExit(w) \/ ExitStep(w)
    PROVE  Account'
  <1> USE DEF dbVars, brokerVars
  <1>1. /\ job[w] \in Jobs /\ JobOK(job[w]) /\ Known(row, w, job[w]) /\ Tidy(job[w])
        /\ row \in Rows
    BY DEF WellFormed, JobOK, RowKnown, Account, TypeOK
  <1>2. LoadState = {row} /\ \A r : SaveState(r) = {r}
    BY DEF DatabaseKeeps, LoadState, SaveState
  <1>3. ASSUME NEW j, Become(w, j), Tidy(j), SameShort(job[w], j),
               row'.spread = row.spread, UNCHANGED brokerVars
        PROVE  Account'
    BY <1>3, AccountFrame
  <1>4. CASE StartExit(w)
    <2> DEFINE j == [job[w] EXCEPT !.mem = row, !.spread = row.spread, !.pc = "decide"]
    <2>1. UNCHANGED <<row, brokerVars>> /\ Become(w, j) /\ job[w] = IdleJob
      BY <1>1, <1>2, <1>4 DEF StartExit, Known
    <2>2. j.pc = "decide" /\ j.leg = "BUY_HEDGE" /\ j.ord = "none"
      BY <1>1, <2>1 DEF Jobs, IdleJob
    <2> HIDE DEF j
    <2>3. Tidy(j) /\ SameShort(job[w], j)
      BY <2>1, <2>2, IdleTidy DEF Tidy, SameShort, Unsaved, Covered
    <2> QED BY <1>3, <2>1, <2>3
  <1>6. CASE NoExit(w)
    <2>1. /\ job[w].pc = "decide" /\ Become(w, IdleJob) /\ UNCHANGED <<row, brokerVars>>
      BY <1>6 DEF NoExit, Finish
    <2>2. SameShort(job[w], IdleJob)
      BY <1>1, <2>1, IdleTidy DEF JobOK, Tidy, Exiting, SameShort, Unsaved, Covered
    <2> QED BY <1>3, <2>1, <2>2, IdleTidy
  <1>7. CASE TriggerExit(w)
    <2> DEFINE j == At(w, "place", "BTC")
    <2>1. /\ j.pc = "place" /\ j.leg = "BTC" /\ j.ord = "none" /\ job[w].pc = "decide"
          /\ Become(w, j) /\ UNCHANGED <<row, brokerVars>>
      BY <1>1, <1>7, AtFields DEF TriggerExit
    <2> HIDE DEF j
    <2>2. Tidy(j) /\ SameShort(job[w], j)
      BY <1>1, <2>1 DEF Tidy, JobOK, SameShort, Unsaved, Covered
    <2> QED BY <1>3, <2>1, <2>2
  <1>8. ASSUME NEW pc \in {"archive", "close"}, job[w].pc \in {"decide", "archive"},
               Become(w, [job[w] EXCEPT !.pc = pc]), UNCHANGED <<row, brokerVars>>,
               job[w].leg = "STC" \/ job[w].spread \in expired
        PROVE  Account'
    <2> DEFINE j == [job[w] EXCEPT !.pc = pc]
    <2>1. /\ j.pc = pc /\ j.leg = job[w].leg /\ j.ord = job[w].ord
          /\ j.spread = job[w].spread /\ Become(w, j)
      BY <1>1, <1>8 DEF Jobs
    <2> HIDE DEF j
    <2>2. Tidy(j) /\ SameShort(job[w], j)
      BY <1>1, <1>8, <2>1 DEF Tidy, JobOK, SameShort, Unsaved, Covered, Exiting
    <2> QED BY <1>3, <1>8, <2>1, <2>2
  <1>9. CASE SettleExpired(w)
    BY <1>8, <1>9 DEF SettleExpired
  <1>10. CASE ArchiveExit(w)
    BY <1>1, <1>8, <1>10 DEF ArchiveExit, Tidy
  <1>11. CASE SaveClosed(w)
    <2> DEFINE s == job[w].spread
    <2>1. /\ job[w].pc = "close" /\ Become(w, IdleJob) /\ UNCHANGED brokerVars
          /\ row'.spread = NoSpread
      BY <1>2, <1>11 DEF SaveClosed, Finish
    <2>2. w \in Exiters /\ row.stage = "STAGE_1_CSP" /\ row.spread = s
      BY <1>1, <2>1 DEF Known, Exiting
    <2>3. s \in Spreads /\ (job[w].leg = "STC" \/ s \in expired)
      BY <1>1, <2>1, <2>2 DEF WellFormed, Tidy
    <2>4. \A v \in Workers, t \in Spreads :
            /\ ~Unsaved(job[v], t)
            /\ Covered(job[v], t) => v = w
      BY <2>2, UnsavedRow, CoveredRow DEF OneThreadPerKind, Account
    <2>5. job'[w] = IdleJob /\ \A v \in Workers \ {w} : job'[v] = job[v]
      BY <2>1 DEF WellFormed, TypeOK, Become
    <2>6. \A v \in Workers, t \in Spreads : ~Unsaved(job'[v], t)
      BY <2>4, <2>5, IdleTidy
    <2>7. ASSUME NEW t \in Spreads \ expired
          PROVE  ~Owed(t)' /\ ~Owed(t)
      <3>1. ~Owed(t)'
        BY <2>1, <2>6, SpreadAssumption DEF Owed
      <3>2. CASE t = s
        <4>1. Covered(job[w], t)
          BY <2>1, <2>3, <3>2 DEF Covered
        <4> QED BY <2>4, <3>1, <4>1 DEF Owed
      <3>3. CASE t # s
        BY <2>2, <2>4, <3>1, <3>3 DEF Owed
      <3> QED BY <3>2, <3>3
    <2>8. \A v \in Workers : Tidy(job[v])'
      BY <2>1, <2>5, IdleTidy DEF Account, Tidy, IdleJob
    <2> QED BY <2>1, <2>7, <2>8 DEF Account
  <1> QED BY <1>4, <1>6, <1>7, <1>9, <1>10, <1>11 DEF ExitStep

\* The order of a watching thread trades: the only step that moves a short leg.
LEMMA AccountFill ==
    ASSUME OneThreadPerKind, TruthfulBroker, WellFormed, RowKnown, Account,
           NEW w \in Workers, FillOrder(w),
           NEW s, s = job[w].spread, NEW leg, leg = job[w].leg
    PROVE  Account'
  <1>1. /\ job[w] \in Jobs /\ JobOK(job[w]) /\ Known(row, w, job[w]) /\ Tidy(job[w])
        /\ sold \in [Spreads -> Int]
    BY DEF WellFormed, JobOK, RowKnown, Account, TypeOK
  <1>2. /\ job[w].ord = "open" /\ job[w].pc = "poll" /\ s \in Spreads \ expired
        /\ UNCHANGED <<row, stray, expired>>
        /\ sold' = [sold EXCEPT ![s] = @ + LegSold(leg)]
    BY <1>1 DEF FillOrder, TruthfulBroker, JobOK, Execute, dbVars
  <1>3. /\ job'[w].ord = "complete" /\ job'[w].leg = leg /\ job'[w].pc = "poll"
        /\ job'[w].spread = s
        /\ \A v \in Workers \ {w} : job'[v] = job[v]
    BY <1>1, <1>2 DEF FillOrder, Become, WellFormed, TypeOK, Jobs
  <1>4. leg \in Legs
    BY <1>1 DEF Jobs
  <1>5. Tidy(job'[w])
    BY <1>1, <1>2, <1>3 DEF Tidy, Exiting
  <1>6. \A v \in Workers : Tidy(job[v])'
    BY <1>2, <1>3, <1>5 DEF Account, Tidy
  <1>7. ASSUME NEW t \in Spreads \ {s}
        PROVE  (Owed(t)' <=> Owed(t)) /\ sold'[t] = sold[t]
    <2>1. \A v \in Workers : /\ Unsaved(job'[v], t) <=> Unsaved(job[v], t)
                             /\ Covered(job'[v], t) <=> Covered(job[v], t)
      BY <1>3 DEF Unsaved, Covered
    <2> QED BY <1>1, <1>2, <2>1 DEF Owed
  <1>8. sold'[s] = IF Owed(s)' THEN 1 ELSE 0
    <2>1. sold'[s] = sold[s] + LegSold(leg) /\ sold[s] = IF Owed(s) THEN 1 ELSE 0
      BY <1>1, <1>2 DEF Account
    <2>2. CASE leg = "SELL_SHORT"
      <3>1. LegSold(leg) = 1
        BY <2>2 DEF LegSold
      <3>2. InTrade(job[w])
        BY <1>2, <2>2 DEF InTrade, EntryLegs
      <3>3. w \in Entrants /\ row.spread = NoSpread
        BY <1>1, <3>2 DEF Known, RowKnown
      <3>4. ~Unsaved(job[w], s)
        BY <1>2 DEF Unsaved
      <3>5. \A v \in Workers : ~Unsaved(job[v], s)
        BY <1>2, <3>3, <3>4, UnsavedRow DEF OneThreadPerKind
      <3>6. ~Owed(s)
        BY <1>2, <3>3, <3>5, SpreadAssumption DEF Owed
      <3>7. Owed(s)'
        BY <1>3, <2>2 DEF Owed, Unsaved
      <3> QED BY <2>1, <3>1, <3>6, <3>7
    <2>3. CASE leg = "BTC"
      <3>1. LegSold(leg) = -1
        BY <2>3 DEF LegSold
      <3>2. Exiting(job[w])
        BY <1>2, <2>3 DEF Exiting
      <3>3. w \in Exiters /\ row.stage = "STAGE_1_CSP" /\ row.spread = s
        BY <1>1, <3>2 DEF Known
      <3>4. ~Covered(job[w], s)
        BY <1>2, <2>3 DEF Covered
      <3>5. \A v \in Workers : ~Covered(job[v], s) /\ ~Unsaved(job[v], s)
        BY <1>2, <3>3, <3>4, CoveredRow, UnsavedRow DEF OneThreadPerKind, Account
      <3>6. Owed(s)
        BY <3>3, <3>5 DEF Owed
      <3>7. Covered(job'[w], s) /\ \A v \in Workers : ~Unsaved(job'[v], s)
        BY <1>3, <2>3, <3>5 DEF Covered, Unsaved
      <3>8. ~Owed(s)'
        BY <3>7 DEF Owed
      <3> QED BY <2>1, <3>1, <3>6, <3>8
    <2>4. CASE leg \in {"BUY_HEDGE", "UNWIND", "STC"}
      <3>1. LegSold(leg) = 0
        BY <2>4 DEF LegSold
      <3>2. \A v \in Workers : /\ Unsaved(job'[v], s) <=> Unsaved(job[v], s)
                               /\ Covered(job'[v], s) <=> Covered(job[v], s)
        BY <1>2, <1>3, <2>4 DEF Unsaved, Covered
      <3>3. Owed(s)' <=> Owed(s)
        BY <1>2, <3>2 DEF Owed
      <3> QED BY <2>1, <3>1, <3>3
    <2> QED BY <1>4, <2>2, <2>3, <2>4, LegsListed
  <1>9. \A t \in Spreads \ expired : sold'[t] = IF Owed(t)' THEN 1 ELSE 0
    BY <1>7, <1>8 DEF Account
  <1>10. \A t \in expired : sold'[t] = 0
    BY <1>2, <1>7 DEF Account, WellFormed, TypeOK
  <1> QED BY <1>2, <1>6, <1>9, <1>10 DEF Account

LEMMA AccountBrokerStep ==
    ASSUME OneThreadPerKind, TruthfulBroker, WellFormed, RowKnown, Account, BrokerStep
    PROVE  Account'
  <1> USE DEF dbVars, brokerVars
  <1>1. /\ sold \in [Spreads -> Int] /\ stray \in [Spreads -> [Legs -> Nat]]
        /\ expired \subseteq Spreads
    BY DEF WellFormed, TypeOK
  <1>2. ASSUME NEW w \in Workers, FillOrder(w)
        PROVE  Account'
    BY <1>2, AccountFill
  <1>3. ASSUME NEW w \in Workers, RejectOrder(w)
        PROVE  Account'
    <2> DEFINE j == [job[w] EXCEPT !.ord = "rejected"]
    <2>1. JobOK(job[w]) /\ job[w] \in Jobs /\ Tidy(job[w])
      BY DEF WellFormed, JobOK, Account
    <2>2. /\ j.ord = "rejected" /\ j.pc = job[w].pc /\ j.leg = job[w].leg
          /\ j.spread = job[w].spread /\ job[w].ord = "open"
          /\ Become(w, j) /\ UNCHANGED <<row, brokerVars>>
      BY <1>3, <2>1 DEF RejectOrder, Jobs
    <2> HIDE DEF j
    <2>3. Tidy(j) /\ SameShort(job[w], j)
      BY <2>1, <2>2 DEF Tidy, SameShort, Unsaved, Covered, Exiting
    <2> QED BY <2>2, <2>3, AccountFrame
  <1>4. ASSUME NEW s \in Spreads, Expire(s)
        PROVE  Account'
    <2>1. /\ expired' = expired \cup {s} /\ UNCHANGED row
          /\ sold' = [sold EXCEPT ![s] = 0]
          /\ stray' = [stray EXCEPT ![s] = [l \in Legs |-> 0]]
      BY <1>4 DEF Expire
    <2>2. ASSUME NEW w \in Workers
          PROVE  Tidy(job[w])' /\ SameShort(job[w], job'[w])
      <3>1. JobOK(job[w]) /\ job[w] \in Jobs /\ Tidy(job[w])
        BY DEF WellFormed, JobOK, Account
      <3>2. CASE job[w].spread = s /\ job[w].ord = "open"
        <4>1. job'[w] = [job[w] EXCEPT !.ord = "rejected"]
          BY <1>4, <3>2 DEF Expire
        <4>2. /\ job'[w].ord = "rejected" /\ job'[w].pc = job[w].pc
              /\ job'[w].leg = job[w].leg /\ job'[w].spread = job[w].spread
          BY <3>1, <4>1 DEF Jobs
        <4> QED
          BY <2>1, <3>1, <3>2, <4>2 DEF Tidy, SameShort, Unsaved, Covered, Exiting
      <3>3. CASE ~(job[w].spread = s /\ job[w].ord = "open")
        <4>1. job'[w] = job[w]
          BY <1>4, <3>3 DEF Expire
        <4> QED
          BY <2>1, <3>1, <3>3, <4>1 DEF Tidy, SameShort
      <3> QED BY <3>2, <3>3
    <2>3. ASSUME NEW t \in Spreads
          PROVE  Owed(t)' <=> Owed(t)
      BY <2>1, <2>2 DEF Owed, SameShort
    <2>4. \A t \in Spreads : stray'[t]["SELL_SHORT"] = 0 /\ stray'[t]["BTC"] = 0
      BY <1>1, <2>1, LegsListed DEF Account
    <2>5. \A t \in Spreads \ {s} : sold'[t] = sold[t]
      BY <1>1, <2>1
    <2>6. sold'[s] = 0
      BY <1>1, <2>1
    <2> QED BY <2>1, <2>2, <2>3, <2>4, <2>5, <2>6 DEF Account
  <1>5. ASSUME NEW s \in Spreads, NEW l \in Legs, FillStray(s, l)
        PROVE  Account'
    <2>1. /\ stray[s][l] > 0 /\ stray' = [stray EXCEPT ![s][l] = @ - 1]
          /\ sold' = [sold EXCEPT ![s] = @ + LegSold(l)]
          /\ UNCHANGED <<row, expired, job>>
      BY <1>5 DEF FillStray, Execute
    <2>2. l \notin {"SELL_SHORT", "BTC"}
      BY <2>1 DEF Account
    <2>3. LegSold(l) = 0
      BY <2>2 DEF LegSold
    <2>4. sold[s] + LegSold(l) = sold[s]
      BY <1>1, <2>3
    <2>5. sold' = sold
      BY <1>1, <2>1, <2>4
    <2>6. \A t \in Spreads : stray'[t]["SELL_SHORT"] = 0 /\ stray'[t]["BTC"] = 0
      BY <1>1, <2>1, <2>2, LegsListed DEF Account
    <2>7. \A t \in Spreads : Owed(t)' <=> Owed(t)
      BY <2>1 DEF Owed
    <2> QED BY <2>1, <2>5, <2>6, <2>7 DEF Account, Tidy
  <1> QED BY <1>2, <1>3, <1>4, <1>5 DEF BrokerStep

LEMMA AccountStep ==
    ASSUME OneThreadPerKind, DatabaseKeeps, TruthfulBroker, "crash" \notin Faults,
           WellFormed, RowKnown, Account, [Next]_vars
    PROVE  Account'
  <1>1. ASSUME NEW w \in Workers, OrderStep(w)
        PROVE  Account'
    <2>1. PICK j : Become(w, j) /\ Tidy(j) /\ SameShort(job[w], j)
      BY <1>1, OrderMovesShort DEF Account
    <2>2. /\ UNCHANGED <<row, sold, expired>>
          /\ \A s \in Spreads : /\ stray'[s]["SELL_SHORT"] = stray[s]["SELL_SHORT"]
                                /\ stray'[s]["BTC"] = stray[s]["BTC"]
      BY <1>1, OrderMovesShort DEF Account
    <2> QED BY <2>1, <2>2, AccountFrame
  <1>2. ASSUME NEW w \in Workers, StartEntry(w) \/ StartExit(w) \/ EntryStep(w) \/ ExitStep(w)
        PROVE  Account'
    BY <1>2, AccountEntryStep, AccountExitStep
  <1>3. CASE BrokerStep
    BY <1>3, AccountBrokerStep
  <1>4. ~Crash
    BY DEF Crash
  <1>5. CASE LoseSession \/ UNCHANGED vars
    BY <1>5 DEF LoseSession, dbVars, brokerVars, vars, Account, Tidy, Owed
  <1> QED BY <1>1, <1>2, <1>3, <1>4, <1>5 DEF Next, Step

LEMMA AccountStart == Init => Account
  <1> SUFFICES ASSUME Init PROVE Account
    OBVIOUS
  <1>1. \A s \in Spreads : ~Owed(s)
    BY IdleTidy, SpreadAssumption DEF Init, Owed, AbsentRow
  <1> QED BY <1>1, IdleTidy, LegsListed DEF Init, Account

\* Every live spread has exactly the short the row and the one job in flight account
\* for: with one thread entering, one exiting, a truthful broker, a database that
\* keeps its writes and no crash between a fill and its save.
THEOREM AlwaysAccounted ==
    OneThreadPerKind /\ DatabaseKeeps /\ TruthfulBroker /\ "crash" \notin Faults
        => (Spec => []Account)
  <1> SUFFICES ASSUME OneThreadPerKind, DatabaseKeeps, TruthfulBroker, "crash" \notin Faults
               PROVE  Spec => []Account
    OBVIOUS
  <1>1. WellFormed /\ RowKnown /\ Account /\ [Next]_vars => Account'
    BY AccountStep
  <1> QED BY <1>1, AccountStart, AlwaysWellFormed, AlwaysRowKnown, PTL DEF Spec

LEMMA AccountTracks ==
    ASSUME OneThreadPerKind, WellFormed, RowKnown, Account
    PROVE  ShortTracked
  <1> SUFFICES ASSUME NEW s \in Spreads \ expired
               PROVE  sold[s] + Cardinality({w \in Workers : Covered(job[w], s)}) =
                        (IF row.spread = s THEN 1 ELSE 0)
                            + Cardinality({w \in Workers : Unsaved(job[w], s)})
    BY DEF ShortTracked
  <1> DEFINE C == {w \in Workers : Covered(job[w], s)}
             U == {w \in Workers : Unsaved(job[w], s)}
  <1>1. \A w \in Workers : Tidy(job[w])
    BY DEF Account
  <1>2. \A v, w \in C : v = w
    BY <1>1, CoveredRow DEF OneThreadPerKind
  <1>3. \A v, w \in U : v = w
    BY UnsavedRow DEF OneThreadPerKind
  <1>4. C # {} => row.spread = s
    BY <1>1, CoveredRow
  <1>5. U # {} => row.spread = NoSpread
    BY UnsavedRow
  <1>6. sold[s] = IF Owed(s) THEN 1 ELSE 0
    BY DEF Account
  <1>7. Owed(s) <=> (row.spread = s /\ C = {}) \/ U # {}
    BY DEF Owed
  <1> HIDE DEF C, U
  <1>8. /\ Cardinality(C) = IF C = {} THEN 0 ELSE 1
        /\ Cardinality(U) = IF U = {} THEN 0 ELSE 1
    BY <1>2, <1>3, OneAtMost
  <1>9. sold[s] + Cardinality(C) = (IF row.spread = s THEN 1 ELSE 0) + Cardinality(U)
    BY <1>4, <1>5, <1>6, <1>7, <1>8, SpreadAssumption
  <1> QED BY <1>9 DEF C, U

LEMMA AccountBounds ==
    ASSUME OneThreadPerKind, WellFormed, RowKnown, Account
    PROVE  NoOverClose /\ NeverDoubleEntered
  <1>1. \A s \in Spreads : sold[s] = 0 \/ (sold[s] = 1 /\ Owed(s))
    BY DEF Account
  <1>2. NoOverClose
    BY <1>1 DEF NoOverClose
  <1>3. ASSUME NEW s \in Spreads, NEW t \in Spreads, sold[s] > 0, sold[t] > 0
        PROVE  s = t /\ sold[s] = 1
    <2>1. Owed(s) /\ Owed(t) /\ sold[s] = 1
      BY <1>1, <1>3
    <2>2. CASE row.spread = NoSpread
      <3>1. PICK v, w \in Workers : Unsaved(job[v], s) /\ Unsaved(job[w], t)
        BY <2>1, <2>2, SpreadAssumption DEF Owed
      <3>2. v = w
        BY <3>1, UnsavedRow DEF OneThreadPerKind
      <3> QED BY <2>1, <3>1, <3>2 DEF Unsaved
    <2>3. CASE row.spread # NoSpread
      <3>1. row.spread = s /\ row.spread = t
        BY <2>1, <2>3, UnsavedRow DEF Owed
      <3> QED BY <2>1, <3>1
    <2> QED BY <2>2, <2>3
  <1> QED BY <1>2, <1>3 DEF NeverDoubleEntered

\* The row and the broker agree about the short leg of every live spread, up to the
\* one job between a fill and its save.
THEOREM ShortAlwaysTracked ==
    OneThreadPerKind /\ DatabaseKeeps /\ TruthfulBroker /\ "crash" \notin Faults
        => (Spec => []ShortTracked)
  <1> SUFFICES ASSUME OneThreadPerKind, DatabaseKeeps, TruthfulBroker, "crash" \notin Faults
               PROVE  Spec => []ShortTracked
    OBVIOUS
  <1>1. WellFormed /\ RowKnown /\ Account => ShortTracked
    BY AccountTracks
  <1> QED BY <1>1, AlwaysWellFormed, AlwaysRowKnown, AlwaysAccounted, PTL

\* An exit never buys back more than is owed.
THEOREM NeverOverClosed ==
    OneThreadPerKind /\ DatabaseKeeps /\ TruthfulBroker /\ "crash" \notin Faults
        => (Spec => []NoOverClose)
  <1> SUFFICES ASSUME OneThreadPerKind, DatabaseKeeps, TruthfulBroker, "crash" \notin Faults
               PROVE  Spec => []NoOverClose
    OBVIOUS
  <1>1. WellFormed /\ RowKnown /\ Account => NoOverClose
    BY AccountBounds
  <1> QED BY <1>1, AlwaysWellFormed, AlwaysRowKnown, AlwaysAccounted, PTL

\* At most one spread, of one entry's size, is open at the broker.
THEOREM OneSpreadOpen ==
    OneThreadPerKind /\ DatabaseKeeps /\ TruthfulBroker /\ "crash" \notin Faults
        => (Spec => []NeverDoubleEntered)
  <1> SUFFICES ASSUME OneThreadPerKind, DatabaseKeeps, TruthfulBroker, "crash" \notin Faults
               PROVE  Spec => []NeverDoubleEntered
    OBVIOUS
  <1>1. WellFormed /\ RowKnown /\ Account => NeverDoubleEntered
    BY AccountBounds
  <1> QED BY <1>1, AlwaysWellFormed, AlwaysRowKnown, AlwaysAccounted, PTL

-----------------------------------------------------------------------------
(* Every job ends after a bounded number of steps *)

\* How far a leg is from the end of its job when its next order is its last one.
LegFloor(leg) ==
    CASE leg = "BUY_HEDGE"           -> 8 + 3 * RequoteAttempts
      [] leg \in {"SELL_SHORT", "BTC"} -> 5
      [] OTHER                       -> 2

\* The lines of one order still to come.
OrderLines(pc) == CASE pc = "place" -> 3 [] pc = "poll" -> 2 [] OTHER -> 1

Requotes(j) == IF j.leg \in EntryLegs THEN RequoteAttempts - j.tries ELSE 0

LinesLeft(j) ==
    CASE j.pc = "idle"                  -> 0
      [] j.pc \in {"unlock", "close"}   -> 1
      [] j.pc \in {"save", "archive"}   -> 2
      [] j.pc \in {"place", "poll", "cancel"} ->
            LegFloor(j.leg) + 3 * Requotes(j) + OrderLines(j.pc)
      [] j.pc = "decide"                -> 9
      [] j.pc = "gates"                 -> 12 + 6 * RequoteAttempts
      [] j.pc = "trylock"               -> 13 + 6 * RequoteAttempts
      [] j.pc = "ensure"                -> 14 + 6 * RequoteAttempts

\* The steps that job j can still see: its own, and the broker's one on a working order.
StepsLeft(j) == 2 * LinesLeft(j) + (IF j.ord = "open" THEN 1 ELSE 0)

MostSteps == 28 + 12 * RequoteAttempts

\* What a job has left stays inside the bound, and no order is requoted too often.
StepsBounded ==
    \A w \in Workers : /\ job[w].tries <= RequoteAttempts
                       /\ StepsLeft(job[w]) \in 0..MostSteps

\* Whatever happens to a running job brings its end nearer.
RunsDown(w) ==
    job[w].pc # "idle" =>
        job'[w] = job[w] \/ StepsLeft(job'[w]) < StepsLeft(job[w])

JobsRunDown == [][\A w \in Workers : RunsDown(w)]_vars

LEMMA LinesTyped ==
    ASSUME NEW j \in Jobs, j.tries <= RequoteAttempts
    PROVE  /\ LinesLeft(j) \in 0..(14 + 6 * RequoteAttempts)
           /\ StepsLeft(j) \in Nat
           /\ StepsLeft(j) <= 2 * LinesLeft(j) + 1
           /\ 2 * LinesLeft(j) <= StepsLeft(j)
           /\ j.ord # "open" => StepsLeft(j) \in 0..MostSteps
  <1> DEFINE R == RequoteAttempts
  <1>1. R \in Nat /\ j.tries \in Nat /\ j.pc \in Pcs
    BY BoundAssumption DEF Jobs
  <1>2. Requotes(j) \in 0..R
    BY <1>1 DEF Requotes
  <1>3. OrderLines(j.pc) \in 1..3
    BY DEF OrderLines
  <1>4. LegFloor(j.leg) \in 2..(8 + 3 * R)
    BY <1>1 DEF LegFloor
  <1>5. LinesLeft(j) \in 0..(14 + 6 * R)
    <2>1. CASE j.pc \in {"place", "poll", "cancel"}
      <3>1. LinesLeft(j) = LegFloor(j.leg) + 3 * Requotes(j) + OrderLines(j.pc)
        BY <2>1 DEF LinesLeft
      <3> QED BY <1>1, <1>2, <1>3, <1>4, <3>1
    <2>2. CASE j.pc \notin {"place", "poll", "cancel"}
      BY <1>1, <2>2 DEF LinesLeft, Pcs
    <2> QED BY <2>1, <2>2
  <1> HIDE DEF R
  <1>6. /\ LinesLeft(j) \in Int
        /\ StepsLeft(j) = 2 * LinesLeft(j) + (IF j.ord = "open" THEN 1 ELSE 0)
    BY <1>1, <1>5 DEF StepsLeft
  <1> QED BY <1>1, <1>5, <1>6 DEF MostSteps, R

\* A job whose lines get fewer has fewer steps left.
LEMMA FewerLines ==
    ASSUME NEW i \in Jobs, NEW j \in Jobs, i.tries <= RequoteAttempts, j.tries <= RequoteAttempts,
           LinesLeft(j) < LinesLeft(i)
    PROVE  StepsLeft(j) \in 0..MostSteps /\ StepsLeft(j) < StepsLeft(i)
  <1>1. /\ LinesLeft(i) \in 0..(14 + 6 * RequoteAttempts) /\ LinesLeft(j) \in Nat
        /\ StepsLeft(i) = 2 * LinesLeft(i) + (IF i.ord = "open" THEN 1 ELSE 0)
        /\ StepsLeft(j) = 2 * LinesLeft(j) + (IF j.ord = "open" THEN 1 ELSE 0)
        /\ RequoteAttempts \in Nat
    BY LinesTyped, BoundAssumption DEF StepsLeft
  <1> QED BY <1>1 DEF MostSteps

LEMMA IdleSteps == IdleJob \in Jobs /\ LinesLeft(IdleJob) = 0 /\ StepsLeft(IdleJob) = 0 /\ IdleJob.tries = 0
  BY LiteralsTyped DEF JobOK, LinesLeft, StepsLeft, IdleJob

\* What is left of a job that goes to a leg, or beyond it.
LEMMA AtLines ==
    ASSUME NEW w \in Workers, job[w] \in Jobs, NEW pc \in Pcs, NEW leg \in Legs
    PROVE  /\ At(w, pc, leg) \in Jobs /\ At(w, pc, leg).tries = 0
           /\ pc = "unlock" => LinesLeft(At(w, pc, leg)) = 1
           /\ pc \in {"save", "archive"} => LinesLeft(At(w, pc, leg)) = 2
           /\ pc = "place" =>
                LinesLeft(At(w, pc, leg)) =
                    CASE leg = "BUY_HEDGE"  -> 11 + 6 * RequoteAttempts
                      [] leg = "SELL_SHORT" -> 8 + 3 * RequoteAttempts
                      [] leg = "BTC"        -> 8
                      [] OTHER              -> 5
  <1>1. /\ At(w, pc, leg) \in Jobs
        /\ At(w, pc, leg).pc = pc /\ At(w, pc, leg).leg = leg /\ At(w, pc, leg).tries = 0
    BY DEF At, Jobs, OrderStates
  <1> HIDE DEF At
  <1>2. CASE pc = "place"
    <2>1. LinesLeft(At(w, pc, leg)) = LegFloor(leg) + 3 * Requotes(At(w, pc, leg)) + 3
      BY <1>1, <1>2 DEF LinesLeft, OrderLines
    <2>2. Requotes(At(w, pc, leg)) = IF leg \in EntryLegs THEN RequoteAttempts ELSE 0
      BY <1>1, BoundAssumption DEF Requotes
    <2> QED BY <1>1, <1>2, <2>1, <2>2, BoundAssumption, LegsListed DEF LegFloor, EntryLegs
  <1>3. CASE pc # "place"
    BY <1>1, <1>3 DEF LinesLeft
  <1> QED BY <1>2, <1>3

\* An order that is out counts one to three lines above the floor of its leg.
LEMMA LegLines ==
    ASSUME NEW j \in Jobs, j.tries <= RequoteAttempts, j.pc \in {"place", "poll", "cancel"}
    PROVE  /\ j.leg = "BUY_HEDGE" => LinesLeft(j) >= 9 + 3 * RequoteAttempts
           /\ j.leg \in {"SELL_SHORT", "BTC"} => LinesLeft(j) >= 6
           /\ j.leg \in {"UNWIND", "STC"} => LinesLeft(j) >= 3
  <1>1. LinesLeft(j) = LegFloor(j.leg) + 3 * Requotes(j) + OrderLines(j.pc)
    BY DEF LinesLeft
  <1>2. Requotes(j) \in Nat /\ OrderLines(j.pc) \in 1..3 /\ RequoteAttempts \in Nat
    BY BoundAssumption DEF Requotes, OrderLines, Jobs
  <1> QED BY <1>1, <1>2 DEF LegFloor

LEMMA AfterOrderLines ==
    ASSUME NEW w \in Workers, job[w] \in Jobs, job[w].tries <= RequoteAttempts,
           job[w].pc \in {"place", "poll", "cancel"},
           NEW j \in {AfterFill(w), AfterGiveUp(w)}
    PROVE  /\ j \in Jobs /\ j.tries <= RequoteAttempts
           /\ LinesLeft(j) < LinesLeft(job[w])
  <1>0. /\ job[w].leg \in Legs /\ RequoteAttempts \in Nat
        /\ {"place", "save", "unlock", "archive"} \subseteq Pcs
    BY BoundAssumption DEF Jobs, Pcs
  <1>l. LinesLeft(job[w]) \in Nat
    BY LinesTyped
  <1>1. CASE job[w].leg = "BUY_HEDGE"
    <2>1. j \in {At(w, "place", "SELL_SHORT"), At(w, "unlock", "BUY_HEDGE")}
      BY <1>1 DEF AfterFill, AfterGiveUp
    <2> QED BY <1>0, <1>l, <1>1, <2>1, AtLines, LegLines, LegsListed
  <1>2. CASE job[w].leg = "SELL_SHORT"
    <2>1. j \in {At(w, "save", "SELL_SHORT"), At(w, "place", "UNWIND")}
      BY <1>2 DEF AfterFill, AfterGiveUp
    <2> QED BY <1>0, <1>l, <1>2, <2>1, AtLines, LegLines, LegsListed
  <1>3. CASE job[w].leg = "UNWIND"
    <2>1. j = At(w, "unlock", "UNWIND")
      BY <1>3 DEF AfterFill, AfterGiveUp
    <2> QED BY <1>0, <1>l, <1>3, <2>1, AtLines, LegLines, LegsListed
  <1>4. CASE job[w].leg = "BTC"
    <2>1. j \in {At(w, "place", "STC"), IdleJob}
      BY <1>4 DEF AfterFill, AfterGiveUp
    <2> QED BY <1>0, <1>l, <1>4, <2>1, AtLines, LegLines, LegsListed, IdleSteps
  <1>5. CASE job[w].leg = "STC"
    <2>1. j = At(w, "archive", "STC")
      BY <1>5 DEF AfterFill, AfterGiveUp
    <2> QED BY <1>0, <1>l, <1>5, <2>1, AtLines, LegLines, LegsListed
  <1> QED BY <1>0, <1>1, <1>2, <1>3, <1>4, <1>5, LegsListed

LEMMA RequoteLines ==
    ASSUME NEW w \in Workers, job[w] \in Jobs, job[w].tries <= RequoteAttempts,
           job[w].pc \in {"poll", "cancel"},
           NEW j, j = RequoteOrGiveUp(w)
    PROVE  /\ j \in Jobs /\ j.tries <= RequoteAttempts
           /\ LinesLeft(j) < LinesLeft(job[w])
  <1>1. CASE job[w].leg \in EntryLegs /\ job[w].tries < RequoteAttempts
    <2> DEFINE n == job[w].tries + 1
    <2>1. j = [job[w] EXCEPT !.pc = "place", !.tries = n, !.ord = "none"]
      BY <1>1 DEF RequoteOrGiveUp
    <2>2. n \in Nat /\ n <= RequoteAttempts /\ job[w].tries \in Nat /\ RequoteAttempts \in Nat
      BY <1>1, BoundAssumption DEF Jobs
    <2>3. n = job[w].tries + 1
      OBVIOUS
    <2> HIDE DEF n
    <2>4. /\ j \in Jobs /\ j.pc = "place" /\ j.tries = n /\ j.leg = job[w].leg
      BY <2>1, <2>2 DEF Jobs, OrderStates, Pcs
    <2>5. LinesLeft(j) = LegFloor(j.leg) + 3 * Requotes(j) + 3
      BY <2>4 DEF LinesLeft, OrderLines
    <2>6. /\ LinesLeft(job[w]) = LegFloor(j.leg) + 3 * Requotes(job[w]) + OrderLines(job[w].pc)
          /\ OrderLines(job[w].pc) \in 1..3
      BY <2>4 DEF LinesLeft, OrderLines
    <2>7. Requotes(j) = RequoteAttempts - n /\ Requotes(job[w]) = RequoteAttempts - job[w].tries
      BY <1>1, <2>4 DEF Requotes
    <2>8. LegFloor(j.leg) \in Nat
      BY <2>2 DEF LegFloor
    <2> QED BY <2>2, <2>3, <2>4, <2>5, <2>6, <2>7, <2>8
  <1>2. CASE ~(job[w].leg \in EntryLegs /\ job[w].tries < RequoteAttempts)
    BY <1>2, AfterOrderLines DEF RequoteOrGiveUp
  <1> QED BY <1>1, <1>2

LEMMA RunningLines ==
    ASSUME NEW j \in Jobs, j.tries <= RequoteAttempts, j.pc # "idle"
    PROVE  LinesLeft(j) > 0
  <1>1. RequoteAttempts \in Nat /\ LinesLeft(j) \in Nat
    BY LinesTyped, BoundAssumption
  <1>2. CASE j.pc \in {"place", "poll", "cancel"}
    BY <1>1, <1>2, LegLines, LegsListed DEF Jobs
  <1>3. CASE j.pc \notin {"place", "poll", "cancel"}
    BY <1>1, <1>3 DEF LinesLeft, Jobs, Pcs
  <1> QED BY <1>2, <1>3

\* A thread's own step inside a job.
LEMMA StepLines ==
    ASSUME WellFormed, StepsBounded, NEW w \in Workers, Step(w)
    PROVE  \E j \in Jobs : /\ Become(w, j) /\ j.tries <= RequoteAttempts
                           /\ LinesLeft(j) < LinesLeft(job[w])
  <1>0. /\ job[w] \in Jobs /\ JobOK(job[w]) /\ job[w].tries <= RequoteAttempts
        /\ RequoteAttempts \in Nat /\ job[w].tries \in Nat
    BY BoundAssumption DEF WellFormed, JobOK, StepsBounded, Jobs
  <1>l. LinesLeft(job[w]) \in Nat
    BY <1>0, LinesTyped
  <1>1. ASSUME NEW pc \in Pcs, NEW o \in OrderStates, NEW j,
               j = [job[w] EXCEPT !.pc = pc, !.ord = o] \/ j = [job[w] EXCEPT !.pc = pc]
        PROVE  /\ j \in Jobs /\ j.tries = job[w].tries /\ j.pc = pc /\ j.leg = job[w].leg
    BY <1>0, <1>1 DEF Jobs
  <1>2. CASE PlaceAccepted(w)
    <2> DEFINE j == [job[w] EXCEPT !.pc = "poll", !.ord = "open"]
    <2>1. j \in Jobs /\ j.tries = job[w].tries /\ j.pc = "poll" /\ j.leg = job[w].leg
      BY <1>1 DEF Pcs, OrderStates
    <2>2. Become(w, j) /\ job[w].pc = "place"
      BY <1>2 DEF PlaceAccepted
    <2> HIDE DEF j
    <2>3. /\ LinesLeft(j) = LegFloor(job[w].leg) + 3 * Requotes(job[w]) + 2
          /\ LinesLeft(job[w]) = LegFloor(job[w].leg) + 3 * Requotes(job[w]) + 3
      BY <2>1, <2>2 DEF LinesLeft, OrderLines, Requotes
    <2>4. LegFloor(job[w].leg) \in Nat /\ Requotes(job[w]) \in Int
      BY <1>0 DEF LegFloor, Requotes
    <2> QED BY <1>0, <2>1, <2>2, <2>3, <2>4
  <1>3. CASE PollTimeout(w)
    <2> DEFINE j == [job[w] EXCEPT !.pc = "cancel"]
    <2>1. j \in Jobs /\ j.tries = job[w].tries /\ j.pc = "cancel" /\ j.leg = job[w].leg
      BY <1>1 DEF Pcs, OrderStates
    <2>2. Become(w, j) /\ job[w].pc = "poll"
      BY <1>3 DEF PollTimeout
    <2> HIDE DEF j
    <2>3. /\ LinesLeft(j) = LegFloor(job[w].leg) + 3 * Requotes(job[w]) + 1
          /\ LinesLeft(job[w]) = LegFloor(job[w].leg) + 3 * Requotes(job[w]) + 2
      BY <2>1, <2>2 DEF LinesLeft, OrderLines, Requotes
    <2>4. LegFloor(job[w].leg) \in Nat /\ Requotes(job[w]) \in Int
      BY <1>0 DEF LegFloor, Requotes
    <2> QED BY <1>0, <2>1, <2>2, <2>3, <2>4
  <1>4. CASE PlaceReturnsNone(w) \/ PollComplete(w) \/ PollAbandon(w)
    BY <1>0, <1>4, AfterOrderLines DEF PlaceReturnsNone, PollComplete, PollAbandon
  <1>5. CASE PollRejected(w) \/ CancelOrder(w)
    BY <1>0, <1>5, RequoteLines DEF PollRejected, CancelOrder
  <1>6. ASSUME Finish(w), job[w].pc # "idle"
        PROVE  /\ IdleJob \in Jobs /\ Become(w, IdleJob) /\ IdleJob.tries <= RequoteAttempts
               /\ LinesLeft(IdleJob) < LinesLeft(job[w])
    <2>1. LinesLeft(job[w]) > 0
      BY <1>0, <1>6, RunningLines
    <2> QED BY <1>0, <1>6, <2>1, IdleSteps DEF Finish
  <1>7. CASE SkipLocked(w) \/ Unlock(w) \/ NoExit(w) \/ SaveClosed(w)
    BY <1>6, <1>7 DEF SkipLocked, Unlock, NoExit, SaveClosed
  <1>8. CASE EnsureSymbolState(w)
    <2> DEFINE j == [job[w] EXCEPT !.mem = IdleRow, !.pc = "trylock"]
    <2>1. j \in Jobs /\ j.tries = job[w].tries /\ j.pc = "trylock"
      BY <1>0, LiteralsTyped DEF Jobs, Pcs
    <2>2. Become(w, j) /\ job[w].pc = "ensure"
      BY <1>8 DEF EnsureSymbolState
    <2> HIDE DEF j
    <2>3. LinesLeft(j) < LinesLeft(job[w])
      BY <1>0, <2>1, <2>2 DEF LinesLeft
    <2> QED BY <1>0, <2>1, <2>2, <2>3
  <1>9. CASE AcquireLock(w) \/ BlockedByGate(w) \/ SaveEntry(w) \/ SettleExpired(w) \/ ArchiveExit(w)
    <2>1. PICK pc : /\ Become(w, [job[w] EXCEPT !.pc = pc])
                    /\ <<job[w].pc, pc>> \in {<<"trylock", "gates">>, <<"gates", "unlock">>,
                          <<"save", "unlock">>, <<"decide", "archive">>, <<"archive", "close">>}
      BY <1>9 DEF AcquireLock, BlockedByGate, SaveEntry, SettleExpired, ArchiveExit
    <2> DEFINE j == [job[w] EXCEPT !.pc = pc]
    <2>2. j \in Jobs /\ j.tries = job[w].tries /\ j.pc = pc
      BY <1>1, <2>1 DEF Pcs, OrderStates
    <2>3. Become(w, j)
      BY <2>1
    <2> HIDE DEF j
    <2>4. LinesLeft(j) < LinesLeft(job[w])
      BY <1>0, <2>1, <2>2 DEF LinesLeft
    <2> QED BY <1>0, <2>2, <2>3, <2>4
  <1>10. CASE PassGates(w)
    <2>1. PICK s \in Spreads :
            Become(w, [job[w] EXCEPT !.pc = "place", !.leg = "BUY_HEDGE", !.spread = s])
      BY <1>10 DEF PassGates
    <2> DEFINE j == [job[w] EXCEPT !.pc = "place", !.leg = "BUY_HEDGE", !.spread = s]
    <2>2. j \in Jobs /\ j.tries = job[w].tries /\ j.pc = "place" /\ j.leg = "BUY_HEDGE"
      BY <1>0, LegsListed DEF Jobs, Pcs
    <2>3. Become(w, j) /\ job[w].pc = "gates"
      BY <1>10, <2>1 DEF PassGates
    <2> HIDE DEF j
    <2>4. LinesLeft(j) = 8 + 3 * RequoteAttempts + 3 * (RequoteAttempts - job[w].tries) + 3
      BY <2>2 DEF LinesLeft, LegFloor, Requotes, OrderLines, EntryLegs
    <2>5. LinesLeft(job[w]) = 12 + 6 * RequoteAttempts
      BY <2>3 DEF LinesLeft
    <2> QED BY <1>0, <2>2, <2>3, <2>4, <2>5
  <1>11. CASE TriggerExit(w)
    <2>1. Become(w, At(w, "place", "BTC")) /\ LinesLeft(job[w]) = 9
      BY <1>11 DEF TriggerExit, LinesLeft
    <2> QED BY <1>0, <2>1, AtLines, LegsListed DEF Pcs
  <1> QED BY <1>2, <1>3, <1>4, <1>5, <1>7, <1>8, <1>9, <1>10, <1>11
          DEF Step, OrderStep, EntryStep, ExitStep

LEMMA StepsFrame ==
    ASSUME WellFormed, StepsBounded, NEW w \in Workers, NEW j \in Jobs, Become(w, j),
           j.tries <= RequoteAttempts, StepsLeft(j) \in 0..MostSteps
    PROVE  StepsBounded'
  BY DEF StepsBounded, Become, WellFormed, TypeOK, MostSteps

\* A job starts with its bound: no start and no step can give it more.
LEMMA StepsRunDown ==
    ASSUME WellFormed, StepsBounded, [Next]_vars
    PROVE  StepsBounded' /\ \A w \in Workers : RunsDown(w)
  <1>0. /\ \A w \in Workers : /\ job[w] \in Jobs /\ JobOK(job[w])
                              /\ job[w].tries <= RequoteAttempts
                              /\ StepsLeft(job[w]) \in 0..MostSteps
        /\ RequoteAttempts \in Nat
    BY BoundAssumption DEF WellFormed, JobOK, StepsBounded
  <1>1. ASSUME NEW w \in Workers, Step(w)
        PROVE  StepsBounded' /\ \A v \in Workers : RunsDown(v)
    <2>1. PICK j \in Jobs : /\ Become(w, j) /\ j.tries <= RequoteAttempts
                            /\ LinesLeft(j) < LinesLeft(job[w])
      BY <1>1, StepLines
    <2>2. StepsLeft(j) \in 0..MostSteps /\ StepsLeft(j) < StepsLeft(job[w])
      BY <1>0, <2>1, FewerLines
    <2> QED BY <2>1, <2>2, StepsFrame DEF RunsDown, Become, WellFormed, TypeOK
  <1>2. ASSUME NEW w \in Workers, StartEntry(w) \/ StartExit(w)
        PROVE  StepsBounded' /\ \A v \in Workers : RunsDown(v)
    <2>1. job[w].pc = "idle" /\ job[w].ord = "none"
      BY <1>0, <1>2 DEF StartEntry, StartExit, JobOK
    <2>2. PICK r \in Rows, s \in Spreads \cup {NoSpread}, pc \in Pcs :
            /\ Become(w, [job[w] EXCEPT !.mem = r, !.spread = s, !.pc = pc])
      <3>1. CASE StartEntry(w)
        <4>1. PICK r \in LoadState :
                Become(w, [job[w] EXCEPT
                    !.mem = r, !.pc = IF r.stage = "ABSENT" THEN "ensure" ELSE "trylock"])
          BY <3>1 DEF StartEntry
        <4> DEFINE pc == IF r.stage = "ABSENT" THEN "ensure" ELSE "trylock"
        <4>2. r \in Rows /\ pc \in Pcs /\ job[w].spread \in Spreads \cup {NoSpread}
          BY <1>0, StoreTyped DEF WellFormed, Pcs, Jobs
        <4>3. [job[w] EXCEPT !.mem = r, !.pc = pc] =
                [job[w] EXCEPT !.mem = r, !.spread = job[w].spread, !.pc = pc]
          BY <1>0 DEF Jobs
        <4> QED BY <4>1, <4>2, <4>3
      <3>2. CASE StartExit(w)
        <4>1. PICK r \in LoadState :
                Become(w, [job[w] EXCEPT !.mem = r, !.spread = r.spread, !.pc = "decide"])
          BY <3>2 DEF StartExit
        <4>2. r \in Rows /\ r.spread \in Spreads \cup {NoSpread}
          BY StoreTyped DEF WellFormed, Rows
        <4> QED BY <4>1, <4>2 DEF Pcs
      <3> QED BY <1>2, <3>1, <3>2
    <2> DEFINE j == [job[w] EXCEPT !.mem = r, !.spread = s, !.pc = pc]
    <2>3. j \in Jobs /\ j.tries = job[w].tries /\ j.ord = "none"
      BY <1>0, <2>1 DEF Jobs
    <2>4. Become(w, j)
      BY <2>2
    <2> HIDE DEF j
    <2>5. StepsLeft(j) \in 0..MostSteps
      BY <1>0, <2>3, LinesTyped
    <2> QED BY <1>0, <2>1, <2>3, <2>4, <2>5, StepsFrame DEF RunsDown, Become, WellFormed, TypeOK
  <1>3. CASE BrokerStep
    <2>1. ASSUME NEW w \in Workers
          PROVE  \/ job'[w] = job[w]
                 \/ /\ job'[w].tries = job[w].tries
                    /\ StepsLeft(job'[w]) = StepsLeft(job[w]) - 1
      <3>1. \/ job'[w] = job[w]
            \/ /\ job[w].ord = "open"
               /\ \E o \in {"complete", "rejected"} : job'[w] = [job[w] EXCEPT !.ord = o]
        BY <1>0, <1>3 DEF BrokerStep, FillOrder, RejectOrder, Expire, FillStray, Become,
                          WellFormed, TypeOK
      <3>2. ASSUME NEW o \in {"complete", "rejected"}, job[w].ord = "open",
                   job'[w] = [job[w] EXCEPT !.ord = o]
            PROVE  /\ job'[w].tries = job[w].tries
                   /\ StepsLeft(job'[w]) = StepsLeft(job[w]) - 1
        <4>1. /\ job'[w].pc = job[w].pc /\ job'[w].leg = job[w].leg
              /\ job'[w].tries = job[w].tries /\ job'[w].ord = o
          BY <1>0, <3>2 DEF Jobs
        <4>2. LinesLeft(job'[w]) = LinesLeft(job[w])
          BY <4>1 DEF LinesLeft, Requotes
        <4>3. LinesLeft(job[w]) \in Nat
          BY <1>0, LinesTyped
        <4> QED BY <3>2, <4>1, <4>2, <4>3 DEF StepsLeft
      <3> QED BY <3>1, <3>2
    <2>2. ASSUME NEW w \in Workers
          PROVE  /\ RunsDown(w)
                 /\ job'[w].tries <= RequoteAttempts
                 /\ StepsLeft(job'[w]) \in 0..MostSteps
      <3>1. StepsLeft(job[w]) \in 0..MostSteps /\ job[w].tries <= RequoteAttempts
        BY <1>0
      <3>2. CASE job'[w] = job[w]
        BY <3>1, <3>2 DEF RunsDown
      <3>3. CASE job'[w].tries = job[w].tries /\ StepsLeft(job'[w]) = StepsLeft(job[w]) - 1
        <4>1. StepsLeft(job'[w]) \in Nat
          <5>1. WellFormed'
            BY <1>3, WellFormedBrokerStep
          <5>2. job'[w] \in Jobs /\ job'[w].tries <= RequoteAttempts
            BY <3>1, <3>3, <5>1 DEF WellFormed, JobOK
          <5> QED BY <5>2, LinesTyped
        <4> QED BY <1>0, <3>1, <3>3, <4>1 DEF RunsDown, MostSteps
      <3> QED BY <2>1, <3>2, <3>3
    <2> QED BY <2>2 DEF StepsBounded
  <1>4. CASE Crash
    <2>1. \A w \in Workers : job'[w] = IdleJob
      BY <1>4 DEF Crash
    <2>2. ASSUME NEW w \in Workers, job[w].pc # "idle"
          PROVE  StepsLeft(IdleJob) < StepsLeft(job[w])
      <3>1. LinesLeft(job[w]) > 0
        BY <1>0, <2>2, RunningLines
      <3>2. LinesLeft(IdleJob) < LinesLeft(job[w])
        BY <3>1, IdleSteps
      <3> QED BY <1>0, <3>2, IdleSteps, FewerLines
    <2>3. 0 \in 0..MostSteps
      BY <1>0 DEF MostSteps
    <2> QED BY <1>0, <2>1, <2>2, <2>3, IdleSteps DEF StepsBounded, RunsDown
  <1>5. CASE LoseSession \/ UNCHANGED vars
    BY <1>5 DEF LoseSession, vars, StepsBounded, RunsDown, MostSteps
  <1> QED BY <1>1, <1>2, <1>3, <1>4, <1>5 DEF Next

\* Every job has at most MostSteps before it, and nothing that happens to it - a rejection,
\* a failed cancel, a lost reply, an expiry, what the broker and the other
\* threads do - gives it one more: with the fairness of FairSpec what is left for JobEnds is
\* that a running job always has a step.
THEOREM JobsEndInSteps == Spec => []StepsBounded /\ JobsRunDown
  <1>1. Init => StepsBounded
    <2>1. 0 \in 0..MostSteps
      BY BoundAssumption DEF MostSteps
    <2> QED BY <2>1, IdleSteps, BoundAssumption DEF Init, StepsBounded
  <1>2. WellFormed /\ StepsBounded /\ [Next]_vars => StepsBounded'
    BY StepsRunDown
  <1>3. WellFormed /\ StepsBounded /\ [Next]_vars => [\A w \in Workers : RunsDown(w)]_vars
    BY StepsRunDown
  <1> QED BY <1>1, <1>2, <1>3, AlwaysWellFormed, PTL DEF Spec, JobsRunDown
=============================================================================
