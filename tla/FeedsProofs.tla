----------------------------- MODULE FeedsProofs -----------------------------
(***************************************************************************)
(* Proofs about the feeds: the instrument master, the subscriptions of the *)
(* websocket monitor, the archives of daily files and the smart-money      *)
(* screen.  The modules share no state, and neither do the four parts.     *)
(***************************************************************************)
EXTENDS InstrumentMaster, WatchedKeys, DayFetch, SmartMoney, FiniteSetTheorems, TLAPS

-----------------------------------------------------------------------------
(* The instrument master                                                   *)

\* Times: calls begin in the past, and a file's time is a time.
MasterTimes ==
    /\ clock \in Nat
    /\ csvAt \in Nat \cup {Absent}
    /\ askedAt \in [Bots -> Nat]
    /\ \A b \in Bots : askedAt[b] <= clock
    /\ pc \in [Bots -> {"idle", "lock", "fetch", "write", "read"}]
    /\ gaveUp \in [Bots -> BOOLEAN]

\* A broken file that a call reads has a time, and was fresh when the call began.
ReadsFresh ==
    \A b \in Bots :
        (pc[b] = "read" /\ ~whole /\ ~gaveUp[b]) =>
            csvAt \in Nat /\ askedAt[b] - csvAt < Ttl

LEMMA MasterTimesInit == MasterInit => MasterTimes
  BY DEF MasterInit, MasterTimes

LEMMA MasterTimesStep == MasterTimes /\ [MasterNext]_masterVars => MasterTimes'
  <1> SUFFICES ASSUME MasterTimes, [MasterNext]_masterVars PROVE MasterTimes'
    OBVIOUS
  <1> USE DEF MasterTimes
  <1>1. ASSUME NEW b \in Bots, Ask(b) PROVE MasterTimes'
    BY <1>1 DEF Ask, fileVars
  <1>2. ASSUME NEW b \in Bots, Lock(b) PROVE MasterTimes'
    BY <1>2 DEF Lock, fileVars
  <1>3. ASSUME NEW b \in Bots, LockTimeout(b) PROVE MasterTimes'
    BY <1>3 DEF LockTimeout, UseWhatIsThere, fileVars
  <1>4. ASSUME NEW b \in Bots, DownloadFails(b) PROVE MasterTimes'
    BY <1>4 DEF DownloadFails, UseWhatIsThere, fileVars
  <1>5. ASSUME NEW b \in Bots, NEW sizes, Truncate(b, sizes) PROVE MasterTimes'
    BY <1>5 DEF Truncate
  <1>6. ASSUME NEW b \in Bots, WriteSome(b) PROVE MasterTimes'
    BY <1>6 DEF WriteSome
  <1>7. ASSUME NEW b \in Bots, EndWrite(b) PROVE MasterTimes'
    BY <1>7 DEF EndWrite
  <1>8. ASSUME NEW b \in Bots, Read(b) PROVE MasterTimes'
    BY <1>8 DEF Read, fileVars
  <1>9. ASSUME NEW b \in Bots, Die(b) PROVE MasterTimes'
    BY <1>9 DEF Die, fileVars
  <1>10. CASE PassTime
    BY <1>10 DEF PassTime, fileVars
  <1>11. CASE UNCHANGED masterVars
    BY <1>11 DEF masterVars
  <1> QED BY <1>1, <1>2, <1>3, <1>4, <1>5, <1>6, <1>7, <1>8, <1>9, <1>10, <1>11 DEF MasterNext

LEMMA ReadsFreshStep ==
    MasterTimes /\ ReadsFresh /\ [MasterNext]_masterVars => ReadsFresh'
  <1> SUFFICES ASSUME MasterTimes, ReadsFresh, [MasterNext]_masterVars PROVE ReadsFresh'
    OBVIOUS
  <1> USE MasterAssumption DEF MasterTimes, ReadsFresh
  <1>1. ASSUME NEW b \in Bots, Ask(b) PROVE ReadsFresh'
    BY <1>1 DEF Ask, Fresh, fileVars
  <1>2. ASSUME NEW b \in Bots, Lock(b) PROVE ReadsFresh'
    BY <1>2 DEF Lock, Fresh, fileVars
  <1>3. ASSUME NEW b \in Bots, LockTimeout(b) PROVE ReadsFresh'
    BY <1>3 DEF LockTimeout, UseWhatIsThere, fileVars
  <1>4. ASSUME NEW b \in Bots, DownloadFails(b) PROVE ReadsFresh'
    BY <1>4 DEF DownloadFails, UseWhatIsThere, fileVars
  <1>5. ASSUME NEW b \in Bots, NEW sizes, Truncate(b, sizes) PROVE ReadsFresh'
    BY <1>5 DEF Truncate
  <1>6. ASSUME NEW b \in Bots, WriteSome(b) PROVE ReadsFresh'
    BY <1>6 DEF WriteSome
  <1>7. ASSUME NEW b \in Bots, EndWrite(b) PROVE ReadsFresh'
    BY <1>7 DEF EndWrite
  <1>8. ASSUME NEW b \in Bots, Read(b) PROVE ReadsFresh'
    BY <1>8 DEF Read, fileVars
  <1>9. ASSUME NEW b \in Bots, Die(b) PROVE ReadsFresh'
    BY <1>9 DEF Die, fileVars
  <1>10. CASE PassTime
    BY <1>10 DEF PassTime, fileVars
  <1>11. CASE UNCHANGED masterVars
    BY <1>11 DEF masterVars
  <1> QED BY <1>1, <1>2, <1>3, <1>4, <1>5, <1>6, <1>7, <1>8, <1>9, <1>10, <1>11 DEF MasterNext

(* For any number of bots and any lot sizes: a broken master is read only  *)
(* by a call for which it was younger than the limit, or whose own attempt *)
(* to replace it failed (client.py:143).                                   *)
THEOREM BadMasterHeals == MasterSpec => []BadMasterExpires
  <1>1. MasterInit => MasterTimes /\ ReadsFresh
    BY MasterTimesInit DEF MasterInit, ReadsFresh
  <1>2. MasterTimes /\ ReadsFresh /\ [MasterNext]_masterVars => MasterTimes' /\ ReadsFresh'
    BY MasterTimesStep, ReadsFreshStep
  <1>3. ReadsFresh => BadMasterExpires
    BY DEF ReadsFresh, BadMasterExpires
  <1> QED BY <1>1, <1>2, <1>3, PTL DEF MasterSpec

\* A bot that downloads or writes holds the lock, and found the file stale.
LockedWriters ==
    \A b \in Bots :
        /\ pc[b] \in {"fetch", "write"} => holder = b
        /\ pc[b] = "fetch" => ~Fresh

LEMMA LockedWritersStep ==
    MasterTimes /\ LockedWriters /\ [MasterNext]_masterVars => LockedWriters'
  <1> SUFFICES ASSUME MasterTimes, LockedWriters, [MasterNext]_masterVars PROVE LockedWriters'
    OBVIOUS
  <1> USE MasterAssumption DEF MasterTimes, LockedWriters, Fresh
  <1>1. ASSUME NEW b \in Bots, Ask(b) PROVE LockedWriters'
    BY <1>1 DEF Ask, fileVars
  <1>2. ASSUME NEW b \in Bots, Lock(b) PROVE LockedWriters'
    BY <1>2 DEF Lock, fileVars
  <1>3. ASSUME NEW b \in Bots, LockTimeout(b) PROVE LockedWriters'
    BY <1>3 DEF LockTimeout, UseWhatIsThere, fileVars
  <1>4. ASSUME NEW b \in Bots, DownloadFails(b) PROVE LockedWriters'
    BY <1>4 DEF DownloadFails, UseWhatIsThere, fileVars
  <1>5. ASSUME NEW b \in Bots, NEW sizes, Truncate(b, sizes) PROVE LockedWriters'
    BY <1>5 DEF Truncate
  <1>6. ASSUME NEW b \in Bots, WriteSome(b) PROVE LockedWriters'
    BY <1>6 DEF WriteSome
  <1>7. ASSUME NEW b \in Bots, EndWrite(b) PROVE LockedWriters'
    BY <1>7 DEF EndWrite
  <1>8. ASSUME NEW b \in Bots, Read(b) PROVE LockedWriters'
    BY <1>8 DEF Read, fileVars
  <1>9. ASSUME NEW b \in Bots, Die(b) PROVE LockedWriters'
    BY <1>9 DEF Die, fileVars
  <1>10. CASE PassTime
    BY <1>10 DEF PassTime, fileVars
  <1>11. CASE UNCHANGED masterVars
    BY <1>11 DEF masterVars
  <1> QED BY <1>1, <1>2, <1>3, <1>4, <1>5, <1>6, <1>7, <1>8, <1>9, <1>10, <1>11 DEF MasterNext

(* For any number of bots: no download replaces a file that is fresh       *)
(* (client.py:156).                                                        *)
THEOREM DownloadsOncePerDay == MasterSpec => OneDownloadPerDay
  <1>1. MasterInit => MasterTimes /\ LockedWriters
    BY MasterTimesInit DEF MasterInit, LockedWriters
  <1>2. MasterTimes /\ LockedWriters /\ [MasterNext]_masterVars => MasterTimes' /\ LockedWriters'
    BY MasterTimesStep, LockedWritersStep
  <1>3. LockedWriters /\ [MasterNext]_masterVars =>
            [\A b \in Bots : (pc[b] = "fetch" /\ pc'[b] = "write") => ~Fresh]_masterVars
    BY DEF LockedWriters
  <1> QED BY <1>1, <1>2, <1>3, PTL DEF MasterSpec, OneDownloadPerDay

-----------------------------------------------------------------------------
(* The subscriptions                                                       *)

Steps == {"idle", "reset", "check", "diff", "unsubscribe", "subscribe", "store"}

WatchTypes ==
    /\ socket \in BOOLEAN /\ connected \in BOOLEAN /\ disturbed \in BOOLEAN
    /\ step \in [Threads -> Steps]
    /\ added \in [Threads -> SUBSET Keys] /\ removed \in [Threads -> SUBSET Keys]
    /\ desired \in SUBSET Keys /\ mirror \in SUBSET Keys /\ wire \in SUBSET Keys

LEMMA WatchTypesStep == WatchTypes /\ [WatchNext]_wsVars => WatchTypes'
  <1> SUFFICES ASSUME WatchTypes, [WatchNext]_wsVars PROVE WatchTypes'
    OBVIOUS
  <1> USE DEF WatchTypes, Steps, Goto, setVars, Threads
  <1>1. CASE OpenSocket
    BY <1>1 DEF OpenSocket
  <1>2. CASE Drop
    BY <1>2 DEF Drop
  <1>3. CASE OnClose
    BY <1>3 DEF OnClose
  <1>4. CASE OnOpen
    BY <1>4 DEF OnOpen
  <1>5. ASSUME NEW t \in Jobs, NEW keys \in SUBSET Keys, Update(t, keys) PROVE WatchTypes'
    BY <1>5 DEF Update
  <1>6. ASSUME NEW t \in Jobs, CheckUp(t) PROVE WatchTypes'
    BY <1>6 DEF CheckUp
  <1>7. ASSUME NEW t \in Threads, Diff(t) PROVE WatchTypes'
    BY <1>7 DEF Diff
  <1>8. ASSUME NEW t \in Threads, SendRaises(t) PROVE WatchTypes'
    BY <1>8 DEF SendRaises
  <1>9. ASSUME NEW t \in Threads, Unsubscribe(t) PROVE WatchTypes'
    BY <1>9 DEF Unsubscribe
  <1>10. ASSUME NEW t \in Threads, Subscribe(t) PROVE WatchTypes'
    BY <1>10 DEF Subscribe
  <1>11. ASSUME NEW t \in Threads, Store(t) PROVE WatchTypes'
    BY <1>11 DEF Store
  <1>12. CASE UNCHANGED wsVars
    BY <1>12 DEF wsVars
  <1> QED BY <1>1, <1>2, <1>3, <1>4, <1>5, <1>6, <1>7, <1>8, <1>9, <1>10, <1>11, <1>12
      DEF WatchNext

\* How far the one thread at work has come, in terms of the three sets.
InStep(t) ==
    /\ step[t] = "reset" => wire = {}
    /\ step[t] \in {"check", "diff", "unsubscribe"} => wire = mirror
    /\ step[t] = "unsubscribe" => /\ added[t] = desired \ mirror
                                  /\ removed[t] = mirror \ desired
    /\ step[t] = "subscribe" => wire \cup added[t] = desired
    /\ step[t] = "store" => wire = desired

\* The inductive form of ReconnectRepairs: on an undisturbed connection one thread
\* is at work at most, and between its calls the three sets agree.
Undisturbed ==
    /\ socket => connected
    /\ ~socket => wire = {}
    /\ (socket /\ ~disturbed) =>
        /\ \A t, u \in Threads : step[t] # "idle" /\ step[u] # "idle" => t = u
        /\ (\A t \in Threads : step[t] = "idle") => wire = mirror /\ mirror = desired
        /\ \A t \in Threads : InStep(t)

LEMMA UndisturbedStep == WatchTypes /\ Undisturbed /\ [WatchNext]_wsVars => Undisturbed'
  <1> SUFFICES ASSUME WatchTypes, Undisturbed, [WatchNext]_wsVars PROVE Undisturbed'
    OBVIOUS
  <1> USE DEF WatchTypes, Undisturbed, InStep, Goto, Alone, setVars, Threads, Steps
  <1>1. CASE OpenSocket
    BY <1>1 DEF OpenSocket
  <1>2. CASE Drop
    BY <1>2 DEF Drop
  <1>3. CASE OnClose
    BY <1>3 DEF OnClose
  <1>4. CASE OnOpen
    BY <1>4 DEF OnOpen
  <1>5. ASSUME NEW t \in Jobs, NEW keys \in SUBSET Keys, Update(t, keys) PROVE Undisturbed'
    BY <1>5 DEF Update
  <1>6. ASSUME NEW t \in Jobs, CheckUp(t) PROVE Undisturbed'
    BY <1>6 DEF CheckUp
  <1>7. ASSUME NEW t \in Threads, Diff(t) PROVE Undisturbed'
    BY <1>7 DEF Diff
  <1>8. ASSUME NEW t \in Threads, SendRaises(t) PROVE Undisturbed'
    BY <1>8 DEF SendRaises
  <1>9. ASSUME NEW t \in Threads, Unsubscribe(t) PROVE Undisturbed'
    BY <1>9 DEF Unsubscribe
  <1>10. ASSUME NEW t \in Threads, Subscribe(t) PROVE Undisturbed'
    BY <1>10 DEF Subscribe
  <1>11. ASSUME NEW t \in Threads, Store(t) PROVE Undisturbed'
    BY <1>11 DEF Store
  <1>12. CASE UNCHANGED wsVars
    BY <1>12 DEF wsVars
  <1> QED BY <1>1, <1>2, <1>3, <1>4, <1>5, <1>6, <1>7, <1>8, <1>9, <1>10, <1>11, <1>12
      DEF WatchNext

(* For any threads, keys and number of reconnects: when nothing raised and *)
(* no two threads met since the last open, the feed at rest sends exactly  *)
(* the keys wanted (ws_monitor.py:86).                                     *)
THEOREM ReconnectsRepair == WatchSpec => []ReconnectRepairs
  <1>1. WatchInit => WatchTypes /\ Undisturbed
    BY DEF WatchInit, WatchTypes, Undisturbed, Steps
  <1>2. WatchTypes /\ Undisturbed /\ [WatchNext]_wsVars => WatchTypes' /\ Undisturbed'
    BY WatchTypesStep, UndisturbedStep
  <1>3. Undisturbed => ReconnectRepairs
    BY DEF Undisturbed, ReconnectRepairs, AtRest
  <1> QED BY <1>1, <1>2, <1>3, PTL DEF WatchSpec

-----------------------------------------------------------------------------
(* The smart-money screen                                                  *)

Places == {"idle", "init", "again", "dump-init", "dump", "open", "deals"}

ScreenTypes ==
    /\ at \in [Filters -> Places]
    /\ knows \in [Filters -> BOOLEAN]
    /\ denied \in [Filters -> BOOLEAN]

\* The inductive form of ScreenKnowsShares: who writes the shares knows them.
WriterKnows ==
    /\ ScreenTypes
    /\ \A p \in Filters : at[p] \in {"dump-init", "dump"} => knows[p]
    /\ ScreenKnowsShares

LEMMA WriterKnowsStep == WriterKnows /\ [SmartNext]_smVars => WriterKnows'
  <1> SUFFICES ASSUME WriterKnows, [SmartNext]_smVars PROVE WriterKnows'
    OBVIOUS
  <1> USE DEF WriterKnows, ScreenTypes, ScreenKnowsShares, Places, Ensuring
  <1>1. CASE PassDays
    BY <1>1 DEF PassDays
  <1>2. ASSUME NEW p \in Filters, Construct(p) PROVE WriterKnows'
    BY <1>2 DEF Construct
  <1>3. ASSUME NEW p \in Filters, Load(p) PROVE WriterKnows'
    BY <1>3 DEF Load, After, Usable
  <1>4. ASSUME NEW p \in Filters, StartRefresh(p) PROVE WriterKnows'
    BY <1>4 DEF StartRefresh
  <1>5. ASSUME NEW p \in Filters, RefreshFails(p) PROVE WriterKnows'
    BY <1>5 DEF RefreshFails, After
  <1>6. ASSUME NEW p \in Filters, BeginDump(p) PROVE WriterKnows'
    BY <1>6 DEF BeginDump
  <1>7. ASSUME NEW p \in Filters, EndDump(p) PROVE WriterKnows'
    BY <1>7 DEF EndDump
  <1>8. ASSUME NEW p \in Filters, LockedOut(p) PROVE WriterKnows'
    BY <1>8 DEF LockedOut, After
  <1>9. ASSUME NEW p \in Filters, Exit(p) PROVE WriterKnows'
    BY <1>9 DEF Exit
  <1>10. ASSUME NEW p \in Filters, BeginScreen(p) PROVE WriterKnows'
    BY <1>10 DEF BeginScreen
  <1>11. ASSUME NEW p \in Filters, Screen(p) PROVE WriterKnows'
    BY <1>11 DEF Screen
  <1>12. ASSUME NEW p \in Filters, NEW got \in Fetched, GetDeals(p, got) PROVE WriterKnows'
    BY <1>12 DEF GetDeals
  <1>13. CASE UNCHANGED smVars
    BY <1>13 DEF smVars
  <1> QED BY <1>1, <1>2, <1>3, <1>4, <1>5, <1>6, <1>7, <1>8, <1>9, <1>10, <1>11, <1>12, <1>13
      DEF SmartNext

(* For any processes, companies and deals: a screen lacks the shares only  *)
(* when this look at the file met a held lock or a failed refresh          *)
(* (smart_money.py:86).                                                    *)
THEOREM ScreensKnowShares == SmartSpec => []ScreenKnowsShares
  <1>1. SmartInit => WriterKnows
    BY DEF SmartInit, WriterKnows, ScreenTypes, ScreenKnowsShares, Places
  <1>2. WriterKnows /\ [SmartNext]_smVars => WriterKnows'
    BY WriterKnowsStep
  <1>3. WriterKnows => ScreenKnowsShares
    BY DEF WriterKnows
  <1> QED BY <1>1, <1>2, <1>3, PTL DEF SmartSpec

-----------------------------------------------------------------------------
(* The archives of daily files                                             *)

\* The website gives at most one wrong empty answer in a visit to a day, the file
\* archive fewer than the requests of a visit.
FewFalseEmpties ==
    /\ FalseEmpties["mcx"] \in 0..1
    /\ FalseEmpties["nse"] \in Nat /\ FalseEmpties["nse"] < Asks

LEMMA RefusedDaysAreHolidays ==
    ASSUME FewFalseEmpties, NEW d, NEW r \in Visits(d), d \in Sessions
    PROVE  NseStatus(d, r) # "holiday"
  <1> SUFFICES ASSUME Old(d), Len(r) = Asks, \A i \in DOMAIN r : r[i] = "404" PROVE FALSE
    BY DEF NseStatus
  <1> DEFINE refused == {i \in DOMAIN r : r[i] = "404"}
  <1>1. /\ \E n \in 1..Asks : r \in [1..n -> {"404", "bad", "file", "norows"}]
        /\ Cardinality(refused) <= FalseEmpties["nse"]
    BY DEF Visits
  <1>2. PICK n \in 1..Asks : r \in [1..n -> {"404", "bad", "file", "norows"}]
    BY <1>1
  <1>3. r \in Seq({"404", "bad", "file", "norows"})
    BY <1>2, FetchAssumption
  <1>4. DOMAIN r = 1..Asks
    BY <1>3
  <1>5. refused = 1..Asks
    BY <1>4
  <1> HIDE DEF refused
  <1>6. Cardinality(1..Asks) = Asks
    BY FS_Interval, FetchAssumption
  <1> QED BY <1>1, <1>5, <1>6, FetchAssumption DEF FewFalseEmpties

VisitShape ==
    /\ visit = [w \in Workers |-> visit[w]]
    /\ \A w \in Workers :
        /\ visit[w] = [day |-> visit[w].day, attempt |-> visit[w].attempt,
                       empty |-> visit[w].empty, lies |-> visit[w].lies,
                       noted |-> visit[w].noted]
        /\ visit[w].lies \in Nat /\ visit[w].empty \in BOOLEAN

\* The inductive form of NoSessionLost: an empty answer seen for a session was wrong.
EmptyWasWrong ==
    /\ VisitShape
    /\ done = [d \in Days |-> done[d]] /\ manifest = [d \in Days |-> manifest[d]]
    /\ \A w \in Workers :
        (visit[w].empty /\ visit[w].day \in Sessions) => visit[w].lies >= 1
    /\ NoSessionLost

LEMMA NoteKeeps ==
    ASSUME EmptyWasWrong, NEW w \in Workers, NEW status, Note(w, status),
           status = "holiday" => visit[w].day \notin Sessions,
           UNCHANGED manifest
    PROVE  EmptyWasWrong'
  <1>1. visit'[w] = [day |-> visit[w].day, attempt |-> visit[w].attempt, empty |-> visit[w].empty,
                     lies |-> visit[w].lies, noted |-> status]
    BY DEF EmptyWasWrong, VisitShape, Note
  <1>2. \A u \in Workers \ {w} : visit'[u] = visit[u]
    BY DEF EmptyWasWrong, VisitShape, Note
  <1>3. VisitShape'
    BY <1>1, <1>2 DEF EmptyWasWrong, VisitShape, Note
  <1>4. \A u \in Workers : (visit[u].empty /\ visit[u].day \in Sessions)' => visit'[u].lies >= 1
    BY <1>1, <1>2 DEF EmptyWasWrong
  <1>5. done' = [done EXCEPT ![visit[w].day] = status]
    BY DEF Note
  <1>6. (done = [d \in Days |-> done[d]])'
    BY <1>5 DEF EmptyWasWrong
  <1>7. \A d \in Days : done'[d] = done[d] \/ (d = visit[w].day /\ done'[d] = status)
    BY <1>5 DEF EmptyWasWrong
  <1>8. NoSessionLost'
    BY <1>7 DEF EmptyWasWrong, NoSessionLost
  <1> QED BY <1>3, <1>4, <1>6, <1>8 DEF EmptyWasWrong

\* A worker begins a day, has done with one, or tries again.
LEMMA VisitKeeps ==
    ASSUME EmptyWasWrong, NEW w \in Workers, NEW d, NEW a, NEW e \in BOOLEAN, NEW l \in Nat,
           visit' = [visit EXCEPT ![w] = [day |-> d, attempt |-> a, empty |-> e,
                                          lies |-> l, noted |-> "none"]],
           (e /\ d \in Sessions) => l >= 1,
           UNCHANGED done, manifest' \in {manifest, done}
    PROVE  EmptyWasWrong'
  <1>1. visit'[w] = [day |-> d, attempt |-> a, empty |-> e, lies |-> l, noted |-> "none"]
    BY DEF EmptyWasWrong, VisitShape
  <1>2. \A u \in Workers \ {w} : visit'[u] = visit[u]
    BY DEF EmptyWasWrong, VisitShape
  <1>3. VisitShape'
    BY <1>1, <1>2 DEF EmptyWasWrong, VisitShape
  <1>4. \A u \in Workers : (visit[u].empty /\ visit[u].day \in Sessions)' => visit'[u].lies >= 1
    BY <1>1, <1>2 DEF EmptyWasWrong
  <1>5. NoSessionLost' /\ (manifest = [x \in Days |-> manifest[x]])'
    BY DEF EmptyWasWrong, NoSessionLost
  <1> QED BY <1>3, <1>4, <1>5 DEF EmptyWasWrong

\* All workers at rest.
LEMMA AllRest ==
    ASSUME visit = [w \in Workers |-> Resting]
    PROVE  /\ VisitShape
           /\ \A w \in Workers : ~visit[w].empty
  <1>1. \A w \in Workers : visit[w] = Resting
    OBVIOUS
  <1>2. \A w \in Workers :
            /\ visit[w] = [day |-> visit[w].day, attempt |-> visit[w].attempt,
                           empty |-> visit[w].empty, lies |-> visit[w].lies,
                           noted |-> visit[w].noted]
            /\ visit[w].lies \in Nat /\ visit[w].empty = FALSE
    BY <1>1 DEF Resting, Begun
  <1> QED BY <1>2 DEF VisitShape

LEMMA AllRestNext ==
    ASSUME visit' = [w \in Workers |-> Resting]
    PROVE  /\ VisitShape'
           /\ \A w \in Workers : ~visit'[w].empty
  <1>1. \A w \in Workers : visit'[w] = Resting
    OBVIOUS
  <1>2. \A w \in Workers :
            /\ visit'[w] = [day |-> visit'[w].day, attempt |-> visit'[w].attempt,
                            empty |-> visit'[w].empty, lies |-> visit'[w].lies,
                            noted |-> visit'[w].noted]
            /\ visit'[w].lies \in Nat /\ visit'[w].empty = FALSE
    BY <1>1 DEF Resting, Begun
  <1> QED BY <1>2 DEF VisitShape

LEMMA EmptyWasWrongStep ==
    ASSUME FewFalseEmpties
    PROVE  EmptyWasWrong /\ [FetchNext]_fetchVars => EmptyWasWrong'
  <1> SUFFICES ASSUME EmptyWasWrong, [FetchNext]_fetchVars PROVE EmptyWasWrong'
    OBVIOUS
  <1>1. CASE StartRun
    BY <1>1, AllRestNext DEF StartRun, EmptyWasWrong, NoSessionLost
  <1>2. CASE NextDate
    BY <1>2 DEF NextDate, EmptyWasWrong, VisitShape, NoSessionLost
  <1>3. CASE EndRun
    BY <1>3 DEF EndRun, EmptyWasWrong, VisitShape, NoSessionLost
  <1>4. CASE Interrupt
    BY <1>4, AllRestNext DEF Interrupt, EmptyWasWrong, NoSessionLost
  <1>5. CASE Kill
    BY <1>5, AllRestNext DEF Kill, EmptyWasWrong, NoSessionLost
  <1>6. ASSUME NEW w \in Workers, Take(w) PROVE EmptyWasWrong'
    BY <1>6, VisitKeeps DEF Take, Begun
  <1>7. ASSUME NEW w \in Workers, Tally(w) PROVE EmptyWasWrong'
    BY <1>7, VisitKeeps DEF Tally, Resting, Begun
  <1>8. ASSUME NEW w \in Workers, McxFails(w) PROVE EmptyWasWrong'
    <2>1. CASE visit[w].attempt + 1 = Attempts
      BY <1>8, <2>1, NoteKeeps DEF McxFails, Retry
    <2>2. CASE visit[w].attempt + 1 # Attempts
      <3>1. /\ visit[w].empty \in BOOLEAN /\ visit[w].lies \in Nat
            /\ (visit[w].empty /\ visit[w].day \in Sessions) => visit[w].lies >= 1
        BY DEF EmptyWasWrong, VisitShape
      <3> QED BY <1>8, <2>2, <3>1, VisitKeeps DEF McxFails, Retry
    <2> QED BY <2>1, <2>2
  <1>9. ASSUME NEW w \in Workers, McxRows(w) PROVE EmptyWasWrong'
    BY <1>9, NoteKeeps DEF McxRows
  <1>10. ASSUME NEW w \in Workers, NEW lie \in BOOLEAN, McxEmpty(w, lie) PROVE EmptyWasWrong'
    <2>1. /\ source = "mcx" /\ UNCHANGED manifest
          /\ lie <=> (visit[w].day \in Sessions /\ Old(visit[w].day))
          /\ lie => visit[w].lies < FalseEmpties[source]
      BY <1>10 DEF McxEmpty
    <2>2. CASE ~Old(visit[w].day)
      BY <1>10, <2>1, <2>2, NoteKeeps DEF McxEmpty
    <2>3. CASE Old(visit[w].day) /\ visit[w].empty
      <3>1. visit[w].day \notin Sessions
        BY <2>1, <2>3 DEF EmptyWasWrong, VisitShape, FewFalseEmpties
      <3> QED BY <1>10, <2>1, <2>3, <3>1, NoteKeeps DEF McxEmpty
    <2>4. CASE Old(visit[w].day) /\ ~visit[w].empty /\ visit[w].attempt + 1 = Attempts
      BY <1>10, <2>1, <2>4, NoteKeeps DEF McxEmpty, Retry
    <2>5. CASE Old(visit[w].day) /\ ~visit[w].empty /\ visit[w].attempt + 1 # Attempts
      <3> DEFINE told == visit[w].lies + (IF lie THEN 1 ELSE 0)
      <3>1. /\ visit' = [visit EXCEPT ![w] = [day |-> @.day, attempt |-> @.attempt + 1, empty |-> TRUE,
                                              lies |-> told, noted |-> "none"]]
            /\ UNCHANGED done
        BY <1>10, <2>5 DEF McxEmpty, Retry
      <3>2. told \in Nat /\ (visit[w].day \in Sessions => told >= 1)
        BY <2>1, <2>5 DEF EmptyWasWrong, VisitShape
      <3> HIDE DEF told
      <3> QED BY <2>1, <3>1, <3>2, VisitKeeps
    <2> QED BY <2>2, <2>3, <2>4, <2>5 DEF EmptyWasWrong, VisitShape
  <1>11. ASSUME NEW w \in Workers, NEW r \in Visits(visit[w].day), NseVisit(w, r)
         PROVE  EmptyWasWrong'
    BY <1>11, NoteKeeps, RefusedDaysAreHolidays DEF NseVisit
  <1>12. CASE UNCHANGED fetchVars
    BY <1>12 DEF fetchVars, EmptyWasWrong, VisitShape, NoSessionLost
  <1> QED BY <1>1, <1>2, <1>3, <1>4, <1>5, <1>6, <1>7, <1>8, <1>9, <1>10, <1>11, <1>12
      DEF FetchNext

(* For any number of workers, days, runs and attempts: with so few wrong   *)
(* answers no session is ever noted as a holiday, whatever is interrupted, *)
(* killed or published late (futures.py:221, bhavcopy.py:101).             *)
THEOREM SessionsKept == FewFalseEmpties => (FetchSpec => []NoSessionLost)
  <1> SUFFICES ASSUME FewFalseEmpties PROVE FetchSpec => []NoSessionLost
    OBVIOUS
  <1>1. FetchInit => EmptyWasWrong
    BY AllRest DEF FetchInit, EmptyWasWrong, NoSessionLost
  <1>2. EmptyWasWrong /\ [FetchNext]_fetchVars => EmptyWasWrong'
    BY EmptyWasWrongStep
  <1>3. EmptyWasWrong => NoSessionLost
    BY DEF EmptyWasWrong
  <1> QED BY <1>1, <1>2, <1>3, PTL DEF FetchSpec
=============================================================================
