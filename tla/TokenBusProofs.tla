--------------------------- MODULE TokenBusProofs ---------------------------
(***************************************************************************)
(* Theorems about TokenBus, for any number of bots and threads: the file   *)
(* lock is held by exactly the thread inside the locked block; while no    *)
(* login outlasts the lock's TTL and Redis answers, the refresh lock has   *)
(* one holder; while the API and Redis answer plainly, only a dead token   *)
(* forces a login; between the threads of one bot the last login is the    *)
(* one on the bus, until an old token is mirrored late; and a loser of the *)
(* refresh lock gets a newer token, until a login overtakes another one's  *)
(* token on its way to the bus.  Every call ends after a bounded number of *)
(* steps of its thread, and no threads wait for each other.                *)
(***************************************************************************)
EXTENDS TokenBus, TLAPS

-----------------------------------------------------------------------------
(* Typing *)

LEMMA ClientTyped == ASSUME NEW t \in Tokens PROVE Client(t) \in CallerStates
  BY DEF Client, NoClient, CallerStates, Pcs, LockedPcs, Tokens, NoToken

LEMMA NoClientTyped == NoClient \in CallerStates
  BY DEF NoClient, CallerStates, Pcs, LockedPcs, Tokens, NoToken

LEMMA BusTyped ==
  ASSUME TypeOK PROVE GetCentralizedToken \subseteq Tokens
  BY DEF TypeOK, GetCentralizedToken, Shaky, Tokens, NoToken

\* What Return and Raise leave behind is well typed.
LEMMA ReturnTyped ==
  ASSUME TypeOK, NEW c \in Callers, NEW t \in Tokens, Return(c, t)
  PROVE  /\ caller' \in [Callers -> CallerStates]
         /\ fileLock' \in [Hosts -> Callers \cup {NoCaller}]
  <1>1. [Client(t) EXCEPT !.pc = IF caller[c].force THEN "final" ELSE "ready"] \in CallerStates
    BY ClientTyped DEF CallerStates, Pcs, LockedPcs
  <1> QED BY <1>1 DEF Return, Become, TypeOK

LEMMA RaiseTyped ==
  ASSUME TypeOK, NEW c \in Callers, Raise(c)
  PROVE  /\ caller' \in [Callers -> CallerStates]
         /\ fileLock' \in [Hosts -> Callers \cup {NoCaller}]
  <1>1. caller[c].token \in Tokens
    BY DEF TypeOK, CallerStates
  <1> QED BY <1>1, ClientTyped, NoClientTyped DEF Raise, Become, TypeOK
\* Moving a thread to another pc, or to another state, keeps the types.
LEMMA BecomeTyped ==
  ASSUME TypeOK, NEW c \in Callers, NEW s \in CallerStates, Become(c, s)
  PROVE  caller' \in [Callers -> CallerStates]
  BY DEF Become, TypeOK

LEMMA GotoTyped ==
  ASSUME TypeOK, NEW c \in Callers, NEW pc \in Pcs, Goto(c, pc)
  PROVE  caller' \in [Callers -> CallerStates]
  <1>1. caller[c] \in CallerStates
    BY DEF TypeOK
  <1>2. [caller[c] EXCEPT !.pc = pc] \in CallerStates
    BY <1>1 DEF CallerStates
  <1> QED BY <1>2, BecomeTyped DEF Goto

\* The states the other steps build from a thread's state.
LEMMA UpdateTyped ==
  ASSUME NEW s \in CallerStates, NEW pc \in Pcs, NEW t \in Tokens
  PROVE  /\ [s EXCEPT !.pc = pc, !.got = t] \in CallerStates
         /\ [s EXCEPT !.pc = pc, !.stale = t] \in CallerStates
         /\ [s EXCEPT !.pc = pc, !.token = t] \in CallerStates
         /\ [s EXCEPT !.pc = pc, !.force = TRUE] \in CallerStates
         /\ [s EXCEPT !.pc = pc, !.holds = TRUE] \in CallerStates
         /\ [s EXCEPT !.pc = pc] \in CallerStates
  BY DEF CallerStates

LEMMA MirrorTyped ==
  ASSUME TypeOK, NEW h \in Hosts, NEW t \in Tokens, MirrorTokenLocally(h, t)
  PROVE  file' \in [Hosts -> Files]
  BY DEF TypeOK, MirrorTokenLocally, Files, Ages

LEMMA InitTyped == Init => TypeOK
  <1> SUFFICES ASSUME NEW t \in {NoToken, 1}, Init,
                      live = t, issued = t, bus = t, refreshLock = FALSE,
                      file = [h \in Hosts |-> [NoFile EXCEPT !.token = t]],
                      fileLock = [h \in Hosts |-> NoCaller],
                      caller = [c \in Callers |-> IF t = NoToken THEN NoClient ELSE Client(t)],
                      boots = 0, calls = 0, expiries = 0
               PROVE  TypeOK
    BY DEF Init
  <1>1. t \in Tokens
    BY DEF Tokens, NoToken
  <1>2. [NoFile EXCEPT !.token = t] \in Files
    BY <1>1 DEF NoFile, Files, Ages, Tokens, NoToken
  <1>3. caller \in [Callers -> CallerStates]
    BY <1>1, ClientTyped, NoClientTyped
  <1> QED BY <1>1, <1>2, <1>3 DEF TypeOK, Tokens

LEMMA StepTyped ==
  ASSUME TypeOK, [Next]_vars PROVE TypeOK'
  <1> USE DEF redisVars, hostVars, brokerVars, bounds
  <1>a. \A c \in Callers : caller[c] \in CallerStates /\ HostOf[c] \in Hosts
    BY HostAssumption DEF TypeOK
  <1>b. \A c \in Callers : /\ caller[c].got \in Tokens
                           /\ caller[c].token \in Tokens
                           /\ file[HostOf[c]].token \in Tokens
    BY <1>a DEF CallerStates, TypeOK, Files
  <1>1. ASSUME NEW c \in Callers, Boot(c) PROVE TypeOK'
    <2>1. [NoClient EXCEPT !.pc = "fastpath"] \in CallerStates
      BY NoClientTyped, UpdateTyped DEF CallerStates, Pcs, LockedPcs
    <2> QED BY <1>1, <2>1, BecomeTyped DEF Boot, TypeOK
  <1>2. ASSUME NEW c \in Callers, FastPath(c) PROVE TypeOK'
    <2>1. PICK t \in GetCentralizedToken :
            Become(c, [caller[c] EXCEPT
                !.pc = IF t = NoToken THEN "filelock" ELSE "fastmirror", !.got = t])
      BY <1>2 DEF FastPath
    <2>2. t \in Tokens
      BY BusTyped
    <2>3. caller' \in [Callers -> CallerStates]
      BY <2>1, <2>2, <1>a, UpdateTyped, BecomeTyped DEF Pcs, LockedPcs
    <2> QED BY <1>2, <2>3 DEF FastPath, TypeOK
  <1>3. ASSUME NEW c \in Callers, FastMirror(c) PROVE TypeOK'
    BY <1>3, <1>a, <1>b, MirrorTyped, ReturnTyped DEF FastMirror, TypeOK
  <1>4. ASSUME NEW c \in Callers, AcquireFileLock(c) PROVE TypeOK'
    <2>1. (IF caller[c].force THEN "readfile" ELSE "postlock") \in Pcs
      BY DEF Pcs, LockedPcs
    <2>2. caller' \in [Callers -> CallerStates]
      BY <1>4, <2>1, GotoTyped DEF AcquireFileLock
    <2> QED BY <1>4, <2>2 DEF AcquireFileLock, TypeOK
  <1>5. ASSUME NEW c \in Callers, PostLock(c) PROVE TypeOK'
    <2>1. PICK t \in GetCentralizedToken :
            Become(c, [caller[c] EXCEPT
                !.pc = IF t = NoToken THEN "readfile" ELSE "adopt", !.got = t])
      BY <1>5 DEF PostLock
    <2>2. t \in Tokens
      BY BusTyped
    <2>3. caller' \in [Callers -> CallerStates]
      BY <2>1, <2>2, <1>a, UpdateTyped, BecomeTyped DEF Pcs, LockedPcs
    <2> QED BY <1>5, <2>3 DEF PostLock, TypeOK
  <1>6. ASSUME NEW c \in Callers, Adopt(c) PROVE TypeOK'
    BY <1>6, <1>a, <1>b, MirrorTyped, ReturnTyped DEF Adopt, TypeOK
  <1>7. ASSUME NEW c \in Callers, ReadLocal(c) PROVE TypeOK'
    <2>1. caller' \in [Callers -> CallerStates]
      BY <1>7, <1>a, <1>b, UpdateTyped, BecomeTyped DEF ReadLocal, Pcs, LockedPcs
    <2> QED BY <1>7, <2>1 DEF ReadLocal, TypeOK
  <1>8. ASSUME NEW c \in Callers, ReadStale(c) PROVE TypeOK'
    <2>1. PICK t \in GetCentralizedToken :
            Become(c, [caller[c] EXCEPT !.pc = "acquire", !.stale = t])
      BY <1>8 DEF ReadStale
    <2>2. t \in Tokens
      BY BusTyped
    <2>3. caller' \in [Callers -> CallerStates]
      BY <2>1, <2>2, <1>a, UpdateTyped, BecomeTyped DEF Pcs, LockedPcs
    <2> QED BY <1>8, <2>3 DEF ReadStale, TypeOK
  <1>9. ASSUME NEW c \in Callers, AcquireRefreshLock(c) PROVE TypeOK'
    <2>1. caller' \in [Callers -> CallerStates]
      <3>1. [caller[c] EXCEPT !.pc = "clear", !.holds = TRUE] \in CallerStates
        BY <1>a DEF CallerStates, Pcs, LockedPcs
      <3>2. CASE Become(c, [caller[c] EXCEPT !.pc = "clear", !.holds = TRUE])
        BY <3>1, <3>2, BecomeTyped, Zenon
      <3>3. CASE Goto(c, "wait")
        BY <3>3, GotoTyped DEF Pcs, LockedPcs
      <3> QED BY <1>9, <3>2, <3>3 DEF AcquireRefreshLock
    <2> QED BY <1>9, <2>1 DEF AcquireRefreshLock, TypeOK
  <1>10. ASSUME NEW c \in Callers, WaitFindsToken(c) PROVE TypeOK'
    <2>1. caller' \in [Callers -> CallerStates]
      BY <1>10, <1>a, UpdateTyped, BecomeTyped DEF WaitFindsToken, TypeOK, Pcs, LockedPcs
    <2> QED BY <1>10, <2>1 DEF WaitFindsToken, TypeOK
  <1>11. ASSUME NEW c \in Callers, WaitTimeout(c) PROVE TypeOK'
    BY <1>11, GotoTyped DEF WaitTimeout, TypeOK, Pcs, LockedPcs
  <1>12. ASSUME NEW c \in Callers, ClearBus(c) PROVE TypeOK'
    <2>1. bus' \in Tokens
      BY <1>12 DEF ClearBus, TypeOK, Shaky, Tokens, NoToken
    <2>2. /\ caller' \in [Callers -> CallerStates]
          /\ fileLock' \in [Hosts -> Callers \cup {NoCaller}]
      BY <1>12, RaiseTyped, GotoTyped DEF ClearBus, TypeOK, Pcs, LockedPcs
    <2> QED BY <1>12, <2>1, <2>2 DEF ClearBus, TypeOK
  <1>13. ASSUME NEW c \in Callers, Login(c) PROVE TypeOK'
    <2>1. issued + 1 \in Tokens
      BY DEF TypeOK, Tokens
    <2>2. caller' \in [Callers -> CallerStates]
      BY <1>13, <1>a, <2>1, UpdateTyped, BecomeTyped, GotoTyped DEF Login, Pcs, LockedPcs
    <2> QED BY <1>13, <2>1, <2>2 DEF Login, TypeOK, Tokens
  <1>14. ASSUME NEW c \in Callers, LoginFails(c) PROVE TypeOK'
    BY <1>14, GotoTyped DEF LoginFails, TypeOK, Pcs, LockedPcs
  <1>15. ASSUME NEW c \in Callers, MirrorLogin(c) PROVE TypeOK'
    BY <1>15, <1>a, <1>b, MirrorTyped, GotoTyped DEF MirrorLogin, TypeOK, Pcs, LockedPcs
  <1>16. ASSUME NEW c \in Callers, Publish(c) PROVE TypeOK'
    <2>1. bus' \in Tokens
      BY <1>16, <1>b DEF Publish, TypeOK, Shaky
    <2> QED BY <1>16, <2>1, GotoTyped DEF Publish, TypeOK, Pcs, LockedPcs
  <1>17. ASSUME NEW c \in Callers, Release(c) PROVE TypeOK'
    <2>1. refreshLock' \in BOOLEAN
      BY <1>17 DEF Release, TypeOK, Shaky
    <2>2. /\ caller' \in [Callers -> CallerStates]
          /\ fileLock' \in [Hosts -> Callers \cup {NoCaller}]
      BY <1>17, <1>b, RaiseTyped, ReturnTyped DEF Release
    <2> QED BY <1>17, <2>1, <2>2 DEF Release, TypeOK
  <1>18. ASSUME NEW c \in Callers, Send(c) PROVE TypeOK'
    BY <1>18, GotoTyped DEF Send, TypeOK, Pcs, LockedPcs
  <1>19. ASSUME NEW c \in Callers, Answer(c) PROVE TypeOK'
    BY <1>19, GotoTyped DEF Answer, TypeOK, Pcs, LockedPcs
  <1>20. ASSUME NEW c \in Callers, Unauthorized(c) PROVE TypeOK'
    BY <1>20, GotoTyped DEF Unauthorized, TypeOK, Pcs, LockedPcs
  <1>21. ASSUME NEW c \in Callers, EvictFile(c) PROVE TypeOK'
    <2>1. NoFile \in Files
      BY DEF NoFile, Files, Ages, Tokens, NoToken
    <2> QED BY <1>21, <2>1, GotoTyped DEF EvictFile, TypeOK, Pcs, LockedPcs
  <1>22. ASSUME NEW c \in Callers, CompareBus(c) PROVE TypeOK'
    <2>1. PICK t \in GetCentralizedToken :
            Become(c, IF t \notin {NoToken, caller[c].token}
                      THEN [caller[c] EXCEPT !.pc = "heal", !.token = t]
                      ELSE [caller[c] EXCEPT !.pc = "filelock", !.force = TRUE])
      BY <1>22 DEF CompareBus
    <2>2. t \in Tokens
      BY BusTyped
    <2>3. caller' \in [Callers -> CallerStates]
      BY <2>1, <2>2, <1>a, UpdateTyped, BecomeTyped DEF Pcs, LockedPcs
    <2> QED BY <1>22, <2>3 DEF CompareBus, TypeOK
  <1>23. ASSUME NEW c \in Callers, HealMirror(c) PROVE TypeOK'
    BY <1>23, <1>a, <1>b, MirrorTyped, GotoTyped DEF HealMirror, TypeOK, Pcs, LockedPcs
  <1>24. ASSUME NEW c \in Callers, RetryAnswered(c) PROVE TypeOK'
    BY <1>24, GotoTyped DEF RetryAnswered, TypeOK, Pcs, LockedPcs
  <1>25. ASSUME NEW c \in Callers, RetryFailed(c) PROVE TypeOK'
    <2>1. caller' \in [Callers -> CallerStates]
      <3>1. [caller[c] EXCEPT !.pc = "filelock", !.force = TRUE] \in CallerStates
        BY <1>a DEF CallerStates, Pcs
      <3>2. Become(c, [caller[c] EXCEPT !.pc = "filelock", !.force = TRUE])
        BY <1>25 DEF RetryFailed
      <3> QED BY <3>1, <3>2, BecomeTyped, Zenon
    <2> QED BY <1>25, <2>1 DEF RetryFailed, TypeOK
  <1>26. ASSUME NEW c \in Callers, FinalRetry(c) PROVE TypeOK'
    BY <1>26, GotoTyped DEF FinalRetry, TypeOK, Pcs, LockedPcs
  <1>27. CASE SessionExpires
    BY <1>27 DEF SessionExpires, TypeOK, Tokens, NoToken
  <1>28. CASE BusForgets
    BY <1>28 DEF BusForgets, TypeOK, Tokens, NoToken
  <1>29. CASE LockExpires
    BY <1>29 DEF LockExpires, TypeOK
  <1>30. ASSUME NEW h \in Hosts, FileAges(h) PROVE TypeOK'
    BY <1>30 DEF FileAges, TypeOK, Files, Ages
  <1>31. ASSUME NEW h \in Hosts, Crash(h) PROVE TypeOK'
    BY <1>31, NoClientTyped DEF Crash, TypeOK
  <1>32. CASE UNCHANGED vars
    BY <1>32 DEF vars, TypeOK
  <1> QED
    BY <1>1, <1>2, <1>3, <1>4, <1>5, <1>6, <1>7, <1>8, <1>9, <1>10, <1>11, <1>12, <1>13, <1>14,
       <1>15, <1>16, <1>17, <1>18, <1>19, <1>20, <1>21, <1>22, <1>23, <1>24, <1>25, <1>26, <1>27,
       <1>28, <1>29, <1>30, <1>31, <1>32
    DEF Next, Step, Authenticate, Request, World

\* Tokens, locks, files and threads keep their types.
THEOREM BusTyping == Spec => []TypeOK
  BY InitTyped, StepTyped, PTL DEF Spec

-----------------------------------------------------------------------------
(* The file lock *)

\* A thread that stays outside the locked block, or inside it, and leaves the
\* file locks alone keeps them exact.
LEMMA SameSideExact ==
  ASSUME TypeOK, FileLockExact, UNCHANGED fileLock,
         \A c \in Callers : caller'[c].pc \in LockedPcs <=> caller[c].pc \in LockedPcs
  PROVE  FileLockExact'
  BY DEF FileLockExact

\* Leaving the block, by a return or by an exception, frees the file lock.
LEMMA LeaveExact ==
  ASSUME TypeOK, FileLockExact, NEW c \in Callers,
         fileLock' = [h \in Hosts |-> IF fileLock[h] = c THEN NoCaller ELSE fileLock[h]],
         caller'[c].pc \notin LockedPcs,
         \A d \in Callers \ {c} : caller'[d] = caller[d]
  PROVE  FileLockExact'
  BY NobodyAssumption DEF FileLockExact, TypeOK

LEMMA ReturnExact ==
  ASSUME TypeOK, FileLockExact, NEW c \in Callers, NEW t, Return(c, t)
  PROVE  FileLockExact'
  BY LeaveExact DEF Return, Become, TypeOK, Client, NoClient, LockedPcs

LEMMA RaiseExact ==
  ASSUME TypeOK, FileLockExact, NEW c \in Callers, Raise(c)
  PROVE  FileLockExact'
  BY LeaveExact DEF Raise, Become, TypeOK, Client, NoClient, LockedPcs

LEMMA InitExact == Init => FileLockExact
  BY NobodyAssumption DEF Init, FileLockExact, Client, NoClient, LockedPcs

LEMMA StepExact ==
  ASSUME TypeOK, FileLockExact, [Next]_vars PROVE FileLockExact'
  <1> USE DEF hostVars, Goto, Become
  <1>1. ASSUME NEW c \in Callers, Boot(c) PROVE FileLockExact'
    BY <1>1, SameSideExact DEF Boot, NoClient, TypeOK, LockedPcs
  <1>2. ASSUME NEW c \in Callers, FastPath(c) PROVE FileLockExact'
    BY <1>2, SameSideExact DEF FastPath, TypeOK, LockedPcs
  <1>3. ASSUME NEW c \in Callers, FastMirror(c) PROVE FileLockExact'
    BY <1>3, ReturnExact DEF FastMirror
  <1>4. ASSUME NEW c \in Callers, AcquireFileLock(c) PROVE FileLockExact'
    <2>1. caller'[c].pc \in LockedPcs /\ caller[c].pc \notin LockedPcs
      BY <1>4 DEF AcquireFileLock, TypeOK, LockedPcs
    <2>2. \A d \in Callers \ {c} : caller'[d] = caller[d]
      BY <1>4 DEF AcquireFileLock, TypeOK
    <2> QED BY <1>4, <2>1, <2>2, HostAssumption, NobodyAssumption
            DEF AcquireFileLock, FileLockExact, TypeOK
  <1>5. ASSUME NEW c \in Callers, PostLock(c) PROVE FileLockExact'
    BY <1>5, SameSideExact DEF PostLock, TypeOK, LockedPcs
  <1>6. ASSUME NEW c \in Callers, Adopt(c) PROVE FileLockExact'
    BY <1>6, ReturnExact DEF Adopt
  <1>7. ASSUME NEW c \in Callers, ReadLocal(c) PROVE FileLockExact'
    BY <1>7, SameSideExact DEF ReadLocal, TypeOK, LockedPcs
  <1>8. ASSUME NEW c \in Callers, ReadStale(c) PROVE FileLockExact'
    BY <1>8, SameSideExact DEF ReadStale, TypeOK, LockedPcs
  <1>9. ASSUME NEW c \in Callers, AcquireRefreshLock(c) PROVE FileLockExact'
    <2>1. caller[c].pc = "acquire" /\ UNCHANGED fileLock
      BY <1>9 DEF AcquireRefreshLock
    <2>2. CASE Become(c, [caller[c] EXCEPT !.pc = "clear", !.holds = TRUE])
      BY <2>1, <2>2, SameSideExact DEF TypeOK, CallerStates, LockedPcs
    <2>3. CASE Goto(c, "wait")
      BY <2>1, <2>3, SameSideExact DEF TypeOK, CallerStates, LockedPcs
    <2> QED BY <1>9, <2>2, <2>3 DEF AcquireRefreshLock
  <1>10. ASSUME NEW c \in Callers, WaitFindsToken(c) PROVE FileLockExact'
    BY <1>10, SameSideExact DEF WaitFindsToken, TypeOK, LockedPcs
  <1>11. ASSUME NEW c \in Callers, WaitTimeout(c) PROVE FileLockExact'
    BY <1>11, SameSideExact DEF WaitTimeout, TypeOK, LockedPcs
  <1>12. ASSUME NEW c \in Callers, ClearBus(c) PROVE FileLockExact'
    <2>1. CASE HostOf[c] \in Keyless
      BY <1>12, <2>1, RaiseExact DEF ClearBus
    <2>2. CASE HostOf[c] \notin Keyless
      <3>1. caller[c].pc = "clear" /\ Goto(c, "login") /\ UNCHANGED fileLock
        BY <1>12, <2>2 DEF ClearBus
      <3> QED BY <3>1, SameSideExact DEF TypeOK, LockedPcs
    <2> QED BY <2>1, <2>2
  <1>13. ASSUME NEW c \in Callers, Login(c) PROVE FileLockExact'
    <2>1. caller[c].pc = "login" /\ UNCHANGED fileLock
      BY <1>13 DEF Login
    <2>2. CASE Become(c, [caller[c] EXCEPT !.pc = "mirror", !.got = issued + 1])
      BY <2>1, <2>2, SameSideExact DEF TypeOK, CallerStates, LockedPcs
    <2>3. CASE Goto(c, "release")
      BY <2>1, <2>3, SameSideExact DEF TypeOK, CallerStates, LockedPcs
    <2> QED BY <1>13, <2>2, <2>3 DEF Login
  <1>14. ASSUME NEW c \in Callers, LoginFails(c) PROVE FileLockExact'
    BY <1>14, SameSideExact DEF LoginFails, TypeOK, LockedPcs
  <1>15. ASSUME NEW c \in Callers, MirrorLogin(c) PROVE FileLockExact'
    BY <1>15, SameSideExact DEF MirrorLogin, TypeOK, LockedPcs
  <1>16. ASSUME NEW c \in Callers, Publish(c) PROVE FileLockExact'
    BY <1>16, SameSideExact DEF Publish, TypeOK, LockedPcs
  <1>17. ASSUME NEW c \in Callers, Release(c) PROVE FileLockExact'
    BY <1>17, ReturnExact, RaiseExact DEF Release
  <1>18. ASSUME NEW c \in Callers, Send(c) PROVE FileLockExact'
    BY <1>18, SameSideExact DEF Send, TypeOK, LockedPcs
  <1>19. ASSUME NEW c \in Callers, Answer(c) PROVE FileLockExact'
    BY <1>19, SameSideExact DEF Answer, TypeOK, LockedPcs
  <1>20. ASSUME NEW c \in Callers, Unauthorized(c) PROVE FileLockExact'
    BY <1>20, SameSideExact DEF Unauthorized, TypeOK, LockedPcs
  <1>21. ASSUME NEW c \in Callers, EvictFile(c) PROVE FileLockExact'
    BY <1>21, SameSideExact DEF EvictFile, TypeOK, LockedPcs
  <1>22. ASSUME NEW c \in Callers, CompareBus(c) PROVE FileLockExact'
    BY <1>22, SameSideExact DEF CompareBus, TypeOK, LockedPcs
  <1>23. ASSUME NEW c \in Callers, HealMirror(c) PROVE FileLockExact'
    BY <1>23, SameSideExact DEF HealMirror, TypeOK, LockedPcs
  <1>24. ASSUME NEW c \in Callers, RetryAnswered(c) PROVE FileLockExact'
    BY <1>24, SameSideExact DEF RetryAnswered, TypeOK, LockedPcs
  <1>25. ASSUME NEW c \in Callers, RetryFailed(c) PROVE FileLockExact'
    BY <1>25, SameSideExact DEF RetryFailed, TypeOK, LockedPcs
  <1>26. ASSUME NEW c \in Callers, FinalRetry(c) PROVE FileLockExact'
    BY <1>26, SameSideExact DEF FinalRetry, TypeOK, LockedPcs
  <1>27. CASE SessionExpires
    BY <1>27 DEF SessionExpires, FileLockExact
  <1>28. CASE BusForgets
    BY <1>28 DEF BusForgets, FileLockExact
  <1>29. CASE LockExpires
    BY <1>29 DEF LockExpires, FileLockExact
  <1>30. ASSUME NEW h \in Hosts, FileAges(h) PROVE FileLockExact'
    BY <1>30 DEF FileAges, FileLockExact
  <1>31. ASSUME NEW h \in Hosts, Crash(h) PROVE FileLockExact'
    BY <1>31, NobodyAssumption DEF Crash, FileLockExact, TypeOK, NoClient, LockedPcs
  <1>32. CASE UNCHANGED vars
    BY <1>32 DEF vars, FileLockExact
  <1> QED
    BY <1>1, <1>2, <1>3, <1>4, <1>5, <1>6, <1>7, <1>8, <1>9, <1>10, <1>11, <1>12, <1>13, <1>14,
       <1>15, <1>16, <1>17, <1>18, <1>19, <1>20, <1>21, <1>22, <1>23, <1>24, <1>25, <1>26, <1>27,
       <1>28, <1>29, <1>30, <1>31, <1>32
    DEF Next, Step, Authenticate, Request, World

\* The file lock of a host is held by exactly the thread inside the locked
\* block, whatever fails: it is never shared and never left behind.
THEOREM FileLocksExact == Spec => []FileLockExact
  <1>1. Init => TypeOK /\ FileLockExact
    BY InitTyped, InitExact
  <1>2. TypeOK /\ FileLockExact /\ [Next]_vars => TypeOK' /\ FileLockExact'
    BY StepTyped, StepExact
  <1> QED BY <1>1, <1>2, PTL DEF Spec

-----------------------------------------------------------------------------
(* The refresh lock *)

\* No login outlasts the lock's TTL, and every Redis command is carried out.
PromptRedis == Faults \cap {"slow_login", "redis_error"} = {}

\* A step that neither touches the refresh lock nor makes a holder.
LEMMA NoNewHolder ==
  ASSUME HolderHasLock, UNCHANGED refreshLock,
         \A c \in Callers : caller'[c].holds => caller[c].holds
  PROVE  HolderHasLock'
  BY DEF HolderHasLock, OneHolder

LEMMA InitHolder == Init => HolderHasLock
  BY DEF Init, HolderHasLock, OneHolder, Client, NoClient

LEMMA StepHolder ==
  ASSUME PromptRedis, TypeOK, HolderHasLock, [Next]_vars PROVE HolderHasLock'
  <1> USE DEF redisVars, Goto, Become
  <1>1. ASSUME NEW c \in Callers, Boot(c) PROVE HolderHasLock'
    BY <1>1, NoNewHolder DEF Boot, NoClient, TypeOK
  <1>2. ASSUME NEW c \in Callers, FastPath(c) PROVE HolderHasLock'
    BY <1>2, NoNewHolder DEF FastPath, TypeOK, CallerStates
  <1>3. ASSUME NEW c \in Callers, FastMirror(c) PROVE HolderHasLock'
    BY <1>3, NoNewHolder DEF FastMirror, Return, Client, NoClient, TypeOK
  <1>4. ASSUME NEW c \in Callers, AcquireFileLock(c) PROVE HolderHasLock'
    BY <1>4, NoNewHolder DEF AcquireFileLock, TypeOK, CallerStates
  <1>5. ASSUME NEW c \in Callers, PostLock(c) PROVE HolderHasLock'
    BY <1>5, NoNewHolder DEF PostLock, TypeOK, CallerStates
  <1>6. ASSUME NEW c \in Callers, Adopt(c) PROVE HolderHasLock'
    BY <1>6, NoNewHolder DEF Adopt, Return, Client, NoClient, TypeOK
  <1>7. ASSUME NEW c \in Callers, ReadLocal(c) PROVE HolderHasLock'
    BY <1>7, NoNewHolder DEF ReadLocal, TypeOK, CallerStates
  <1>8. ASSUME NEW c \in Callers, ReadStale(c) PROVE HolderHasLock'
    BY <1>8, NoNewHolder DEF ReadStale, TypeOK, CallerStates
  <1>9. ASSUME NEW c \in Callers, AcquireRefreshLock(c) PROVE HolderHasLock'
    <2>1. CASE refreshLock
      <3>1. Goto(c, "wait") /\ UNCHANGED refreshLock
        BY <1>9, <2>1 DEF AcquireRefreshLock, PromptRedis
      <3> QED BY <3>1, NoNewHolder DEF TypeOK, CallerStates
    <2>2. CASE ~refreshLock
      <3>1. \A d \in Callers : ~caller[d].holds
        BY <2>2 DEF HolderHasLock
      <3>2. refreshLock' /\ \A d \in Callers \ {c} : caller'[d] = caller[d]
        BY <1>9, <2>2 DEF AcquireRefreshLock, PromptRedis, TypeOK
      <3> QED BY <3>1, <3>2 DEF HolderHasLock, OneHolder
    <2> QED BY <2>1, <2>2
  <1>10. ASSUME NEW c \in Callers, WaitFindsToken(c) PROVE HolderHasLock'
    BY <1>10, NoNewHolder DEF WaitFindsToken, TypeOK, CallerStates
  <1>11. ASSUME NEW c \in Callers, WaitTimeout(c) PROVE HolderHasLock'
    BY <1>11, NoNewHolder DEF WaitTimeout, TypeOK, CallerStates
  <1>12. ASSUME NEW c \in Callers, ClearBus(c) PROVE HolderHasLock'
    <2>1. CASE Raise(c)
      BY <1>12, <2>1, NoNewHolder DEF ClearBus, Raise, Client, NoClient, TypeOK
    <2>2. CASE Goto(c, "login")
      BY <1>12, <2>2, NoNewHolder DEF ClearBus, TypeOK, CallerStates
    <2> QED BY <1>12, <2>1, <2>2 DEF ClearBus
  <1>13. ASSUME NEW c \in Callers, Login(c) PROVE HolderHasLock'
    BY <1>13, NoNewHolder DEF Login, TypeOK, CallerStates
  <1>14. ASSUME NEW c \in Callers, LoginFails(c) PROVE HolderHasLock'
    BY <1>14, NoNewHolder DEF LoginFails, TypeOK, CallerStates
  <1>15. ASSUME NEW c \in Callers, MirrorLogin(c) PROVE HolderHasLock'
    BY <1>15, NoNewHolder DEF MirrorLogin, TypeOK, CallerStates
  <1>16. ASSUME NEW c \in Callers, Publish(c) PROVE HolderHasLock'
    BY <1>16, NoNewHolder DEF Publish, TypeOK, CallerStates
  <1>17. ASSUME NEW c \in Callers, Release(c) PROVE HolderHasLock'
    <2>1. ~caller'[c].holds /\ \A d \in Callers \ {c} : caller'[d] = caller[d]
      <3>1. CASE Raise(c)
        BY <3>1 DEF Raise, TypeOK, Client, NoClient
      <3>2. CASE Return(c, caller[c].got)
        BY <3>2 DEF Return, TypeOK, Client, NoClient
      <3> QED BY <1>17, <3>1, <3>2 DEF Release
    <2>2. CASE caller[c].holds
      <3>1. \A d \in Callers : ~caller'[d].holds
        BY <2>1, <2>2 DEF HolderHasLock, OneHolder
      <3> QED BY <3>1 DEF HolderHasLock, OneHolder
    <2>3. CASE ~caller[c].holds
      <3>1. UNCHANGED refreshLock
        BY <1>17, <2>3 DEF Release
      <3> QED BY <2>1, <3>1, NoNewHolder
    <2> QED BY <2>2, <2>3
  <1>18. ASSUME NEW c \in Callers, Send(c) PROVE HolderHasLock'
    BY <1>18, NoNewHolder DEF Send, TypeOK, CallerStates
  <1>19. ASSUME NEW c \in Callers, Answer(c) PROVE HolderHasLock'
    BY <1>19, NoNewHolder DEF Answer, TypeOK, CallerStates
  <1>20. ASSUME NEW c \in Callers, Unauthorized(c) PROVE HolderHasLock'
    BY <1>20, NoNewHolder DEF Unauthorized, TypeOK, CallerStates
  <1>21. ASSUME NEW c \in Callers, EvictFile(c) PROVE HolderHasLock'
    BY <1>21, NoNewHolder DEF EvictFile, TypeOK, CallerStates
  <1>22. ASSUME NEW c \in Callers, CompareBus(c) PROVE HolderHasLock'
    BY <1>22, NoNewHolder DEF CompareBus, TypeOK, CallerStates
  <1>23. ASSUME NEW c \in Callers, HealMirror(c) PROVE HolderHasLock'
    BY <1>23, NoNewHolder DEF HealMirror, TypeOK, CallerStates
  <1>24. ASSUME NEW c \in Callers, RetryAnswered(c) PROVE HolderHasLock'
    BY <1>24, NoNewHolder DEF RetryAnswered, TypeOK, CallerStates
  <1>25. ASSUME NEW c \in Callers, RetryFailed(c) PROVE HolderHasLock'
    BY <1>25, NoNewHolder DEF RetryFailed, TypeOK, CallerStates
  <1>26. ASSUME NEW c \in Callers, FinalRetry(c) PROVE HolderHasLock'
    BY <1>26, NoNewHolder DEF FinalRetry, TypeOK, CallerStates
  <1>27. CASE SessionExpires
    BY <1>27, NoNewHolder DEF SessionExpires
  <1>28. CASE BusForgets
    BY <1>28, NoNewHolder DEF BusForgets
  <1>29. CASE LockExpires
    BY <1>29 DEF LockExpires, PromptRedis, HolderHasLock, OneHolder
  <1>30. ASSUME NEW h \in Hosts, FileAges(h) PROVE HolderHasLock'
    BY <1>30, NoNewHolder DEF FileAges
  <1>31. ASSUME NEW h \in Hosts, Crash(h) PROVE HolderHasLock'
    BY <1>31, NoNewHolder DEF Crash, NoClient
  <1>32. CASE UNCHANGED vars
    BY <1>32, NoNewHolder DEF vars
  <1> QED
    BY <1>1, <1>2, <1>3, <1>4, <1>5, <1>6, <1>7, <1>8, <1>9, <1>10, <1>11, <1>12, <1>13, <1>14,
       <1>15, <1>16, <1>17, <1>18, <1>19, <1>20, <1>21, <1>22, <1>23, <1>24, <1>25, <1>26, <1>27,
       <1>28, <1>29, <1>30, <1>31, <1>32
    DEF Next, Step, Authenticate, Request, World

\* With a prompt login and a working Redis the refresh lock has one holder, and
\* only its holder releases it, through crashes, failed logins and hosts whose
\* variables are missing.
THEOREM OneRefreshHolder == PromptRedis => (Spec => []OneHolder)
  <1> SUFFICES ASSUME PromptRedis PROVE Spec => []OneHolder
    OBVIOUS
  <1>1. Init => TypeOK /\ HolderHasLock
    BY InitTyped, InitHolder
  <1>2. TypeOK /\ HolderHasLock /\ [Next]_vars => TypeOK' /\ HolderHasLock'
    BY StepTyped, StepHolder
  <1>3. HolderHasLock => OneHolder
    BY DEF HolderHasLock
  <1> QED BY <1>1, <1>2, <1>3, PTL DEF Spec

-----------------------------------------------------------------------------
(* Forced refreshes *)

\* Tokens that a thread in this state works with, and tokens it has to hand over.
Carrying == {"ready", "send", "evict", "compare", "heal", "retry", "final"}
Offering == {"fastmirror", "adopt", "mirror", "publish"}

Fine(s, n, l) ==
    /\ s.token <= n /\ s.got <= n
    /\ s.force \/ s.pc \in Carrying => s.token # NoToken
    /\ s.pc \in Offering => s.got # NoToken
    /\ s.pc \in {"evict", "compare"} => s.token # l

\* No token is newer than the last login, and who heals carries a token that was refused.
TokensKnown ==
    /\ live <= issued /\ bus <= issued
    /\ \A h \in Hosts : file[h].token <= issued
    /\ \A c \in Callers : Fine(caller[c], issued, live)

LEMMA InitKnown == Init => TokensKnown
  BY DEF Init, TokensKnown, Fine, Client, NoClient, NoFile, NoToken, Carrying, Offering

\* A thread's step between two logins.
LEMMA FineStep ==
  ASSUME TypeOK, TokensKnown, NEW c \in Callers, UNCHANGED brokerVars,
         \A d \in Callers \ {c} : caller'[d] = caller[d],
         Fine(caller'[c], issued, live),
         bus' <= issued,
         \A h \in Hosts : file'[h].token <= issued
  PROVE  TokensKnown'
  BY DEF TokensKnown, brokerVars

LEMMA SameFiles ==
  ASSUME TokensKnown, UNCHANGED file PROVE \A h \in Hosts : file'[h].token <= issued
  BY DEF TokensKnown

LEMMA SameBus ==
  ASSUME TokensKnown, UNCHANGED redisVars PROVE bus' <= issued
  BY DEF TokensKnown, redisVars

LEMMA MirroredFiles ==
  ASSUME TypeOK, TokensKnown, NEW k \in Hosts, NEW t \in Tokens, t <= issued,
         MirrorTokenLocally(k, t)
  PROVE  \A h \in Hosts : file'[h].token <= issued
  BY DEF TokensKnown, MirrorTokenLocally, TypeOK

\* What is read from the bus.
LEMMA BusKnown ==
  ASSUME TypeOK, TokensKnown, NEW t \in GetCentralizedToken
  PROVE  t \in Tokens /\ t <= issued
  BY DEF TypeOK, TokensKnown, GetCentralizedToken, Shaky, Tokens, NoToken

LEMMA ReturnFine ==
  ASSUME TypeOK, TokensKnown, NEW c \in Callers, NEW t \in Tokens,
         t # NoToken, t <= issued, Return(c, t)
  PROVE  /\ \A d \in Callers \ {c} : caller'[d] = caller[d]
         /\ Fine(caller'[c], issued, live)
  BY DEF Return, Become, TypeOK, Client, NoClient, Fine, Carrying, Offering, NoToken, Tokens

LEMMA RaiseFine ==
  ASSUME TypeOK, TokensKnown, NEW c \in Callers, Raise(c)
  PROVE  /\ \A d \in Callers \ {c} : caller'[d] = caller[d]
         /\ Fine(caller'[c], issued, live)
  <1>1. Fine(caller[c], issued, live) /\ caller[c] \in CallerStates /\ issued \in Nat
    BY DEF TokensKnown, TypeOK
  <1>2. Fine(NoClient, issued, live)
    BY <1>1 DEF Fine, NoClient, Carrying, Offering, NoToken
  <1>3. caller[c].force => Fine(Client(caller[c].token), issued, live)
    BY <1>1 DEF Fine, Client, NoClient, Carrying, Offering, NoToken
  <1> QED BY <1>2, <1>3 DEF Raise, Become, TypeOK

LEMMA StepKnown ==
  ASSUME TypeOK, TokensKnown, [Next]_vars PROVE TokensKnown'
  <1> USE DEF hostVars, Goto, Become
  <1>0. /\ issued \in Nat /\ live \in Nat
        /\ \A c \in Callers : /\ caller[c] \in CallerStates /\ HostOf[c] \in Hosts
                              /\ Fine(caller[c], issued, live)
        /\ \A h \in Hosts : file[h].token \in Tokens /\ file[h].token <= issued
    BY HostAssumption DEF TypeOK, TokensKnown, Tokens, Files
  <1>t. \A c \in Callers : /\ caller[c].token \in Nat /\ caller[c].got \in Nat
                           /\ caller[c].force \in BOOLEAN
    BY <1>0 DEF CallerStates, Tokens
  <1>1. ASSUME NEW c \in Callers, Boot(c) PROVE TokensKnown'
    <2>1. Fine(caller'[c], issued, live)
      BY <1>0, <1>1 DEF Boot, TypeOK, Fine, NoClient, NoToken, Carrying, Offering
    <2> QED BY <1>1, <2>1, FineStep, SameFiles, SameBus DEF Boot, TypeOK
  <1>2. ASSUME NEW c \in Callers, FastPath(c) PROVE TokensKnown'
    <2>1. PICK t \in GetCentralizedToken :
            Become(c, [caller[c] EXCEPT
                !.pc = IF t = NoToken THEN "filelock" ELSE "fastmirror", !.got = t])
      BY <1>2 DEF FastPath
    <2>2. Fine(caller'[c], issued, live)
      BY <1>0, <1>2, <2>1, BusKnown DEF FastPath, TypeOK, CallerStates, Fine, Carrying, Offering
    <2> QED BY <1>2, <2>1, <2>2, FineStep, SameFiles, SameBus DEF FastPath, TypeOK
  <1>3. ASSUME NEW c \in Callers, FastMirror(c) PROVE TokensKnown'
    <2>1. caller[c].got \in Tokens /\ caller[c].got # NoToken /\ caller[c].got <= issued
      BY <1>0, <1>t, <1>3 DEF FastMirror, Fine, Offering, Tokens
    <2> QED BY <1>0, <1>3, <2>1, FineStep, MirroredFiles, SameBus, ReturnFine DEF FastMirror
  <1>4. ASSUME NEW c \in Callers, AcquireFileLock(c) PROVE TokensKnown'
    <2>1. Fine(caller'[c], issued, live)
      BY <1>0, <1>4 DEF AcquireFileLock, TypeOK, CallerStates, Fine, Carrying, Offering
    <2> QED BY <1>4, <2>1, FineStep, SameFiles, SameBus DEF AcquireFileLock, TypeOK
  <1>5. ASSUME NEW c \in Callers, PostLock(c) PROVE TokensKnown'
    <2>1. PICK t \in GetCentralizedToken :
            Become(c, [caller[c] EXCEPT
                !.pc = IF t = NoToken THEN "readfile" ELSE "adopt", !.got = t])
      BY <1>5 DEF PostLock
    <2>2. Fine(caller'[c], issued, live)
      BY <1>0, <1>5, <2>1, BusKnown DEF PostLock, TypeOK, CallerStates, Fine, Carrying, Offering
    <2> QED BY <1>5, <2>1, <2>2, FineStep, SameFiles, SameBus DEF PostLock, TypeOK
  <1>6. ASSUME NEW c \in Callers, Adopt(c) PROVE TokensKnown'
    <2>1. caller[c].got \in Tokens /\ caller[c].got # NoToken /\ caller[c].got <= issued
      BY <1>0, <1>t, <1>6 DEF Adopt, Fine, Offering, Tokens
    <2> QED BY <1>0, <1>6, <2>1, FineStep, MirroredFiles, SameBus, ReturnFine DEF Adopt
  <1>7. ASSUME NEW c \in Callers, ReadLocal(c) PROVE TokensKnown'
    <2>1. Fine(caller'[c], issued, live)
      BY <1>0, <1>7 DEF ReadLocal, LocalUsable, TypeOK, CallerStates, Fine, Carrying, Offering
    <2> QED BY <1>7, <2>1, FineStep, SameFiles, SameBus DEF ReadLocal, TypeOK
  <1>8. ASSUME NEW c \in Callers, ReadStale(c) PROVE TokensKnown'
    <2>1. Fine(caller'[c], issued, live)
      BY <1>0, <1>8 DEF ReadStale, TypeOK, CallerStates, Fine, Carrying, Offering
    <2> QED BY <1>8, <2>1, FineStep, SameFiles, SameBus DEF ReadStale, TypeOK
  <1>9. ASSUME NEW c \in Callers, AcquireRefreshLock(c) PROVE TokensKnown'
    <2>1. /\ \A d \in Callers \ {c} : caller'[d] = caller[d]
          /\ Fine(caller'[c], issued, live)
      <3>1. caller[c].pc = "acquire"
        BY <1>9 DEF AcquireRefreshLock
      <3>2. CASE Become(c, [caller[c] EXCEPT !.pc = "clear", !.holds = TRUE])
        BY <1>0, <3>1, <3>2 DEF TypeOK, CallerStates, Fine, Carrying, Offering
      <3>3. CASE Goto(c, "wait")
        BY <1>0, <3>1, <3>3 DEF TypeOK, CallerStates, Fine, Carrying, Offering
      <3> QED BY <1>9, <3>2, <3>3 DEF AcquireRefreshLock
    <2>2. bus' <= issued
      BY <1>9 DEF AcquireRefreshLock, TokensKnown
    <2> QED BY <1>9, <2>1, <2>2, FineStep, SameFiles DEF AcquireRefreshLock
  <1>10. ASSUME NEW c \in Callers, WaitFindsToken(c) PROVE TokensKnown'
    <2>1. Fine(caller'[c], issued, live)
      BY <1>0, <1>10 DEF WaitFindsToken, TokensKnown, TypeOK, CallerStates, Fine, Carrying, Offering
    <2> QED BY <1>10, <2>1, FineStep, SameFiles, SameBus DEF WaitFindsToken, TypeOK
  <1>11. ASSUME NEW c \in Callers, WaitTimeout(c) PROVE TokensKnown'
    <2>1. Fine(caller'[c], issued, live)
      BY <1>0, <1>11 DEF WaitTimeout, TypeOK, CallerStates, Fine, Carrying, Offering
    <2> QED BY <1>11, <2>1, FineStep, SameFiles, SameBus DEF WaitTimeout, TypeOK
  <1>12. ASSUME NEW c \in Callers, ClearBus(c) PROVE TokensKnown'
    <2>1. bus' <= issued
      BY <1>0, <1>12 DEF ClearBus, TokensKnown, Shaky, NoToken
    <2>2. /\ \A d \in Callers \ {c} : caller'[d] = caller[d]
          /\ Fine(caller'[c], issued, live)
      <3>1. CASE Raise(c)
        BY <3>1, RaiseFine
      <3>2. CASE Goto(c, "login")
        BY <1>0, <1>12, <3>2 DEF ClearBus, TypeOK, CallerStates, Fine, Carrying, Offering
      <3> QED BY <1>12, <3>1, <3>2 DEF ClearBus
    <2> QED BY <1>12, <2>1, <2>2, FineStep, SameFiles DEF ClearBus
  <1>13. ASSUME NEW c \in Callers, Login(c) PROVE TokensKnown'
    <2>1. issued' = issued + 1 /\ live' = issued + 1 /\ bus' = bus /\ file' = file
      BY <1>13 DEF Login, redisVars
    <2>2. ASSUME NEW s, Fine(s, issued, live), s.token \in Nat, s.got \in Nat
          PROVE  Fine(s, issued + 1, issued + 1)
      BY <1>0, <2>2 DEF Fine
    <2>3. \A d \in Callers \ {c} : caller'[d] = caller[d]
      BY <1>13 DEF Login, TypeOK
    <2>4. Fine(caller'[c], issued + 1, issued + 1)
      <3>1. caller[c].pc = "login" /\ Fine(caller[c], issued, live)
        BY <1>0, <1>13 DEF Login
      <3>2. CASE Become(c, [caller[c] EXCEPT !.pc = "mirror", !.got = issued + 1])
        BY <1>0, <1>t, <3>1, <3>2 DEF TypeOK, CallerStates, Fine, Carrying, Offering, NoToken
      <3>3. CASE Goto(c, "release")
        BY <1>0, <1>t, <3>1, <3>3 DEF TypeOK, CallerStates, Fine, Carrying, Offering, NoToken
      <3> QED BY <1>13, <3>2, <3>3 DEF Login
    <2>5. \A d \in Callers : Fine(caller'[d], issued', live')
      BY <1>0, <1>t, <2>1, <2>2, <2>3, <2>4
    <2>6. live' <= issued' /\ bus' <= issued' /\ \A h \in Hosts : file'[h].token <= issued'
      BY <1>0, <2>1 DEF TokensKnown, TypeOK, Tokens
    <2> QED BY <2>5, <2>6 DEF TokensKnown
  <1>14. ASSUME NEW c \in Callers, LoginFails(c) PROVE TokensKnown'
    <2>1. Fine(caller'[c], issued, live)
      BY <1>0, <1>14 DEF LoginFails, TypeOK, CallerStates, Fine, Carrying, Offering
    <2> QED BY <1>14, <2>1, FineStep, SameFiles, SameBus DEF LoginFails, TypeOK
  <1>15. ASSUME NEW c \in Callers, MirrorLogin(c) PROVE TokensKnown'
    <2>1. caller[c].got \in Tokens /\ caller[c].got <= issued
      BY <1>0, <1>t DEF Fine, Tokens
    <2>2. Fine(caller'[c], issued, live)
      BY <1>0, <1>15 DEF MirrorLogin, TypeOK, CallerStates, Fine, Carrying, Offering
    <2> QED BY <1>0, <1>15, <2>1, <2>2, FineStep, MirroredFiles, SameBus DEF MirrorLogin, TypeOK
  <1>16. ASSUME NEW c \in Callers, Publish(c) PROVE TokensKnown'
    <2>1. bus' <= issued
      BY <1>0, <1>16 DEF Publish, Shaky, TokensKnown, Fine
    <2>2. Fine(caller'[c], issued, live)
      BY <1>0, <1>16 DEF Publish, TypeOK, CallerStates, Fine, Carrying, Offering
    <2> QED BY <1>16, <2>1, <2>2, FineStep, SameFiles DEF Publish, TypeOK
  <1>17. ASSUME NEW c \in Callers, Release(c) PROVE TokensKnown'
    <2>1. /\ \A d \in Callers \ {c} : caller'[d] = caller[d]
          /\ Fine(caller'[c], issued, live)
      <3>1. CASE Raise(c)
        BY <3>1, RaiseFine
      <3>2. CASE caller[c].got # NoToken /\ Return(c, caller[c].got)
        BY <1>0, <1>t, <3>2, ReturnFine DEF Fine, Tokens
      <3> QED BY <1>17, <3>1, <3>2 DEF Release
    <2>2. bus' <= issued
      BY <1>17 DEF Release, TokensKnown
    <2> QED BY <1>17, <2>1, <2>2, FineStep, SameFiles DEF Release
  <1>18. ASSUME NEW c \in Callers, Send(c) PROVE TokensKnown'
    <2>1. Fine(caller'[c], issued, live)
      BY <1>0, <1>18 DEF Send, TypeOK, CallerStates, Fine, Carrying, Offering
    <2> QED BY <1>18, <2>1, FineStep, SameFiles, SameBus DEF Send, TypeOK
  <1>19. ASSUME NEW c \in Callers,
                \/ Answer(c) \/ RetryAnswered(c) \/ FinalRetry(c)
         PROVE  TokensKnown'
    <2>1. /\ caller[c].pc \in Carrying /\ Goto(c, "ready")
          /\ UNCHANGED <<brokerVars, redisVars, file>>
      BY <1>19 DEF Answer, RetryAnswered, FinalRetry, Carrying
    <2>2. Fine(caller'[c], issued, live)
      BY <1>0, <2>1 DEF TypeOK, CallerStates, Fine, Carrying, Offering
    <2> QED BY <2>1, <2>2, FineStep, SameFiles, SameBus DEF TypeOK
  <1>20. ASSUME NEW c \in Callers, Unauthorized(c) PROVE TokensKnown'
    <2>1. Fine(caller'[c], issued, live)
      BY <1>0, <1>20 DEF Unauthorized, TypeOK, CallerStates, Fine, Carrying, Offering
    <2> QED BY <1>20, <2>1, FineStep, SameFiles, SameBus DEF Unauthorized, TypeOK
  <1>21. ASSUME NEW c \in Callers, EvictFile(c) PROVE TokensKnown'
    <2>1. Fine(caller'[c], issued, live)
      BY <1>0, <1>21 DEF EvictFile, TypeOK, CallerStates, Fine, Carrying, Offering
    <2>2. \A h \in Hosts : file'[h].token <= issued
      BY <1>0, <1>21 DEF EvictFile, TypeOK, NoFile, NoToken
    <2> QED BY <1>21, <2>1, <2>2, FineStep, SameBus DEF EvictFile, TypeOK
  <1>22. ASSUME NEW c \in Callers, CompareBus(c) PROVE TokensKnown'
    <2>1. PICK t \in GetCentralizedToken :
            Become(c, IF t \notin {NoToken, caller[c].token}
                      THEN [caller[c] EXCEPT !.pc = "heal", !.token = t]
                      ELSE [caller[c] EXCEPT !.pc = "filelock", !.force = TRUE])
      BY <1>22 DEF CompareBus
    <2>2. Fine(caller'[c], issued, live)
      BY <1>0, <1>22, <2>1, BusKnown DEF CompareBus, TypeOK, CallerStates, Fine, Carrying, Offering
    <2> QED BY <1>22, <2>1, <2>2, FineStep, SameFiles, SameBus DEF CompareBus, TypeOK
  <1>23. ASSUME NEW c \in Callers, HealMirror(c) PROVE TokensKnown'
    <2>1. caller[c].token \in Tokens /\ caller[c].token <= issued
      BY <1>0, <1>t DEF Fine, Tokens
    <2>2. Fine(caller'[c], issued, live)
      BY <1>0, <1>23 DEF HealMirror, TypeOK, CallerStates, Fine, Carrying, Offering
    <2> QED BY <1>0, <1>23, <2>1, <2>2, FineStep, MirroredFiles, SameBus DEF HealMirror, TypeOK
  <1>24. ASSUME NEW c \in Callers, RetryFailed(c) PROVE TokensKnown'
    <2>1. Fine(caller'[c], issued, live)
      BY <1>0, <1>24 DEF RetryFailed, TypeOK, CallerStates, Fine, Carrying, Offering
    <2> QED BY <1>24, <2>1, FineStep, SameFiles, SameBus DEF RetryFailed, TypeOK
  <1>25. CASE SessionExpires
    <2>1. live' = NoToken /\ UNCHANGED <<issued, bus, file, caller>>
      BY <1>25 DEF SessionExpires, redisVars
    <2>2. \A c \in Callers : Fine(caller[c], issued, NoToken)
      BY <1>0 DEF Fine, Carrying
    <2> QED BY <1>0, <2>1, <2>2 DEF TokensKnown, NoToken
  <1>26. CASE BusForgets
    BY <1>0, <1>26 DEF BusForgets, brokerVars, TokensKnown, NoToken
  <1>27. CASE LockExpires
    BY <1>27 DEF LockExpires, brokerVars, TokensKnown
  <1>28. ASSUME NEW h \in Hosts, FileAges(h) PROVE TokensKnown'
    <2>1. \A k \in Hosts : file'[k].token = file[k].token
      BY <1>28 DEF FileAges, TypeOK, Files
    <2> QED BY <1>28, <2>1 DEF FileAges, brokerVars, redisVars, TokensKnown
  <1>29. ASSUME NEW h \in Hosts, Crash(h) PROVE TokensKnown'
    <2>1. Fine(NoClient, issued, live)
      BY <1>0 DEF Fine, NoClient, NoToken, Carrying, Offering
    <2> QED BY <1>29, <2>1 DEF Crash, brokerVars, redisVars, TokensKnown
  <1>30. CASE UNCHANGED vars
    BY <1>30 DEF vars, TokensKnown
  <1> QED
    BY <1>1, <1>2, <1>3, <1>4, <1>5, <1>6, <1>7, <1>8, <1>9, <1>10, <1>11, <1>12, <1>13, <1>14,
       <1>15, <1>16, <1>17, <1>18, <1>19, <1>20, <1>21, <1>22, <1>23, <1>24, <1>25, <1>26, <1>27,
       <1>28, <1>29, <1>30
    DEF Next, Step, Authenticate, Request, World

\* Every answer is the API's own, and every Redis command is carried out.
PlainAnswers == Faults \cap {"server_error", "redis_error"} = {}

LEMMA NotForcing ==
  ASSUME TypeOK, NEW c \in Callers, NEW d \in Callers,
         Boot(c) \/ Send(c) \/ Authenticate(c) \/ (Request(c) /\ ~CompareBus(c) /\ ~RetryFailed(c))
  PROVE  caller'[d].force => caller[d].force
  <1> USE DEF Goto, Become
  <1>0. caller[c] \in CallerStates /\ caller[d] \in CallerStates
    BY DEF TypeOK
  <1>1. ASSUME NEW t, Return(c, t) PROVE caller'[d].force => caller[d].force
    BY <1>1 DEF Return, Client, NoClient, TypeOK
  <1>2. ASSUME Raise(c) PROVE caller'[d].force => caller[d].force
    BY <1>2 DEF Raise, Client, NoClient, TypeOK
  <1>3. CASE Boot(c)
    BY <1>3 DEF Boot, NoClient, TypeOK
  <1>4. CASE \/ FastMirror(c) \/ Adopt(c) \/ Release(c) \/ (ClearBus(c) /\ Raise(c))
    BY <1>1, <1>2, <1>4 DEF FastMirror, Adopt, Release
  <1>5. ASSUME NEW pc, Goto(c, pc) PROVE caller'[d].force => caller[d].force
    BY <1>0, <1>5 DEF TypeOK, CallerStates
  <1>6. CASE \/ Send(c) \/ AcquireFileLock(c) \/ WaitTimeout(c) \/ LoginFails(c)
             \/ MirrorLogin(c) \/ Publish(c) \/ (ClearBus(c) /\ ~Raise(c))
    BY <1>5, <1>6, Zenon DEF Send, AcquireFileLock, WaitTimeout, LoginFails, MirrorLogin, Publish,
                      ClearBus
  <1>7. CASE \/ Answer(c) \/ Unauthorized(c) \/ EvictFile(c) \/ HealMirror(c)
             \/ RetryAnswered(c) \/ FinalRetry(c)
    BY <1>5, <1>7, Zenon DEF Answer, Unauthorized, EvictFile, HealMirror, RetryAnswered, FinalRetry
  <1>8. ASSUME NEW s, Become(c, s), s.force = caller[c].force
        PROVE  caller'[d].force => caller[d].force
    BY <1>8 DEF TypeOK
  <1>f. /\ \A pc, t : [caller[c] EXCEPT !.pc = pc, !.got = t].force = caller[c].force
        /\ \A pc, t : [caller[c] EXCEPT !.pc = pc, !.stale = t].force = caller[c].force
        /\ \A pc : [caller[c] EXCEPT !.pc = pc].force = caller[c].force
    BY <1>0 DEF CallerStates
  <1>9. CASE FastPath(c) \/ PostLock(c) \/ ReadStale(c) \/ ReadLocal(c) \/ WaitFindsToken(c)
    <2>1. CASE FastPath(c)
      BY <1>8, <1>f, <2>1 DEF FastPath
    <2>2. CASE PostLock(c)
      BY <1>8, <1>f, <2>2 DEF PostLock
    <2>3. CASE ReadStale(c)
      BY <1>8, <1>f, <2>3 DEF ReadStale
    <2>4. CASE ReadLocal(c)
      BY <1>8, <1>f, <2>4 DEF ReadLocal
    <2>5. CASE WaitFindsToken(c)
      BY <1>8, <1>f, <2>5 DEF WaitFindsToken
    <2> QED BY <1>9, <2>1, <2>2, <2>3, <2>4, <2>5
  <1>10. CASE AcquireRefreshLock(c)
    <2>1. \/ Become(c, [caller[c] EXCEPT !.pc = "clear", !.holds = TRUE])
          \/ Goto(c, "wait")
      BY <1>10 DEF AcquireRefreshLock
    <2>2. CASE Become(c, [caller[c] EXCEPT !.pc = "clear", !.holds = TRUE])
      BY <1>0, <2>2 DEF TypeOK, CallerStates
    <2> QED BY <1>5, <2>1, <2>2
  <1>11. CASE Login(c)
    <2>1. \/ Become(c, [caller[c] EXCEPT !.pc = "mirror", !.got = issued + 1])
          \/ Goto(c, "release")
      BY <1>11 DEF Login
    <2>2. CASE Become(c, [caller[c] EXCEPT !.pc = "mirror", !.got = issued + 1])
      BY <1>0, <2>2 DEF TypeOK, CallerStates
    <2> QED BY <1>5, <2>1, <2>2
  <1> QED BY <1>3, <1>4, <1>6, <1>7, <1>9, <1>10, <1>11 DEF Authenticate, Request

LEMMA ForcedStep ==
  ASSUME PlainAnswers, TypeOK, TokensKnown, [Next]_vars, NEW c \in Callers,
         caller'[c].force, ~caller[c].force
  PROVE  /\ caller[c].token # live
         /\ caller[c].pc = "compare" => bus = NoToken \/ bus # live
  <1>1. PICK d \in Callers : CompareBus(d) \/ RetryFailed(d)
    <2>1. ~World /\ ~UNCHANGED vars
      BY DEF World, SessionExpires, BusForgets, LockExpires, FileAges, Crash, vars, NoClient
    <2> QED BY <2>1, NotForcing DEF Next, Step
  <1>2. c = d
    <2>1. caller'[c] = caller[c] \/ c = d
      BY <1>1 DEF CompareBus, RetryFailed, Become, TypeOK
    <2> QED BY <2>1
  <1>3. CASE RetryFailed(c)
    BY <1>3 DEF RetryFailed, PlainAnswers
  <1>4. CASE CompareBus(c)
    <2>1. caller[c].pc = "compare" /\ caller[c].token # live
      BY <1>4 DEF CompareBus, TokensKnown, Fine
    <2>2. GetCentralizedToken = {bus}
      BY DEF GetCentralizedToken, Shaky, PlainAnswers
    <2>3. Become(c, IF bus \notin {NoToken, caller[c].token}
                    THEN [caller[c] EXCEPT !.pc = "heal", !.token = bus]
                    ELSE [caller[c] EXCEPT !.pc = "filelock", !.force = TRUE])
      BY <1>4, <2>2 DEF CompareBus
    <2>4. bus \in {NoToken, caller[c].token}
      BY <2>3 DEF Become, TypeOK, CallerStates
    <2> QED BY <2>1, <2>4
  <1> QED BY <1>1, <1>2, <1>3, <1>4

\* While the API answers 401 or with what was asked, and Redis answers, a thread of any
\* bot that forces a login has a dead token in its hand and has found nothing better.
THEOREM ForcedWhenBusDead == PlainAnswers => (Spec => ForcedOnlyWhenBusDead)
  <1> SUFFICES ASSUME PlainAnswers PROVE Spec => ForcedOnlyWhenBusDead
    OBVIOUS
  <1>1. Init => TypeOK /\ TokensKnown
    BY InitTyped, InitKnown
  <1>2. TypeOK /\ TokensKnown /\ [Next]_vars => TypeOK' /\ TokensKnown'
    BY StepTyped, StepKnown
  <1>3. TypeOK /\ TokensKnown /\ [Next]_vars =>
          [\A c \in Callers :
            caller'[c].force /\ ~caller[c].force =>
                /\ caller[c].token # live
                /\ caller[c].pc = "compare" => bus = NoToken \/ bus # live]_vars
    BY ForcedStep
  <1> QED BY <1>1, <1>2, <1>3, PTL DEF Spec, ForcedOnlyWhenBusDead

-----------------------------------------------------------------------------
(* The bus settles *)

\* All threads share one file and its lock.
OneBot == \A c, d \in Callers : HostOf[c] = HostOf[d]

\* Nobody dies, no login fails and Redis answers.
LoginsPublished == Faults \subseteq {"slow_login", "server_error"}

\* Who is between a login, or the reading of a usable local token, and its publication.
Delivering(s) == s.pc \in {"mirror", "publish"}

\* The last login is on its way to the file and to the bus, or has arrived.
LastDelivered ==
    /\ \A c \in Callers : Delivering(caller[c]) => caller[c].got = issued
    /\ \A c \in Callers : LET f == file[HostOf[c]] IN
        f.age # "old" /\ f.token # NoToken =>
            f.token = issued \/ \E d \in Callers : caller[d].pc = "mirror"
    /\ bus \in {NoToken, issued} \/ \E c \in Callers : Delivering(caller[c])

LEMMA InitDelivered == Init => LastDelivered
  BY HostAssumption DEF Init, LastDelivered, Delivering, Client, NoClient, NoFile, NoToken

\* Inside the locked part a thread of the bot is alone.
LEMMA AloneInside ==
  ASSUME OneBot, TypeOK, FileLockExact, NEW c \in Callers, caller[c].pc \in LockedPcs,
         NEW d \in Callers, d # c
  PROVE  caller[d].pc \notin LockedPcs
  BY HostAssumption DEF OneBot, FileLockExact

\* A step of a thread that delivers nothing, of a file that forgets or gets the
\* last token, and of a bus that is emptied at most.
LEMMA QuietStep ==
  ASSUME LastDelivered, issued' = issued, bus' \in {bus, NoToken},
         \A c \in Callers :
            \/ caller'[c] = caller[c]
            \/ ~Delivering(caller[c]) /\ ~Delivering(caller'[c]),
         \A c \in Callers :
            \/ file'[HostOf[c]] = file[HostOf[c]]
            \/ file'[HostOf[c]].token \in {NoToken, issued}
  PROVE  LastDelivered'
  <1>1. \A c \in Callers : Delivering(caller[c]) => caller'[c] = caller[c]
    OBVIOUS
  <1>2. \A c \in Callers : Delivering(caller'[c]) => caller'[c] = caller[c]
    OBVIOUS
  <1>3. \A d \in Callers : caller[d].pc = "mirror" => caller'[d].pc = "mirror"
    BY <1>1 DEF Delivering
  <1> QED BY <1>1, <1>2, <1>3 DEF LastDelivered

\* A token that is mirrored is the last one, or is there already.
LEMMA MirroredLast ==
  ASSUME TypeOK, NEW k \in Hosts, NEW t, MirrorTokenLocally(k, t), CurrentMirror, NEW c \in Callers
  PROVE  \/ file'[HostOf[c]] = file[HostOf[c]]
         \/ file'[HostOf[c]].token = issued
  BY HostAssumption DEF MirrorTokenLocally, CurrentMirror, TypeOK

LEMMA StepDelivered ==
  ASSUME OneBot, LoginsPublished, TypeOK, FileLockExact, LastDelivered,
         [Next /\ CurrentMirror]_vars
  PROVE  LastDelivered'
  <1>0. \A c \in Callers : caller[c] \in CallerStates /\ HostOf[c] \in Hosts
    BY HostAssumption DEF TypeOK
  <1>q. ASSUME NEW c \in Callers, NEW s, Become(c, s), issued' = issued, bus' \in {bus, NoToken},
               caller[c].pc \notin {"mirror", "publish"}, s.pc \notin {"mirror", "publish"},
               \A d \in Callers : \/ file'[HostOf[d]] = file[HostOf[d]]
                                  \/ file'[HostOf[d]].token \in {NoToken, issued}
        PROVE  LastDelivered'
    <2>1. \A d \in Callers : \/ caller'[d] = caller[d]
                             \/ ~Delivering(caller[d]) /\ ~Delivering(caller'[d])
      BY <1>q DEF Become, TypeOK, Delivering
    <2> QED BY <1>q, <2>1, QuietStep
  <1>g. ASSUME NEW c \in Callers, NEW pc, Goto(c, pc), issued' = issued, bus' \in {bus, NoToken},
               caller[c].pc \notin {"mirror", "publish"}, pc \notin {"mirror", "publish"},
               \A d \in Callers : \/ file'[HostOf[d]] = file[HostOf[d]]
                                  \/ file'[HostOf[d]].token \in {NoToken, issued}
        PROVE  LastDelivered'
    <2>1. [caller[c] EXCEPT !.pc = pc].pc = pc
      BY <1>0 DEF CallerStates
    <2> QED BY <1>g, <1>q, <2>1 DEF Goto
  <1>r. ASSUME NEW c \in Callers, NEW t, Return(c, t), issued' = issued, bus' \in {bus, NoToken},
               caller[c].pc \notin {"mirror", "publish"},
               \A d \in Callers : \/ file'[HostOf[d]] = file[HostOf[d]]
                                  \/ file'[HostOf[d]].token \in {NoToken, issued}
        PROVE  LastDelivered'
    <2>1. [Client(t) EXCEPT !.pc = IF caller[c].force THEN "final" ELSE "ready"].pc
            \in {"final", "ready"}
      BY DEF Client, NoClient
    <2> QED BY <1>r, <1>q, <2>1 DEF Return
  <1>x. ASSUME NEW c \in Callers, Raise(c), issued' = issued, bus' \in {bus, NoToken},
               caller[c].pc \notin {"mirror", "publish"}, UNCHANGED file
        PROVE  LastDelivered'
    <2>1. (IF caller[c].force THEN Client(caller[c].token) ELSE NoClient).pc \in {"idle", "ready"}
      BY DEF Client, NoClient
    <2> QED BY <1>x, <1>q, <2>1 DEF Raise
  <1>o. ASSUME NEW c \in Callers, \A d \in Callers \ {c} : caller'[d] = caller[d],
               caller[c].pc \notin {"mirror", "publish"},
               caller'[c].pc \notin {"mirror", "publish"},
               UNCHANGED <<issued, bus, file>>
        PROVE  LastDelivered'
    BY <1>o, QuietStep DEF Delivering
  <1>1. ASSUME NEW c \in Callers, Boot(c) PROVE LastDelivered'
    BY <1>1, <1>q DEF Boot, NoClient, brokerVars, redisVars, hostVars
  <1>2. ASSUME NEW c \in Callers, FastPath(c) PROVE LastDelivered'
    <2>1. /\ caller[c].pc \notin {"mirror", "publish"} /\ UNCHANGED <<issued, bus, file>>
          /\ \A e \in Callers \ {c} : caller'[e] = caller[e]
          /\ caller'[c].pc \notin {"mirror", "publish"}
      BY <1>0, <1>2 DEF FastPath, Become, TypeOK, CallerStates, brokerVars, redisVars, hostVars
    <2> QED BY <1>o, <2>1
  <1>3. ASSUME NEW c \in Callers, FastMirror(c), CurrentMirror PROVE LastDelivered'
    BY <1>0, <1>3, <1>r, MirroredLast DEF FastMirror, brokerVars, redisVars
  <1>4. ASSUME NEW c \in Callers, AcquireFileLock(c) PROVE LastDelivered'
    BY <1>4, <1>g DEF AcquireFileLock, brokerVars, redisVars
  <1>5. ASSUME NEW c \in Callers, PostLock(c) PROVE LastDelivered'
    <2>1. /\ caller[c].pc \notin {"mirror", "publish"} /\ UNCHANGED <<issued, bus, file>>
          /\ \A e \in Callers \ {c} : caller'[e] = caller[e]
          /\ caller'[c].pc \notin {"mirror", "publish"}
      BY <1>0, <1>5 DEF PostLock, Become, TypeOK, CallerStates, brokerVars, redisVars, hostVars
    <2> QED BY <1>o, <2>1
  <1>6. ASSUME NEW c \in Callers, Adopt(c), CurrentMirror PROVE LastDelivered'
    BY <1>0, <1>6, <1>r, MirroredLast DEF Adopt, brokerVars, redisVars
  <1>7. ASSUME NEW c \in Callers, ReadLocal(c) PROVE LastDelivered'
    <2>1. caller[c].pc = "readfile" /\ UNCHANGED <<issued, bus, file>>
      BY <1>7 DEF ReadLocal, brokerVars, redisVars, hostVars
    <2>2. CASE ~LocalUsable(c)
      <3>1. caller'[c].pc = "stale" /\ \A d \in Callers \ {c} : caller'[d] = caller[d]
        BY <1>0, <1>7, <2>2 DEF ReadLocal, Become, TypeOK, CallerStates
      <3> QED BY <1>o, <2>1, <3>1
    <2>3. CASE LocalUsable(c)
      <3>1. \A d \in Callers : ~Delivering(caller[d])
        BY <2>1, AloneInside DEF Delivering, LockedPcs
      <3>2. file[HostOf[c]].token = issued
        BY <2>3, <3>1 DEF LocalUsable, LastDelivered, Delivering
      <3>3. /\ \A d \in Callers \ {c} : caller'[d] = caller[d]
            /\ caller'[c].pc = "publish" /\ caller'[c].got = issued
        BY <1>0, <1>7, <2>3, <3>2 DEF ReadLocal, Become, TypeOK, CallerStates
      <3> QED BY <2>1, <3>1, <3>3 DEF LastDelivered, Delivering
    <2> QED BY <2>2, <2>3
  <1>8. ASSUME NEW c \in Callers, ReadStale(c) PROVE LastDelivered'
    <2>1. /\ caller[c].pc \notin {"mirror", "publish"} /\ UNCHANGED <<issued, bus, file>>
          /\ \A e \in Callers \ {c} : caller'[e] = caller[e]
          /\ caller'[c].pc \notin {"mirror", "publish"}
      BY <1>0, <1>8 DEF ReadStale, Become, TypeOK, CallerStates, brokerVars, redisVars, hostVars
    <2> QED BY <1>o, <2>1
  <1>9. ASSUME NEW c \in Callers, AcquireRefreshLock(c) PROVE LastDelivered'
    <2>1. caller[c].pc = "acquire" /\ UNCHANGED <<issued, bus, file>>
      BY <1>9 DEF AcquireRefreshLock, brokerVars, hostVars
    <2>2. \/ Become(c, [caller[c] EXCEPT !.pc = "clear", !.holds = TRUE]) \/ Goto(c, "wait")
      BY <1>9 DEF AcquireRefreshLock
    <2>3. CASE Goto(c, "wait")
      BY <1>g, <2>1, <2>3
    <2>4. CASE Become(c, [caller[c] EXCEPT !.pc = "clear", !.holds = TRUE])
      <3>1. caller'[c].pc = "clear" /\ \A d \in Callers \ {c} : caller'[d] = caller[d]
        BY <1>0, <2>4 DEF Become, TypeOK, CallerStates
      <3> QED BY <1>o, <2>1, <3>1
    <2> QED BY <2>2, <2>3, <2>4
  <1>10. ASSUME NEW c \in Callers, WaitFindsToken(c) PROVE LastDelivered'
    <2>1. /\ caller[c].pc \notin {"mirror", "publish"} /\ UNCHANGED <<issued, bus, file>>
          /\ \A e \in Callers \ {c} : caller'[e] = caller[e]
          /\ caller'[c].pc \notin {"mirror", "publish"}
      BY <1>0, <1>10
      DEF WaitFindsToken, Become, TypeOK, CallerStates, brokerVars, redisVars, hostVars
    <2> QED BY <1>o, <2>1
  <1>11. ASSUME NEW c \in Callers, WaitTimeout(c) PROVE LastDelivered'
    BY <1>11, <1>g DEF WaitTimeout, brokerVars, redisVars, hostVars
  <1>12. ASSUME NEW c \in Callers, ClearBus(c) PROVE LastDelivered'
    <2>1. /\ caller[c].pc = "clear" /\ UNCHANGED <<issued, file>>
          /\ bus' \in {bus, NoToken}
          /\ Raise(c) \/ Goto(c, "login")
      BY <1>12 DEF ClearBus, brokerVars, Shaky
    <2> QED BY <1>g, <1>x, <2>1
  <1>13. ASSUME NEW c \in Callers, Login(c) PROVE LastDelivered'
    <2>1. /\ caller[c].pc = "login" /\ issued' = issued + 1
          /\ Become(c, [caller[c] EXCEPT !.pc = "mirror", !.got = issued + 1])
      BY <1>13 DEF Login, LoginsPublished
    <2>2. /\ \A d \in Callers \ {c} : caller'[d] = caller[d] /\ ~Delivering(caller[d])
          /\ caller'[c].pc = "mirror" /\ caller'[c].got = issued'
      BY <1>0, <2>1, AloneInside DEF Become, Delivering, LockedPcs, TypeOK, CallerStates
    <2> QED BY <2>2 DEF LastDelivered, Delivering
  <1>14. ASSUME NEW c \in Callers, LoginFails(c) PROVE LastDelivered'
    BY <1>14 DEF LoginFails, LoginsPublished
  <1>15. ASSUME NEW c \in Callers, MirrorLogin(c) PROVE LastDelivered'
    <2>1. /\ caller[c].pc = "mirror" /\ caller[c].got = issued
          /\ UNCHANGED <<issued, bus>>
      BY <1>15 DEF MirrorLogin, LastDelivered, Delivering, brokerVars, redisVars
    <2>2. /\ \A d \in Callers \ {c} : caller'[d] = caller[d]
          /\ caller'[c].pc = "publish" /\ caller'[c].got = issued
      BY <1>0, <1>15, <2>1 DEF MirrorLogin, Goto, Become, CallerStates, TypeOK
    <2>3. \A d \in Callers : file'[HostOf[d]].token = issued
      BY <1>0, <1>15, <2>1 DEF MirrorLogin, MirrorTokenLocally, OneBot, TypeOK
    <2> QED BY <2>1, <2>2, <2>3 DEF LastDelivered, Delivering
  <1>16. ASSUME NEW c \in Callers, Publish(c) PROVE LastDelivered'
    <2>1. /\ caller[c].pc = "publish" /\ caller[c].got = issued
          /\ UNCHANGED <<issued, file>>
      BY <1>16 DEF Publish, LastDelivered, Delivering, brokerVars, hostVars
    <2>2. bus' = issued
      BY <1>16, <2>1 DEF Publish, Shaky, LoginsPublished
    <2>3. /\ \A d \in Callers \ {c} : caller'[d] = caller[d]
          /\ caller'[c].pc = "release"
      BY <1>0, <1>16 DEF Publish, Goto, Become, CallerStates, TypeOK
    <2>4. \A d \in Callers : caller[d].pc = "mirror" => caller'[d].pc = "mirror"
      BY <2>1, <2>3
    <2> QED BY <2>1, <2>2, <2>3, <2>4 DEF LastDelivered, Delivering
  <1>17. ASSUME NEW c \in Callers, Release(c) PROVE LastDelivered'
    <2>1. /\ caller[c].pc = "release" /\ UNCHANGED <<issued, bus, file>>
          /\ Raise(c) \/ Return(c, caller[c].got)
      BY <1>17 DEF Release, brokerVars
    <2> QED BY <1>r, <1>x, <2>1
  <1>18. ASSUME NEW c \in Callers, Send(c) PROVE LastDelivered'
    BY <1>18, <1>g DEF Send, brokerVars, redisVars, hostVars
  <1>19. ASSUME NEW c \in Callers, Answer(c) \/ RetryAnswered(c) \/ FinalRetry(c)
         PROVE  LastDelivered'
    <2>1. /\ caller[c].pc \in {"send", "retry", "final"} /\ Goto(c, "ready")
          /\ UNCHANGED <<issued, bus, file>>
      BY <1>19 DEF Answer, RetryAnswered, FinalRetry, brokerVars, redisVars, hostVars
    <2> QED BY <1>g, <2>1
  <1>20. ASSUME NEW c \in Callers, Unauthorized(c) PROVE LastDelivered'
    BY <1>20, <1>g DEF Unauthorized, brokerVars, redisVars, hostVars
  <1>21. ASSUME NEW c \in Callers, EvictFile(c) PROVE LastDelivered'
    <2>1. /\ caller[c].pc = "evict" /\ Goto(c, "compare") /\ UNCHANGED <<issued, bus>>
          /\ \A d \in Callers : file'[HostOf[d]].token = NoToken
      BY <1>0, <1>21 DEF EvictFile, NoFile, OneBot, TypeOK, brokerVars, redisVars
    <2> QED BY <1>g, <2>1
  <1>22. ASSUME NEW c \in Callers, CompareBus(c) PROVE LastDelivered'
    <2>1. /\ caller[c].pc \notin {"mirror", "publish"} /\ UNCHANGED <<issued, bus, file>>
          /\ \A e \in Callers \ {c} : caller'[e] = caller[e]
          /\ caller'[c].pc \notin {"mirror", "publish"}
      BY <1>0, <1>22 DEF CompareBus, Become, TypeOK, CallerStates, brokerVars, redisVars, hostVars
    <2> QED BY <1>o, <2>1
  <1>23. ASSUME NEW c \in Callers, HealMirror(c), CurrentMirror PROVE LastDelivered'
    BY <1>0, <1>23, <1>g, MirroredLast DEF HealMirror, brokerVars, redisVars
  <1>24. ASSUME NEW c \in Callers, RetryFailed(c) PROVE LastDelivered'
    <2>1. /\ caller[c].pc \notin {"mirror", "publish"} /\ UNCHANGED <<issued, bus, file>>
          /\ \A e \in Callers \ {c} : caller'[e] = caller[e]
          /\ caller'[c].pc \notin {"mirror", "publish"}
      BY <1>0, <1>24 DEF RetryFailed, Become, TypeOK, CallerStates, brokerVars, redisVars, hostVars
    <2> QED BY <1>o, <2>1
  <1>25. CASE SessionExpires \/ BusForgets \/ LockExpires \/ UNCHANGED vars
    <2>1. UNCHANGED <<issued, file, caller>> /\ bus' \in {bus, NoToken}
      BY <1>25 DEF SessionExpires, BusForgets, LockExpires, brokerVars, redisVars, hostVars, vars
    <2> QED BY <2>1, QuietStep
  <1>26. ASSUME NEW h \in Hosts, FileAges(h) PROVE LastDelivered'
    <2>1. UNCHANGED <<issued, bus, caller>>
      BY <1>26 DEF FileAges, brokerVars, redisVars
    <2>2. \A k \in Hosts : /\ file'[k].token = file[k].token
                           /\ file'[k].age # "old" => file[k].age # "old"
      BY <1>26 DEF FileAges, TypeOK, Files
    <2> QED BY <1>0, <2>1, <2>2 DEF LastDelivered
  <1>27. ASSUME NEW h \in Hosts, Crash(h) PROVE LastDelivered'
    BY <1>27 DEF Crash, LoginsPublished
  <1> QED
    BY <1>1, <1>2, <1>3, <1>4, <1>5, <1>6, <1>7, <1>8, <1>9, <1>10, <1>11, <1>12, <1>13, <1>14,
       <1>15, <1>16, <1>17, <1>18, <1>19, <1>20, <1>21, <1>22, <1>23, <1>24, <1>25, <1>26, <1>27
    DEF Next, Step, Authenticate, Request, World

\* Between the threads of one bot, as long as nobody dies, no login fails, Redis answers
\* and no old token is mirrored late, the token on the bus is the last login whenever
\* no thread is at work on it: no finished call leaves a dead token for the others.
THEOREM OneBotSettles == OneBot /\ LoginsPublished => (PromptSpec => []BusSettles)
  <1> SUFFICES ASSUME OneBot, LoginsPublished PROVE PromptSpec => []BusSettles
    OBVIOUS
  <1>1. Init => TypeOK /\ FileLockExact /\ LastDelivered
    BY InitTyped, InitExact, InitDelivered
  <1>2. TypeOK /\ FileLockExact /\ LastDelivered /\ [Next /\ CurrentMirror]_vars
          => TypeOK' /\ FileLockExact' /\ LastDelivered'
    <2>1. [Next /\ CurrentMirror]_vars => [Next]_vars
      OBVIOUS
    <2> QED BY <2>1, StepTyped, StepExact, StepDelivered
  <1>3. LastDelivered => BusSettles
    BY DEF LastDelivered, BusSettles, Delivering
  <1> QED BY <1>1, <1>2, <1>3, PTL DEF PromptSpec

-----------------------------------------------------------------------------
(* What a loser picks up *)

\* A token is published while it is the last one: a file write and a SET follow a login,
\* or the reading of the local file, and no other login falls in between.
CurrentPublish == bus' \notin {bus, NoToken} => bus' = issued

CurrentSpec == Init /\ [][Next /\ CurrentPublish]_vars

\* Who has read the bus as stale and has no token yet.
Losing == {"acquire", "wait"}

\* The bus never goes back behind what a loser has read on it.
BusNotBehind ==
    /\ bus <= issued
    /\ \A c \in Callers : caller[c].pc \in Losing =>
        caller[c].stale <= issued /\ (bus = NoToken \/ caller[c].stale <= bus)

\* A thread's step leaves the others where they are.
LEMMA OthersStay ==
  ASSUME TypeOK, NEW c \in Callers, Boot(c) \/ Send(c) \/ Step(c)
  PROVE  \A d \in Callers \ {c} : caller'[d] = caller[d]
  <1> USE DEF Goto, Become, Return, Raise, TypeOK
  <1>1. CASE Boot(c) \/ Send(c) \/ Request(c)
    BY <1>1 DEF Boot, Send, Request, Answer, Unauthorized, EvictFile, CompareBus, HealMirror,
                RetryAnswered, RetryFailed, FinalRetry
  <1>2. CASE \/ FastPath(c) \/ FastMirror(c) \/ AcquireFileLock(c) \/ PostLock(c) \/ Adopt(c)
             \/ ReadLocal(c) \/ ReadStale(c) \/ AcquireRefreshLock(c)
    BY <1>2 DEF FastPath, FastMirror, AcquireFileLock, PostLock, Adopt, ReadLocal, ReadStale,
                AcquireRefreshLock
  <1>3. CASE \/ WaitFindsToken(c) \/ WaitTimeout(c) \/ ClearBus(c) \/ Login(c) \/ LoginFails(c)
             \/ MirrorLogin(c) \/ Publish(c) \/ Release(c)
    BY <1>3 DEF WaitFindsToken, WaitTimeout, ClearBus, Login, LoginFails, MirrorLogin, Publish,
                Release
  <1> QED BY <1>1, <1>2, <1>3 DEF Step, Authenticate

LEMMA BecomeIs ==
  ASSUME TypeOK, NEW c \in Callers, NEW s, Become(c, s) PROVE caller'[c] = s
  BY DEF Become, TypeOK

\* A thread becomes a loser by reading the bus, keeps what it has read, and adopts a
\* token only by finding it there.
LEMMA LoserStep ==
  ASSUME TypeOK, [Next]_vars, NEW c \in Callers
  PROVE  /\ caller'[c].pc \in Losing =>
              \/ ReadStale(c)
              \/ caller[c].pc \in Losing /\ caller'[c].stale = caller[c].stale
         /\ caller[c].pc = "wait" /\ caller'[c].pc = "adopt" => WaitFindsToken(c)
  <1> DEFINE Elsewhere == /\ caller'[c].pc \notin Losing
                          /\ caller[c].pc = "wait" => caller'[c].pc # "adopt"
  <1> USE DEF Losing
  <1>0. caller[c] \in CallerStates
    BY DEF TypeOK
  <1>g. ASSUME NEW pc, Goto(c, pc), pc \notin Losing \cup {"adopt"} PROVE Elsewhere
    BY <1>0, <1>g DEF Goto, Become, TypeOK, CallerStates
  <1>r. ASSUME NEW t, Return(c, t) \/ Raise(c) PROVE Elsewhere
    <2>1. /\ NoClient.pc = "idle"
          /\ \A u : Client(u).pc = "ready" /\ [Client(u) EXCEPT !.pc = "final"].pc = "final"
      BY DEF Client, NoClient
    <2>2. \E u : caller'[c] \in {NoClient, Client(u), [Client(u) EXCEPT !.pc = "final"],
                                 [Client(u) EXCEPT !.pc = "ready"]}
      BY <1>r DEF Return, Raise, Become, TypeOK
    <2>3. \A u : [Client(u) EXCEPT !.pc = "ready"].pc = "ready"
      BY DEF Client, NoClient
    <2> QED BY <2>1, <2>2, <2>3
  <1>1. CASE ~\E d \in Callers : Boot(d) \/ Send(d) \/ Step(d)
    <2>1. caller'[c] = caller[c] \/ caller'[c] = NoClient
      BY <1>1 DEF Next, World, SessionExpires, BusForgets, LockExpires, FileAges, Crash, vars
    <2> QED BY <2>1 DEF NoClient
  <1>2. ASSUME NEW d \in Callers \ {c}, Boot(d) \/ Send(d) \/ Step(d)
        PROVE  caller'[c] = caller[c]
    BY <1>2, OthersStay
  <1>3. CASE Boot(c)
    BY <1>3 DEF Boot, Become, NoClient, TypeOK
  <1>4. CASE Send(c)
    BY <1>4, <1>g DEF Send
  <1>5. CASE Answer(c) \/ Unauthorized(c) \/ EvictFile(c) \/ HealMirror(c)
             \/ RetryAnswered(c) \/ FinalRetry(c)
    BY <1>5, <1>g DEF Answer, Unauthorized, EvictFile, HealMirror, RetryAnswered, FinalRetry
  <1>6. CASE CompareBus(c) \/ RetryFailed(c)
    <2>1. \/ \E t : caller'[c] = [caller[c] EXCEPT !.pc = "heal", !.token = t]
          \/ caller'[c] = [caller[c] EXCEPT !.pc = "filelock", !.force = TRUE]
      BY <1>6, BecomeIs DEF CompareBus, RetryFailed
    <2>2. caller[c].pc # "wait" /\ caller'[c].pc \in {"heal", "filelock"}
      BY <1>0, <1>6, <2>1 DEF CompareBus, RetryFailed, CallerStates
    <2> QED BY <2>2
  <1>7. CASE FastPath(c) \/ PostLock(c) \/ ReadLocal(c)
    <2>1. CASE FastPath(c)
      BY <1>0, <2>1 DEF FastPath, Become, TypeOK, CallerStates
    <2>2. CASE PostLock(c)
      BY <1>0, <2>2 DEF PostLock, Become, TypeOK, CallerStates
    <2>3. CASE ReadLocal(c)
      BY <1>0, <2>3 DEF ReadLocal, Become, TypeOK, CallerStates
    <2> QED BY <1>7, <2>1, <2>2, <2>3
  <1>8. CASE FastMirror(c) \/ Adopt(c) \/ Release(c)
    BY <1>8, <1>r DEF FastMirror, Adopt, Release
  <1>9. CASE AcquireFileLock(c)
    BY <1>9, <1>g DEF AcquireFileLock
  <1>10. CASE AcquireRefreshLock(c)
    <2>1. caller[c].pc = "acquire"
      BY <1>10 DEF AcquireRefreshLock
    <2>2. \/ Become(c, [caller[c] EXCEPT !.pc = "clear", !.holds = TRUE]) \/ Goto(c, "wait")
      BY <1>10 DEF AcquireRefreshLock
    <2>3. caller'[c].stale = caller[c].stale
      BY <1>0, <2>2 DEF Goto, Become, TypeOK, CallerStates
    <2> QED BY <2>1, <2>3
  <1>11. CASE WaitFindsToken(c)
    BY <1>0, <1>11 DEF WaitFindsToken, Become, TypeOK, CallerStates
  <1>12. CASE ClearBus(c)
    BY <1>12, <1>g, <1>r DEF ClearBus
  <1>13. CASE Login(c)
    <2>1. \/ Become(c, [caller[c] EXCEPT !.pc = "mirror", !.got = issued + 1])
          \/ Goto(c, "release")
      BY <1>13 DEF Login
    <2>2. CASE Become(c, [caller[c] EXCEPT !.pc = "mirror", !.got = issued + 1])
      BY <1>0, <2>2 DEF Become, TypeOK, CallerStates
    <2> QED BY <1>g, <2>1, <2>2
  <1>14. CASE WaitTimeout(c) \/ LoginFails(c) \/ MirrorLogin(c) \/ Publish(c)
    BY <1>14, <1>g DEF WaitTimeout, LoginFails, MirrorLogin, Publish
  <1>15. CASE ReadStale(c)
    BY <1>0, <1>15 DEF ReadStale, Become, TypeOK, CallerStates
  <1>16. CASE Boot(c) \/ Send(c) \/ Step(c)
    BY <1>3, <1>4, <1>5, <1>6, <1>7, <1>8, <1>9, <1>10, <1>11, <1>12, <1>13, <1>14, <1>15, <1>16
    DEF Step, Authenticate, Request
  <1>17. ASSUME caller'[c] = caller[c]
         PROVE  caller'[c].pc \in Losing =>
                  caller[c].pc \in Losing /\ caller'[c].stale = caller[c].stale
    BY <1>17
  <1> QED BY <1>1, <1>2, <1>16, <1>17

LEMMA IssuedGrows ==
  ASSUME TypeOK, [Next]_vars PROVE issued' \in Nat /\ issued <= issued'
  <1>1. issued \in Nat
    BY DEF TypeOK
  <1>2. UNCHANGED issued \/ issued' = issued + 1
    <2> USE DEF brokerVars
    <2>1. ASSUME NEW c \in Callers, Boot(c) \/ Send(c) \/ Request(c) PROVE UNCHANGED issued
      BY <2>1 DEF Boot, Send, Request, Answer, Unauthorized, EvictFile, CompareBus, HealMirror,
                  RetryAnswered, RetryFailed, FinalRetry
    <2>2. ASSUME NEW c \in Callers, Authenticate(c), ~Login(c) PROVE UNCHANGED issued
      BY <2>2 DEF Authenticate, FastPath, FastMirror, AcquireFileLock, PostLock, Adopt, ReadLocal,
                  ReadStale, AcquireRefreshLock, WaitFindsToken, WaitTimeout, ClearBus,
                  LoginFails, MirrorLogin, Publish, Release
    <2>3. ASSUME NEW c \in Callers, Login(c) PROVE issued' = issued + 1
      BY <2>3 DEF Login
    <2>4. CASE World \/ UNCHANGED vars
      BY <2>4 DEF World, SessionExpires, BusForgets, LockExpires, FileAges, Crash, vars
    <2> QED BY <2>1, <2>2, <2>3, <2>4 DEF Next, Step
  <1> QED BY <1>1, <1>2

LEMMA StepNotBehind ==
  ASSUME TypeOK, BusNotBehind, [Next]_vars, CurrentPublish \/ UNCHANGED vars
  PROVE  BusNotBehind'
  <1>0. /\ issued \in Nat /\ bus \in Nat
        /\ \A c \in Callers : caller[c].stale \in Nat
        /\ issued' \in Nat /\ issued <= issued'
    BY IssuedGrows DEF TypeOK, CallerStates, Tokens
  <1>1. bus' \in {bus, NoToken, issued}
    BY DEF CurrentPublish, vars
  <1>2. bus' <= issued'
    BY <1>0, <1>1 DEF BusNotBehind, NoToken
  <1>3. ASSUME NEW c \in Callers, caller'[c].pc \in Losing
        PROVE  caller'[c].stale <= issued' /\ (bus' = NoToken \/ caller'[c].stale <= bus')
    <2>1. CASE ReadStale(c)
      <3>1. caller'[c].stale \in {bus, NoToken} /\ bus' = bus
        BY <2>1 DEF ReadStale, GetCentralizedToken, Shaky, Become, TypeOK, CallerStates, redisVars
      <3> QED BY <1>0, <3>1 DEF BusNotBehind, NoToken
    <2>2. CASE caller[c].pc \in Losing /\ caller'[c].stale = caller[c].stale
      BY <1>0, <1>1, <2>2 DEF BusNotBehind, NoToken
    <2> QED BY <1>3, <2>1, <2>2, LoserStep
  <1> QED BY <1>2, <1>3 DEF BusNotBehind

\* Whatever fails or dies and however many bots there are: if no login overtakes a token
\* on its way to the bus, a loser of the race for the refresh lock leaves the wait with a
\* token newer than the one it has lost, for any number of session ends.
THEOREM LosersGetNewer == CurrentSpec => LoserGetsNewer
  <1>1. Init => TypeOK /\ BusNotBehind
    <2> SUFFICES ASSUME Init PROVE BusNotBehind
      BY InitTyped
    <2>1. PICK t \in {NoToken, 1} :
            /\ issued = t /\ bus = t
            /\ caller = [c \in Callers |-> IF t = NoToken THEN NoClient ELSE Client(t)]
      BY DEF Init
    <2>2. \A c \in Callers : caller[c].pc \in {"idle", "ready"}
      BY <2>1 DEF Client, NoClient
    <2> QED BY <2>1, <2>2 DEF BusNotBehind, Losing, NoToken
  <1>2. TypeOK /\ BusNotBehind /\ [Next /\ CurrentPublish]_vars => TypeOK' /\ BusNotBehind'
    <2>1. [Next /\ CurrentPublish]_vars => [Next]_vars /\ (CurrentPublish \/ UNCHANGED vars)
      OBVIOUS
    <2> QED BY <2>1, StepTyped, StepNotBehind
  <1>3. TypeOK /\ BusNotBehind /\ [Next /\ CurrentPublish]_vars =>
          [\A c \in Callers :
            caller[c].pc = "wait" /\ caller'[c].pc = "adopt" =>
                caller'[c].got > caller[c].stale]_vars
    <2> SUFFICES ASSUME TypeOK, BusNotBehind, [Next]_vars, NEW c \in Callers,
                        caller[c].pc = "wait", caller'[c].pc = "adopt"
                 PROVE  caller'[c].got > caller[c].stale
      OBVIOUS
    <2>1. WaitFindsToken(c)
      BY LoserStep
    <2>2. bus \notin {NoToken, caller[c].stale} /\ caller'[c].got = bus
      BY <2>1 DEF WaitFindsToken, Become, TypeOK, CallerStates
    <2>3. bus \in Nat /\ caller[c].stale \in Nat
      BY DEF TypeOK, CallerStates, Tokens
    <2> QED BY <2>2, <2>3 DEF BusNotBehind, Losing
  <1> QED BY <1>1, <1>2, <1>3, PTL DEF CurrentSpec, LoserGetsNewer

-----------------------------------------------------------------------------
(* Every call ends after a bounded number of steps, and nobody waits in a circle *)

\* The steps a thread has left in its call, at most, when its program counter is pc.
CallLines(pc) ==
    CASE pc \in {"idle", "ready"}          -> 0
      [] pc = "final"                      -> 1
      [] pc \in {"fastmirror", "adopt"}    -> 2
      [] pc = "release"                    -> 3
      [] pc = "publish"                    -> 4
      [] pc = "mirror"                     -> 5
      [] pc = "login"                      -> 6
      [] pc = "clear"                      -> 7
      [] pc = "wait"                       -> 8
      [] pc = "acquire"                    -> 9
      [] pc = "stale"                      -> 10
      [] pc = "readfile"                   -> 11
      [] pc = "postlock"                   -> 12
      [] pc = "filelock"                   -> 13
      [] pc \in {"retry", "fastpath"}      -> 14
      [] pc = "heal"                       -> 15
      [] pc = "compare"                    -> 16
      [] pc = "evict"                      -> 17
      [] pc = "send"                       -> 18

Busy(c) == caller[c].pc \notin {"idle", "ready"}

\* Whatever happens to a thread inside a call brings the end of the call nearer.
CallAdvances(c) ==
    Busy(c) => \/ caller'[c] = caller[c]
               \/ CallLines(caller'[c].pc) < CallLines(caller[c].pc)

CallsRunDown == [][\A c \in Callers : CallAdvances(c)]_vars

LEMMA LinesTyped == \A pc \in Pcs : CallLines(pc) \in 0..18
  BY DEF Pcs, LockedPcs, CallLines

LEMMA GotoAdvances ==
  ASSUME TypeOK, NEW c \in Callers, NEW pc \in Pcs, Goto(c, pc),
         CallLines(pc) < CallLines(caller[c].pc)
  PROVE  CallAdvances(c)
  <1>1. caller'[c].pc = pc
    BY DEF Goto, Become, TypeOK, CallerStates
  <1> QED BY <1>1 DEF CallAdvances

\* A return or an exception leaves at most the final retry.
LEMMA LeavingAdvances ==
  ASSUME TypeOK, NEW c \in Callers, Raise(c) \/ (\E t \in Tokens : Return(c, t)),
         CallLines(caller[c].pc) > 1
  PROVE  CallAdvances(c)
  <1>1. caller'[c].pc \in {"idle", "ready", "final"}
    <2>1. CASE Raise(c)
      BY <2>1 DEF Raise, Become, Client, NoClient, TypeOK
    <2>2. ASSUME NEW t \in Tokens, Return(c, t) PROVE caller'[c].pc \in {"ready", "final"}
      BY <2>2 DEF Return, Become, Client, NoClient, TypeOK
    <2> QED BY <2>1, <2>2
  <1>2. CallLines(caller'[c].pc) \in {0, 1}
    BY <1>1 DEF CallLines
  <1>3. CallLines(caller[c].pc) \in 0..18
    BY LinesTyped DEF TypeOK, CallerStates
  <1> QED BY <1>2, <1>3 DEF CallAdvances

LEMMA OwnStepAdvances ==
  ASSUME TypeOK, NEW c \in Callers, Step(c) PROVE CallAdvances(c)
  <1>a. caller[c] \in CallerStates /\ caller[c].got \in Tokens
    BY DEF TypeOK, CallerStates
  <1>1. CASE FastMirror(c) \/ Adopt(c)
    BY <1>1, <1>a, LeavingAdvances DEF FastMirror, Adopt, CallLines
  <1>2. CASE Release(c)
    BY <1>2, <1>a, LeavingAdvances DEF Release, CallLines
  <1>3. CASE ClearBus(c)
    <2>1. CASE HostOf[c] \in Keyless
      BY <1>3, <2>1, LeavingAdvances DEF ClearBus, CallLines
    <2>2. CASE HostOf[c] \notin Keyless
      <3>1. caller[c].pc = "clear" /\ caller'[c].pc = "login"
        BY <1>a, <1>3, <2>2 DEF ClearBus, Goto, Become, TypeOK, CallerStates
      <3> QED BY <3>1 DEF CallAdvances, CallLines
    <2> QED BY <2>1, <2>2
  <1>4. CASE FastPath(c) \/ PostLock(c) \/ ReadLocal(c) \/ ReadStale(c)
    <2>1. PICK s \in {"filelock", "fastmirror", "readfile", "adopt", "publish", "stale", "acquire"} :
            /\ caller'[c].pc = s
            /\ CallLines(s) < CallLines(caller[c].pc)
      <3>1. CASE FastPath(c)
        BY <1>a, <3>1 DEF FastPath, Become, TypeOK, CallerStates, CallLines
      <3>2. CASE PostLock(c)
        BY <1>a, <3>2 DEF PostLock, Become, TypeOK, CallerStates, CallLines
      <3>3. CASE ReadLocal(c)
        BY <1>a, <3>3 DEF ReadLocal, Become, TypeOK, CallerStates, CallLines
      <3>4. CASE ReadStale(c)
        BY <1>a, <3>4 DEF ReadStale, Become, TypeOK, CallerStates, CallLines
      <3> QED BY <1>4, <3>1, <3>2, <3>3, <3>4
    <2> QED BY <2>1 DEF CallAdvances
  <1>5. CASE AcquireFileLock(c)
    <2>1. caller[c].pc = "filelock" /\ caller'[c].pc \in {"readfile", "postlock"}
      BY <1>a, <1>5 DEF AcquireFileLock, Goto, Become, TypeOK, CallerStates
    <2> QED BY <2>1 DEF CallAdvances, CallLines
  <1>6. CASE AcquireRefreshLock(c)
    <2>1. \/ caller'[c] = [caller[c] EXCEPT !.pc = "clear", !.holds = TRUE]
          \/ caller'[c] = [caller[c] EXCEPT !.pc = "wait"]
      BY <1>6, BecomeIs DEF AcquireRefreshLock, Goto
    <2>2. caller[c].pc = "acquire" /\ caller'[c].pc \in {"clear", "wait"}
      BY <1>a, <1>6, <2>1 DEF AcquireRefreshLock, CallerStates
    <2> QED BY <2>2 DEF CallAdvances, CallLines
  <1>7. CASE WaitFindsToken(c)
    <2>1. caller[c].pc = "wait" /\ caller'[c].pc = "adopt"
      BY <1>a, <1>7 DEF WaitFindsToken, Become, TypeOK, CallerStates
    <2> QED BY <2>1 DEF CallAdvances, CallLines
  <1>8. CASE WaitTimeout(c) \/ LoginFails(c) \/ MirrorLogin(c) \/ Publish(c)
    <2>1. \/ caller[c].pc = "wait" /\ Goto(c, "clear")
          \/ caller[c].pc = "login" /\ Goto(c, "release")
          \/ caller[c].pc = "mirror" /\ Goto(c, "publish")
          \/ caller[c].pc = "publish" /\ Goto(c, "release")
      BY <1>8 DEF WaitTimeout, LoginFails, MirrorLogin, Publish
    <2>2. \/ caller[c].pc = "wait" /\ caller'[c].pc = "clear"
          \/ caller[c].pc = "login" /\ caller'[c].pc = "release"
          \/ caller[c].pc = "mirror" /\ caller'[c].pc = "publish"
          \/ caller[c].pc = "publish" /\ caller'[c].pc = "release"
      BY <1>a, <2>1 DEF Goto, Become, TypeOK, CallerStates
    <2> QED BY <2>2 DEF CallAdvances, CallLines
  <1>9. CASE Login(c)
    <2>1. caller[c].pc = "login" /\ caller'[c].pc \in {"mirror", "release"}
      BY <1>a, <1>9 DEF Login, Goto, Become, TypeOK, CallerStates
    <2> QED BY <2>1 DEF CallAdvances, CallLines
  <1>10. CASE \/ Answer(c) \/ Unauthorized(c) \/ EvictFile(c)
              \/ HealMirror(c) \/ RetryAnswered(c) \/ FinalRetry(c)
    BY <1>10, GotoAdvances
    DEF Answer, Unauthorized, EvictFile, HealMirror, RetryAnswered, FinalRetry, CallLines, Pcs
  <1>11. CASE CompareBus(c)
    <2>1. caller[c].pc = "compare" /\ caller'[c].pc \in {"heal", "filelock"}
      BY <1>a, <1>11 DEF CompareBus, Become, TypeOK, CallerStates
    <2> QED BY <2>1 DEF CallAdvances, CallLines
  <1>12. CASE RetryFailed(c)
    <2>1. caller[c].pc = "retry" /\ caller'[c].pc = "filelock"
      BY <1>a, <1>12 DEF RetryFailed, Become, TypeOK, CallerStates
    <2> QED BY <2>1 DEF CallAdvances, CallLines
  <1> QED BY <1>1, <1>2, <1>3, <1>4, <1>5, <1>6, <1>7, <1>8, <1>9, <1>10, <1>11, <1>12
          DEF Step, Authenticate, Request

LEMMA WorldAdvances ==
  ASSUME TypeOK, World \/ UNCHANGED vars, NEW c \in Callers PROVE CallAdvances(c)
  <1>1. CASE \E h \in Hosts : Crash(h)
    <2>1. caller'[c] = caller[c] \/ caller'[c].pc = "idle"
      BY <1>1 DEF Crash, NoClient
    <2>2. Busy(c) => CallLines(caller[c].pc) \in 1..18
      BY DEF TypeOK, CallerStates, Pcs, LockedPcs, CallLines, Busy
    <2>3. CallLines("idle") = 0
      BY DEF CallLines
    <2> QED BY <2>1, <2>2, <2>3 DEF CallAdvances
  <1>2. CASE ~ \E h \in Hosts : Crash(h)
    BY <1>2 DEF World, SessionExpires, BusForgets, LockExpires, FileAges, vars, CallAdvances
  <1> QED BY <1>1, <1>2

\* A request and a construction of a client take at most 18 steps of their thread, whatever
\* goes wrong: no answer of the API, no loss of the refresh lock and no error of Redis makes
\* a call start over or log in a second time (client.py:60-125, auth.py:137-263).
THEOREM CallsEndInSteps == Spec => CallsRunDown
  <1>1. TypeOK /\ [Next]_vars => [\A c \in Callers : CallAdvances(c)]_vars
    <2> SUFFICES ASSUME TypeOK, [Next]_vars, NEW c \in Callers PROVE CallAdvances(c)
      OBVIOUS
    <2>1. ASSUME NEW d \in Callers, Boot(d) \/ Send(d) \/ Step(d) PROVE CallAdvances(c)
      <3>1. CASE c = d /\ Step(d)
        BY <3>1, OwnStepAdvances
      <3>2. CASE c = d /\ (Boot(d) \/ Send(d))
        BY <3>2 DEF Boot, Send, CallAdvances, Busy
      <3>3. CASE c # d
        BY <2>1, <3>3, OthersStay DEF CallAdvances
      <3> QED BY <2>1, <3>1, <3>2, <3>3
    <2> QED BY <2>1, WorldAdvances DEF Next
  <1> QED BY <1>1, BusTyping, PTL DEF Spec, CallsRunDown

\* A thread waits for the file lock of its host, or for the token of whoever refreshes.
WaitsForFile(c) == caller[c].pc = "filelock" /\ fileLock[HostOf[c]] # NoCaller

WaitsForToken(c) ==
    /\ caller[c].pc = "wait"
    /\ bus \in {NoToken, caller[c].stale}
    /\ Faults \cap {"slow_login", "redis_error"} = {} /\ Refreshing

Blocked(c) == WaitsForFile(c) \/ WaitsForToken(c)

WaitsFor(c, d) ==
    \/ WaitsForFile(c) /\ fileLock[HostOf[c]] = d
    \/ WaitsForToken(c) /\ caller[d].holds /\ caller[d].pc \in {"clear", "login", "mirror", "publish"}

Going(c) == Busy(c) /\ ~Blocked(c)

\* Whoever waits waits for a thread that goes on, or for one that waits for such a thread.
NobodyWaitsInCircle ==
    \A c \in Callers : Blocked(c) =>
        \E d \in Callers :
            /\ WaitsFor(c, d)
            /\ Going(d) \/ \E e \in Callers : WaitsFor(d, e) /\ Going(e)

LEMMA TokenWaitersWait ==
  ASSUME NEW c \in Callers, WaitsForToken(c)
  PROVE  \E d \in Callers : WaitsFor(c, d) /\ Going(d)
  BY DEF WaitsForToken, Refreshing, WaitsFor, Going, Busy, Blocked, WaitsForFile

\* The two locks are always taken in the same order, the file lock of the host before the
\* refresh lock in Redis, and a thread that waits for a token waits for one past both:
\* no two bots, and no two threads of one, ever wait for each other (auth.py:162-263).
THEOREM NoCircularWait == Spec => []NobodyWaitsInCircle
  <1>1. TypeOK /\ FileLockExact => NobodyWaitsInCircle
    <2> SUFFICES ASSUME TypeOK, FileLockExact, NEW c \in Callers, Blocked(c)
                 PROVE  \E d \in Callers :
                            /\ WaitsFor(c, d)
                            /\ Going(d) \/ \E e \in Callers : WaitsFor(d, e) /\ Going(e)
      BY DEF NobodyWaitsInCircle
    <2>1. CASE WaitsForFile(c)
      <3> DEFINE d == fileLock[HostOf[c]]
      <3>1. d \in Callers /\ WaitsFor(c, d)
        BY <2>1, HostAssumption DEF WaitsForFile, WaitsFor, TypeOK
      <3>2. caller[d].pc \in LockedPcs
        BY <3>1, HostAssumption DEF FileLockExact
      <3>3. Busy(d) /\ ~WaitsForFile(d)
        BY <3>2 DEF Busy, WaitsForFile, LockedPcs
      <3>4. CASE WaitsForToken(d)
        BY <3>1, <3>4, TokenWaitersWait
      <3>5. CASE ~WaitsForToken(d)
        BY <3>1, <3>3, <3>5 DEF Going, Blocked
      <3> QED BY <3>4, <3>5
    <2>2. CASE WaitsForToken(c)
      BY <2>2, TokenWaitersWait
    <2> QED BY <2>1, <2>2 DEF Blocked
  <1> QED BY <1>1, BusTyping, FileLocksExact, PTL
=============================================================================
