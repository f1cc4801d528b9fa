------------------------------ MODULE TokenBus ------------------------------
(***************************************************************************)
(* One Upstox login shared by several bots: core/auth.py and the 401       *)
(* healing of core/client.py.  Every caller is a thread with an            *)
(* UpstoxClient of its own, on a host whose threads share token.json and   *)
(* its FileLock; all hosts share two keys of one Redis, the active token   *)
(* and the refresh lock.  A TOTP login ends every earlier session, so      *)
(* tokens are numbered and at most the last one works.                     *)
(***************************************************************************)
EXTENDS Naturals

CONSTANTS
    Callers,      \* threads that own a client
    Hosts,        \* the machines (bots) they run on
    HostOf,       \* where each caller runs
    NoCaller,     \* nobody holds a file lock
    Keyless,      \* hosts with an UPSTOX_* variable missing
    Faults,       \* what may go wrong, a subset of FaultKinds
    MaxBoots,     \* bound: clients constructed
    MaxCalls,     \* bound: requests sent
    MaxExpiries   \* bound: sessions ended by the broker

FaultKinds == {
    "slow_login",    \* a login outlasts the 60 s wait or the 90 s lock TTL
    "login_error",   \* TOTP fails, or succeeds with the reply lost
    "server_error",  \* the API answers 4xx or 5xx other than 401, or not at all
    "redis_error",   \* a Redis command raises something the caller swallows
    "crash"}         \* a bot process dies

ASSUME HostAssumption  == HostOf \in [Callers -> Hosts] /\ Keyless \subseteq Hosts
ASSUME NobodyAssumption == NoCaller \notin Callers
ASSUME BusFaultAssumption == Faults \subseteq FaultKinds

VARIABLES
    live,         \* the token the broker accepts, NoToken if none
    issued,       \* logins so far
    bus,          \* Redis upstox:active_token
    refreshLock,  \* Redis upstox:token_refresh_lock is set
    file,         \* token.json of each host
    fileLock,     \* holder of token.json.lock on each host
    caller,       \* what each thread is doing
    boots, calls, expiries

redisVars  == <<bus, refreshLock>>
hostVars   == <<file, fileLock>>
brokerVars == <<live, issued>>
bounds     == <<boots, calls, expiries>>
vars == <<live, issued, bus, refreshLock, file, fileLock, caller,
          boots, calls, expiries>>

-----------------------------------------------------------------------------
(* Data *)

NoToken == 0
Tokens  == Nat

\* Under TOKEN_FORCE_REFRESH_GUARD_SECONDS, under TOKEN_MAX_AGE_SECONDS, older.
Ages   == {"new", "young", "old"}
Files  == [token : Tokens, age : Ages]
NoFile == [token |-> NoToken, age |-> "old"]

\* authenticate_and_save_token inside "with lock"
LockedPcs == {"postlock", "readfile", "stale", "acquire", "wait", "adopt",
              "clear", "login", "mirror", "publish", "release"}
Pcs == {"idle", "ready", "send", "evict", "compare", "heal", "retry",
        "fastpath", "fastmirror", "filelock", "final"} \cup LockedPcs

CallerStates ==
    [pc : Pcs, token : Tokens, got : Tokens, stale : Tokens,
     force : BOOLEAN, holds : BOOLEAN]

\* A thread without a client.
NoClient == [pc |-> "idle", token |-> NoToken, got |-> NoToken,
             stale |-> NoToken, force |-> FALSE, holds |-> FALSE]

Client(t) == [NoClient EXCEPT !.pc = "ready", !.token = t]

Become(c, s) == caller' = [caller EXCEPT ![c] = s]
Goto(c, pc)  == Become(c, [caller[c] EXCEPT !.pc = pc])

-----------------------------------------------------------------------------
(* Redis and the token file *)

\* A Redis command either works or is logged and forgotten.
Shaky(after, before) ==
    {after} \cup IF "redis_error" \in Faults THEN {before} ELSE {}

GetCentralizedToken == Shaky(bus, NoToken)

\* Mutant: the file is written without its creation time.
MirrorWithoutTime(h, t) ==
    file' = [file EXCEPT ![h] = [token |-> t]]

MirrorTokenLocally(h, t) ==
    file' = [file EXCEPT ![h] = [token |-> t, age |-> "new"]]

\* authenticate_and_save_token returns t: a constructor has its token, a heal
\* goes on to its final retry.  Leaving the block frees the file lock.
Return(c, t) ==
    /\ Become(c, [Client(t) EXCEPT
            !.pc = IF caller[c].force THEN "final" ELSE "ready"])
    /\ fileLock' = [h \in Hosts |-> IF fileLock[h] = c THEN NoCaller ELSE fileLock[h]]

\* Mutant: an exception leaves the file lock behind.
RaiseKeepingLock(c) ==
    /\ Become(c, IF caller[c].force THEN Client(caller[c].token) ELSE NoClient)
    /\ UNCHANGED fileLock

\* It raises: a constructor fails, a heal hands back the 401 it started from.
Raise(c) ==
    /\ Become(c, IF caller[c].force THEN Client(caller[c].token) ELSE NoClient)
    /\ fileLock' = [h \in Hosts |-> IF fileLock[h] = c THEN NoCaller ELSE fileLock[h]]

-----------------------------------------------------------------------------
(* authenticate_and_save_token *)

Boot(c) ==
    /\ caller[c].pc \in {"idle", "ready"}
    /\ boots < MaxBoots
    /\ boots' = boots + 1
    /\ Become(c, [NoClient EXCEPT !.pc = "fastpath"])
    /\ UNCHANGED <<brokerVars, redisVars, hostVars, calls, expiries>>

FastPath(c) ==
    /\ caller[c].pc = "fastpath"
    /\ \E t \in GetCentralizedToken :
        Become(c, [caller[c] EXCEPT
            !.pc = IF t = NoToken THEN "filelock" ELSE "fastmirror", !.got = t])
    /\ UNCHANGED <<brokerVars, redisVars, hostVars, bounds>>

FastMirror(c) ==
    /\ caller[c].pc = "fastmirror"
    /\ MirrorTokenLocally(HostOf[c], caller[c].got)
    /\ Return(c, caller[c].got)
    /\ UNCHANGED <<brokerVars, redisVars, bounds>>

\* Mutant: the file lock lets everyone in.
AcquireFileLockShared(c) ==
    /\ caller[c].pc = "filelock"
    /\ fileLock' = [fileLock EXCEPT ![HostOf[c]] = c]
    /\ Goto(c, IF caller[c].force THEN "readfile" ELSE "postlock")
    /\ UNCHANGED <<brokerVars, redisVars, file, bounds>>

AcquireFileLock(c) ==
    /\ caller[c].pc = "filelock"
    /\ fileLock[HostOf[c]] = NoCaller
    /\ fileLock' = [fileLock EXCEPT ![HostOf[c]] = c]
    /\ Goto(c, IF caller[c].force THEN "readfile" ELSE "postlock")
    /\ UNCHANGED <<brokerVars, redisVars, file, bounds>>

\* "Another process may have refreshed Redis while we waited for the lock"
PostLock(c) ==
    /\ caller[c].pc = "postlock"
    /\ \E t \in GetCentralizedToken :
        Become(c, [caller[c] EXCEPT
            !.pc = IF t = NoToken THEN "readfile" ELSE "adopt", !.got = t])
    /\ UNCHANGED <<brokerVars, redisVars, hostVars, bounds>>

\* A token found on the bus under the file lock is mirrored and used.
Adopt(c) ==
    /\ caller[c].pc = "adopt"
    /\ MirrorTokenLocally(HostOf[c], caller[c].got)
    /\ Return(c, caller[c].got)
    /\ UNCHANGED <<brokerVars, redisVars, bounds>>

\* The local token may be used: the anti-spam guard, or young and not forced.
LocalUsable(c) ==
    LET f == file[HostOf[c]] IN
    /\ f.token # NoToken
    /\ f.age = "new" \/ (f.age = "young" /\ ~caller[c].force)

\* The local token is published and returned; the read and the publication are
\* two commands, and the bus may move between them.
ReadLocal(c) ==
    /\ caller[c].pc = "readfile"
    /\ Become(c, IF LocalUsable(c)
                 THEN [caller[c] EXCEPT !.pc = "publish", !.got = file[HostOf[c]].token]
                 ELSE [caller[c] EXCEPT !.pc = "stale"])
    /\ UNCHANGED <<brokerVars, redisVars, hostVars, bounds>>

ReadStale(c) ==
    /\ caller[c].pc = "stale"
    /\ \E t \in GetCentralizedToken :
        Become(c, [caller[c] EXCEPT !.pc = "acquire", !.stale = t])
    /\ UNCHANGED <<brokerVars, redisVars, hostVars, bounds>>

\* Mutant: SET without NX.
AcquireRefreshLockAlways(c) ==
    /\ caller[c].pc = "acquire"
    /\ refreshLock' = TRUE
    /\ Become(c, [caller[c] EXCEPT !.pc = "clear", !.holds = TRUE])
    /\ UNCHANGED <<brokerVars, bus, hostVars, bounds>>

\* SET NX EX.  A Redis error counts as having the lock.
AcquireRefreshLock(c) ==
    /\ caller[c].pc = "acquire"
    /\ \/ /\ ~refreshLock
          /\ refreshLock' = TRUE
          /\ Become(c, [caller[c] EXCEPT !.pc = "clear", !.holds = TRUE])
       \/ /\ refreshLock
          /\ Goto(c, "wait")
          /\ UNCHANGED refreshLock
       \/ /\ "redis_error" \in Faults
          /\ Become(c, [caller[c] EXCEPT !.pc = "clear", !.holds = TRUE])
          /\ UNCHANGED refreshLock
    /\ UNCHANGED <<brokerVars, bus, hostVars, bounds>>

\* Mutant: any token on the bus will do.
WaitFindsTokenAny(c) ==
    /\ caller[c].pc = "wait"
    /\ bus # NoToken
    /\ Become(c, [caller[c] EXCEPT !.pc = "adopt", !.got = bus])
    /\ UNCHANGED <<brokerVars, redisVars, hostVars, bounds>>

WaitFindsToken(c) ==
    /\ caller[c].pc = "wait"
    /\ bus \notin {NoToken, caller[c].stale}
    /\ Become(c, [caller[c] EXCEPT !.pc = "adopt", !.got = bus])
    /\ UNCHANGED <<brokerVars, redisVars, hostVars, bounds>>

\* Somebody who holds the refresh lock has yet to publish.
Refreshing ==
    \E d \in Callers : /\ caller[d].holds
                       /\ caller[d].pc \in {"clear", "login", "mirror", "publish"}

\* Mutant: the wait is shorter than a login.
WaitTimeoutEarly(c) ==
    /\ caller[c].pc = "wait"
    /\ Goto(c, "clear")
    /\ UNCHANGED <<brokerVars, redisVars, hostVars, bounds>>

\* After 60 s without a token the loser runs TOTP anyway.  A login that is not
\* slow is published before that.
WaitTimeout(c) ==
    /\ caller[c].pc = "wait"
    /\ \/ "slow_login" \in Faults
       \/ "redis_error" \in Faults
       \/ ~Refreshing /\ bus \in {NoToken, caller[c].stale}
    /\ Goto(c, "clear")
    /\ UNCHANGED <<brokerVars, redisVars, hostVars, bounds>>

\* A forced refresh empties the bus; a host without its variables raises
\* before the try block whose finally would release the lock.
ClearBus(c) ==
    /\ caller[c].pc = "clear"
    /\ bus' \in IF caller[c].force THEN Shaky(NoToken, bus) ELSE {bus}
    /\ IF HostOf[c] \in Keyless
       THEN Raise(c)
       ELSE Goto(c, "login") /\ UNCHANGED fileLock
    /\ UNCHANGED <<brokerVars, refreshLock, file, bounds>>

Login(c) ==
    /\ caller[c].pc = "login"
    /\ issued' = issued + 1
    /\ live' = issued + 1
    /\ \/ Become(c, [caller[c] EXCEPT !.pc = "mirror", !.got = issued + 1])
       \/ /\ "login_error" \in Faults
          /\ Goto(c, "release")
    /\ UNCHANGED <<redisVars, hostVars, bounds>>

LoginFails(c) ==
    /\ caller[c].pc = "login"
    /\ "login_error" \in Faults
    /\ Goto(c, "release")
    /\ UNCHANGED <<brokerVars, redisVars, hostVars, bounds>>

MirrorLogin(c) ==
    /\ caller[c].pc = "mirror"
    /\ MirrorTokenLocally(HostOf[c], caller[c].got)
    /\ Goto(c, "publish")
    /\ UNCHANGED <<brokerVars, redisVars, fileLock, bounds>>

Publish(c) ==
    /\ caller[c].pc = "publish"
    /\ bus' \in Shaky(caller[c].got, bus)
    /\ Goto(c, "release")
    /\ UNCHANGED <<brokerVars, refreshLock, hostVars, bounds>>

\* finally: DEL, whoever set the key by now.
Release(c) ==
    /\ caller[c].pc = "release"
    /\ refreshLock' \in IF caller[c].holds THEN Shaky(FALSE, refreshLock)
                        ELSE {refreshLock}
    /\ IF caller[c].got = NoToken THEN Raise(c) ELSE Return(c, caller[c].got)
    /\ UNCHANGED <<brokerVars, bus, file, bounds>>

-----------------------------------------------------------------------------
(* _make_authenticated_request *)

Send(c) ==
    /\ caller[c].pc = "ready"
    /\ calls < MaxCalls
    /\ calls' = calls + 1
    /\ Goto(c, "send")
    /\ UNCHANGED <<brokerVars, redisVars, hostVars, boots, expiries>>

\* Only a 401 is healed; any other answer goes back to the caller.
Answer(c) ==
    /\ caller[c].pc = "send"
    /\ caller[c].token = live \/ "server_error" \in Faults
    /\ Goto(c, "ready")
    /\ UNCHANGED <<brokerVars, redisVars, hostVars, bounds>>

Unauthorized(c) ==
    /\ caller[c].pc = "send"
    /\ caller[c].token # live
    /\ Goto(c, "evict")
    /\ UNCHANGED <<brokerVars, redisVars, hostVars, bounds>>

EvictFile(c) ==
    /\ caller[c].pc = "evict"
    /\ file' = [file EXCEPT ![HostOf[c]] = NoFile]
    /\ Goto(c, "compare")
    /\ UNCHANGED <<brokerVars, redisVars, fileLock, bounds>>

\* Mutant: a new token on the bus is not tried first.
CompareBusForcing(c) ==
    /\ caller[c].pc = "compare"
    /\ Become(c, [caller[c] EXCEPT !.pc = "filelock", !.force = TRUE])
    /\ UNCHANGED <<brokerVars, redisVars, hostVars, bounds>>

CompareBus(c) ==
    /\ caller[c].pc = "compare"
    /\ \E t \in GetCentralizedToken :
        Become(c, IF t \notin {NoToken, caller[c].token}
                  THEN [caller[c] EXCEPT !.pc = "heal", !.token = t]
                  ELSE [caller[c] EXCEPT !.pc = "filelock", !.force = TRUE])
    /\ UNCHANGED <<brokerVars, redisVars, hostVars, bounds>>

HealMirror(c) ==
    /\ caller[c].pc = "heal"
    /\ MirrorTokenLocally(HostOf[c], caller[c].token)
    /\ Goto(c, "retry")
    /\ UNCHANGED <<brokerVars, redisVars, fileLock, bounds>>

RetryAnswered(c) ==
    /\ caller[c].pc = "retry"
    /\ caller[c].token = live
    /\ Goto(c, "ready")
    /\ UNCHANGED <<brokerVars, redisVars, hostVars, bounds>>

\* A 401 forces a refresh, and so does every other error: a requests.Response
\* is false from status 400 up, and None is a timeout.
RetryFailed(c) ==
    /\ caller[c].pc = "retry"
    /\ caller[c].token # live \/ "server_error" \in Faults
    /\ Become(c, [caller[c] EXCEPT !.pc = "filelock", !.force = TRUE])
    /\ UNCHANGED <<brokerVars, redisVars, hostVars, bounds>>

\* The last retry's answer is returned whatever it is.
FinalRetry(c) ==
    /\ caller[c].pc = "final"
    /\ Goto(c, "ready")
    /\ UNCHANGED <<brokerVars, redisVars, hostVars, bounds>>

-----------------------------------------------------------------------------
(* The world *)

\* The broker ends the session (every day before dawn, or by a manual login).
SessionExpires ==
    /\ live # NoToken
    /\ expiries < MaxExpiries
    /\ expiries' = expiries + 1
    /\ live' = NoToken
    /\ UNCHANGED <<issued, redisVars, hostVars, caller, boots, calls>>

\* The bus keeps a token 24 h, longer than any session lives.
BusForgets ==
    /\ bus \notin {NoToken, live}
    /\ bus' = NoToken
    /\ UNCHANGED <<brokerVars, refreshLock, hostVars, caller, bounds>>

\* 90 s after it was set, the refresh lock is gone.  A login that is not slow
\* is over by then; a holder that died, or never released it, is not waited for.
LockExpires ==
    /\ refreshLock
    /\ "slow_login" \in Faults \/ \A c \in Callers : ~caller[c].holds
    /\ refreshLock' = FALSE
    /\ UNCHANGED <<brokerVars, bus, hostVars, caller, bounds>>

FileAges(h) ==
    /\ file[h].age # "old"
    /\ file' = [file EXCEPT ![h].age = IF @ = "new" THEN "young" ELSE "old"]
    /\ UNCHANGED <<brokerVars, redisVars, fileLock, caller, bounds>>

Crash(h) ==
    /\ "crash" \in Faults
    /\ caller' = [c \in Callers |-> IF HostOf[c] = h THEN NoClient ELSE caller[c]]
    /\ fileLock' = [fileLock EXCEPT ![h] = NoCaller]
    /\ UNCHANGED <<brokerVars, redisVars, file, bounds>>

-----------------------------------------------------------------------------

\* A first start with nothing anywhere, or any day after: everybody shares one
\* working token.
Init ==
    \E t \in {NoToken, 1} :
        /\ live = t
        /\ issued = t
        /\ bus = t
        /\ refreshLock = FALSE
        /\ file = [h \in Hosts |-> [NoFile EXCEPT !.token = t]]
        /\ fileLock = [h \in Hosts |-> NoCaller]
        /\ caller = [c \in Callers |-> IF t = NoToken THEN NoClient ELSE Client(t)]
        /\ boots = 0
        /\ calls = 0
        /\ expiries = 0

Authenticate(c) ==
    \/ FastPath(c) \/ FastMirror(c) \/ AcquireFileLock(c) \/ PostLock(c) \/ Adopt(c)
    \/ ReadLocal(c) \/ ReadStale(c) \/ AcquireRefreshLock(c)
    \/ WaitFindsToken(c) \/ WaitTimeout(c) \/ ClearBus(c)
    \/ Login(c) \/ LoginFails(c) \/ MirrorLogin(c) \/ Publish(c) \/ Release(c)

Request(c) ==
    \/ Answer(c) \/ Unauthorized(c) \/ EvictFile(c) \/ CompareBus(c)
    \/ HealMirror(c) \/ RetryAnswered(c) \/ RetryFailed(c) \/ FinalRetry(c)

Step(c) == Authenticate(c) \/ Request(c)

World ==
    \/ SessionExpires \/ BusForgets \/ LockExpires
    \/ \E h \in Hosts : FileAges(h) \/ Crash(h)

Next ==
    \/ \E c \in Callers : Boot(c) \/ Send(c) \/ Step(c)
    \/ World

Spec == Init /\ [][Next]_vars

\* A running thread goes on: every wait in a call is bounded by a timeout, but
\* for the file lock, whose holders go on too.
FairSpec == Spec /\ \A c \in Callers : WF_vars(Step(c))

\* A token read from the bus is mirrored later, as if it were new, and a login may
\* fall in between.  In these behaviours none does.
CurrentMirror ==
    \A h \in Hosts : file'[h] # file[h] /\ file'[h].age = "new" => file'[h].token = issued

PromptSpec == Init /\ [][Next /\ CurrentMirror]_vars

-----------------------------------------------------------------------------
(* Properties *)

TypeOK ==
    /\ live \in Tokens
    /\ issued \in Nat
    /\ bus \in Tokens
    /\ refreshLock \in BOOLEAN
    /\ file \in [Hosts -> Files]
    /\ fileLock \in [Hosts -> Callers \cup {NoCaller}]
    /\ caller \in [Callers -> CallerStates]
    /\ boots \in Nat /\ calls \in Nat /\ expiries \in Nat

\* The refresh lock has one holder ("only one bot may log in per refresh",
\* auth.py:74-75) as long as no login outlasts its TTL and Redis answers: a
\* crash, a failed login or a missing variable may leave it set, never held twice.
OneHolder ==
    \A c, d \in Callers : caller[c].holds /\ caller[d].holds => c = d

\* The inductive form of OneHolder.
HolderHasLock ==
    /\ OneHolder
    /\ \A c \in Callers : caller[c].holds => refreshLock

\* The file lock of a host is held by exactly the thread that is inside the
\* locked part of authenticate_and_save_token (auth.py:162-263): two threads of
\* one bot are never inside together, and no path out of the block, an
\* exception included, leaves the lock behind.
FileLockExact ==
    \A c \in Callers, h \in Hosts :
        fileLock[h] = c <=> HostOf[c] = h /\ caller[c].pc \in LockedPcs

\* "Every TOTP login kills the other bot's session, so only one bot may log in
\* per refresh; the rest wait for the winner's token" (auth.py:74-75): no login
\* ends a session that works.
NoSessionKilled == [][issued' # issued => live = NoToken]_vars

\* "401 self-heal in the client triggers force_refresh only after Redis has
\* been tried and found dead" (auth.py:144-145).
ForcedOnlyWhenBusDead ==
    [][\A c \in Callers :
        caller'[c].force /\ ~caller[c].force =>
            /\ caller[c].token # live
            /\ caller[c].pc = "compare" => bus = NoToken \/ bus # live]_vars

\* "Invoke auth layer to pull a fresh token (which will explicitly delete Redis
\* token and execute TOTP)" (client.py:108): a forced refresh does not hand back
\* the token that has just been found dead.
ForcedRefreshIsFresh ==
    [][\A c \in Callers :
        caller[c].force /\ caller'[c].pc = "final" =>
            caller'[c].token # caller[c].token]_vars

\* When nobody is at work on it, the bus does not hand out a token that a later
\* login has killed: the last login is the one on the bus.  It is so between the
\* threads of one bot until an old token is mirrored late (auth.py:118, client.py:92):
\* the guard of auth.py:177 takes it for a new one and publishes it again.
BusSettles ==
    (\A c \in Callers : caller[c].pc \in {"idle", "ready"}) => bus \in {NoToken, issued}

\* What a loser picks up from the bus is a token issued after the one it lost.
LoserGetsNewer ==
    [][\A c \in Callers :
        caller[c].pc = "wait" /\ caller'[c].pc = "adopt" =>
            caller'[c].got > caller[c].stale]_vars

\* Every request and every construction ends: the waits are bounded, and every
\* path out of the locked block frees the file lock.
CallEnds ==
    \A c \in Callers :
        caller[c].pc \notin {"idle", "ready"} ~> caller[c].pc \in {"idle", "ready"}
=============================================================================
