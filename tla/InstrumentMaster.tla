-------------------------- MODULE InstrumentMaster --------------------------
(***************************************************************************)
(* core/client.py, _ensure_instrument_master and its readers: the bots     *)
(* share one file of the exchange's instruments, downloaded again when it  *)
(* is a day old.  A file lock guards the download; the file is written in  *)
(* place and read without the lock.                                        *)
(*                                                                         *)
(* The content of the file is the set of lot sizes its option rows show    *)
(* for the traded symbol.  Two sizes stand side by side while the exchange *)
(* changes the contract.                                                   *)
(***************************************************************************)
EXTENDS Integers, FiniteSets, FiniteSetsExt

CONSTANTS
    Bots,
    Ttl,             \* age at which the file is stale
    LastTick,        \* bound on the clock
    Listed,          \* sequence over 0..LastTick: the lot sizes the exchange lists
    MasterCalls,     \* bound on the calls of a bot
    Absent, NoLot, NoHolder

VARIABLES
    clock,
    csvAt,           \* modification time of the file, or Absent
    csv,             \* the lot sizes its rows show, {} for an empty file
    whole,           \* the file is a complete download
    holder,          \* of the file lock
    pc, asked,
    load,            \* what the download brought: a set of sizes, {} for a corrupt archive
    lot,             \* answer of the last call
    askedAt,         \* history: when the call began
    gaveUp           \* history: the call could not replace the file

masterVars == <<clock, csvAt, csv, whole, holder, pc, asked, load, lot, askedAt, gaveUp>>
fileVars   == <<csvAt, csv, whole>>

ASSUME MasterAssumption ==
    /\ Ttl \in Nat \ {0} /\ LastTick \in Nat /\ NoHolder \notin Bots
    /\ \A t \in 0..LastTick : Listed[t] \subseteq Nat /\ Listed[t] # {}

\* Mutant: any file will do.
FreshForEver == csvAt # Absent

\* The file is there and younger than a day.
Fresh == csvAt # Absent /\ clock - csvAt < Ttl

\* The sizes a reader can see: all rows of a whole file, the first ones of one that
\* is being written.
Readable == IF whole THEN {csv} ELSE SUBSET csv

-----------------------------------------------------------------------------
\* _ensure_instrument_master: no lock is taken for a fresh file.
Ask(b) ==
    /\ pc[b] = "idle" /\ asked[b] < MasterCalls
    /\ pc' = [pc EXCEPT ![b] = IF Fresh THEN "read" ELSE "lock"]
    /\ asked' = [asked EXCEPT ![b] = @ + 1]
    /\ askedAt' = [askedAt EXCEPT ![b] = clock]
    /\ gaveUp' = [gaveUp EXCEPT ![b] = FALSE]
    /\ UNCHANGED <<clock, fileVars, holder, load, lot>>

\* Under the lock the age is read again: another bot may have downloaded meanwhile.
Lock(b) ==
    /\ pc[b] = "lock" /\ holder = NoHolder
    /\ IF Fresh
       THEN pc' = [pc EXCEPT ![b] = "read"] /\ UNCHANGED holder
       ELSE pc' = [pc EXCEPT ![b] = "fetch"] /\ holder' = b
    /\ UNCHANGED <<clock, fileVars, asked, load, lot, askedAt, gaveUp>>

\* Without a file there is no answer, an old one is used.
UseWhatIsThere(b) ==
    IF csvAt = Absent
    THEN pc' = [pc EXCEPT ![b] = "idle"] /\ lot' = [lot EXCEPT ![b] = NoLot]
    ELSE pc' = [pc EXCEPT ![b] = "read"] /\ UNCHANGED lot

\* The holder has kept the lock for ten seconds; its download may take fifteen.
LockTimeout(b) ==
    /\ pc[b] = "lock" /\ holder # NoHolder
    /\ UseWhatIsThere(b)
    /\ gaveUp' = [gaveUp EXCEPT ![b] = TRUE]
    /\ UNCHANGED <<clock, fileVars, holder, asked, askedAt, load>>

\* requests.get and raise_for_status.
DownloadFails(b) ==
    /\ pc[b] = "fetch"
    /\ UseWhatIsThere(b)
    /\ holder' = NoHolder
    /\ gaveUp' = [gaveUp EXCEPT ![b] = TRUE]
    /\ UNCHANGED <<clock, fileVars, asked, askedAt, load>>

\* open(csv_path, "wb") empties the file before the archive is unpacked.
Truncate(b, sizes) ==
    /\ pc[b] = "fetch"
    /\ load' = [load EXCEPT ![b] = sizes]
    /\ csvAt' = clock /\ csv' = {} /\ whole' = FALSE
    /\ pc' = [pc EXCEPT ![b] = "write"]
    /\ UNCHANGED <<clock, holder, asked, lot, askedAt, gaveUp>>

\* f.write puts the rows into the file piece by piece.
WriteSome(b) ==
    /\ pc[b] = "write" /\ csv # load[b]
    /\ csvAt' = clock /\ csv' = load[b] /\ whole' = FALSE
    /\ UNCHANGED <<clock, holder, pc, asked, load, lot, askedAt, gaveUp>>

\* The last piece; or unpacking failed, and the file stays as it is.
EndWrite(b) ==
    /\ pc[b] = "write" /\ csv = load[b]
    /\ csvAt' = clock /\ whole' = (load[b] # {}) /\ UNCHANGED csv
    /\ holder' = NoHolder
    /\ pc' = [pc EXCEPT ![b] = "read"]
    /\ gaveUp' = [gaveUp EXCEPT ![b] = load[b] = {}]
    /\ UNCHANGED <<clock, asked, load, lot, askedAt>>

\* lot_size_from_master: the largest size shown.
LargestShown(seen) == IF seen = {} THEN NoLot ELSE Max(seen)

\* get_lot_size reads the file without the lock.
Read(b) ==
    /\ pc[b] = "read"
    /\ \E seen \in Readable :
        lot' = [lot EXCEPT ![b] = LargestShown(seen)]
    /\ pc' = [pc EXCEPT ![b] = "idle"]
    /\ UNCHANGED <<clock, fileVars, holder, asked, load, askedAt, gaveUp>>

\* The process dies: the system releases its lock, the file keeps what was written.
Die(b) ==
    /\ pc[b] # "idle"
    /\ pc' = [pc EXCEPT ![b] = "idle"]
    /\ holder' = IF holder = b THEN NoHolder ELSE holder
    /\ UNCHANGED <<clock, fileVars, asked, load, lot, askedAt, gaveUp>>

PassTime ==
    /\ clock < LastTick
    /\ clock' = clock + 1
    /\ UNCHANGED <<fileVars, holder, pc, asked, load, lot, askedAt, gaveUp>>

MasterInit ==
    /\ clock = 0
    /\ csvAt = Absent /\ csv = {} /\ whole = FALSE
    /\ holder = NoHolder
    /\ pc = [b \in Bots |-> "idle"] /\ asked = [b \in Bots |-> 0]
    /\ load = [b \in Bots |-> {}]
    /\ lot = [b \in Bots |-> NoLot]
    /\ askedAt = [b \in Bots |-> 0]
    /\ gaveUp = [b \in Bots |-> FALSE]

MasterNext ==
    \/ \E b \in Bots :
        \/ Ask(b) \/ Lock(b) \/ LockTimeout(b) \/ DownloadFails(b)
        \/ \E sizes \in {Listed[clock], {}} : Truncate(b, sizes)
        \/ WriteSome(b) \/ EndWrite(b) \/ Read(b) \/ Die(b)
    \/ PassTime

MasterSpec == MasterInit /\ [][MasterNext]_masterVars

-----------------------------------------------------------------------------
(* Action property: a download never replaces a file that is still fresh,  *)
(* not even when two bots found the old one stale at the same time; it may *)
(* finish the file it has begun (client.py:156, "Recheck staleness inside  *)
(* lock").                                                                 *)
OneDownloadPerDay ==
    [][\A b \in Bots : (pc[b] = "fetch" /\ pc'[b] = "write") => ~Fresh]_masterVars

(* An empty or broken master, left by a corrupt archive or by a bot that   *)
(* died while writing, shuts the bots out for a day and not for longer: a  *)
(* call reads one only while it is younger than the limit, or because this *)
(* call's own attempt to replace it failed (client.py:143).                *)
BadMasterExpires ==
    \A b \in Bots :
        (pc[b] = "read" /\ ~whole /\ ~gaveUp[b]) => askedAt[b] - csvAt < Ttl

(* settings.py:157: "Take the max ... undersizing is an invalid quantity   *)
(* that trades wrong": a lot size that is answered is the larger of the    *)
(* two wherever the file's day listed two.                                 *)
NeverUndersized ==
    \A b \in Bots : lot[b] # NoLot => \E t \in 0..clock : lot[b] = Max(Listed[t])
=============================================================================
