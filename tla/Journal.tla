------------------------------ MODULE Journal ------------------------------
(***************************************************************************)
(* The checksummed, fsync-before-acknowledgement journal that SGW-C, PGW-C *)
(* and the usage ledger keep their state in (internal/controlstate).       *)
(*                                                                         *)
(* A frame is a boot record (the recovery counter of an ownership epoch)   *)
(* or an opaque data record; every frame has size one.  Encoding, CRCs and *)
(* file-permission checks are abstracted: a frame is either complete or it *)
(* is the partial last frame of the file ("torn").                         *)
(*                                                                         *)
(* Two crashes are modelled.  Kill ends the process and keeps the page     *)
(* cache: every write survives.  PowerLoss keeps what was fsynced, any     *)
(* prefix of the frames written after that, and, as long as the directory  *)
(* was not fsynced after a create or a rename, possibly the file that the  *)
(* name denoted before.  FsyncCommitsRename says whether fsync of the file *)
(* itself also makes the pending create or rename durable (journalling     *)
(* file systems do this; POSIX does not promise it).                       *)
(***************************************************************************)
EXTENDS Integers, Sequences, FiniteSets

CONSTANTS
    Records,            \* opaque data records a caller may append
    Snapshots,          \* record sequences a caller may compact the log to
    MaxFrames,          \* Config.MaxBytes, in frames
    CounterMod,         \* 256 in the code: the counter is a uint8
    RecoverySeed,       \* Config.RecoverySeed: the first counter ever used
    FsyncCommitsRename, \* file-system assumption, see above
    NoCounter           \* "no epoch was acknowledged yet"

ASSUME BoundsAssumption ==
    /\ MaxFrames \in Nat \ {0}
    /\ CounterMod \in Nat \ {0}
    /\ RecoverySeed \in 0..(CounterMod - 1)
    /\ NoCounter \notin 0..(CounterMod - 1)
    /\ FsyncCommitsRename \in BOOLEAN

ASSUME SnapshotsAssumption == Snapshots \subseteq Seq(Records)

VARIABLES
    hdr,        \* file header of the named file: see Headers
    hdrSynced,  \* the header is known to be on stable storage
    frames,     \* complete frames of the named file, as the page cache has them
    synced,     \* how many of them are known to be on stable storage
    torn,       \* a partial frame follows them
    stale,      \* files the name may denote again after a power loss
    tmp,        \* a compaction file was left in the directory
    proc,       \* "down", "opening", "open" (replayed), "started"
    pc,         \* the system call the owner executes next
    dirty,      \* Open must fsync the directory before it returns
    snap,       \* the frames of the replacement file while compacting
    failed,     \* Journal.failed # nil
    counter,    \* stats.RecoveryCounter
    allowed,    \* ghost: the logs a recovery may produce
    served      \* ghost: counter of the last acknowledged Start

disk == <<hdr, hdrSynced, frames, synced, torn, stale, tmp>>
owner == <<proc, pc, dirty, snap, failed, counter>>
ghosts == <<allowed, served>>
vars == <<hdr, hdrSynced, frames, synced, torn, stale, tmp,
          proc, pc, dirty, snap, failed, counter, allowed, served>>

Headers == {"absent", "empty", "torn", "ok"}
Counters == 0..(CounterMod - 1)

Boot(c) == [type |-> "boot", n |-> c]
Data(r) == [type |-> "data", n |-> r]
Frame == [type : {"boot"}, n : Counters] \cup [type : {"data"}, n : Records]
IsBoot(f) == f.type = "boot"

(* Mutant: the compacted file restarts the counter at the seed. *)
ReplacementReseeded(records, c) ==
    [i \in 1..(Len(records) + 1) |->
        IF i = 1 THEN Boot(RecoverySeed) ELSE Data(records[i - 1])]

(* The frames of a compacted file: every snapshot record, behind the boot   *)
(* record of this epoch.                                                    *)
Replacement(records, c) ==
    [i \in 1..(Len(records) + 1) |->
        IF i = 1 THEN Boot(c) ELSE Data(records[i - 1])]

Absent == [hdr |-> "absent", frames |-> <<>>]
Intact(s) == [hdr |-> "ok", frames |-> s]
Prefix(s, n) == SubSeq(s, 1, n)

-----------------------------------------------------------------------------
(* What replay accepts.  No data record precedes the first boot record, and *)
(* each boot record carries its predecessor's counter plus one.             *)

Consecutive(s, i, j) ==
    /\ i < j /\ IsBoot(s[i]) /\ IsBoot(s[j])
    /\ \A k \in (i + 1)..(j - 1) : ~IsBoot(s[k])

Replayable(s) ==
    /\ Len(s) <= MaxFrames
    /\ Len(s) > 0 => IsBoot(s[1])
    /\ \A i, j \in 1..Len(s) :
          Consecutive(s, i, j) => s[j].n = (s[i].n + 1) % CounterMod

LastBoot(s) ==
    CHOOSE i \in 1..Len(s) :
        IsBoot(s[i]) /\ \A j \in 1..Len(s) : IsBoot(s[j]) => j <= i

(* The counter of the next epoch: the seed for a log without boot records. *)
NextCounter(s) ==
    IF \E i \in 1..Len(s) : IsBoot(s[i])
    THEN (s[LastBoot(s)].n + 1) % CounterMod
    ELSE RecoverySeed

(* External: the files a power loss may leave under the journal's name. *)
Survivors ==
    stale \cup
    (IF hdrSynced
     THEN {Intact(Prefix(frames, n)) : n \in synced..Len(frames)}
     ELSE IF hdr = "absent" THEN {Absent}
     ELSE {[hdr |-> h, frames |-> <<>>] : h \in {"empty", "torn"}}
          \cup (IF hdr = "ok"
                THEN {Intact(Prefix(frames, n)) : n \in 0..Len(frames)}
                ELSE {}))

(* A successful fsync of the named file. *)
StaleAfterFsync == IF FsyncCommitsRename THEN {} ELSE stale

-----------------------------------------------------------------------------
Init ==
    /\ hdr = "absent" /\ hdrSynced = FALSE /\ frames = <<>> /\ synced = 0
    /\ torn = FALSE /\ stale = {} /\ tmp = FALSE
    /\ proc = "down" /\ pc = "idle" /\ dirty = FALSE /\ snap = <<>>
    /\ failed = FALSE /\ counter = RecoverySeed
    /\ allowed = {<<>>} /\ served = NoCounter

(* The process is gone, or Open returned an error: memory is forgotten. *)
Forget ==
    /\ proc' = "down" /\ pc' = "idle" /\ dirty' = FALSE /\ snap' = <<>>
    /\ failed' = FALSE /\ counter' = RecoverySeed

(* open: take the locks, remove stale compaction files, open or create the *)
(* journal file.  Whether the directory is fsynced at the end is decided   *)
(* here.                                                                   *)
OpenFile ==
    /\ proc = "down"
    /\ proc' = "opening" /\ pc' = "replay"
    /\ dirty' = (hdr = "absent" \/ tmp)
    /\ tmp' = FALSE
    /\ hdr' = IF hdr = "absent" THEN "empty" ELSE hdr
    /\ stale' = IF hdr = "absent" THEN stale \cup {Absent} ELSE stale
    /\ UNCHANGED <<hdrSynced, frames, synced, torn, snap, failed, counter, ghosts>>

(* replay of an empty file writes the header ... *)
WriteHeader ==
    /\ pc = "replay" /\ hdr = "empty"
    /\ hdr' = "ok" /\ pc' = "syncHeader"
    /\ UNCHANGED <<hdrSynced, frames, synced, torn, stale, tmp,
                   proc, dirty, snap, failed, counter, ghosts>>

(* ... which may fail half way; Open then returns the error. *)
WriteHeaderFails ==
    /\ pc = "replay" /\ hdr = "empty"
    /\ \E h \in {"empty", "torn"} : hdr' = h
    /\ Forget
    /\ UNCHANGED <<hdrSynced, frames, synced, torn, stale, tmp, ghosts>>

SyncHeader ==
    /\ pc = "syncHeader"
    /\ hdrSynced' = TRUE /\ stale' = StaleAfterFsync /\ pc' = "opened"
    /\ counter' = RecoverySeed
    /\ UNCHANGED <<hdr, frames, synced, torn, tmp,
                   proc, dirty, snap, failed, ghosts>>

(* replay of a well-formed file; a partial last frame is truncated and the *)
(* truncation fsynced, otherwise nothing is fsynced.                       *)
Replay ==
    /\ pc = "replay" /\ hdr = "ok" /\ Replayable(frames)
    /\ pc' = "opened" /\ counter' = NextCounter(frames)
    /\ torn' = FALSE
    /\ synced' = IF torn THEN Len(frames) ELSE synced
    /\ hdrSynced' = (torn \/ hdrSynced)
    /\ stale' = IF torn THEN StaleAfterFsync ELSE stale
    /\ UNCHANGED <<hdr, frames, tmp, proc, dirty, snap, failed, ghosts>>

(* ErrCorrupt or ErrCapacity from replay. *)
ReplayRejects ==
    /\ pc = "replay"
    /\ hdr = "torn" \/ (hdr = "ok" /\ ~Replayable(frames))
    /\ Forget
    /\ UNCHANGED <<disk, ghosts>>

(* The last step of open. *)
OpenReturns ==
    /\ pc = "opened"
    /\ proc' = "open" /\ pc' = "idle" /\ dirty' = FALSE
    /\ stale' = IF dirty THEN {} ELSE stale
    /\ UNCHANGED <<hdr, hdrSynced, frames, synced, torn, tmp,
                   snap, failed, counter, ghosts>>

(* Some fsync of open fails: the header's, the truncated tail's or the     *)
(* directory's.                                                            *)
OpenFails ==
    /\ pc \in {"syncHeader", "opened"} \/ (pc = "replay" /\ torn)
    /\ Forget
    /\ UNCHANGED <<disk, ghosts>>

-----------------------------------------------------------------------------
(* Start and Append.  Both go through appendFrame: capacity check, write,  *)
(* fsync.  An invalid record length is refused without any state change    *)
(* and is not modelled.                                                    *)

HasRoom == Len(frames) + 1 <= MaxFrames

StartWrite ==
    /\ proc = "open" /\ pc = "idle" /\ ~failed /\ HasRoom
    /\ frames' = Append(frames, Boot(counter))
    /\ allowed' = allowed \cup {frames'}
    /\ pc' = "syncBoot"
    /\ UNCHANGED <<hdr, hdrSynced, synced, torn, stale, tmp,
                   proc, dirty, snap, failed, counter, served>>

(* The fsync that makes a new ownership epoch official. *)
StartSync ==
    /\ pc = "syncBoot"
    /\ hdrSynced' = TRUE /\ synced' = Len(frames) /\ stale' = StaleAfterFsync
    /\ proc' = "started" /\ pc' = "idle"
    /\ allowed' = {frames} /\ served' = counter
    /\ UNCHANGED <<hdr, frames, torn, tmp, dirty, snap, failed, counter>>

AppendWrite(r) ==
    /\ proc = "started" /\ pc = "idle" /\ ~failed /\ HasRoom
    /\ frames' = Append(frames, Data(r))
    /\ allowed' = allowed \cup {frames'}
    /\ pc' = "syncData"
    /\ UNCHANGED <<hdr, hdrSynced, synced, torn, stale, tmp,
                   proc, dirty, snap, failed, counter, served>>

(* Mutant: Append returns without waiting for the fsync. *)
AppendSyncSkipped ==
    /\ pc = "syncData"
    /\ pc' = "idle" /\ allowed' = {frames}
    /\ UNCHANGED <<disk, proc, dirty, snap, failed, counter, served>>

(* The fsync after which Append returns nil. *)
AppendSync ==
    /\ pc = "syncData"
    /\ hdrSynced' = TRUE /\ synced' = Len(frames) /\ stale' = StaleAfterFsync
    /\ pc' = "idle" /\ allowed' = {frames}
    /\ UNCHANGED <<hdr, frames, torn, tmp, proc, dirty, snap, failed, counter, served>>

(* ErrCapacity, or a write that fails before or within the frame: the      *)
(* journal refuses everything from here on.                                *)
WriteFails ==
    /\ proc \in {"open", "started"} /\ pc = "idle" /\ ~failed
    /\ failed' = TRUE
    /\ \E partial \in BOOLEAN : torn' = (partial /\ HasRoom)
    /\ UNCHANGED <<hdr, hdrSynced, frames, synced, stale, tmp,
                   proc, pc, dirty, snap, counter, ghosts>>

(* The fsync fails: the frame is in doubt. *)
SyncFails ==
    /\ pc \in {"syncBoot", "syncData"}
    /\ failed' = TRUE /\ pc' = "idle"
    /\ UNCHANGED <<disk, proc, dirty, snap, counter, ghosts>>

-----------------------------------------------------------------------------
(* NeedsCompaction: compaction is the only way to make room, or at least   *)
(* half of the limit is used and a quarter of it is reclaimable.           *)
NeedsCompaction(snapshotLen) ==
    LET compact == snapshotLen + 1 IN
    IF Len(frames) + 1 > MaxFrames
    THEN compact + 1 <= MaxFrames
    ELSE /\ Len(frames) >= MaxFrames \div 2
         /\ Len(frames) - compact >= MaxFrames \div 4

(* Compact: the replacement is written to a temporary file and fsynced. *)
CompactWrite(records) ==
    /\ proc = "started" /\ pc = "idle" /\ ~failed
    /\ NeedsCompaction(Len(records)) /\ Len(records) + 1 <= MaxFrames
    /\ snap' = records /\ tmp' = TRUE /\ pc' = "rename"
    /\ UNCHANGED <<hdr, hdrSynced, frames, synced, torn, stale,
                   proc, dirty, failed, counter, ghosts>>

(* Any error before the rename: the temporary file is unlinked, best       *)
(* effort, and the journal stays usable.                                   *)
CompactAborts ==
    /\ pc = "rename"
    /\ pc' = "idle" /\ snap' = <<>>
    /\ \E left \in BOOLEAN : tmp' = left
    /\ UNCHANGED <<hdr, hdrSynced, frames, synced, torn, stale,
                   proc, dirty, failed, counter, ghosts>>

CompactRename ==
    /\ pc = "rename"
    /\ frames' = Replacement(snap, counter) /\ synced' = Len(snap) + 1
    /\ stale' = stale \cup {Intact(frames)}
    /\ tmp' = FALSE /\ snap' = <<>> /\ pc' = "syncDir"
    /\ allowed' = allowed \cup {frames'}
    /\ UNCHANGED <<hdr, hdrSynced, torn, proc, dirty, failed, counter, served>>

CompactSync ==
    /\ pc = "syncDir"
    /\ stale' = {} /\ pc' = "idle" /\ allowed' = {frames}
    /\ UNCHANGED <<hdr, hdrSynced, frames, synced, torn, tmp,
                   proc, dirty, snap, failed, counter, served>>

(* The directory fsync fails, or, after it, releasing the old file does. *)
CompactSyncFails ==
    /\ pc = "syncDir"
    /\ \E done \in BOOLEAN : stale' = IF done THEN {} ELSE stale
    /\ pc' = "idle" /\ failed' = TRUE
    /\ UNCHANGED <<hdr, hdrSynced, frames, synced, torn, tmp,
                   proc, dirty, snap, counter, ghosts>>

-----------------------------------------------------------------------------
(* Close, or a process that dies: locks are released, the page cache stays. *)
Kill ==
    /\ proc # "down"
    /\ Forget
    /\ UNCHANGED <<disk, ghosts>>

(* External: the host loses power.  A survivor may carry a partial frame    *)
(* of what followed it in the page cache.  The ghost forgets the outcomes   *)
(* that did not happen.                                                     *)
PowerLoss ==
    /\ \E c \in Survivors :
          /\ hdr' = c.hdr /\ hdrSynced' = (c.hdr = "ok")
          /\ frames' = c.frames /\ synced' = Len(c.frames)
          /\ \E partial \in BOOLEAN :
                torn' = (partial /\ c.hdr = "ok"
                         /\ (torn \/ Len(c.frames) < Len(frames)))
          /\ allowed' = IF c.frames \in allowed THEN {c.frames} ELSE allowed
    /\ \E left \in BOOLEAN : tmp' = (left /\ tmp)
    /\ stale' = {}
    /\ Forget
    /\ UNCHANGED served

-----------------------------------------------------------------------------
Opening == \/ OpenFile \/ WriteHeader \/ WriteHeaderFails \/ SyncHeader
           \/ Replay \/ ReplayRejects \/ OpenReturns \/ OpenFails

Starting == StartWrite \/ StartSync

Appending == (\E r \in Records : AppendWrite(r)) \/ AppendSync

Compacting == \/ \E records \in Snapshots : CompactWrite(records)
              \/ CompactAborts \/ CompactRename \/ CompactSync \/ CompactSyncFails

Next == \/ Opening \/ Starting \/ Appending \/ Compacting
        \/ WriteFails \/ SyncFails \/ Kill \/ PowerLoss

Spec == Init /\ [][Next]_vars

-----------------------------------------------------------------------------
File == [hdr : Headers, frames : Seq(Frame)]

(* Every variable of the journal has its type. *)
TypeOK ==
    /\ hdr \in Headers /\ hdrSynced \in BOOLEAN
    /\ frames \in Seq(Frame) /\ synced \in 0..Len(frames) /\ torn \in BOOLEAN
    /\ stale \subseteq File /\ tmp \in BOOLEAN
    /\ proc \in {"down", "opening", "open", "started"}
    /\ pc \in {"idle", "replay", "syncHeader", "opened", "syncBoot",
               "syncData", "rename", "syncDir"}
    /\ dirty \in BOOLEAN /\ snap \in Seq(Records) /\ failed \in BOOLEAN
    /\ counter \in Counters
    /\ allowed \subseteq Seq(Frame) /\ served \in Counters \cup {NoCounter}

(* "appended and fsynced before the in-memory indexes change or GTPv2-C     *)
(* acknowledgement is sent": whenever the process or the host stops, what   *)
(* Open finds is the acknowledged log or, while one call is in doubt, that  *)
(* log with the one frame, or the one compaction, that was in flight.  The  *)
(* old log and a compacted one are never mixed.                             *)
AckedLogSurvives ==
    /\ frames \in allowed
    /\ \A c \in Survivors : c.frames \in allowed

(* Open's fail-closed checks never fire on a journal this code wrote: once  *)
(* an epoch was acknowledged, every file a crash can leave has its header,  *)
(* fits, and passes replay's counter and ordering checks.                   *)
AckedJournalReopens ==
    served # NoCounter =>
        /\ hdr = "ok" /\ Replayable(frames)
        /\ \A c \in Survivors : c.hdr = "ok" /\ Replayable(c.frames)

(* A restart is visible to peers: two acknowledged epochs in a row never    *)
(* carry the same recovery counter, whatever failed or was lost in between, *)
(* while CounterMod > MaxFrames.  Where a file holds CounterMod boot records *)
(* the counter can come round through starts that were never acknowledged.  *)
RestartIsVisible ==
    [][proc # "started" /\ proc' = "started" => served' # served]_vars
=============================================================================
