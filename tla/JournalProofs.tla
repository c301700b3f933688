--------------------------- MODULE JournalProofs ---------------------------
(***************************************************************************)
(* Proofs that the journal keeps what it acknowledged, for every set of    *)
(* records and snapshots, every size limit and every counter width, on a   *)
(* file system whose fsync of a file also commits the rename that          *)
(* installed it.                                                           *)
(***************************************************************************)
EXTENDS Journal, SequenceTheorems, WellFoundedInduction, TLAPS

(* Which step of which call the owner can be in. *)
OwnerInv ==
    /\ proc = "down" => pc = "idle"
    /\ proc = "opening" <=> pc \in {"replay", "syncHeader", "opened"}
    /\ pc = "syncBoot" => proc = "open"
    /\ pc \in {"syncData", "rename", "syncDir"} => proc = "started"
    /\ snap \in Snapshots \cup {<<>>}
    /\ pc = "rename" => Len(snap) + 1 <= MaxFrames

(* The header is written, and made durable, before any frame. *)
HeaderInv ==
    /\ hdrSynced => hdr = "ok"
    /\ hdr # "ok" => frames = <<>>
    /\ ~hdrSynced => synced = 0
    /\ proc \in {"open", "started"} \/ pc \in {"syncHeader", "opened"} => hdr = "ok"
    /\ pc = "syncHeader" => frames = <<>>
    /\ proc = "opening" => hdr # "absent"
    /\ proc = "started" \/ served # NoCounter => hdrSynced
    /\ served # NoCounter => \A c \in stale : c.hdr = "ok"
    /\ \A c \in stale : c.hdr # "ok" => c.frames = <<>>

(* Where the acknowledged log can be, and what the next append relies on. *)
LogInv ==
    /\ frames \in allowed
    /\ \A s \in allowed : Replayable(s)
    /\ \A c \in stale : c.frames \in allowed
    /\ \A n \in synced..Len(frames) : Prefix(frames, n) \in allowed
    /\ pc \in {"rename", "syncDir"} => synced = Len(frames)
    /\ proc = "started" /\ pc = "idle" /\ ~failed => synced = Len(frames)
    /\ pc = "syncBoot" \/ proc = "started" => Len(frames) > 0
    /\ pc = "opened" \/ (proc = "open" /\ pc = "idle" /\ ~failed)
            => counter = NextCounter(frames)

IInv == TypeOK /\ OwnerInv /\ HeaderInv /\ LogInv

-----------------------------------------------------------------------------
(* Sequences. *)

LEMMA FrameTypes ==
    /\ \A c \in Counters : Boot(c) \in Frame /\ IsBoot(Boot(c)) /\ Boot(c).n = c
    /\ \A r \in Records : Data(r) \in Frame /\ ~IsBoot(Data(r))
BY DEF Boot, Data, Frame, IsBoot

(* A prefix of an appended log is a prefix of the log, or all of it. *)
LEMMA PrefixOfAppend ==
    ASSUME NEW s \in Seq(Frame), NEW f \in Frame, NEW n \in 0..(Len(s) + 1)
    PROVE  /\ n <= Len(s) => Prefix(Append(s, f), n) = Prefix(s, n)
           /\ n = Len(s) + 1 => Prefix(Append(s, f), n) = Append(s, f)
<1>1. Append(s, f) \in Seq(Frame) /\ Len(Append(s, f)) = Len(s) + 1
  BY AppendProperties
<1>2. CASE n <= Len(s)
  <2>1. Append(s, f) = s \o <<f>>
    BY AppendIsConcat
  <2>2. <<f>> \in Seq(Frame)
    OBVIOUS
  <2>3. SubSeq(s \o <<f>>, 1, n) = SubSeq(s, 1, n)
    BY <1>2, <2>2, SubSeqOfConcat1
  <2> QED
    BY <1>2, <2>1, <2>3 DEF Prefix
<1>3. CASE n = Len(s) + 1
  BY <1>1, <1>3, SubSeqFull DEF Prefix
<1> QED
  BY <1>2, <1>3

LEMMA PrefixFull ==
    ASSUME NEW s \in Seq(Frame)
    PROVE  Prefix(s, Len(s)) = s
BY SubSeqFull DEF Prefix

(* The replacement of a compaction is a log of the right length. *)
LEMMA ReplacementType ==
    ASSUME NEW records \in Seq(Records), NEW c \in Counters
    PROVE  /\ Replacement(records, c) \in Seq(Frame)
           /\ Len(Replacement(records, c)) = Len(records) + 1
           /\ IsBoot(Replacement(records, c)[1])
           /\ \A i \in 2..(Len(records) + 1) : ~IsBoot(Replacement(records, c)[i])
<1> DEFINE N == Len(records) + 1
<1>1. N \in Nat /\ \A i \in 1..N : i # 1 => records[i - 1] \in Records
  BY ElementOfSeq
<1>2. \A i \in 1..N : (IF i = 1 THEN Boot(c) ELSE Data(records[i - 1])) \in Frame
  BY <1>1, FrameTypes
<1>3. Replacement(records, c) \in [1..N -> Frame]
  BY <1>2 DEF Replacement
<1>4. Replacement(records, c) \in Seq(Frame) /\ Len(Replacement(records, c)) = N
  BY <1>1, <1>3, LenProperties, IsASeq
<1>5. \A i \in 2..N : ~IsBoot(Replacement(records, c)[i])
  BY <1>1, FrameTypes DEF Replacement
<1>6. IsBoot(Replacement(records, c)[1])
  BY <1>1, FrameTypes DEF Replacement
<1> QED
  BY <1>4, <1>5, <1>6

LEMMA ReplacementReplayable ==
    ASSUME NEW records \in Seq(Records), NEW c \in Counters,
           Len(records) + 1 <= MaxFrames
    PROVE  Replayable(Replacement(records, c))
BY ReplacementType DEF Replayable, Consecutive

(* A data record keeps a non-empty log replayable. *)
LEMMA DataReplayable ==
    ASSUME NEW s \in Seq(Frame), Replayable(s), Len(s) > 0,
           Len(s) + 1 <= MaxFrames, NEW r \in Records
    PROVE  Replayable(Append(s, Data(r)))
<1> DEFINE t == Append(s, Data(r))
<1>1. /\ Len(t) = Len(s) + 1 /\ t[Len(s) + 1] = Data(r)
      /\ \A i \in 1..Len(s) : t[i] = s[i]
  BY FrameTypes, AppendProperties
<1>2. ~IsBoot(t[Len(s) + 1])
  BY <1>1, FrameTypes
<1> HIDE DEF t
<1>3. ASSUME NEW i \in 1..Len(t), NEW j \in 1..Len(t), Consecutive(t, i, j)
      PROVE  t[j].n = (t[i].n + 1) % CounterMod
  <2>1. i \in 1..Len(s) /\ j \in 1..Len(s)
    BY <1>1, <1>2, <1>3 DEF Consecutive
  <2>2. Consecutive(s, i, j)
    BY <1>1, <1>3, <2>1 DEF Consecutive
  <2> QED
    BY <1>1, <2>1, <2>2 DEF Replayable
<1>4. Len(t) <= MaxFrames /\ IsBoot(t[1])
  BY <1>1 DEF Replayable
<1> QED
  BY <1>3, <1>4 DEF Replayable, t

(* The boot record of the next epoch keeps a log replayable: this is where  *)
(* the counter that Open computed meets the check that replay makes.        *)
LEMMA BootReplayable ==
    ASSUME NEW s \in Seq(Frame), Replayable(s), Len(s) + 1 <= MaxFrames,
           NEW c \in Counters, c = NextCounter(s)
    PROVE  Replayable(Append(s, Boot(c)))
<1> DEFINE t == Append(s, Boot(c))
<1>1. /\ Len(t) = Len(s) + 1 /\ t[Len(s) + 1] = Boot(c)
      /\ \A i \in 1..Len(s) : t[i] = s[i]
  BY FrameTypes, AppendProperties
<1>2. IsBoot(t[Len(s) + 1]) /\ t[Len(s) + 1].n = c
  BY <1>1, FrameTypes
<1> HIDE DEF t
<1>3. ASSUME NEW i \in 1..Len(t), NEW j \in 1..Len(t), Consecutive(t, i, j)
      PROVE  t[j].n = (t[i].n + 1) % CounterMod
  <2>1. i \in 1..Len(s) /\ t[i] = s[i] /\ IsBoot(s[i])
    BY <1>1, <1>3 DEF Consecutive
  <2>2. CASE j \in 1..Len(s)
    <3>1. Consecutive(s, i, j)
      BY <1>1, <1>3, <2>1, <2>2 DEF Consecutive
    <3> QED
      BY <1>1, <2>1, <2>2, <3>1 DEF Replayable
  <2>3. CASE j = Len(s) + 1
    <3>1. \A k \in 1..Len(s) : IsBoot(s[k]) => k <= i
      BY <1>1, <1>3, <2>1, <2>3 DEF Consecutive
    <3>2. /\ LastBoot(s) \in 1..Len(s) /\ IsBoot(s[LastBoot(s)])
          /\ \A k \in 1..Len(s) : IsBoot(s[k]) => k <= LastBoot(s)
      BY <2>1, <3>1, Zenon DEF LastBoot
    <3>3. LastBoot(s) = i
      BY <2>1, <3>1, <3>2
    <3> QED
      BY <1>2, <2>1, <2>3, <3>3 DEF NextCounter
  <2> QED
    BY <1>1, <2>2, <2>3
<1>4. Len(t) <= MaxFrames /\ IsBoot(t[1])
  BY <1>1, <1>2 DEF Replayable
<1> QED
  BY <1>3, <1>4 DEF Replayable, t

(* A log with a boot record has a last one, so the counter of the next      *)
(* epoch is a counter.                                                      *)
LEMMA NextCounterType ==
    ASSUME NEW s \in Seq(Frame)
    PROVE  NextCounter(s) \in Counters
<1>1. CASE ~\E i \in 1..Len(s) : IsBoot(s[i])
  BY <1>1, BoundsAssumption DEF NextCounter, Counters
<1>2. CASE \E i \in 1..Len(s) : IsBoot(s[i])
  <2> DEFINE T == {Len(s) - i : i \in {k \in 1..Len(s) : IsBoot(s[k])}}
  <2>1. T \in SUBSET Nat /\ T # {}
    BY <1>2
  <2>2. PICK m \in T : \A n \in T : m <= n
    <3> DEFINE R == OpToRel(<, Nat)
    <3>1. \E m \in T : \A n \in T : ~(<<n, m>> \in R)
      <4> HIDE DEF T, R
      <4> QED
        BY <2>1, NatLessThanWellFounded, WFMin, Zenon DEF R
    <3>2. \A m, n \in Nat : n < m => <<n, m>> \in R
      BY DEF OpToRel
    <3> HIDE DEF T, R
    <3>3. PICK m \in T : \A n \in T : ~(<<n, m>> \in R)
      BY <3>1
    <3>4. m \in Nat /\ \A n \in T : n \in Nat /\ ~(n < m)
      BY <2>1, <3>2, <3>3, Zenon
    <3> QED
      BY <3>4
  <2>3. PICK i \in 1..Len(s) : IsBoot(s[i]) /\ m = Len(s) - i
    BY <2>2
  <2>4. ASSUME NEW j \in 1..Len(s), IsBoot(s[j])
        PROVE  j <= i
    <3>1. Len(s) - j \in T /\ Len(s) \in Nat
      BY <2>4
    <3> HIDE DEF T
    <3>2. m <= Len(s) - j
      BY <2>2, <3>1
    <3> QED
      BY <2>3, <3>1, <3>2
  <2>5. LastBoot(s) \in 1..Len(s) /\ IsBoot(s[LastBoot(s)])
    BY <2>3, <2>4 DEF LastBoot
  <2>6. s[LastBoot(s)].n \in Counters
    BY <2>5, ElementOfSeq DEF Frame, IsBoot
  <2>7. NextCounter(s) = (s[LastBoot(s)].n + 1) % CounterMod
    BY <1>2 DEF NextCounter
  <2>8. \A c \in Counters : (c + 1) % CounterMod \in Counters
    BY BoundsAssumption DEF Counters
  <2> QED
    BY <2>6, <2>7, <2>8
<1> QED
  BY <1>1, <1>2

LEMMA InitialValues ==
    /\ <<>> \in Seq(Frame) /\ <<>> \in Seq(Records) /\ Len(<<>>) = 0
    /\ Prefix(<<>>, 0) = <<>> /\ NextCounter(<<>>) = RecoverySeed
    /\ RecoverySeed \in Counters
<1>1. <<>> \in Seq(Frame) /\ <<>> \in Seq(Records) /\ Len(<<>>) = 0
  OBVIOUS
<1>2. Prefix(<<>>, 0) = <<>>
  BY <1>1, PrefixFull, Zenon
<1>3. NextCounter(<<>>) = RecoverySeed
  BY <1>1 DEF NextCounter
<1> QED
  BY <1>1, <1>2, <1>3, BoundsAssumption DEF Counters

-----------------------------------------------------------------------------
(* The survivors of a power loss are covered by LogInv. *)
LEMMA SurvivorsCovered ==
    ASSUME IInv
    PROVE  \A c \in Survivors :
              /\ c \in File /\ c.frames \in allowed
              /\ c.hdr # "ok" => c.frames = <<>>
              /\ served # NoCounter => c.hdr = "ok"
<1> SUFFICES ASSUME NEW c \in Survivors
             PROVE  /\ c \in File /\ c.frames \in allowed
                    /\ c.hdr # "ok" => c.frames = <<>>
                    /\ served # NoCounter => c.hdr = "ok"
  OBVIOUS
<1> USE DEF IInv
<1>0. /\ Len(frames) \in Nat /\ frames \in Seq(Frame) /\ synced \in 0..Len(frames)
      /\ <<>> \in Seq(Frame)
  BY DEF TypeOK
<1>1. CASE c \in stale
  BY <1>1 DEF TypeOK, HeaderInv, LogInv, File
<1>2. ASSUME NEW n \in synced..Len(frames), c = Intact(Prefix(frames, n))
      PROVE  c \in File /\ c.frames \in allowed /\ c.hdr = "ok"
  <2>1. Prefix(frames, n) \in Seq(Frame)
    BY <1>0, SubSeqProperties DEF Prefix
  <2> QED
    BY <1>2, <2>1 DEF Intact, LogInv, File, Headers
<1>3. <<>> \in allowed \/ hdrSynced
  <2>1. CASE ~hdrSynced
    <3>1. Prefix(frames, 0) \in allowed
      BY <1>0, <2>1 DEF HeaderInv, LogInv
    <3>2. Prefix(frames, 0) = <<>>
      BY <1>0, SubSeqEmpty DEF Prefix
    <3> QED
      BY <3>1, <3>2
  <2> QED
    BY <2>1
<1>4. CASE c \notin stale /\ hdrSynced
  BY <1>2, <1>4 DEF Survivors
<1>5. CASE c \notin stale /\ ~hdrSynced
  <2>1. served = NoCounter
    BY <1>5 DEF HeaderInv
  <2>2. CASE c.frames = <<>> /\ c \in File
    BY <1>3, <1>5, <2>1, <2>2
  <2>3. CASE \E n \in 0..Len(frames) : c = Intact(Prefix(frames, n))
    BY <1>2, <1>5, <2>3 DEF HeaderInv
  <2> QED
    <3>1. [hdr |-> "empty", frames |-> <<>>] \in File
          /\ [hdr |-> "torn", frames |-> <<>>] \in File /\ Absent \in File
      BY <1>0 DEF File, Headers, Absent
    <3>2. CASE hdr = "absent"
      BY <1>5, <2>2, <3>1, <3>2 DEF Survivors, Absent
    <3>3. CASE hdr # "absent"
      BY <1>5, <2>2, <2>3, <3>1, <3>3 DEF Survivors
    <3> QED
      BY <3>2, <3>3
<1> QED
  BY <1>1, <1>4, <1>5

(* What the two safety properties say follows from the inductive invariant. *)
LEMMA InvImpliesSafety ==
    ASSUME IInv
    PROVE  AckedLogSurvives /\ AckedJournalReopens
<1>1. AckedLogSurvives
  BY SurvivorsCovered DEF AckedLogSurvives, IInv, LogInv
<1>2. AckedJournalReopens
  BY SurvivorsCovered DEF AckedJournalReopens, IInv, LogInv, HeaderInv
<1> QED
  BY <1>1, <1>2

-----------------------------------------------------------------------------
LEMMA InitInv == Init => IInv
<1> SUFFICES ASSUME Init PROVE IInv
  OBVIOUS
<1>1. /\ <<>> \in Seq(Frame) /\ <<>> \in Seq(Records) /\ Len(<<>>) = 0
      /\ Prefix(<<>>, 0) = <<>>
  BY PrefixFull, EmptySeq, Zenon
<1>2. Replayable(<<>>)
  BY BoundsAssumption DEF Replayable
<1>3. TypeOK
  <2>1. hdrSynced \in BOOLEAN /\ torn \in BOOLEAN /\ tmp \in BOOLEAN
        /\ dirty \in BOOLEAN /\ failed \in BOOLEAN /\ hdr \in Headers
    BY Zenon DEF Init, Headers
  <2>2. synced \in 0..Len(frames) /\ counter \in Counters
    BY <1>1, BoundsAssumption DEF Init, Counters
  <2> QED
    BY <1>1, <2>1, <2>2, Zenon DEF Init, TypeOK
<1>4. OwnerInv /\ HeaderInv
  BY DEF Init, OwnerInv, HeaderInv
<1>5. LogInv
  BY <1>1, <1>2 DEF Init, LogInv
<1> QED
  BY <1>3, <1>4, <1>5 DEF IInv

-----------------------------------------------------------------------------
(* Every step preserves the inductive invariant. *)

LEMMA OpenFileInv ==
    ASSUME IInv, FsyncCommitsRename, OpenFile
    PROVE  IInv'
<1>0. Absent \in File /\ Absent.frames = <<>> /\ Absent.hdr # "ok"
  BY InitialValues DEF Absent, File, Headers
<1>1. TypeOK'
  <2>1. dirty' \in BOOLEAN /\ tmp' \in BOOLEAN
    BY Zenon DEF OpenFile
  <2> QED
    BY <1>0, <2>1 DEF IInv, TypeOK, OpenFile, ghosts, Headers
<1>2. OwnerInv'
  BY DEF IInv, OwnerInv, OpenFile, disk, ghosts, StaleAfterFsync
<1>3. HeaderInv'
  BY <1>0 DEF IInv, TypeOK, OwnerInv, HeaderInv, OpenFile, ghosts
<1>4. LogInv'
  BY <1>0 DEF IInv, TypeOK, OwnerInv, HeaderInv, LogInv, OpenFile, ghosts
<1> QED
  BY <1>1, <1>2, <1>3, <1>4 DEF IInv

LEMMA WriteHeaderInv ==
    ASSUME IInv, FsyncCommitsRename, WriteHeader
    PROVE  IInv'
<1>1. TypeOK'
  BY DEF IInv, TypeOK, WriteHeader, disk, ghosts, StaleAfterFsync, Headers
<1>2. OwnerInv'
  BY DEF IInv, OwnerInv, WriteHeader, disk, ghosts, StaleAfterFsync
<1>3. HeaderInv'
  BY DEF IInv, TypeOK, OwnerInv, HeaderInv, WriteHeader, disk, ghosts, StaleAfterFsync
<1>4. LogInv'
  BY DEF IInv, TypeOK, OwnerInv, HeaderInv, LogInv, WriteHeader, disk, ghosts, StaleAfterFsync
<1> QED
  BY <1>1, <1>2, <1>3, <1>4 DEF IInv

LEMMA WriteHeaderFailsInv ==
    ASSUME IInv, FsyncCommitsRename, WriteHeaderFails
    PROVE  IInv'
<1>1. TypeOK'
  BY InitialValues, Zenon DEF IInv, TypeOK, WriteHeaderFails, Forget, disk, ghosts, StaleAfterFsync, Headers
<1>2. OwnerInv'
  BY DEF IInv, OwnerInv, WriteHeaderFails, Forget, disk, ghosts, StaleAfterFsync
<1>3. HeaderInv'
  BY DEF IInv, TypeOK, OwnerInv, HeaderInv, WriteHeaderFails, Forget, disk, ghosts, StaleAfterFsync
<1>4. LogInv'
  BY DEF IInv, TypeOK, OwnerInv, HeaderInv, LogInv, WriteHeaderFails, Forget, disk, ghosts, StaleAfterFsync
<1> QED
  BY <1>1, <1>2, <1>3, <1>4 DEF IInv

LEMMA SyncHeaderInv ==
    ASSUME IInv, FsyncCommitsRename, SyncHeader
    PROVE  IInv'
<1>1. TypeOK'
  BY InitialValues DEF IInv, TypeOK, SyncHeader, ghosts, StaleAfterFsync
<1>2. OwnerInv'
  BY DEF IInv, OwnerInv, SyncHeader, disk, ghosts, StaleAfterFsync
<1>3. HeaderInv'
  BY DEF IInv, TypeOK, OwnerInv, HeaderInv, SyncHeader, disk, ghosts, StaleAfterFsync
<1>4. LogInv'
  BY InitialValues DEF IInv, TypeOK, OwnerInv, HeaderInv, LogInv, SyncHeader, ghosts, StaleAfterFsync
<1> QED
  BY <1>1, <1>2, <1>3, <1>4 DEF IInv

LEMMA ReplayInv ==
    ASSUME IInv, FsyncCommitsRename, Replay
    PROVE  IInv'
<1>1. TypeOK'
  <2>1. torn' \in BOOLEAN /\ hdrSynced' \in BOOLEAN /\ stale' \subseteq File
    BY Zenon DEF IInv, TypeOK, Replay, StaleAfterFsync
  <2>2. synced' \in 0..Len(frames') /\ counter' \in Counters
    BY NextCounterType DEF IInv, TypeOK, Replay
  <2> QED
    BY <2>1, <2>2 DEF IInv, TypeOK, Replay, ghosts
<1>2. OwnerInv'
  BY DEF IInv, OwnerInv, Replay, disk, ghosts, StaleAfterFsync
<1>3. HeaderInv'
  BY DEF IInv, TypeOK, OwnerInv, HeaderInv, Replay, disk, ghosts, StaleAfterFsync
<1>4. LogInv'
  BY DEF IInv, TypeOK, OwnerInv, HeaderInv, LogInv, Replay, disk, ghosts, StaleAfterFsync
<1> QED
  BY <1>1, <1>2, <1>3, <1>4 DEF IInv

LEMMA ReplayRejectsInv ==
    ASSUME IInv, FsyncCommitsRename, ReplayRejects
    PROVE  IInv'
<1>1. TypeOK'
  BY InitialValues, Zenon DEF IInv, TypeOK, ReplayRejects, Forget, disk, ghosts, StaleAfterFsync
<1>2. OwnerInv'
  BY DEF IInv, OwnerInv, ReplayRejects, Forget, disk, ghosts, StaleAfterFsync
<1>3. HeaderInv'
  BY DEF IInv, TypeOK, OwnerInv, HeaderInv, ReplayRejects, Forget, disk, ghosts, StaleAfterFsync
<1>4. LogInv'
  BY DEF IInv, TypeOK, OwnerInv, HeaderInv, LogInv, ReplayRejects, Forget, disk, ghosts, StaleAfterFsync
<1> QED
  BY <1>1, <1>2, <1>3, <1>4 DEF IInv

LEMMA OpenReturnsInv ==
    ASSUME IInv, FsyncCommitsRename, OpenReturns
    PROVE  IInv'
<1>1. TypeOK'
  BY Zenon DEF IInv, TypeOK, OpenReturns, disk, ghosts, StaleAfterFsync
<1>2. OwnerInv'
  BY DEF IInv, OwnerInv, OpenReturns, disk, ghosts, StaleAfterFsync
<1>3. HeaderInv'
  BY DEF IInv, TypeOK, OwnerInv, HeaderInv, OpenReturns, disk, ghosts, StaleAfterFsync
<1>4. LogInv'
  BY DEF IInv, TypeOK, OwnerInv, HeaderInv, LogInv, OpenReturns, disk, ghosts, StaleAfterFsync
<1> QED
  BY <1>1, <1>2, <1>3, <1>4 DEF IInv

LEMMA OpenFailsInv ==
    ASSUME IInv, FsyncCommitsRename, OpenFails
    PROVE  IInv'
<1>1. TypeOK'
  BY InitialValues, Zenon DEF IInv, TypeOK, OpenFails, Forget, disk, ghosts, StaleAfterFsync
<1>2. OwnerInv'
  BY DEF IInv, OwnerInv, OpenFails, Forget, disk, ghosts, StaleAfterFsync
<1>3. HeaderInv'
  BY DEF IInv, TypeOK, OwnerInv, HeaderInv, OpenFails, Forget, disk, ghosts, StaleAfterFsync
<1>4. LogInv'
  BY DEF IInv, TypeOK, OwnerInv, HeaderInv, LogInv, OpenFails, Forget, disk, ghosts, StaleAfterFsync
<1> QED
  BY <1>1, <1>2, <1>3, <1>4 DEF IInv

LEMMA StartWriteInv ==
    ASSUME IInv, FsyncCommitsRename, StartWrite
    PROVE  IInv'
<1>0. /\ frames \in Seq(Frame) /\ Boot(counter) \in Frame /\ frames' \in Seq(Frame)
      /\ Len(frames') = Len(frames) + 1 /\ Len(frames) \in Nat
      /\ allowed' = allowed \cup {frames'}
      /\ synced' = synced /\ synced \in 0..Len(frames)
  BY FrameTypes, AppendProperties DEF IInv, TypeOK, StartWrite
<1>00. frames' = Append(frames, Boot(counter))
  BY DEF StartWrite
<1>1. TypeOK'
  <2>1. frames' \in Seq(Frame) /\ synced' \in 0..Len(frames') /\ allowed' \subseteq Seq(Frame)
    BY <1>0 DEF IInv, TypeOK
  <2> QED
    BY <2>1, Zenon DEF IInv, TypeOK, StartWrite
<1>2. OwnerInv'
  BY DEF IInv, OwnerInv, StartWrite, disk, ghosts, StaleAfterFsync
<1>3. HeaderInv'
  BY DEF IInv, OwnerInv, HeaderInv, StartWrite
<1>4. LogInv'
  <2>1. Replayable(frames')
    BY <1>0, <1>00, BootReplayable DEF IInv, TypeOK, OwnerInv, LogInv, StartWrite, HasRoom
  <2>2. \A n \in synced'..Len(frames') : Prefix(frames', n) \in allowed'
    BY <1>0, <1>00, PrefixOfAppend DEF IInv, LogInv
  <2>3. frames' \in allowed' /\ (\A s \in allowed' : Replayable(s)) /\ Len(frames') > 0
    BY <1>0, <2>1 DEF IInv, LogInv
  <2>4. (\A c \in stale' : c.frames \in allowed') /\ pc' \notin {"rename", "syncDir", "opened", "idle"}
    BY <1>0 DEF IInv, LogInv, StartWrite
  <2> QED
    BY <2>2, <2>3, <2>4, Zenon DEF LogInv
<1> QED
  BY <1>1, <1>2, <1>3, <1>4 DEF IInv

LEMMA StartSyncInv ==
    ASSUME IInv, FsyncCommitsRename, StartSync
    PROVE  IInv'
<1>1. TypeOK'
  BY DEF IInv, TypeOK, StartSync, disk, ghosts, StaleAfterFsync
<1>2. OwnerInv'
  BY DEF IInv, OwnerInv, StartSync, disk, ghosts, StaleAfterFsync
<1>3. HeaderInv'
  BY DEF IInv, TypeOK, OwnerInv, HeaderInv, StartSync, disk, ghosts, StaleAfterFsync
<1>4. LogInv'
  <2>1. \A n \in Len(frames)..Len(frames) : Prefix(frames, n) \in {frames}
    BY PrefixFull DEF IInv, TypeOK
  <2> QED
    BY <2>1 DEF IInv, TypeOK, OwnerInv, HeaderInv, LogInv, StartSync, StaleAfterFsync
<1> QED
  BY <1>1, <1>2, <1>3, <1>4 DEF IInv

LEMMA AppendWriteInv ==
    ASSUME IInv, FsyncCommitsRename, NEW r \in Records, AppendWrite(r)
    PROVE  IInv'
<1>00. frames' = Append(frames, Data(r))
  BY DEF AppendWrite
<1>000. frames \in Seq(Frame) /\ Data(r) \in Frame /\ synced \in 0..Len(frames)
  BY FrameTypes DEF IInv, TypeOK
<1>0000. allowed' = allowed \cup {frames'} /\ synced' = synced
  BY DEF AppendWrite
<1>0. /\ frames \in Seq(Frame) /\ Data(r) \in Frame /\ frames' \in Seq(Frame)
      /\ Len(frames') = Len(frames) + 1 /\ Len(frames) \in Nat
      /\ allowed' = allowed \cup {frames'}
      /\ synced' = synced /\ synced \in 0..Len(frames)
  BY <1>00, <1>000, <1>0000, AppendProperties
<1>1. TypeOK'
  <2>1. frames' \in Seq(Frame) /\ synced' \in 0..Len(frames') /\ allowed' \subseteq Seq(Frame)
    BY <1>0 DEF IInv, TypeOK
  <2> QED
    BY <2>1, Zenon DEF IInv, TypeOK, AppendWrite
<1>2. OwnerInv'
  BY DEF IInv, OwnerInv, AppendWrite, disk, ghosts, StaleAfterFsync
<1>3. HeaderInv'
  BY DEF IInv, OwnerInv, HeaderInv, AppendWrite
<1>4. LogInv'
  <2>1. Replayable(frames')
    BY <1>0, <1>00, DataReplayable DEF IInv, TypeOK, OwnerInv, LogInv, AppendWrite, HasRoom
  <2>2. \A n \in synced'..Len(frames') : Prefix(frames', n) \in allowed'
    BY <1>0, <1>00, PrefixOfAppend DEF IInv, LogInv
  <2>3. frames' \in allowed' /\ (\A s \in allowed' : Replayable(s)) /\ Len(frames') > 0
    BY <1>0, <2>1 DEF IInv, LogInv
  <2>4. (\A c \in stale' : c.frames \in allowed') /\ pc' \notin {"rename", "syncDir", "opened", "idle"}
    BY <1>0 DEF IInv, LogInv, AppendWrite
  <2> QED
    BY <2>2, <2>3, <2>4, Zenon DEF LogInv
<1> QED
  BY <1>1, <1>2, <1>3, <1>4 DEF IInv

LEMMA AppendSyncInv ==
    ASSUME IInv, FsyncCommitsRename, AppendSync
    PROVE  IInv'
<1>1. TypeOK'
  BY DEF IInv, TypeOK, AppendSync, disk, ghosts, StaleAfterFsync
<1>2. OwnerInv'
  BY DEF IInv, OwnerInv, AppendSync, disk, ghosts, StaleAfterFsync
<1>3. HeaderInv'
  BY DEF IInv, TypeOK, OwnerInv, HeaderInv, AppendSync, disk, ghosts, StaleAfterFsync
<1>4. LogInv'
  <2>1. \A n \in Len(frames)..Len(frames) : Prefix(frames, n) \in {frames}
    BY PrefixFull DEF IInv, TypeOK
  <2> QED
    BY <2>1 DEF IInv, TypeOK, OwnerInv, HeaderInv, LogInv, AppendSync, StaleAfterFsync
<1> QED
  BY <1>1, <1>2, <1>3, <1>4 DEF IInv

LEMMA WriteFailsInv ==
    ASSUME IInv, FsyncCommitsRename, WriteFails
    PROVE  IInv'
<1>1. TypeOK'
  BY DEF IInv, TypeOK, WriteFails, disk, ghosts, StaleAfterFsync
<1>2. OwnerInv'
  BY DEF IInv, OwnerInv, WriteFails, disk, ghosts, StaleAfterFsync
<1>3. HeaderInv'
  BY DEF IInv, TypeOK, OwnerInv, HeaderInv, WriteFails, disk, ghosts, StaleAfterFsync
<1>4. LogInv'
  BY DEF IInv, TypeOK, OwnerInv, HeaderInv, LogInv, WriteFails, disk, ghosts, StaleAfterFsync
<1> QED
  BY <1>1, <1>2, <1>3, <1>4 DEF IInv

LEMMA SyncFailsInv ==
    ASSUME IInv, FsyncCommitsRename, SyncFails
    PROVE  IInv'
<1>1. TypeOK'
  BY DEF IInv, TypeOK, SyncFails, disk, ghosts, StaleAfterFsync
<1>2. OwnerInv'
  BY DEF IInv, OwnerInv, SyncFails, disk, ghosts, StaleAfterFsync
<1>3. HeaderInv'
  BY DEF IInv, TypeOK, OwnerInv, HeaderInv, SyncFails, disk, ghosts, StaleAfterFsync
<1>4. LogInv'
  BY DEF IInv, TypeOK, OwnerInv, HeaderInv, LogInv, SyncFails, disk, ghosts, StaleAfterFsync
<1> QED
  BY <1>1, <1>2, <1>3, <1>4 DEF IInv

LEMMA CompactWriteInv ==
    ASSUME IInv, FsyncCommitsRename, NEW records \in Snapshots, CompactWrite(records)
    PROVE  IInv'
<1>1. TypeOK'
  BY SnapshotsAssumption DEF IInv, TypeOK, CompactWrite, ghosts
<1>2. OwnerInv'
  BY DEF IInv, OwnerInv, CompactWrite
<1>3. HeaderInv'
  BY DEF IInv, TypeOK, OwnerInv, HeaderInv, CompactWrite, disk, ghosts, StaleAfterFsync
<1>4. LogInv'
  BY DEF IInv, TypeOK, OwnerInv, HeaderInv, LogInv, CompactWrite, disk, ghosts, StaleAfterFsync
<1> QED
  BY <1>1, <1>2, <1>3, <1>4 DEF IInv

LEMMA CompactAbortsInv ==
    ASSUME IInv, FsyncCommitsRename, CompactAborts
    PROVE  IInv'
<1>1. TypeOK'
  BY DEF IInv, TypeOK, CompactAborts, disk, ghosts, StaleAfterFsync
<1>2. OwnerInv'
  BY DEF IInv, OwnerInv, CompactAborts, disk, ghosts, StaleAfterFsync
<1>3. HeaderInv'
  BY DEF IInv, TypeOK, OwnerInv, HeaderInv, CompactAborts, disk, ghosts, StaleAfterFsync
<1>4. LogInv'
  BY DEF IInv, TypeOK, OwnerInv, HeaderInv, LogInv, CompactAborts, disk, ghosts, StaleAfterFsync
<1> QED
  BY <1>1, <1>2, <1>3, <1>4 DEF IInv

LEMMA CompactRenameInv ==
    ASSUME IInv, FsyncCommitsRename, CompactRename
    PROVE  IInv'
<1>0. /\ frames' \in Seq(Frame) /\ Len(frames') = Len(snap) + 1 /\ Len(snap) \in Nat
      /\ Replayable(frames') /\ Prefix(frames', Len(frames')) = frames'
  BY ReplacementType, ReplacementReplayable, PrefixFull
     DEF IInv, TypeOK, OwnerInv, CompactRename
<1>00. Intact(frames) \in File /\ Intact(frames).hdr = "ok" /\ Intact(frames).frames = frames
  BY DEF IInv, TypeOK, Intact, File, Headers
<1>1. TypeOK'
  <2>1. /\ synced' \in 0..Len(frames') /\ allowed' \subseteq Seq(Frame)
        /\ stale' \subseteq File
    BY <1>0, <1>00 DEF IInv, TypeOK, CompactRename
  <2> QED
    BY <1>0, <2>1, InitialValues, Zenon DEF IInv, TypeOK, CompactRename
<1>2. OwnerInv'
  BY InitialValues DEF IInv, OwnerInv, CompactRename
<1>3. HeaderInv'
  BY <1>00 DEF IInv, OwnerInv, HeaderInv, CompactRename
<1>4. LogInv'
  BY <1>0, <1>00 DEF IInv, OwnerInv, LogInv, CompactRename
<1> QED
  BY <1>1, <1>2, <1>3, <1>4 DEF IInv

LEMMA CompactSyncInv ==
    ASSUME IInv, FsyncCommitsRename, CompactSync
    PROVE  IInv'
<1>1. TypeOK'
  BY DEF IInv, TypeOK, CompactSync, disk, ghosts, StaleAfterFsync
<1>2. OwnerInv'
  BY DEF IInv, OwnerInv, CompactSync, disk, ghosts, StaleAfterFsync
<1>3. HeaderInv'
  BY DEF IInv, TypeOK, OwnerInv, HeaderInv, CompactSync, disk, ghosts, StaleAfterFsync
<1>4. LogInv'
  <2>1. \A n \in Len(frames)..Len(frames) : Prefix(frames, n) \in {frames}
    BY PrefixFull DEF IInv, TypeOK
  <2> QED
    BY <2>1 DEF IInv, TypeOK, OwnerInv, HeaderInv, LogInv, CompactSync, StaleAfterFsync
<1> QED
  BY <1>1, <1>2, <1>3, <1>4 DEF IInv

LEMMA CompactSyncFailsInv ==
    ASSUME IInv, FsyncCommitsRename, CompactSyncFails
    PROVE  IInv'
<1>1. TypeOK'
  BY DEF IInv, TypeOK, CompactSyncFails, disk, ghosts, StaleAfterFsync
<1>2. OwnerInv'
  BY DEF IInv, OwnerInv, CompactSyncFails, disk, ghosts, StaleAfterFsync
<1>3. HeaderInv'
  BY DEF IInv, TypeOK, OwnerInv, HeaderInv, CompactSyncFails, disk, ghosts, StaleAfterFsync
<1>4. LogInv'
  BY DEF IInv, TypeOK, OwnerInv, HeaderInv, LogInv, CompactSyncFails, disk, ghosts, StaleAfterFsync
<1> QED
  BY <1>1, <1>2, <1>3, <1>4 DEF IInv

LEMMA KillInv ==
    ASSUME IInv, FsyncCommitsRename, Kill
    PROVE  IInv'
<1>1. TypeOK'
  BY InitialValues, Zenon DEF IInv, TypeOK, Kill, Forget, disk, ghosts, StaleAfterFsync
<1>2. OwnerInv'
  BY DEF IInv, OwnerInv, Kill, Forget, disk, ghosts, StaleAfterFsync
<1>3. HeaderInv'
  BY DEF IInv, TypeOK, OwnerInv, HeaderInv, Kill, Forget, disk, ghosts, StaleAfterFsync
<1>4. LogInv'
  BY DEF IInv, TypeOK, OwnerInv, HeaderInv, LogInv, Kill, Forget, disk, ghosts, StaleAfterFsync
<1> QED
  BY <1>1, <1>2, <1>3, <1>4 DEF IInv

LEMMA PowerLossInv ==
    ASSUME IInv, FsyncCommitsRename, PowerLoss
    PROVE  IInv'
<1>0. PICK c \in Survivors :
        /\ hdr' = c.hdr /\ hdrSynced' = (c.hdr = "ok")
        /\ frames' = c.frames /\ synced' = Len(c.frames)
        /\ allowed' = IF c.frames \in allowed THEN {c.frames} ELSE allowed
  BY Zenon DEF PowerLoss
<1>00. /\ c \in File /\ c.frames \in allowed /\ (c.hdr # "ok" => c.frames = <<>>)
       /\ (served # NoCounter => c.hdr = "ok")
  BY SurvivorsCovered
<1>000. /\ frames' \in Seq(Frame) /\ Len(frames') \in Nat /\ allowed' = {frames'}
        /\ frames' \in allowed /\ hdr' \in Headers
        /\ \A n \in Len(frames')..Len(frames') : Prefix(frames', n) = frames'
  BY <1>0, <1>00, PrefixFull DEF File
<1>1. TypeOK'
  <2>1. torn' \in BOOLEAN /\ tmp' \in BOOLEAN /\ hdrSynced' \in BOOLEAN
    BY <1>0, Zenon DEF PowerLoss
  <2> QED
    <3>1. synced' \in 0..Len(frames') /\ allowed' \subseteq Seq(Frame) /\ stale' \subseteq File
      BY <1>0, <1>000 DEF PowerLoss
    <3> QED
      BY <1>000, <2>1, <3>1, InitialValues, Zenon DEF IInv, TypeOK, PowerLoss, Forget
<1>2. OwnerInv'
  BY DEF OwnerInv, PowerLoss, Forget
<1>3. HeaderInv'
  BY <1>0, <1>00, InitialValues, Zenon DEF IInv, HeaderInv, PowerLoss, Forget
<1>4. LogInv'
  BY <1>0, <1>000 DEF IInv, LogInv, PowerLoss, Forget
<1> QED
  BY <1>1, <1>2, <1>3, <1>4 DEF IInv

-----------------------------------------------------------------------------
LEMMA NextInv ==
    ASSUME IInv, FsyncCommitsRename, [Next]_vars
    PROVE  IInv'
<1>1. CASE UNCHANGED vars
  <2>1. TypeOK'
    BY <1>1 DEF vars, IInv, TypeOK
  <2>2. OwnerInv'
    BY <1>1 DEF vars, IInv, OwnerInv
  <2>3. HeaderInv'
    BY <1>1 DEF vars, IInv, HeaderInv
  <2>4. LogInv'
    BY <1>1 DEF vars, IInv, LogInv
  <2> QED
    BY <2>1, <2>2, <2>3, <2>4 DEF IInv
<1>2. CASE Opening
  BY <1>2, OpenFileInv, WriteHeaderInv, WriteHeaderFailsInv, SyncHeaderInv,
     ReplayInv, ReplayRejectsInv, OpenReturnsInv, OpenFailsInv DEF Opening
<1>3. CASE Starting
  BY <1>3, StartWriteInv, StartSyncInv DEF Starting
<1>4. CASE Appending
  BY <1>4, AppendWriteInv, AppendSyncInv DEF Appending
<1>5. CASE Compacting
  BY <1>5, CompactWriteInv, CompactAbortsInv, CompactRenameInv, CompactSyncInv,
     CompactSyncFailsInv DEF Compacting
<1>6. CASE WriteFails \/ SyncFails \/ Kill \/ PowerLoss
  BY <1>6, WriteFailsInv, SyncFailsInv, KillInv, PowerLossInv
<1> QED
  BY <1>1, <1>2, <1>3, <1>4, <1>5, <1>6 DEF Next

(* The journal's variables keep their types through every open, append,     *)
(* compaction and crash.                                                    *)
THEOREM TypeCorrect == FsyncCommitsRename => (Spec => []TypeOK)
<1> SUFFICES ASSUME FsyncCommitsRename PROVE Spec => []TypeOK
  OBVIOUS
<1>1. Init => IInv
  BY InitInv
<1>2. IInv /\ [Next]_vars => IInv'
  BY NextInv
<1>3. IInv => TypeOK
  BY DEF IInv
<1> QED
  BY <1>1, <1>2, <1>3, PTL DEF Spec

(* Whatever the process or the host does, recovery finds the acknowledged   *)
(* log or the one outcome that was in flight (Append, Start and Compact of  *)
(* the control-state journal), and a journal that ever acknowledged an      *)
(* epoch passes every check that Open makes.                                *)
THEOREM JournalDurability ==
    FsyncCommitsRename => (Spec => [](AckedLogSurvives /\ AckedJournalReopens))
<1> SUFFICES ASSUME FsyncCommitsRename
             PROVE  Spec => [](AckedLogSurvives /\ AckedJournalReopens)
  OBVIOUS
<1>1. Init => IInv
  BY InitInv
<1>2. IInv /\ [Next]_vars => IInv'
  BY NextInv
<1>3. IInv => AckedLogSurvives /\ AckedJournalReopens
  BY InvImpliesSafety
<1> QED
  BY <1>1, <1>2, <1>3, PTL DEF Spec
=============================================================================
