CONSTANTS
  r1 = r1 r2 = r2
  alice = alice bob = bob mme = mme internet = internet ims = ims
  gold = gold silver = silver nil = nil
  u1 = u1 u2 = u2 c1 = c1 c2 = c2 a1 = a1 a2 = a2 t1 = t1 t2 = t2 v1 = v1 v2 = v2 none = none
  NoCounter = NoCounter
  Records <- MCRecords
  Snapshots <- MCSnapshots
  MaxFrames = 5
  CounterMod = 6
  RecoverySeed = 3
  FsyncCommitsRename = TRUE
SPECIFICATION MCSpec
INVARIANTS AckedLogSurvives StoreMatchesDisk
PROPERTIES RestartIsVisible OneTransitionAtATime
