CONSTANTS
  s1 = s1 s2 = s2
  NoSession = NoSession
  Sessions <- MCSessions
  SEIDs <- MCSEIDs
  Workers = 2
  MaxCrashes = 1
  MaxRestarts = 0
  MaxOutages = 1
  Faults = {"loss_in_replay", "expiry", "overlap", "interrupted_delete", "slow_heartbeat", "half_replayed"}
SPECIFICATION MCSpec
SYMMETRY MCSymmetry
PROPERTIES NoResurrection NothingResurrected
