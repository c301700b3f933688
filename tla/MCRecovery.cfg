CONSTANTS
  p1 = p1 p2 = p2 t1 = t1 t2 = t2 s1 = s1 s2 = s2 c1 = c1 c2 = c2 w1 = w1
  NoRecord = NoRecord
  NoRecovery = NoRecovery
  NoSession = NoSession
  None = None
  Peers <- MCPeers
  Recoveries <- MCRecoveries
  Timeout = 1
  GraceWindow = 2
  MaxTime = 5
SPECIFICATION MCSpec
INVARIANTS WindowConsistent LiveSessionsKept OwnersMatchRules
PROPERTIES AuthorityNeedsReplay StaleRulesRemoved Converges
