CONSTANTS
  NoSession = NoSession
  Sessions = {s1, s2}
  SEIDs = {1, 2, 3, 4, 5, 6}
  Workers = 2
  MaxCrashes = 1
  MaxRestarts = 1
  MaxOutages = 1
  Faults = {"overlap"}
SPECIFICATION Spec
INVARIANT CompletionSparesLiveSessions
