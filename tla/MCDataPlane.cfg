SPECIFICATION MCSpec
CONSTANTS
  a = a
  b = b
  k1 = k1
  h1 = h1
  t1 = t1
  t2 = t2
  None = None
  Procs = {a, b}
  MaxCrashes = 1
  MaxFailing = 1
  MaxAdmin = 1
  AliasAtCreation = FALSE
  LookupFails = TRUE
INVARIANTS ServingHasItsObjects KernelMatchesStore 
  
