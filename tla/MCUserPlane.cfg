CONSTANTS
  s1 = s1 s2 = s2 u1 = u1 u2 = u2 u3 = u3 dflt = dflt ded = ded t1 = t1 t2 = t2 e1 = e1
  h1 = h1 h2 = h2 r1 = r1
  EBIs = {6, 7}
  Templates = {"voice", "games"}
  Filters <- MCFilters
  Rates = {1, 2}
  QCIs = {1, 5}
  Tunnels = {"sgw1", "sgw2"}
  TEIDs = {1, 2}
  SEIDs = {1, 2, 3, 4}
  QCI1Plane = FALSE
  Metadata = TRUE
  MaxIDs = 10
  MaxFaults = 1
  Handlers = {h1}
  Late = FALSE
SPECIFICATION MCSpec
SYMMETRY MCSymmetry
INVARIANTS BothPlanesAgree HeldRuleIsCurrent LateRequestsHarmless
