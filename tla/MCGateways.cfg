CONSTANTS
  o1 = o1 o2 = o2 o3 = o3 o4 = o4 o5 = o5 None = None
  p1 = p1 p2 = p2 u1 = u1 a1 = a1 a2 = a2 e1 = e1 e2 = e2 w1 = w1 x1 = x1 x2 = x2 c1 = c1 c2 = c2
  MME = MME
  Owners = {o1, o2, o3, o4, o5}
  Size = 8
  Gateway = 2
  MaxLeases = 0
  Recoveries <- MCRecoveries
SPECIFICATION MCSpec
SYMMETRY MCSymmetry
INVARIANTS LeasesAgree NothingLeaks PurgedFirst PlanesAgree
PROPERTIES NoOrphan
