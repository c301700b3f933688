CONSTANTS
  p1 = p1 p2 = p2 u1 = u1 a1 = a1 e1 = e1 w1 = w1 x1 = x1 c1 = c1 c2 = c2
  s1 = s1 s2 = s2 s3 = s3 s4 = s4 n1 = n1 n2 = n2 MME = MME None = None
SPECIFICATION MCSpec
PROPERTIES HandlersReturn ProceduresReturn
