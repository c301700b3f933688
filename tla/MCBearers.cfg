CONSTANTS
  p1 = p1 p2 = p2 s1 = s1 s2 = s2 e1 = e1 e2 = e2 n1 = n1 n2 = n2 None = None
  Requests = {p1, p2}
  Sessions = {s1}
  PolicyIDs = {e1, e2}
  TFTs = {"t"}
  QoS = {n1, n2}
  EBIs = {5, 6, 7}
  defaultEBI <- DefaultBearer
  Subscribers = {"u"}
  subscriberOf <- ItsSubscriber
  Locks = {1}
  lockOf <- ItsStripe
  MaxInFlight = 2
  MaxDedicatedBearers = 1
  MaxRequests = 3
SPECIFICATION MCSpec
SYMMETRY MCSymmetry
INVARIANTS   NoneLost DecisionStands AnswerStands
