SPECIFICATION MCSpec
CONSTANTS
  a = a
  k1 = k1
  h1 = h1
  t1 = t1
  t2 = t2
  None = None
  Requests = {t1, t2}
  Sessions = {k1}
  PolicyIDs = {h1}
  TFTs = {a}
  QoS = {t1, t2}
  EBIs = {5, 6}
  defaultEBI <- Default
  Subscribers = {"u"}
  subscriberOf <- OneSubscriber
  Locks = {1}
  lockOf <- OneMutex
  MaxInFlight = 2
  MaxDedicatedBearers = 1
  MaxRequests = 2
PROPERTIES ReportsArrive BufferedLeaves ServesAgain 
