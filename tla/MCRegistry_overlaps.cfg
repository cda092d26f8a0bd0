SPECIFICATION RegistrySpec
CONSTANTS
  w1 = w1 w2 = w2 c1 = c1 s1 = s1 s2 = s2 r1 = r1 k1 = k1 m1 = m1 m2 = m2
  Worker = {w1, w2}
  Client = {c1}
  Scenario = {s1}
  Replica = {r1}
  Key = {k1}
  MsgId = {m1, m2}
  Content <- LeaseContent
  SourceVersion = {}
  TTL = 1
  MaxRetries = 1
  MaxLog = 2
  MaxTrace = 1
  MaxCrashes = 0
  MaxFaults = 0
  MaxCreated = 1
  MaxStored = 1
SYMMETRY RegistrySymmetry
INVARIANTS CreationInOrder SpecsBeginLogs ViolatedIsListed
