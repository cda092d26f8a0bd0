SPECIFICATION RegistrySpec
CONSTANTS
  w1 = w1 w2 = w2 c1 = c1 s1 = s1 s2 = s2 r1 = r1 k1 = k1 m1 = m1 m2 = m2
  Worker = {w1}
  Client = {c1}
  Scenario = {s1}
  Replica = {r1}
  Key = {k1}
  MsgId = {m1, m2}
  Content <- RegistryContent
  SourceVersion = {1}
  TTL = 1
  MaxRetries = 1
  MaxLog = 2
  MaxTrace = 3
  MaxCrashes = 1
  MaxFaults = 0
  MaxCreated = 2
  MaxStored = 1
SYMMETRY RegistrySymmetry
INVARIANTS RegistryTypeOK CreationInOrder SpecStands ProofStands
