SPECIFICATION Spec
CONSTANTS
  w1 = w1 w2 = w2 s1 = s1 s2 = s2 r1 = r1 r2 = r2 k1 = k1 k2 = k2
  m1 = m1 m2 = m2 m3 = m3
  Worker = {w1}
  Scenario = {s1}
  Replica = {r1}
  Key = {k1}
  MsgId = {m1, m2}
  Content <- SoloContent
  SourceVersion = {1}
  TTL = 1
  MaxRetries = 1
  MaxLog = 2
  MaxTrace = 4
  MaxCrashes = 1
  MaxFaults = 0
INVARIANT NoViolationInConverged
