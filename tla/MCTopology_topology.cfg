SPECIFICATION FairSpec
CONSTANTS
  c1 = c1 c2 = c2 ks1 = ks1 ks2 = ks2 r1 = r1
  Client = {c1, c2}
  KeyspaceId = {ks1, ks2}
  ReplicaId = {r1}
  Proposal <- Proposals
  Millisecond = 10
  Half = 1048576
  MaxChanges = 2
INVARIANTS TypeOK KeyspacesComplete ReplaysAreSound LockHeldByRequest LeaseSeqWithinChanges
PROPERTIES KeepsContract EveryRequestAnswered
