\* Every kind of commitment, a promise shared by two setters.
CONSTANTS
  client = client job = job s1 = s1 s2 = s2 None = None
  Client = client
  Job = job
  Setters = {s1, s2}
  Kinds <- AllKinds
SPECIFICATION FairSpec
CHECK_DEADLOCK FALSE
INVARIANTS GetSeesResult BrokenWhenAllLeft JoinOutlivesJob
PROPERTIES FirstSetWins GetReturns
