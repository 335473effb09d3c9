\* An async() with a result.
CONSTANTS
  client = client job = job s1 = s1 s2 = s2 None = None
  Client = client
  Job = job
  Setters = {s1, s2}
  Kinds = {"async"}
SPECIFICATION FairSpec
CHECK_DEADLOCK FALSE
INVARIANTS GroupOutlivesJob
