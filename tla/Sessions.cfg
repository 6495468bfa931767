SPECIFICATION Spec
CONSTANTS
  Users = {u1}
  Requests = {r1, r2}
  Faults = {"read", "consume", "store"}
  Overlap = FALSE
  MaxSessions = 3
  MaxLinks = 3
  MaxRows = 4
SYMMETRY Symmetry
INVARIANTS OneUsableTokenPerLogin ReuseEndsTheChain OnlyUnseenLinksStay LinkEndsWithItsUse  ToldIsVerified
CHECK_DEADLOCK FALSE
