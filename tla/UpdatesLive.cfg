SPECIFICATION FairSpec
CONSTANTS
  ID = {u1, u2}
  Client = {c1}
  Outcome = {o1}
  Copies = 2
  MaxInFlight = 1
  MaxTotal = 1
  Stages = {"ACCEPTED", "COMPLETED"}
  Reset = {}
  Faults = {"crash", "timeout"}
INVARIANTS AbortedWhenClosed
PROPERTIES CallsAnswered
CHECK_DEADLOCK FALSE
