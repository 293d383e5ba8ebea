SPECIFICATION Spec
CONSTANTS
  ID = {u1, u2}
  Client = {c1}
  Outcome = {o1}
  Copies = 2
  MaxInFlight = 0
  MaxTotal = 0
  Stages = {"ACCEPTED", "COMPLETED"}
  Reset = {}
  Faults = {"write", "timeout"}
SYMMETRY Symmetry
INVARIANTS TypeOK ToldIsDurable FuturesSetOnce RegistryAgrees DeliveryPending
PROPERTIES Implements ForgottenAnswered
CHECK_DEADLOCK FALSE
