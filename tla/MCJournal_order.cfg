SPECIFICATION JSpec
CONSTANTS
  Producer = {p1}
  Sub = {s1}
  Room = 1
  Kinds = {"file"}
  EventBound = 2
  RestartBound = 0
CHECK_DEADLOCK FALSE
INVARIANTS
  DeliveredInSequence
