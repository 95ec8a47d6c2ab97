SPECIFICATION ProcessSpec
CONSTANTS
  Programs = {"full", "bootstrap"}
  Requests = {r1, r2}
INVARIANTS RequestsKeepResources OpenInOrder
PROPERTY ShutdownEnds
CHECK_DEADLOCK FALSE
