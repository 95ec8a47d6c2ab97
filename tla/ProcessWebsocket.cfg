SPECIFICATION ProcessSpec
CONSTANTS
  Programs = {"full"}
  Requests = {r1}
PROPERTY EveryShutdownEnds
CHECK_DEADLOCK FALSE
