SPECIFICATION Spec
CONSTANTS
  StartCalls = {s1, s2}
  StopCalls = {z1, z2}
  Kinds = {"http"}
  NoCall = NoCall
INVARIANT StoppedIsDown
CHECK_DEADLOCK FALSE
