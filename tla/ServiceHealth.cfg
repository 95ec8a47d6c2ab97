SPECIFICATION Spec
CONSTANTS
  StartCalls = {s1}
  StopCalls = {z1}
  Kinds = {"http", "grpc", "grpcServer"}
  NoCall = NoCall
INVARIANT HealthTellsServing
CHECK_DEADLOCK FALSE
