SPECIFICATION Spec
CONSTANTS
  StartCalls = {s1, s2, s3}
  StopCalls = {z1, z2}
  Kinds = {"http", "grpc", "grpcServer"}
  NoCall = NoCall
PROPERTY ImplementsContract StopDrains CallsReturn
CHECK_DEADLOCK FALSE
