SPECIFICATION Spec
CONSTANTS
  Calls = {c1, c2}
  Names = {db, redis}
  Timeout = 1
  TTL = 1
  Deadlines = {2}
  NoResult = NoResult
PROPERTY ReadyIsRecentlyUp
