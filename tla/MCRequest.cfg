SPECIFICATION Spec
CONSTANTS
  Calls = {c1, c2}
  RetryCount = 1
  Burst = 1
  HandlerErrors = {{"NotFound"}, {"Temporary"}}
  Tokens <- MCTokens
  Checks = {"API_KEY", "JWT"}
  ValidKeys = {"key"}
  Issuer = "issuer"
  Audience = "audience"
INVARIANT PostAtMostOnce
PROPERTY DoReturns
CHECK_DEADLOCK FALSE
