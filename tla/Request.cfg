SPECIFICATION Spec
CONSTANTS
  c1 = c1
  s1 = s1
  s2 = s2
  Client = {c1}
  Subject = {s1, s2}
  Endpoint <- MCEndpoint
  Checker = {"db", "s3"}
  Number <- MCNumber
  Half <- MCHalf
  MaxNow = 3
  MaxTokens = 1
CHECK_DEADLOCK FALSE
INVARIANTS
  AuthComesFirst
  GetsWhatWasSent
  OneAnswer
