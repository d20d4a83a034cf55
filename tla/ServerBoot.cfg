SPECIFICATION BootFairSpec
CONSTANTS
  server = server
  second = second
  other = other
  f1 = f1
  f2 = f2
  p1 = p1
  p2 = p2
  q1 = q1
  q2 = q2
  NoFile = NoFile
  Runner = {server, second, other}
  App = {server, second}
  Framework = "schemaf"
  InitFile = f1
  ConfigFile = f2
  Line <- MCLine
  File <- MCFile
  PrefixOf <- MCPrefixOf
  VersionOf <- MCVersionOf
  Registered <- MCRegistered
  Broken = {q2}
  Rerunnable = {p2}
  Malformed = {}
  MaxFaults = 1
  Secret = {s1, s2}
  NoSecret = NoSecret
INVARIANTS
  RecordedIffApplied
  DoneMeansApplied
  FrameworkFirst
  OneKeyAccepted
PROPERTIES
  LedgerSpec
  RunsEnd
  SettledKeyStable
  BootsComplete
