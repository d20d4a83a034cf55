SPECIFICATION Spec
CONSTANTS
  one = one
  two = two
  app = app
  lib = lib
  db = db
  api = api
  web = web
  typo = typo
  short = short
  url = url
  ProjectName = ProjectName
  DBPass = DBPass
  Unset = Unset
  NoNative = NoNative
  Terminal = {one, two}
  Service = {db, api, web}
  Entry = {app, lib}
  Var = {url, ProjectName, DBPass}
  Value = {"acme", "dev", "mine", "kept", "hostdb", "hostapi", "hostweb"}
  Resolved <- MCResolved
  Short <- MCShort
  BoxName <- MCBoxName
  Shell <- MCShell
  Home <- MCHome
  Requests <- MCRequests
  MaxFaults = 1
INVARIANTS
  NotTwice
  GetsWhatItNamed
  WiredForTheAbsent
