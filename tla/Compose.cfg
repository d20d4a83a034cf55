SPECIFICATION FairSpec
CONSTANTS
  app = app
  lib = lib
  base = base
  db = db
  web = web
  short = short
  NoName = NoName
  File = {app, lib, base}
  Entry = app
  Service = {db, web}
  Name = {short}
  Project <- MCProject
CHECK_DEADLOCK FALSE
INVARIANTS
  DependenciesFirst
  ExactlyReached
  OwnNameWins
PROPERTIES
  Ends
