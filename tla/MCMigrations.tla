---------------------------- MODULE MCMigrations ----------------------------
(***************************************************************************)
(* An instance of Migrations: one project whose files p2 and p3 were both  *)
(* given version 2, as two merged branches leave them.                     *)
(***************************************************************************)
EXTENDS Migrations, TLC

CONSTANTS server, f1, f2, p1, p2, p3

MCLine == {"schemaf", "project"}
MCFile == {f1, f2, p1, p2, p3}

MCPrefixOf ==
  f1 :> "schemaf" @@ f2 :> "schemaf"
  @@ p1 :> "project" @@ p2 :> "project" @@ p3 :> "project"

MCVersionOf == f1 :> 1 @@ f2 :> 2 @@ p1 :> 1 @@ p2 :> 2 @@ p3 :> 2

MCDuplicate ==
  server :> << [prefix |-> "schemaf", files |-> {f1, f2}],
               [prefix |-> "project", files |-> {p1, p2, p3}] >>
=============================================================================
