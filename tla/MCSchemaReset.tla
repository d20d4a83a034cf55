--------------------------- MODULE MCSchemaReset ---------------------------
(***************************************************************************)
(* An instance of SchemaReset: `dev --reset-db` in two terminals, one of   *)
(* whose checkouts has a file that cannot be parsed, next to `auth token`  *)
(* of another release, with a different file under version 2.              *)
(***************************************************************************)
EXTENDS SchemaReset, TLC

CONSTANTS reset, again, token, f1, f2, p1, p2, p3, q1, q2

MCLine == {"schemaf", "project", "other"}
MCFile == {f1, f2, p1, p2, p3, q1, q2}

MCPrefixOf ==
  f1 :> "schemaf" @@ f2 :> "schemaf" @@ p1 :> "project" @@ p2 :> "project"
  @@ p3 :> "project" @@ q1 :> "other" @@ q2 :> "other"

MCVersionOf ==
  f1 :> 1 @@ f2 :> 2 @@ p1 :> 1 @@ p2 :> 2 @@ p3 :> 2 @@ q1 :> 1 @@ q2 :> 2

FrameworkSet == [prefix |-> "schemaf", files |-> {f1, f2}]
ProjectSet(S) == [prefix |-> "project", files |-> S]

MCRegistered ==
  reset :> <<FrameworkSet, ProjectSet({p1, p2})>>
  @@ again :> <<FrameworkSet, ProjectSet({p1, p2}), [prefix |-> "other", files |-> {q1, q2}]>>
  @@ token :> <<FrameworkSet, ProjectSet({p1, p3})>>
=============================================================================
