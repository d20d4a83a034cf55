---------------------------- MODULE MCServerBoot ----------------------------
(***************************************************************************)
(* Instances of ServerBoot: a server and a second process of its project   *)
(* (`auth token`, `db migrate`, another replica), which registers its sets *)
(* in the other order, on a fresh database, and another app that only      *)
(* calls RunSet on it.                                                     *)
(***************************************************************************)
EXTENDS ServerBoot, TLC

CONSTANTS server, second, other, f1, f2, p1, p2, q1, q2

MCLine == {"schemaf", "project", "other"}
MCFile == {f1, f2, p1, p2, q1, q2}
MCPrefixOf ==
  f1 :> "schemaf" @@ f2 :> "schemaf" @@ p1 :> "project" @@ p2 :> "project"
  @@ q1 :> "other" @@ q2 :> "other"
MCVersionOf == f1 :> 1 @@ f2 :> 2 @@ p1 :> 1 @@ p2 :> 2 @@ q1 :> 2 @@ q2 :> 3

FrameworkSet == [prefix |-> "schemaf", files |-> {f1, f2}]
ProjectSet == [prefix |-> "project", files |-> {p1, p2}]

MCRegistered ==
  server :> <<FrameworkSet, ProjectSet>>
  @@ second :> <<ProjectSet, FrameworkSet>>
  @@ other :> <<[prefix |-> "other", files |-> {q1, q2}]>>
=============================================================================
