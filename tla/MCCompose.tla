----------------------------- MODULE MCCompose -----------------------------
(***************************************************************************)
(* Instances of Compose: every dependency graph of three files with up to  *)
(* two dependencies each, any of which may be unreadable, and every way to *)
(* name two services in a file and the one it depends on.                  *)
(***************************************************************************)
EXTENDS Compose

CONSTANTS app, lib, base, db, web, short

Each(d) == [f \in File |-> d]
Nothing == [s \in Service |-> NoName]
UpTo2 == UNION {[1 .. k -> File] : k \in 0 .. 2}

Graphs ==
  {[deps |-> d, broken |-> b, services |-> Each({db}), short |-> Each(Nothing),
    title |-> Each(NoName)] : d \in [File -> UpTo2], b \in SUBSET File}

Namings ==
  {[deps |-> [f \in File |-> IF f = app THEN <<lib>> ELSE <<>>], broken |-> {},
    services |-> v, short |-> n, title |-> t] :
     v \in [File -> {{db}, {db, web}}], n \in [File -> [Service -> {short, NoName}]],
     t \in [File -> {short, NoName}]}

MCProject ==
  Graphs \union {p \in Namings : p.short[base] = Nothing /\ p.title[base] = NoName
                                 /\ p.services[base] = {db}}
=============================================================================
