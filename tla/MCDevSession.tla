---------------------------- MODULE MCDevSession ----------------------------
(***************************************************************************)
(* Instances of DevSession: two `dev` sessions and a `run`.                *)
(***************************************************************************)
EXTENDS DevSession, TLC

CONSTANTS d1, d2, r1

MCSpecs == {{"db"}, {"frontend"}, {"db", "backend"}, {"backend", "frontend"}}

\* Nothing tells the two `dev` sessions apart, and all properties are invariants.
MCSymmetry == Permutations({d1, d2})
=============================================================================
