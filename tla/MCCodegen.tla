----------------------------- MODULE MCCodegen -----------------------------
(***************************************************************************)
(* An instance of Codegen: a project with everything, whose developer      *)
(* edits a source of each kind: one that two generators read, one without  *)
(* which its generator is skipped, the API; and a file of the frontend.    *)
(***************************************************************************)
EXTENDS Codegen

MCGiven == {Source \ {"toml"}}
MCChanging == {"gomod", "queries", "api"}
MCEdited == {"index.html"}
=============================================================================
