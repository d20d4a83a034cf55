----------------------------- MODULE SchemaReset -----------------------------
(***************************************************************************)
(* `dev --reset-db`: db.go's ResetSchema, which drops and recreates the    *)
(* public schema in two statements, followed by RunMigrations, next to     *)
(* other processes that run migrations on the same database.               *)
(*                                                                         *)
(* A reset process is a runner of module Migrations with a phase before.   *)
(* DROP SCHEMA ... CASCADE waits for transactions that have created or     *)
(* written anything in the schema.                                         *)
(***************************************************************************)
EXTENDS Migrations

CONSTANT Resetter  \* the runners that are `dev --reset-db`

ASSUME SchemaResetAssumption == Resetter \subseteq Runner

VARIABLES
  schema,    \* the public schema exists
  phase,     \* the statement of ResetSchema each reset process is at
  overtaken  \* history: the runners whose run a reset has come upon

resetVars == <<schema, phase, overtaken>>
allVars   == <<vars, resetVars>>

ResetInit ==
  /\ Init
  /\ schema = TRUE
  /\ phase = [r \in Resetter |-> "none"]
  /\ overtaken = {}

Resetting(r) == r \in Resetter /\ phase[r] # "none"

SetPhase(r, to) == phase' = [phase EXCEPT ![r] = to]

Idle(r) == pc[r] \in {"down", "failed", "done"} /\ ~Resetting(r)

\* RunMigrations is called by a process that resets nothing, or, in serve, by
\* one that has done so.
Launch(r) ==
  /\ Idle(r)
  /\ Start(r)
  /\ overtaken' = overtaken \ {r}
  /\ UNCHANGED <<schema, phase>>

\* runDev gets to ResetSchema.
Reset(r) ==
  /\ r \in Resetter /\ Idle(r)
  /\ SetPhase(r, "drop")
  /\ Goto(r, "down")
  /\ UNCHANGED <<database, left, todo, cur, faults, schema, overtaken>>

\* The transaction of r has locked something in the schema.
HoldsLocks(r) == pc[r] \in {"insert", "commit"}

\* Faulty variant: the tracking table is spared, as ResetProjectTables does.
DropKeepingRecords ==
  /\ schema
  /\ \A q \in Runner : ~HoldsLocks(q)
  /\ schema' = FALSE
  /\ UNCHANGED rows
  /\ applied' = [f \in File |-> 0]
  /\ overtaken' = overtaken \union {q \in Runner : pc[q] \in Running \union {"done"}}

\* Every table is gone, the tracking table too.
Drop ==
  /\ schema
  /\ \A q \in Runner : ~HoldsLocks(q)
  /\ schema' = FALSE
  /\ rows' = {}
  /\ applied' = [f \in File |-> 0]
  /\ overtaken' = overtaken \union {q \in Runner : pc[q] \in Running \union {"done"}}

\* DROP SCHEMA public CASCADE
DropSchema(r) ==
  /\ Resetting(r) /\ phase[r] = "drop"
  /\ Drop
  /\ SetPhase(r, "create")
  /\ UNCHANGED <<pc, left, todo, cur, faults>>

\* There is no schema to drop.
DropFails(r) ==
  /\ Resetting(r) /\ phase[r] = "drop"
  /\ ~schema
  /\ SetPhase(r, "none")
  /\ Fail(r)
  /\ UNCHANGED <<database, faults, schema, overtaken>>

\* CREATE SCHEMA public succeeds, and runDev goes on to RunMigrations.
CreateSchema(r) ==
  /\ Resetting(r) /\ phase[r] = "create"
  /\ ~schema
  /\ schema' = TRUE
  /\ SetPhase(r, "none")
  /\ Start(r)
  /\ overtaken' = overtaken \ {r}

\* The process dies, or loses its connection, before a statement or before the
\* answer to it.
ResetInterrupted(r) ==
  /\ Resetting(r)
  /\ faults < MaxFaults
  /\ faults' = faults + 1
  /\ \/ phase[r] = "drop" /\ Drop
     \/ phase[r] = "create" /\ ~schema /\ schema' = TRUE /\ UNCHANGED <<database, overtaken>>
     \/ UNCHANGED <<database, schema, overtaken>>
  /\ SetPhase(r, "none")
  /\ Fail(r)

\* What the next statement of r needs: something to read from, to create in, to
\* insert into.
Found(r) ==
  /\ pc[r] = "read" /\ left[r] # {} => TableExists
  /\ pc[r] = "sql" => schema
  /\ pc[r] = "insert" => TableExists \/ cur[r] = InitFile

\* A step of the migrations, or a fault in them.
Migrate(r) ==
  /\ Found(r)
  /\ Step(r) \/ CommitUnanswered(r) \/ Interrupt(r)
  /\ UNCHANGED resetVars

\* A reset has taken away what the statement needs.
NotFound(r) ==
  /\ ~Found(r)
  /\ Fail(r)
  /\ UNCHANGED <<database, faults, resetVars>>

ResetStep(r) == DropSchema(r) \/ DropFails(r) \/ CreateSchema(r)

ResetNext ==
  \E r \in Runner :
    \/ Launch(r) \/ Migrate(r) \/ NotFound(r)
    \/ Reset(r) \/ ResetStep(r) \/ ResetInterrupted(r)

ResetSpec == ResetInit /\ [][ResetNext]_allVars

-----------------------------------------------------------------------------
\* A reset leaves no record without its tables: also where migrations of other
\* processes meet it, what is recorded is what has been run, once, since.
ResetKeepsRecords == RecordedIffApplied /\ AppliedOnce /\ (~schema => rows = {})

\* A process that no reset came upon has its whole schema when its run ends
\* well, whatever stale runs are still about.  Every file it registered has taken
\* effect, unless another file has its prefix and version, of this release or of
\* another, and took effect in its place.
DoneUnlessOvertaken ==
  \A r \in Runner \ overtaken : pc[r] = "done" =>
    \A i \in DOMAIN Registered[r] : \A f \in Registered[r][i].files :
      applied[f] = 1 \/ \E g \in File \ {f} : Key(g) = Key(f) /\ applied[g] = 1

\* r commits a file although, in every set of its own that has the file, a lower
\* version is not recorded.  (bootstrap runs 0001 ahead of any set.)
Skips(r) ==
  /\ pc[r] = "commit" /\ cur[r] # InitFile
  /\ applied'[cur[r]] > applied[cur[r]]
  /\ \A i \in DOMAIN Registered[r] : cur[r] \in Registered[r][i].files =>
       \E g \in Registered[r][i].files : VersionOf[g] < VersionOf[cur[r]] /\ Key(g) \notin rows

\* Only a run that a reset came upon can record a version of its set before a
\* lower one.
InOrderUnlessOvertaken == [][\A r \in Runner : Skips(r) => r \in overtaken]_allVars
=============================================================================
