----------------------------- MODULE Migrations -----------------------------
(***************************************************************************)
(* db/migrate.go: processes that run embedded SQL migrations against one   *)
(* Postgres database.  A runner is a server boot, `db migrate`,            *)
(* `auth token`, or another app that calls RunSet.  Nothing but Postgres   *)
(* coordinates them: the table check, the read of the recorded versions    *)
(* and each migration's transaction are separate round trips.              *)
(*                                                                         *)
(* A transaction's effects are kept out of rows and applied until it       *)
(* commits, so a rollback or a crash only forgets the runner's own state.  *)
(* The files a runner still has to run form a set: taking one with the     *)
(* lowest version is sort.Slice, which is not stable, followed by the loop *)
(* over its result.                                                        *)
(***************************************************************************)
EXTENDS Integers, FiniteSets, Sequences

CONSTANTS
  Runner,      \* processes that run migrations on the database
  Line,        \* migration prefixes
  Framework,   \* the "schemaf" prefix
  File,        \* migration files of all the binaries
  NoFile,      \* no transaction in progress
  PrefixOf,    \* [File -> Line]
  VersionOf,   \* [File -> Int]
  InitFile,    \* 0001_init.sql, which creates schemaf_migrations
  Registered,  \* each runner's migration sets in registration order
  Broken,      \* files whose SQL always fails
  Rerunnable,  \* files whose SQL would succeed a second time (seed data, IF NOT EXISTS)
  Malformed,   \* files not named NNNN_name.sql
  MaxFaults    \* bound on crashes and lost connections

MigrationSet == [prefix : Line, files : SUBSET File]

ASSUME MigrationsAssumption ==
  /\ Framework \in Line
  /\ NoFile \notin File
  /\ PrefixOf \in [File -> Line]
  /\ VersionOf \in [File -> Int]
  /\ InitFile \in File \ Rerunnable
  /\ PrefixOf[InitFile] = Framework
  /\ Registered \in [Runner -> Seq(MigrationSet)]
  /\ \A r \in Runner : \A i \in DOMAIN Registered[r] :
       \A f \in Registered[r][i].files : PrefixOf[f] = Registered[r][i].prefix
  /\ MaxFaults \in Nat

VARIABLES
  rows,     \* schemaf_migrations: the recorded <<prefix, version>> keys
  applied,  \* how often each file's SQL has been committed
  pc,       \* where each runner is
  left,     \* the sets (indices into Registered) it has not started
  todo,     \* the files of the current set it has not started
  cur,      \* the file of its open transaction
  faults    \* crashes and lost connections so far

database == <<rows, applied>>
runners  == <<pc, left, todo, cur>>
vars     == <<rows, applied, pc, left, todo, cur, faults>>

Running == {"check", "read", "apply", "sql", "insert", "commit"}

Key(f) == <<PrefixOf[f], VersionOf[f]>>

\* Faulty variant: registration order alone.
PrecedesAsRegistered(r, i, j) == i < j

\* The set at i is run before the one at j: framework sets come first, and as
\* each is prepended the later registered of two framework sets comes first.
Precedes(r, i, j) ==
  LET framework(k) == Registered[r][k].prefix = Framework
  IN  \/ framework(i) /\ ~framework(j)
      \/ framework(i) /\ framework(j) /\ i > j
      \/ ~framework(i) /\ ~framework(j) /\ i < j

\* Faulty variants: the query forgets its WHERE prefix; nothing is skipped.
UnrecordedAnyPrefix(S) == {f \in S : \A k \in rows : k[2] # VersionOf[f]}
UnrecordedAll(S) == S

\* The versions of a set that the tracking table does not list.
Unrecorded(S) == {f \in S : Key(f) \notin rows}

\* The tracking table exists once the file that creates it has been committed.
TableExists == applied[InitFile] > 0

\* Faulty variant: the files are not sorted.
LowestUnsorted(S) == S

\* The next files the sorted loop may take.
Lowest(S) == {f \in S : \A g \in S : VersionOf[f] <= VersionOf[g]}

-----------------------------------------------------------------------------
Init ==
  /\ rows = {}
  /\ applied = [f \in File |-> 0]
  /\ pc = [r \in Runner |-> "down"]
  /\ left = [r \in Runner |-> {}]
  /\ todo = [r \in Runner |-> {}]
  /\ cur = [r \in Runner |-> NoFile]
  /\ faults = 0

Goto(r, to) == pc' = [pc EXCEPT ![r] = to]

\* A transaction of r ends without effect, and its run with an error.
Fail(r) ==
  /\ Goto(r, "failed")
  /\ cur' = [cur EXCEPT ![r] = NoFile]
  /\ todo' = [todo EXCEPT ![r] = {}]
  /\ left' = [left EXCEPT ![r] = {}]

\* RunMigrations or RunSet is called: for the first time, by a process that
\* was restarted, or again by one that has already been through it.
Start(r) ==
  /\ pc[r] \in {"down", "failed", "done"}
  /\ Goto(r, "check")
  /\ left' = [left EXCEPT ![r] = DOMAIN Registered[r]]
  /\ UNCHANGED <<database, todo, cur, faults>>

\* bootstrap: the SELECT EXISTS that decides whether 0001 is run.
CheckTable(r) ==
  /\ pc[r] = "check"
  /\ IF TableExists
       THEN Goto(r, "read") /\ UNCHANGED cur
       ELSE Goto(r, "sql") /\ cur' = [cur EXCEPT ![r] = InitFile]
  /\ UNCHANGED <<database, left, todo, faults>>

\* Faulty variant: files whose name does not parse are left out instead.
ReadAppliedSkippingMalformed(r) ==
  /\ pc[r] = "read"
  /\ \E i \in left[r] :
       /\ \A j \in left[r] \ {i} : Precedes(r, i, j)
       /\ todo' = [todo EXCEPT ![r] = Unrecorded(Registered[r][i].files \ Malformed)]
       /\ left' = [left EXCEPT ![r] = @ \ {i}]
  /\ Goto(r, "apply")
  /\ UNCHANGED <<database, cur, faults>>

\* runSet up to its loop: list the files, then read the recorded versions.
ReadApplied(r) ==
  /\ pc[r] = "read"
  /\ \E i \in left[r] :
       /\ \A j \in left[r] \ {i} : Precedes(r, i, j)
       /\ Registered[r][i].files \intersect Malformed = {}
       /\ todo' = [todo EXCEPT ![r] = Unrecorded(Registered[r][i].files)]
       /\ left' = [left EXCEPT ![r] = @ \ {i}]
  /\ Goto(r, "apply")
  /\ UNCHANGED <<database, cur, faults>>

\* runSet refuses a set with a file it cannot parse before it touches any.
RefuseSet(r) ==
  /\ pc[r] = "read"
  /\ \E i \in left[r] :
       /\ \A j \in left[r] \ {i} : Precedes(r, i, j)
       /\ Registered[r][i].files \intersect Malformed # {}
  /\ Fail(r)
  /\ UNCHANGED <<database, faults>>

\* No set is left: RunMigrations returns nil.
Finish(r) ==
  /\ pc[r] = "read"
  /\ left[r] = {}
  /\ Goto(r, "done")
  /\ UNCHANGED <<database, left, todo, cur, faults>>

\* The loop takes its next unrecorded file and begins a transaction.
Begin(r) ==
  /\ pc[r] = "apply"
  /\ \E f \in Lowest(todo[r]) :
       /\ cur' = [cur EXCEPT ![r] = f]
       /\ todo' = [todo EXCEPT ![r] = @ \ {f}]
  /\ Goto(r, "sql")
  /\ UNCHANGED <<database, left, faults>>

\* The loop is over (after bootstrap it is empty from the start).
EndSet(r) ==
  /\ pc[r] = "apply"
  /\ todo[r] = {}
  /\ Goto(r, "read")
  /\ UNCHANGED <<database, left, todo, cur, faults>>

\* Another runner's open transaction has run f's SQL: Postgres makes a second
\* CREATE of the same object wait for it.
HeldByAnother(r, f) ==
  \E q \in Runner \ {r} : pc[q] \in {"insert", "commit"} /\ cur[q] = f

\* Another runner's open transaction has inserted f's key: the UNIQUE
\* constraint makes a second insert of it wait.
KeyHeldByAnother(r, f) ==
  \E q \in Runner \ {r} : pc[q] = "commit" /\ Key(cur[q]) = Key(f)

\* Faulty variant: a UNIQUE constraint that includes the name.
KeyTakenByName(f) == applied[f] > 0

\* UNIQUE(prefix, version)
KeyTaken(f) == Key(f) \in rows

\* Faulty variant: the SQL is executed on the pool, outside the transaction.
ExecSQLOutsideTx(r) ==
  /\ pc[r] = "sql"
  /\ cur[r] \notin Broken
  /\ cur[r] \notin Rerunnable => applied[cur[r]] = 0 /\ ~HeldByAnother(r, cur[r])
  /\ Goto(r, "insert")
  /\ applied' = [applied EXCEPT ![cur[r]] = @ + 1]
  /\ UNCHANGED <<rows, left, todo, cur, faults>>

\* applyMigration: the file's SQL succeeds inside the transaction.
ExecSQL(r) ==
  /\ pc[r] = "sql"
  /\ cur[r] \notin Broken
  /\ cur[r] \notin Rerunnable => applied[cur[r]] = 0 /\ ~HeldByAnother(r, cur[r])
  /\ Goto(r, "insert")
  /\ UNCHANGED <<database, left, todo, cur, faults>>

\* applyMigration: the SQL is rejected and the transaction rolled back.
RejectSQL(r) ==
  /\ pc[r] = "sql"
  /\ \/ cur[r] \in Broken
     \/ cur[r] \notin Rerunnable /\ applied[cur[r]] > 0
  /\ Fail(r)
  /\ UNCHANGED <<database, faults>>

\* applyMigration: the tracking row is inserted inside the transaction.
InsertRow(r) ==
  /\ pc[r] = "insert"
  /\ ~KeyTaken(cur[r])
  /\ ~KeyHeldByAnother(r, cur[r])
  /\ Goto(r, "commit")
  /\ UNCHANGED <<database, left, todo, cur, faults>>

\* Faulty variant: the insert is tried again instead of giving up.
RejectRowRetry(r) ==
  /\ pc[r] = "insert"
  /\ KeyTaken(cur[r])
  /\ UNCHANGED vars

\* applyMigration: the key is already there; roll back.
RejectRow(r) ==
  /\ pc[r] = "insert"
  /\ KeyTaken(cur[r])
  /\ Fail(r)
  /\ UNCHANGED <<database, faults>>

\* The transaction of r takes effect: the SQL and its row together.
TakeEffect(r) ==
  /\ rows' = rows \union {Key(cur[r])}
  /\ applied' = [applied EXCEPT ![cur[r]] = @ + 1]

\* applyMigration: tx.Commit() returns nil, and the loop goes on.
Commit(r) ==
  /\ pc[r] = "commit"
  /\ TakeEffect(r)
  /\ Goto(r, "apply")
  /\ cur' = [cur EXCEPT ![r] = NoFile]
  /\ UNCHANGED <<left, todo, faults>>

\* tx.Commit() has its effect but the runner never learns: the connection is
\* lost or the process dies before the answer.
CommitUnanswered(r) ==
  /\ pc[r] = "commit"
  /\ faults < MaxFaults
  /\ TakeEffect(r)
  /\ Fail(r)
  /\ faults' = faults + 1

\* The process dies, or its connection does, and Postgres rolls its
\* transaction back.
Interrupt(r) ==
  /\ pc[r] \in Running
  /\ faults < MaxFaults
  /\ Fail(r)
  /\ faults' = faults + 1
  /\ UNCHANGED database

-----------------------------------------------------------------------------
Step(r) ==
  \/ CheckTable(r) \/ ReadApplied(r) \/ RefuseSet(r) \/ Finish(r)
  \/ Begin(r) \/ EndSet(r)
  \/ ExecSQL(r) \/ RejectSQL(r) \/ InsertRow(r) \/ RejectRow(r) \/ Commit(r)

Next == \E r \in Runner : Start(r) \/ Step(r) \/ CommitUnanswered(r) \/ Interrupt(r)

Spec == Init /\ [][Next]_vars

-----------------------------------------------------------------------------
\* Type correctness.
TypeOK ==
  /\ rows \subseteq Line \X Int
  /\ applied \in [File -> Nat]
  /\ pc \in [Runner -> Running \union {"down", "failed", "done"}]
  /\ left \in [Runner -> SUBSET Int]
  /\ \A r \in Runner : left[r] \subseteq DOMAIN Registered[r]
  /\ todo \in [Runner -> SUBSET File]
  /\ cur \in [Runner -> File \union {NoFile}]
  /\ \A r \in Runner : cur[r] \in File <=> pc[r] \in {"sql", "insert", "commit"}
  /\ faults \in 0 .. MaxFaults

\* "Never half-applied and never recorded-but-not-applied" (migrate.go:118):
\* a version is recorded exactly when the SQL of a file with that version has
\* taken effect, whatever runners crash or collide on.
RecordedIffApplied ==
  rows = {Key(f) : f \in {g \in File : applied[g] > 0}}

\* No file's SQL takes effect twice, not even SQL that would not object: the
\* versions a runner read may be stale by the time it applies them.
AppliedOnce == \A f \in File : applied[f] <= 1

\* Whatever releases meet on the database, at most one of the files that share
\* a prefix and a version ever takes effect.
OneFilePerVersion ==
  \A f, g \in File : applied[f] > 0 /\ applied[g] > 0 /\ Key(f) = Key(g) => f = g

\* When RunMigrations returns nil, every registered file has taken effect and
\* is recorded, and the server that goes on to serve has its whole schema.
DoneMeansApplied ==
  \A r \in Runner : pc[r] = "done" =>
    \A i \in DOMAIN Registered[r] : \A f \in Registered[r][i].files :
      applied[f] = 1 /\ Key(f) \in rows

\* A process that registered the framework's set, in whatever order, runs no
\* other migration before all of the framework's are recorded.
FrameworkFirst ==
  \A r \in Runner : cur[r] \in File /\ PrefixOf[cur[r]] # Framework =>
    \A i \in DOMAIN Registered[r] : Registered[r][i].prefix = Framework =>
      \A f \in Registered[r][i].files : Key(f) \in rows

\* The runners implement the ledger: every growth of the tracking table is one
\* execution of one file, in version order within the release it came from.
Release == {{InitFile}} \union
  UNION {{Registered[r][i].files : i \in DOMAIN Registered[r]} : r \in Runner}

Ledger == INSTANCE MigrationLedger

LedgerSpec == Ledger!Spec

\* A set with a file name that does not parse is refused as a whole: unless
\* another release carries it too, none of its files ever takes effect.
RefusedWhole ==
  \A f \in File \ {InitFile} : applied[f] > 0 =>
    \E r \in Runner : \E i \in DOMAIN Registered[r] :
      f \in Registered[r][i].files /\ Registered[r][i].files \intersect Malformed = {}

\* No run hangs: runners that wait for each other's locks always get through
\* or fail.
RunsEnd == \A r \in Runner : pc[r] \in Running ~> pc[r] \notin Running
=============================================================================
