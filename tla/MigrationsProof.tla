-------------------------- MODULE MigrationsProof --------------------------
(***************************************************************************)
(* Proofs about Migrations, for any number of runners, releases and files, *)
(* and about what builds on it: SchemaReset and ServerBoot.                *)
(***************************************************************************)
EXTENDS SchemaReset, ServerBoot, TLAPS

-----------------------------------------------------------------------------
(***************************************************************************)
(* Facts about the constants.                                              *)
(***************************************************************************)

\* The files of a registered set are files, and all of the set's prefix.
LEMMA RegisteredSet ==
  ASSUME NEW r \in Runner, NEW i \in DOMAIN Registered[r]
  PROVE  /\ i \in Int
         /\ Registered[r][i].files \subseteq File
         /\ \A f \in Registered[r][i].files : PrefixOf[f] = Registered[r][i].prefix
<1>1. Registered[r] \in Seq(MigrationSet)
  BY MigrationsAssumption
<1>2. Registered[r][i] \in MigrationSet /\ i \in Int
  BY <1>1
<1>. QED  BY <1>2, MigrationsAssumption DEF MigrationSet

\* A key is a prefix and a version number.
LEMMA KeyType == ASSUME NEW f \in File PROVE Key(f) \in Line \X Int
BY MigrationsAssumption DEF Key

-----------------------------------------------------------------------------
(***************************************************************************)
(* Type correctness.                                                       *)
(***************************************************************************)

\* A failed run leaves the types alone.
LEMMA FailTypeOK ==
  ASSUME TypeOK, NEW r \in Runner, Fail(r), UNCHANGED database, faults' \in 0 .. MaxFaults
  PROVE  TypeOK'
BY MigrationsAssumption DEF TypeOK, Fail, Goto, database, Running

\* Every step of every runner, faults included, keeps the types.
LEMMA NextTypeOK == TypeOK /\ [Next]_vars => TypeOK'
<1> SUFFICES ASSUME TypeOK, [Next]_vars PROVE TypeOK'
  OBVIOUS
<1> USE DEF TypeOK, Goto, database, Running
<1>1. ASSUME NEW r \in Runner, Start(r) PROVE TypeOK'
  <2>1. DOMAIN Registered[r] \subseteq Int
    BY RegisteredSet
  <2>. QED  BY <1>1, <2>1, MigrationsAssumption DEF Start
<1>2. ASSUME NEW r \in Runner, CheckTable(r) PROVE TypeOK'
  <2>1. CASE TableExists
    BY <1>2, <2>1 DEF CheckTable
  <2>2. CASE ~TableExists
    <3>1. pc' = [pc EXCEPT ![r] = "sql"] /\ cur' = [cur EXCEPT ![r] = InitFile]
      BY <1>2, <2>2 DEF CheckTable
    <3>2. UNCHANGED <<rows, applied, left, todo, faults>>
      BY <1>2 DEF CheckTable
    <3>3. InitFile \in File
      BY MigrationsAssumption
    <3>4. \A q \in Runner : cur'[q] \in File <=> pc'[q] \in {"sql", "insert", "commit"}
      BY <3>1, <3>3
    <3>5. /\ pc' \in [Runner -> Running \union {"down", "failed", "done"}]
          /\ cur' \in [Runner -> File \union {NoFile}]
      BY <3>1, <3>3
    <3>. QED  BY <3>2, <3>4, <3>5
  <2>. QED  BY <2>1, <2>2
<1>3. ASSUME NEW r \in Runner, ReadApplied(r) PROVE TypeOK'
  <2>1. PICK i \in left[r] :
          /\ todo' = [todo EXCEPT ![r] = Unrecorded(Registered[r][i].files)]
          /\ left' = [left EXCEPT ![r] = @ \ {i}]
    BY <1>3 DEF ReadApplied
  <2>2. Unrecorded(Registered[r][i].files) \subseteq File
    BY RegisteredSet DEF Unrecorded
  <2>. QED  BY <1>3, <2>1, <2>2, MigrationsAssumption DEF ReadApplied
<1>4. ASSUME NEW r \in Runner, RefuseSet(r) PROVE TypeOK'
  BY <1>4, FailTypeOK DEF RefuseSet
<1>5. ASSUME NEW r \in Runner, Finish(r) PROVE TypeOK'
  BY <1>5 DEF Finish
<1>6. ASSUME NEW r \in Runner, Begin(r) PROVE TypeOK'
  BY <1>6, MigrationsAssumption DEF Begin, Lowest
<1>7. ASSUME NEW r \in Runner, EndSet(r) PROVE TypeOK'
  BY <1>7 DEF EndSet
<1>8. ASSUME NEW r \in Runner, ExecSQL(r) PROVE TypeOK'
  BY <1>8 DEF ExecSQL
<1>9. ASSUME NEW r \in Runner, RejectSQL(r) PROVE TypeOK'
  BY <1>9, FailTypeOK DEF RejectSQL
<1>10. ASSUME NEW r \in Runner, InsertRow(r) PROVE TypeOK'
  BY <1>10 DEF InsertRow
<1>11. ASSUME NEW r \in Runner, RejectRow(r) PROVE TypeOK'
  BY <1>11, FailTypeOK DEF RejectRow
<1>12. ASSUME NEW r \in Runner, Commit(r) PROVE TypeOK'
  <2>1. cur[r] \in File
    BY <1>12 DEF Commit
  <2>. QED  BY <1>12, <2>1, KeyType, MigrationsAssumption DEF Commit, TakeEffect
<1>13. ASSUME NEW r \in Runner, CommitUnanswered(r) PROVE TypeOK'
  <2>1. cur[r] \in File
    BY <1>13 DEF CommitUnanswered
  <2>. QED  BY <1>13, <2>1, KeyType, MigrationsAssumption DEF CommitUnanswered, TakeEffect, Fail
<1>14. ASSUME NEW r \in Runner, Interrupt(r) PROVE TypeOK'
  BY <1>14, FailTypeOK, MigrationsAssumption DEF Interrupt
<1>15. CASE UNCHANGED vars
  BY <1>15 DEF vars
<1>. QED
  BY <1>1, <1>2, <1>3, <1>4, <1>5, <1>6, <1>7, <1>8, <1>9, <1>10, <1>11, <1>12,
     <1>13, <1>14, <1>15 DEF Next, Step

\* A runner may crash between any two steps and restart: its program counter
\* and its open transaction always agree.
THEOREM TypeCorrect == Spec => []TypeOK
<1>1. Init => TypeOK
  BY MigrationsAssumption DEF Init, TypeOK, Running
<1>. QED  BY <1>1, NextTypeOK, PTL DEF Spec

-----------------------------------------------------------------------------
(***************************************************************************)
(* The inductive invariant.                                                *)
(***************************************************************************)

\* The key that an open transaction has inserted is not in the table, and no
\* other open transaction has inserted it.
KeyExclusive ==
  \A r \in Runner : pc[r] = "commit" =>
    /\ Key(cur[r]) \notin rows
    /\ \A q \in Runner \ {r} : pc[q] = "commit" => Key(cur[q]) # Key(cur[r])

\* The files r has taken up but not finished.
Pending(r) == todo[r] \union {f \in File : cur[r] = f}

\* What r is working on is bootstrap's file alone, or comes from the set at i,
\* which it has read as a whole and found well-formed.
WorksOn(r, i) ==
  /\ i \in DOMAIN Registered[r] \ left[r]
  /\ Registered[r][i].files \intersect Malformed = {}
  /\ Pending(r) \subseteq Registered[r][i].files
  /\ \A f \in Registered[r][i].files : Key(f) \in rows \/ f \in Pending(r)

\* The same without what the table says: the set was well-formed.
Admitted(r) ==
  \/ todo[r] = {} /\ cur[r] \in {NoFile, InitFile}
  \/ \E i \in DOMAIN Registered[r] :
       /\ Registered[r][i].files \intersect Malformed = {}
       /\ Pending(r) \subseteq Registered[r][i].files

Focused(r) ==
  \/ todo[r] = {} /\ cur[r] \in {NoFile, InitFile}
  \/ \E i \in DOMAIN Registered[r] : WorksOn(r, i)

\* The open transaction's file is a lowest one.
LowestFirst(r) ==
  cur[r] \in File => \A f \in todo[r] : VersionOf[cur[r]] <= VersionOf[f]

\* Nothing is pending outside the loop, and at the end no set is left.
Settled(r) ==
  /\ pc[r] \in {"down", "failed", "done", "check", "read"} => todo[r] = {}
  /\ pc[r] = "done" => left[r] = {}

\* The sets that r has been through are recorded, but for what is pending.
Covered(r) ==
  pc[r] \in Running \union {"done"} =>
    \A i \in DOMAIN Registered[r] \ left[r] :
      \A f \in Registered[r][i].files : Key(f) \in rows \/ f \in Pending(r)

\* The sets come up in the order orderMigrationSets gives them.
InOrder(r) ==
  pc[r] \in Running =>
    \A i \in left[r], j \in DOMAIN Registered[r] \ left[r] : Precedes(r, j, i)

RunnerInv(r) == Focused(r) /\ LowestFirst(r) /\ Settled(r) /\ Covered(r) /\ InOrder(r)

DatabaseInv ==
  RecordedIffApplied /\ AppliedOnce /\ OneFilePerVersion /\ RefusedWhole

IInv ==
  /\ TypeOK
  /\ DatabaseInv
  /\ KeyExclusive
  /\ \A r \in Runner : RunnerInv(r)

-----------------------------------------------------------------------------
(***************************************************************************)
(* What each kind of step preserves.                                       *)
(***************************************************************************)

\* A transaction takes effect on a key that was free, with a file that had
\* not been applied.
LEMMA FreeKey ==
  ASSUME TypeOK, RecordedIffApplied, KeyExclusive, NEW r \in Runner, pc[r] = "commit"
  PROVE  /\ cur[r] \in File
         /\ Key(cur[r]) \notin rows
         /\ \A f \in File : Key(f) = Key(cur[r]) => applied[f] = 0
<1>1. cur[r] \in File /\ Key(cur[r]) \notin rows
  BY DEF TypeOK, KeyExclusive
<1>2. ASSUME NEW f \in File, applied[f] > 0 PROVE Key(f) \in rows
  BY <1>2 DEF RecordedIffApplied
<1>3. \A f \in File : applied[f] \in Nat
  BY DEF TypeOK
<1>. QED  BY <1>1, <1>2, <1>3

\* What a runner has found to be missing was in a well-formed set.
LEMMA AdmittedIfFocused == ASSUME NEW r \in Runner, Focused(r) PROVE Admitted(r)
BY DEF Focused, WorksOn, Admitted

\* A commit keeps the table in step with the schema.
LEMMA TakeEffectInv ==
  ASSUME TypeOK, DatabaseInv, KeyExclusive, NEW r \in Runner, Admitted(r),
         pc[r] = "commit", TakeEffect(r)
  PROVE  DatabaseInv' /\ rows \subseteq rows'
<1> DEFINE c == cur[r]
<1>1. /\ c \in File
      /\ Key(c) \notin rows
      /\ \A f \in File : Key(f) = Key(c) => applied[f] = 0
  BY FreeKey DEF DatabaseInv
<1>2. /\ rows' = rows \union {Key(c)}
      /\ applied \in [File -> Nat]
      /\ applied' = [applied EXCEPT ![c] = 1]
  <2>1. applied[c] = 0 /\ applied[c] + 1 = 1
    BY <1>1
  <2>. QED  BY <2>1 DEF TakeEffect, TypeOK
<1> HIDE DEF c
<1>3. {g \in File : applied'[g] > 0} = {g \in File : applied[g] > 0} \union {c}
  <2>1. \A g \in File : applied'[g] = IF g = c THEN 1 ELSE applied[g]
    BY <1>1, <1>2
  <2>2. \A g \in File : applied'[g] > 0 <=> applied[g] > 0 \/ g = c
    BY <2>1, 1 > 0
  <2>. QED  BY <1>1, <2>2, Zenon
<1>4. RecordedIffApplied'
  <2>1. rows = {Key(f) : f \in {g \in File : applied[g] > 0}}
    BY DEF DatabaseInv, RecordedIffApplied
  <2>2. rows' = {Key(f) : f \in {g \in File : applied'[g] > 0}}
    BY <1>2, <1>3, <2>1
  <2>. QED  BY <2>2 DEF RecordedIffApplied, Key
<1>5. AppliedOnce'
  BY <1>1, <1>2 DEF AppliedOnce, DatabaseInv
<1>6. OneFilePerVersion'
  BY <1>1, <1>2 DEF OneFilePerVersion, DatabaseInv, Key
<1>7. RefusedWhole'
  <2>1. c # InitFile =>
          \E i \in DOMAIN Registered[r] :
            c \in Registered[r][i].files /\ Registered[r][i].files \intersect Malformed = {}
    <3>1. c # NoFile
      BY <1>1, MigrationsAssumption
    <3>. QED  BY <1>1, <3>1 DEF Admitted, Pending, c
  <2>2. \A f \in File : applied'[f] > 0 => applied[f] > 0 \/ f = c
    BY <1>2
  <2>. QED  BY <2>1, <2>2 DEF RefusedWhole, DatabaseInv
<1>. QED  BY <1>2, <1>4, <1>5, <1>6, <1>7 DEF DatabaseInv

\* The invariant on the database is about rows and applied only.
LEMMA DatabaseKept ==
  ASSUME DatabaseInv, UNCHANGED database PROVE DatabaseInv' /\ rows \subseteq rows'
BY DEF DatabaseInv, RecordedIffApplied, AppliedOnce, OneFilePerVersion, RefusedWhole,
       database, Key

\* A runner is not disturbed by another's step.
LEMMA OtherRunner ==
  ASSUME NEW q \in Runner, RunnerInv(q), rows \subseteq rows',
         pc'[q] = pc[q], left'[q] = left[q], todo'[q] = todo[q], cur'[q] = cur[q]
  PROVE  RunnerInv(q)'
BY DEF RunnerInv, Focused, WorksOn, Pending, LowestFirst, Settled, Covered, InOrder, Key

\* A failed run leaves nothing behind.
LEMMA FailedRunner ==
  ASSUME TypeOK, NEW r \in Runner, Fail(r)
  PROVE  RunnerInv(r)'
BY DEF TypeOK, Fail, Goto, RunnerInv, Focused, LowestFirst, Settled, Covered, InOrder, Running

\* A step concerns one runner's own variables.
Local(r) ==
  \A q \in Runner \ {r} :
    pc'[q] = pc[q] /\ left'[q] = left[q] /\ todo'[q] = todo[q] /\ cur'[q] = cur[q]

\* An action of one runner disturbs the private state of no other.
LEMMA StepIsLocal ==
  ASSUME TypeOK, NEW r \in Runner,
         Start(r) \/ Step(r) \/ CommitUnanswered(r) \/ Interrupt(r)
  PROVE  Local(r)
<1> USE DEF TypeOK, Goto, Local
<1>1. ASSUME Fail(r) PROVE Local(r)
  BY <1>1 DEF Fail
<1>2. CASE Start(r)
  BY <1>2 DEF Start
<1>3. CASE CheckTable(r)
  <2>1. pc' = [pc EXCEPT ![r] = "read"] \/ pc' = [pc EXCEPT ![r] = "sql"]
    BY <1>3 DEF CheckTable
  <2>2. cur' = cur \/ cur' = [cur EXCEPT ![r] = InitFile]
    BY <1>3 DEF CheckTable
  <2>. QED  BY <1>3, <2>1, <2>2 DEF CheckTable
<1>4. CASE ReadApplied(r)
  BY <1>4 DEF ReadApplied
<1>5. CASE RefuseSet(r)
  BY <1>1, <1>5 DEF RefuseSet
<1>6. CASE Finish(r)
  BY <1>6 DEF Finish
<1>7. CASE Begin(r)
  BY <1>7 DEF Begin
<1>8. CASE EndSet(r)
  BY <1>8 DEF EndSet
<1>9. CASE ExecSQL(r)
  BY <1>9 DEF ExecSQL
<1>10. CASE RejectSQL(r)
  BY <1>1, <1>10 DEF RejectSQL
<1>11. CASE InsertRow(r)
  BY <1>11 DEF InsertRow
<1>12. CASE RejectRow(r)
  BY <1>1, <1>12 DEF RejectRow
<1>13. CASE Commit(r)
  BY <1>13 DEF Commit
<1>14. CASE CommitUnanswered(r)
  BY <1>1, <1>14 DEF CommitUnanswered
<1>15. CASE Interrupt(r)
  BY <1>1, <1>15 DEF Interrupt
<1>. QED
  BY <1>2, <1>3, <1>4, <1>5, <1>6, <1>7, <1>8, <1>9, <1>10, <1>11, <1>12, <1>13,
     <1>14, <1>15 DEF Step

\* The key of an open transaction stays exclusive when no new one is inserted.
LEMMA KeyExclusiveKept ==
  ASSUME KeyExclusive, NEW r \in Runner, Local(r), rows' = rows, pc'[r] # "commit"
  PROVE  KeyExclusive'
BY DEF KeyExclusive, Local, Key

\* A transaction that takes effect leaves the keys of the others exclusive.
LEMMA KeyExclusiveTaken ==
  ASSUME KeyExclusive, NEW r \in Runner, pc[r] = "commit", Local(r),
         rows' = rows \union {Key(cur[r])}, pc'[r] # "commit"
  PROVE  KeyExclusive'
BY DEF KeyExclusive, Local, Key

-----------------------------------------------------------------------------
(***************************************************************************)
(* What the runner that takes a step keeps of its own invariant.           *)
(***************************************************************************)

\* A runner that starts has all its sets before it.
LEMMA StartRunner ==
  ASSUME TypeOK, NEW r \in Runner, Settled(r), Start(r) PROVE RunnerInv(r)'
<1>1. /\ cur[r] = NoFile /\ todo[r] = {}
      /\ pc'[r] = "check" /\ left'[r] = DOMAIN Registered[r]
      /\ cur'[r] = NoFile /\ todo'[r] = {}
  BY DEF TypeOK, Start, Goto, Settled
<1>. QED
  BY <1>1, MigrationsAssumption
     DEF RunnerInv, Focused, LowestFirst, Settled, Covered, InOrder, Running

\* bootstrap opens its transaction on 0001 only when nothing is recorded.
LEMMA CheckTableRunner ==
  ASSUME TypeOK, NEW r \in Runner, RunnerInv(r), CheckTable(r) PROVE RunnerInv(r)'
<1>1. /\ pc[r] = "check" /\ todo[r] = {} /\ todo'[r] = {} /\ left'[r] = left[r]
      /\ cur[r] = NoFile /\ rows' = rows
  BY DEF TypeOK, CheckTable, RunnerInv, Settled, database
<1>2. \/ pc'[r] = "read" /\ cur'[r] = NoFile
      \/ pc'[r] = "sql" /\ cur'[r] = InitFile
  <2>1. CASE TableExists
    BY <1>1, <2>1 DEF TypeOK, CheckTable, Goto
  <2>2. CASE ~TableExists
    BY <1>1, <2>2 DEF TypeOK, CheckTable, Goto
  <2>. QED  BY <2>1, <2>2
<1>3. Focused(r)' /\ LowestFirst(r)' /\ Settled(r)'
  BY <1>1, <1>2 DEF Focused, LowestFirst, Settled
<1>4. Covered(r)'
  BY <1>1, <1>2, MigrationsAssumption DEF RunnerInv, Covered, Pending, Running, Key
<1>5. InOrder(r)'
  BY <1>1, <1>2 DEF RunnerInv, InOrder, Running
<1>. QED  BY <1>3, <1>4, <1>5 DEF RunnerInv

\* What runSet leaves out of its loop is recorded already.
LEMMA ReadAppliedRunner ==
  ASSUME TypeOK, NEW r \in Runner, RunnerInv(r), ReadApplied(r) PROVE RunnerInv(r)'
<1> DEFINE F(i) == Registered[r][i].files
<1>1. PICK i \in left[r] :
        /\ \A j \in left[r] \ {i} : Precedes(r, i, j)
        /\ F(i) \intersect Malformed = {}
        /\ todo' = [todo EXCEPT ![r] = Unrecorded(F(i))]
        /\ left' = [left EXCEPT ![r] = @ \ {i}]
  BY DEF ReadApplied
<1>2. /\ pc[r] = "read" /\ pc'[r] = "apply" /\ cur'[r] = NoFile /\ cur[r] = NoFile
      /\ todo[r] = {} /\ rows' = rows
      /\ i \in DOMAIN Registered[r] /\ left[r] \subseteq DOMAIN Registered[r]
      /\ todo'[r] = Unrecorded(F(i)) /\ left'[r] = left[r] \ {i}
  BY <1>1 DEF TypeOK, ReadApplied, Goto, RunnerInv, Settled, database
<1>3. F(i) \subseteq File
  BY <1>2, RegisteredSet
<1>4. Pending(r)' = Unrecorded(F(i))
  BY <1>2, MigrationsAssumption DEF Pending
<1> HIDE DEF F
<1>5. \A f \in F(i) : (Key(f) \in rows)' \/ f \in Pending(r)'
  BY <1>2, <1>4 DEF Unrecorded, Key
<1>6. Focused(r)'
  <2>1. WorksOn(r, i)'
    BY <1>1, <1>2, <1>4, <1>5 DEF WorksOn, F, Unrecorded
  <2>. QED  BY <2>1, <1>2 DEF Focused
<1>7. LowestFirst(r)' /\ Settled(r)'
  BY <1>2, MigrationsAssumption DEF LowestFirst, Settled
<1>8. Covered(r)'
  <2>1. ASSUME NEW k \in DOMAIN Registered[r] \ left'[r], NEW f \in F(k)
        PROVE  (Key(f) \in rows)' \/ f \in Pending(r)'
    <3>1. CASE k = i
      BY <3>1, <2>1, <1>5
    <3>2. CASE k \notin left[r]
      <4>1. f \in File
        BY <2>1, RegisteredSet DEF F
      <4>2. Key(f) \in rows \/ f \in Pending(r)
        BY <1>2, <2>1, <3>2 DEF RunnerInv, Covered, Running, F
      <4>. QED  BY <1>2, <4>1, <4>2, MigrationsAssumption DEF Pending, Key
    <3>. QED  BY <1>2, <3>1, <3>2
  <2>. QED  BY <2>1 DEF Covered, F
<1>9. InOrder(r)'
  BY <1>1, <1>2 DEF RunnerInv, InOrder, Running
<1>. QED  BY <1>6, <1>7, <1>8, <1>9 DEF RunnerInv

\* A run that returns nil has left nothing out.
LEMMA FinishRunner ==
  ASSUME TypeOK, NEW r \in Runner, RunnerInv(r), Finish(r) PROVE RunnerInv(r)'
BY DEF TypeOK, Finish, Goto, RunnerInv, Focused, WorksOn, LowestFirst, Settled, Covered,
       InOrder, Pending, Running, Key, database

\* A set whose loop is over has left nothing out.
LEMMA EndSetRunner ==
  ASSUME TypeOK, NEW r \in Runner, RunnerInv(r), EndSet(r) PROVE RunnerInv(r)'
BY DEF TypeOK, EndSet, Goto, RunnerInv, Focused, WorksOn, LowestFirst, Settled, Covered,
       InOrder, Pending, Running, Key, database

\* The loop opens its transaction on the lowest version that is left.
LEMMA BeginRunner ==
  ASSUME TypeOK, NEW r \in Runner, RunnerInv(r), Begin(r) PROVE RunnerInv(r)'
<1>1. PICK f \in Lowest(todo[r]) :
        /\ cur' = [cur EXCEPT ![r] = f]
        /\ todo' = [todo EXCEPT ![r] = @ \ {f}]
  BY DEF Begin
<1>2. /\ pc[r] = "apply" /\ pc'[r] = "sql" /\ left'[r] = left[r] /\ rows' = rows
      /\ f \in todo[r] /\ f \in File /\ cur'[r] = f /\ todo'[r] = todo[r] \ {f}
      /\ cur[r] = NoFile
  BY <1>1 DEF TypeOK, Begin, Goto, Lowest, database
<1>3. Pending(r)' = Pending(r)
  <2>1. Pending(r) = todo[r]
    BY <1>2, MigrationsAssumption DEF Pending
  <2>2. Pending(r)' = (todo[r] \ {f}) \union {f}
    BY <1>2 DEF Pending
  <2>. QED  BY <1>2, <2>1, <2>2
<1>4. Focused(r)'
  <2>1. PICK i \in DOMAIN Registered[r] : WorksOn(r, i)
    BY <1>2 DEF RunnerInv, Focused
  <2>2. WorksOn(r, i)'
    BY <1>2, <1>3, <2>1 DEF WorksOn, Key
  <2>. QED  BY <2>2 DEF Focused
<1>5. LowestFirst(r)'
  BY <1>1, <1>2 DEF LowestFirst, Lowest
<1>6. Settled(r)'
  BY <1>2 DEF Settled
<1>7. Covered(r)' /\ InOrder(r)'
  BY <1>2, <1>3 DEF RunnerInv, Covered, InOrder, Running, Key
<1>. QED  BY <1>4, <1>5, <1>6, <1>7 DEF RunnerInv

\* ExecSQL and InsertRow move on inside the transaction.
LEMMA InsideRunner ==
  ASSUME TypeOK, NEW r \in Runner, RunnerInv(r), ExecSQL(r) \/ InsertRow(r)
  PROVE  RunnerInv(r)'
<1>1. /\ pc[r] \in {"sql", "insert"} /\ pc'[r] \in {"insert", "commit"}
      /\ left' = left /\ todo' = todo /\ cur' = cur /\ rows' = rows
  BY DEF TypeOK, ExecSQL, InsertRow, Goto, database
<1>. QED
  BY <1>1 DEF RunnerInv, Focused, WorksOn, LowestFirst, Settled, Covered, InOrder, Pending,
              Running, Key

\* After a commit the runner has its file behind it and recorded.
LEMMA CommitRunner ==
  ASSUME TypeOK, NEW r \in Runner, RunnerInv(r), Commit(r) PROVE RunnerInv(r)'
<1>1. /\ pc[r] = "commit" /\ pc'[r] = "apply" /\ left'[r] = left[r] /\ todo'[r] = todo[r]
      /\ cur[r] \in File /\ cur'[r] = NoFile /\ rows' = rows \union {Key(cur[r])}
  BY DEF TypeOK, Commit, TakeEffect, Goto
<1>2. Pending(r)' = todo[r] /\ Pending(r) = todo[r] \union {cur[r]}
  BY <1>1, MigrationsAssumption DEF Pending
<1>3. \A f \in File :
        Key(f) \in rows \/ f \in Pending(r) => (Key(f) \in rows)' \/ f \in Pending(r)'
  BY <1>1, <1>2 DEF Key
<1>4. Focused(r)'
  <2>1. CASE todo[r] = {} /\ cur[r] \in {NoFile, InitFile}
    BY <1>1, <2>1 DEF Focused
  <2>2. ASSUME NEW i \in DOMAIN Registered[r], WorksOn(r, i) PROVE WorksOn(r, i)'
    BY <1>1, <1>2, <1>3, <2>2, RegisteredSet DEF WorksOn
  <2>. QED  BY <2>1, <2>2 DEF RunnerInv, Focused
<1>5. LowestFirst(r)' /\ Settled(r)'
  BY <1>1, MigrationsAssumption DEF LowestFirst, Settled
<1>6. Covered(r)'
  BY <1>1, <1>3, RegisteredSet DEF RunnerInv, Covered, Running
<1>7. InOrder(r)'
  BY <1>1 DEF RunnerInv, InOrder, Running
<1>. QED  BY <1>4, <1>5, <1>6, <1>7 DEF RunnerInv

-----------------------------------------------------------------------------
(***************************************************************************)
(* The invariant is inductive.                                             *)
(***************************************************************************)

\* The invariant holds of an empty database with no process running.
LEMMA InitInv == Init => IInv
<1> SUFFICES ASSUME Init PROVE IInv
  OBVIOUS
<1>1. TypeOK
  BY MigrationsAssumption DEF Init, TypeOK, Running
<1>2. DatabaseInv
  BY DEF Init, DatabaseInv, RecordedIffApplied, AppliedOnce, OneFilePerVersion, RefusedWhole
<1>3. KeyExclusive
  BY DEF Init, KeyExclusive
<1>4. \A r \in Runner : RunnerInv(r)
  BY MigrationsAssumption
     DEF Init, RunnerInv, Focused, LowestFirst, Settled, Covered, InOrder, Running
<1>. QED  BY <1>1, <1>2, <1>3, <1>4 DEF IInv

\* The steps that touch the database are the commits.
LEMMA OnlyCommitsTakeEffect ==
  ASSUME TypeOK, NEW r \in Runner,
         Start(r) \/ Step(r) \/ CommitUnanswered(r) \/ Interrupt(r)
  PROVE  \/ UNCHANGED database
         \/ pc[r] = "commit" /\ TakeEffect(r) /\ pc'[r] # "commit"
<1>1. CASE Commit(r)
  BY <1>1 DEF TypeOK, Commit, Goto
<1>2. CASE CommitUnanswered(r)
  BY <1>2 DEF TypeOK, CommitUnanswered, Fail, Goto
<1>3. CASE Start(r) \/ Interrupt(r)
  BY <1>3 DEF Start, Interrupt
<1>4. ASSUME Step(r), ~Commit(r) PROVE UNCHANGED database
  BY <1>4 DEF Step, CheckTable, ReadApplied, RefuseSet, Finish, Begin, EndSet, ExecSQL,
              RejectSQL, InsertRow, RejectRow
<1>. QED  BY <1>1, <1>2, <1>3, <1>4

\* A transaction inserts its key only where no other has it.
LEMMA KeyExclusiveStep ==
  ASSUME TypeOK, KeyExclusive, NEW r \in Runner,
         Start(r) \/ Step(r) \/ CommitUnanswered(r) \/ Interrupt(r)
  PROVE  KeyExclusive'
<1>1. Local(r)
  BY StepIsLocal
<1>2. CASE pc[r] = "commit" /\ TakeEffect(r) /\ pc'[r] # "commit"
  BY <1>1, <1>2, KeyExclusiveTaken DEF TakeEffect
<1>3. CASE UNCHANGED database
  <2>1. rows' = rows
    BY <1>3 DEF database
  <2>2. CASE InsertRow(r)
    <3>1. cur' = cur
      BY <2>2 DEF InsertRow
    <3>. QED
      BY <1>1, <2>1, <2>2, <3>1
         DEF InsertRow, KeyExclusive, KeyTaken, KeyHeldByAnother, Local, Key, TypeOK
  <2>3. ASSUME ~InsertRow(r) PROVE pc'[r] # "commit"
    <3> USE DEF TypeOK, Goto
    <3>1. CASE Start(r)
      BY <3>1 DEF Start
    <3>2. CASE CheckTable(r)
      <4>1. pc' = [pc EXCEPT ![r] = "read"] \/ pc' = [pc EXCEPT ![r] = "sql"]
        BY <3>2 DEF CheckTable
      <4>. QED  BY <4>1
    <3>3. CASE ReadApplied(r) \/ Finish(r) \/ Begin(r) \/ EndSet(r) \/ ExecSQL(r) \/ Commit(r)
      BY <3>3 DEF ReadApplied, Finish, Begin, EndSet, ExecSQL, Commit
    <3>4. CASE RefuseSet(r) \/ RejectSQL(r) \/ RejectRow(r)
      BY <3>4 DEF RefuseSet, RejectSQL, RejectRow, Fail
    <3>5. CASE CommitUnanswered(r) \/ Interrupt(r)
      BY <3>5 DEF CommitUnanswered, Interrupt, Fail
    <3>. QED  BY <2>3, <3>1, <3>2, <3>3, <3>4, <3>5 DEF Step
  <2>. QED  BY <1>1, <2>1, <2>2, <2>3, KeyExclusiveKept
<1>. QED  BY <1>2, <1>3, OnlyCommitsTakeEffect

\* Each of its steps keeps what r knows of its own run.
LEMMA RunnerStep ==
  ASSUME TypeOK, NEW r \in Runner, RunnerInv(r),
         Start(r) \/ Step(r) \/ CommitUnanswered(r) \/ Interrupt(r)
  PROVE  RunnerInv(r)'
<1>1. CASE Start(r)
  BY <1>1, StartRunner DEF RunnerInv
<1>2. CASE RefuseSet(r) \/ RejectSQL(r) \/ RejectRow(r) \/ CommitUnanswered(r) \/ Interrupt(r)
  BY <1>2, FailedRunner DEF RefuseSet, RejectSQL, RejectRow, CommitUnanswered, Interrupt
<1>3. CASE CheckTable(r)
  BY <1>3, CheckTableRunner
<1>4. CASE ReadApplied(r)
  BY <1>4, ReadAppliedRunner
<1>5. CASE Finish(r)
  BY <1>5, FinishRunner
<1>6. CASE Begin(r)
  BY <1>6, BeginRunner
<1>7. CASE EndSet(r)
  BY <1>7, EndSetRunner
<1>8. CASE ExecSQL(r) \/ InsertRow(r)
  BY <1>8, InsideRunner
<1>9. CASE Commit(r)
  BY <1>9, CommitRunner
<1>. QED  BY <1>1, <1>2, <1>3, <1>4, <1>5, <1>6, <1>7, <1>8, <1>9 DEF Step

\* The invariant is inductive.
LEMMA NextInv == IInv /\ [Next]_vars => IInv'
<1> SUFFICES ASSUME IInv, [Next]_vars PROVE IInv'
  OBVIOUS
<1>1. TypeOK /\ TypeOK'
  BY NextTypeOK DEF IInv
<1>2. ASSUME UNCHANGED vars PROVE IInv'
  <2>1. UNCHANGED database /\ rows' = rows /\ pc' = pc /\ left' = left /\ todo' = todo /\ cur' = cur
    BY <1>2 DEF vars, database
  <2>2. DatabaseInv'
    BY <2>1, DatabaseKept DEF IInv
  <2>3. KeyExclusive'
    BY <2>1 DEF IInv, KeyExclusive, Key
  <2>4. \A q \in Runner : RunnerInv(q)'
    BY <2>1, OtherRunner DEF IInv
  <2>. QED  BY <1>1, <2>2, <2>3, <2>4 DEF IInv
<1>3. ASSUME NEW r \in Runner, Start(r) \/ Step(r) \/ CommitUnanswered(r) \/ Interrupt(r)
      PROVE  IInv'
  <2>1. RunnerInv(r) /\ Admitted(r)
    BY AdmittedIfFocused DEF IInv, RunnerInv
  <2>2. DatabaseInv' /\ rows \subseteq rows'
    BY <1>1, <1>3, <2>1, OnlyCommitsTakeEffect, TakeEffectInv, DatabaseKept DEF IInv
  <2>3. KeyExclusive'
    BY <1>1, <1>3, KeyExclusiveStep DEF IInv
  <2>4. RunnerInv(r)'
    BY <1>1, <1>3, <2>1, RunnerStep
  <2>5. \A q \in Runner \ {r} : RunnerInv(q)'
    BY <1>1, <1>3, <2>2, StepIsLocal, OtherRunner DEF IInv, Local
  <2>. QED  BY <1>1, <2>2, <2>3, <2>4, <2>5 DEF IInv
<1>. QED  BY <1>2, <1>3 DEF Next

\* The inductive invariant holds in every reachable state.
THEOREM Invariance == Spec => []IInv
BY InitInv, NextInv, PTL DEF Spec

-----------------------------------------------------------------------------
(***************************************************************************)
(* What follows from it.                                                   *)
(***************************************************************************)

\* A version is recorded exactly when a file with that version has taken
\* effect (applyMigration's transaction).
THEOREM Atomicity == Spec => []RecordedIffApplied
<1>1. IInv => RecordedIffApplied
  BY DEF IInv, DatabaseInv
<1>. QED  BY <1>1, Invariance, PTL

\* Concurrent runners with stale reads never make a file take effect twice.
THEOREM NeverTwice == Spec => []AppliedOnce
<1>1. IInv => AppliedOnce
  BY DEF IInv, DatabaseInv
<1>. QED  BY <1>1, Invariance, PTL

\* Of the files that share a prefix and a version, one at most takes effect.
THEOREM VersionsExclusive == Spec => []OneFilePerVersion
<1>1. IInv => OneFilePerVersion
  BY DEF IInv, DatabaseInv
<1>. QED  BY <1>1, Invariance, PTL

\* runSet refuses a set with a malformed file name as a whole.
THEOREM MalformedRefused == Spec => []RefusedWhole
<1>1. IInv => RefusedWhole
  BY DEF IInv, DatabaseInv
<1>. QED  BY <1>1, Invariance, PTL

\* What r has on its hands is of one set, so when that is not the framework's,
\* the framework's sets are behind it: recorded, as they can no longer be pending.
LEMMA FrameworkRecorded == IInv => FrameworkFirst
<1> SUFFICES ASSUME IInv, NEW r \in Runner, cur[r] \in File, PrefixOf[cur[r]] # Framework,
                    NEW i \in DOMAIN Registered[r], Registered[r][i].prefix = Framework,
                    NEW f \in Registered[r][i].files
             PROVE  Key(f) \in rows
  BY DEF FrameworkFirst
<1>1. RunnerInv(r) /\ pc[r] \in {"sql", "insert", "commit"} /\ left[r] \subseteq DOMAIN Registered[r]
  BY DEF IInv, TypeOK
<1>2. PICK j \in DOMAIN Registered[r] : WorksOn(r, j)
  <2>1. cur[r] \notin {NoFile, InitFile}
    BY MigrationsAssumption
  <2>. QED  BY <1>1, <2>1 DEF RunnerInv, Focused
<1>3. Registered[r][j].prefix # Framework
  BY <1>2, RegisteredSet DEF WorksOn, Pending
<1>4. i \notin left[r]
  BY <1>1, <1>2, <1>3 DEF RunnerInv, InOrder, Running, WorksOn, Precedes
<1>5. f \notin Pending(r)
  BY <1>2, <1>3, RegisteredSet DEF WorksOn
<1>. QED  BY <1>1, <1>4, <1>5 DEF RunnerInv, Covered, Running

\* orderMigrationSets: a process that carries the framework's set has recorded
\* all of it before it runs anything else.
THEOREM FrameworkComesFirst == Spec => []FrameworkFirst
BY FrameworkRecorded, Invariance, PTL

\* No two files share a prefix and a version.
UniqueVersions == \A f, g \in File : Key(f) = Key(g) => f = g

\* A run that is done has its files recorded, and a record can only be the
\* file's own when no other file has its version.
LEMMA DoneApplied == ASSUME UniqueVersions PROVE IInv => DoneMeansApplied
<1> SUFFICES ASSUME IInv, NEW r \in Runner, pc[r] = "done",
                    NEW i \in DOMAIN Registered[r], NEW f \in Registered[r][i].files
             PROVE  applied[f] = 1 /\ Key(f) \in rows
  BY DEF DoneMeansApplied
<1>1. f \in File
  BY RegisteredSet
<1>2. RunnerInv(r) /\ left[r] = {} /\ todo[r] = {} /\ cur[r] \notin File
  BY DEF IInv, TypeOK, RunnerInv, Settled
<1>3. Key(f) \in rows
  BY <1>1, <1>2 DEF RunnerInv, Covered, Pending
<1>4. PICK g \in File : Key(g) = Key(f) /\ applied[g] > 0
  BY <1>3 DEF IInv, DatabaseInv, RecordedIffApplied
<1>5. g = f
  BY <1>1, <1>4 DEF UniqueVersions
<1>6. applied[f] \in Nat /\ applied[f] <= 1 /\ applied[f] > 0
  BY <1>1, <1>4, <1>5 DEF IInv, TypeOK, DatabaseInv, AppliedOnce
<1>. QED  BY <1>3, <1>6

\* If files have versions of their own, RunMigrations returns nil only when
\* every registered file has taken effect.
THEOREM DoneIsComplete ==
  ASSUME UniqueVersions PROVE Spec => []DoneMeansApplied
BY DoneApplied, Invariance, PTL

-----------------------------------------------------------------------------
(***************************************************************************)
(* The runners implement the ledger.                                       *)
(***************************************************************************)

\* The loop of runSet takes a file when every lower version of its set is recorded.
LEMMA LowerRecorded ==
  ASSUME TypeOK, NEW r \in Runner, RunnerInv(r), cur[r] \in File \ {InitFile}
  PROVE  \E i \in DOMAIN Registered[r] :
           /\ cur[r] \in Registered[r][i].files
           /\ \A g \in Registered[r][i].files :
                VersionOf[g] < VersionOf[cur[r]] => Key(g) \in rows
<1> DEFINE c == cur[r]
<1>1. PICK i \in DOMAIN Registered[r] : WorksOn(r, i)
  BY MigrationsAssumption DEF RunnerInv, Focused
<1>2. c \in Registered[r][i].files
  BY <1>1 DEF WorksOn, Pending
<1>3. ASSUME NEW g \in Registered[r][i].files, VersionOf[g] < VersionOf[c]
      PROVE  Key(g) \in rows
  <2>1. g \in File /\ VersionOf[g] \in Int /\ VersionOf[c] \in Int
    BY RegisteredSet, MigrationsAssumption
  <2>2. g \notin todo[r]
    BY <1>3, <2>1 DEF RunnerInv, LowestFirst
  <2>3. g # c
    BY <1>3, <2>1
  <2>. QED  BY <1>1, <2>2, <2>3 DEF WorksOn, Pending
<1>. QED  BY <1>2, <1>3

\* A commit is an application the ledger allows.
LEMMA CommitApplies ==
  ASSUME IInv, NEW r \in Runner, pc[r] = "commit", TakeEffect(r)
  PROVE  Ledger!Next
<1> DEFINE c == cur[r]
<1>1. c \in File /\ Key(c) \notin rows /\ applied[c] = 0
  BY FreeKey DEF IInv, DatabaseInv
<1>2. /\ rows' = rows \union {Key(c)}
      /\ applied' = [applied EXCEPT ![c] = 1]
  <2>1. applied[c] + 1 = 1
    BY <1>1
  <2>. QED  BY <2>1 DEF TakeEffect
<1>3. \E S \in Release : c \in S /\ \A g \in S : VersionOf[g] < VersionOf[c] => Key(g) \in rows
  <2>1. CASE c = InitFile
    <3>1. {InitFile} \in Release /\ ~(VersionOf[c] < VersionOf[c])
      BY <1>1, MigrationsAssumption DEF Release
    <3>. QED  BY <2>1, <3>1
  <2>2. CASE c # InitFile
    BY <1>1, <2>2, LowerRecorded DEF IInv, Release
  <2>. QED  BY <2>1, <2>2
<1>. QED
  BY <1>1, <1>2, <1>3 DEF Ledger!Next, Ledger!Apply, Ledger!Key, Key

\* Every step of the runners is a step of the ledger or leaves it alone.
LEMMA NextLedger == IInv /\ [Next]_vars => [Ledger!Next]_(Ledger!ledger)
<1> SUFFICES ASSUME IInv, [Next]_vars PROVE [Ledger!Next]_(Ledger!ledger)
  OBVIOUS
<1>1. ASSUME UNCHANGED database PROVE [Ledger!Next]_(Ledger!ledger)
  BY <1>1 DEF database, Ledger!ledger
<1>2. ASSUME NEW r \in Runner, Start(r) \/ Step(r) \/ CommitUnanswered(r) \/ Interrupt(r)
      PROVE  [Ledger!Next]_(Ledger!ledger)
  BY <1>1, <1>2, OnlyCommitsTakeEffect, CommitApplies DEF IInv
<1>3. UNCHANGED vars => UNCHANGED database
  BY DEF vars, database
<1>. QED  BY <1>1, <1>2, <1>3 DEF Next

\* The runners of db/migrate.go implement the ledger.
THEOREM Implementation == Spec => LedgerSpec
<1>1. Init => Ledger!Init
  BY DEF Init, Ledger!Init
<1>. QED  BY <1>1, NextLedger, Invariance, PTL DEF Spec, LedgerSpec, Ledger!Spec

-----------------------------------------------------------------------------
(***************************************************************************)
(* SchemaReset, for any number of reset processes.  A run that no reset    *)
(* came upon keeps the invariant of its own from above; one that a reset   *)
(* came upon knows only that what it goes on with was well-formed.         *)
(***************************************************************************)

ResetTypeOK ==
  /\ schema \in BOOLEAN
  /\ phase \in [Resetter -> {"none", "drop", "create"}]
  /\ overtaken \subseteq Runner

\* While there is no schema nothing is recorded, and no transaction has locked
\* anything in it.
SchemaInv ==
  ~schema => rows = {} /\ \A r \in Runner : ~HoldsLocks(r)

\* A process at ResetSchema runs no migrations.
ResetFirst == \A r \in Runner : Resetting(r) => pc[r] = "down"

\* What stays true of a run that a reset came upon.
StaleInv(r) == Admitted(r) /\ Settled(r)

ResetRunnerInv(r) == StaleInv(r) /\ (r \notin overtaken => RunnerInv(r))

ResetIInv ==
  /\ TypeOK /\ ResetTypeOK
  /\ DatabaseInv
  /\ KeyExclusive
  /\ SchemaInv
  /\ ResetFirst
  /\ \A r \in Runner : ResetRunnerInv(r)

-----------------------------------------------------------------------------
(***************************************************************************)
(* What one runner's invariant survives.                                   *)
(***************************************************************************)

\* A run that no reset came upon knows at least as much as one that has been.
LEMMA RunnerIsStale == ASSUME NEW r \in Runner, RunnerInv(r) PROVE StaleInv(r)
BY AdmittedIfFocused DEF RunnerInv, StaleInv

\* A runner whose variables no step touches keeps what a stale run knows.
LEMMA StaleOther ==
  ASSUME NEW q \in Runner, StaleInv(q),
         pc'[q] = pc[q], left'[q] = left[q], todo'[q] = todo[q], cur'[q] = cur[q]
  PROVE  StaleInv(q)'
BY DEF StaleInv, Admitted, Pending, Settled

\* A process that runs nothing has nothing on its hands, whatever the table says.
LEMMA NotRunning ==
  ASSUME TypeOK', NEW r \in Runner, pc'[r] \in {"down", "failed"}, todo'[r] = {}
  PROVE  RunnerInv(r)'
BY DEF TypeOK, RunnerInv, Focused, LowestFirst, Settled, Covered, InOrder, Running

\* A run that a reset came upon goes on with what it read before.
LEMMA StaleStep ==
  ASSUME TypeOK, NEW r \in Runner, StaleInv(r),
         Step(r) \/ CommitUnanswered(r) \/ Interrupt(r)
  PROVE  StaleInv(r)'
<1> USE DEF TypeOK, Goto, StaleInv
<1>1. CASE CheckTable(r)
  <2>1. todo[r] = {} /\ todo'[r] = {} /\ cur'[r] \in {NoFile, InitFile}
    BY <1>1 DEF CheckTable, Settled
  <2>2. pc'[r] \in {"read", "sql"}
    <3>1. pc' = [pc EXCEPT ![r] = "read"] \/ pc' = [pc EXCEPT ![r] = "sql"]
      BY <1>1 DEF CheckTable
    <3>. QED  BY <3>1
  <2>. QED  BY <2>1, <2>2 DEF Admitted, Settled
<1>2. CASE ReadApplied(r)
  <2>1. PICK i \in left[r] :
          /\ Registered[r][i].files \intersect Malformed = {}
          /\ todo' = [todo EXCEPT ![r] = Unrecorded(Registered[r][i].files)]
    BY <1>2 DEF ReadApplied
  <2>2. i \in DOMAIN Registered[r] /\ cur'[r] = cur[r] /\ cur[r] = NoFile /\ pc'[r] = "apply"
    BY <1>2 DEF ReadApplied
  <2>3. Pending(r)' \subseteq Registered[r][i].files
    BY <2>1, <2>2, MigrationsAssumption DEF Pending, Unrecorded
  <2>. QED  BY <2>1, <2>2, <2>3 DEF Admitted, Settled
<1>3. CASE RefuseSet(r) \/ RejectSQL(r) \/ RejectRow(r) \/ CommitUnanswered(r) \/ Interrupt(r)
  BY <1>3, FailedRunner, AdmittedIfFocused
     DEF RefuseSet, RejectSQL, RejectRow, CommitUnanswered, Interrupt, RunnerInv, Fail, Admitted
<1>4. CASE Finish(r) \/ EndSet(r)
  BY <1>4 DEF Finish, EndSet, Admitted, Pending, Settled
<1>5. CASE Begin(r)
  <2>1. PICK f \in todo[r] : cur'[r] = f /\ todo'[r] = todo[r] \ {f}
    BY <1>5 DEF Begin, Lowest
  <2>2. Pending(r)' \subseteq Pending(r) /\ pc'[r] = "sql"
    BY <1>5, <2>1 DEF Pending, Begin
  <2>. QED  BY <2>1, <2>2 DEF Admitted, Settled
<1>6. CASE ExecSQL(r) \/ InsertRow(r)
  BY <1>6 DEF ExecSQL, InsertRow, Admitted, Pending, Settled
<1>7. CASE Commit(r)
  <2>1. todo'[r] = todo[r] /\ cur'[r] = NoFile /\ pc'[r] = "apply"
    BY <1>7 DEF Commit
  <2>2. Pending(r)' \subseteq Pending(r)
    BY <2>1, MigrationsAssumption DEF Pending
  <2>. QED  BY <2>1, <2>2 DEF Admitted, Settled
<1>. QED  BY <1>1, <1>2, <1>3, <1>4, <1>5, <1>6, <1>7 DEF Step

-----------------------------------------------------------------------------
(***************************************************************************)
(* Types, and what a step can reach.                                       *)
(***************************************************************************)

\* One action of one runner.
ResetAction(r) ==
  \/ Launch(r) \/ Migrate(r) \/ NotFound(r)
  \/ Reset(r) \/ ResetStep(r) \/ ResetInterrupted(r)

\* A drop leaves the types of the database.
LEMMA DropTypes ==
  ASSUME TypeOK, Drop
  PROVE  rows' \subseteq Line \X Int /\ applied' \in [File -> Nat]
BY DEF Drop

\* Every step keeps the types.
LEMMA ResetTypes ==
  ASSUME TypeOK, ResetTypeOK, NEW r \in Runner, ResetAction(r)
  PROVE  TypeOK' /\ ResetTypeOK'
<1>1. CASE Launch(r)
  <2>1. TypeOK'
    BY <1>1, NextTypeOK DEF Launch, Next
  <2>. QED  BY <1>1, <2>1 DEF Launch, ResetTypeOK
<1>2. CASE Migrate(r)
  <2>1. TypeOK'
    BY <1>2, NextTypeOK DEF Migrate, Next
  <2>. QED  BY <1>2, <2>1 DEF Migrate, ResetTypeOK, resetVars
<1>3. CASE NotFound(r)
  BY <1>3, FailTypeOK DEF NotFound, ResetTypeOK, resetVars, TypeOK
<1>4. CASE Reset(r)
  <2>1. pc' = [pc EXCEPT ![r] = "down"] /\ pc[r] \in {"down", "failed", "done"}
    BY <1>4 DEF Reset, Goto, Idle
  <2>2. TypeOK'
    BY <1>4, <2>1 DEF Reset, TypeOK, database
  <2>. QED  BY <1>4, <2>2 DEF Reset, ResetTypeOK, SetPhase
<1>5. CASE DropSchema(r)
  <2>1. TypeOK'
    BY <1>5, DropTypes DEF DropSchema, TypeOK
  <2>. QED  BY <1>5, <2>1 DEF DropSchema, Drop, ResetTypeOK, SetPhase
<1>6. CASE DropFails(r)
  <2>1. TypeOK'
    BY <1>6, FailTypeOK DEF DropFails, TypeOK
  <2>. QED  BY <1>6, <2>1 DEF DropFails, ResetTypeOK, SetPhase
<1>7. CASE CreateSchema(r)
  <2>1. TypeOK'
    BY <1>7, NextTypeOK DEF CreateSchema, Next
  <2>. QED  BY <1>7, <2>1 DEF CreateSchema, ResetTypeOK, SetPhase
<1>8. CASE ResetInterrupted(r)
  <2>1. Fail(r) /\ faults' \in 0 .. MaxFaults
    BY <1>8, MigrationsAssumption DEF ResetInterrupted, TypeOK
  <2>2. CASE Drop
    <3>1. rows' \subseteq Line \X Int /\ applied' \in [File -> Nat]
      BY <2>2, DropTypes
    <3>2. TypeOK'
      BY <2>1, <3>1, MigrationsAssumption DEF TypeOK, Fail, Goto, Running
    <3>. QED  BY <1>8, <2>2, <3>2 DEF ResetInterrupted, Drop, ResetTypeOK, SetPhase
  <2>3. CASE UNCHANGED database
    <3>1. TypeOK'
      BY <2>1, <2>3, FailTypeOK
    <3>. QED  BY <1>8, <3>1 DEF ResetInterrupted, Drop, ResetTypeOK, SetPhase
  <2>. QED  BY <1>8, <2>2, <2>3 DEF ResetInterrupted
<1>. QED
  BY <1>1, <1>2, <1>3, <1>4, <1>5, <1>6, <1>7, <1>8 DEF ResetAction, ResetStep

\* A step concerns one runner's own variables here too.
LEMMA ResetLocal ==
  ASSUME TypeOK, NEW r \in Runner, ResetAction(r) PROVE Local(r)
<1>1. ASSUME Fail(r) PROVE Local(r)
  BY <1>1 DEF TypeOK, Fail, Goto, Local
<1>2. CASE Launch(r) \/ CreateSchema(r) \/ Migrate(r)
  BY <1>2, StepIsLocal DEF Launch, CreateSchema, Migrate
<1>3. CASE NotFound(r) \/ DropFails(r) \/ ResetInterrupted(r)
  BY <1>1, <1>3 DEF NotFound, DropFails, ResetInterrupted
<1>4. CASE Reset(r)
  BY <1>4 DEF Reset, Goto, TypeOK, Local
<1>5. CASE DropSchema(r)
  BY <1>5 DEF DropSchema, Local
<1>. QED  BY <1>2, <1>3, <1>4, <1>5 DEF ResetAction, ResetStep

\* A process is past its migrations or before them while it resets.
LEMMA ResetFirstKept ==
  ASSUME TypeOK, ResetTypeOK, ResetFirst, NEW r \in Runner, ResetAction(r)
  PROVE  ResetFirst'
<1>1. Local(r)
  BY ResetLocal
<1>2. SUFFICES ASSUME NEW q \in Runner, Resetting(q)' PROVE pc'[q] = "down"
  BY DEF ResetFirst
<1>3. CASE Launch(r)
  BY <1>1, <1>2, <1>3 DEF Launch, Idle, Resetting, Local, ResetFirst
<1>4. CASE Migrate(r)
  <2>1. pc[r] # "down"
    BY <1>4 DEF Migrate, Step, CheckTable, ReadApplied, RefuseSet, Finish, Begin, EndSet, ExecSQL,
                RejectSQL, InsertRow, RejectRow, Commit, CommitUnanswered, Interrupt, Running
  <2>. QED  BY <1>1, <1>2, <1>4, <2>1 DEF Migrate, resetVars, Resetting, Local, ResetFirst
<1>5. CASE NotFound(r)
  <2>1. pc[r] # "down"
    BY <1>5 DEF NotFound, Found
  <2>. QED  BY <1>1, <1>2, <1>5, <2>1 DEF NotFound, resetVars, Resetting, Local, ResetFirst
<1>6. CASE Reset(r)
  BY <1>1, <1>2, <1>6
     DEF Reset, Goto, TypeOK, SetPhase, Resetting, Local, ResetFirst, ResetTypeOK
<1>7. CASE DropSchema(r)
  BY <1>1, <1>2, <1>7 DEF DropSchema, SetPhase, Resetting, Local, ResetFirst, ResetTypeOK
<1>8. ASSUME r \in Resetter, SetPhase(r, "none") PROVE pc'[q] = "down"
  BY <1>1, <1>2, <1>8 DEF SetPhase, Resetting, Local, ResetFirst, ResetTypeOK
<1>. QED
  BY <1>3, <1>4, <1>5, <1>6, <1>7, <1>8
     DEF ResetAction, ResetStep, DropFails, CreateSchema, ResetInterrupted, Resetting

-----------------------------------------------------------------------------
(***************************************************************************)
(* The invariant is inductive.                                             *)
(***************************************************************************)

\* A step that leaves the database alone, and its runner with nothing begun.
LEMMA QuietStep ==
  ASSUME ResetIInv, TypeOK', ResetTypeOK', ResetFirst', NEW r \in Runner, Local(r),
         UNCHANGED database, schema' \in {schema, TRUE},
         overtaken' \in {overtaken, overtaken \ {r}},
         pc'[r] \notin {"insert", "commit"}, RunnerInv(r)'
  PROVE  ResetIInv'
<1>1. DatabaseInv' /\ rows \subseteq rows' /\ rows' = rows
  BY DatabaseKept DEF ResetIInv, database
<1>2. KeyExclusive'
  BY <1>1, KeyExclusiveKept DEF ResetIInv
<1>3. SchemaInv'
  BY <1>1 DEF ResetIInv, SchemaInv, HoldsLocks, Local
<1>4. ResetRunnerInv(r)'
  BY DEF ResetRunnerInv, RunnerInv, StaleInv, Focused, Admitted, WorksOn
<1>5. ASSUME NEW q \in Runner \ {r} PROVE ResetRunnerInv(q)'
  BY <1>1, StaleOther, OtherRunner DEF ResetIInv, ResetRunnerInv, Local
<1>. QED  BY <1>1, <1>2, <1>3, <1>4, <1>5 DEF ResetIInv

\* A drop empties the table under every run that is under way or done.
LEMMA DropStep ==
  ASSUME ResetIInv, TypeOK', ResetTypeOK', ResetFirst', Drop, NEW r \in Runner, Local(r),
         pc'[r] \in {"down", "failed"}, todo'[r] = {}
  PROVE  ResetIInv'
<1>1. rows' = {} /\ \A f \in File : applied'[f] = 0
  BY DEF Drop
<1>2. DatabaseInv'
  BY <1>1 DEF DatabaseInv, RecordedIffApplied, AppliedOnce, OneFilePerVersion, RefusedWhole
<1>3. \A q \in Runner : ~HoldsLocks(q)'
  BY DEF Drop, HoldsLocks, Local
<1>4. KeyExclusive' /\ SchemaInv'
  BY <1>1, <1>3 DEF KeyExclusive, SchemaInv, HoldsLocks
<1>5. ASSUME NEW q \in Runner, pc'[q] \in {"down", "failed"}, todo'[q] = {}
      PROVE  ResetRunnerInv(q)'
  <2>1. RunnerInv(q)'
    BY <1>5, NotRunning
  <2>2. cur'[q] \notin File
    BY <1>5 DEF TypeOK
  <2>3. StaleInv(q)'
    BY <1>5, <2>1, <2>2 DEF TypeOK, RunnerInv, StaleInv, Admitted
  <2>. QED  BY <2>1, <2>3 DEF ResetRunnerInv
<1>6. ASSUME NEW q \in Runner \ {r} PROVE ResetRunnerInv(q)'
  <2>1. StaleInv(q)' /\ StaleInv(q)
    BY StaleOther DEF ResetIInv, ResetRunnerInv, Local
  <2>2. CASE pc[q] \in {"down", "failed"}
    BY <1>5, <2>1, <2>2 DEF StaleInv, Settled, Local
  <2>3. CASE pc[q] \notin {"down", "failed"}
    BY <2>1, <2>3 DEF Drop, ResetIInv, TypeOK, ResetRunnerInv
  <2>. QED  BY <2>2, <2>3
<1>. QED  BY <1>2, <1>4, <1>5, <1>6 DEF ResetIInv

\* A step of the migrations finds in the schema what it needs.
LEMMA MigrateStep ==
  ASSUME ResetIInv, TypeOK', ResetTypeOK', ResetFirst', NEW r \in Runner, Migrate(r)
  PROVE  ResetIInv'
<1>1. Step(r) \/ CommitUnanswered(r) \/ Interrupt(r)
  BY DEF Migrate
<1>2. schema' = schema /\ overtaken' = overtaken
  BY DEF Migrate, resetVars
<1>3. TypeOK /\ StaleInv(r) /\ Admitted(r) /\ Local(r)
  BY <1>1, StepIsLocal DEF ResetIInv, ResetRunnerInv, StaleInv
<1>4. DatabaseInv' /\ rows \subseteq rows'
  BY <1>1, <1>3, OnlyCommitsTakeEffect, TakeEffectInv, DatabaseKept DEF ResetIInv
<1>5. KeyExclusive'
  BY <1>1, <1>3, KeyExclusiveStep DEF ResetIInv
<1>6. SchemaInv'
  <2>1. SUFFICES ASSUME ~schema PROVE rows' = {} /\ \A q \in Runner : ~HoldsLocks(q)'
    BY <1>2 DEF SchemaInv
  <2>2. rows = {} /\ \A q \in Runner : ~HoldsLocks(q)
    BY <2>1 DEF ResetIInv, SchemaInv
  <2>3. pc[r] \notin {"sql", "insert", "commit"}
    BY <2>1, <2>2 DEF Migrate, Found, HoldsLocks
  <2>4. rows' = {}
    BY <1>1, <1>3, <2>2, <2>3, OnlyCommitsTakeEffect DEF database
  <2>5. pc'[r] \notin {"insert", "commit"}
    <3> USE <1>3 DEF TypeOK, Goto
    <3>1. CASE CheckTable(r)
      <4>1. pc' = [pc EXCEPT ![r] = "read"] \/ pc' = [pc EXCEPT ![r] = "sql"]
        BY <3>1 DEF CheckTable
      <4>. QED  BY <4>1
    <3>2. CASE ReadApplied(r) \/ Finish(r) \/ Begin(r) \/ EndSet(r)
      BY <3>2 DEF ReadApplied, Finish, Begin, EndSet
    <3>3. CASE RefuseSet(r) \/ Interrupt(r)
      BY <3>3 DEF RefuseSet, Interrupt, Fail
    <3>4. CASE ExecSQL(r) \/ RejectSQL(r) \/ InsertRow(r) \/ RejectRow(r) \/ Commit(r)
               \/ CommitUnanswered(r)
      BY <2>3, <3>4 DEF ExecSQL, RejectSQL, InsertRow, RejectRow, Commit, CommitUnanswered
    <3>. QED  BY <1>1, <3>1, <3>2, <3>3, <3>4 DEF Step
  <2>. QED  BY <1>3, <2>2, <2>4, <2>5 DEF HoldsLocks, Local
<1>7. ResetRunnerInv(r)'
  BY <1>1, <1>2, <1>3, StaleStep, RunnerStep DEF ResetIInv, ResetRunnerInv
<1>8. ASSUME NEW q \in Runner \ {r} PROVE ResetRunnerInv(q)'
  BY <1>2, <1>3, <1>4, StaleOther, OtherRunner DEF ResetIInv, ResetRunnerInv, Local
<1>. QED  BY <1>4, <1>5, <1>6, <1>7, <1>8 DEF ResetIInv

\* The invariant is inductive.
LEMMA ResetNextInv == ResetIInv /\ [ResetNext]_allVars => ResetIInv'
<1> SUFFICES ASSUME ResetIInv, [ResetNext]_allVars PROVE ResetIInv'
  OBVIOUS
<1>1. ASSUME NEW r \in Runner, ResetAction(r) PROVE ResetIInv'
  <2>1. /\ TypeOK /\ ResetTypeOK /\ ResetFirst /\ Settled(r)
        /\ TypeOK' /\ ResetTypeOK' /\ ResetFirst' /\ Local(r)
    BY <1>1, ResetTypes, ResetFirstKept, ResetLocal DEF ResetIInv, ResetRunnerInv, StaleInv
  <2>2. CASE Launch(r) \/ CreateSchema(r)
    <3>1. Start(r) /\ overtaken' = overtaken \ {r} /\ schema' \in {schema, TRUE}
      BY <2>2 DEF Launch, CreateSchema
    <3>2. UNCHANGED database /\ pc'[r] = "check" /\ RunnerInv(r)'
      BY <2>1, <3>1, StartRunner DEF Start, Goto, TypeOK
    <3>. QED  BY <2>1, <3>1, <3>2, QuietStep
  <2>3. ASSUME Fail(r), UNCHANGED <<database, overtaken>>, schema' \in {schema, TRUE}
        PROVE  ResetIInv'
    <3>1. pc'[r] = "failed" /\ RunnerInv(r)'
      BY <2>1, <2>3, FailedRunner DEF Fail, Goto, TypeOK
    <3>. QED  BY <2>1, <2>3, <3>1, QuietStep
  <2>4. CASE NotFound(r) \/ DropFails(r)
    BY <2>3, <2>4 DEF NotFound, DropFails, resetVars
  <2>5. CASE Reset(r)
    <3>1. pc'[r] = "down" /\ todo'[r] = {}
      BY <2>1, <2>5 DEF Reset, Goto, TypeOK, Idle, Settled
    <3>2. RunnerInv(r)'
      BY <2>1, <3>1, NotRunning
    <3>3. UNCHANGED <<database, schema, overtaken>>
      BY <2>5 DEF Reset
    <3>. QED  BY <2>1, <3>1, <3>2, <3>3, QuietStep
  <2>6. CASE Migrate(r)
    BY <2>1, <2>6, MigrateStep
  <2>7. CASE DropSchema(r)
    <3>1. pc'[r] = "down" /\ todo'[r] = {}
      BY <2>1, <2>7 DEF DropSchema, ResetFirst, Settled
    <3>. QED  BY <2>1, <2>7, <3>1, DropStep DEF DropSchema
  <2>8. CASE ResetInterrupted(r)
    <3>1. Fail(r) /\ pc'[r] = "failed" /\ todo'[r] = {}
      BY <2>1, <2>8 DEF ResetInterrupted, Fail, Goto, TypeOK
    <3>2. Drop \/ (UNCHANGED <<database, overtaken>> /\ schema' \in {schema, TRUE})
      BY <2>8 DEF ResetInterrupted
    <3>. QED  BY <2>1, <2>3, <3>1, <3>2, DropStep
  <2>. QED  BY <1>1, <2>2, <2>4, <2>5, <2>6, <2>7, <2>8 DEF ResetAction, ResetStep
<1>2. CASE UNCHANGED allVars
  <2>1. /\ UNCHANGED <<rows, applied, pc, left, todo, cur, faults, schema, phase, overtaken>>
    BY <1>2 DEF allVars, vars, resetVars
  <2>2. TypeOK' /\ ResetTypeOK' /\ SchemaInv' /\ ResetFirst' /\ KeyExclusive'
    BY <2>1 DEF ResetIInv, TypeOK, ResetTypeOK, SchemaInv, HoldsLocks, ResetFirst, Resetting,
                KeyExclusive, Key
  <2>3. DatabaseInv' /\ rows \subseteq rows'
    BY <2>1, DatabaseKept DEF ResetIInv, database
  <2>4. ASSUME NEW q \in Runner PROVE ResetRunnerInv(q)'
    BY <2>1, <2>3, StaleOther, OtherRunner DEF ResetIInv, ResetRunnerInv
  <2>. QED  BY <2>2, <2>3, <2>4 DEF ResetIInv
<1>. QED  BY <1>1, <1>2 DEF ResetNext, ResetAction

\* The inductive invariant holds in every reachable state.
THEOREM ResetInvariance == ResetSpec => []ResetIInv
<1>1. ResetInit => ResetIInv
  <2> SUFFICES ASSUME ResetInit PROVE ResetIInv
    OBVIOUS
  <2>1. IInv
    BY InitInv DEF ResetInit
  <2>2. ASSUME NEW r \in Runner PROVE ResetRunnerInv(r)
    BY <2>1, RunnerIsStale DEF IInv, ResetRunnerInv
  <2>3. ResetTypeOK /\ SchemaInv /\ ResetFirst
    BY DEF ResetInit, ResetTypeOK, SchemaInv, ResetFirst, Resetting
  <2>. QED  BY <2>1, <2>2, <2>3 DEF IInv, ResetIInv
<1>. QED  BY <1>1, ResetNextInv, PTL DEF ResetSpec

-----------------------------------------------------------------------------
(***************************************************************************)
(* What follows from it.                                                   *)
(***************************************************************************)

\* ResetSchema takes records and tables away together: with migrations of other
\* processes about, what is recorded is still what has been run, once, since.
THEOREM RecordsGoWithTables == ResetSpec => []ResetKeepsRecords
<1>1. ResetIInv => ResetKeepsRecords
  BY DEF ResetIInv, DatabaseInv, SchemaInv, ResetKeepsRecords
<1>. QED  BY <1>1, ResetInvariance, PTL

\* Resets let no second file with the same prefix and version take effect.
THEOREM ResetVersionsExclusive == ResetSpec => []OneFilePerVersion
<1>1. ResetIInv => OneFilePerVersion
  BY DEF ResetIInv, DatabaseInv
<1>. QED  BY <1>1, ResetInvariance, PTL

\* A malformed set is refused whole also by a run that a reset came upon.
THEOREM ResetMalformedRefused == ResetSpec => []RefusedWhole
<1>1. ResetIInv => RefusedWhole
  BY DEF ResetIInv, DatabaseInv
<1>. QED  BY <1>1, ResetInvariance, PTL

\* RunMigrations returns nil to a process that no reset came upon only when all
\* that it registered has taken effect, each file itself or, where two files have
\* one prefix and version, the other one, whatever stale runs are still about.
THEOREM DoneIsCompleteUnlessOvertaken == ResetSpec => []DoneUnlessOvertaken
<1>1. ResetIInv => DoneUnlessOvertaken
  <2> SUFFICES ASSUME ResetIInv, NEW r \in Runner \ overtaken, pc[r] = "done",
                      NEW i \in DOMAIN Registered[r], NEW f \in Registered[r][i].files
               PROVE  \/ applied[f] = 1
                      \/ \E g \in File \ {f} : Key(g) = Key(f) /\ applied[g] = 1
    BY DEF DoneUnlessOvertaken
  <2>1. f \in File
    BY RegisteredSet
  <2>2. RunnerInv(r) /\ left[r] = {} /\ todo[r] = {} /\ cur[r] \notin File
    BY DEF ResetIInv, TypeOK, ResetRunnerInv, RunnerInv, Settled
  <2>3. Key(f) \in rows
    BY <2>1, <2>2 DEF RunnerInv, Covered, Pending
  <2>4. PICK g \in File : Key(g) = Key(f) /\ applied[g] > 0
    BY <2>3 DEF ResetIInv, DatabaseInv, RecordedIffApplied
  <2>5. applied[g] \in Nat /\ applied[g] <= 1
    BY DEF ResetIInv, TypeOK, DatabaseInv, AppliedOnce
  <2>6. applied[g] = 1
    BY <2>4, <2>5
  <2>. QED  BY <2>4, <2>6
<1>. QED  BY <1>1, ResetInvariance, PTL

\* Whatever meets on the database, only a run that a reset came upon records a
\* version of its set before a lower one.
THEOREM InOrderOrOvertaken == ResetSpec => InOrderUnlessOvertaken
<1>1. ResetIInv => \A r \in Runner : Skips(r) => r \in overtaken
  <2> SUFFICES ASSUME ResetIInv, NEW r \in Runner, Skips(r), r \notin overtaken
               PROVE  FALSE
    OBVIOUS
  <2>1. TypeOK /\ RunnerInv(r) /\ cur[r] \in File \ {InitFile}
    BY DEF ResetIInv, ResetRunnerInv, Skips, TypeOK
  <2>2. PICK i \in DOMAIN Registered[r] :
          /\ cur[r] \in Registered[r][i].files
          /\ \A g \in Registered[r][i].files :
               VersionOf[g] < VersionOf[cur[r]] => Key(g) \in rows
    BY <2>1, LowerRecorded
  <2>. QED  BY <2>2 DEF Skips
<1>. QED  BY <1>1, ResetInvariance, PTL DEF InOrderUnlessOvertaken

-----------------------------------------------------------------------------
(***************************************************************************)
(* ServerBoot, for any number of processes: the migrations' invariant      *)
(* holds of processes that go on to initAuth as well, and there is one     *)
(* signing key.                                                            *)
(***************************************************************************)

-----------------------------------------------------------------------------
(***************************************************************************)
(* The migrations' invariant under the steps of initAuth.                  *)
(***************************************************************************)

\* A process that dies leaves the migrations' invariant alone.
LEMMA FailInv ==
  ASSUME IInv, NEW r \in Runner, Fail(r), UNCHANGED database, faults' \in 0 .. MaxFaults
  PROVE  IInv'
<1>1. TypeOK /\ TypeOK'
  BY FailTypeOK DEF IInv
<1>2. Local(r) /\ pc'[r] = "failed"
  BY <1>1 DEF TypeOK, Fail, Goto, Local
<1>3. RunnerInv(r)'
  BY <1>1, FailedRunner
<1>4. KeyExclusive'
  BY <1>2, KeyExclusiveKept DEF IInv, database
<1>5. DatabaseInv' /\ rows \subseteq rows'
  BY DatabaseKept DEF IInv
<1>6. \A q \in Runner \ {r} : RunnerInv(q)'
  BY <1>2, <1>5, OtherRunner DEF IInv, Local
<1>. QED  BY <1>1, <1>3, <1>4, <1>5, <1>6 DEF IInv

\* What a step of initAuth may do to the migrations' variables.
LEMMA InitAuthStep ==
  ASSUME NEW r \in App,
         InitAuth(r) \/ CrashInAuth(r) \/ StoreKeyUnanswered(r) \/ Mint(r)
  PROVE  \/ UNCHANGED vars
         \/ Fail(r) /\ UNCHANGED database /\ faults < MaxFaults /\ faults' = faults + 1
BY DEF InitAuth, LoadKey, StoreKey, CrashInAuth, StoreKeyUnanswered, Mint

\* The migrations' invariant is preserved by every step of every process.
LEMMA BootNextInv == IInv /\ [BootNext]_bootVars => IInv'
<1> SUFFICES ASSUME IInv, [BootNext]_bootVars PROVE IInv'
  OBVIOUS
<1>1. ASSUME NEW r \in Runner, BootLaunch(r) \/ BootMigrate(r) PROVE IInv'
  <2>1. Next
    BY <1>1 DEF BootLaunch, BootMigrate, Next
  <2>. QED  BY <2>1, NextInv
<1>2. ASSUME NEW r \in App,
             InitAuth(r) \/ CrashInAuth(r) \/ StoreKeyUnanswered(r) \/ Mint(r)
      PROVE  IInv'
  <2>1. CASE UNCHANGED vars
    BY <2>1, NextInv
  <2>2. CASE Fail(r) /\ UNCHANGED database /\ faults < MaxFaults /\ faults' = faults + 1
    <3>1. r \in Runner /\ faults' \in 0 .. MaxFaults
      BY <2>2, MigrationsAssumption, ServerBootAssumption DEF IInv, TypeOK
    <3>. QED  BY <2>2, <3>1, FailInv
  <2>. QED  BY <1>2, <2>1, <2>2, InitAuthStep
<1>3. CASE UNCHANGED bootVars
  BY <1>3, NextInv DEF bootVars
<1>. QED  BY <1>1, <1>2, <1>3 DEF BootNext

\* The migrations' inductive invariant holds of booting servers too.
THEOREM BootInvariance == BootSpec => []IInv
<1>1. BootInit => IInv
  BY InitInv DEF BootInit
<1>. QED  BY <1>1, BootNextInv, PTL DEF BootSpec

\* A version is recorded exactly when its SQL has taken effect, also when a
\* process dies in initAuth.
THEOREM BootAtomicity == BootSpec => []RecordedIffApplied
<1>1. IInv => RecordedIffApplied
  BY DEF IInv, DatabaseInv
<1>. QED  BY <1>1, BootInvariance, PTL

\* No process of an app runs another migration before the framework's are
\* recorded, however often it and the others die and start again.
THEOREM BootFrameworkFirst == BootSpec => []FrameworkFirst
BY FrameworkRecorded, BootInvariance, PTL

\* A process that goes on to initAuth finds its whole schema there.
THEOREM BootDoneIsComplete ==
  ASSUME UniqueVersions PROVE BootSpec => []DoneMeansApplied
BY DoneApplied, BootInvariance, PTL

\* The processes of an app implement the ledger: initAuth never touches it.
THEOREM BootImplementation == BootSpec => LedgerSpec
<1>1. BootInit => Ledger!Init
  BY DEF BootInit, Init, Ledger!Init
<1>2. IInv /\ [BootNext]_bootVars => [Ledger!Next]_(Ledger!ledger)
  <2> SUFFICES ASSUME IInv, [BootNext]_bootVars PROVE [Ledger!Next]_(Ledger!ledger)
    OBVIOUS
  <2>1. ASSUME NEW r \in Runner, BootLaunch(r) \/ BootMigrate(r) PROVE Next
    BY <2>1 DEF BootLaunch, BootMigrate, Next
  <2>2. ASSUME NEW r \in App,
               InitAuth(r) \/ CrashInAuth(r) \/ StoreKeyUnanswered(r) \/ Mint(r)
        PROVE  UNCHANGED database
    BY <2>2, InitAuthStep DEF vars, database
  <2>3. UNCHANGED bootVars => UNCHANGED vars
    BY DEF bootVars
  <2>4. UNCHANGED database => UNCHANGED Ledger!ledger
    BY DEF database, Ledger!ledger
  <2>. QED  BY <2>1, <2>2, <2>3, <2>4, NextLedger DEF BootNext
<1>. QED  BY <1>1, <1>2, BootInvariance, PTL DEF BootSpec, LedgerSpec, Ledger!Spec

-----------------------------------------------------------------------------
(***************************************************************************)
(* The signing key.                                                        *)
(***************************************************************************)

AuthTypeOK ==
  /\ auth \in [App -> {"none", "absent", "ready"}]
  /\ key \in [App -> Secret \union {NoSecret}]
  /\ stored \in Secret \union {NoSecret}
  /\ tokens \subseteq Secret
  /\ raced \in BOOLEAN
  /\ \A r \in App : auth[r] = "ready" => key[r] \in Secret

\* A process is in initAuth, or past it, only when its migrations are done.
AuthAfterMigrations == \A r \in App : auth[r] # "none" => pc[r] = "done"

\* A process about to generate a key is the only one, and nothing is stored yet.
OneGenerates ==
  \A r \in App : auth[r] = "absent" =>
    stored = NoSecret /\ \A q \in App \ {r} : auth[q] # "absent"

\* Whoever has a key has the one that is stored, and nothing else was signed with.
StoredKeyUsed ==
  /\ \A r \in App : auth[r] = "ready" => stored # NoSecret /\ key[r] = stored
  /\ tokens \subseteq {stored}

KeyInv ==
  /\ TypeOK
  /\ AuthTypeOK
  /\ AuthAfterMigrations
  /\ ~raced => OneGenerates /\ StoredKeyUsed

\* Every step of every process keeps the types of initAuth's state.
LEMMA AuthNextTypeOK == AuthTypeOK /\ [BootNext]_bootVars => AuthTypeOK'
<1> SUFFICES ASSUME AuthTypeOK, [BootNext]_bootVars PROVE AuthTypeOK'
  OBVIOUS
<1> USE DEF AuthTypeOK
<1>1. ASSUME NEW r \in Runner, BootLaunch(r) PROVE AuthTypeOK'
  BY <1>1 DEF BootLaunch
<1>2. ASSUME NEW r \in Runner, BootMigrate(r) PROVE AuthTypeOK'
  BY <1>2 DEF BootMigrate, authVars
<1>3. ASSUME NEW r \in App, LoadKey(r) PROVE AuthTypeOK'
  BY <1>3 DEF LoadKey, FindNone
<1>4. ASSUME NEW r \in App, StoreKey(r) PROVE AuthTypeOK'
  BY <1>4 DEF StoreKey, Fresh
<1>5. ASSUME NEW r \in App, CrashInAuth(r) PROVE AuthTypeOK'
  BY <1>5 DEF CrashInAuth
<1>6. ASSUME NEW r \in App, StoreKeyUnanswered(r) PROVE AuthTypeOK'
  BY <1>6 DEF StoreKeyUnanswered, Fresh
<1>7. ASSUME NEW r \in App, Mint(r) PROVE AuthTypeOK'
  BY <1>7 DEF Mint
<1>8. CASE UNCHANGED bootVars
  BY <1>8 DEF bootVars, authVars
<1>. QED
  BY <1>1, <1>2, <1>3, <1>4, <1>5, <1>6, <1>7, <1>8 DEF BootNext, InitAuth

\* A process leaves its done state only to start over, and then knows nothing.
LEMMA AuthAfterKept ==
  TypeOK /\ AuthTypeOK /\ AuthAfterMigrations /\ [BootNext]_bootVars => AuthAfterMigrations'
<1> SUFFICES ASSUME TypeOK, AuthTypeOK, AuthAfterMigrations, [BootNext]_bootVars
             PROVE  AuthAfterMigrations'
  OBVIOUS
<1> USE ServerBootAssumption DEF AuthTypeOK, AuthAfterMigrations
<1>1. ASSUME NEW r \in Runner, BootLaunch(r) PROVE AuthAfterMigrations'
  <2>1. Local(r)
    BY <1>1, StepIsLocal DEF BootLaunch
  <2>. QED  BY <1>1, <2>1 DEF BootLaunch, Local
<1>2. ASSUME NEW r \in Runner, BootMigrate(r) PROVE AuthAfterMigrations'
  <2>1. Local(r)
    BY <1>2, StepIsLocal DEF BootMigrate
  <2>2. pc[r] # "done"
    BY <1>2 DEF BootMigrate, Step, CheckTable, ReadApplied, RefuseSet, Finish, Begin, EndSet, ExecSQL,
                RejectSQL, InsertRow, RejectRow, Commit, CommitUnanswered, Interrupt, Running
  <2>. QED  BY <1>2, <2>1, <2>2 DEF BootMigrate, Local, authVars
<1>3. ASSUME NEW r \in App, LoadKey(r) PROVE AuthAfterMigrations'
  BY <1>3 DEF LoadKey, FindNone, vars
<1>4. ASSUME NEW r \in App, StoreKey(r) PROVE AuthAfterMigrations'
  BY <1>4 DEF StoreKey, vars
<1>5. ASSUME NEW r \in App, CrashInAuth(r) \/ StoreKeyUnanswered(r)
      PROVE  AuthAfterMigrations'
  <2>1. auth' = [auth EXCEPT ![r] = "none"] /\ pc' = [pc EXCEPT ![r] = "failed"]
    BY <1>5 DEF CrashInAuth, StoreKeyUnanswered, Fail, Goto
  <2>2. \A q \in App \ {r} : auth'[q] = auth[q] /\ pc'[q] = pc[q]
    BY <2>1 DEF TypeOK
  <2>3. auth'[r] = "none"
    BY <2>1
  <2>. QED  BY <2>2, <2>3
<1>6. ASSUME NEW r \in App, Mint(r) PROVE AuthAfterMigrations'
  BY <1>6 DEF Mint, vars
<1>7. CASE UNCHANGED bootVars
  BY <1>7 DEF bootVars, authVars, vars
<1>. QED  BY <1>1, <1>2, <1>3, <1>4, <1>5, <1>6, <1>7 DEF BootNext, InitAuth

\* Until two processes race, the one that generates a key is alone and all the
\* others use the one it stores.
LEMMA OneKeyKept ==
  ASSUME AuthTypeOK, [BootNext]_bootVars, ~raced => OneGenerates /\ StoredKeyUsed
  PROVE  ~raced' => OneGenerates' /\ StoredKeyUsed'
<1> SUFFICES ASSUME ~raced' PROVE OneGenerates' /\ StoredKeyUsed'
  OBVIOUS
<1> USE ServerBootAssumption DEF AuthTypeOK, OneGenerates, StoredKeyUsed
<1>1. ASSUME NEW r \in Runner, BootLaunch(r) PROVE OneGenerates' /\ StoredKeyUsed'
  BY <1>1 DEF BootLaunch
<1>2. ASSUME NEW r \in Runner, BootMigrate(r) PROVE OneGenerates' /\ StoredKeyUsed'
  BY <1>2 DEF BootMigrate, authVars
<1>3. ASSUME NEW r \in App, LoadKey(r) PROVE OneGenerates' /\ StoredKeyUsed'
  <2>1. stored' = stored /\ tokens' = tokens
    BY <1>3 DEF LoadKey
  <2>2. CASE stored = NoSecret
    <3>1. /\ auth' = [auth EXCEPT ![r] = "absent"] /\ key' = key
          /\ raced' = (raced \/ \E q \in App \ {r} : auth[q] = "absent")
      BY <1>3, <2>2 DEF LoadKey, FindNone
    <3>. QED  BY <2>1, <2>2, <3>1
  <2>3. CASE stored # NoSecret
    BY <1>3, <2>1, <2>3 DEF LoadKey
  <2>. QED  BY <2>2, <2>3
<1>4. ASSUME NEW r \in App, StoreKey(r) PROVE OneGenerates' /\ StoredKeyUsed'
  <2>1. PICK s \in Secret : stored' = s /\ key' = [key EXCEPT ![r] = s]
    BY <1>4 DEF StoreKey, Fresh
  <2>2. ~raced /\ tokens' = tokens /\ auth[r] = "absent" /\ auth' = [auth EXCEPT ![r] = "ready"]
    BY <1>4 DEF StoreKey
  <2>3. stored = NoSecret /\ \A q \in App \ {r} : auth[q] = "none"
    BY <2>2
  <2>4. tokens = {}
    BY <2>2, <2>3
  <2>. QED  BY <2>1, <2>2, <2>3, <2>4
<1>5. ASSUME NEW r \in App, CrashInAuth(r) PROVE OneGenerates' /\ StoredKeyUsed'
  BY <1>5 DEF CrashInAuth
<1>6. ASSUME NEW r \in App, StoreKeyUnanswered(r) PROVE OneGenerates' /\ StoredKeyUsed'
  <2>1. stored' \in Secret
    BY <1>6 DEF StoreKeyUnanswered, Fresh
  <2>2. /\ ~raced /\ tokens' = tokens /\ key' = key
        /\ auth[r] = "absent" /\ auth' = [auth EXCEPT ![r] = "none"]
    BY <1>6 DEF StoreKeyUnanswered
  <2>3. stored = NoSecret /\ \A q \in App \ {r} : auth[q] = "none"
    BY <2>2
  <2>4. tokens = {}
    BY <2>2, <2>3
  <2>. QED  BY <2>1, <2>2, <2>3, <2>4
<1>7. ASSUME NEW r \in App, Mint(r) PROVE OneGenerates' /\ StoredKeyUsed'
  BY <1>7 DEF Mint
<1>8. CASE UNCHANGED bootVars
  BY <1>8 DEF bootVars, authVars
<1>. QED
  BY <1>1, <1>2, <1>3, <1>4, <1>5, <1>6, <1>7, <1>8 DEF BootNext, InitAuth

\* The invariant about the signing key holds in every reachable state.
THEOREM KeyInvariance == BootSpec => []KeyInv
<1>1. BootInit => KeyInv
  <2>1. BootInit => TypeOK
    BY InitInv DEF BootInit, IInv
  <2>. QED
    BY <2>1, ServerBootAssumption
       DEF BootInit, KeyInv, AuthTypeOK, AuthAfterMigrations, OneGenerates, StoredKeyUsed
<1>2. KeyInv /\ TypeOK' /\ [BootNext]_bootVars => KeyInv'
  BY AuthNextTypeOK, AuthAfterKept, OneKeyKept DEF KeyInv
<1>3. IInv => TypeOK
  BY DEF IInv
<1>. QED  BY <1>1, <1>2, <1>3, BootInvariance, PTL DEF BootSpec

\* initAuth: unless two processes have raced for the key, every process that is
\* ready accepts every token any process of the app has minted.
THEOREM OneKey == BootSpec => []OneKeyAccepted
<1>1. KeyInv => OneKeyAccepted
  BY DEF KeyInv, OneKeyAccepted, StoredKeyUsed, Accepts
<1>. QED  BY <1>1, KeyInvariance, PTL

\* ConfigSet is reached only by a process that found no key: when none is about
\* to generate one, the stored key never changes again, races or not.
THEOREM StoredKeyStable == BootSpec => SettledKeyStable
<1> SUFFICES ASSUME NEW s \in Secret
             PROVE  BootSpec => [](stored = s /\ (\A r \in App : auth[r] # "absent") => [](stored = s))
  BY DEF SettledKeyStable
<1> DEFINE P == stored = s /\ \A r \in App : auth[r] # "absent"
<1>1. ASSUME AuthTypeOK, P, [BootNext]_bootVars PROVE P'
  <2> USE <1>1, ServerBootAssumption DEF AuthTypeOK
  <2>1. ASSUME NEW r \in Runner, BootLaunch(r) PROVE P'
    BY <2>1 DEF BootLaunch
  <2>2. ASSUME NEW r \in Runner, BootMigrate(r) PROVE P'
    BY <2>2 DEF BootMigrate, authVars
  <2>3. ASSUME NEW r \in App, LoadKey(r) PROVE P'
    BY <2>3 DEF LoadKey
  <2>4. ASSUME NEW r \in App, StoreKey(r) \/ StoreKeyUnanswered(r) PROVE P'
    BY <2>4 DEF StoreKey, StoreKeyUnanswered
  <2>5. ASSUME NEW r \in App, CrashInAuth(r) PROVE P'
    BY <2>5 DEF CrashInAuth
  <2>6. ASSUME NEW r \in App, Mint(r) PROVE P'
    BY <2>6 DEF Mint
  <2>7. CASE UNCHANGED bootVars
    BY <2>7 DEF bootVars, authVars
  <2>. QED  BY <2>1, <2>2, <2>3, <2>4, <2>5, <2>6, <2>7 DEF BootNext, InitAuth
<1>2. P => stored = s
  OBVIOUS
<1>3. KeyInv => AuthTypeOK
  BY DEF KeyInv
<1> HIDE DEF P
<1>4. BootSpec => [](P => [](stored = s))
  BY <1>1, <1>2, <1>3, KeyInvariance, PTL DEF BootSpec
<1>. QED  BY <1>4 DEF P
=============================================================================
