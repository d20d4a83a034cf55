------------------------------- MODULE Backup -------------------------------
(***************************************************************************)
(* db/backup.go and db/cmd_backup.go: the daily backup scheduler of a      *)
(* server and the `db backup` command, uploading dumps to one SFTP         *)
(* directory, recording the result in _schemaf_config and deleting the     *)
(* files beyond the retention count; `db backup --local`, which writes a   *)
(* file of the machine instead; and `db restore` from either.              *)
(*                                                                         *)
(* Time is a small clock of Day ticks a day on which Hour is the scheduled *)
(* one; 0 is Go's zero time.  Dumping and restoring take time: the clock   *)
(* stands still while a process is between two other calls, and timers are *)
(* prompt.  Modification times matter by their order only, which is that   *)
(* of the last writes.  Retain > 0 and Hour < Day are what                 *)
(* ReadSFTPConfigFromEnv makes of the environment.                         *)
(***************************************************************************)
EXTENDS Integers, FiniteSets

CONSTANTS
  Agent,      \* processes that make backups into the directory
  Server,     \* those that are servers; the others are `db` commands
  ProjectOf,  \* the project whose database each of them dumps
  Day, Hour,  \* ticks in a day, and BACKUP_HOUR
  Retain,     \* BACKUP_RETAIN
  MaxNow,     \* bound on the clock
  MaxRuns,    \* bound on the commands started
  MaxFaults   \* bound on crashes and failed calls

ASSUME BackupAssumption ==
  /\ IsFiniteSet(Agent) /\ Server \subseteq Agent
  /\ DOMAIN ProjectOf = Agent
  /\ Retain \in Nat \ {0} /\ Day \in Nat \ {0} /\ Hour \in 0 .. Day - 1
  /\ MaxNow \in Nat \ {0} /\ MaxRuns \in Nat /\ MaxFaults \in Nat

VARIABLES
  now,      \* the time
  pc,       \* where each process is
  due,      \* when each server's timer fires
  mem,      \* lastBackupTime and lastBackupError of each server
  saved,    \* last_backup and last_backup_error in its _schemaf_config
  remote,   \* the files in the directory
  later,    \* for each of them, those that were written to after it
  mine,     \* the file each process is writing
  expired,  \* what each process has still to delete
  local,    \* what the file holds that --local names, if there is one
  source,   \* the file that each process restores, and what it held when opened
  told,     \* history: what the last restore that reported success has read
  overlap,  \* history: two processes have been making a backup at once
  runs, faults

vars == <<now, pc, due, mem, saved, remote, later, mine, expired, local, source, told,
          overlap, runs, faults>>

\* What an upload leaves alone, and what a restore does.
restoring == <<local, source, told>>
uploading == <<now, due, mem, saved, remote, later, mine, expired, overlap>>

Status == [at : Nat, failed : BOOLEAN]
Unknown == [at |-> 0, failed |-> FALSE]

\* What a file holds: a dump that is being written, the whole of it, one that
\* pg_dump left unfinished inside well-formed gzip, or gzip that is cut off;
Content == {"open", "whole", "short", "cut"}
\* and when it was created or, once it is closed, written to last.
File == [of : {ProjectOf[a] : a \in Agent}, at : Nat, body : Content]

Today == (now \div Day) * Day + Hour

\* Faulty variant: a day without a backup is all that counts.
CatchUpAfterDay(s) == s.at = 0 \/ s.failed \/ now - s.at > Day

\* shouldCatchUp
CatchUp(s) ==
  \/ s.at = 0 \/ s.failed
  \/ now < Today /\ now - s.at > Day
  \/ now >= Today /\ s.at < Today

\* nextRunTime
NextRun == IF Today > now THEN Today ELSE Today + Day

\* The file n is written to.
Put(n, f) ==
  /\ remote' = [i \in DOMAIN remote \union {n} |-> IF i = n THEN f ELSE remote[i]]
  /\ later' = [i \in DOMAIN remote \union {n} |-> IF i = n THEN {} ELSE later[i] \union {n}]

\* The k newest files of the directory.
Newest(k) == {n \in DOMAIN remote : Cardinality(later[n]) < k}

\* Names are new; here, one that nobody remembers.
NewName ==
  LET known == DOMAIN remote \union
                 UNION {expired[a] \union {0, mine[a], source[a].name} : a \in Agent}
  IN  CHOOSE n \in 1 .. Cardinality(known) : n \notin known

\* It is making a backup in the directory, or cleaning up there.
Busy(a) == pc[a] \in {"connect", "dump", "saveTime", "saveError", "list", "delete"}

Nothing == [name |-> 0, body |-> "none"]

Goto(a, to) == pc' = [pc EXCEPT ![a] = to]

-----------------------------------------------------------------------------
Init ==
  /\ now \in 1 .. Day
  /\ pc = [a \in Agent |-> "off"]
  /\ due = [s \in Server |-> 0]
  /\ mem = [s \in Server |-> Unknown]
  /\ saved = [s \in Server |-> Unknown]
  /\ remote = [n \in {} |-> Unknown]
  /\ later = [n \in {} |-> {}]
  /\ mine = [a \in Agent |-> 0]
  /\ expired = [a \in Agent |-> {}]
  /\ local \in {"none", "whole"}
  /\ source = [a \in Agent |-> Nothing]
  /\ told = "none"
  /\ overlap = FALSE
  /\ runs = 0
  /\ faults = 0

Fault == faults < MaxFaults /\ faults' = faults + 1
NoFault == UNCHANGED faults

Tick ==
  /\ now < MaxNow
  /\ \A a \in Agent : pc[a] \in {"off", "wait", "dump", "dumpLocal", "restore"}
  /\ \A s \in Server : pc[s] = "wait" => now < due[s]
  /\ now' = now + 1
  /\ UNCHANGED <<pc, due, mem, saved, remote, later, mine, expired, overlap, runs, faults,
                 restoring>>

\* The scheduler's loop computes when it will run next and waits.
Wait(s) ==
  /\ Goto(s, "wait")
  /\ due' = [due EXCEPT ![s] = NextRun]

\* loadLastBackupStatus: without a time the result is not looked at.
Loaded(s) == IF saved[s].at = 0 THEN Unknown ELSE saved[s]

\* A server starts: loadLastBackupStatus, of which either read may fail, and
\* then a backup that was missed, or the wait for the next.
Boot(s) ==
  /\ s \in Server /\ pc[s] = "off"
  /\ \E m \in {Loaded(s), [Loaded(s) EXCEPT !.failed = FALSE], Unknown} :
       /\ mem' = [mem EXCEPT ![s] = m]
       /\ IF m = Loaded(s) THEN NoFault ELSE Fault
       /\ IF CatchUp(m) THEN Goto(s, "connect") /\ UNCHANGED due ELSE Wait(s)
  /\ UNCHANGED <<now, saved, remote, later, mine, expired, overlap, runs, restoring>>

\* The timer fires.
Fire(s) ==
  /\ s \in Server /\ pc[s] = "wait" /\ now >= due[s]
  /\ Goto(s, "connect")
  /\ due' = [due EXCEPT ![s] = 0]
  /\ UNCHANGED <<now, mem, saved, remote, later, mine, expired, overlap, runs, faults, restoring>>

\* `db backup` is started.
Command(a) ==
  /\ a \in Agent \ Server /\ pc[a] = "off" /\ runs < MaxRuns
  /\ Goto(a, "connect")
  /\ runs' = runs + 1
  /\ UNCHANGED <<now, due, mem, saved, remote, later, mine, expired, overlap, faults, restoring>>

\* The attempt of a is over.  recordBackup sets the server's memory whatever
\* came of it; a command's record goes nowhere, for it has no connection.
Attempted(a, failed) ==
  IF a \in Server
    THEN /\ mem' = [mem EXCEPT ![a] = [at |-> now, failed |-> failed]]
         /\ Goto(a, "saveTime")
    ELSE /\ Goto(a, IF failed THEN "off" ELSE "list")
         /\ UNCHANGED mem

\* BackupToSFTP up to client.Create.  Names have a resolution of one second, so
\* the file may be one that another process has just begun to write.  It is
\* truncated then, and what the two write into it need not fit together.
Create(a) ==
  /\ pc[a] = "connect"
  /\ LET new(body) == [of |-> ProjectOf[a], at |-> now, body |-> body]
     IN  \/ /\ mine' = [mine EXCEPT ![a] = NewName]
            /\ Put(NewName, new("open"))
         \/ \E b \in Agent \ {a} :
              /\ mine[b] \in DOMAIN remote
              /\ remote[mine[b]].of = ProjectOf[a] /\ remote[mine[b]].at = now
              /\ mine' = [mine EXCEPT ![a] = mine[b]]
              /\ \E body \in {"open", "cut"} : Put(mine[b], new(body))
  /\ Goto(a, "dump")
  /\ overlap' = (overlap \/ \E b \in Agent \ {a} : Busy(b))
  /\ UNCHANGED <<now, due, mem, saved, expired, runs, faults, restoring>>

\* BackupToSFTP fails before it has made a file.
CreateFails(a) ==
  /\ pc[a] = "connect"
  /\ Fault
  /\ Attempted(a, TRUE)
  /\ UNCHANGED <<now, due, saved, remote, later, mine, expired, overlap, runs, restoring>>

\* More of the dump has been written.
Progress(a) ==
  /\ pc[a] = "dump"
  /\ mine[a] \in DOMAIN remote
  /\ Put(mine[a], remote[mine[a]])
  /\ UNCHANGED <<now, pc, due, mem, saved, mine, expired, overlap, runs, faults, restoring>>

\* What becomes of the file of a, which another process may have deleted.
Close(a, body) ==
  /\ mine' = [mine EXCEPT ![a] = 0]
  /\ IF mine[a] \in DOMAIN remote
       THEN LET f == remote[mine[a]]
            IN  Put(mine[a], [f EXCEPT !.at = now,
                                       !.body = IF f.body = "cut" THEN "cut" ELSE body])
       ELSE UNCHANGED <<remote, later>>

\* Backup returns nil.
Finish(a) ==
  /\ pc[a] = "dump"
  /\ Close(a, "whole")
  /\ Attempted(a, FALSE)
  /\ UNCHANGED <<now, due, saved, expired, overlap, runs, faults, restoring>>

\* pg_dump or the upload fails, and what there is of the file stays.
DumpFails(a) ==
  /\ pc[a] = "dump"
  /\ Fault
  /\ \E body \in {"short", "cut"} : Close(a, body)
  /\ Attempted(a, TRUE)
  /\ UNCHANGED <<now, due, saved, expired, overlap, runs, restoring>>

\* recordBackup's first ConfigSet; its error is ignored.
SaveTime(s) ==
  /\ pc[s] = "saveTime"
  /\ \/ NoFault /\ saved' = [saved EXCEPT ![s].at = mem[s].at]
     \/ Fault /\ UNCHANGED saved
  /\ Goto(s, "saveError")
  /\ UNCHANGED <<now, due, mem, remote, later, mine, expired, overlap, runs, restoring>>

\* Faulty variant: old backups are deleted after a failure, too.
SaveErrorThenList(s) ==
  /\ pc[s] = "saveError"
  /\ \/ NoFault /\ saved' = [saved EXCEPT ![s].failed = mem[s].failed]
     \/ Fault /\ UNCHANGED saved
  /\ Goto(s, "list")
  /\ UNCHANGED <<now, due, mem, remote, later, mine, expired, overlap, runs, restoring>>

\* recordBackup's second ConfigSet.  After a failure the scheduler waits for
\* the next day.
SaveError(s) ==
  /\ pc[s] = "saveError"
  /\ \/ NoFault /\ saved' = [saved EXCEPT ![s].failed = mem[s].failed]
     \/ Fault /\ UNCHANGED saved
  /\ IF mem[s].failed THEN Wait(s) ELSE Goto(s, "list") /\ UNCHANGED due
  /\ UNCHANGED <<now, mem, remote, later, mine, expired, overlap, runs, restoring>>

\* A process is through with a backup.
Through(a) ==
  IF a \in Server THEN Wait(a) ELSE Goto(a, "off") /\ UNCHANGED due

\* Faulty variant: one file too many is kept.
ListOneMore(a) ==
  /\ pc[a] = "list"
  /\ IF Cardinality(DOMAIN remote) <= Retain + 1
       THEN expired' = [expired EXCEPT ![a] = {}]
       ELSE expired' = [expired EXCEPT ![a] = DOMAIN remote \ Newest(Retain + 1)]
  /\ Goto(a, "delete")
  /\ UNCHANGED <<now, due, mem, saved, remote, later, mine, overlap, runs, faults, restoring>>

\* DeleteOldBackups lists the directory, whosever files they are.
List(a) ==
  /\ pc[a] = "list"
  /\ IF Cardinality(DOMAIN remote) <= Retain
       THEN expired' = [expired EXCEPT ![a] = {}]
       ELSE expired' = [expired EXCEPT ![a] = DOMAIN remote \ Newest(Retain)]
  /\ Goto(a, "delete")
  /\ UNCHANGED <<now, due, mem, saved, remote, later, mine, overlap, runs, faults, restoring>>

\* DeleteOldBackups returns an error, which is only logged.
ListFails(a) ==
  /\ pc[a] = "list"
  /\ Fault
  /\ Through(a)
  /\ UNCHANGED <<now, mem, saved, remote, later, mine, expired, overlap, runs, restoring>>

\* An expired file is removed, if another process has not done so, or the call
\* fails, which is only logged.
Delete(a) ==
  /\ pc[a] = "delete"
  /\ \E n \in expired[a] :
       /\ expired' = [expired EXCEPT ![a] = @ \ {n}]
       /\ \/ /\ NoFault
             /\ remote' = [i \in DOMAIN remote \ {n} |-> remote[i]]
             /\ later' = [i \in DOMAIN remote \ {n} |-> later[i] \ {n}]
          \/ Fault /\ UNCHANGED <<remote, later>>
  /\ UNCHANGED <<now, pc, due, mem, saved, mine, overlap, runs, restoring>>

\* DeleteOldBackups has been through its list.
Cleaned(a) ==
  /\ pc[a] = "delete" /\ expired[a] = {}
  /\ Through(a)
  /\ UNCHANGED <<now, mem, saved, remote, later, mine, expired, overlap, runs, faults, restoring>>

-----------------------------------------------------------------------------
\* The rest is commands that do not touch the directory.

Free(a) == a \in Agent \ Server /\ pc[a] = "off" /\ runs < MaxRuns /\ runs' = runs + 1

\* What a writes into the local file now holds body, unless two processes have
\* been writing it, or one that failed has removed it.
Written(body) == IF local \in {"none", "cut"} THEN local ELSE body

\* `db backup --local`: os.Create truncates what an earlier one has left.
BackupLocal(a) ==
  /\ Free(a)
  /\ \/ /\ NoFault
        /\ local' = IF \E b \in Agent : pc[b] = "dumpLocal" THEN "cut" ELSE "open"
        /\ Goto(a, "dumpLocal")
     \/ Fault /\ UNCHANGED <<local, pc>>
  /\ UNCHANGED <<uploading, source, told>>

LocalDone(a) ==
  /\ pc[a] = "dumpLocal"
  /\ local' = Written("whole")
  /\ Goto(a, "off")
  /\ UNCHANGED <<uploading, source, told, runs, faults>>

\* Backup fails, and the file is there until it is removed.
LocalFails(a) ==
  /\ pc[a] = "dumpLocal"
  /\ Fault
  /\ \E body \in {"short", "cut"} : local' = Written(body)
  /\ Goto(a, "discard")
  /\ UNCHANGED <<uploading, source, told, runs>>

\* Faulty variant: the file of a failed local backup stays, as it does remotely.
DiscardNothing(a) ==
  /\ pc[a] = "discard"
  /\ \/ NoFault /\ UNCHANGED local
     \/ Fault /\ UNCHANGED local
  /\ Goto(a, "off")
  /\ UNCHANGED <<uploading, source, told, runs>>

\* os.Remove, whose error is ignored.
Discard(a) ==
  /\ pc[a] = "discard"
  /\ \/ NoFault /\ local' = "none"
     \/ Fault /\ UNCHANGED local
  /\ Goto(a, "off")
  /\ UNCHANGED <<uploading, source, told, runs>>

\* `db restore` is started, with --latest or with a name that has been listed.
RestoreLatest(a) ==
  /\ Free(a)
  /\ Goto(a, "find")
  /\ UNCHANGED <<uploading, restoring, faults>>

RestoreNamed(a) ==
  /\ Free(a)
  /\ \E n \in DOMAIN remote : source' = [source EXCEPT ![a] = [name |-> n, body |-> "open"]]
  /\ Goto(a, "open")
  /\ UNCHANGED <<uploading, local, told, faults>>

\* ListRemoteBackups finds the newest file, or none, or fails.
FindLatest(a) ==
  /\ pc[a] = "find"
  /\ \/ /\ NoFault
        /\ \E n \in Newest(1) : source' = [source EXCEPT ![a] = [name |-> n, body |-> "open"]]
        /\ Goto(a, "open")
     \/ /\ IF DOMAIN remote = {} THEN NoFault ELSE Fault
        /\ Goto(a, "off")
        /\ UNCHANGED source
  /\ UNCHANGED <<uploading, local, told, runs>>

\* RestoreFromSFTP up to client.Open: retention may have removed the file.
Open(a) ==
  /\ pc[a] = "open"
  /\ \/ /\ NoFault /\ source[a].name \in DOMAIN remote
        /\ source' = [source EXCEPT ![a].body = remote[source[a].name].body]
        /\ Goto(a, "restore")
     \/ /\ IF source[a].name \in DOMAIN remote THEN Fault ELSE NoFault
        /\ source' = [source EXCEPT ![a] = Nothing]
        /\ Goto(a, "off")
  /\ UNCHANGED <<uploading, local, told, runs>>

\* `db restore --local`, which opens the file or ends at once.
RestoreLocal(a) ==
  /\ Free(a)
  /\ \/ /\ NoFault /\ local # "none"
        /\ source' = [source EXCEPT ![a] = [name |-> 0, body |-> local]]
        /\ Goto(a, "restore")
     \/ /\ IF local = "none" THEN NoFault ELSE Fault
        /\ UNCHANGED <<source, pc>>
  /\ UNCHANGED <<uploading, local, told>>

\* What a restore reads in the end: the file as it is by then, or, once it is
\* removed, as it was when it was opened or has become since.
ReadsAs(a) ==
  LET f == source[a]
  IN  CASE f.name = 0 /\ local # "none"            -> {local}
        [] f.name # 0 /\ f.name \in DOMAIN remote  -> {remote[f.name].body}
        [] OTHER -> IF f.body = "open" THEN Content ELSE {f.body}

\* Restore: psql exits with 0 once gzip has been read to its end, whatever the
\* SQL does; gzip that ends too early is an error, after what came before it.
Restore(a) ==
  /\ pc[a] = "restore"
  /\ \/ /\ NoFault
        /\ \E body \in ReadsAs(a) : told' = IF body \in {"whole", "short"} THEN body ELSE told
     \/ Fault /\ UNCHANGED told
  /\ source' = [source EXCEPT ![a] = Nothing]
  /\ Goto(a, "off")
  /\ UNCHANGED <<uploading, local, runs>>

-----------------------------------------------------------------------------
\* The process dies; a file it was writing is cut off.
Crash(a) ==
  /\ pc[a] # "off"
  /\ Fault
  /\ Goto(a, "off")
  /\ Close(a, IF pc[a] = "dump" THEN "cut" ELSE "whole")
  /\ local' = IF pc[a] = "dumpLocal" THEN Written("cut") ELSE local
  /\ source' = [source EXCEPT ![a] = Nothing]
  /\ expired' = [expired EXCEPT ![a] = {}]
  /\ mem' = [s \in Server |-> IF s = a THEN Unknown ELSE mem[s]]
  /\ due' = [s \in Server |-> IF s = a THEN 0 ELSE due[s]]
  /\ UNCHANGED <<now, saved, told, overlap, runs>>

Next ==
  \/ Tick
  \/ \E a \in Agent :
       \/ Boot(a) \/ Fire(a) \/ Command(a)
       \/ Create(a) \/ CreateFails(a) \/ Progress(a) \/ Finish(a) \/ DumpFails(a)
       \/ SaveTime(a) \/ SaveError(a)
       \/ List(a) \/ ListFails(a) \/ Delete(a) \/ Cleaned(a)
       \/ BackupLocal(a) \/ LocalDone(a) \/ LocalFails(a) \/ Discard(a)
       \/ RestoreLatest(a) \/ RestoreNamed(a) \/ FindLatest(a) \/ Open(a)
       \/ RestoreLocal(a) \/ Restore(a)
       \/ Crash(a)

Spec == Init /\ [][Next]_vars

-----------------------------------------------------------------------------
Whole(p) == {n \in DOMAIN remote : remote[n].body = "whole" /\ remote[n].of = p}

Gone == DOMAIN remote \ DOMAIN remote'

\* Failures leave little behind.  The directory does not fill up: but for what is
\* being made, and for what failed or crashed once, there are no more than Retain
\* files in it.  And no single failure leaves an unfinished dump at the path of a
\* local backup where a restore would accept it.
LittleIsLeft ==
  /\ Cardinality(DOMAIN remote) <= Retain + Cardinality({a \in Agent : Busy(a)}) + faults
  /\ local = "short" /\ faults < 2 => \E a \in Agent : pc[a] = "discard"

\* As long as backups are made one at a time, whatever fails or crashes, the
\* directory never loses the newest whole one.
NewestWholeStays ==
  [][~overlap => \A n \in Gone : remote[n].body = "whole" =>
       \E k \in later[n] \intersect DOMAIN remote' : remote[k].body = "whole"]_vars

\* A server that waits and knows of no failure will make its next backup within a
\* day and the hour of the last one on its record, whenever it crashed and was
\* started again.  The record may have lost that this one failed.
GapBounded ==
  \A s \in Server : pc[s] = "wait" /\ ~mem[s].failed => due[s] - mem[s].at <= Day + Hour

\* cmd_backup.go:49 and :186: a restore that reports success has restored the
\* database from a backup, and not from what is left of one that failed.
RestoredIsWhole == told \in {"none", "whole"}
=============================================================================
