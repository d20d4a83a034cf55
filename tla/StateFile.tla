------------------------------ MODULE StateFile ------------------------------
(***************************************************************************)
(* cli/config.go, cli/types.go and cli/framework.go: the state file of the *)
(* CLI.  Each command loads state.toml as it starts, which creates the     *)
(* file or migrates an old state.json to it; a command may set keys in     *)
(* memory and save, which writes all it has in memory.  Commands run in    *)
(* several terminals and nothing locks the file.                           *)
(*                                                                         *)
(* Viper opens the file with O_TRUNC and writes it whole afterwards, from  *)
(* the offset 0 of its own file descriptor.  New ignores loadState's error *)
(* (framework.go:49): a command whose load fails goes on without a state.  *)
(***************************************************************************)
EXTENDS Naturals

CONSTANTS
  Command, Key, Value, Unset,
  Absent,     \* there is no such file
  Blank,      \* a file of no bytes, which parses as one without settings
  Garbled,    \* a file that does not parse; an empty state.json is one, too
  Initial,    \* the files there may be at first, <<state.json, state.toml>>
  Change,     \* what a command may set, Unset where it sets nothing
  MaxFaults   \* bound on kills and failed calls

Settings == [Key -> Value \union {Unset}]

\* What a file has that was created for the first command: only "_created".
Created == [k \in Key |-> Unset]

ASSUME StateFileAssumption ==
  /\ Unset \notin Value
  /\ Absent \notin Settings /\ Blank \notin Settings /\ Garbled \notin Settings
  /\ Absent # Blank /\ Absent # Garbled /\ Blank # Garbled
  /\ Initial \subseteq (Settings \union {Absent, Garbled}) \X (Settings \union {Absent, Blank, Garbled})
  /\ Change \subseteq Settings
  /\ MaxFaults \in Nat

VARIABLES
  json,    \* state.json
  toml,    \* state.toml
  pc,      \* where the command in each terminal is
  mem,     \* the settings it has in memory, and none once it has ended
  stale,   \* history: the files have changed since it began, or were changing
  broken,  \* history: a change was made on stale settings, cut off or in vain
  faults

files == <<json, toml>>
history == <<stale, broken, faults>>
vars == <<files, pc, mem, history>>

Resting == {"idle", "saved"}
Filling == {"writeOld", "writeNew", "writeSave"}

\* Loading: a call that loadState makes here may fail; and what it lacks then.
Fallible == {"readOld", "openOld", "writeOld", "read", "openNew", "writeNew"}
Stateless == {"lost", "failed"}

Overlay(mine, there) == [k \in Key |-> IF mine[k] # Unset THEN mine[k] ELSE there[k]]

Goto(c, to) == pc' = [pc EXCEPT ![c] = to]
Keep(c, s) == mem' = [mem EXCEPT ![c] = s]
Quit(c, to) == Goto(c, to) /\ Keep(c, Created)

Init ==
  /\ \E i \in Initial : json = i[1] /\ toml = i[2]
  /\ pc = [c \in Command |-> "idle"]
  /\ mem = [c \in Command |-> Created]
  /\ stale = [c \in Command |-> FALSE]
  /\ broken = FALSE
  /\ faults = 0

\* The command of c changes a file under those that are at work.
Disturbs(c, spoilt) ==
  /\ stale' = [d \in Command |-> pc[d] \notin Resting /\ (stale[d] \/ d # c)]
  /\ broken' = (broken \/ stale[c] \/ spoilt)
  /\ UNCHANGED faults

\* A command is typed; loadState looks for a state.json.
Start(c) ==
  /\ pc[c] \in Resting
  /\ Goto(c, IF json = Absent THEN "stat" ELSE "readOld")
  /\ stale' = [stale EXCEPT ![c] = \E d \in Command : pc[d] \in Filling]
  /\ broken' = (broken /\ \E d \in Command : pc[d] \notin Resting)
  /\ UNCHANGED <<files, mem, faults>>

\* Faulty variant: the old file is removed before the new one is written.
ReadOldAndRemove(c) ==
  /\ pc[c] = "readOld"
  /\ IF json \in {Absent, Garbled}
       THEN Quit(c, "lost") /\ UNCHANGED json
       ELSE Goto(c, "openOld") /\ Keep(c, json) /\ json' = Absent
  /\ UNCHANGED <<toml, history>>

\* migrateStateJSONToTOML reads the old file.
ReadOld(c) ==
  /\ pc[c] = "readOld"
  /\ IF json \in {Absent, Garbled}
       THEN Quit(c, "lost")
       ELSE Goto(c, "openOld") /\ Keep(c, json)
  /\ UNCHANGED <<files, history>>

\* os.Remove of the old file, which is not there any more, or cannot be removed:
\* that is not fatal.
RemoveOld(c) ==
  /\ pc[c] = "removeOld"
  /\ Goto(c, "stat")
  /\ \/ json # Absent /\ json' = Absent /\ Disturbs(c, FALSE)
     \/ json = Absent /\ UNCHANGED <<json, history>>
     \/ /\ json # Absent /\ faults < MaxFaults
        /\ faults' = faults + 1
        /\ UNCHANGED <<json, stale, broken>>
  /\ UNCHANGED <<toml, mem>>

\* Faulty variant: the file is read whether it exists or not.
StatNothing(c) ==
  /\ pc[c] = "stat"
  /\ Goto(c, "read")
  /\ UNCHANGED <<files, mem, history>>

\* loadState looks for the state.toml, to create it or to read it.
Stat(c) ==
  /\ pc[c] = "stat"
  /\ IF toml = Absent THEN Goto(c, "openNew") /\ Keep(c, Created)
                      ELSE Goto(c, "read") /\ UNCHANGED mem
  /\ UNCHANGED <<files, history>>

Read(c) ==
  /\ pc[c] = "read"
  /\ IF toml \in {Absent, Garbled}
       THEN Quit(c, "lost")
       ELSE Goto(c, "loaded") /\ Keep(c, IF toml = Blank THEN Created ELSE toml)
  /\ UNCHANGED <<files, history>>

\* WriteConfig opens and truncates the file...
Open(c, from, to) ==
  /\ pc[c] = from
  /\ toml' = Blank
  /\ Goto(c, to)
  /\ Disturbs(c, from = "openSave" /\ json # Absent)
  /\ UNCHANGED <<json, mem>>

\* ...and writes it.  If another command wrote since, bytes of the longer file can
\* be left behind those of the shorter: lines of it, or what does not parse.
Write(c, from, to) ==
  /\ pc[c] = from
  /\ \/ toml' = mem[c]
     \/ toml \in Settings /\ toml' \in {Overlay(mem[c], toml), Garbled}
     \/ toml = Garbled /\ toml' = Garbled
  /\ IF to = "saved" THEN Quit(c, to) ELSE Goto(c, to) /\ UNCHANGED mem
  /\ Disturbs(c, FALSE)
  /\ UNCHANGED json

\* The command sets keys of its state, to save it.
Set(c) ==
  /\ pc[c] = "loaded"
  /\ \E ch \in Change : Keep(c, Overlay(ch, mem[c]))
  /\ Goto(c, "openSave")
  /\ UNCHANGED <<files, history>>

\* A read, the directory, or the opening or writing of a file fails as the state is
\* loaded.  A write that fails may have written nothing, a part, or all.
LoadFails(c) ==
  /\ pc[c] \in Fallible
  /\ faults < MaxFaults
  /\ faults' = faults + 1
  /\ toml' \in {toml} \union (IF pc[c] \in Filling THEN {mem[c], Garbled} ELSE {})
  /\ Quit(c, "failed")
  /\ UNCHANGED <<json, stale, broken>>

\* The command ends without having saved: it had nothing to save, or no state.
End(c) ==
  /\ pc[c] \in {"loaded"} \union Stateless
  /\ Quit(c, "idle")
  /\ stale' = [stale EXCEPT ![c] = FALSE]
  /\ UNCHANGED <<files, broken, faults>>

\* The command is killed, or its Save fails, which it returns.
Interrupt(c) ==
  /\ pc[c] \notin Resting
  /\ faults < MaxFaults
  /\ faults' = faults + 1
  /\ toml' \in {toml} \union (IF pc[c] = "writeSave" THEN {mem[c], Garbled} ELSE {})
  /\ Quit(c, "idle")
  /\ stale' = [stale EXCEPT ![c] = FALSE]
  /\ broken' = (broken \/ pc[c] = "writeSave")
  /\ UNCHANGED json

Migrate(c) ==
  \/ ReadOld(c) \/ Open(c, "openOld", "writeOld") \/ Write(c, "writeOld", "removeOld")
  \/ RemoveOld(c)

Load(c) ==
  \/ Migrate(c) \/ Stat(c) \/ Read(c)
  \/ Open(c, "openNew", "writeNew") \/ Write(c, "writeNew", "loaded")
  \/ LoadFails(c)

Save(c) == Open(c, "openSave", "writeSave") \/ Write(c, "writeSave", "saved")

Next == \E c \in Command : Start(c) \/ Load(c) \/ Set(c) \/ Save(c) \/ End(c) \/ Interrupt(c)

Spec == Init /\ [][Next]_vars

-----------------------------------------------------------------------------
\* The commands that have begun a save, and not ended it.
Saving == {c \in Command : pc[c] = "writeSave"}

\* The settings that the next command is to find: those of state.json as long as
\* it has not been migrated, and those of a save from the moment it is begun.  None
\* of a file that does not parse.
Stored ==
  IF json \in Settings THEN json
  ELSE IF Saving # {} THEN mem[CHOOSE c \in Saving : TRUE]
  ELSE IF toml \in Settings THEN toml ELSE Created

Phase(c) ==
  CASE pc[c] = "idle" -> "idle" [] pc[c] \in {"writeSave", "saved"} -> "saved" [] OTHER -> "busy"

Found(i) == IF i[1] \in Settings THEN i[1] ELSE IF i[2] \in Settings THEN i[2] ELSE Created

Store == INSTANCE StateStore WITH
  store <- Stored, phase <- [c \in Command |-> Phase(c)], sound <- ~broken,
  Initial <- {Found(i) : i \in Initial}

\* A setting that was saved is found again, and nothing else changes it: not the
\* first start, not the migration, wherever that is cut off and begun anew.  What
\* breaks the promise is a command that saves over another's change, or is cut off
\* between the truncation and the write of its save, or saves although state.json
\* could not be removed; the next command that starts alone mends it.
StoreSpec == Store!Spec

\* A command ends up without a state, and goes on, only if another one changed the
\* files while it loaded, a call of its own failed, or a file does not parse: one
\* that was there, or that a collision or a failed write has garbled.  Nothing that
\* an earlier command left half done is a reason, nor is any order of the calls.
StateUnlessDisturbed ==
  \A c \in Command :
    pc[c] \in Stateless => stale[c] \/ pc[c] = "failed" \/ Garbled \in {json, toml}
=============================================================================
