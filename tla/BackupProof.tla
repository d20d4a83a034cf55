---------------------------- MODULE BackupProof ----------------------------
(***************************************************************************)
(* Theorems about Backup, for any number of servers and commands of any    *)
(* projects, any times, retention and number of faults: backups are never  *)
(* far apart, little is left behind, and the newest whole one stays.       *)
(***************************************************************************)
EXTENDS Backup, FiniteSetTheorems, TLAPS

Places ==
  {"off", "wait", "connect", "dump", "saveTime", "saveError", "list", "delete",
   "dumpLocal", "discard", "find", "open", "restore"}
ServersPlaces == {"wait", "saveTime", "saveError"}
Calm == {"off", "dumpLocal", "discard", "find", "open", "restore"}

Held == Content \union {"none"}
Source == [name : Nat, body : Held]

\* The names in use are among the first m.
Within(m) ==
  /\ DOMAIN remote \subseteq 1 .. m
  /\ \A a \in Agent : expired[a] \subseteq 1 .. m /\ mine[a] \in 0 .. m /\ source[a].name \in 0 .. m

Typed ==
  /\ now \in Nat /\ faults \in Nat /\ overlap \in BOOLEAN /\ local \in Held
  /\ pc \in [Agent -> Places]
  /\ \A a \in Agent : pc[a] \in ServersPlaces => a \in Server
  /\ mem \in [Server -> Status] /\ saved \in [Server -> Status] /\ due \in [Server -> Nat]
  /\ remote \in [DOMAIN remote -> File]
  /\ mine \in [Agent -> Nat] /\ expired \in [Agent -> SUBSET Nat] /\ source \in [Agent -> Source]
  /\ \A a \in Agent : pc[a] # "dump" => mine[a] = 0

TypeOK == Typed /\ \E m \in Nat : Within(m)

\* A server that has just made a backup knows when, and one that waits after a
\* success has the next one due.
GapInv ==
  \A s \in Server :
    /\ pc[s] \in {"saveTime", "saveError", "list", "delete"} => mem[s].at = now
    /\ pc[s] = "wait" /\ ~mem[s].failed => due[s] - mem[s].at <= Day + Hour

\* The last writes are in a line.
LaterInv ==
  /\ later \in [DOMAIN remote -> SUBSET DOMAIN remote]
  /\ \A n \in DOMAIN remote : n \notin later[n]
  /\ \A n, k \in DOMAIN remote : n = k \/ n \in later[k] \/ k \in later[n]
  /\ \A n \in DOMAIN remote : \A k \in later[n] : later[k] \subseteq later[n]

\* It has made a file in the directory, and has neither failed nor cleaned up.
Making(a) ==
  \/ pc[a] \in {"dump", "list", "delete"}
  \/ pc[a] \in {"saveTime", "saveError"} /\ ~mem[a].failed

Makers == {a \in Agent : Making(a)}

\* As long as that is one at a time, it has its file open, and then the newest
\* file is whole and not to be deleted.
AloneInv ==
  ~overlap =>
    /\ \A a, b \in Makers : a = b
    /\ \A a \in Agent : pc[a] = "dump" => mine[a] \in DOMAIN remote /\ remote[mine[a]].body = "open"
    /\ \A a \in Makers : pc[a] # "dump" =>
         \E w \in DOMAIN remote :
           /\ remote[w].body = "whole" /\ later[w] = {}
           /\ pc[a] = "delete" => w \notin expired[a]

Cleaners == {a \in Agent : pc[a] = "delete"}

\* What some of those that clean up will leave.
Left(S) == DOMAIN remote \ UNION {expired[a] : a \in S}

\* It is what is to be kept, what the others are making, and what the failures
\* have left.
CountInv ==
  \A S \in SUBSET Cleaners :
    Cardinality(Left(S)) <= Retain + Cardinality(Makers \ S) + faults

\* The local file is short only after a failure, and then for one more.
LocalInv ==
  /\ local = "short" => faults >= 2 \/ \E a \in Agent : pc[a] = "discard"
  /\ (\E a \in Agent : pc[a] = "discard") => faults >= 1

BackupInv == TypeOK /\ GapInv /\ LaterInv /\ AloneInv /\ CountInv /\ LocalInv

-----------------------------------------------------------------------------
(***************************************************************************)
(* Lemmas about the operators.                                             *)
(***************************************************************************)

\* The scheduled time of today is not further away than the hour, and not a day ago.
LEMMA TodayIsNear ==
  ASSUME now \in Nat PROVE Today \in Nat /\ Today <= now + Hour /\ now < Today + Day
<1>1. (now \div Day) * Day <= now /\ now < (now \div Day) * Day + Day /\ (now \div Day) * Day \in Nat
  BY BackupAssumption
<1>. QED  BY <1>1, BackupAssumption DEF Today

\* nextRunTime is within a day.
LEMMA NextRunIsNear == ASSUME now \in Nat PROVE NextRun \in Nat /\ NextRun <= now + Day
BY TodayIsNear, BackupAssumption DEF NextRun

\* Unless shouldCatchUp, it is within a day and the hour of the last backup.
LEMMA NoCatchUp ==
  ASSUME now \in Nat, NEW m \in Status, ~CatchUp(m)
  PROVE  ~m.failed /\ NextRun - m.at <= Day + Hour
BY TodayIsNear, BackupAssumption DEF NextRun, CatchUp, Status

\* The names in use are finite, and 0 is in none of the directory's.
LEMMA NamesAreFinite ==
  ASSUME TypeOK
  PROVE  IsFiniteSet(DOMAIN remote) /\ DOMAIN remote \subseteq Nat \ {0}
<1>1. PICK m \in Nat : Within(m)
  BY DEF TypeOK
<1>2. IsFiniteSet(1 .. m)
  BY FS_Interval
<1>. QED  BY <1>1, <1>2, FS_Subset DEF Within

\* A new name is none that is in use.
LEMMA NewNameIsNew ==
  ASSUME TypeOK, NEW a \in Agent PROVE NewName \in Nat \ {0} /\ NewName \notin DOMAIN remote
<1>. DEFINE known == DOMAIN remote \union
                       UNION {expired[b] \union {0, mine[b], source[b].name} : b \in Agent}
            c == Cardinality(known)
<1>1. PICK m \in Nat : Within(m)
  BY DEF TypeOK
<1>2. known \subseteq 0 .. m
  BY <1>1 DEF Within
<1>3. IsFiniteSet(known) /\ c \in Nat
  <2>1. IsFiniteSet(0 .. m)
    BY FS_Interval
  <2>2. IsFiniteSet(known)
    BY <1>2, <2>1, FS_Subset
  <2>. QED  BY <2>2, FS_CardinalityType
<1>4. 0 \in known
  OBVIOUS
<1>5. \E n \in 1 .. c : n \notin known
  <2> SUFFICES ASSUME \A n \in 1 .. c : n \in known PROVE FALSE
    OBVIOUS
  <2>1. 0 .. c \subseteq known
    BY <1>3, <1>4
  <2>2. Cardinality(0 .. c) = c + 1
    BY <1>3, FS_Interval
  <2>3. Cardinality(0 .. c) <= c
    BY <1>3, <2>1, FS_Subset
  <2>. QED  BY <1>3, <2>2, <2>3
<1>6. NewName \in 1 .. c /\ NewName \notin known
  BY <1>5 DEF NewName
<1>. QED  BY <1>3, <1>6

\* What is written to is among the files, with what was written to it.
LEMMA PutType ==
  ASSUME Typed, NEW n, NEW f \in File, Put(n, f)
  PROVE  /\ DOMAIN remote' = DOMAIN remote \union {n} /\ remote' \in [DOMAIN remote' -> File]
         /\ remote'[n] = f /\ \A i \in DOMAIN remote \ {n} : remote'[i] = remote[i]
BY DEF Typed, Put

\* Closing a file makes none and loses none.
LEMMA CloseType ==
  ASSUME Typed, NEW a \in Agent, NEW body \in Content, Close(a, body)
  PROVE  /\ DOMAIN remote' = DOMAIN remote /\ remote' \in [DOMAIN remote -> File]
         /\ mine' = [mine EXCEPT ![a] = 0]
<1>1. CASE mine[a] \in DOMAIN remote
  <2>. DEFINE f == remote[mine[a]]
              g == [f EXCEPT !.at = now, !.body = IF f.body = "cut" THEN "cut" ELSE body]
  <2>1. Put(mine[a], g) /\ mine' = [mine EXCEPT ![a] = 0]
    BY <1>1 DEF Close
  <2>2. f \in File
    BY <1>1 DEF Typed
  <2>3. g \in File
    BY <2>2 DEF Typed, File
  <2>4. DOMAIN remote \union {mine[a]} = DOMAIN remote
    BY <1>1
  <2>. QED  BY <2>1, <2>3, <2>4, PutType
<1>2. CASE mine[a] \notin DOMAIN remote
  BY <1>2 DEF Close, Typed
<1>. QED  BY <1>1, <1>2

\* A step that makes one file at most keeps the names within bounds.
LEMMA StaysWithin ==
  ASSUME TypeOK, NEW n \in Nat \ {0}, DOMAIN remote' \subseteq DOMAIN remote \union {n},
         \A b \in Agent : /\ expired'[b] \subseteq expired[b] \union DOMAIN remote
                          /\ mine'[b] \in {mine[b], 0, n}
                          /\ source'[b].name \in {source[b].name, 0} \union DOMAIN remote
  PROVE  \E m \in Nat : Within(m)'
<1>1. PICK m \in Nat : Within(m)
  BY DEF TypeOK
<1>2. PICK k \in Nat : k >= m /\ k >= n
  <2>1. CASE m >= n
    BY <2>1
  <2>2. CASE n >= m
    BY <2>2
  <2>. QED  BY <2>1, <2>2
<1>3. 1 .. m \subseteq 1 .. k /\ 0 .. m \subseteq 0 .. k /\ n \in 1 .. k
  BY <1>2
<1>4. Within(k)'
  BY <1>1, <1>3 DEF Within
<1>. QED  BY <1>4

\* How the scheduler's loop goes on.
LEMMA WaitType ==
  ASSUME Typed, NEW s \in Server, Wait(s)
  PROVE  due' \in [Server -> Nat] /\ due'[s] = NextRun /\ Goto(s, "wait")
BY NextRunIsNear DEF Typed, Wait

\* The end of an attempt.
LEMMA AttemptedType ==
  ASSUME Typed, NEW a \in Agent, NEW failed \in BOOLEAN, Attempted(a, failed)
  PROVE  /\ mem' \in [Server -> Status]
         /\ \E to \in {"saveTime", "off", "list"} :
              Goto(a, to) /\ (to = "saveTime" => a \in Server)
BY DEF Typed, Attempted, Status

\* A place that a process goes to.
LEMMA GotoType ==
  ASSUME Typed, NEW a \in Agent, NEW to \in Places, Goto(a, to), to \in ServersPlaces => a \in Server
  PROVE  /\ pc' \in [Agent -> Places] /\ pc'[a] = to /\ \A b \in Agent \ {a} : pc'[b] = pc[b]
         /\ \A b \in Agent : pc'[b] \in ServersPlaces => b \in Server
BY DEF Typed, Goto

\* What is to be shown of a step that makes no file.
LEMMA TypeStep ==
  ASSUME TypeOK, NEW c \in Agent, NEW to \in Places, Goto(c, to), to \in ServersPlaces => c \in Server,
         now' \in Nat, faults' \in {faults, faults + 1}, overlap' \in BOOLEAN, local' \in Held,
         mem' \in [Server -> Status], saved' \in [Server -> Status], due' \in [Server -> Nat],
         remote' \in [DOMAIN remote' -> File], DOMAIN remote' \subseteq DOMAIN remote,
         mine' \in {mine, [mine EXCEPT ![c] = 0]}, to = "dump" \/ mine'[c] = 0,
         expired' \in [Agent -> SUBSET Nat],
         \A b \in Agent : expired'[b] \subseteq expired[b] \union DOMAIN remote,
         source' \in [Agent -> Source],
         \A b \in Agent : source'[b].name \in {source[b].name, 0} \union DOMAIN remote
  PROVE  TypeOK'
<1>1. Typed
  BY DEF TypeOK
<1>2. /\ pc' \in [Agent -> Places] /\ pc'[c] = to /\ \A b \in Agent \ {c} : pc'[b] = pc[b]
      /\ \A b \in Agent : pc'[b] \in ServersPlaces => b \in Server
  BY <1>1, GotoType
<1>3. mine' \in [Agent -> Nat] /\ \A b \in Agent : mine'[b] \in {mine[b], 0}
  BY <1>1 DEF Typed
<1>4. \A b \in Agent : pc'[b] # "dump" => mine'[b] = 0
  BY <1>1, <1>2, <1>3 DEF Typed
<1>5. faults' \in Nat
  BY <1>1 DEF Typed
<1>6. Typed'
  BY <1>2, <1>3, <1>4, <1>5 DEF Typed
<1>7. \E m \in Nat : Within(m)'
  <2>1. 1 \in Nat \ {0} /\ \A b \in Agent : mine'[b] \in {mine[b], 0, 1}
    BY <1>3
  <2>. QED  BY <2>1, StaysWithin
<1>. QED  BY <1>6, <1>7 DEF TypeOK

\* A step that leaves alone what names there are.
LEMMA QuietType ==
  ASSUME TypeOK, NEW c \in Agent, NEW to \in Places, Goto(c, to), to \in ServersPlaces => c \in Server,
         to # "dump", pc[c] # "dump",
         now' \in Nat, faults' \in {faults, faults + 1},
         mem' \in [Server -> Status], saved' \in [Server -> Status], due' \in [Server -> Nat],
         UNCHANGED <<remote, mine, expired, local, source, overlap>>
  PROVE  TypeOK'
<1>1. Typed /\ mine[c] = 0
  BY DEF TypeOK, Typed
<1>. QED  BY <1>1, TypeStep DEF Typed

\* Nothing is there at first.
LEMMA TypeInit == Init => TypeOK
<1> SUFFICES ASSUME Init PROVE TypeOK
  OBVIOUS
<1>1. DOMAIN remote = {}
  BY DEF Init
<1>2. Typed
  <2>1. remote \in [DOMAIN remote -> File] /\ local \in Held
    BY <1>1 DEF Init, Held, Content
  <2>2. Unknown \in Status /\ Nothing \in Source
    BY DEF Unknown, Status, Nothing, Source, Held
  <2>3. now \in Nat
    BY BackupAssumption DEF Init
  <2>. QED  BY <2>1, <2>2, <2>3 DEF Init, Typed, Places, ServersPlaces
<1>3. Within(0)
  BY <1>1 DEF Init, Within, Nothing
<1>. QED  BY <1>2, <1>3 DEF TypeOK

\* What a server knows when it has started.
LEMMA BootType ==
  ASSUME Typed, NEW a \in Agent, Boot(a)
  PROVE  \E m \in Status :
           /\ mem' = [mem EXCEPT ![a] = m] /\ faults' \in {faults, faults + 1}
           /\ IF CatchUp(m) THEN Goto(a, "connect") /\ UNCHANGED due ELSE Wait(a)
<1>1. Loaded(a) \in Status /\ Unknown \in Status
  BY DEF Boot, Typed, Status, Loaded, Unknown
<1>2. [Loaded(a) EXCEPT !.failed = FALSE] \in Status
  BY <1>1 DEF Status
<1>3. PICK m \in {Loaded(a), [Loaded(a) EXCEPT !.failed = FALSE], Unknown} :
        /\ mem' = [mem EXCEPT ![a] = m]
        /\ IF m = Loaded(a) THEN NoFault ELSE Fault
        /\ IF CatchUp(m) THEN Goto(a, "connect") /\ UNCHANGED due ELSE Wait(a)
  BY DEF Boot
<1>4. m \in Status /\ faults' \in {faults, faults + 1}
  BY <1>1, <1>2, <1>3 DEF Fault, NoFault
<1>. QED  BY <1>3, <1>4

\* The scheduler's steps, and the start of a command.
LEMMA SchedulerType ==
  ASSUME TypeOK, NEW a \in Agent,
         Boot(a) \/ Fire(a) \/ Command(a) \/ CreateFails(a) \/ SaveTime(a) \/ SaveError(a)
           \/ ListFails(a) \/ Cleaned(a)
  PROVE  TypeOK'
<1> USE DEF Places, ServersPlaces
<1>1. Typed
  BY DEF TypeOK
<1>2. CASE Boot(a)
  <2>1. a \in Server /\ pc[a] = "off" /\ UNCHANGED <<now, saved, remote, mine, expired, overlap, restoring>>
    BY <1>2 DEF Boot
  <2>2. PICK m \in Status :
          /\ mem' = [mem EXCEPT ![a] = m] /\ faults' \in {faults, faults + 1}
          /\ IF CatchUp(m) THEN Goto(a, "connect") /\ UNCHANGED due ELSE Wait(a)
    BY <1>1, <1>2, BootType
  <2>4. mem' \in [Server -> Status]
    BY <1>1, <2>2 DEF Typed
  <2>3. due' \in [Server -> Nat] /\ (Goto(a, "connect") \/ Goto(a, "wait"))
    BY <1>1, <2>1, <2>2, WaitType DEF Typed
  <2>. QED  BY <1>1, <2>1, <2>2, <2>3, <2>4, QuietType DEF restoring, Typed
<1>3. CASE Fire(a)
  BY <1>1, <1>3, QuietType DEF Fire, Typed, restoring
<1>4. CASE Command(a)
  BY <1>1, <1>4, QuietType DEF Command, Typed, restoring
<1>5. CASE CreateFails(a)
  <2>1. PICK to \in {"saveTime", "off", "list"} : Goto(a, to) /\ (to = "saveTime" => a \in Server)
    BY <1>1, <1>5, AttemptedType DEF CreateFails
  <2>2. mem' \in [Server -> Status]
    BY <1>1, <1>5, AttemptedType DEF CreateFails
  <2>. QED  BY <1>1, <1>5, <2>1, <2>2, QuietType DEF CreateFails, Fault, Typed, restoring
<1>6. CASE SaveTime(a)
  <2>1. a \in Server /\ pc[a] = "saveTime" /\ Goto(a, "saveError") /\ faults' \in {faults, faults + 1}
    BY <1>1, <1>6 DEF SaveTime, Typed, Fault, NoFault
  <2>2. saved' \in [Server -> Status]
    BY <1>1, <1>6, <2>1 DEF SaveTime, Typed, Status
  <2>. QED  BY <1>1, <1>6, <2>1, <2>2, QuietType DEF SaveTime, Typed, restoring
<1>7. CASE SaveError(a)
  <2>1. a \in Server /\ pc[a] = "saveError" /\ faults' \in {faults, faults + 1}
    BY <1>1, <1>7 DEF SaveError, Typed, Fault, NoFault
  <2>2. saved' \in [Server -> Status]
    BY <1>1, <1>7, <2>1 DEF SaveError, Typed, Status
  <2>3. due' \in [Server -> Nat] /\ (Goto(a, "wait") \/ Goto(a, "list"))
    BY <1>1, <1>7, <2>1, WaitType DEF SaveError, Typed
  <2>. QED  BY <1>1, <1>7, <2>1, <2>2, <2>3, QuietType DEF SaveError, Typed, restoring
<1>8. CASE ListFails(a) \/ Cleaned(a)
  <2>1. due' \in [Server -> Nat] /\ ((Goto(a, "wait") /\ a \in Server) \/ Goto(a, "off"))
    BY <1>1, <1>8, WaitType DEF ListFails, Cleaned, Through, Typed
  <2>2. faults' \in {faults, faults + 1} /\ pc[a] \in {"list", "delete"}
    BY <1>8 DEF ListFails, Cleaned, Fault
  <2>. QED  BY <1>1, <1>8, <2>1, <2>2, QuietType DEF ListFails, Cleaned, Typed, restoring
<1>. QED  BY <1>2, <1>3, <1>4, <1>5, <1>6, <1>7, <1>8

\* What a backup makes of the directory.
LEMMA DirectoryType ==
  ASSUME TypeOK, NEW a \in Agent,
         Create(a) \/ Progress(a) \/ Finish(a) \/ DumpFails(a) \/ List(a) \/ Delete(a)
  PROVE  TypeOK'
<1> USE DEF Places, ServersPlaces
<1>1. Typed /\ DOMAIN remote \subseteq Nat \ {0} /\ IsFiniteSet(DOMAIN remote)
  BY NamesAreFinite DEF TypeOK
<1>2. CASE Create(a)
  <2>. DEFINE new(body) == [of |-> ProjectOf[a], at |-> now, body |-> body]
  <2>1. PICK n \in Nat \ {0}, body \in {"open", "cut"} : mine' = [mine EXCEPT ![a] = n] /\ Put(n, new(body))
    BY <1>1, <1>2, NewNameIsNew DEF Create
  <2>2. new(body) \in File
    BY <1>1, <2>1 DEF Typed, File, Content
  <2>3. DOMAIN remote' = DOMAIN remote \union {n} /\ remote' \in [DOMAIN remote' -> File]
    BY <1>1, <2>1, <2>2, PutType
  <2>4. /\ pc[a] = "connect" /\ Goto(a, "dump") /\ overlap' \in BOOLEAN
        /\ UNCHANGED <<now, due, mem, saved, expired, faults, local, source>>
    BY <1>1, <1>2 DEF Create, restoring, Typed
  <2>5. /\ pc' \in [Agent -> Places] /\ pc'[a] = "dump" /\ \A b \in Agent \ {a} : pc'[b] = pc[b]
        /\ \A b \in Agent : pc'[b] \in ServersPlaces => b \in Server
    BY <1>1, <2>4, GotoType
  <2>6. mine' \in [Agent -> Nat] /\ \A b \in Agent : b # a => mine'[b] = mine[b]
    BY <1>1, <2>1 DEF Typed
  <2>7. Typed'
    BY <1>1, <2>3, <2>4, <2>5, <2>6 DEF Typed
  <2>8. \A b \in Agent : mine'[b] \in {mine[b], 0, n}
    BY <1>1, <2>1 DEF Typed
  <2>9. \E m \in Nat : Within(m)'
    BY <2>3, <2>4, <2>8, StaysWithin
  <2>. QED  BY <2>7, <2>9 DEF TypeOK
<1>3. CASE Progress(a)
  <2>1. pc[a] = "dump" /\ mine[a] \in DOMAIN remote /\ Put(mine[a], remote[mine[a]]) /\ UNCHANGED pc
    BY <1>3 DEF Progress
  <2>2. remote[mine[a]] \in File /\ DOMAIN remote \union {mine[a]} = DOMAIN remote
    BY <1>1, <2>1 DEF Typed
  <2>3. DOMAIN remote' = DOMAIN remote /\ remote' \in [DOMAIN remote' -> File]
    BY <1>1, <2>1, <2>2, PutType
  <2>4. Goto(a, "dump")
    BY <1>1, <2>1 DEF Goto, Typed
  <2>. QED  BY <1>1, <1>3, <2>3, <2>4, TypeStep DEF Progress, Typed, restoring
<1>4. CASE Finish(a) \/ DumpFails(a)
  <2>1. PICK body \in Content : Close(a, body)
    BY <1>4 DEF Finish, DumpFails, Content
  <2>2. /\ DOMAIN remote' = DOMAIN remote /\ remote' \in [DOMAIN remote -> File]
        /\ mine' = [mine EXCEPT ![a] = 0]
    BY <1>1, <2>1, CloseType
  <2>3. PICK failed \in BOOLEAN : Attempted(a, failed)
    BY <1>4 DEF Finish, DumpFails
  <2>4. mem' \in [Server -> Status]
    BY <1>1, <2>3, AttemptedType
  <2>5. PICK to \in {"saveTime", "off", "list"} : Goto(a, to) /\ (to = "saveTime" => a \in Server)
    BY <1>1, <2>3, AttemptedType
  <2>6. faults' \in {faults, faults + 1} /\ UNCHANGED <<now, due, saved, expired, overlap, local, source>>
    BY <1>4 DEF Finish, DumpFails, Fault, restoring
  <2>7. mine'[a] = 0
    BY <1>1, <2>2 DEF Typed
  <2>. QED  BY <1>1, <2>2, <2>4, <2>5, <2>6, <2>7, TypeStep DEF Typed
<1>5. CASE List(a)
  <2>1. expired' = [expired EXCEPT ![a] = {}] \/ expired' = [expired EXCEPT ![a] = DOMAIN remote \ Newest(Retain)]
    BY <1>5 DEF List
  <2>2. /\ expired' \in [Agent -> SUBSET Nat]
        /\ \A b \in Agent : expired'[b] \subseteq expired[b] \union DOMAIN remote
    BY <1>1, <2>1 DEF Typed
  <2>3. mine[a] = 0
    BY <1>1, <1>5 DEF Typed, List
  <2>. QED  BY <1>1, <1>5, <2>2, <2>3, TypeStep DEF List, Typed, restoring
<1>6. CASE Delete(a)
  <2>1. PICK n \in expired[a] :
          /\ expired' = [expired EXCEPT ![a] = @ \ {n}]
          /\ \/ NoFault /\ remote' = [i \in DOMAIN remote \ {n} |-> remote[i]]
             \/ Fault /\ UNCHANGED remote
    BY <1>6 DEF Delete
  <2>2. /\ expired' \in [Agent -> SUBSET Nat]
        /\ \A b \in Agent : expired'[b] \subseteq expired[b] \union DOMAIN remote
    BY <1>1, <2>1 DEF Typed
  <2>3. remote' \in [DOMAIN remote' -> File] /\ DOMAIN remote' \subseteq DOMAIN remote
    BY <1>1, <2>1 DEF Typed
  <2>4. mine[a] = 0 /\ Goto(a, "delete")
    BY <1>1, <1>6 DEF Typed, Delete, Goto
  <2>5. faults' \in {faults, faults + 1}
    BY <2>1 DEF Fault, NoFault
  <2>. QED  BY <1>1, <1>6, <2>2, <2>3, <2>4, <2>5, TypeStep DEF Delete, Typed, restoring
<1>. QED  BY <1>2, <1>3, <1>4, <1>5, <1>6

\* What the commands that leave the directory alone do.
Aside(a) ==
  \/ BackupLocal(a) \/ LocalDone(a) \/ LocalFails(a) \/ Discard(a)
  \/ RestoreLatest(a) \/ RestoreNamed(a) \/ FindLatest(a) \/ Open(a)
  \/ RestoreLocal(a) \/ Restore(a)

\* They come and go between places where nothing is made in the directory.
LEMMA AsideIsCalm ==
  ASSUME Typed, NEW a \in Agent, Aside(a)
  PROVE  /\ UNCHANGED uploading /\ faults' \in {faults, faults + 1} /\ pc[a] \in Calm
         /\ \E to \in Calm : Goto(a, to)
<1> USE DEF Calm
<1>1. UNCHANGED pc /\ pc[a] = "off" => Goto(a, "off")
  BY DEF Goto, Typed
<1>2. CASE BackupLocal(a) \/ LocalDone(a) \/ LocalFails(a) \/ Discard(a)
  BY <1>1, <1>2 DEF BackupLocal, LocalDone, LocalFails, Discard, Free, Fault, NoFault
<1>3. CASE RestoreLatest(a) \/ RestoreNamed(a) \/ FindLatest(a)
  BY <1>1, <1>3 DEF RestoreLatest, RestoreNamed, FindLatest, Free, Fault, NoFault
<1>4. CASE Open(a) \/ RestoreLocal(a) \/ Restore(a)
  BY <1>1, <1>4 DEF Open, RestoreLocal, Restore, Free, Fault, NoFault
<1>. QED  BY <1>2, <1>3, <1>4 DEF Aside

\* And what they keep is of its type.
LEMMA AsideType ==
  ASSUME TypeOK, NEW a \in Agent, Aside(a) PROVE TypeOK'
<1> USE DEF Places, ServersPlaces, Calm
<1>1. Typed /\ DOMAIN remote \subseteq Nat
  BY NamesAreFinite DEF TypeOK
<1>2. PICK to \in Calm : Goto(a, to)
  BY <1>1, AsideIsCalm
<1>3. UNCHANGED uploading /\ faults' \in {faults, faults + 1} /\ mine[a] = 0
  BY <1>1, AsideIsCalm DEF Typed
<1>4. local' \in Held
  BY <1>1 DEF Aside, BackupLocal, LocalDone, LocalFails, Discard, RestoreLatest, RestoreNamed,
              FindLatest, Open, RestoreLocal, Restore, Written, Typed, Held, Content, restoring
<1>5. /\ source' \in [Agent -> Source]
      /\ \A b \in Agent : source'[b].name \in {source[b].name, 0} \union DOMAIN remote
  <2>1. CASE UNCHANGED source
    BY <1>1, <2>1 DEF Typed
  <2>2. CASE source' = [source EXCEPT ![a] = Nothing]
    BY <1>1, <2>2 DEF Typed, Nothing, Source, Held
  <2>3. CASE \E n \in DOMAIN remote : source' = [source EXCEPT ![a] = [name |-> n, body |-> "open"]]
    <3>1. PICK n \in DOMAIN remote : source' = [source EXCEPT ![a] = [name |-> n, body |-> "open"]]
      BY <2>3
    <3>2. [name |-> n, body |-> "open"] \in Source
      BY <1>1, <3>1 DEF Source, Held, Content
    <3>. QED  BY <1>1, <3>1, <3>2 DEF Typed
  <2>4. CASE source[a].name \in DOMAIN remote
             /\ source' = [source EXCEPT ![a].body = remote[source[a].name].body]
    <3>1. source[a] \in Source /\ remote[source[a].name].body \in Held
      BY <1>1, <2>4 DEF Typed, File, Held
    <3>2. [source[a] EXCEPT !.body = remote[source[a].name].body] \in Source
      BY <3>1 DEF Source
    <3>3. source' = [source EXCEPT ![a] = [source[a] EXCEPT !.body = remote[source[a].name].body]]
      BY <2>4
    <3>4. [source[a] EXCEPT !.body = remote[source[a].name].body].name = source[a].name
      BY <3>1 DEF Source
    <3>. QED  BY <1>1, <3>2, <3>3, <3>4 DEF Typed
  <2>5. CASE source' = [source EXCEPT ![a] = [name |-> 0, body |-> local]]
    BY <1>1, <2>5 DEF Typed, Source, Held
  <2>6. Newest(1) \subseteq DOMAIN remote
    BY DEF Newest
  <2>7. CASE BackupLocal(a) \/ LocalDone(a) \/ LocalFails(a) \/ Discard(a) \/ RestoreLatest(a)
    BY <2>1, <2>7 DEF BackupLocal, LocalDone, LocalFails, Discard, RestoreLatest, restoring
  <2>8. CASE RestoreNamed(a) \/ FindLatest(a)
    BY <2>1, <2>3, <2>6, <2>8 DEF RestoreNamed, FindLatest
  <2>9. CASE Open(a) \/ RestoreLocal(a) \/ Restore(a)
    BY <2>1, <2>2, <2>4, <2>5, <2>9 DEF Open, RestoreLocal, Restore
  <2>. QED  BY <2>7, <2>8, <2>9 DEF Aside
<1>. QED  BY <1>1, <1>2, <1>3, <1>4, <1>5, TypeStep DEF Typed, uploading

\* And so is what is left of a process that dies.
LEMMA CrashType ==
  ASSUME TypeOK, NEW a \in Agent, Crash(a) PROVE TypeOK'
<1> USE DEF Places, ServersPlaces
<1>1. Typed
  BY DEF TypeOK
<1>2. /\ Goto(a, "off") /\ faults' = faults + 1
      /\ UNCHANGED <<now, saved, overlap>>
      /\ local' = IF pc[a] = "dumpLocal" THEN Written("cut") ELSE local
      /\ source' = [source EXCEPT ![a] = Nothing]
      /\ expired' = [expired EXCEPT ![a] = {}]
      /\ mem' = [s \in Server |-> IF s = a THEN Unknown ELSE mem[s]]
      /\ due' = [s \in Server |-> IF s = a THEN 0 ELSE due[s]]
  BY DEF Crash, Fault
<1>3. PICK body \in Content : Close(a, body)
  <2>1. "cut" \in Content /\ "whole" \in Content
    BY DEF Content
  <2>. QED  BY <2>1 DEF Crash
<1>4. /\ DOMAIN remote' = DOMAIN remote /\ remote' \in [DOMAIN remote -> File]
      /\ mine' = [mine EXCEPT ![a] = 0]
  BY <1>1, <1>3, CloseType
<1>5. mine'[a] = 0
  BY <1>1, <1>4 DEF Typed
<1>6. local' \in Held
  BY <1>1, <1>2 DEF Written, Typed, Held, Content
<1>7. /\ source' \in [Agent -> Source]
      /\ \A b \in Agent : source'[b].name \in {source[b].name, 0} \union DOMAIN remote
  BY <1>1, <1>2 DEF Typed, Nothing, Source, Held
<1>8. /\ expired' \in [Agent -> SUBSET Nat]
      /\ \A b \in Agent : expired'[b] \subseteq expired[b] \union DOMAIN remote
  BY <1>1, <1>2 DEF Typed
<1>9. mem' \in [Server -> Status] /\ due' \in [Server -> Nat]
  BY <1>1, <1>2 DEF Typed, Unknown, Status
<1>. QED  BY <1>1, <1>2, <1>4, <1>5, <1>6, <1>7, <1>8, <1>9, TypeStep DEF Typed

\* A step keeps the types.
LEMMA TypeNext == TypeOK /\ [Next]_vars => TypeOK'
<1> SUFFICES ASSUME TypeOK, [Next]_vars PROVE TypeOK'
  OBVIOUS
<1>1. CASE UNCHANGED vars
  BY <1>1 DEF TypeOK, Typed, Within, vars
<1>2. CASE Tick
  BY <1>2 DEF TypeOK, Typed, Within, Tick, restoring
<1>3. ASSUME NEW a \in Agent,
             \/ Boot(a) \/ Fire(a) \/ Command(a)
             \/ Create(a) \/ CreateFails(a) \/ Progress(a) \/ Finish(a) \/ DumpFails(a)
             \/ SaveTime(a) \/ SaveError(a)
             \/ List(a) \/ ListFails(a) \/ Delete(a) \/ Cleaned(a)
             \/ Aside(a)
             \/ Crash(a)
      PROVE  TypeOK'
  BY <1>3, SchedulerType, DirectoryType, AsideType, CrashType
<1>. QED  BY <1>1, <1>2, <1>3 DEF Next, Aside

-----------------------------------------------------------------------------
(***************************************************************************)
(* Backups are never far apart.                                            *)
(***************************************************************************)

\* A server's part of GapInv.
Gap(s) ==
  /\ pc[s] \in {"saveTime", "saveError", "list", "delete"} => mem[s].at = now
  /\ pc[s] = "wait" /\ ~mem[s].failed => due[s] - mem[s].at <= Day + Hour

\* It is up to the one that moves.
LEMMA GapStep ==
  ASSUME Typed, GapInv, NEW a \in Agent, NEW to, Goto(a, to), now' = now,
         \A s \in Server \ {a} : mem'[s] = mem[s] /\ due'[s] = due[s],
         a \in Server => Gap(a)'
  PROVE  GapInv'
<1>1. \A s \in Server \ {a} : pc'[s] = pc[s]
  BY BackupAssumption DEF Goto, Typed
<1>2. \A s \in Server \ {a} : Gap(s)'
  BY <1>1 DEF GapInv, Gap
<1>. QED  BY <1>2 DEF GapInv, Gap

\* Whoever is on its way into a calm place has no part in it.
LEMMA GapElsewhere ==
  ASSUME Typed, GapInv, NEW a \in Agent, NEW to \in Calm \union {"connect", "dump"}, Goto(a, to),
         UNCHANGED <<now, mem>>, \A s \in Server \ {a} : due'[s] = due[s]
  PROVE  GapInv'
<1>1. pc'[a] = to
  BY DEF Goto, Typed
<1>2. Gap(a)'
  BY <1>1 DEF Gap, Calm
<1>. QED  BY <1>2, GapStep

\* The wait for the next backup, from a place where the last one is of now.
LEMMA GapWait ==
  ASSUME Typed, GapInv, NEW a \in Server, Wait(a), UNCHANGED <<now, mem>>,
         ~mem[a].failed => NextRun - mem[a].at <= Day + Hour
  PROVE  GapInv'
<1>1. pc'[a] = "wait" /\ due'[a] = NextRun /\ \A s \in Server \ {a} : due'[s] = due[s]
  BY BackupAssumption DEF Wait, Goto, Typed
<1>2. Gap(a)'
  BY <1>1 DEF Gap
<1>. QED  BY <1>1, <1>2, GapStep, BackupAssumption DEF Wait

\* A step keeps the gaps.
LEMMA GapNext == TypeOK /\ GapInv /\ [Next]_vars => GapInv'
<1> SUFFICES ASSUME TypeOK, GapInv, [Next]_vars PROVE GapInv'
  OBVIOUS
<1>. USE DEF Calm
<1>0. Typed /\ Server \subseteq Agent
  BY BackupAssumption DEF TypeOK
<1>1. CASE UNCHANGED vars
  BY <1>1 DEF GapInv, vars
<1>2. CASE Tick
  BY <1>0, <1>2 DEF GapInv, Tick
<1>3. ASSUME NEW a \in Agent, Boot(a) PROVE GapInv'
  <2>1. a \in Server /\ pc[a] = "off" /\ now' = now
    BY <1>3 DEF Boot
  <2>2. PICK m \in Status :
          /\ mem' = [mem EXCEPT ![a] = m]
          /\ IF CatchUp(m) THEN Goto(a, "connect") /\ UNCHANGED due ELSE Wait(a)
    BY <1>0, <1>3, BootType
  <2>3. mem'[a] = m /\ \A s \in Server \ {a} : mem'[s] = mem[s]
    BY <1>0, <2>1, <2>2 DEF Typed
  <2>4. CASE CatchUp(m)
    <3>1. Goto(a, "connect") /\ UNCHANGED due /\ pc'[a] = "connect"
      BY <1>0, <2>2, <2>4 DEF Goto, Typed
    <3>. QED  BY <1>0, <2>1, <2>3, <3>1, GapStep DEF Gap
  <2>5. CASE ~CatchUp(m)
    <3>1. pc'[a] = "wait" /\ due'[a] = NextRun /\ \A s \in Server \ {a} : due'[s] = due[s]
      BY <1>0, <2>1, <2>2, <2>5 DEF Wait, Goto, Typed
    <3>2. NextRun - m.at <= Day + Hour
      BY <1>0, <2>2, <2>5, NoCatchUp DEF Typed
    <3>3. Goto(a, "wait") /\ Gap(a)'
      BY <2>2, <2>3, <2>5, <3>1, <3>2 DEF Gap, Wait
    <3>. QED  BY <1>0, <2>1, <2>3, <3>1, <3>3, GapStep
  <2>. QED  BY <2>4, <2>5
<1>4. ASSUME NEW a \in Agent, Fire(a) \/ Command(a) \/ Create(a) PROVE GapInv'
  BY <1>0, <1>4, GapElsewhere DEF Fire, Command, Create, Typed
<1>5. ASSUME NEW a \in Agent, CreateFails(a) \/ Finish(a) \/ DumpFails(a) PROVE GapInv'
  <2>1. PICK failed \in BOOLEAN : Attempted(a, failed)
    BY <1>5 DEF CreateFails, Finish, DumpFails
  <2>2. UNCHANGED <<now, due>>
    BY <1>5 DEF CreateFails, Finish, DumpFails
  <2>3. CASE a \in Server
    <3>1. mem' = [mem EXCEPT ![a] = [at |-> now, failed |-> failed]] /\ Goto(a, "saveTime")
      BY <2>1, <2>3 DEF Attempted
    <3>2. mem'[a].at = now /\ pc'[a] = "saveTime" /\ \A s \in Server \ {a} : mem'[s] = mem[s]
      BY <1>0, <2>3, <3>1 DEF Goto, Typed
    <3>. QED  BY <1>0, <2>2, <3>1, <3>2, GapStep DEF Gap
  <2>4. CASE a \notin Server
    <3>1. UNCHANGED mem /\ \E to : Goto(a, to)
      BY <2>1, <2>4 DEF Attempted
    <3>. QED  BY <1>0, <2>2, <2>4, <3>1, GapStep
  <2>. QED  BY <2>3, <2>4
<1>6. ASSUME NEW a \in Agent, SaveTime(a) \/ List(a) PROVE GapInv'
  <2>1. UNCHANGED <<now, due, mem>> /\ pc[a] \in {"saveTime", "list"} /\ Goto(a, IF pc[a] = "list" THEN "delete" ELSE "saveError")
    BY <1>6 DEF SaveTime, List
  <2>2. pc'[a] \in {"saveError", "delete"}
    BY <1>0, <2>1 DEF Goto, Typed
  <2>3. a \in Server => Gap(a)'
    BY <2>1, <2>2 DEF Gap, GapInv
  <2>. QED  BY <1>0, <2>1, <2>3, GapStep
<1>7. ASSUME NEW a \in Agent, SaveError(a) \/ ListFails(a) \/ Cleaned(a) PROVE GapInv'
  <2>1. UNCHANGED <<now, mem>> /\ pc[a] \in {"saveError", "list", "delete"}
    BY <1>7 DEF SaveError, ListFails, Cleaned
  <2>2. CASE a \in Server /\ Wait(a)
    <3>1. mem[a].at = now /\ mem[a] \in Status
      BY <1>0, <2>1, <2>2 DEF GapInv, Typed
    <3>2. NextRun - mem[a].at <= Day + Hour
      BY <1>0, <3>1, NextRunIsNear, BackupAssumption DEF Typed, Status
    <3>. QED  BY <1>0, <2>1, <2>2, <3>2, GapWait
  <2>3. CASE a \in Server /\ Goto(a, "list") /\ UNCHANGED due
    <3>1. pc'[a] = "list"
      BY <1>0, <2>3 DEF Goto, Typed
    <3>2. Gap(a)'
      BY <2>1, <2>3, <3>1 DEF Gap, GapInv
    <3>. QED  BY <1>0, <2>1, <2>3, <3>2, GapStep
  <2>4. CASE Goto(a, "off") /\ UNCHANGED due
    BY <1>0, <2>1, <2>4, GapElsewhere
  <2>5. SaveError(a) => a \in Server
    BY <1>0 DEF SaveError, Typed, ServersPlaces
  <2>. QED  BY <1>7, <2>2, <2>3, <2>4, <2>5 DEF SaveError, ListFails, Cleaned, Through
<1>8. ASSUME NEW a \in Agent, Progress(a) \/ Delete(a) PROVE GapInv'
  BY <1>8 DEF Progress, Delete, GapInv
<1>9. ASSUME NEW a \in Agent, Aside(a) PROVE GapInv'
  <2>1. UNCHANGED uploading /\ \E to \in Calm : Goto(a, to)
    BY <1>0, <1>9, AsideIsCalm
  <2>. QED  BY <1>0, <2>1, GapElsewhere DEF uploading
<1>10. ASSUME NEW a \in Agent, Crash(a) PROVE GapInv'
  <2>1. Goto(a, "off") /\ now' = now /\ \A s \in Server \ {a} : mem'[s] = mem[s] /\ due'[s] = due[s]
    BY <1>10 DEF Crash
  <2>2. pc'[a] = "off"
    BY <1>0, <2>1 DEF Goto, Typed
  <2>. QED  BY <1>0, <2>1, <2>2, GapStep DEF Gap
<1>. QED  BY <1>1, <1>2, <1>3, <1>4, <1>5, <1>6, <1>7, <1>8, <1>9, <1>10 DEF Next, Aside

-----------------------------------------------------------------------------
(***************************************************************************)
(* The last writes are in a line.                                          *)
(***************************************************************************)

\* What is written to comes last.
LEMMA PutLater ==
  ASSUME LaterInv, NEW n, NEW f, Put(n, f)
  PROVE  LaterInv' /\ later'[n] = {} /\ \A i \in DOMAIN remote \ {n} : later'[i] = later[i] \union {n}
<1>1. DOMAIN remote' = DOMAIN remote \union {n}
  BY DEF Put
<1>2. later'[n] = {} /\ \A i \in DOMAIN remote \ {n} : later'[i] = later[i] \union {n}
  BY DEF Put
<1>3. later' \in [DOMAIN remote' -> SUBSET DOMAIN remote']
  BY <1>1 DEF Put, LaterInv
<1>4. \A i \in DOMAIN remote' : i \notin later'[i]
  BY <1>1, <1>2 DEF LaterInv
<1>5. \A i, k \in DOMAIN remote' : i = k \/ i \in later'[k] \/ k \in later'[i]
  BY <1>1, <1>2 DEF LaterInv
<1>6. \A i \in DOMAIN remote' : \A k \in later'[i] : later'[k] \subseteq later'[i]
  BY <1>1, <1>2 DEF LaterInv
<1>. QED  BY <1>2, <1>3, <1>4, <1>5, <1>6 DEF LaterInv

\* Closing a file may write to it.
LEMMA CloseLater ==
  ASSUME LaterInv, NEW a \in Agent, NEW body, Close(a, body) PROVE LaterInv'
<1>1. CASE mine[a] \in DOMAIN remote
  <2>1. \E f : Put(mine[a], f)
    BY <1>1 DEF Close
  <2>. QED  BY <2>1, PutLater
<1>2. CASE mine[a] \notin DOMAIN remote
  BY <1>2 DEF Close, LaterInv
<1>. QED  BY <1>1, <1>2

\* A deleted file leaves the line.
LEMMA DeleteLater ==
  ASSUME LaterInv, NEW n, remote' = [i \in DOMAIN remote \ {n} |-> remote[i]],
         later' = [i \in DOMAIN remote \ {n} |-> later[i] \ {n}]
  PROVE  LaterInv'
<1>1. DOMAIN remote' = DOMAIN remote \ {n} /\ \A i \in DOMAIN remote \ {n} : later'[i] = later[i] \ {n}
  OBVIOUS
<1>2. later' \in [DOMAIN remote' -> SUBSET DOMAIN remote']
  BY <1>1 DEF LaterInv
<1>. QED  BY <1>1, <1>2 DEF LaterInv

\* A step keeps the line.
LEMMA LaterNext == TypeOK /\ LaterInv /\ [Next]_vars => LaterInv'
<1> SUFFICES ASSUME TypeOK, LaterInv, [Next]_vars PROVE LaterInv'
  OBVIOUS
<1>0. Typed
  BY DEF TypeOK
<1>1. CASE UNCHANGED <<remote, later>>
  BY <1>1 DEF LaterInv
<1>2. ASSUME NEW a \in Agent, Create(a) \/ Progress(a) PROVE LaterInv'
  <2>1. \E n, f : Put(n, f)
    BY <1>2 DEF Create, Progress
  <2>. QED  BY <2>1, PutLater
<1>3. ASSUME NEW a \in Agent, Finish(a) \/ DumpFails(a) \/ Crash(a) PROVE LaterInv'
  <2>1. \E body : Close(a, body)
    BY <1>3 DEF Finish, DumpFails, Crash
  <2>. QED  BY <2>1, CloseLater
<1>4. ASSUME NEW a \in Agent, Delete(a) PROVE LaterInv'
  <2>1. PICK n \in expired[a] :
          \/ /\ remote' = [i \in DOMAIN remote \ {n} |-> remote[i]]
             /\ later' = [i \in DOMAIN remote \ {n} |-> later[i] \ {n}]
          \/ UNCHANGED <<remote, later>>
    BY <1>4 DEF Delete
  <2>. QED  BY <1>1, <2>1, DeleteLater
<1>5. ASSUME NEW a \in Agent,
             \/ Boot(a) \/ Fire(a) \/ Command(a) \/ CreateFails(a)
             \/ SaveTime(a) \/ SaveError(a) \/ List(a) \/ ListFails(a) \/ Cleaned(a)
      PROVE  UNCHANGED <<remote, later>>
  BY <1>5 DEF Boot, Fire, Command, CreateFails, SaveTime, SaveError, List, ListFails, Cleaned
<1>6. ASSUME NEW a \in Agent, Aside(a) PROVE UNCHANGED <<remote, later>>
  BY <1>0, <1>6, AsideIsCalm DEF uploading
<1>7. Tick \/ UNCHANGED vars => UNCHANGED <<remote, later>>
  BY DEF Tick, vars
<1>. QED  BY <1>1, <1>2, <1>3, <1>4, <1>5, <1>6, <1>7 DEF Next, Aside

-----------------------------------------------------------------------------
(***************************************************************************)
(* What a single failure leaves at the path of a local backup.             *)
(***************************************************************************)

\* A step that is not about the local file, and of nobody who is to remove it.
LEMMA LocalStep ==
  ASSUME Typed, LocalInv, NEW a \in Agent, NEW to, to # "discard", Goto(a, to), pc[a] # "discard",
         local' \in {local, "none", "open", "whole", "cut"}, faults' \in {faults, faults + 1}
  PROVE  LocalInv'
<1>1. \A b \in Agent : pc'[b] = "discard" <=> pc[b] = "discard"
  BY DEF Goto, Typed
<1>2. faults \in Nat /\ faults' \in Nat /\ faults' >= faults
  BY DEF Typed
<1>3. (\E b \in Agent : pc'[b] = "discard") <=> (\E b \in Agent : pc[b] = "discard")
  BY <1>1
<1>4. local' = "short" => local = "short"
  OBVIOUS
<1>. QED  BY <1>2, <1>3, <1>4 DEF LocalInv

\* A step keeps the local file's part.
LEMMA LocalNext == TypeOK /\ LocalInv /\ [Next]_vars => LocalInv'
<1> SUFFICES ASSUME TypeOK, LocalInv, [Next]_vars PROVE LocalInv'
  OBVIOUS
<1>0. Typed /\ faults \in Nat
  BY DEF TypeOK, Typed
<1>1. CASE Tick \/ UNCHANGED vars
  BY <1>1 DEF LocalInv, Tick, vars, restoring
<1>2. ASSUME NEW a \in Agent, Progress(a) \/ Delete(a) PROVE LocalInv'
  <2>1. UNCHANGED <<pc, local>> /\ faults' \in {faults, faults + 1}
    BY <1>2 DEF Progress, Delete, Fault, NoFault, restoring
  <2>. QED  BY <1>0, <2>1 DEF LocalInv
<1>3. ASSUME NEW a \in Agent,
             \/ Boot(a) \/ Fire(a) \/ Command(a) \/ Create(a) \/ CreateFails(a) \/ Finish(a) \/ DumpFails(a)
             \/ SaveTime(a) \/ SaveError(a) \/ List(a) \/ ListFails(a) \/ Cleaned(a)
      PROVE  LocalInv'
  <2>1. pc[a] # "discard" /\ UNCHANGED local /\ faults' \in {faults, faults + 1}
    BY <1>3 DEF Boot, Fire, Command, Create, CreateFails, Finish, DumpFails, SaveTime, SaveError,
                List, ListFails, Cleaned, Fault, NoFault, restoring
  <2>2. \E to \in Places \ {"discard"} : Goto(a, to)
    BY <1>3 DEF Boot, Fire, Command, Create, CreateFails, Finish, DumpFails, SaveTime, SaveError,
                List, ListFails, Cleaned, Attempted, Through, Wait, Places
  <2>. QED  BY <1>0, <2>1, <2>2, LocalStep
<1>4. ASSUME NEW a \in Agent, Aside(a), ~Discard(a), ~LocalFails(a) PROVE LocalInv'
  <2>1. pc[a] # "discard" /\ faults' \in {faults, faults + 1}
    BY <1>0, <1>4, AsideIsCalm DEF Aside, BackupLocal, LocalDone, RestoreLatest, RestoreNamed, FindLatest,
                                  Open, RestoreLocal, Restore, Free
  <2>2. local' \in {local, "none", "open", "whole", "cut"}
    BY <1>4 DEF Aside, BackupLocal, LocalDone, RestoreLatest, RestoreNamed, FindLatest, Open,
                RestoreLocal, Restore, Written, restoring
  <2>3. \E to \in Places \ {"discard"} : Goto(a, to)
    <3>1. UNCHANGED pc => Goto(a, pc[a]) /\ pc[a] \in Places \ {"discard"}
      BY <1>0, <2>1 DEF Typed, Goto
    <3>2. CASE BackupLocal(a) \/ LocalDone(a) \/ RestoreLatest(a) \/ RestoreNamed(a)
      BY <3>1, <3>2 DEF BackupLocal, LocalDone, RestoreLatest, RestoreNamed, Places
    <3>3. CASE FindLatest(a) \/ Open(a) \/ RestoreLocal(a) \/ Restore(a)
      BY <3>1, <3>3 DEF FindLatest, Open, RestoreLocal, Restore, Places
    <3>. QED  BY <1>4, <3>2, <3>3 DEF Aside
  <2>. QED  BY <1>0, <2>1, <2>2, <2>3, LocalStep
<1>5. ASSUME NEW a \in Agent, LocalFails(a) PROVE LocalInv'
  <2>1. faults' = faults + 1 /\ pc'[a] = "discard"
    BY <1>0, <1>5 DEF LocalFails, Fault, Goto, Typed
  <2>. QED  BY <1>0, <2>1 DEF LocalInv
<1>6. ASSUME NEW a \in Agent, Discard(a) PROVE LocalInv'
  <2>1. faults >= 1 /\ \A b \in Agent : pc'[b] = "discard" => pc[b] = "discard"
    BY <1>0, <1>6 DEF Discard, LocalInv, Goto, Typed
  <2>2. (faults' = faults /\ local' = "none") \/ faults' = faults + 1
    BY <1>6 DEF Discard, Fault, NoFault
  <2>. QED  BY <1>0, <2>1, <2>2 DEF LocalInv
<1>7. ASSUME NEW a \in Agent, Crash(a) PROVE LocalInv'
  <2>1. /\ Goto(a, "off") /\ faults' = faults + 1
        /\ local' \in {local, "none", "cut"}
    BY <1>7 DEF Crash, Fault, Written
  <2>2. CASE pc[a] = "discard"
    <3>1. faults' >= 2
      BY <1>0, <2>1, <2>2 DEF LocalInv
    <3>. QED  BY <1>0, <2>1, <3>1 DEF LocalInv
  <2>3. CASE pc[a] # "discard"
    BY <1>0, <2>1, <2>3, LocalStep
  <2>. QED  BY <2>2, <2>3
<1>. QED  BY <1>1, <1>2, <1>3, <1>4, <1>5, <1>6, <1>7 DEF Next, Aside

-----------------------------------------------------------------------------
(***************************************************************************)
(* The newest whole backup stays.                                          *)
(***************************************************************************)

\* The part of AloneInv of the one that is making a backup.
Own(a) ==
  /\ pc[a] = "dump" => mine[a] \in DOMAIN remote /\ remote[mine[a]].body = "open"
  /\ Making(a) /\ pc[a] # "dump" =>
       \E w \in DOMAIN remote :
         /\ remote[w].body = "whole" /\ later[w] = {}
         /\ pc[a] = "delete" => w \notin expired[a]

\* Who makes a backup is up to the one that moves.
LEMMA MakersStep ==
  ASSUME Typed, NEW a \in Agent, NEW to, Goto(a, to), \A s \in Server \ {a} : mem'[s] = mem[s]
  PROVE  pc'[a] = to /\ \A b \in Agent \ {a} : pc'[b] = pc[b] /\ (Making(b)' <=> Making(b))
<1>1. pc'[a] = to /\ \A b \in Agent \ {a} : pc'[b] = pc[b]
  BY DEF Goto, Typed
<1>2. \A b \in Agent \ {a} : pc[b] \in ServersPlaces => mem'[b] = mem[b]
  BY DEF Typed
<1>. QED  BY <1>1, <1>2 DEF Making, ServersPlaces

\* With one of them only, its part is all there is.
LEMMA AloneOne ==
  ASSUME NEW a \in Agent, \A b \in Agent \ {a} : ~Making(b)', Own(a)' PROVE AloneInv'
<1>1. \A b \in Agent \ {a} : pc'[b] # "dump"
  BY DEF Making
<1>2. \A b \in Makers' : b = a
  BY DEF Makers
<1>3. a \in Makers' => Making(a)'
  BY DEF Makers
<1>. QED  BY <1>1, <1>2, <1>3 DEF AloneInv, Own

\* A step that leaves the directory alone, and does not go on with a dump.
LEMMA AloneQuiet ==
  ASSUME Typed, AloneInv, NEW a \in Agent, NEW to \in Places \ {"dump", "delete"}, Goto(a, to),
         \A s \in Server \ {a} : mem'[s] = mem[s],
         UNCHANGED <<remote, later, overlap>>,
         \A b \in Agent \ {a} : mine'[b] = mine[b] /\ expired'[b] = expired[b],
         Making(a)' => Making(a) /\ pc[a] # "dump"
  PROVE  AloneInv'
<1> SUFFICES ASSUME ~overlap' PROVE AloneInv'
  BY DEF AloneInv
<1>1. pc'[a] = to /\ \A b \in Agent \ {a} : pc'[b] = pc[b] /\ (Making(b)' <=> Making(b))
  BY MakersStep
<1>2. Makers' \subseteq Makers
  BY <1>1 DEF Makers
<1>3. \A b, c \in Makers' : b = c
  BY <1>2 DEF AloneInv
<1>4. \A b \in Agent : pc'[b] = "dump" => mine'[b] \in DOMAIN remote' /\ remote'[mine'[b]].body = "open"
  BY <1>1 DEF AloneInv
<1>5. ASSUME NEW b \in Makers', pc'[b] # "dump"
      PROVE  \E w \in DOMAIN remote' :
               /\ remote'[w].body = "whole" /\ later'[w] = {}
               /\ pc'[b] = "delete" => w \notin expired'[b]
  <2>1. b \in Makers /\ b \in Agent
    BY <1>2, <1>5 DEF Makers
  <2>2. pc[b] # "dump"
    BY <1>1, <1>5, <2>1 DEF Makers
  <2>3. PICK w \in DOMAIN remote :
          /\ remote[w].body = "whole" /\ later[w] = {}
          /\ pc[b] = "delete" => w \notin expired[b]
    BY <2>1, <2>2 DEF AloneInv
  <2>4. pc'[b] = "delete" => w \notin expired'[b]
    BY <1>1, <2>1, <2>3
  <2>. QED  BY <2>3, <2>4
<1>. QED  BY <1>3, <1>4, <1>5 DEF AloneInv

\* The only one that makes a backup goes on with it.
LEMMA AloneMaker ==
  ASSUME Typed, AloneInv, ~overlap, NEW a \in Makers,
         UNCHANGED pc \/ \E to : Goto(a, to), \A s \in Server \ {a} : mem'[s] = mem[s]
  PROVE  a \in Agent /\ Own(a) /\ \A b \in Agent \ {a} : ~Making(b)'
<1>1. a \in Agent /\ Making(a)
  BY DEF Makers
<1>2. \A b \in Agent \ {a} : ~Making(b)
  BY DEF AloneInv, Makers
<1>3. \A b \in Agent \ {a} : Making(b)' <=> Making(b)
  <2>1. UNCHANGED pc => Goto(a, pc[a])
    BY DEF Goto, Typed
  <2>. QED  BY <1>1, <2>1, MakersStep
<1>4. Own(a)
  BY <1>1 DEF AloneInv, Own, Makers
<1>. QED  BY <1>1, <1>2, <1>3, <1>4

\* A backup is begun.
LEMMA AloneCreate == ASSUME TypeOK, AloneInv, NEW a \in Agent, Create(a) PROVE AloneInv'
<1> SUFFICES ASSUME ~overlap' PROVE AloneInv'
  BY DEF AloneInv
<1>1. Typed /\ 0 \notin DOMAIN remote
  BY NamesAreFinite DEF TypeOK
<1>2. Goto(a, "dump") /\ UNCHANGED mem /\ \A b \in Agent \ {a} : ~Busy(b)
  BY DEF Create
<1>3. \A b \in Agent \ {a} : ~Making(b)'
  <2>1. \A b \in Agent \ {a} : Making(b) => Busy(b)
    BY DEF Making, Busy
  <2>. QED  BY <1>1, <1>2, <2>1, MakersStep
<1>4. \A b \in Agent \ {a} : mine[b] \notin DOMAIN remote
  BY <1>1, <1>2 DEF Typed, Busy
<1>5. /\ mine' = [mine EXCEPT ![a] = NewName]
      /\ Put(NewName, [of |-> ProjectOf[a], at |-> now, body |-> "open"])
  BY <1>4 DEF Create
<1>6. mine'[a] = NewName /\ pc'[a] = "dump"
  BY <1>1, <1>2, <1>5 DEF Typed, Goto
<1>7. NewName \in DOMAIN remote' /\ remote'[NewName].body = "open"
  BY <1>5 DEF Put
<1>. QED  BY <1>3, <1>6, <1>7, AloneOne DEF Own

\* More of it is written.
LEMMA AloneProgress == ASSUME TypeOK, AloneInv, NEW a \in Agent, Progress(a) PROVE AloneInv'
<1> SUFFICES ASSUME ~overlap' PROVE AloneInv'
  BY DEF AloneInv
<1>1. Typed /\ ~overlap /\ a \in Makers /\ UNCHANGED <<pc, mem, mine>> /\ pc[a] = "dump"
  BY DEF Progress, TypeOK, Makers, Making
<1>2. Own(a) /\ \A b \in Agent \ {a} : ~Making(b)'
  BY <1>1, AloneMaker
<1>3. Put(mine[a], remote[mine[a]]) /\ remote[mine[a]].body = "open"
  BY <1>1, <1>2 DEF Progress, Own
<1>4. mine'[a] \in DOMAIN remote' /\ remote'[mine'[a]].body = "open"
  BY <1>1, <1>3 DEF Put
<1>. QED  BY <1>1, <1>2, <1>4, AloneOne DEF Own

\* It is complete, and the newest.
LEMMA AloneFinish == ASSUME TypeOK, AloneInv, LaterInv, NEW a \in Agent, Finish(a) PROVE AloneInv'
<1> SUFFICES ASSUME ~overlap' PROVE AloneInv'
  BY DEF AloneInv
<1>1. /\ Typed /\ ~overlap /\ a \in Makers /\ pc[a] = "dump"
      /\ Close(a, "whole") /\ Attempted(a, FALSE)
  BY DEF Finish, TypeOK, Makers, Making
<1>2. PICK to \in {"saveTime", "list", "off"} : Goto(a, to)
  BY <1>1 DEF Attempted
<1>3. pc'[a] # "dump" /\ pc'[a] # "delete"
  BY <1>1, <1>2 DEF Goto, Typed
<1>4. \A s \in Server \ {a} : mem'[s] = mem[s]
  BY <1>1 DEF Attempted, Typed
<1>5. Own(a) /\ \A b \in Agent \ {a} : ~Making(b)'
  BY <1>1, <1>2, <1>4, AloneMaker
<1>6. mine[a] \in DOMAIN remote /\ remote[mine[a]].body = "open"
  BY <1>1, <1>5 DEF Own
<1>7. PICK f : Put(mine[a], f) /\ f.body = "whole"
  <2>1. remote[mine[a]] \in File
    BY <1>1, <1>6 DEF Typed
  <2>2. [remote[mine[a]] EXCEPT !.at = now, !.body = "whole"].body = "whole"
    BY <2>1 DEF File
  <2>3. Put(mine[a], [remote[mine[a]] EXCEPT !.at = now, !.body = "whole"])
    BY <1>1, <1>6 DEF Close
  <2>. QED  BY <2>2, <2>3
<1>8. mine[a] \in DOMAIN remote' /\ remote'[mine[a]].body = "whole" /\ later'[mine[a]] = {}
  BY <1>7 DEF Put
<1>9. Own(a)'
  BY <1>3, <1>8 DEF Own
<1>. QED  BY <1>5, <1>9, AloneOne

\* It comes to nothing.
LEMMA AloneGivenUp ==
  ASSUME TypeOK, AloneInv, NEW a \in Agent, DumpFails(a) \/ (Crash(a) /\ pc[a] = "dump")
  PROVE  AloneInv'
<1> SUFFICES ASSUME ~overlap' PROVE AloneInv'
  BY DEF AloneInv
<1>1. Typed /\ ~overlap /\ a \in Makers /\ pc[a] = "dump"
  <2>1. pc[a] = "dump" /\ UNCHANGED overlap
    BY DEF DumpFails, Crash
  <2>. QED  BY <2>1 DEF TypeOK, Makers, Making
<1>2. /\ \A s \in Server \ {a} : mem'[s] = mem[s]
      /\ Goto(a, "off") \/ (Goto(a, "saveTime") /\ mem'[a].failed)
  <2>1. CASE DumpFails(a)
    <3>1. Attempted(a, TRUE)
      BY <2>1 DEF DumpFails
    <3>. QED  BY <1>1, <3>1 DEF Attempted, Typed
  <2>2. CASE Crash(a)
    BY <2>2 DEF Crash
  <2>. QED  BY <2>1, <2>2
<1>3. \A b \in Agent \ {a} : ~Making(b)'
  BY <1>1, <1>2, AloneMaker
<1>4. pc'[a] = "off" \/ (pc'[a] = "saveTime" /\ mem'[a].failed)
  BY <1>1, <1>2 DEF Goto, Typed
<1>5. Own(a)'
  BY <1>4 DEF Own, Making
<1>. QED  BY <1>3, <1>5, AloneOne

\* Retention keeps the newest file.
LEMMA AloneList == ASSUME TypeOK, AloneInv, NEW a \in Agent, List(a) PROVE AloneInv'
<1> SUFFICES ASSUME ~overlap' PROVE AloneInv'
  BY DEF AloneInv
<1>1. /\ Typed /\ ~overlap /\ a \in Makers /\ pc[a] = "list" /\ Making(a)
      /\ Goto(a, "delete") /\ UNCHANGED <<mem, remote, later>>
  BY DEF List, TypeOK, Makers, Making
<1>2. Own(a) /\ \A b \in Agent \ {a} : ~Making(b)'
  BY <1>1, AloneMaker
<1>3. PICK w \in DOMAIN remote : remote[w].body = "whole" /\ later[w] = {}
  BY <1>1, <1>2 DEF Own
<1>4. w \in Newest(Retain)
  <2>1. Cardinality({}) = 0
    BY FS_EmptySet
  <2>. QED  BY <1>3, <2>1, BackupAssumption DEF Newest
<1>5. w \notin expired'[a]
  BY <1>1, <1>4 DEF List, Typed
<1>6. pc'[a] = "delete"
  BY <1>1 DEF Goto, Typed
<1>7. Own(a)'
  BY <1>1, <1>3, <1>5, <1>6 DEF Own
<1>. QED  BY <1>2, <1>7, AloneOne

\* And deletes others.
LEMMA AloneDelete == ASSUME TypeOK, AloneInv, NEW a \in Agent, Delete(a) PROVE AloneInv'
<1> SUFFICES ASSUME ~overlap' PROVE AloneInv'
  BY DEF AloneInv
<1>1. Typed /\ ~overlap /\ a \in Makers /\ pc[a] = "delete" /\ Making(a) /\ UNCHANGED <<pc, mem>>
  BY DEF Delete, TypeOK, Makers, Making
<1>2. Own(a) /\ \A b \in Agent \ {a} : ~Making(b)'
  BY <1>1, AloneMaker
<1>3. PICK w \in DOMAIN remote : remote[w].body = "whole" /\ later[w] = {} /\ w \notin expired[a]
  BY <1>1, <1>2 DEF Own
<1>4. PICK n \in expired[a] :
        /\ expired' = [expired EXCEPT ![a] = @ \ {n}]
        /\ \/ /\ remote' = [i \in DOMAIN remote \ {n} |-> remote[i]]
              /\ later' = [i \in DOMAIN remote \ {n} |-> later[i] \ {n}]
           \/ UNCHANGED <<remote, later>>
  BY DEF Delete
<1>5. w \in DOMAIN remote' /\ remote'[w].body = "whole" /\ later'[w] = {}
  BY <1>3, <1>4
<1>6. w \notin expired'[a]
  BY <1>1, <1>3, <1>4 DEF Typed
<1>7. Own(a)'
  BY <1>1, <1>5, <1>6 DEF Own
<1>. QED  BY <1>2, <1>7, AloneOne

\* A step keeps it so.
LEMMA AloneNext == TypeOK /\ LaterInv /\ AloneInv /\ [Next]_vars => AloneInv'
<1> SUFFICES ASSUME TypeOK, LaterInv, AloneInv, [Next]_vars PROVE AloneInv'
  OBVIOUS
<1>0. Typed /\ 0 \notin DOMAIN remote
  BY NamesAreFinite DEF TypeOK
<1>1. CASE Tick \/ UNCHANGED vars
  BY <1>1 DEF AloneInv, Makers, Making, Tick, vars
<1>2. ASSUME NEW a \in Agent,
             \/ Boot(a) \/ Fire(a) \/ Command(a) \/ CreateFails(a) \/ SaveTime(a) \/ SaveError(a)
             \/ ListFails(a) \/ Cleaned(a)
      PROVE  AloneInv'
  <2>1. UNCHANGED <<remote, later, overlap, mine, expired>>
    BY <1>2 DEF Boot, Fire, Command, CreateFails, SaveTime, SaveError, ListFails, Cleaned
  <2>2. \A s \in Server \ {a} : mem'[s] = mem[s]
    BY <1>0, <1>2 DEF Boot, Fire, Command, CreateFails, SaveTime, SaveError, ListFails, Cleaned,
                     Attempted, Typed
  <2>3. CASE Boot(a) \/ Fire(a) \/ Command(a) \/ ListFails(a) \/ Cleaned(a)
    <3>1. PICK to \in {"connect", "wait", "off"} : Goto(a, to)
      BY <2>3 DEF Boot, Fire, Command, ListFails, Cleaned, Through, Wait
    <3>2. ~Making(a)'
      BY <1>0, <2>2, <3>1, MakersStep DEF Making
    <3>. QED  BY <1>0, <2>1, <2>2, <3>1, <3>2, AloneQuiet DEF Places
  <2>4. CASE CreateFails(a)
    <3>1. Goto(a, "off") \/ (Goto(a, "saveTime") /\ mem'[a].failed)
      BY <1>0, <2>4 DEF CreateFails, Attempted, Typed
    <3>2. ~Making(a)'
      BY <1>0, <2>2, <3>1, MakersStep DEF Making
    <3>. QED  BY <1>0, <2>1, <2>2, <3>1, <3>2, AloneQuiet DEF Places
  <2>5. CASE SaveTime(a)
    <3>1. pc[a] = "saveTime" /\ Goto(a, "saveError") /\ UNCHANGED mem
      BY <2>5 DEF SaveTime
    <3>2. Making(a)' => Making(a)
      BY <1>0, <2>2, <3>1, MakersStep DEF Making
    <3>. QED  BY <1>0, <2>1, <2>2, <3>1, <3>2, AloneQuiet DEF Places
  <2>6. CASE SaveError(a)
    <3>1. /\ pc[a] = "saveError" /\ UNCHANGED mem
          /\ (Goto(a, "wait") /\ mem[a].failed) \/ (Goto(a, "list") /\ ~mem[a].failed)
      BY <2>6 DEF SaveError, Wait
    <3>2. Making(a)' => Making(a)
      BY <1>0, <2>2, <3>1, MakersStep DEF Making
    <3>. QED  BY <1>0, <2>1, <2>2, <3>1, <3>2, AloneQuiet DEF Places
  <2>. QED  BY <1>2, <2>3, <2>4, <2>5, <2>6
<1>3. ASSUME NEW a \in Agent, Aside(a) PROVE AloneInv'
  <2>1. UNCHANGED uploading /\ \E to \in Calm : Goto(a, to)
    BY <1>0, <1>3, AsideIsCalm
  <2>2. PICK to \in Calm : Goto(a, to)
    BY <2>1
  <2>3. to \in Places \ {"dump", "delete"}
    BY DEF Calm, Places
  <2>4. ~Making(a)'
    BY <1>0, <2>1, <2>2, MakersStep DEF Making, Calm, uploading
  <2>. QED  BY <1>0, <2>1, <2>2, <2>3, <2>4, AloneQuiet DEF uploading
<1>4. ASSUME NEW a \in Agent, Crash(a), pc[a] # "dump" PROVE AloneInv'
  <2>1. /\ Goto(a, "off") /\ UNCHANGED overlap /\ mine' = [mine EXCEPT ![a] = 0]
        /\ expired' = [expired EXCEPT ![a] = {}]
        /\ \A s \in Server \ {a} : mem'[s] = mem[s]
    BY <1>4 DEF Crash, Close
  <2>2. UNCHANGED <<remote, later>>
    BY <1>0, <1>4 DEF Crash, Close, Typed
  <2>3. ~Making(a)'
    BY <1>0, <2>1, MakersStep DEF Making
  <2>4. \A b \in Agent \ {a} : mine'[b] = mine[b] /\ expired'[b] = expired[b]
    BY <1>0, <2>1 DEF Typed
  <2>. QED  BY <1>0, <2>1, <2>2, <2>3, <2>4, AloneQuiet DEF Places
<1>. QED  BY <1>1, <1>2, <1>3, <1>4, AloneCreate, AloneProgress, AloneFinish, AloneGivenUp, AloneList,
             AloneDelete DEF Next, Aside

-----------------------------------------------------------------------------
(***************************************************************************)
(* The directory does not fill up.                                         *)
(***************************************************************************)

\* There are no more than k newest files.
LEMMA NewestAreFew ==
  ASSUME TypeOK, LaterInv, NEW k \in Nat PROVE Cardinality(Newest(k)) <= k
<1>. DEFINE rank == [n \in Newest(k) |-> Cardinality(later[n])]
<1>1. \A n \in DOMAIN remote : IsFiniteSet(later[n])
  <2>1. \A n \in DOMAIN remote : later[n] \in SUBSET DOMAIN remote
    BY DEF LaterInv
  <2>. QED  BY <2>1, NamesAreFinite, FS_Subset
<1>2. rank \in [Newest(k) -> 0 .. k - 1]
  <2>1. \A n \in Newest(k) : Cardinality(later[n]) \in 0 .. k - 1
    BY <1>1, FS_CardinalityType DEF Newest
  <2>. QED  BY <2>1
<1>3. ASSUME NEW n \in Newest(k), NEW m \in Newest(k), m \in later[n] PROVE rank[m] # rank[n]
  <2>1. later[m] \in SUBSET later[n] /\ later[m] # later[n] /\ IsFiniteSet(later[n])
    BY <1>1, <1>3 DEF LaterInv, Newest
  <2>2. Cardinality(later[m]) # Cardinality(later[n])
    BY <2>1, FS_Subset
  <2>. QED  BY <2>2
<1>4. \A n, m \in Newest(k) : n # m => rank[n] # rank[m]
  <2>1. \A n, m \in Newest(k) : n = m \/ n \in later[m] \/ m \in later[n]
    BY DEF LaterInv, Newest
  <2>. HIDE DEF rank
  <2>. QED  BY <2>1, <1>3
<1>5. IsFiniteSet(Newest(k)) /\ IsFiniteSet(0 .. k - 1) /\ Cardinality(0 .. k - 1) = k
  <2>1. Newest(k) \in SUBSET DOMAIN remote
    BY DEF Newest
  <2>2. IsFiniteSet(Newest(k))
    BY <2>1, NamesAreFinite, FS_Subset
  <2>. QED  BY <2>2, FS_Interval
<1>6. rank \in Injection(Newest(k), 0 .. k - 1)
  <2>. HIDE DEF rank
  <2>. QED  BY <1>2, <1>4 DEF Injection, IsInjective
<1>. QED  BY <1>5, <1>6, FS_Injection

\* One more has one more element at most.
LEMMA OneMore ==
  ASSUME NEW K, IsFiniteSet(K), NEW x, NEW L \in SUBSET (K \union {x})
  PROVE  Cardinality(L) <= Cardinality(K) + 1
<1>1. /\ IsFiniteSet(K \union {x}) /\ Cardinality(K) \in Nat
      /\ Cardinality(K \union {x}) = IF x \in K THEN Cardinality(K) ELSE Cardinality(K) + 1
  BY FS_AddElement, FS_CardinalityType
<1>2. /\ IsFiniteSet(L) /\ Cardinality(L) <= Cardinality(K \union {x})
      /\ Cardinality(L) \in Nat /\ Cardinality(K \union {x}) \in Nat
  BY <1>1, FS_Subset, FS_CardinalityType
<1>. QED  BY <1>1, <1>2

\* The ways in which the balance of the files K, the makers M and the faults f
\* goes over to that of L, N and g.
LEMMA Balance ==
  ASSUME NEW K, NEW L, NEW M, NEW N, NEW f \in Nat, NEW g \in Nat,
         IsFiniteSet(K), IsFiniteSet(M), IsFiniteSet(N), NEW x, NEW c,
         Cardinality(K) <= Retain + Cardinality(M) + f,
         \/ L \subseteq K /\ M \subseteq N /\ g >= f
         \/ L \subseteq K \union {x} /\ M \subseteq N /\ g = f + 1
         \/ L \subseteq K /\ M \subseteq N \union {c} /\ g = f + 1
         \/ L \subseteq K \union {x} /\ c \notin M /\ M \union {c} \subseteq N /\ g = f
  PROVE  Cardinality(L) <= Retain + Cardinality(N) + g
<1>. USE BackupAssumption
<1>1. Cardinality(K) \in Nat /\ Cardinality(M) \in Nat /\ Cardinality(N) \in Nat
  BY FS_CardinalityType
<1>2. L \subseteq K => IsFiniteSet(L) /\ Cardinality(L) <= Cardinality(K)
  BY FS_Subset
<1>3. L \subseteq K \union {x} => IsFiniteSet(L) /\ Cardinality(L) <= Cardinality(K) + 1
  BY FS_AddElement, FS_Subset, OneMore
<1>4. IsFiniteSet(L) => Cardinality(L) \in Nat
  BY FS_CardinalityType
<1>5. M \subseteq N => Cardinality(M) <= Cardinality(N)
  BY FS_Subset
<1>6. M \subseteq N \union {c} => Cardinality(M) <= Cardinality(N) + 1
  BY OneMore
<1>7. c \notin M /\ M \union {c} \subseteq N => Cardinality(M) + 1 <= Cardinality(N)
  <2> SUFFICES ASSUME c \notin M, M \union {c} \subseteq N PROVE Cardinality(M) + 1 <= Cardinality(N)
    OBVIOUS
  <2>1. Cardinality(M \union {c}) = Cardinality(M) + 1
    BY FS_AddElement
  <2>2. Cardinality(M \union {c}) <= Cardinality(N)
    BY FS_Subset
  <2>. QED  BY <2>1, <2>2
<1>8. CASE L \subseteq K /\ M \subseteq N /\ g >= f
  BY <1>1, <1>2, <1>4, <1>5, <1>8
<1>9. CASE L \subseteq K \union {x} /\ M \subseteq N /\ g = f + 1
  BY <1>1, <1>3, <1>4, <1>5, <1>9
<1>10. CASE L \subseteq K /\ M \subseteq N \union {c} /\ g = f + 1
  BY <1>1, <1>2, <1>4, <1>6, <1>10
<1>11. CASE L \subseteq K \union {x} /\ c \notin M /\ M \union {c} \subseteq N /\ g = f
  BY <1>1, <1>3, <1>4, <1>7, <1>11
<1>. QED  BY <1>8, <1>9, <1>10, <1>11

\* What is counted is finite.
LEMMA CountsAreFinite ==
  TypeOK => /\ IsFiniteSet(DOMAIN remote) /\ IsFiniteSet(Makers)
            /\ \A S : IsFiniteSet(Left(S)) /\ IsFiniteSet(Makers \ S)
<1> SUFFICES ASSUME TypeOK
             PROVE  /\ IsFiniteSet(DOMAIN remote) /\ IsFiniteSet(Makers)
                    /\ \A S : IsFiniteSet(Left(S)) /\ IsFiniteSet(Makers \ S)
  OBVIOUS
<1>1. IsFiniteSet(DOMAIN remote)
  BY NamesAreFinite
<1>2. IsFiniteSet(Makers)
  <2>1. Makers \in SUBSET Agent
    BY DEF Makers
  <2>. QED  BY <2>1, FS_Subset, BackupAssumption
<1>3. \A S : Left(S) \in SUBSET DOMAIN remote /\ Makers \ S \in SUBSET Makers
  BY DEF Left
<1>. QED  BY <1>1, <1>2, <1>3, FS_Subset

\* A step by which nobody goes through the listing or a list of files.
LEMMA CountStep ==
  ASSUME TypeOK, CountInv, TypeOK', NEW c \in Agent, NEW n,
         Cleaners' \subseteq Cleaners, \A b \in Cleaners' : expired'[b] = expired[b],
         \/ /\ DOMAIN remote' = DOMAIN remote
            /\ \/ Makers \subseteq Makers' /\ faults' >= faults
               \/ Makers \subseteq Makers' \union {c} /\ faults' = faults + 1
         \/ /\ DOMAIN remote' \subseteq DOMAIN remote \union {n} /\ faults' = faults
            /\ c \notin Makers /\ Makers \union {c} \subseteq Makers' /\ c \notin Cleaners'
  PROVE  CountInv'
<1> SUFFICES ASSUME NEW S \in SUBSET Cleaners'
             PROVE  Cardinality(Left(S)') <= Retain + Cardinality(Makers' \ S) + faults'
  BY DEF CountInv
<1>1. Cardinality(Left(S)) <= Retain + Cardinality(Makers \ S) + faults
  BY DEF CountInv
<1>2. IsFiniteSet(Left(S)) /\ IsFiniteSet(Makers \ S) /\ IsFiniteSet(Makers' \ S)
  <2>1. IsFiniteSet(Makers)'
    BY CountsAreFinite, PTL
  <2>2. Makers' \ S \in SUBSET Makers'
    OBVIOUS
  <2>. QED  BY <2>1, <2>2, CountsAreFinite, FS_Subset
<1>3. faults \in Nat /\ faults' \in Nat
  BY DEF TypeOK, Typed
<1>4. DOMAIN remote' = DOMAIN remote => Left(S)' \subseteq Left(S)
  BY DEF Left
<1>5. DOMAIN remote' \subseteq DOMAIN remote \union {n} => Left(S)' \subseteq Left(S) \union {n}
  BY DEF Left
<1>. DEFINE L == Left(S)'
            M == Makers \ S
            N == Makers' \ S
<1>6. \/ L \subseteq Left(S) /\ M \subseteq N /\ faults' >= faults
      \/ L \subseteq Left(S) /\ M \subseteq N \union {c} /\ faults' = faults + 1
      \/ L \subseteq Left(S) \union {n} /\ c \notin M /\ M \union {c} \subseteq N /\ faults' = faults
  BY <1>4, <1>5
<1>. HIDE DEF L, M, N
<1>7. Cardinality(L) <= Retain + Cardinality(N) + faults'
  BY <1>1, <1>2, <1>3, <1>6, Balance DEF M, N
<1>. QED  BY <1>7 DEF L, N

\* A process moves, and nobody else.
LEMMA MakersMove ==
  ASSUME Typed, NEW a \in Agent, NEW to, Goto(a, to), \A s \in Server \ {a} : mem'[s] = mem[s]
  PROVE  /\ Makers \subseteq Makers' \union {a} /\ pc'[a] = to
         /\ (Making(a) => Making(a)') => Makers \subseteq Makers'
         /\ to # "delete" => Cleaners' = Cleaners \ {a}
<1>1. pc'[a] = to /\ \A b \in Agent \ {a} : pc'[b] = pc[b] /\ (Making(b)' <=> Making(b))
  BY MakersStep
<1>2. \A b : b \in Makers' <=> b \in Agent /\ Making(b)'
  BY DEF Makers
<1>. QED  BY <1>1, <1>2 DEF Makers, Cleaners

\* A step at which nothing is lost but by a failure.
LEMMA CountMove ==
  ASSUME TypeOK, CountInv, TypeOK', NEW a \in Agent, NEW to, to # "delete", Goto(a, to),
         \A s \in Server \ {a} : mem'[s] = mem[s],
         DOMAIN remote' = DOMAIN remote, \A b \in Agent \ {a} : expired'[b] = expired[b],
         \/ faults' = faults + 1
         \/ (Making(a) => Making(a)') /\ faults' >= faults
  PROVE  CountInv'
<1>1. Typed
  BY DEF TypeOK
<1>2. /\ Makers \subseteq Makers' \union {a}
      /\ (Making(a) => Making(a)') => Makers \subseteq Makers'
      /\ Cleaners' = Cleaners \ {a}
  BY <1>1, MakersMove
<1>3. \A b \in Cleaners' : expired'[b] = expired[b]
  BY <1>2 DEF Cleaners
<1>. QED  BY <1>2, <1>3, CountStep

\* A file more, and one that makes it.
LEMMA CountCreate == ASSUME TypeOK, CountInv, TypeOK', NEW a \in Agent, Create(a) PROVE CountInv'
<1>1. Typed /\ pc[a] = "connect" /\ Goto(a, "dump") /\ UNCHANGED <<mem, expired, faults>>
  BY DEF TypeOK, Create
<1>2. PICK n : DOMAIN remote' = DOMAIN remote \union {n}
  BY DEF Create, Put
<1>3. ~Making(a) /\ Making(a)'
  BY <1>1 DEF Making, Goto, Typed
<1>4. a \notin Makers /\ a \in Makers' /\ Makers \subseteq Makers' /\ Cleaners' = Cleaners \ {a}
  BY <1>1, <1>3, MakersMove DEF Makers
<1>. QED  BY <1>1, <1>2, <1>4, CountStep

\* Retention is decided upon.
LEMMA CountList == ASSUME TypeOK, LaterInv, CountInv, TypeOK', NEW a \in Agent, List(a) PROVE CountInv'
<1>1. Typed /\ pc[a] = "list" /\ Goto(a, "delete") /\ UNCHANGED <<mem, remote, faults>>
  BY DEF TypeOK, List
<1>2. Makers \subseteq Makers'
  <2>1. Making(a)'
    BY <1>1 DEF Making, Goto, Typed
  <2>. QED  BY <1>1, <2>1, MakersMove
<1>3. Cleaners' \subseteq Cleaners \union {a} /\ \A b \in Agent \ {a} : expired'[b] = expired[b]
  BY <1>1 DEF Cleaners, Goto, Typed, List
<1>4. DOMAIN remote \ expired'[a] = (IF Cardinality(DOMAIN remote) <= Retain THEN DOMAIN remote ELSE Newest(Retain))
  BY <1>1 DEF List, Typed, Newest
<1>5. Cardinality(DOMAIN remote \ expired'[a]) <= Retain /\ IsFiniteSet(DOMAIN remote \ expired'[a])
  <2>1. Cardinality(Newest(Retain)) <= Retain
    BY NewestAreFew, BackupAssumption
  <2>2. Newest(Retain) \in SUBSET DOMAIN remote
    BY DEF Newest
  <2>3. IsFiniteSet(DOMAIN remote) /\ IsFiniteSet(Newest(Retain))
    BY <2>2, CountsAreFinite, FS_Subset
  <2>. QED  BY <1>4, <2>1, <2>3
<1> SUFFICES ASSUME NEW S \in SUBSET Cleaners'
             PROVE  Cardinality(Left(S)') <= Retain + Cardinality(Makers' \ S) + faults'
  BY DEF CountInv
<1>. DEFINE L == Left(S)'
            N == Makers' \ S
<1>6. IsFiniteSet(N) /\ IsFiniteSet(L)
  <2>1. IsFiniteSet(Makers)'
    BY CountsAreFinite, PTL
  <2>2. N \in SUBSET Makers' /\ L \in SUBSET DOMAIN remote
    BY <1>1 DEF Left
  <2>. QED  BY <2>1, <2>2, CountsAreFinite, FS_Subset
<1>7. Cardinality(N) \in Nat /\ faults' \in Nat /\ Retain \in Nat
  BY <1>6, FS_CardinalityType, BackupAssumption DEF TypeOK, Typed
<1>8. CASE a \in S
  <2>1. L \in SUBSET (DOMAIN remote \ expired'[a])
    BY <1>1, <1>8 DEF Left
  <2>2. Cardinality(L) <= Cardinality(DOMAIN remote \ expired'[a])
    BY <1>5, <2>1, FS_Subset
  <2>3. Cardinality(L) \in Nat /\ Cardinality(DOMAIN remote \ expired'[a]) \in Nat
    BY <1>5, <1>6, FS_CardinalityType
  <2>4. Cardinality(L) <= Retain + Cardinality(N) + faults'
    <3>. HIDE DEF L, N
    <3>. QED  BY <1>5, <1>7, <2>2, <2>3
  <2>. QED  BY <2>4
<1>9. CASE a \notin S
  <2>1. S \in SUBSET Cleaners /\ \A b \in S : expired'[b] = expired[b]
    BY <1>3, <1>9 DEF Cleaners
  <2>2. Cardinality(Left(S)) <= Retain + Cardinality(Makers \ S) + faults
    BY <2>1 DEF CountInv
  <2>3. L \subseteq Left(S) /\ Makers \ S \subseteq N
    BY <1>1, <1>2, <2>1 DEF Left
  <2>4. IsFiniteSet(Left(S)) /\ IsFiniteSet(Makers \ S)
    BY CountsAreFinite
  <2>5. faults \in Nat /\ faults' = faults
    BY <1>1 DEF Typed
  <2>6. Cardinality(L) <= Retain + Cardinality(N) + faults'
    <3>. HIDE DEF L, N
    <3>. QED  BY <1>6, <2>2, <2>3, <2>4, <2>5, Balance
  <2>. QED  BY <2>6
<1>. QED  BY <1>8, <1>9

\* A file less; or, if that fails, one that stays.
LEMMA CountDelete == ASSUME TypeOK, CountInv, TypeOK', NEW a \in Agent, Delete(a) PROVE CountInv'
<1>1. Typed /\ UNCHANGED <<pc, mem>>
  BY DEF TypeOK, Delete
<1>2. PICK n \in expired[a] :
        /\ expired' = [expired EXCEPT ![a] = @ \ {n}]
        /\ \/ faults' = faults /\ DOMAIN remote' = DOMAIN remote \ {n}
           \/ faults' = faults + 1 /\ DOMAIN remote' = DOMAIN remote
  BY DEF Delete, Fault, NoFault
<1>3. Makers' = Makers /\ Cleaners' = Cleaners
  BY <1>1 DEF Makers, Making, Cleaners
<1>4. \A b \in Agent : expired[b] \subseteq expired'[b] \union {n}
  BY <1>1, <1>2 DEF Typed
<1> SUFFICES ASSUME NEW S \in SUBSET Cleaners'
             PROVE  Cardinality(Left(S)') <= Retain + Cardinality(Makers' \ S) + faults'
  BY DEF CountInv
<1>. DEFINE L == Left(S)'
            M == Makers \ S
<1>5. \A x \in UNION {expired[b] : b \in S} : x = n \/ x \in UNION {expired'[b] : b \in S}
  BY <1>3, <1>4 DEF Cleaners
<1>6. \/ L \subseteq Left(S) /\ faults' = faults
      \/ L \subseteq Left(S) \union {n} /\ faults' = faults + 1
  BY <1>2, <1>5 DEF Left
<1>7. Cardinality(Left(S)) <= Retain + Cardinality(M) + faults /\ faults \in Nat /\ faults' \in Nat
  BY <1>1, <1>3 DEF CountInv, TypeOK, Typed
<1>8. IsFiniteSet(Left(S)) /\ IsFiniteSet(M)
  BY CountsAreFinite
<1>. HIDE DEF L, M
<1>9. Cardinality(L) <= Retain + Cardinality(M) + faults'
  BY <1>6, <1>7, <1>8, Balance
<1>. QED  BY <1>3, <1>9 DEF L, M

\* One has been through its list, so that its list does not matter any more.
LEMMA CountCleaned == ASSUME TypeOK, CountInv, TypeOK', NEW a \in Agent, Cleaned(a) PROVE CountInv'
<1>1. Typed /\ pc[a] = "delete" /\ expired[a] = {} /\ UNCHANGED <<mem, remote, expired, faults>>
  BY DEF TypeOK, Cleaned
<1>2. PICK to \in {"wait", "off"} : Goto(a, to)
  BY DEF Cleaned, Through, Wait
<1>3. Makers \subseteq Makers' \union {a} /\ Cleaners' = Cleaners \ {a}
  BY <1>1, <1>2, MakersMove
<1> SUFFICES ASSUME NEW S \in SUBSET Cleaners'
             PROVE  Cardinality(Left(S)') <= Retain + Cardinality(Makers' \ S) + faults'
  BY DEF CountInv
<1>. DEFINE T == S \union {a}
            M == Makers \ T
            N == Makers' \ S
<1>4. T \in SUBSET Cleaners
  BY <1>1, <1>3 DEF Cleaners
<1>5. Left(S)' = Left(T)
  BY <1>1 DEF Left
<1>6. M \subseteq N
  BY <1>3
<1>7. Cardinality(Left(T)) <= Retain + Cardinality(M) + faults
  BY <1>4 DEF CountInv
<1>8. IsFiniteSet(M) /\ IsFiniteSet(N)
  <2>1. IsFiniteSet(Makers)'
    BY CountsAreFinite, PTL
  <2>2. N \in SUBSET Makers'
    OBVIOUS
  <2>. QED  BY <2>1, <2>2, CountsAreFinite, FS_Subset
<1>9. Cardinality(M) <= Cardinality(N) /\ Cardinality(M) \in Nat /\ Cardinality(N) \in Nat
  BY <1>6, <1>8, FS_Subset, FS_CardinalityType
<1>10. IsFiniteSet(Left(T)) /\ Cardinality(Left(T)) \in Nat
  BY CountsAreFinite, FS_CardinalityType
<1>11. faults \in Nat /\ faults' = faults /\ Retain \in Nat
  BY <1>1, BackupAssumption DEF Typed
<1>. HIDE DEF M, N, T
<1>12. Cardinality(Left(T)) <= Retain + Cardinality(N) + faults'
  BY <1>7, <1>9, <1>10, <1>11
<1>. QED  BY <1>5, <1>12 DEF N

\* A step keeps the balance.
LEMMA CountNext == TypeOK /\ LaterInv /\ CountInv /\ TypeOK' /\ [Next]_vars => CountInv'
<1> SUFFICES ASSUME TypeOK, LaterInv, CountInv, TypeOK', [Next]_vars PROVE CountInv'
  OBVIOUS
<1>0. Typed /\ faults \in Nat /\ 0 \notin DOMAIN remote
  BY NamesAreFinite DEF TypeOK, Typed
<1>1. CASE Tick \/ UNCHANGED vars
  BY <1>1 DEF CountInv, Cleaners, Left, Makers, Making, Tick, vars
<1>2. ASSUME NEW a \in Agent, Boot(a) \/ Fire(a) \/ Command(a) \/ CreateFails(a) \/ ListFails(a) PROVE CountInv'
  <2>1. UNCHANGED <<remote, expired>>
    BY <1>2 DEF Boot, Fire, Command, CreateFails, ListFails
  <2>2. \A s \in Server \ {a} : mem'[s] = mem[s]
    BY <1>0, <1>2 DEF Boot, Fire, Command, CreateFails, ListFails, Attempted, Typed
  <2>3. PICK to \in {"connect", "wait", "off", "saveTime", "list"} : Goto(a, to)
    BY <1>2 DEF Boot, Fire, Command, CreateFails, ListFails, Attempted, Through, Wait
  <2>4. (faults' >= faults /\ ~Making(a)) \/ faults' = faults + 1
    <3>1. CASE Boot(a)
      <4>1. faults' \in {faults, faults + 1}
        BY <1>0, <3>1, BootType
      <4>. QED  BY <1>0, <3>1, <4>1 DEF Boot, Making
    <3>2. CASE Fire(a) \/ Command(a)
      BY <1>0, <3>2 DEF Fire, Command, Making
    <3>3. CASE CreateFails(a) \/ ListFails(a)
      BY <3>3 DEF CreateFails, ListFails, Fault
    <3>. QED  BY <1>2, <3>1, <3>2, <3>3
  <2>. QED  BY <2>1, <2>2, <2>3, <2>4, CountMove
<1>3. ASSUME NEW a \in Agent, SaveTime(a) \/ SaveError(a) PROVE CountInv'
  <2>1. UNCHANGED <<mem, remote, expired>> /\ faults' \in {faults, faults + 1}
    BY <1>3 DEF SaveTime, SaveError, Fault, NoFault
  <2>2. \/ pc[a] = "saveTime" /\ Goto(a, "saveError")
        \/ pc[a] = "saveError" /\ ~mem[a].failed /\ Goto(a, "list")
        \/ pc[a] = "saveError" /\ mem[a].failed /\ Goto(a, "wait")
    BY <1>3 DEF SaveTime, SaveError, Wait
  <2>3. Making(a) => Making(a)'
    BY <1>0, <2>1, <2>2 DEF Making, Goto, Typed
  <2>. QED  BY <1>0, <2>1, <2>2, <2>3, CountMove
<1>4. ASSUME NEW a \in Agent, Progress(a) PROVE CountInv'
  <2>1. pc[a] = "dump" /\ UNCHANGED <<pc, mem, expired, faults>>
    BY <1>4 DEF Progress
  <2>2. DOMAIN remote' = DOMAIN remote
    BY <1>4 DEF Progress, Put
  <2>3. Goto(a, "dump") /\ Making(a)'
    BY <1>0, <2>1 DEF Goto, Typed, Making
  <2>. QED  BY <1>0, <2>1, <2>2, <2>3, CountMove
<1>5. ASSUME NEW a \in Agent, Finish(a) \/ DumpFails(a) PROVE CountInv'
  <2>1. PICK body \in Content, failed \in BOOLEAN :
          Close(a, body) /\ Attempted(a, failed) /\ (faults' = faults + 1 \/ (~failed /\ faults' = faults))
    BY <1>5 DEF Finish, DumpFails, Content, Fault
  <2>2. DOMAIN remote' = DOMAIN remote /\ UNCHANGED expired
    BY <1>0, <1>5, <2>1, CloseType DEF Finish, DumpFails
  <2>3. \A s \in Server \ {a} : mem'[s] = mem[s]
    BY <1>0, <2>1 DEF Attempted, Typed
  <2>4. PICK to \in {"saveTime", "off", "list"} : Goto(a, to)
    BY <2>1 DEF Attempted
  <2>5. ~failed => Making(a)'
    BY <1>0, <2>1 DEF Attempted, Making, Goto, Typed
  <2>. QED  BY <1>0, <2>1, <2>2, <2>3, <2>4, <2>5, CountMove
<1>6. ASSUME NEW a \in Agent, Aside(a) PROVE CountInv'
  <2>1. /\ UNCHANGED <<mem, remote, expired>> /\ faults' \in {faults, faults + 1} /\ pc[a] \in Calm
        /\ \E to \in Calm : Goto(a, to)
    BY <1>0, <1>6, AsideIsCalm DEF uploading
  <2>2. PICK to \in Calm : Goto(a, to)
    BY <2>1
  <2>3. to # "delete" /\ ~Making(a)
    BY <2>1 DEF Calm, Making
  <2>. QED  BY <1>0, <2>1, <2>2, <2>3, CountMove
<1>7. ASSUME NEW a \in Agent, Crash(a) PROVE CountInv'
  <2>1. /\ Goto(a, "off") /\ faults' = faults + 1
        /\ expired' = [expired EXCEPT ![a] = {}]
        /\ \A s \in Server \ {a} : mem'[s] = mem[s]
    BY <1>7 DEF Crash, Fault
  <2>2. DOMAIN remote' = DOMAIN remote
    <3>1. PICK body \in {"cut", "whole"} : Close(a, body)
      BY <1>7 DEF Crash
    <3>. QED  BY <1>0, <3>1, CloseType DEF Content
  <2>3. \A b \in Agent \ {a} : expired'[b] = expired[b]
    BY <1>0, <2>1 DEF Typed
  <2>. QED  BY <2>1, <2>2, <2>3, CountMove
<1>. QED  BY <1>1, <1>2, <1>3, <1>4, <1>5, <1>6, <1>7, CountCreate, CountList, CountDelete, CountCleaned
          DEF Next, Aside

-----------------------------------------------------------------------------
(***************************************************************************)
(* The theorems.                                                           *)
(***************************************************************************)

\* Everything holds at first.
LEMMA BackupInit == Init => BackupInv
<1> SUFFICES ASSUME Init PROVE BackupInv
  OBVIOUS
<1>1. /\ \A a \in Agent : pc[a] = "off"
      /\ DOMAIN remote = {} /\ DOMAIN later = {} /\ faults = 0 /\ local \in {"none", "whole"}
  BY DEF Init
<1>2. TypeOK
  BY TypeInit
<1>3. GapInv
  BY <1>1, BackupAssumption DEF GapInv
<1>4. LaterInv
  BY <1>1 DEF LaterInv, Init
<1>5. AloneInv
  BY <1>1 DEF AloneInv, Makers, Making
<1>6. CountInv
  <2> SUFFICES ASSUME NEW S \in SUBSET Cleaners
               PROVE  Cardinality(Left(S)) <= Retain + Cardinality(Makers \ S) + faults
    BY DEF CountInv
  <2>1. Left(S) = {}
    BY <1>1 DEF Left
  <2>2. Cardinality(Left(S)) = 0
    BY <2>1, FS_EmptySet
  <2>3. Cardinality(Makers \ S) \in Nat
    BY <1>2, CountsAreFinite, FS_CardinalityType
  <2>. QED  BY <1>1, <2>2, <2>3, BackupAssumption
<1>7. LocalInv
  BY <1>1 DEF LocalInv
<1>. QED  BY <1>2, <1>3, <1>4, <1>5, <1>6, <1>7 DEF BackupInv

\* And in every state: each server knows when its last backup was, the files are
\* in a line, those that are made one at a time are all accounted for, and so is
\* what failures leave.
THEOREM BackupInvariance == Spec => []BackupInv
<1>1. BackupInv /\ [Next]_vars => BackupInv'
  BY TypeNext, GapNext, LaterNext, AloneNext, CountNext, LocalNext DEF BackupInv
<1>. QED  BY <1>1, BackupInit, PTL DEF Spec

\* A server that waits and knows of no failure makes its next backup within a day
\* and the hour of the last one on its record, wherever it crashed before.
THEOREM BackupsAreNeverFarApart == Spec => []GapBounded
<1>1. BackupInv => GapBounded
  BY DEF BackupInv, GapInv, GapBounded
<1>. QED  BY <1>1, BackupInvariance, PTL

\* Whatever fails, however many make and delete backups at once, there are never
\* more files than are kept, made, or left by a failure; and one failure leaves
\* no short dump where a local restore finds it.
THEOREM FailuresLeaveLittle == Spec => []LittleIsLeft
<1>1. BackupInv => LittleIsLeft
  <2> SUFFICES ASSUME BackupInv PROVE LittleIsLeft
    OBVIOUS
  <2>1. TypeOK /\ CountInv /\ LocalInv
    BY DEF BackupInv
  <2>. DEFINE busy == {a \in Agent : Busy(a)}
  <2>2. Left({}) = DOMAIN remote /\ Makers \ {} = Makers
    BY DEF Left
  <2>3. Cardinality(DOMAIN remote) <= Retain + Cardinality(Makers) + faults
    BY <2>1, <2>2 DEF CountInv
  <2>4. Makers \in SUBSET busy /\ busy \in SUBSET Agent
    BY DEF Makers, Making, Busy
  <2>5. IsFiniteSet(busy) /\ IsFiniteSet(Makers) /\ IsFiniteSet(DOMAIN remote)
    BY <2>1, <2>4, CountsAreFinite, FS_Subset, BackupAssumption
  <2>6. Cardinality(Makers) <= Cardinality(busy)
    BY <2>4, <2>5, FS_Subset
  <2>7. /\ Cardinality(Makers) \in Nat /\ Cardinality(busy) \in Nat /\ Cardinality(DOMAIN remote) \in Nat
        /\ faults \in Nat /\ Retain \in Nat
    BY <2>1, <2>5, FS_CardinalityType, BackupAssumption DEF TypeOK, Typed
  <2>8. Cardinality(DOMAIN remote) <= Retain + Cardinality(busy) + faults
    <3>. HIDE DEF busy
    <3>. QED  BY <2>3, <2>6, <2>7
  <2>9. local = "short" /\ faults < 2 => \E a \in Agent : pc[a] = "discard"
    BY <2>1, <2>7 DEF LocalInv
  <2>. QED  BY <2>8, <2>9 DEF LittleIsLeft
<1>. QED  BY <1>1, BackupInvariance, PTL

\* As long as backups are made one at a time, no failure or crash, of the dump
\* or between any two calls, makes retention delete the newest whole backup.
THEOREM NewestWholeIsKept == Spec => NewestWholeStays
<1>. DEFINE Stays == ~overlap => \A n \in Gone : remote[n].body = "whole" =>
                       \E k \in later[n] \intersect DOMAIN remote' : remote[k].body = "whole"
<1>1. BackupInv /\ [Next]_vars => [Stays]_vars
  <2> SUFFICES ASSUME BackupInv, Next, ~overlap, NEW n \in Gone
               PROVE  \E k \in later[n] \intersect DOMAIN remote' : remote[k].body = "whole"
    OBVIOUS
  <2>0. Typed /\ LaterInv /\ AloneInv
    BY DEF BackupInv, TypeOK
  <2>1. n \in DOMAIN remote /\ n \notin DOMAIN remote'
    BY DEF Gone
  <2>2. ASSUME NEW a \in Agent, Create(a) \/ Progress(a) PROVE DOMAIN remote \subseteq DOMAIN remote'
    <3>1. PICK m, f : Put(m, f)
      BY <2>2 DEF Create, Progress
    <3>. QED  BY <3>1 DEF Put
  <2>3. \A a \in Agent, body \in Content : Close(a, body) => DOMAIN remote' = DOMAIN remote
    BY <2>0, CloseType
  <2>4. \A a \in Agent : Finish(a) \/ DumpFails(a) \/ Crash(a) => DOMAIN remote' = DOMAIN remote
    <3> SUFFICES ASSUME NEW a \in Agent, Finish(a) \/ DumpFails(a) \/ Crash(a)
                 PROVE  \E body \in Content : Close(a, body)
      BY <2>3
    <3>. QED  BY DEF Finish, DumpFails, Crash, Content
  <2>5. \A a \in Agent :
          \/ Boot(a) \/ Fire(a) \/ Command(a) \/ CreateFails(a) \/ SaveTime(a) \/ SaveError(a)
          \/ List(a) \/ ListFails(a) \/ Cleaned(a)
          => UNCHANGED remote
    BY DEF Boot, Fire, Command, CreateFails, SaveTime, SaveError, List, ListFails, Cleaned
  <2>6. \A a \in Agent : Aside(a) => UNCHANGED remote
    BY <2>0, AsideIsCalm DEF uploading
  <2>7. Tick => UNCHANGED remote
    BY DEF Tick
  <2>8. PICK a \in Agent : Delete(a)
    BY <2>1, <2>2, <2>4, <2>5, <2>6, <2>7 DEF Next, Aside
  <2>9. PICK d \in expired[a] : remote' = [i \in DOMAIN remote \ {d} |-> remote[i]]
    BY <2>1, <2>8 DEF Delete
  <2>10. n = d /\ n \in expired[a]
    BY <2>1, <2>9
  <2>11. a \in Makers /\ pc[a] = "delete"
    BY <2>8 DEF Delete, Makers, Making
  <2>12. PICK w \in DOMAIN remote : remote[w].body = "whole" /\ later[w] = {} /\ w \notin expired[a]
    BY <2>0, <2>11 DEF AloneInv
  <2>13. w \in later[n] /\ w \in DOMAIN remote'
    BY <2>0, <2>1, <2>9, <2>10, <2>12 DEF LaterInv
  <2>. QED  BY <2>12, <2>13
<1>. QED  BY <1>1, BackupInvariance, PTL DEF Spec, NewestWholeStays
=============================================================================
