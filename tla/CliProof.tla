------------------------------ MODULE CliProof ------------------------------
(***************************************************************************)
(* Proofs about Cli, for any number of terminals, any settings, and any    *)
(* number of faults and events: what a command finds of the state that     *)
(* others have saved, and what a listener prints of what it was sent.      *)
(***************************************************************************)
EXTENDS Cli, SequenceTheorems, TLAPS

-----------------------------------------------------------------------------
(***************************************************************************)
(* The event stream.                                                       *)
(***************************************************************************)

\* How many events the reader has got.
Got == Len(printed) + (IF reader = "print" THEN 1 ELSE 0)

\* The next event, or a close frame, which is the last one.
InOrder(i) == wire[i] = Got + i \/ (wire[i] = 0 /\ i = Len(wire) /\ server # "up")

\* Every event is printed, held or on its way, in order; nothing comes behind the
\* service's close frame, and the reader is done when it has got to it.
StreamInv ==
  /\ printed \in Seq(Nat) /\ wire \in Seq(Nat) /\ sent \in Nat
  /\ \A i \in DOMAIN printed : printed[i] = i
  /\ reader = "print" => held = Len(printed) + 1
  /\ main \in {"off", "dial"} => reader = "off"
  /\ \A i \in DOMAIN wire : InOrder(i)
  /\ server = "up" => reader # "done" /\ sent = Got + Len(wire)
  /\ server = "closed" =>
       IF reader = "done" THEN sent = Got
       ELSE wire # <<>> /\ wire[Len(wire)] = 0 /\ sent = Got + Len(wire) - 1
  /\ outcome = "closed" => reader = "done"
  /\ outcome # "none" => main = "ended"

\* At first nothing has been sent.
LEMMA StreamInit == Stream!Init => StreamInv
BY DEF Stream!Init, StreamInv, InOrder, Got

\* What is left on the wire when its first frame has been taken.
LEMMA FirstTaken ==
  ASSUME StreamInv, wire # <<>>, wire' = Tail(wire)
  PROVE  /\ wire' \in Seq(Nat) /\ Len(wire) \in Nat \ {0} /\ Len(wire') = Len(wire) - 1
         /\ DOMAIN wire = 1 .. Len(wire) /\ DOMAIN wire' = 1 .. Len(wire')
         /\ Head(wire) = wire[1] /\ wire[1] \in Nat
         /\ \A i \in 1 .. Len(wire') : wire'[i] = wire[i + 1]
         /\ Got \in Nat
         /\ wire[1] = Got + 1 \/ (wire[1] = 0 /\ Len(wire) = 1 /\ server # "up")
<1>1. wire \in Seq(Nat) /\ printed \in Seq(Nat)
  BY DEF StreamInv
<1>2. Len(wire) \in Nat \ {0} /\ DOMAIN wire = 1 .. Len(wire) /\ Got \in Nat
  BY <1>1, EmptySeq, LenProperties DEF Got
<1>3. Head(wire) = wire[1] /\ wire[1] \in Nat
  BY <1>1, <1>2, ElementOfSeq
<1>4. /\ wire' \in Seq(Nat) /\ Len(wire') = Len(wire) - 1
      /\ \A i \in 1 .. Len(wire') : wire'[i] = wire[i + 1]
  BY <1>1, HeadTailProperties
<1>5. DOMAIN wire' = 1 .. Len(wire')
  BY <1>4, LenProperties
<1>6. InOrder(1)
  <2>1. 1 \in DOMAIN wire
    BY <1>2
  <2>. QED  BY <2>1 DEF StreamInv
<1>. QED  BY <1>2, <1>3, <1>4, <1>5, <1>6 DEF InOrder

\* The reader's steps: it takes what comes first.
LEMMA ReadingInv == ASSUME StreamInv, Stream!Reading PROVE StreamInv'
<1>1. CASE Stream!Receive
  <2>1. /\ wire # <<>> /\ Head(wire) # 0 /\ wire' = Tail(wire) /\ held' = Head(wire) /\ reader' = "print"
        /\ reader = "read" /\ UNCHANGED <<main, server, sent, printed, outcome>>
        /\ main \notin {"off", "dial"}
    BY <1>1 DEF Stream!Receive, Stream!CloseFrame, Stream!Listening, StreamInv
  <2>2. Got = Len(printed) /\ Got' = Got + 1 /\ held' = Got'
    BY <2>1, FirstTaken DEF Got
  <2>3. ASSUME NEW i \in DOMAIN wire' PROVE InOrder(i)'
    <3>1. i \in Nat /\ i + 1 \in DOMAIN wire /\ wire'[i] = wire[i + 1]
      BY <2>1, FirstTaken
    <3>2. InOrder(i + 1)
      BY <3>1 DEF StreamInv
    <3>3. server' = server /\ Got \in Nat /\ Len(wire') = Len(wire) - 1 /\ Len(wire) \in Nat
      BY <2>1, FirstTaken
    <3>. QED  BY <2>2, <3>1, <3>2, <3>3 DEF InOrder
  <2>4. ASSUME server = "closed"
        PROVE  wire' # <<>> /\ wire'[Len(wire')] = 0 /\ sent = Got' + Len(wire') - 1
    <3>1. wire[Len(wire)] = 0 /\ sent = Got + Len(wire) - 1
      BY <2>1, <2>4 DEF StreamInv
    <3>2. Len(wire) > 1
      <4>1. wire[1] # 0
        BY <2>1, FirstTaken
      <4>2. Len(wire) # 1
        BY <3>1, <4>1
      <4>3. Len(wire) \in Nat \ {0}
        BY <2>1, FirstTaken
      <4>4. \A n \in Nat \ {0} : n # 1 => n > 1
        OBVIOUS
      <4>. QED  BY <4>2, <4>3, <4>4, Zenon
    <3>3. Len(wire') = Len(wire) - 1 /\ Len(wire) \in Nat /\ Got \in Nat
      BY <2>1, FirstTaken
    <3>4. Len(wire') \in 1 .. Len(wire') /\ Len(wire') + 1 = Len(wire)
      BY <3>2, <3>3
    <3>5. wire'[Len(wire')] = wire[Len(wire)]
      BY <2>1, <3>4, FirstTaken
    <3>6. wire' # <<>>
      BY <3>4
    <3>. QED  BY <2>1, <2>2, <3>1, <3>3, <3>5, <3>6
  <2>5. server = "up" => sent = Got' + Len(wire')
    BY <2>1, <2>2, FirstTaken DEF StreamInv
  <2>. QED  BY <2>1, <2>2, <2>3, <2>4, <2>5, FirstTaken DEF StreamInv
<1>2. CASE Stream!PrintEvent
  <2>1. /\ reader = "print" /\ reader' = "read" /\ printed' = Append(printed, held)
        /\ main \notin {"off", "dial"} /\ UNCHANGED <<main, outcome, server, wire, sent>>
    BY <1>2 DEF Stream!PrintEvent, Stream!Listening, Stream!service, StreamInv
  <2>2. held = Len(printed) + 1 /\ Got' = Got
    BY <2>1 DEF StreamInv, InOrder, Got
  <2>3. printed' \in Seq(Nat) /\ \A i \in DOMAIN printed' : printed'[i] = i
    BY <2>1, <2>2, AppendProperties, LenProperties DEF StreamInv
  <2>4. \A i \in DOMAIN wire' : InOrder(i)'
    BY <2>1, <2>2 DEF StreamInv, InOrder
  <2>. QED  BY <2>1, <2>2, <2>3, <2>4 DEF StreamInv
<1>3. CASE Stream!ReceiveClose
  <2>1. /\ wire # <<>> /\ Head(wire) = 0 /\ wire' = Tail(wire) /\ reader' = "done" /\ reader = "read"
        /\ main \notin {"off", "dial"} /\ UNCHANGED <<main, server, sent, printed, outcome>>
    BY <1>3 DEF Stream!ReceiveClose, Stream!CloseFrame, Stream!Listening, StreamInv
  <2>2. Len(wire) = 1 /\ server # "up" /\ Got' = Got
    BY <2>1, FirstTaken DEF Got
  <2>3. wire' \in Seq(Nat) /\ DOMAIN wire' = {}
    BY <2>1, <2>2, FirstTaken
  <2>4. server = "closed" => sent = Got'
    <3>1. server = "closed" => sent = Got + Len(wire) - 1
      BY <2>1 DEF StreamInv
    <3>. QED  BY <2>1, <2>2, <3>1, FirstTaken
  <2>. QED  BY <2>1, <2>2, <2>3, <2>4 DEF StreamInv
<1>4. CASE Stream!ReceiveFails
  <2>1. Got' = Got
    BY <1>4 DEF Stream!ReceiveFails, Got
  <2>. QED  BY <1>4, <2>1 DEF Stream!ReceiveFails, Stream!Listening, Stream!service, StreamInv, InOrder
<1>. QED  BY <1>1, <1>2, <1>3, <1>4 DEF Stream!Reading

\* What the service does, and the signal.
LEMMA OutsideInv == ASSUME StreamInv, Stream!Outside PROVE StreamInv'
<1>1. CASE Stream!CtrlC
  BY <1>1 DEF Stream!CtrlC, Stream!service, StreamInv, InOrder, Got
<1>2. CASE Stream!Send
  <2>1. /\ server = "up" /\ sent' = sent + 1 /\ wire' = Append(wire, sent + 1)
        /\ UNCHANGED <<server, main, reader, held, printed, outcome>>
    BY <1>2 DEF Stream!Send, Stream!client
  <2>2. Got' = Got /\ Got \in Nat
    BY <2>1 DEF StreamInv, InOrder, Got
  <2>3. sent = Got + Len(wire)
    BY <2>1 DEF StreamInv
  <2>4. /\ wire' \in Seq(Nat) /\ Len(wire') = Len(wire) + 1 /\ wire'[Len(wire')] = Got + Len(wire')
        /\ \A i \in DOMAIN wire : wire'[i] = wire[i] /\ InOrder(i)
    BY <2>1, <2>2, <2>3, AppendProperties, LenProperties DEF StreamInv
  <2>5. DOMAIN wire' = 1 .. Len(wire') /\ DOMAIN wire = 1 .. Len(wire) /\ Len(wire) \in Nat
    BY <2>4, LenProperties DEF StreamInv
  <2>6. \A i \in DOMAIN wire' : InOrder(i)'
    BY <2>1, <2>2, <2>4, <2>5 DEF InOrder
  <2>. QED  BY <2>1, <2>2, <2>3, <2>4, <2>6 DEF StreamInv
<1>3. CASE Stream!Close
  <2>1. /\ server = "up" /\ server' = "closed" /\ wire' = Append(wire, 0)
        /\ UNCHANGED <<sent, main, reader, held, printed, outcome>>
    BY <1>3 DEF Stream!Close, Stream!client, Stream!CloseFrame
  <2>2. Got' = Got /\ Got \in Nat
    BY <2>1 DEF StreamInv, InOrder, Got
  <2>3. /\ wire' \in Seq(Nat) /\ Len(wire') = Len(wire) + 1 /\ wire'[Len(wire')] = 0
        /\ \A i \in DOMAIN wire : wire'[i] = wire[i]
    BY <2>1 DEF StreamInv
  <2>4. \A i \in DOMAIN wire' : InOrder(i)'
    BY <2>1, <2>2, <2>3 DEF StreamInv, InOrder
  <2>. QED  BY <2>1, <2>2, <2>3, <2>4 DEF StreamInv
<1>4. CASE Stream!BreakOff
  <2>1. PICK k \in 0 .. Len(wire) :
          /\ wire' = SubSeq(wire, 1, k) /\ server' = "lost"
          /\ UNCHANGED <<sent, main, reader, held, printed, outcome>>
    BY <1>4 DEF Stream!BreakOff, Stream!client
  <2>2. Got' = Got
    BY <2>1 DEF Got
  <2>3. /\ wire' \in Seq(Nat) /\ Len(wire') = k
        /\ \A i \in DOMAIN wire' : i \in DOMAIN wire /\ wire'[i] = wire[i] /\ (i = Len(wire) => i = Len(wire'))
    BY <2>1 DEF StreamInv
  <2>4. \A i \in DOMAIN wire' : InOrder(i)'
    BY <2>1, <2>2, <2>3 DEF StreamInv, InOrder
  <2>. QED  BY <2>1, <2>2, <2>3, <2>4 DEF StreamInv
<1>. QED  BY <1>1, <1>2, <1>3, <1>4 DEF Stream!Outside

\* Every step keeps the invariant of the stream.
LEMMA StreamNext == StreamInv /\ [Stream!Next]_streamVars => StreamInv'
<1> SUFFICES ASSUME StreamInv, [Stream!Next]_streamVars PROVE StreamInv'
  OBVIOUS
<1>1. CASE Stream!Begin
  BY <1>1 DEF Stream!Begin, Stream!service, StreamInv, InOrder, Got
<1>2. CASE Stream!Dialling
  BY <1>2 DEF Stream!Dialling, Stream!Connect, Stream!DialFails, Stream!Finish, Stream!service, StreamInv, InOrder, Got
<1>3. CASE Stream!Waiting
  BY <1>3 DEF Stream!Waiting, Stream!SeeDone, Stream!SeeInterrupt, Stream!GiveUp, Stream!Finish,
              Stream!service, StreamInv, InOrder, Got
<1>4. CASE Stream!Exit
  BY <1>4 DEF Stream!Exit, StreamInv, InOrder, Got
<1>5. CASE UNCHANGED streamVars
  BY <1>5 DEF streamVars, StreamInv, InOrder, Got
<1>. QED  BY <1>1, <1>2, <1>3, <1>4, <1>5, ReadingInv, OutsideInv DEF Stream!Next

\* Whatever the commands do, the stream takes steps of its own or none.
LEMMA StreamStep == [CliNext]_cliVars => [Stream!Next]_streamVars
BY DEF CliNext, cliVars, Listen, ListenEnds, Dialling, Reading, Waiting, Outside, Stream!Next

\* A listener prints what it was sent, in order, and all of it if the service ended
\* the stream.
THEOREM ListenerMissesNothing == CliSpec => []NothingMissed
<1>1. CliInit => StreamInv
  BY StreamInit DEF CliInit
<1>2. StreamInv /\ [CliNext]_cliVars => StreamInv'
  BY StreamNext, StreamStep
<1>3. StreamInv => NothingMissed
  BY DEF StreamInv, Got, NothingMissed, Stream!NothingMissed
<1>. QED  BY <1>1, <1>2, <1>3, PTL DEF CliSpec

-----------------------------------------------------------------------------
(***************************************************************************)
(* The state file: the inductive invariant.                                *)
(***************************************************************************)

\* Where a command is that uses the files, or has lost them; and where it may be.
AtWork ==
  {"readOld", "openOld", "writeOld", "removeOld", "stat", "read", "openNew", "writeNew", "loaded",
   "openSave", "writeSave", "lost", "failed"}
Places ==
  {"idle", "saved", "readOld", "openOld", "writeOld", "removeOld", "stat", "read", "openNew",
   "writeNew", "loaded", "openSave", "writeSave", "lost", "failed", "listening"}

TypeOK ==
  /\ json \in Settings \union {Absent, Garbled}
  /\ toml \in Settings \union {Absent, Blank, Garbled}
  /\ pc \in [Command -> Places]
  /\ mem \in [Command -> Settings]
  /\ stale \in [Command -> BOOLEAN]
  /\ broken \in BOOLEAN

\* What state.toml says.
Current == IF toml \in Settings THEN toml ELSE Created

\* What a command may rely on while no other one has changed the files.
Undisturbed(c) ==
  ~stale[c] =>
    /\ pc[c] = "readOld" => json # Absent
    /\ pc[c] \in {"openOld", "writeOld"} => json = mem[c]
    /\ pc[c] = "removeOld" => json \in Settings /\ toml = json
    /\ pc[c] = "read" => toml # Absent
    /\ pc[c] = "openNew" => toml = Absent /\ mem[c] = Created
    /\ pc[c] = "writeNew" => mem[c] = Created
    /\ pc[c] \in Filling => toml = Blank
    /\ pc[c] = "loaded" => mem[c] = Current
    /\ pc[c] = "openSave" => \E ch \in Change : mem[c] = Overlay(ch, Current)
    /\ pc[c] = "lost" => Garbled \in {json, toml}

\* While a command has a file open that it has truncated, all others at work are
\* stale: so of two that overlap, the second one to open the file is.
Crossed ==
  \A c, d \in Command : c # d /\ pc[d] \in Filling /\ pc[c] \in AtWork => stale[c]

\* While the promise is kept, one command saves at a time, and there is no state.json;
\* and none that has truncated the file has been disturbed.
SavesAlone ==
  ~broken => /\ Saving # {} => json = Absent
             /\ \A c, d \in Saving : c = d
             /\ \A c \in Command : pc[c] \in Filling => ~stale[c]

StateInv == TypeOK /\ (\A c \in Command : Undisturbed(c)) /\ Crossed /\ SavesAlone

-----------------------------------------------------------------------------
(***************************************************************************)
(* The invariant is inductive.                                             *)
(***************************************************************************)

\* Settings over others are settings.
LEMMA OverlayType ==
  ASSUME NEW s \in Settings, NEW t \in Settings PROVE Overlay(s, t) \in Settings
BY DEF Overlay, Settings

\* A file that was created has settings, all of them unset.
LEMMA CreatedType == Created \in Settings
BY DEF Created, Settings

\* A step that leaves the files alone, and so the other commands.
LEMMA QuietStep ==
  ASSUME StateInv, NEW c \in Command, NEW to \in Places \ Filling, Goto(c, to),
         UNCHANGED files,
         mem' \in [Command -> Settings], \A d \in Command \ {c} : mem'[d] = mem[d],
         stale' \in [Command -> BOOLEAN], \A d \in Command \ {c} : stale'[d] = stale[d],
         to \in AtWork => pc[c] \in AtWork /\ stale'[c] = stale[c],
         broken' \in BOOLEAN, ~broken' => ~broken,
         Undisturbed(c)'
  PROVE  StateInv'
<1>1. /\ pc'[c] = to /\ \A d \in Command \ {c} : pc'[d] = pc[d]
      /\ json' = json /\ toml' = toml
  BY DEF StateInv, TypeOK, Goto, files
<1>2. TypeOK'
  BY <1>1 DEF StateInv, TypeOK, Goto
<1>3. ASSUME NEW d \in Command \ {c} PROVE Undisturbed(d)'
  BY <1>1 DEF StateInv, Undisturbed, Current
<1>4. Crossed'
  BY <1>1 DEF StateInv, Crossed
<1>5. Saving' \subseteq Saving
  BY <1>1 DEF Saving, Filling
<1>6. SavesAlone'
  BY <1>1, <1>5 DEF StateInv, SavesAlone
<1>. QED  BY <1>2, <1>3, <1>4, <1>6 DEF StateInv

\* A command that is killed, or whose call fails, may leave half of what it wrote: all
\* others at work have been stale since it opened the file.
LEMMA FailingStep ==
  ASSUME StateInv, NEW c \in Command, NEW to \in {"idle", "failed"}, Goto(c, to),
         json' = json, toml' \in Settings \union {Garbled, toml}, toml' # toml => pc[c] \in Filling,
         mem' = [mem EXCEPT ![c] = Created],
         stale' \in {stale, [stale EXCEPT ![c] = FALSE]},
         to = "failed" => pc[c] \in AtWork /\ stale' = stale,
         broken' \in BOOLEAN, ~broken' => ~broken
  PROVE  StateInv'
<1>1. /\ pc'[c] = to /\ \A d \in Command \ {c} : pc'[d] = pc[d]
      /\ \A d \in Command \ {c} : mem'[d] = mem[d] /\ stale'[d] = stale[d]
  BY DEF StateInv, TypeOK, Goto
<1>2. TypeOK'
  BY CreatedType DEF StateInv, TypeOK, Goto, Places
<1>3. Undisturbed(c)'
  BY <1>1 DEF Undisturbed, Filling
<1>4. ASSUME NEW d \in Command \ {c} PROVE Undisturbed(d)'
  <2>1. CASE toml' = toml
    BY <1>1, <2>1 DEF StateInv, Undisturbed, Current
  <2>2. CASE toml' # toml
    <3>1. pc[d] \in AtWork => stale[d]
      BY <2>2 DEF StateInv, Crossed
    <3>. QED  BY <1>1, <3>1 DEF Undisturbed, AtWork, Filling
  <2>. QED  BY <2>1, <2>2
<1>5. Crossed'
  BY <1>1 DEF StateInv, Crossed, Filling, AtWork
<1>6. Saving' \subseteq Saving
  BY <1>1 DEF Saving
<1>7. SavesAlone'
  BY <1>1, <1>6 DEF StateInv, SavesAlone, Filling
<1>. QED  BY <1>2, <1>3, <1>4, <1>5, <1>7 DEF StateInv

\* A step that changes a file, and makes all others at work stale.
LEMMA DisturbingStep ==
  ASSUME StateInv, NEW c \in Command, NEW to \in Places, Goto(c, to), pc[c] \in AtWork,
         NEW spoilt \in BOOLEAN, Disturbs(c, spoilt),
         json' \in {json, Absent}, toml' \in Settings \union {Blank, Garbled, toml},
         mem' \in [Command -> Settings], \A d \in Command \ {c} : mem'[d] = mem[d],
         to = "writeSave" => json = Absent \/ spoilt,
         Undisturbed(c)'
  PROVE  StateInv'
<1>1. /\ pc'[c] = to /\ \A d \in Command \ {c} : pc'[d] = pc[d]
      /\ pc[c] \notin Resting
  BY DEF StateInv, TypeOK, Goto, AtWork, Resting
<1>2. /\ stale' \in [Command -> BOOLEAN] /\ stale'[c] = stale[c]
      /\ \A d \in Command \ {c} : pc[d] \in AtWork => stale'[d]
      /\ broken' = (broken \/ stale[c] \/ spoilt)
  BY <1>1 DEF Disturbs, StateInv, TypeOK, AtWork, Resting
<1>3. TypeOK'
  BY <1>2 DEF StateInv, TypeOK, Goto
<1>4. ASSUME NEW d \in Command \ {c} PROVE Undisturbed(d)'
  BY <1>1, <1>2 DEF Undisturbed, AtWork, Filling
<1>5. Crossed'
  BY <1>1, <1>2 DEF StateInv, Crossed
<1>6. ASSUME ~broken' PROVE (Saving' # {} => json' = Absent) /\ \A e, d \in Saving' : e = d
  <2>1. ~broken /\ ~stale[c] /\ ~spoilt
    BY <1>2, <1>6 DEF StateInv, TypeOK
  <2>2. \A d \in Command \ {c} : pc[d] # "writeSave"
    BY <2>1 DEF StateInv, Crossed, Filling
  <2>3. \A d \in Saving' : d = c /\ to = "writeSave"
    BY <1>1, <2>2 DEF Saving
  <2>. QED  BY <2>1, <2>3
<1>7. ASSUME ~broken', NEW d \in Command, pc'[d] \in Filling PROVE ~stale'[d]
  <2>1. ~stale[c]
    BY <1>2, <1>7 DEF StateInv, TypeOK
  <2>2. d = c
    BY <1>1, <1>7, <2>1 DEF StateInv, Crossed
  <2>. QED  BY <1>2, <2>1, <2>2
<1>8. SavesAlone'
  BY <1>6, <1>7 DEF SavesAlone
<1>. QED  BY <1>3, <1>4, <1>5, <1>8, <1>1 DEF StateInv

\* A command starts.
LEMMA StartInv == ASSUME StateInv, NEW c \in Command, Start(c) PROVE StateInv'
<1>1. /\ pc[c] \in Resting /\ pc'[c] = IF json = Absent THEN "stat" ELSE "readOld"
      /\ \A d \in Command \ {c} : pc'[d] = pc[d] /\ stale'[d] = stale[d]
      /\ json' = json /\ toml' = toml /\ mem' = mem
      /\ stale'[c] <=> \E d \in Command : pc[d] \in Filling
      /\ broken' = (broken /\ \E d \in Command : pc[d] \notin Resting)
  BY DEF Start, Goto, files, StateInv, TypeOK
<1>2. TypeOK'
  BY <1>1 DEF Start, Goto, files, StateInv, TypeOK, Places
<1>3. Undisturbed(c)'
  BY <1>1 DEF Undisturbed, Filling
<1>4. ASSUME NEW d \in Command \ {c} PROVE Undisturbed(d)'
  BY <1>1 DEF StateInv, Undisturbed, Current
<1>5. Crossed'
  BY <1>1 DEF StateInv, Crossed, Filling
<1>6. Saving' = Saving
  BY <1>1 DEF Saving, Resting
<1>7. ~broken' => ~broken \/ Saving = {}
  BY <1>1 DEF Saving, Resting
<1>8. ASSUME ~broken', NEW d \in Command, pc'[d] \in Filling PROVE ~stale'[d]
  <2>1. d # c /\ pc[d] \in Filling /\ stale'[d] = stale[d]
    BY <1>1, <1>8 DEF Filling
  <2>2. ~broken
    BY <1>1, <1>8, <2>1 DEF Filling, Resting
  <2>. QED  BY <2>1, <2>2 DEF StateInv, SavesAlone
<1>9. SavesAlone'
  BY <1>1, <1>6, <1>7, <1>8 DEF StateInv, SavesAlone
<1>. QED  BY <1>2, <1>3, <1>4, <1>5, <1>9 DEF StateInv

\* The migration of state.json.
LEMMA MigrateInv == ASSUME StateInv, NEW c \in Command, Migrate(c) PROVE StateInv'
<1> USE DEF Places, AtWork, Filling
<1>1. TypeOK /\ Undisturbed(c)
  BY DEF StateInv
<1>2. CASE ReadOld(c)
  <2>1. CASE json \in {Absent, Garbled}
    <3>1. Goto(c, "lost") /\ mem' = [mem EXCEPT ![c] = Created] /\ UNCHANGED <<files, history>>
      BY <1>2, <2>1 DEF ReadOld, Quit, Keep
    <3>2. pc'[c] = "lost" /\ pc[c] = "readOld" /\ stale' = stale /\ broken' = broken
      BY <1>1, <1>2, <3>1 DEF ReadOld, Goto, TypeOK, history
    <3>3. Undisturbed(c)'
      BY <1>1, <2>1, <3>1, <3>2 DEF Undisturbed, files
    <3>. QED  BY <1>1, <3>1, <3>2, <3>3, QuietStep, CreatedType DEF TypeOK
  <2>2. CASE json \notin {Absent, Garbled}
    <3>1. Goto(c, "openOld") /\ mem' = [mem EXCEPT ![c] = json] /\ UNCHANGED <<files, history>>
      BY <1>2, <2>2 DEF ReadOld, Keep
    <3>2. /\ pc'[c] = "openOld" /\ pc[c] = "readOld" /\ stale' = stale /\ broken' = broken
          /\ mem'[c] = json' /\ json \in Settings
      BY <1>1, <1>2, <2>2, <3>1 DEF ReadOld, Goto, TypeOK, history, files
    <3>3. Undisturbed(c)'
      BY <3>2 DEF Undisturbed
    <3>. QED  BY <1>1, <3>1, <3>2, <3>3, QuietStep DEF TypeOK
  <2>. QED  BY <2>1, <2>2
<1>3. CASE Open(c, "openOld", "writeOld")
  <2>1. /\ pc[c] = "openOld" /\ pc'[c] = "writeOld" /\ toml' = Blank /\ json' = json /\ mem' = mem
        /\ Goto(c, "writeOld") /\ Disturbs(c, FALSE)
    BY <1>1, <1>3 DEF Open, Goto, TypeOK
  <2>2. stale'[c] = stale[c]
    BY <1>1, <2>1 DEF Disturbs, Resting, TypeOK
  <2>3. Undisturbed(c)'
    BY <1>1, <2>1, <2>2 DEF Undisturbed
  <2>. QED  BY <1>1, <2>1, <2>3, DisturbingStep DEF TypeOK
<1>4. CASE Write(c, "writeOld", "removeOld")
  <2>1. /\ pc[c] = "writeOld" /\ pc'[c] = "removeOld" /\ json' = json /\ mem' = mem
        /\ Goto(c, "removeOld") /\ Disturbs(c, FALSE)
    BY <1>1, <1>4 DEF Write, Goto, TypeOK
  <2>2. stale'[c] = stale[c]
    BY <1>1, <2>1 DEF Disturbs, Resting, TypeOK
  <2>3. toml' \in Settings \union {Garbled} /\ (toml = Blank => toml' = mem[c])
    BY <1>1, <1>4, OverlayType, StateFileAssumption DEF Write, TypeOK
  <2>4. Undisturbed(c)'
    BY <1>1, <2>1, <2>2, <2>3, StateFileAssumption DEF Undisturbed, TypeOK
  <2>. QED  BY <1>1, <2>1, <2>3, <2>4, DisturbingStep DEF TypeOK
<1>5. CASE RemoveOld(c)
  <2>1. pc[c] = "removeOld" /\ pc'[c] = "stat" /\ Goto(c, "stat") /\ toml' = toml /\ mem' = mem
    BY <1>1, <1>5 DEF RemoveOld, Goto, TypeOK
  <2>2. Undisturbed(c)'
    BY <2>1 DEF Undisturbed
  <2>3. CASE json' = Absent /\ Disturbs(c, FALSE)
    BY <1>1, <2>1, <2>2, <2>3, DisturbingStep DEF TypeOK
  <2>4. CASE json' = json /\ stale' = stale /\ broken' = broken
    BY <1>1, <2>1, <2>2, <2>4, QuietStep DEF TypeOK, files
  <2>. QED  BY <1>5, <2>3, <2>4 DEF RemoveOld, history
<1>. QED  BY <1>2, <1>3, <1>4, <1>5 DEF Migrate

\* loadState creates the file, or reads it.
LEMMA LoadInv == ASSUME StateInv, NEW c \in Command, Load(c) PROVE StateInv'
<1> USE DEF Places, AtWork, Filling
<1>1. TypeOK /\ Undisturbed(c)
  BY DEF StateInv
<1>2. CASE Stat(c)
  <2>1. /\ pc[c] = "stat" /\ UNCHANGED <<files, stale, broken>> /\ mem' \in [Command -> Settings]
        /\ \A d \in Command \ {c} : mem'[d] = mem[d]
    BY <1>1, <1>2, CreatedType DEF Stat, Keep, TypeOK, history
  <2>2. CASE toml = Absent
    <3>1. Goto(c, "openNew") /\ mem'[c] = Created /\ pc'[c] = "openNew" /\ toml' = toml
      BY <1>1, <1>2, <2>2 DEF Stat, Goto, Keep, TypeOK, files
    <3>2. Undisturbed(c)'
      BY <2>2, <3>1 DEF Undisturbed
    <3>. QED  BY <1>1, <2>1, <3>1, <3>2, QuietStep DEF TypeOK
  <2>3. CASE toml # Absent
    <3>1. Goto(c, "read") /\ pc'[c] = "read" /\ toml' = toml
      BY <1>1, <1>2, <2>3 DEF Stat, Goto, TypeOK, files
    <3>2. Undisturbed(c)'
      BY <2>3, <3>1 DEF Undisturbed
    <3>. QED  BY <1>1, <2>1, <3>1, <3>2, QuietStep DEF TypeOK
  <2>. QED  BY <2>2, <2>3
<1>3. CASE Read(c)
  <2>1. pc[c] = "read" /\ UNCHANGED <<files, stale, broken>> /\ toml' = toml
    BY <1>1, <1>3 DEF Read, history, files
  <2>2. CASE toml \in {Absent, Garbled}
    <3>1. Goto(c, "lost") /\ mem' = [mem EXCEPT ![c] = Created] /\ pc'[c] = "lost"
      BY <1>1, <1>3, <2>2 DEF Read, Quit, Keep, Goto, TypeOK
    <3>2. Undisturbed(c)'
      BY <1>1, <2>1, <2>2, <3>1 DEF Undisturbed
    <3>. QED  BY <1>1, <2>1, <3>1, <3>2, QuietStep, CreatedType DEF TypeOK
  <2>3. CASE toml \notin {Absent, Garbled}
    <3>1. Current = IF toml = Blank THEN Created ELSE toml
      BY <1>1, <2>3, StateFileAssumption DEF Current, TypeOK
    <3>2. Goto(c, "loaded") /\ mem' = [mem EXCEPT ![c] = Current] /\ pc'[c] = "loaded"
      BY <1>1, <1>3, <2>3, <3>1 DEF Read, Keep, Goto, TypeOK
    <3>3. Current \in Settings /\ Current' = Current
      BY <2>1, CreatedType DEF Current
    <3>4. Undisturbed(c)'
      BY <1>1, <3>2, <3>3 DEF Undisturbed, TypeOK
    <3>. QED  BY <1>1, <2>1, <3>2, <3>3, <3>4, QuietStep DEF TypeOK
  <2>. QED  BY <2>2, <2>3
<1>4. CASE Open(c, "openNew", "writeNew")
  <2>1. /\ pc[c] = "openNew" /\ pc'[c] = "writeNew" /\ toml' = Blank /\ json' = json /\ mem' = mem
        /\ Goto(c, "writeNew") /\ Disturbs(c, FALSE)
    BY <1>1, <1>4 DEF Open, Goto, TypeOK
  <2>2. stale'[c] = stale[c]
    BY <1>1, <2>1 DEF Disturbs, Resting, TypeOK
  <2>3. Undisturbed(c)'
    BY <1>1, <2>1, <2>2 DEF Undisturbed
  <2>. QED  BY <1>1, <2>1, <2>3, DisturbingStep DEF TypeOK
<1>5. CASE Write(c, "writeNew", "loaded")
  <2>1. /\ pc[c] = "writeNew" /\ pc'[c] = "loaded" /\ json' = json /\ mem' = mem
        /\ Goto(c, "loaded") /\ Disturbs(c, FALSE)
    BY <1>1, <1>5 DEF Write, Goto, TypeOK
  <2>2. stale'[c] = stale[c]
    BY <1>1, <2>1 DEF Disturbs, Resting, TypeOK
  <2>3. toml' \in Settings \union {Garbled} /\ (toml = Blank => toml' = mem[c])
    BY <1>1, <1>5, OverlayType, StateFileAssumption DEF Write, TypeOK
  <2>4. Undisturbed(c)'
    BY <1>1, <2>1, <2>2, <2>3, CreatedType DEF Undisturbed, Current
  <2>. QED  BY <1>1, <2>1, <2>3, <2>4, DisturbingStep DEF TypeOK
<1>6. CASE LoadFails(c)
  <2>1. /\ pc[c] \in Fallible /\ Goto(c, "failed") /\ mem' = [mem EXCEPT ![c] = Created]
        /\ json' = json /\ stale' = stale /\ broken' = broken
        /\ toml' \in {toml} \union (IF pc[c] \in Filling THEN {mem[c], Garbled} ELSE {})
    BY <1>6 DEF LoadFails, Quit, Keep
  <2>2. toml' \in Settings \union {Garbled, toml} /\ (toml' # toml => pc[c] \in Filling)
    BY <1>1, <2>1 DEF TypeOK
  <2>. QED  BY <1>1, <2>1, <2>2, FailingStep DEF Fallible, TypeOK
<1>. QED  BY <1>2, <1>3, <1>4, <1>5, <1>6, MigrateInv DEF Load

\* A command sets keys, and saves.
LEMMA SaveInv == ASSUME StateInv, NEW c \in Command, Set(c) \/ Save(c) PROVE StateInv'
<1> USE DEF Places, AtWork, Filling
<1>1. TypeOK /\ Undisturbed(c)
  BY DEF StateInv
<1>2. CASE Set(c)
  <2>1. PICK ch \in Change : mem' = [mem EXCEPT ![c] = Overlay(ch, mem[c])]
    BY <1>2 DEF Set, Keep
  <2>2. /\ pc[c] = "loaded" /\ Goto(c, "openSave") /\ UNCHANGED <<files, stale, broken>>
        /\ pc'[c] = "openSave" /\ toml' = toml /\ ch \in Settings
    BY <1>1, <1>2, StateFileAssumption DEF Set, Goto, TypeOK, history, files
  <2>3. mem'[c] = Overlay(ch, mem[c]) /\ mem' \in [Command -> Settings]
    BY <1>1, <2>1, <2>2, OverlayType DEF TypeOK
  <2>4. Current' = Current
    BY <2>2 DEF Current
  <2>5. Undisturbed(c)'
    BY <1>1, <2>2, <2>3, <2>4 DEF Undisturbed
  <2>. QED  BY <1>1, <2>1, <2>2, <2>3, <2>5, QuietStep DEF TypeOK
<1>3. CASE Open(c, "openSave", "writeSave")
  <2>1. /\ pc[c] = "openSave" /\ pc'[c] = "writeSave" /\ toml' = Blank /\ json' = json /\ mem' = mem
        /\ Goto(c, "writeSave") /\ Disturbs(c, json # Absent)
    BY <1>1, <1>3 DEF Open, Goto, TypeOK
  <2>2. stale'[c] = stale[c]
    BY <1>1, <2>1 DEF Disturbs, Resting, TypeOK
  <2>3. Undisturbed(c)'
    BY <1>1, <2>1, <2>2 DEF Undisturbed
  <2>. QED  BY <1>1, <2>1, <2>3, DisturbingStep DEF TypeOK
<1>4. CASE Write(c, "writeSave", "saved")
  <2>1. /\ pc[c] = "writeSave" /\ pc'[c] = "saved" /\ json' = json
        /\ mem' = [mem EXCEPT ![c] = Created] /\ Goto(c, "saved") /\ Disturbs(c, FALSE)
    BY <1>1, <1>4 DEF Write, Quit, Keep, Goto, TypeOK
  <2>2. toml' \in Settings \union {Garbled}
    BY <1>1, <1>4, OverlayType DEF Write, TypeOK
  <2>3. Undisturbed(c)'
    BY <2>1 DEF Undisturbed
  <2>. QED  BY <1>1, <2>1, <2>2, <2>3, DisturbingStep, CreatedType DEF TypeOK
<1>. QED  BY <1>2, <1>3, <1>4 DEF Save

\* A command ends or is killed, or begins or ends to listen.
LEMMA LeaveInv ==
  ASSUME StateInv, NEW c \in Command, NEW to \in {"idle", "listening"}, Goto(c, to),
         mem' \in {mem, [mem EXCEPT ![c] = Created]},
         stale' \in {stale, [stale EXCEPT ![c] = FALSE]},
         UNCHANGED files, broken' \in BOOLEAN, ~broken' => ~broken
  PROVE  StateInv'
<1>1. TypeOK /\ pc'[c] = to
  BY DEF StateInv, TypeOK, Goto
<1>2. Undisturbed(c)'
  BY <1>1 DEF Undisturbed, Filling
<1>. QED  BY <1>1, <1>2, QuietStep, CreatedType DEF TypeOK, Places, AtWork, Filling

\* Nothing is begun at first.
LEMMA StateInit == Init => StateInv
<1> SUFFICES ASSUME Init PROVE StateInv
  OBVIOUS
<1>1. TypeOK
  BY StateFileAssumption, CreatedType DEF Init, TypeOK, Places
<1>2. Saving = {} /\ Crossed /\ \A c \in Command : pc[c] \notin Filling /\ Undisturbed(c)
  BY DEF Init, Saving, Crossed, Undisturbed, Filling
<1>. QED  BY <1>1, <1>2 DEF StateInv, SavesAlone

\* Every step keeps the invariant.
LEMMA StateNext == StateInv /\ [CliNext]_cliVars => StateInv'
<1> SUFFICES ASSUME StateInv, [CliNext]_cliVars PROVE StateInv'
  OBVIOUS
<1>1. TypeOK
  BY DEF StateInv
<1>2. ASSUME NEW c \in Command, Other(c) PROVE StateInv'
  <2>1. CASE End(c)
    BY <1>1, <2>1, LeaveInv DEF End, Quit, Keep, TypeOK
  <2>2. CASE Interrupt(c)
    <3>1. broken' \in BOOLEAN /\ (~broken' => ~broken)
      BY <1>1, <2>2 DEF Interrupt, TypeOK
    <3>2. toml' \in Settings \union {Garbled, toml} /\ (toml' # toml => pc[c] \in Filling)
      BY <1>1, <2>2 DEF Interrupt, TypeOK, Filling
    <3>. QED  BY <2>2, <3>1, <3>2, FailingStep DEF Interrupt, Quit, Keep
  <2>. QED  BY <1>2, <2>1, <2>2, StartInv, LoadInv, SaveInv DEF Other
<1>3. CASE Listen
  BY <1>1, <1>3, CliAssumption, LeaveInv DEF Listen, Quit, Keep, TypeOK
<1>4. CASE ListenEnds
  <2>1. mem' = mem /\ stale' = stale /\ broken' = broken /\ UNCHANGED files /\ Goto(Listener, "idle")
    BY <1>4 DEF ListenEnds, history
  <2>. QED  BY <1>1, <2>1, CliAssumption, LeaveInv DEF TypeOK
<1>5. CASE UNCHANGED vars
  BY <1>5 DEF vars, files, history, StateInv, TypeOK, Undisturbed, Current, Crossed, SavesAlone, Saving
<1>. QED
  BY <1>2, <1>3, <1>4, <1>5 DEF CliNext, cliVars, Dialling, Reading, Waiting, Outside

\* The invariant holds in every reachable state.
THEOREM StateInvariance == CliSpec => []StateInv
<1>1. CliInit => StateInv
  BY StateInit DEF CliInit
<1>. QED  BY <1>1, StateNext, PTL DEF CliSpec

\* A command that no other one has disturbed, whose own calls succeeded and whose files
\* parse has its state, whatever the first one found and wherever earlier ones were
\* cut off.
THEOREM StateIfAlone == CliSpec => []StateUnlessDisturbed
<1>1. StateInv => StateUnlessDisturbed
  BY DEF StateInv, Undisturbed, Stateless, StateUnlessDisturbed
<1>. QED  BY <1>1, StateInvariance, PTL

-----------------------------------------------------------------------------
(***************************************************************************)
(* The state file implements the store of settings.                        *)
(***************************************************************************)

Phases == [c \in Command |-> Phase(c)]

\* What a place is to the store.
PhaseAt(place) ==
  IF place = "idle" THEN "idle" ELSE IF place \in {"writeSave", "saved"} THEN "saved" ELSE "busy"

\* A command that goes somewhere changes its own phase.
LEMMA PhaseStep ==
  ASSUME TypeOK, NEW c \in Command, NEW to, Goto(c, to)
  PROVE  Phases' = [Phases EXCEPT ![c] = PhaseAt(to)] /\ Phases[c] = PhaseAt(pc[c])
<1>1. \A d \in Command : Phase(d) = PhaseAt(pc[d]) /\ Phase(d)' = PhaseAt(pc'[d])
  BY DEF Phase, PhaseAt
<1>2. pc'[c] = to /\ \A d \in Command \ {c} : pc'[d] = pc[d]
  BY DEF TypeOK, Goto
<1>. QED  BY <1>1, <1>2 DEF Phases

\* The steps of the store, as they are seen from here.
LEMMA StoreSteps ==
  ASSUME TypeOK, NEW c \in Command, NEW to, Goto(c, to), broken' = broken
  PROVE  /\ Stored' = Stored /\ PhaseAt(to) = PhaseAt(pc[c]) => UNCHANGED Store!promise
         /\ Stored' = Stored /\ PhaseAt(pc[c]) # "busy" /\ PhaseAt(to) = "busy" => Store!Begin(c)
         /\ Stored' = Stored /\ PhaseAt(pc[c]) # "idle" /\ to = "idle" => Store!End(c)
         /\ (\E ch \in Change : Stored' = Overlay(ch, Stored))
              /\ PhaseAt(pc[c]) = "busy" /\ PhaseAt(to) = "saved" => Store!Save(c)
<1>1. Phases' = [Phases EXCEPT ![c] = PhaseAt(to)] /\ Phases[c] = PhaseAt(pc[c])
  BY PhaseStep
<1>2. PhaseAt(to) = PhaseAt(pc[c]) => Phases' = Phases
  BY <1>1 DEF Phases
<1>3. PhaseAt("idle") = "idle"
  BY DEF PhaseAt
<1>. QED
  BY <1>1, <1>2, <1>3
     DEF Phases, Overlay, Store!promise, Store!Begin, Store!End, Store!Save, Store!Turn

\* Settings stay stored while neither the files change nor what is being saved.
LEMMA StoredKept ==
  ASSUME UNCHANGED files, Saving' = Saving, \A c \in Saving : mem'[c] = mem[c]
  PROVE  Stored' = Stored
<1>1. json' = json /\ toml' = toml
  BY DEF files
<1>2. CASE Saving = {}
  BY <1>1, <1>2 DEF Stored
<1>3. CASE Saving # {}
  <2>1. PICK c : c = CHOOSE d \in Saving : TRUE
    OBVIOUS
  <2>2. c \in Saving /\ c = CHOOSE d \in Saving' : TRUE
    BY <1>3, <2>1
  <2>. QED  BY <1>1, <1>3, <2>1, <2>2 DEF Stored
<1>. QED  BY <1>2, <1>3

\* A step that leaves the files alone leaves the stored settings alone, unless it
\* cuts a save off.
LEMMA QuietStored ==
  ASSUME TypeOK, NEW c \in Command, NEW to, Goto(c, to), UNCHANGED files,
         pc[c] # "writeSave", to # "writeSave",
         \A d \in Command \ {c} : mem'[d] = mem[d]
  PROVE  Stored' = Stored
<1>1. Saving' = Saving /\ c \notin Saving
  BY DEF TypeOK, Goto, Saving
<1>. QED  BY <1>1, StoredKept DEF Saving

\* Only the command that takes an undisturbed step on a file may be saving.
LEMMA NoOtherSaves ==
  ASSUME StateInv, NEW c \in Command, pc[c] \in AtWork, Disturbs(c, FALSE) \/ Disturbs(c, json # Absent),
         NEW to, Goto(c, to), ~broken'
  PROVE  /\ ~broken /\ ~stale[c] /\ Undisturbed(c) /\ TypeOK
         /\ pc[c] = "writeSave" => Saving = {c}
         /\ pc[c] # "writeSave" => Saving = {}
         /\ to = "writeSave" => Saving' = {c}
         /\ to # "writeSave" => Saving' = {}
<1>1. TypeOK /\ Undisturbed(c) /\ Crossed
  BY DEF StateInv
<1>2. ~broken /\ ~stale[c]
  BY <1>1 DEF Disturbs, TypeOK
<1>3. \A d \in Command \ {c} : pc[d] # "writeSave"
  BY <1>2, <1>1 DEF Crossed, Filling
<1>4. pc'[c] = to /\ \A d \in Command \ {c} : pc'[d] = pc[d]
  BY <1>1 DEF TypeOK, Goto
<1>. QED  BY <1>1, <1>2, <1>3, <1>4 DEF Saving

\* After such a step no command is saving, unless it has begun to.
LEMMA NoneSaves ==
  ASSUME StateInv, NEW c \in Command, pc[c] \in AtWork, Disturbs(c, FALSE),
         NEW to, to # "writeSave", Goto(c, to), ~broken'
  PROVE  Saving' = {}
BY NoOtherSaves

\* A command that starts begins, and mends the store if it starts alone.
LEMMA StartStores ==
  ASSUME StateInv, NEW c \in Command, Start(c), ~broken'
  PROVE  Store!Begin(c) \/ Store!Mend(c)
<1>1. TypeOK
  BY DEF StateInv
<1>2. PICK to \in {"stat", "readOld"} : Goto(c, to)
  BY DEF Start
<1>3. pc[c] \in Resting /\ UNCHANGED files /\ mem' = mem
  BY DEF Start
<1>4. Stored' = Stored
  BY <1>1, <1>2, <1>3, QuietStored DEF Resting
<1>5. PhaseAt(pc[c]) # "busy" /\ PhaseAt(to) = "busy"
  BY <1>3 DEF PhaseAt, Resting
<1>6. CASE broken
  <2>1. Phases' = [Phases EXCEPT ![c] = "busy"]
    BY <1>1, <1>2, <1>5, PhaseStep
  <2>. QED  BY <1>4, <1>6, <2>1 DEF Phases, Store!Mend, Store!Turn
<1>7. CASE ~broken
  <2>1. broken' = broken
    BY <1>1, <1>7 DEF Start, TypeOK
  <2>. QED  BY <1>1, <1>2, <1>4, <1>5, <2>1, StoreSteps
<1>. QED  BY <1>6, <1>7

\* The migration changes nothing that is stored.
LEMMA MigrateStores ==
  ASSUME StateInv, NEW c \in Command, Migrate(c), ~broken, ~broken'
  PROVE  UNCHANGED Store!promise
<1>1. TypeOK /\ TypeOK' /\ broken' = broken
  BY MigrateInv DEF StateInv, TypeOK
<1>2. CASE ReadOld(c)
  <2>1. PICK to \in {"lost", "openOld"} : Goto(c, to)
    BY <1>2 DEF ReadOld, Quit
  <2>2. pc[c] = "readOld" /\ UNCHANGED files /\ \A d \in Command \ {c} : mem'[d] = mem[d]
    BY <1>1, <1>2 DEF ReadOld, Quit, Keep, TypeOK
  <2>3. Stored' = Stored
    BY <1>1, <2>1, <2>2, QuietStored
  <2>. QED  BY <1>1, <2>1, <2>2, <2>3, StoreSteps DEF PhaseAt
<1>3. CASE Open(c, "openOld", "writeOld")
  <2>1. /\ pc[c] = "openOld" /\ Goto(c, "writeOld") /\ Disturbs(c, FALSE) /\ json' = json
    BY <1>3 DEF Open
  <2>2. Undisturbed(c) /\ ~stale[c]
    BY <2>1, NoOtherSaves DEF AtWork
  <2>3. json \in Settings
    BY <1>1, <2>1, <2>2 DEF Undisturbed, TypeOK
  <2>4. Stored' = Stored
    BY <2>1, <2>3 DEF Stored
  <2>. QED  BY <1>1, <2>1, <2>4, StoreSteps DEF PhaseAt
<1>4. CASE Write(c, "writeOld", "removeOld")
  <2>1. /\ pc[c] = "writeOld" /\ Goto(c, "removeOld") /\ Disturbs(c, FALSE) /\ json' = json
    BY <1>4 DEF Write
  <2>2. Undisturbed(c) /\ ~stale[c]
    BY <2>1, NoOtherSaves DEF AtWork
  <2>3. json \in Settings
    BY <1>1, <2>1, <2>2 DEF Undisturbed, TypeOK
  <2>4. Stored' = Stored
    BY <2>1, <2>3 DEF Stored
  <2>. QED  BY <1>1, <2>1, <2>4, StoreSteps DEF PhaseAt
<1>5. CASE RemoveOld(c)
  <2>1. pc[c] = "removeOld" /\ Goto(c, "stat") /\ UNCHANGED <<toml, mem>>
    BY <1>5 DEF RemoveOld
  <2>2. CASE json' = Absent /\ Disturbs(c, FALSE)
    <3>. pc[c] \in AtWork /\ "stat" # "writeSave"
      BY <2>1 DEF AtWork
    <3>1. Undisturbed(c) /\ ~stale[c] /\ Saving' = {}
      BY <2>1, <2>2, NoOtherSaves, Zenon
    <3>2. json \in Settings /\ toml = json
      BY <2>1, <3>1 DEF Undisturbed
    <3>3. Stored = json /\ Stored' = toml
      BY <2>1, <2>2, <3>1, <3>2, StateFileAssumption DEF Stored
    <3>. QED  BY <1>1, <2>1, <3>2, <3>3, StoreSteps DEF PhaseAt
  <2>3. CASE json' = json
    <3>1. Stored' = Stored
      BY <1>1, <2>1, <2>3, QuietStored DEF files
    <3>. QED  BY <1>1, <2>1, <3>1, StoreSteps DEF PhaseAt
  <2>. QED  BY <1>5, <2>2, <2>3 DEF RemoveOld
<1>. QED  BY <1>2, <1>3, <1>4, <1>5 DEF Migrate

\* Nor does what loads the state, although it may create the file.
LEMMA LoadStores ==
  ASSUME StateInv, NEW c \in Command, Load(c), ~broken, ~broken'
  PROVE  UNCHANGED Store!promise
<1>1. TypeOK /\ TypeOK' /\ broken' = broken
  BY LoadInv DEF StateInv, TypeOK
<1>2. CASE Stat(c) \/ Read(c)
  <2>1. PICK to \in {"openNew", "read", "lost", "loaded"} : Goto(c, to)
    BY <1>2 DEF Stat, Read, Quit
  <2>2. /\ pc[c] \in {"stat", "read"} /\ UNCHANGED files
        /\ \A d \in Command \ {c} : mem'[d] = mem[d]
    BY <1>1, <1>2 DEF Stat, Read, Quit, Keep, TypeOK
  <2>3. Stored' = Stored
    BY <1>1, <2>1, <2>2, QuietStored
  <2>. QED  BY <1>1, <2>1, <2>2, <2>3, StoreSteps DEF PhaseAt
<1>3. CASE Open(c, "openNew", "writeNew")
  <2>1. /\ pc[c] = "openNew" /\ Goto(c, "writeNew") /\ Disturbs(c, FALSE) /\ json' = json
        /\ toml' = Blank
    BY <1>3 DEF Open
  <2>. pc[c] \in AtWork /\ "writeNew" # "writeSave"
    BY <2>1 DEF AtWork
  <2>2. Undisturbed(c) /\ ~stale[c] /\ Saving = {} /\ Saving' = {}
    BY <2>1, NoOtherSaves, Zenon
  <2>3. toml = Absent
    BY <2>1, <2>2 DEF Undisturbed
  <2>4. Stored' = Stored
    BY <2>1, <2>2, <2>3, StateFileAssumption DEF Stored
  <2>. QED  BY <1>1, <2>1, <2>4, StoreSteps DEF PhaseAt
<1>4. CASE Write(c, "writeNew", "loaded")
  <2>1. /\ pc[c] = "writeNew" /\ Goto(c, "loaded") /\ Disturbs(c, FALSE) /\ json' = json
    BY <1>4 DEF Write
  <2>. pc[c] \in AtWork /\ "loaded" # "writeSave"
    BY <2>1 DEF AtWork
  <2>2. Undisturbed(c) /\ ~stale[c] /\ Saving = {} /\ Saving' = {}
    BY <2>1, NoOtherSaves, Zenon
  <2>3. toml = Blank /\ mem[c] = Created
    BY <2>1, <2>2 DEF Undisturbed, Filling
  <2>4. toml' = Created
    BY <1>4, <2>3, StateFileAssumption DEF Write
  <2>5. Stored' = Stored
    BY <2>1, <2>2, <2>3, <2>4, StateFileAssumption DEF Stored
  <2>. QED  BY <1>1, <2>1, <2>5, StoreSteps DEF PhaseAt
<1>5. CASE LoadFails(c)
  <2>1. /\ pc[c] \in Fallible /\ Goto(c, "failed") /\ mem' = [mem EXCEPT ![c] = Created] /\ json' = json
        /\ toml' \in {toml} \union (IF pc[c] \in Filling THEN {mem[c], Garbled} ELSE {})
    BY <1>5 DEF LoadFails, Quit, Keep
  <2>2. pc[c] # "writeSave" /\ PhaseAt(pc[c]) = "busy" /\ PhaseAt("failed") = "busy"
    BY <2>1 DEF Fallible, PhaseAt
  <2>3. CASE toml' = toml
    <3>1. UNCHANGED files /\ \A d \in Command \ {c} : mem'[d] = mem[d]
      BY <1>1, <2>1, <2>3 DEF files, TypeOK
    <3>2. Stored' = Stored
      BY <1>1, <2>1, <2>2, <3>1, QuietStored
    <3>. QED  BY <1>1, <2>1, <2>2, <3>2, StoreSteps
  <2>4. CASE toml' # toml
    <3>1. pc[c] \in {"writeOld", "writeNew"} /\ toml' \in {mem[c], Garbled}
      BY <2>1, <2>2, <2>4 DEF Filling
    <3>2. ~stale[c] /\ Undisturbed(c)
      BY <3>1 DEF StateInv, SavesAlone, Filling
    <3>3. CASE json \in Settings
      <4>1. Stored' = Stored
        BY <2>1, <3>3 DEF Stored
      <4>. QED  BY <1>1, <2>1, <2>2, <4>1, StoreSteps
    <3>4. CASE json \notin Settings
      <4>1. pc[c] = "writeNew" /\ mem[c] = Created /\ toml = Blank
        BY <1>1, <3>1, <3>2, <3>4 DEF Undisturbed, TypeOK, Filling
      <4>2. Saving = {}
        BY <2>2, <3>1, <3>2 DEF StateInv, Crossed, Saving, Filling, AtWork
      <4>3. Saving' = {}
        BY <1>1, <2>1, <4>2 DEF Saving, Goto, TypeOK
      <4>4. Stored' = Stored
        BY <2>1, <3>1, <3>4, <4>1, <4>2, <4>3, StateFileAssumption, CreatedType DEF Stored
      <4>. QED  BY <1>1, <2>1, <2>2, <4>4, StoreSteps
    <3>. QED  BY <3>3, <3>4
  <2>. QED  BY <2>3, <2>4
<1>. QED  BY <1>2, <1>3, <1>4, <1>5, MigrateStores DEF Load

\* A save changes what the command set, once: as it truncates the file.
LEMMA SaveStores ==
  ASSUME StateInv, NEW c \in Command, Set(c) \/ Save(c), ~broken, ~broken'
  PROVE  Store!Save(c) \/ UNCHANGED Store!promise
<1>1. TypeOK /\ TypeOK' /\ broken' = broken
  BY SaveInv DEF StateInv, TypeOK
<1>2. CASE Set(c)
  <2>1. Goto(c, "openSave") /\ pc[c] = "loaded" /\ UNCHANGED files
    BY <1>2 DEF Set
  <2>2. \A d \in Command \ {c} : mem'[d] = mem[d]
    BY <1>1, <1>2 DEF Set, Keep, TypeOK
  <2>3. Stored' = Stored
    BY <1>1, <2>1, <2>2, QuietStored
  <2>. QED  BY <1>1, <2>1, <2>3, StoreSteps DEF PhaseAt
<1>3. CASE Open(c, "openSave", "writeSave")
  <2>1. /\ pc[c] = "openSave" /\ Goto(c, "writeSave") /\ Disturbs(c, json # Absent)
        /\ json' = json /\ mem' = mem
    BY <1>3 DEF Open
  <2>2. Undisturbed(c) /\ ~stale[c] /\ Saving = {} /\ Saving' = {c}
    BY <2>1, NoOtherSaves DEF AtWork
  <2>3. json = Absent
    BY <2>1 DEF Disturbs
  <2>4. PICK ch \in Change : mem[c] = Overlay(ch, Current)
    BY <2>1, <2>2 DEF Undisturbed
  <2>5. Stored = Current
    BY <2>2, <2>3, StateFileAssumption DEF Stored, Current
  <2>6. Stored' = mem[c]
    BY <2>1, <2>2, <2>3, StateFileAssumption DEF Stored
  <2>7. \E x \in Change : Stored' = Overlay(x, Stored)
    BY <2>4, <2>5, <2>6
  <2>8. PhaseAt(pc[c]) = "busy" /\ PhaseAt("writeSave") = "saved"
    BY <2>1 DEF PhaseAt
  <2>. QED  BY <1>1, <2>1, <2>7, <2>8, StoreSteps
<1>4. CASE Write(c, "writeSave", "saved")
  <2>1. /\ pc[c] = "writeSave" /\ Goto(c, "saved") /\ Disturbs(c, FALSE) /\ json' = json
    BY <1>4 DEF Write, Quit
  <2>. pc[c] \in AtWork /\ "saved" # "writeSave"
    BY <2>1 DEF AtWork
  <2>2. Undisturbed(c) /\ ~stale[c] /\ Saving = {c} /\ Saving' = {}
    <3>1. Undisturbed(c) /\ ~stale[c]
      BY <2>1, NoOtherSaves, Zenon
    <3>2. Saving' = {}
      BY <2>1, NoneSaves, Zenon
    <3>3. Saving = {c}
      BY <2>1, NoOtherSaves
    <3>. QED  BY <3>1, <3>2, <3>3
  <2>3. json = Absent
    BY <2>2 DEF StateInv, SavesAlone
  <2>4. toml = Blank /\ mem[c] \in Settings
    BY <1>1, <2>1, <2>2 DEF Undisturbed, Filling, TypeOK
  <2>5. toml' = mem[c]
    BY <1>4, <2>4, StateFileAssumption DEF Write
  <2>6. (CHOOSE d \in {c} : TRUE) = c
    OBVIOUS
  <2>7. Stored = mem[c]
    BY <2>2, <2>3, <2>6, StateFileAssumption DEF Stored
  <2>8. Stored' = mem[c]
    BY <2>1, <2>2, <2>3, <2>4, <2>5, StateFileAssumption DEF Stored
  <2>. QED  BY <1>1, <2>1, <2>7, <2>8, StoreSteps DEF PhaseAt
<1>. QED  BY <1>2, <1>3, <1>4 DEF Save

\* What ends, ends without a change, unless a save is cut off.
LEMMA LeaveStores ==
  ASSUME StateInv, NEW c \in Command, NEW to \in {"idle", "listening"}, Goto(c, to),
         pc[c] \in AtWork \union {"listening"}, pc[c] # "writeSave", broken' = broken,
         to = "listening" => pc[c] # "idle",
         UNCHANGED files, mem' \in {mem, [mem EXCEPT ![c] = Created]}
  PROVE  Store!End(c) \/ UNCHANGED Store!promise
<1>1. TypeOK
  BY DEF StateInv
<1>2. Stored' = Stored
  BY <1>1, QuietStored DEF TypeOK
<1>3. PhaseAt(pc[c]) = "busy" /\ PhaseAt("listening") = "busy"
  BY DEF AtWork, PhaseAt
<1>4. CASE to = "idle"
  BY <1>1, <1>2, <1>3, <1>4, StoreSteps
<1>5. CASE to = "listening"
  BY <1>1, <1>2, <1>3, <1>5, StoreSteps
<1>. QED  BY <1>4, <1>5

\* Every step of the CLI is a step of the store, or none.
LEMMA StoreNext == StateInv /\ [CliNext]_cliVars => [Store!Next]_Store!promise
<1> SUFFICES ASSUME StateInv, [CliNext]_cliVars PROVE [Store!Next]_Store!promise
  OBVIOUS
<1>1. TypeOK
  BY DEF StateInv
<1>2. CASE broken'
  BY <1>2 DEF Store!Next, Store!Break
<1>3. ASSUME ~broken', NEW c \in Command, Other(c) PROVE [Store!Next]_Store!promise
  <2>1. CASE Start(c)
    BY <1>3, <2>1, StartStores DEF Store!Next
  <2>2. CASE Load(c) \/ Set(c) \/ Save(c)
    <3>1. ~broken
      BY <1>1, <1>3, <2>2
         DEF Load, Migrate, LoadFails, Set, Save, ReadOld, RemoveOld, Stat, Read, Open, Write, Disturbs, history, TypeOK
    <3>. QED  BY <1>3, <2>2, <3>1, LoadStores, SaveStores DEF Store!Next
  <2>3. CASE End(c)
    BY <1>1, <2>3, LeaveStores DEF End, Stateless, Quit, Keep, AtWork, Store!Next
  <2>4. CASE pc[c] # "listening" /\ Interrupt(c)
    <3>1. pc[c] # "writeSave" /\ broken' = broken
      BY <1>1, <1>3, <2>4 DEF Interrupt, TypeOK
    <3>2. pc[c] \in AtWork
      BY <1>1, <2>4 DEF Interrupt, TypeOK, Places, AtWork, Resting
    <3>3. UNCHANGED files
      BY <2>4, <3>1 DEF Interrupt, files
    <3>. QED  BY <1>1, <2>4, <3>1, <3>2, <3>3, LeaveStores DEF Interrupt, Quit, Keep, Store!Next
  <2>. QED  BY <1>3, <2>1, <2>2, <2>3, <2>4 DEF Other
<1>4. CASE Listen
  BY <1>1, <1>4, CliAssumption, LeaveStores DEF Listen, Stateless, Quit, Keep, AtWork, Store!Next
<1>5. CASE ListenEnds
  <2>1. /\ pc[Listener] = "listening" /\ Goto(Listener, "idle") /\ broken' = broken
        /\ UNCHANGED files /\ mem' = mem
    BY <1>5 DEF ListenEnds, history
  <2>. QED  BY <2>1, CliAssumption, LeaveStores DEF Store!Next
<1>6. CASE UNCHANGED vars
  <2>1. Saving' = Saving
    BY <1>6 DEF vars, Saving
  <2>2. Stored' = Stored
    BY <1>6, <2>1, StoredKept DEF vars
  <2>3. [c \in Command |-> Phase(c)]' = [c \in Command |-> Phase(c)] /\ broken' = broken
    BY <1>6 DEF vars, history, Phase
  <2>. QED  BY <2>2, <2>3 DEF Store!promise
<1>. QED
  BY <1>2, <1>3, <1>4, <1>5, <1>6 DEF CliNext, cliVars, Dialling, Reading, Waiting, Outside

\* The CLI's state is one store of settings: a setting that was saved is found again,
\* whatever is migrated, created, killed and begun anew, unless a command has saved
\* over another's change or was cut off while it saved.
THEOREM StateImplementation == CliSpec => StoreSpec
<1>1. CliInit => Store!Init
  <2> SUFFICES ASSUME Init PROVE Store!Init
    BY DEF CliInit
  <2>1. PICK i \in Initial : json = i[1] /\ toml = i[2]
    BY DEF Init
  <2>3. Saving = {}
    BY DEF Init, Saving
  <2>4. Stored = Found(i)
    BY <2>1, <2>3 DEF Stored, Found
  <2>5. [c \in Command |-> Phase(c)] = [c \in Command |-> "idle"]
    BY DEF Init, Phase
  <2>6. ~broken
    BY DEF Init
  <2>. QED  BY <2>4, <2>5, <2>6 DEF Store!Init
<1>. QED  BY <1>1, StateInvariance, StoreNext, PTL DEF CliSpec, StoreSpec, Store!Spec
=============================================================================
