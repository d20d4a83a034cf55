------------------------------ MODULE CtlProof ------------------------------
(***************************************************************************)
(* Proofs about Ctl, for any terminals, commands and compose files, whose  *)
(* services and extensions may be anything.                                *)
(***************************************************************************)
EXTENDS Ctl, FiniteSetTheorems, WellFoundedInduction, TLAPS

TypeOK ==
  /\ pc \in [Terminal -> Busy \union {"idle", "native", "done", "failed"}]
  /\ asked \in [Terminal -> Requests]
  /\ left = [c \in Terminal |-> left[c]]
  /\ calm \in [Terminal -> BOOLEAN]

\* The services of the command that c is at.
Tied(c) == Services(asked[c].entry)

\* A --native that gets as far as to run its service has it in its composition.
SpawnInv == \A c \in Terminal : pc[c] = "spawn" => Target(c) \in Tied(c)
KillInv == \A c \in Terminal : pc[c] = "up" => left[c] = {}

\* Two commands that are at work on a service have been noted.
Noted(s) == \A c, d \in Terminal : c # d /\ pc[c] \in Busy /\ pc[d] \in Busy => s \notin Tied(c) \intersect Tied(d)

\* A service whose handover goes well is in one place,
OnePlace(s) == s \in native => box[s] = {}

\* has no container once it has been stopped for --native,
Freed(s) == \A c \in Terminal : pc[c] = "spawn" /\ Target(c) = s => box[s] = {}

\* does not run natively once the loop has been at it,
Ended(s) ==
  \A c \in Terminal : pc[c] \in {"kill", "up"} /\ s \in (Tied(c) \intersect Included(asked[c])) \ left[c] => s \notin native

\* and is only said to be run by hand while it has no container and nothing is
\* about to give it one.
Told(s) == s \in told => box[s] = {} /\ \A c \in Terminal : pc[c] \in Busy => s \notin Tied(c)

HandoverInv(s) == Noted(s) /\ OnePlace(s) /\ Freed(s) /\ Ended(s) /\ Told(s)

IInv == TypeOK /\ SpawnInv /\ KillInv /\ \A s \in Service \ slipped : HandoverInv(s)

-----------------------------------------------------------------------------
CalmInv == \A c, d \in Terminal : calm[c] /\ d # c => pc[d] \notin Busy

\* What a command that has succeeded leaves up.
Outcome(c) ==
  IF asked[c].verb = "stop"
    THEN \A s \in Tied(c) : box[s] = {}
    ELSE \E env \in Environments(c) :
           \A s \in Tied(c) : box[s] = IF s \in Excluded(asked[c]) THEN {} ELSE {env}

OutcomeInv ==
  \A c \in Terminal :
    /\ pc[c] \in {"kill", "up"} => asked[c].verb # "stop"
    /\ pc[c] \in {"down", "kill", "up"} => asked[c].verb = "stop" \/ asked[c].native = NoNative
    /\ pc[c] \in {"stop", "spawn", "native"} => asked[c].verb # "stop" /\ asked[c].native # NoNative
    /\ Settled(c) => Outcome(c)

-----------------------------------------------------------------------------
\* A service that is not in the composition says nothing.
LEMMA SaysNothing ==
  ASSUME NEW e, NEW s, s \notin Services(e) PROVE FindSchemafByService(e, s) = NoSchemaf
<1>1. \A i \in DOMAIN Resolved[e] : s \notin Resolved[e][i].services
  BY DEF Services
<1>. QED  BY <1>1 DEF FindSchemafByService

\* As long as no terminal is given another command, all that follows from it stays.
LEMMA SameCommands ==
  ASSUME asked' = asked
  PROVE  \A c : /\ Tied(c)' = Tied(c) /\ Target(c)' = Target(c)
                /\ Included(asked[c])' = Included(asked[c]) /\ Excluded(asked[c])' = Excluded(asked[c])
                /\ Environments(c)' = Environments(c)
BY DEF Tied, Target, Environments, Environment

\* Every step keeps the types.
LEMMA NextTypeOK == TypeOK /\ [Next]_vars => TypeOK'
<1> SUFFICES ASSUME TypeOK, [Next]_vars PROVE TypeOK'
  OBVIOUS
<1> USE DEF TypeOK, Busy, Goto, AfterDown, machine, history
<1>1. ASSUME NEW c \in Terminal, NEW a \in Requests, Type(c, a) PROVE TypeOK'
  BY <1>1 DEF Type
<1>2. ASSUME NEW c \in Terminal, StopContainer(c) PROVE TypeOK'
  BY <1>2 DEF StopContainer
<1>3. ASSUME NEW c \in Terminal, RunShell(c) PROVE TypeOK'
  BY <1>3 DEF RunShell
<1>4. ASSUME NEW c \in Terminal, ShellEnds(c) PROVE TypeOK'
  BY <1>4 DEF ShellEnds
<1>5. ASSUME NEW c \in Terminal, Down(c) PROVE TypeOK'
  BY <1>5 DEF Down
<1>6. ASSUME NEW c \in Terminal, DownFails(c) PROVE TypeOK'
  BY <1>6 DEF DownFails
<1>7. ASSUME NEW c \in Terminal, NativeStop(c) PROVE TypeOK'
  BY <1>7 DEF NativeStop
<1>8. ASSUME NEW c \in Terminal, Killed(c) PROVE TypeOK'
  BY <1>8 DEF Killed
<1>9. ASSUME NEW c \in Terminal, ComposeUp(c) PROVE TypeOK'
  BY <1>9 DEF ComposeUp
<1>10. ASSUME NEW c \in Terminal, ComposeUpFails(c) PROVE TypeOK'
  BY <1>10 DEF ComposeUpFails
<1>11. ASSUME NEW c \in Terminal, Interrupt(c) PROVE TypeOK'
  BY <1>11 DEF Interrupt
<1>12. ASSUME NEW s \in Service, RunByHand(s) PROVE TypeOK'
  BY <1>12 DEF RunByHand
<1>13. ASSUME NEW s \in Service, EndByHand(s) PROVE TypeOK'
  BY <1>13 DEF EndByHand
<1>14. CASE UNCHANGED vars
  BY <1>14 DEF vars, machine, history
<1>. QED  BY <1>1, <1>2, <1>3, <1>4, <1>5, <1>6, <1>7, <1>8, <1>9, <1>10, <1>11, <1>12, <1>13, <1>14 DEF Next

\* What --native runs is in the composition, and the loop is over at the end.
LEMMA NextSpawn == TypeOK /\ SpawnInv /\ KillInv /\ [Next]_vars => (SpawnInv /\ KillInv)'
<1> SUFFICES ASSUME TypeOK /\ SpawnInv /\ KillInv, [Next]_vars PROVE (SpawnInv /\ KillInv)'
  OBVIOUS
<1> USE DEF TypeOK, SpawnInv, KillInv, Busy, Goto, AfterDown, Tied, Target, machine, history
<1>1. ASSUME NEW c \in Terminal, NEW a \in Requests, Type(c, a) PROVE (SpawnInv /\ KillInv)'
  BY <1>1 DEF Type
<1>2. ASSUME NEW c \in Terminal, StopContainer(c) PROVE (SpawnInv /\ KillInv)'
  <2>1. Schemaf(c, Target(c)).run => Target(c) \in Tied(c)
    BY SaysNothing DEF Schemaf, Tied, NoSchemaf
  <2>. QED  BY <1>2, <2>1 DEF StopContainer
<1>3. ASSUME NEW c \in Terminal, RunShell(c) PROVE (SpawnInv /\ KillInv)'
  BY <1>3 DEF RunShell
<1>4. ASSUME NEW c \in Terminal, ShellEnds(c) PROVE (SpawnInv /\ KillInv)'
  BY <1>4 DEF ShellEnds
<1>5. ASSUME NEW c \in Terminal, Down(c) PROVE (SpawnInv /\ KillInv)'
  BY <1>5 DEF Down
<1>6. ASSUME NEW c \in Terminal, DownFails(c) PROVE (SpawnInv /\ KillInv)'
  BY <1>6 DEF DownFails
<1>7. ASSUME NEW c \in Terminal, NativeStop(c) PROVE (SpawnInv /\ KillInv)'
  BY <1>7 DEF NativeStop
<1>8. ASSUME NEW c \in Terminal, Killed(c) PROVE (SpawnInv /\ KillInv)'
  BY <1>8 DEF Killed
<1>9. ASSUME NEW c \in Terminal, ComposeUp(c) PROVE (SpawnInv /\ KillInv)'
  BY <1>9 DEF ComposeUp
<1>10. ASSUME NEW c \in Terminal, ComposeUpFails(c) PROVE (SpawnInv /\ KillInv)'
  BY <1>10 DEF ComposeUpFails
<1>11. ASSUME NEW c \in Terminal, Interrupt(c) PROVE (SpawnInv /\ KillInv)'
  BY <1>11 DEF Interrupt
<1>12. ASSUME NEW s \in Service, RunByHand(s) PROVE (SpawnInv /\ KillInv)'
  BY <1>12 DEF RunByHand
<1>13. ASSUME NEW s \in Service, EndByHand(s) PROVE (SpawnInv /\ KillInv)'
  BY <1>13 DEF EndByHand
<1>14. CASE UNCHANGED vars
  BY <1>14 DEF vars, machine, history
<1>. QED  BY <1>1, <1>2, <1>3, <1>4, <1>5, <1>6, <1>7, <1>8, <1>9, <1>10, <1>11, <1>12, <1>13, <1>14 DEF Next

\* Every step keeps what is claimed of a service whose handover goes well.
LEMMA NextHandover == IInv /\ [Next]_vars => \A s \in Service \ slipped' : HandoverInv(s)'
<1> SUFFICES ASSUME IInv, [Next]_vars, NEW s \in Service, s \notin slipped' PROVE HandoverInv(s)'
  OBVIOUS
<1> USE DEF IInv, TypeOK, HandoverInv, Noted, OnePlace, Freed, Ended, Told, SpawnInv, KillInv, Busy, Goto, machine, history
<1>1. ASSUME NEW c \in Terminal, NEW a \in Requests, Type(c, a) PROVE HandoverInv(s)'
  BY <1>1 DEF Type, Tied, Target
<1>2. ASSUME NEW c \in Terminal, StopContainer(c) PROVE HandoverInv(s)'
  BY <1>2, SameCommands DEF StopContainer, Without
<1>3. ASSUME NEW c \in Terminal, RunShell(c) PROVE HandoverInv(s)'
  BY <1>3, SameCommands DEF RunShell
<1>4. ASSUME NEW c \in Terminal, ShellEnds(c) PROVE HandoverInv(s)'
  BY <1>4, SameCommands DEF ShellEnds
<1>5. ASSUME NEW c \in Terminal, Down(c) PROVE HandoverInv(s)'
  BY <1>5, SameCommands DEF Down, AfterDown, Without
<1>6. ASSUME NEW c \in Terminal, DownFails(c) PROVE HandoverInv(s)'
  BY <1>6, SameCommands DEF DownFails, AfterDown, Without
<1>7. ASSUME NEW c \in Terminal, NativeStop(c) PROVE HandoverInv(s)'
  BY <1>7, SameCommands DEF NativeStop
<1>8. ASSUME NEW c \in Terminal, Killed(c) PROVE HandoverInv(s)'
  BY <1>8, SameCommands DEF Killed
<1>9. ASSUME NEW c \in Terminal, ComposeUp(c) PROVE HandoverInv(s)'
  BY <1>9, SameCommands DEF ComposeUp, Excluded, Tied
<1>10. ASSUME NEW c \in Terminal, ComposeUpFails(c) PROVE HandoverInv(s)'
  BY <1>10, SameCommands DEF ComposeUpFails, Excluded, Tied
<1>11. ASSUME NEW c \in Terminal, Interrupt(c) PROVE HandoverInv(s)'
  BY <1>11, SameCommands DEF Interrupt
<1>12. ASSUME NEW t \in Service, RunByHand(t) PROVE HandoverInv(s)'
  BY <1>12, SameCommands DEF RunByHand
<1>13. ASSUME NEW t \in Service, EndByHand(t) PROVE HandoverInv(s)'
  BY <1>13, SameCommands DEF EndByHand
<1>14. CASE UNCHANGED vars
  BY <1>14, SameCommands DEF vars
<1>. QED  BY <1>1, <1>2, <1>3, <1>4, <1>5, <1>6, <1>7, <1>8, <1>9, <1>10, <1>11, <1>12, <1>13, <1>14 DEF Next

\* The invariant of the handover holds in every reachable state: between container
\* and native process each command relies on what the loop before it has stopped.
THEOREM HandoverInvariance == Spec => []IInv
<1>1. Init => IInv
  BY CtlAssumption DEF Init, IInv, TypeOK, Busy, SpawnInv, KillInv, HandoverInv, Noted, OnePlace, Freed, Ended, Told
<1>2. IInv /\ [Next]_vars => IInv'
  BY NextTypeOK, NextSpawn, NextHandover DEF IInv
<1>. QED  BY <1>1, <1>2, PTL DEF Spec

\* A service is never in its container and natively at once, unless its handover
\* went wrong.
THEOREM InOnePlace == Spec => []NotTwice
<1>1. IInv => NotTwice
  BY DEF IInv, HandoverInv, OnePlace, NotTwice, Up
<1>. QED  BY <1>1, HandoverInvariance, PTL

-----------------------------------------------------------------------------
\* A command that was alone when it was typed is alone until another is.
LEMMA NextCalm == TypeOK /\ CalmInv /\ [Next]_vars => CalmInv'
<1> SUFFICES ASSUME TypeOK /\ CalmInv, [Next]_vars PROVE CalmInv'
  OBVIOUS
<1> USE DEF TypeOK, CalmInv, Busy, Goto, machine, history
<1>1. ASSUME NEW c \in Terminal, NEW a \in Requests, Type(c, a) PROVE CalmInv'
  BY <1>1 DEF Type
<1>2. ASSUME NEW c \in Terminal, StopContainer(c) PROVE CalmInv'
  BY <1>2 DEF StopContainer
<1>3. ASSUME NEW c \in Terminal, RunShell(c) PROVE CalmInv'
  BY <1>3 DEF RunShell
<1>4. ASSUME NEW c \in Terminal, ShellEnds(c) PROVE CalmInv'
  BY <1>4 DEF ShellEnds
<1>5. ASSUME NEW c \in Terminal, Down(c) PROVE CalmInv'
  BY <1>5 DEF Down, AfterDown
<1>6. ASSUME NEW c \in Terminal, DownFails(c) PROVE CalmInv'
  BY <1>6 DEF DownFails, AfterDown
<1>7. ASSUME NEW c \in Terminal, NativeStop(c) PROVE CalmInv'
  BY <1>7 DEF NativeStop
<1>8. ASSUME NEW c \in Terminal, Killed(c) PROVE CalmInv'
  BY <1>8 DEF Killed
<1>9. ASSUME NEW c \in Terminal, ComposeUp(c) PROVE CalmInv'
  BY <1>9 DEF ComposeUp
<1>10. ASSUME NEW c \in Terminal, ComposeUpFails(c) PROVE CalmInv'
  BY <1>10 DEF ComposeUpFails
<1>11. ASSUME NEW c \in Terminal, Interrupt(c) PROVE CalmInv'
  BY <1>11 DEF Interrupt
<1>12. ASSUME NEW t \in Service, RunByHand(t) PROVE CalmInv'
  BY <1>12 DEF RunByHand
<1>13. ASSUME NEW t \in Service, EndByHand(t) PROVE CalmInv'
  BY <1>13 DEF EndByHand
<1>14. CASE UNCHANGED vars
  BY <1>14 DEF vars
<1>. QED  BY <1>1, <1>2, <1>3, <1>4, <1>5, <1>6, <1>7, <1>8, <1>9, <1>10, <1>11, <1>12, <1>13, <1>14 DEF Next

\* The services of an entry file are services.
LEMMA ServicesOf == ASSUME TypeOK, NEW c \in Terminal PROVE Tied(c) \subseteq Service
BY CtlAssumption DEF TypeOK, Tied, Services

\* What a command has left is there as long as nothing is started or stopped.
LEMMA OutcomeKept ==
  ASSUME asked' = asked, box' = box PROVE \A c : Outcome(c)' <=> Outcome(c)
BY SameCommands DEF Outcome

\* What a command leaves stays until the next one.
LEMMA NextOutcome == TypeOK /\ CalmInv /\ OutcomeInv /\ [Next]_vars => OutcomeInv'
<1> SUFFICES ASSUME TypeOK /\ CalmInv /\ OutcomeInv, [Next]_vars PROVE OutcomeInv'
  OBVIOUS
<1> USE DEF TypeOK, CalmInv, OutcomeInv, Settled, Busy, Goto, machine, history
<1>1. ASSUME NEW c \in Terminal, NEW a \in Requests, Type(c, a) PROVE OutcomeInv'
  BY <1>1 DEF Type
<1>2. ASSUME NEW c \in Terminal, StopContainer(c) PROVE OutcomeInv'
  BY <1>2, OutcomeKept DEF StopContainer
<1>3. ASSUME NEW c \in Terminal, RunShell(c) PROVE OutcomeInv'
  BY <1>3, OutcomeKept DEF RunShell
<1>4. ASSUME NEW c \in Terminal, ShellEnds(c) PROVE OutcomeInv'
  BY <1>4, OutcomeKept DEF ShellEnds
<1>5. ASSUME NEW c \in Terminal, Down(c) PROVE OutcomeInv'
  <2>1. pc[c] = "down" /\ asked' = asked /\ calm' = calm /\ \A d \in Terminal \ {c} : pc'[d] = pc[d]
    BY <1>5 DEF Down, AfterDown
  <2>2. asked[c].verb = "stop" => Outcome(c)'
    BY <1>5, ServicesOf DEF Down, Without, Outcome, Tied
  <2>3. pc'[c] = IF asked[c].verb = "stop" THEN "done" ELSE "kill"
    BY <1>5 DEF Down, AfterDown
  <2>. QED  BY <2>1, <2>2, <2>3
<1>6. ASSUME NEW c \in Terminal, DownFails(c) PROVE OutcomeInv'
  BY <1>6, OutcomeKept DEF DownFails, AfterDown
<1>7. ASSUME NEW c \in Terminal, NativeStop(c) PROVE OutcomeInv'
  BY <1>7, OutcomeKept DEF NativeStop
<1>8. ASSUME NEW c \in Terminal, Killed(c) PROVE OutcomeInv'
  BY <1>8, OutcomeKept DEF Killed
<1>9. ASSUME NEW c \in Terminal, ComposeUp(c) PROVE OutcomeInv'
  <2>1. /\ pc[c] = "up" /\ pc' = [pc EXCEPT ![c] = "done"] /\ asked' = asked /\ calm' = calm
    BY <1>9 DEF ComposeUp
  <2>2. PICK env \in Environments(c) :
          box' = [s \in Service |->
                    IF s \in Excluded(asked[c]) THEN {}
                    ELSE IF s \in Services(asked[c].entry) THEN {env} ELSE box[s]]
    BY <1>9 DEF ComposeUp
  <2>3. \A s \in Tied(c) : box'[s] = IF s \in Excluded(asked[c]) THEN {} ELSE {env}
    BY <2>2, ServicesOf DEF Tied
  <2>4. Outcome(c)'
    <3>1. asked'[c].verb # "stop"
      BY <2>1
    <3>2. env \in Environments(c)'
      BY <2>1, SameCommands
    <3>3. \A s \in Tied(c)' : box'[s] = IF s \in Excluded(asked[c])' THEN {} ELSE {env}
      BY <2>1, <2>3, SameCommands
    <3>. QED  BY <3>1, <3>2, <3>3 DEF Outcome
  <2>. QED  BY <2>1, <2>4
<1>10. ASSUME NEW c \in Terminal, ComposeUpFails(c) PROVE OutcomeInv'
  BY <1>10, OutcomeKept DEF ComposeUpFails
<1>11. ASSUME NEW c \in Terminal, Interrupt(c) PROVE OutcomeInv'
  BY <1>11, OutcomeKept DEF Interrupt
<1>12. ASSUME NEW t \in Service, RunByHand(t) PROVE OutcomeInv'
  BY <1>12, OutcomeKept DEF RunByHand
<1>13. ASSUME NEW t \in Service, EndByHand(t) PROVE OutcomeInv'
  BY <1>13, OutcomeKept DEF EndByHand
<1>14. CASE UNCHANGED vars
  BY <1>14, OutcomeKept DEF vars
<1>. QED  BY <1>1, <1>2, <1>3, <1>4, <1>5, <1>6, <1>7, <1>8, <1>9, <1>10, <1>11, <1>12, <1>13, <1>14 DEF Next

\* A command that nothing has disturbed leaves what it should, in containers and in
\* the environment they were started with.
THEOREM OutcomeInvariance == Spec => [](TypeOK /\ CalmInv /\ OutcomeInv)
<1>1. Init => TypeOK /\ CalmInv /\ OutcomeInv
  BY CtlAssumption DEF Init, TypeOK, CalmInv, OutcomeInv, Settled, Busy
<1>2. TypeOK /\ CalmInv /\ OutcomeInv /\ [Next]_vars => (TypeOK /\ CalmInv /\ OutcomeInv)'
  BY NextTypeOK, NextCalm, NextOutcome
<1>. QED  BY <1>1, <1>2, PTL DEF Spec

\* What is up of a composition after a command that was undisturbed.
LEMMA WhatIsUp ==
  ASSUME TypeOK, OutcomeInv, NEW c \in Terminal, Settled(c), NEW s \in Tied(c)
  PROVE  s \in Up <=> asked[c].verb # "stop" /\ s \in Included(asked[c])
<1>1. s \in Service /\ Outcome(c)
  BY ServicesOf DEF OutcomeInv
<1>. QED  BY <1>1 DEF Outcome, Up, Excluded, Tied

\* A command that succeeds undisturbed leaves up exactly what it named.
THEOREM LeavesWhatItNamed == Spec => []GetsWhatItNamed
<1>1. TypeOK /\ OutcomeInv => GetsWhatItNamed
  <2> SUFFICES ASSUME TypeOK, OutcomeInv, NEW c \in Terminal, Settled(c), NEW s \in Tied(c)
               PROVE  s \in Up <=>
                        \/ asked[c].verb = "start"
                        \/ /\ asked[c].verb = "dev"
                           /\ \E n \in asked[c].names :
                                IF n \in DOMAIN Short[asked[c].entry] THEN s = Short[asked[c].entry][n] ELSE s = n
    BY DEF GetsWhatItNamed, Tied
  <2>1. asked[c].verb \in {"start", "dev", "stop"}
    BY CtlAssumption DEF TypeOK
  <2>2. asked[c].verb = "start" => s \in Included(asked[c])
    BY DEF Included, Tied
  <2>3. asked[c].verb = "dev" =>
          (s \in Included(asked[c]) <=>
             \E n \in asked[c].names :
               IF n \in DOMAIN Short[asked[c].entry] THEN s = Short[asked[c].entry][n] ELSE s = n)
    BY DEF Included, ParseShortName
  <2>. QED  BY <2>1, <2>2, <2>3, WhatIsUp
<1>. QED  BY <1>1, OutcomeInvariance, PTL

-----------------------------------------------------------------------------
(***************************************************************************)
(* The environment.                                                        *)
(***************************************************************************)

\* Of natural numbers one is the least.
LEMMA LeastNumber ==
  ASSUME NEW T \in SUBSET Nat, T # {} PROVE \E x \in T : \A y \in T : x <= y
<1>. DEFINE R == OpToRel(<, Nat)
<1>1. \E x \in T : \A y \in T : ~ (<<y, x>> \in R)
  <2>1. IsWellFoundedOn(R, Nat)
    BY NatLessThanWellFounded
  <2>. HIDE DEF R
  <2>. QED  BY <2>1, WFMin
<1>2. \A x, y \in Nat : y < x => <<y, x>> \in R
  BY DEF OpToRel
<1>3. \A x, y \in T : x <= y \/ y < x
  OBVIOUS
<1>. HIDE DEF R
<1>. QED  BY <1>1, <1>2, <1>3

\* Of some indices of a sequence one is the last.
LEMMA LastIndex ==
  ASSUME NEW n \in Nat, NEW S \in SUBSET (1 .. n), S # {} PROVE \E i \in S : \A j \in S : j <= i
<1>. DEFINE T == {n - i : i \in S}
<1>1. T # {}
  OBVIOUS
<1>2. T \subseteq Nat
  <2>1. \A i \in S : n - i \in Nat
    OBVIOUS
  <2>. QED  BY <2>1
<1>3. PICK x \in T : \A y \in T : x <= y
  <2>. HIDE DEF T
  <2>. QED  BY <1>1, <1>2, LeastNumber
<1>4. PICK i \in S : x = n - i
  BY <1>3
<1>5. \A j \in S : j <= i
  BY <1>3, <1>4
<1>. QED  BY <1>5

\* The services in S that say something of a variable.
Sayers(e, S, v) == {t \in S : v \in DOMAIN FindSchemafByService(e, t).absent}

\* Of all that the services in S say, one has the last word on each variable.
LEMMA LastWordOfOne ==
  ASSUME NEW e, NEW S \in SUBSET Services(e), IsFiniteSet(Services(e)), NEW order \in AllServices(e), NEW v \in Var
  PROVE  IF Sayers(e, S, v) = {} THEN v \notin DOMAIN LastWords(e, S, order)
         ELSE /\ v \in DOMAIN LastWords(e, S, order)
              /\ \E t \in Sayers(e, S, v) : LastWords(e, S, order)[v] = FindSchemafByService(e, t).absent[v]
<1>. DEFINE says(i) == order[i] \in S /\ v \in DOMAIN FindSchemafByService(e, order[i]).absent
            I == {i \in DOMAIN order : says(i)}
            last == CHOOSE i \in I : \A j \in I : j <= i
            n == Cardinality(Services(e))
<1>1. DOMAIN order = 1 .. n /\ n \in Nat /\ \A t \in Services(e) : \E i \in DOMAIN order : order[i] = t
  BY FS_CardinalityType DEF AllServices, Range
<1>2. I = {} <=> Sayers(e, S, v) = {}
  BY <1>1 DEF Sayers
<1>3. v \in DOMAIN LastWords(e, S, order) <=> I # {}
  BY DEF LastWords
<1>4. ASSUME I # {}
      PROVE  LastWords(e, S, order)[v] = FindSchemafByService(e, order[last]).absent[v]
  BY <1>4 DEF LastWords
<1>5. ASSUME I # {} PROVE last \in I
  <2>1. I \subseteq 1 .. n
    BY <1>1
  <2>. HIDE DEF I
  <2>2. \E i \in I : \A j \in I : j <= i
    BY <1>1, <1>5, <2>1, LastIndex
  <2>. QED  BY <2>2
<1>6. ASSUME I # {} PROVE order[last] \in Sayers(e, S, v)
  BY <1>5, <1>6 DEF Sayers
<1>. QED  BY <1>2, <1>3, <1>4, <1>6

\* The environment that compose is run with, but for the overrides.
LEMMA EnvironmentOf ==
  ASSUME TypeOK, NEW c \in Terminal, NEW v \in Var
  PROVE  LET entry == Last(Resolved[asked[c].entry])
             byFile == IF entry.project = Unset THEN Unset
                       ELSE IF v = ProjectName THEN entry.project
                       ELSE IF v = DBPass THEN entry.pass ELSE Unset
         IN  /\ v \in DOMAIN Environment(c)
             /\ Environment(c)[v] =
                  IF v = ProjectName /\ byFile # Unset THEN byFile
                  ELSE IF Shell[c][v] # Unset THEN Shell[c][v]
                  ELSE IF byFile # Unset THEN byFile ELSE Home[v]
<1>. DEFINE entry == Last(Resolved[asked[c].entry])
            env == InjectProjectEnv(asked[c].entry, Shell[c])
<1>1. Shell[c] \in [Var -> Value \union {Unset}] /\ {ProjectName, DBPass} \subseteq Var
  BY CtlAssumption DEF Env
<1>2. v \in DOMAIN Environment(c) /\ Environment(c)[v] = IF env[v] = Unset THEN Home[v] ELSE env[v]
  BY DEF Environment, LoadProjectEnv, Given
<1>3. CASE entry.project = Unset
  <2>1. env = Shell[c]
    BY <1>3 DEF InjectProjectEnv
  <2>. QED  BY <1>2, <1>3, <2>1
<1>4. CASE entry.project # Unset
  <2>. DEFINE named == [Shell[c] EXCEPT ![ProjectName] = entry.project]
  <2>1. env = [named EXCEPT ![DBPass] = IF @ = Unset THEN entry.pass ELSE @]
    BY <1>4 DEF InjectProjectEnv
  <2>2. named[v] = IF v = ProjectName THEN entry.project ELSE Shell[c][v]
    BY <1>1
  <2>3. env[v] = IF v = DBPass /\ named[v] = Unset THEN entry.pass ELSE named[v]
    BY <1>1, <2>1
  <2>. HIDE DEF env, named
  <2>4. CASE v = ProjectName
    BY <1>2, <1>4, <2>2, <2>3, <2>4
  <2>5. CASE v # ProjectName
    BY <1>2, <1>4, <2>2, <2>3, <2>5
  <2>. QED  BY <2>4, <2>5
<1>. QED  BY <1>3, <1>4

\* The containers are wired for exactly the services that are absent.
THEOREM WiredForWhatIsAbsent == Spec => []WiredForTheAbsent
<1>1. TypeOK /\ OutcomeInv => WiredForTheAbsent
  <2> SUFFICES ASSUME TypeOK, OutcomeInv, NEW c \in Terminal, Settled(c),
                      NEW s \in Tied(c), NEW env \in box[s], NEW v \in Var
               PROVE  LET e == asked[c].entry
                          entry == Last(Resolved[e])
                          absent == {t \in Services(e) \ Up : v \in DOMAIN FindSchemafByService(e, t).absent}
                          byFile == IF entry.project = Unset THEN Unset
                                    ELSE IF v = ProjectName THEN entry.project
                                    ELSE IF v = DBPass THEN entry.pass ELSE Unset
                      IN  IF absent # {}
                            THEN \E t \in absent : env[v] = FindSchemafByService(e, t).absent[v]
                            ELSE env[v] =
                                   IF v = ProjectName /\ byFile # Unset THEN byFile
                                   ELSE IF Shell[c][v] # Unset THEN Shell[c][v]
                                   ELSE IF byFile # Unset THEN byFile ELSE Home[v]
    BY DEF WiredForTheAbsent, Tied
  <2>. DEFINE e == asked[c].entry
              ex == Excluded(asked[c])
              absent == {t \in Services(e) \ Up : v \in DOMAIN FindSchemafByService(e, t).absent}
  <2>1. asked[c].verb # "stop" /\ env \in Environments(c)
    BY DEF OutcomeInv, Outcome
  <2>2. PICK order \in AllServices(e) : env = Overriding(Overrides(asked[c], order), Environment(c))
    BY <2>1 DEF Environments
  <2>3. IsFiniteSet(Services(e)) /\ ex \in SUBSET Services(e)
    BY ServicesOf, CtlAssumption, FS_Subset DEF Tied, Excluded
  <2>4. Overrides(asked[c], order) = LastWords(e, ex, order)
    BY DEF Overrides
  <2>5. IF Sayers(e, ex, v) = {} THEN v \notin DOMAIN Overrides(asked[c], order)
        ELSE /\ v \in DOMAIN Overrides(asked[c], order)
             /\ \E t \in Sayers(e, ex, v) : Overrides(asked[c], order)[v] = FindSchemafByService(e, t).absent[v]
    <3>. HIDE DEF e, ex
    <3>1. IF Sayers(e, ex, v) = {} THEN v \notin DOMAIN LastWords(e, ex, order)
          ELSE /\ v \in DOMAIN LastWords(e, ex, order)
               /\ \E t \in Sayers(e, ex, v) : LastWords(e, ex, order)[v] = FindSchemafByService(e, t).absent[v]
      BY <2>3, LastWordOfOne, Zenon
    <3>. QED  BY <2>4, <3>1, Zenon
  <2>6. env[v] = IF v \in DOMAIN Overrides(asked[c], order) THEN Overrides(asked[c], order)[v] ELSE Environment(c)[v]
    BY <2>2 DEF Overriding
  <2>7. Sayers(e, ex, v) = absent
    BY <2>1, WhatIsUp DEF Excluded, Tied, Sayers
  <2>8. absent # {} => \E t \in absent : env[v] = FindSchemafByService(e, t).absent[v]
    <3>. HIDE DEF absent, ex
    <3>. QED  BY <2>5, <2>6, <2>7
  <2>9. absent = {} => env[v] = Environment(c)[v]
    <3>. HIDE DEF absent, ex
    <3>. QED  BY <2>5, <2>6, <2>7
  <2>. DEFINE entry == Last(Resolved[e])
              byFile == IF entry.project = Unset THEN Unset
                        ELSE IF v = ProjectName THEN entry.project
                        ELSE IF v = DBPass THEN entry.pass ELSE Unset
  <2>10. Environment(c)[v] =
           IF v = ProjectName /\ byFile # Unset THEN byFile
           ELSE IF Shell[c][v] # Unset THEN Shell[c][v]
           ELSE IF byFile # Unset THEN byFile ELSE Home[v]
    BY EnvironmentOf
  <2>11. CASE absent # {}
    BY <2>8, <2>11
  <2>12. CASE absent = {}
    BY <2>9, <2>10, <2>12
  <2>. QED  BY <2>11, <2>12
<1>. QED  BY <1>1, OutcomeInvariance, PTL

=============================================================================
