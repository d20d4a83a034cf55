-------------------------- MODULE DevSessionProof --------------------------
(***************************************************************************)
(* Proofs about DevSession, for any number of `dev` and `run` sessions and *)
(* whatever they are asked to start.                                       *)
(***************************************************************************)
EXTENDS DevSession, TLAPS

Process == Dev \union {Nobody, Stranger}

TypeOK ==
  /\ up \in [Container -> {"no", "dev", "prod"}]
  /\ holder \in [Port -> Process]
  /\ pc \in [Session -> Live \union Over]
  /\ ask \in [Dev -> SUBSET Part]
  /\ checks \in [Dev -> SUBSET Port]
  /\ vite \subseteq Dev /\ bg \subseteq Dev
  /\ raced \in BOOLEAN /\ blind \in BOOLEAN /\ met \subseteq Dev /\ slipped \subseteq Dev

\* Between its probe and its `up` a session that nobody has raced, and that got an
\* answer or needed none, has nothing running.
StoppedInv ==
  ~raced /\ ~blind =>
    \A s \in Session : pc[s] \in {"ports", "up"} => \A c \in Container : up[c] = "no"

MixInv == StoppedInv /\ NeverMixed

\* A Vite process that is not left behind is known to cleanup, but for an instant.
KeptInv ==
  /\ \A d \in vite \ slipped : pc[d] = "append" \/ (d \in bg /\ pc[d] \in {"settle", "serve", "running"})
  /\ \A d \in slipped : pc[d] = "ended"

\* Who listens: a backend that serves, and a Vite that lives.
ListenInv ==
  /\ holder["postgres"] \in {Nobody, Stranger}
  /\ holder["backend"] \in Dev => pc[holder["backend"]] = "running"
  /\ holder["frontend"] \in Dev => holder["frontend"] \in vite

\* A session that starts a backend starts its infrastructure.
AskInv == \A d \in Dev : pc[d] # "off" /\ "backend" \in ask[d] => "infra" \in ask[d]

\* The frontend's port is still to be checked, or nobody listens on it.
PortInv(d) ==
  pc[d] \in Starting \union {"vite"} /\ "frontend" \in ask[d] =>
    /\ pc[d] \in {"probe", "down"} => "frontend" \in checks[d]
    /\ pc[d] \in {"up", "vite"} => checks[d] = {}
    /\ "frontend" \in checks[d] \/ holder["frontend"] = Nobody

\* What `up` has started stays.
InfraInv(d) ==
  pc[d] \in Handled /\ "backend" \in ask[d] =>
    up = [c \in Container |-> IF c = "backend" THEN "no" ELSE "dev"]

\* The session's servers have their ports.
OwnPortInv(d) ==
  /\ pc[d] = "running" /\ "backend" \in ask[d] => holder["backend"] = d
  /\ pc[d] \in Handled /\ d \in vite => holder["frontend"] = d

AloneInv(d) == PortInv(d) /\ InfraInv(d) /\ OwnPortInv(d)

IInv == TypeOK /\ MixInv /\ KeptInv /\ ListenInv /\ AskInv /\ \A d \in Dev \ met : AloneInv(d)

\* Every step keeps the types.
LEMMA NextTypeOK == TypeOK /\ [Next]_vars => TypeOK'
<1> SUFFICES ASSUME TypeOK, [Next]_vars PROVE TypeOK'
  OBVIOUS
<1> USE DEF TypeOK, Process, Session, Port, Part, Live, Over, Starting, Handled, Goto, Acts, Exits, Probed, PortDone, Composed
<1>1. ASSUME NEW s \in Session, Begin(s) PROVE TypeOK'
  BY <1>1 DEF Begin
<1>2. ASSUME NEW s \in Session, Probe(s) PROVE TypeOK'
  BY <1>2 DEF Probe, Something
<1>3. ASSUME NEW s \in Session, ProbeUnanswered(s) PROVE TypeOK'
  BY <1>3 DEF ProbeUnanswered, Something
<1>4. ASSUME NEW s \in Session, Down(s) PROVE TypeOK'
  BY <1>4 DEF Down
<1>5. ASSUME NEW s \in Session, DownFails(s) PROVE TypeOK'
  BY <1>5 DEF DownFails
<1>6. ASSUME NEW d \in Dev, NEW p \in Port, PortPassed(d, p) PROVE TypeOK'
  BY <1>6 DEF PortPassed
<1>7. ASSUME NEW d \in Dev, NEW p \in Port, PortRefused(d, p) PROVE TypeOK'
  BY <1>7 DEF PortRefused
<1>8. ASSUME NEW d \in Dev, NEW p \in Port, PortFreed(d, p) PROVE TypeOK'
  BY <1>8 DEF PortFreed
<1>9. ASSUME NEW d \in Dev, NEW p \in Port, PortTaken(d, p) PROVE TypeOK'
  BY <1>9 DEF PortTaken
<1>10. ASSUME NEW d \in Dev, PortsChecked(d) PROVE TypeOK'
  BY <1>10 DEF PortsChecked
<1>11. ASSUME NEW d \in Dev, DevUp(d) PROVE TypeOK'
  BY <1>11 DEF DevUp
<1>12. ASSUME NEW d \in Dev, DevUpFails(d) PROVE TypeOK'
  <2>0. Composed(d) \in [Container -> {"no", "dev", "prod"}]
    OBVIOUS
  <2>1. up' \in [Container -> {"no", "dev", "prod"}]
    BY <1>12, <2>0 DEF DevUpFails
  <2>2. holder' \in [Port -> Process]
    BY <1>12 DEF DevUpFails
  <2>3. pc' \in [Session -> Live \union Over]
    BY <1>12 DEF DevUpFails
  <2>4. vite' \subseteq Dev /\ bg' \subseteq Dev
    BY <1>12 DEF DevUpFails
  <2>. QED  BY <1>12, <2>1, <2>2, <2>3, <2>4 DEF DevUpFails
<1>13. ASSUME NEW d \in Dev, StartVite(d) PROVE TypeOK'
  BY <1>13 DEF StartVite
<1>14. ASSUME NEW d \in Dev, KeepVite(d) PROVE TypeOK'
  BY <1>14 DEF KeepVite
<1>15. ASSUME NEW d \in Dev, Settle(d) PROVE TypeOK'
  BY <1>15 DEF Settle
<1>16. ASSUME NEW d \in Dev, Serve(d) PROVE TypeOK'
  BY <1>16 DEF Serve
<1>17. ASSUME NEW d \in Dev, ServeFails(d) PROVE TypeOK'
  BY <1>17 DEF ServeFails
<1>18. ASSUME NEW d \in Dev, ViteCrashes(d) PROVE TypeOK'
  BY <1>18 DEF ViteCrashes
<1>19. ASSUME NEW d \in Dev, ViteAwaited(d) PROVE TypeOK'
  BY <1>19 DEF ViteAwaited
<1>20. ASSUME NEW d \in Dev, Interrupt(d) PROVE TypeOK'
  BY <1>20 DEF Interrupt
<1>21. ASSUME NEW d \in Dev, Kill(d) PROVE TypeOK'
  BY <1>21 DEF Kill
<1>22. ASSUME NEW r \in Run, RunUp(r) PROVE TypeOK'
  BY <1>22 DEF RunUp
<1>23. ASSUME NEW r \in Run, RunUpFails(r) PROVE TypeOK'
  BY <1>23 DEF RunUpFails
<1>24. ASSUME NEW r \in Run, RunEnds(r) PROVE TypeOK'
  BY <1>24 DEF RunEnds
<1>25. ASSUME NEW p \in Port, StrangerComes(p) PROVE TypeOK'
  BY <1>25 DEF StrangerComes
<1>26. ASSUME NEW p \in Port, StrangerGoes(p) PROVE TypeOK'
  BY <1>26 DEF StrangerGoes
<1>27. CASE UNCHANGED vars
  BY <1>27 DEF vars
<1>. QED
  BY <1>1, <1>2, <1>3, <1>4, <1>5, <1>6, <1>7, <1>8, <1>9, <1>10, <1>11, <1>12, <1>13, <1>14, <1>15, <1>16,
     <1>17, <1>18, <1>19, <1>20, <1>21, <1>22, <1>23, <1>24, <1>25, <1>26, <1>27 DEF Next, DevNext, RunNext

\* Containers of the two configurations do not mix.
LEMMA MixNext == TypeOK /\ MixInv /\ [Next]_vars => MixInv'
<1> SUFFICES ASSUME TypeOK /\ MixInv, [Next]_vars PROVE MixInv'
  OBVIOUS
<1> USE DEF MixInv, StoppedInv, NeverMixed, TypeOK, Session, Starting, Over, Goto, Acts, Exits, Checking, Composed
<1>1. ASSUME NEW s \in Session, Begin(s) PROVE MixInv'
  BY <1>1 DEF Begin
<1>2. ASSUME NEW s \in Session, Probe(s) PROVE MixInv'
  BY <1>2 DEF Probe, Something
<1>3. ASSUME NEW s \in Session, ProbeUnanswered(s) PROVE MixInv'
  BY <1>3 DEF ProbeUnanswered, Something
<1>4. ASSUME NEW s \in Session, Down(s) PROVE MixInv'
  BY <1>4 DEF Down
<1>5. ASSUME NEW s \in Session, DownFails(s) PROVE MixInv'
  BY <1>5 DEF DownFails
<1>6. ASSUME NEW d \in Dev, NEW p \in Port, PortPassed(d, p) PROVE MixInv'
  BY <1>6 DEF PortPassed
<1>7. ASSUME NEW d \in Dev, NEW p \in Port, PortRefused(d, p) PROVE MixInv'
  BY <1>7 DEF PortRefused
<1>8. ASSUME NEW d \in Dev, NEW p \in Port, PortFreed(d, p) PROVE MixInv'
  BY <1>8 DEF PortFreed
<1>9. ASSUME NEW d \in Dev, NEW p \in Port, PortTaken(d, p) PROVE MixInv'
  BY <1>9 DEF PortTaken
<1>10. ASSUME NEW d \in Dev, PortsChecked(d) PROVE MixInv'
  BY <1>10 DEF PortsChecked
<1>11. ASSUME NEW d \in Dev, DevUp(d) PROVE MixInv'
  BY <1>11 DEF DevUp
<1>12. ASSUME NEW d \in Dev, DevUpFails(d) PROVE MixInv'
  BY <1>12 DEF DevUpFails
<1>13. ASSUME NEW d \in Dev, StartVite(d) PROVE MixInv'
  BY <1>13 DEF StartVite
<1>14. ASSUME NEW d \in Dev, KeepVite(d) PROVE MixInv'
  BY <1>14 DEF KeepVite
<1>15. ASSUME NEW d \in Dev, Settle(d) PROVE MixInv'
  BY <1>15 DEF Settle
<1>16. ASSUME NEW d \in Dev, Serve(d) PROVE MixInv'
  BY <1>16 DEF Serve
<1>17. ASSUME NEW d \in Dev, ServeFails(d) PROVE MixInv'
  BY <1>17 DEF ServeFails
<1>18. ASSUME NEW d \in Dev, ViteCrashes(d) PROVE MixInv'
  BY <1>18 DEF ViteCrashes
<1>19. ASSUME NEW d \in Dev, ViteAwaited(d) PROVE MixInv'
  BY <1>19 DEF ViteAwaited
<1>20. ASSUME NEW d \in Dev, Interrupt(d) PROVE MixInv'
  BY <1>20 DEF Interrupt
<1>21. ASSUME NEW d \in Dev, Kill(d) PROVE MixInv'
  BY <1>21 DEF Kill
<1>22. ASSUME NEW r \in Run, RunUp(r) PROVE MixInv'
  BY <1>22 DEF RunUp
<1>23. ASSUME NEW r \in Run, RunUpFails(r) PROVE MixInv'
  BY <1>23 DEF RunUpFails
<1>24. ASSUME NEW r \in Run, RunEnds(r) PROVE MixInv'
  BY <1>24 DEF RunEnds
<1>25. ASSUME NEW p \in Port, StrangerComes(p) PROVE MixInv'
  BY <1>25 DEF StrangerComes
<1>26. ASSUME NEW p \in Port, StrangerGoes(p) PROVE MixInv'
  BY <1>26 DEF StrangerGoes
<1>27. CASE UNCHANGED vars
  BY <1>27 DEF vars
<1>. HIDE DEF MixInv, StoppedInv, NeverMixed, TypeOK, Goto, Acts, Exits, Checking, Composed
<1>. QED
  BY <1>1, <1>2, <1>3, <1>4, <1>5, <1>6, <1>7, <1>8, <1>9, <1>10, <1>11, <1>12, <1>13, <1>14, <1>15, <1>16,
     <1>17, <1>18, <1>19, <1>20, <1>21, <1>22, <1>23, <1>24, <1>25, <1>26, <1>27 DEF Next, DevNext, RunNext

\* Cleanup knows of all Vites, and who listens is alive.
LEMMA KeptNext == TypeOK /\ KeptInv /\ ListenInv /\ [Next]_vars => (KeptInv /\ ListenInv)'
<1> SUFFICES ASSUME TypeOK /\ KeptInv /\ ListenInv, [Next]_vars PROVE (KeptInv /\ ListenInv)'
  OBVIOUS
<1> USE DevSessionAssumption DEF KeptInv, ListenInv, TypeOK, Process, Session, Container, Port, Live, Starting, Handled, Over, Goto, Acts, Exits, Probed, PortDone, Checking, Turn
<1>1. ASSUME NEW s \in Session, Begin(s) PROVE (KeptInv /\ ListenInv)'
  BY <1>1 DEF Begin
<1>2. ASSUME NEW s \in Session, Probe(s) PROVE (KeptInv /\ ListenInv)'
  BY <1>2 DEF Probe, Something
<1>3. ASSUME NEW s \in Session, ProbeUnanswered(s) PROVE (KeptInv /\ ListenInv)'
  BY <1>3 DEF ProbeUnanswered, Something
<1>4. ASSUME NEW s \in Session, Down(s) PROVE (KeptInv /\ ListenInv)'
  BY <1>4 DEF Down
<1>5. ASSUME NEW s \in Session, DownFails(s) PROVE (KeptInv /\ ListenInv)'
  BY <1>5 DEF DownFails
<1>6. ASSUME NEW d \in Dev, NEW p \in Port, PortPassed(d, p) PROVE (KeptInv /\ ListenInv)'
  BY <1>6 DEF PortPassed
<1>7. ASSUME NEW d \in Dev, NEW p \in Port, PortRefused(d, p) PROVE (KeptInv /\ ListenInv)'
  BY <1>7 DEF PortRefused
<1>8. ASSUME NEW d \in Dev, NEW p \in Port, PortFreed(d, p) PROVE (KeptInv /\ ListenInv)'
  BY <1>8 DEF PortFreed
<1>9. ASSUME NEW d \in Dev, NEW p \in Port, PortTaken(d, p) PROVE (KeptInv /\ ListenInv)'
  BY <1>9 DEF PortTaken
<1>10. ASSUME NEW d \in Dev, PortsChecked(d) PROVE (KeptInv /\ ListenInv)'
  BY <1>10 DEF PortsChecked
<1>11. ASSUME NEW d \in Dev, DevUp(d) PROVE (KeptInv /\ ListenInv)'
  BY <1>11 DEF DevUp
<1>12. ASSUME NEW d \in Dev, DevUpFails(d) PROVE (KeptInv /\ ListenInv)'
  BY <1>12 DEF DevUpFails
<1>13. ASSUME NEW d \in Dev, StartVite(d) PROVE (KeptInv /\ ListenInv)'
  BY <1>13 DEF StartVite
<1>14. ASSUME NEW d \in Dev, KeepVite(d) PROVE (KeptInv /\ ListenInv)'
  BY <1>14 DEF KeepVite
<1>15. ASSUME NEW d \in Dev, Settle(d) PROVE (KeptInv /\ ListenInv)'
  BY <1>15 DEF Settle
<1>16. ASSUME NEW d \in Dev, Serve(d) PROVE (KeptInv /\ ListenInv)'
  BY <1>16 DEF Serve
<1>17. ASSUME NEW d \in Dev, ServeFails(d) PROVE (KeptInv /\ ListenInv)'
  BY <1>17 DEF ServeFails
<1>18. ASSUME NEW d \in Dev, ViteCrashes(d) PROVE (KeptInv /\ ListenInv)'
  BY <1>18 DEF ViteCrashes
<1>19. ASSUME NEW d \in Dev, ViteAwaited(d) PROVE (KeptInv /\ ListenInv)'
  BY <1>19 DEF ViteAwaited
<1>20. ASSUME NEW d \in Dev, Interrupt(d) PROVE (KeptInv /\ ListenInv)'
  BY <1>20 DEF Interrupt
<1>21. ASSUME NEW d \in Dev, Kill(d) PROVE (KeptInv /\ ListenInv)'
  BY <1>21 DEF Kill
<1>22. ASSUME NEW r \in Run, RunUp(r) PROVE (KeptInv /\ ListenInv)'
  BY <1>22 DEF RunUp
<1>23. ASSUME NEW r \in Run, RunUpFails(r) PROVE (KeptInv /\ ListenInv)'
  BY <1>23 DEF RunUpFails
<1>24. ASSUME NEW r \in Run, RunEnds(r) PROVE (KeptInv /\ ListenInv)'
  BY <1>24 DEF RunEnds
<1>25. ASSUME NEW p \in Port, StrangerComes(p) PROVE (KeptInv /\ ListenInv)'
  BY <1>25 DEF StrangerComes
<1>26. ASSUME NEW p \in Port, StrangerGoes(p) PROVE (KeptInv /\ ListenInv)'
  BY <1>26 DEF StrangerGoes
<1>27. CASE UNCHANGED vars
  BY <1>27 DEF vars
<1>. HIDE DEF KeptInv, ListenInv, TypeOK, Process, Goto, Acts, Exits, Probed, PortDone, Checking, Turn
<1>. QED
  BY <1>1, <1>2, <1>3, <1>4, <1>5, <1>6, <1>7, <1>8, <1>9, <1>10, <1>11, <1>12, <1>13, <1>14, <1>15, <1>16,
     <1>17, <1>18, <1>19, <1>20, <1>21, <1>22, <1>23, <1>24, <1>25, <1>26, <1>27 DEF Next, DevNext, RunNext

\* The infrastructure comes with a backend.
LEMMA AskNext == TypeOK /\ ListenInv /\ AskInv /\ [Next]_vars => AskInv'
<1> SUFFICES ASSUME TypeOK /\ ListenInv /\ AskInv, [Next]_vars PROVE AskInv'
  OBVIOUS
<1> USE DevSessionAssumption DEF AskInv, ListenInv, TypeOK, Process, Session, Container, Port, Live, Starting, Handled, Over, Goto, Acts, Exits, Probed, PortDone, Checking, Turn
<1>1. ASSUME NEW s \in Session, Begin(s) PROVE AskInv'
  BY <1>1 DEF Begin
<1>2. ASSUME NEW s \in Session, Probe(s) PROVE AskInv'
  BY <1>2 DEF Probe, Something
<1>3. ASSUME NEW s \in Session, ProbeUnanswered(s) PROVE AskInv'
  BY <1>3 DEF ProbeUnanswered, Something
<1>4. ASSUME NEW s \in Session, Down(s) PROVE AskInv'
  BY <1>4 DEF Down
<1>5. ASSUME NEW s \in Session, DownFails(s) PROVE AskInv'
  BY <1>5 DEF DownFails
<1>6. ASSUME NEW d \in Dev, NEW p \in Port, PortPassed(d, p) PROVE AskInv'
  BY <1>6 DEF PortPassed
<1>7. ASSUME NEW d \in Dev, NEW p \in Port, PortRefused(d, p) PROVE AskInv'
  BY <1>7 DEF PortRefused
<1>8. ASSUME NEW d \in Dev, NEW p \in Port, PortFreed(d, p) PROVE AskInv'
  BY <1>8 DEF PortFreed
<1>9. ASSUME NEW d \in Dev, NEW p \in Port, PortTaken(d, p) PROVE AskInv'
  BY <1>9 DEF PortTaken
<1>10. ASSUME NEW d \in Dev, PortsChecked(d) PROVE AskInv'
  BY <1>10 DEF PortsChecked
<1>11. ASSUME NEW d \in Dev, DevUp(d) PROVE AskInv'
  BY <1>11 DEF DevUp
<1>12. ASSUME NEW d \in Dev, DevUpFails(d) PROVE AskInv'
  BY <1>12 DEF DevUpFails
<1>13. ASSUME NEW d \in Dev, StartVite(d) PROVE AskInv'
  BY <1>13 DEF StartVite
<1>14. ASSUME NEW d \in Dev, KeepVite(d) PROVE AskInv'
  BY <1>14 DEF KeepVite
<1>15. ASSUME NEW d \in Dev, Settle(d) PROVE AskInv'
  BY <1>15 DEF Settle
<1>16. ASSUME NEW d \in Dev, Serve(d) PROVE AskInv'
  BY <1>16 DEF Serve
<1>17. ASSUME NEW d \in Dev, ServeFails(d) PROVE AskInv'
  BY <1>17 DEF ServeFails
<1>18. ASSUME NEW d \in Dev, ViteCrashes(d) PROVE AskInv'
  BY <1>18 DEF ViteCrashes
<1>19. ASSUME NEW d \in Dev, ViteAwaited(d) PROVE AskInv'
  BY <1>19 DEF ViteAwaited
<1>20. ASSUME NEW d \in Dev, Interrupt(d) PROVE AskInv'
  BY <1>20 DEF Interrupt
<1>21. ASSUME NEW d \in Dev, Kill(d) PROVE AskInv'
  BY <1>21 DEF Kill
<1>22. ASSUME NEW r \in Run, RunUp(r) PROVE AskInv'
  BY <1>22 DEF RunUp
<1>23. ASSUME NEW r \in Run, RunUpFails(r) PROVE AskInv'
  BY <1>23 DEF RunUpFails
<1>24. ASSUME NEW r \in Run, RunEnds(r) PROVE AskInv'
  BY <1>24 DEF RunEnds
<1>25. ASSUME NEW p \in Port, StrangerComes(p) PROVE AskInv'
  BY <1>25 DEF StrangerComes
<1>26. ASSUME NEW p \in Port, StrangerGoes(p) PROVE AskInv'
  BY <1>26 DEF StrangerGoes
<1>27. CASE UNCHANGED vars
  BY <1>27 DEF vars
<1>. HIDE DEF AskInv, ListenInv, TypeOK, Process, Goto, Acts, Exits, Probed, PortDone, Checking, Turn
<1>. QED
  BY <1>1, <1>2, <1>3, <1>4, <1>5, <1>6, <1>7, <1>8, <1>9, <1>10, <1>11, <1>12, <1>13, <1>14, <1>15, <1>16,
     <1>17, <1>18, <1>19, <1>20, <1>21, <1>22, <1>23, <1>24, <1>25, <1>26, <1>27 DEF Next, DevNext, RunNext

\* A session that no other acts beside keeps what it has.
LEMMA AloneNext == IInv /\ [Next]_vars => (\A x \in Dev \ met : AloneInv(x))'
<1> SUFFICES ASSUME IInv, [Next]_vars PROVE (\A x \in Dev \ met : AloneInv(x))'
  OBVIOUS
<1> USE DevSessionAssumption DEF IInv, AloneInv, PortInv, InfraInv, OwnPortInv, KeptInv, ListenInv, AskInv, NativeOn, Free, Publishes, TypeOK, Process, Session, Container, Port, Live, Starting, Handled, Over, Goto, Acts, Exits, Probed, PortDone, Checking, Turn
<1>1. ASSUME NEW s \in Session, Begin(s) PROVE (\A x \in Dev \ met : AloneInv(x))'
  BY <1>1 DEF Begin
<1>2. ASSUME NEW s \in Session, Probe(s) PROVE (\A x \in Dev \ met : AloneInv(x))'
  BY <1>2 DEF Probe, Something
<1>3. ASSUME NEW s \in Session, ProbeUnanswered(s) PROVE (\A x \in Dev \ met : AloneInv(x))'
  BY <1>3 DEF ProbeUnanswered, Something
<1>4. ASSUME NEW s \in Session, Down(s) PROVE (\A x \in Dev \ met : AloneInv(x))'
  BY <1>4 DEF Down
<1>5. ASSUME NEW s \in Session, DownFails(s) PROVE (\A x \in Dev \ met : AloneInv(x))'
  BY <1>5 DEF DownFails
<1>6. ASSUME NEW d \in Dev, NEW p \in Port, PortPassed(d, p) PROVE (\A x \in Dev \ met : AloneInv(x))'
  BY <1>6 DEF PortPassed
<1>7. ASSUME NEW d \in Dev, NEW p \in Port, PortRefused(d, p) PROVE (\A x \in Dev \ met : AloneInv(x))'
  BY <1>7 DEF PortRefused
<1>8. ASSUME NEW d \in Dev, NEW p \in Port, PortFreed(d, p) PROVE (\A x \in Dev \ met : AloneInv(x))'
  BY <1>8 DEF PortFreed
<1>9. ASSUME NEW d \in Dev, NEW p \in Port, PortTaken(d, p) PROVE (\A x \in Dev \ met : AloneInv(x))'
  BY <1>9 DEF PortTaken
<1>10. ASSUME NEW d \in Dev, PortsChecked(d) PROVE (\A x \in Dev \ met : AloneInv(x))'
  BY <1>10 DEF PortsChecked
<1>11. ASSUME NEW d \in Dev, DevUp(d) PROVE (\A x \in Dev \ met : AloneInv(x))'
  <2>1. ASSUME NEW x \in Dev \ met', x # d PROVE AloneInv(x)'
    BY <1>11, <2>1 DEF DevUp
  <2>2. d \notin met' => PortInv(d)'
    BY <1>11 DEF DevUp
  <2>3. d \notin met' => InfraInv(d)'
    BY <1>11 DEF DevUp, Composed
  <2>4. d \notin met' => OwnPortInv(d)'
    BY <1>11 DEF DevUp
  <2>. QED  BY <2>1, <2>2, <2>3, <2>4
<1>12. ASSUME NEW d \in Dev, DevUpFails(d) PROVE (\A x \in Dev \ met : AloneInv(x))'
  BY <1>12 DEF DevUpFails
<1>13. ASSUME NEW d \in Dev, StartVite(d) PROVE (\A x \in Dev \ met : AloneInv(x))'
  BY <1>13 DEF StartVite
<1>14. ASSUME NEW d \in Dev, KeepVite(d) PROVE (\A x \in Dev \ met : AloneInv(x))'
  BY <1>14 DEF KeepVite
<1>15. ASSUME NEW d \in Dev, Settle(d) PROVE (\A x \in Dev \ met : AloneInv(x))'
  BY <1>15 DEF Settle
<1>16. ASSUME NEW d \in Dev, Serve(d) PROVE (\A x \in Dev \ met : AloneInv(x))'
  BY <1>16 DEF Serve
<1>17. ASSUME NEW d \in Dev, ServeFails(d) PROVE (\A x \in Dev \ met : AloneInv(x))'
  BY <1>17 DEF ServeFails
<1>18. ASSUME NEW d \in Dev, ViteCrashes(d) PROVE (\A x \in Dev \ met : AloneInv(x))'
  BY <1>18 DEF ViteCrashes
<1>19. ASSUME NEW d \in Dev, ViteAwaited(d) PROVE (\A x \in Dev \ met : AloneInv(x))'
  BY <1>19 DEF ViteAwaited
<1>20. ASSUME NEW d \in Dev, Interrupt(d) PROVE (\A x \in Dev \ met : AloneInv(x))'
  BY <1>20 DEF Interrupt
<1>21. ASSUME NEW d \in Dev, Kill(d) PROVE (\A x \in Dev \ met : AloneInv(x))'
  BY <1>21 DEF Kill
<1>22. ASSUME NEW r \in Run, RunUp(r) PROVE (\A x \in Dev \ met : AloneInv(x))'
  BY <1>22 DEF RunUp
<1>23. ASSUME NEW r \in Run, RunUpFails(r) PROVE (\A x \in Dev \ met : AloneInv(x))'
  BY <1>23 DEF RunUpFails
<1>24. ASSUME NEW r \in Run, RunEnds(r) PROVE (\A x \in Dev \ met : AloneInv(x))'
  BY <1>24 DEF RunEnds
<1>25. ASSUME NEW p \in Port, StrangerComes(p) PROVE (\A x \in Dev \ met : AloneInv(x))'
  <2> SUFFICES ASSUME NEW x \in Dev \ met' PROVE AloneInv(x)'
    OBVIOUS
  <2>1. x \notin met /\ AloneInv(x)
    BY <1>25 DEF StrangerComes
  <2>2. pc' = pc /\ up' = up /\ ask' = ask /\ checks' = checks /\ vite' = vite
    BY <1>25 DEF StrangerComes
  <2>3. holder[p] = Nobody /\ holder' = [holder EXCEPT ![p] = Stranger]
    BY <1>25 DEF StrangerComes
  <2>4. InfraInv(x)' /\ OwnPortInv(x)'
    BY <2>1, <2>2, <2>3
  <2>5. CASE p = "frontend"
    <3>1. pc[x] \in {"ports", "up", "vite"} => "frontend" \in checks[x]
      BY <1>25, <2>5 DEF StrangerComes
    <3>. QED  BY <2>1, <2>2, <2>3, <2>4, <2>5, <3>1
  <2>6. CASE p # "frontend"
    BY <2>1, <2>2, <2>3, <2>4, <2>6
  <2>. QED  BY <2>5, <2>6
<1>26. ASSUME NEW p \in Port, StrangerGoes(p) PROVE (\A x \in Dev \ met : AloneInv(x))'
  BY <1>26 DEF StrangerGoes
<1>27. CASE UNCHANGED vars
  BY <1>27 DEF vars
<1>. HIDE DEF IInv, AloneInv, PortInv, InfraInv, OwnPortInv, KeptInv, ListenInv, AskInv, NativeOn, Free, Publishes, TypeOK
<1>. QED
  BY <1>1, <1>2, <1>3, <1>4, <1>5, <1>6, <1>7, <1>8, <1>9, <1>10, <1>11, <1>12, <1>13, <1>14, <1>15, <1>16,
     <1>17, <1>18, <1>19, <1>20, <1>21, <1>22, <1>23, <1>24, <1>25, <1>26, <1>27 DEF Next, DevNext, RunNext

-----------------------------------------------------------------------------
(***************************************************************************)
(* The invariant, and what follows from it.                                *)
(***************************************************************************)

LEMMA InitInv == Init => IInv
<1> SUFFICES ASSUME Init PROVE IInv
  OBVIOUS
<1> USE DEF Init
<1>1. TypeOK
  BY DevSessionAssumption DEF TypeOK, Process, Session, Port, Part, Live, Over
<1>2. MixInv
  BY DEF MixInv, StoppedInv, NeverMixed
<1>3. KeptInv
  BY DEF KeptInv
<1>4. ListenInv
  BY DevSessionAssumption DEF ListenInv, Port, Session
<1>5. AskInv
  BY DEF AskInv, Session
<1>6. ASSUME NEW d \in Dev PROVE AloneInv(d)
  BY DEF AloneInv, PortInv, InfraInv, OwnPortInv, Session, Starting, Handled
<1>. QED  BY <1>1, <1>2, <1>3, <1>4, <1>5, <1>6 DEF IInv

\* The invariant holds in every reachable state: of what runs when a session probes,
\* of who listens, and of what a session that acts alone has around it.
THEOREM DevInvariance == Spec => []IInv
<1>1. IInv /\ [Next]_vars => IInv'
  BY NextTypeOK, MixNext, KeptNext, AskNext, AloneNext DEF IInv
<1>. QED  BY InitInv, <1>1, PTL DEF Spec

\* Of any number of sessions of `dev` and `run`, none has ever containers of the
\* two configurations side by side, unless one acted while another was starting, or
\* the error of a `ps` has counted as nothing running when something ran.
THEOREM NoMixture == Spec => []NeverMixed
<1>1. IInv => NeverMixed
  BY DEF IInv, MixInv
<1>. QED  BY <1>1, DevInvariance, PTL

\* A session that no other has acted beside runs with all that it asked for on
\* its own ports, whatever earlier sessions have left and strangers take.
THEOREM RunsWithWhatItAskedFor == Spec => []GetsWhatItAskedFor
<1>1. IInv => GetsWhatItAskedFor
  BY DEF IInv, AloneInv, InfraInv, OwnPortInv, GetsWhatItAskedFor, Handled
<1>. QED  BY <1>1, DevInvariance, PTL

\* Only a kill, or an interruption while it starts Vite, lets a session leave its
\* Vite process behind.
THEOREM NoOrphan == Spec => []NothingLeftBehind
<1>1. IInv => NothingLeftBehind
  BY DEF IInv, KeptInv, NothingLeftBehind, Handled
<1>. QED  BY <1>1, DevInvariance, PTL

=============================================================================
