---------------------------- MODULE ComposeProof ----------------------------
(***************************************************************************)
(* Theorems about Compose, for every set of files, whatever they say: what *)
(* Resolve lists and in which order, and whose names ShortNameMap keeps.   *)
(***************************************************************************)
EXTENDS Compose, FiniteSetTheorems, SequenceTheorems, TLAPS

Frame == [file : File, next : Nat \ {0}]

TypeOK ==
  /\ project \in ComposeFile
  /\ pc \in {"walk", "failed", "name", "done"}
  /\ stack \in Seq(Frame)
  /\ seen \in SUBSET File
  /\ ordered \in Seq(File)

-----------------------------------------------------------------------------
(***************************************************************************)
(* Reaching: dependencies of dependencies, without recursion.              *)
(***************************************************************************)

\* A file reaches itself.
LEMMA ReachesItself == ASSUME NEW f PROVE Reaches(f, f)
BY DEF Reaches

\* Reaching is transitive.
LEMMA ReachesOn ==
  ASSUME NEW f, NEW g, NEW h, Reaches(f, g), Reaches(g, h) PROVE Reaches(f, h)
BY DEF Reaches

\* A file reaches what it depends on.
LEMMA ReachesDep ==
  ASSUME NEW f, NEW k \in DOMAIN Deps(f) PROVE Reaches(f, Deps(f)[k])
BY DEF Reaches, Closed

\* What a file reaches does not change while the project does not.
LEMMA ReachesKept ==
  ASSUME project' = project, NEW f, NEW g PROVE Reaches(f, g)' <=> Reaches(f, g)
BY DEF Reaches, Closed, Deps

-----------------------------------------------------------------------------
(***************************************************************************)
(* The walk.                                                               *)
(***************************************************************************)

\* The call of a file has come to the dependencies before the index.
CameTo(f, index) == \A k \in DOMAIN Deps(f) : k < index => Deps(f)[k] \in seen

\* The open calls are a path from the entry, of different files that are not listed.
StackInv ==
  /\ \A i, j \in DOMAIN stack : i <= j => Reaches(stack[i].file, stack[j].file)
  /\ \A i, j \in DOMAIN stack : stack[i].file = stack[j].file => i = j
  /\ \A i \in DOMAIN stack : stack[i].file \notin Listed /\ CameTo(stack[i].file, stack[i].next)
  /\ stack # <<>> => stack[1].file = Entry

\* What has been listed is complete but for what is open, and once.
ListInv ==
  /\ \A i \in DOMAIN ordered : \A k \in DOMAIN Deps(ordered[i]) : Deps(ordered[i])[k] \in seen
  /\ DependenciesFirst
  /\ IsFiniteSet(Listed) /\ Cardinality(Listed) = Len(ordered)
  /\ stack = <<>> => ordered # <<>> /\ ordered[Len(ordered)] = Entry

\* Walk is called with what the entry reaches, and has listed or still has open what
\* it was called with.
SeenInv ==
  /\ \A f \in seen : Reaches(Entry, f)
  /\ pc # "failed" => seen = Listed \union Open /\ seen \intersect project.broken = {}
  /\ Through => stack = <<>>

WalkInv == TypeOK /\ StackInv /\ ListInv /\ SeenInv

\* What the innermost call's loop does to the stack.
LEMMA PassedStack ==
  ASSUME TypeOK, stack # <<>>
  PROVE  /\ Len(stack) \in Nat \ {0} /\ Len(stack) \in DOMAIN stack /\ DOMAIN stack = 1 .. Len(stack)
         /\ Passed \in Seq(Frame) /\ Len(Passed) = Len(stack) /\ DOMAIN Passed = DOMAIN stack
         /\ \A i \in DOMAIN stack : Passed[i].file = stack[i].file
         /\ \A i \in DOMAIN stack : i # Len(stack) => Passed[i].next = stack[i].next
         /\ Passed[Len(stack)].next = Top.next + 1
         /\ Passed # <<>> /\ Top = stack[Len(stack)] /\ Top \in Frame
<1>1. stack \in Seq(Frame) /\ Len(stack) \in Nat /\ DOMAIN stack = 1 .. Len(stack) /\ Len(stack) # 0
  BY DEF TypeOK
<1>2. Len(stack) \in DOMAIN stack /\ Top \in Frame
  BY <1>1 DEF Top
<1>3. \A i \in DOMAIN stack : stack[i] \in Frame
  BY <1>1
<1>4. \A i \in DOMAIN stack :
        Passed[i] = IF i = Len(stack) THEN [Top EXCEPT !.next = @ + 1] ELSE stack[i]
  BY <1>1 DEF Passed, Top
<1>5. [Top EXCEPT !.next = @ + 1] \in Frame
  BY <1>2 DEF Frame
<1>6. DOMAIN Passed = 1 .. Len(stack)
  BY <1>1 DEF Passed
<1>7. \A i \in 1 .. Len(stack) : Passed[i] \in Frame
  BY <1>1, <1>3, <1>4, <1>5
<1>8. Passed = [i \in 1 .. Len(stack) |-> Passed[i]]
  BY <1>1 DEF Passed
<1>9. Passed \in Seq(Frame) /\ Len(Passed) = Len(stack)
  BY <1>1, <1>6, <1>7, <1>8
<1>10. \A i \in DOMAIN stack : Passed[i].file = stack[i].file
  BY <1>2, <1>4 DEF Frame, Top
<1>11. Passed[Len(stack)].next = Top.next + 1
  BY <1>2, <1>4 DEF Frame
<1>. QED  BY <1>1, <1>2, <1>4, <1>6, <1>9, <1>10, <1>11 DEF Top

\* The dependency that the loop is at is a file, which the innermost one reaches.
LEMMA DepFacts ==
  ASSUME TypeOK, AtDep
  PROVE  Top.file \in File /\ Dep \in File /\ Reaches(Top.file, Dep) /\ Top.next \in Nat
<1>1. stack # <<>> /\ Top.next \in DOMAIN Deps(Top.file)
  BY DEF AtDep, Walking
<1>2. Top \in Frame
  BY <1>1, PassedStack
<1>3. Deps(Top.file) \in Seq(File)
  BY <1>2 DEF Frame, Deps, TypeOK, ComposeFile
<1>. QED  BY <1>1, <1>2, <1>3, ReachesDep DEF Frame, Dep

\* With it, the innermost call has come to one more.
LEMMA ComesOn ==
  ASSUME TypeOK, StackInv, AtDep,
         NEW k \in DOMAIN Deps(Top.file), k < Top.next + 1
  PROVE  Deps(Top.file)[k] \in seen \union {Dep}
<1>1. stack # <<>>
  BY DEF AtDep, Walking
<1>2. Len(stack) \in DOMAIN stack /\ Top = stack[Len(stack)] /\ Top \in Frame
  BY <1>1, PassedStack
<1>3. CameTo(Top.file, Top.next)
  BY <1>2 DEF StackInv
<1>4. Deps(Top.file) \in Seq(File) /\ Top.next \in Nat
  BY <1>2 DEF TypeOK, ComposeFile, Deps, Frame
<1>5. k = Top.next \/ k < Top.next
  BY <1>4
<1>. QED  BY <1>3, <1>5 DEF CameTo, Dep

\* Nothing is seen at first but the entry.
LEMMA WalkInit == Init => WalkInv
<1> SUFFICES ASSUME Init PROVE WalkInv
  OBVIOUS
<1>1. project \in ComposeFile /\ Entry \in File
  BY ComposeAssumption DEF Init
<1>2. /\ stack = <<[file |-> Entry, next |-> 1]>> /\ ordered = <<>> /\ seen = {Entry}
      /\ pc \in {"walk", "failed"} /\ (pc = "walk" => Entry \notin project.broken)
  BY DEF Init
<1>3. DOMAIN stack = {1} /\ stack[1].file = Entry /\ stack[1].next = 1 /\ DOMAIN ordered = {}
  BY <1>2
<1>4. Listed = {} /\ Open = {Entry}
  BY <1>3 DEF Listed, Open
<1>5. TypeOK
  BY <1>1, <1>2 DEF TypeOK, Frame
<1>6. StackInv
  <2>1. Reaches(Entry, Entry)
    BY ReachesItself
  <2>2. CameTo(Entry, 1)
    <3>1. Deps(Entry) \in Seq(File)
      BY <1>1 DEF Deps, ComposeFile
    <3>. QED  BY <3>1 DEF CameTo
  <2>. QED  BY <1>3, <1>4, <2>1, <2>2 DEF StackInv
<1>7. ListInv
  BY <1>2, <1>3, <1>4, FS_EmptySet DEF ListInv, DependenciesFirst
<1>8. SeenInv
  BY <1>2, <1>4, ReachesItself DEF SeenInv, Through
<1>. QED  BY <1>5, <1>6, <1>7, <1>8 DEF WalkInv

\* What a step leaves as it was of what has been listed, if it lists nothing.
LEMMA ListKept ==
  ASSUME ListInv, UNCHANGED <<project, ordered>>, seen \subseteq seen', stack' # <<>>
  PROVE  ListInv' /\ Listed' = Listed
<1>1. Listed' = Listed
  BY DEF Listed
<1>2. DependenciesFirst'
  BY ReachesKept DEF ListInv, DependenciesFirst, Deps
<1>. QED  BY <1>1, <1>2 DEF ListInv, Deps

\* The loop passes a dependency that has been seen.
LEMMA SkipInv == WalkInv /\ Skip => WalkInv'
<1> SUFFICES ASSUME WalkInv, Skip PROVE WalkInv'
  OBVIOUS
<1>. DEFINE n == Len(stack)
<1>1. /\ TypeOK /\ StackInv /\ ListInv /\ SeenInv
      /\ AtDep /\ Dep \in seen /\ stack' = Passed /\ stack # <<>> /\ pc = "walk"
      /\ project' = project /\ pc' = pc /\ seen' = seen /\ ordered' = ordered
  BY DEF WalkInv, Skip, AtDep, Walking
<1>2. /\ n \in DOMAIN stack /\ DOMAIN stack' = DOMAIN stack /\ stack' \in Seq(Frame) /\ stack' # <<>>
      /\ DOMAIN stack = 1 .. n /\ n \in Nat \ {0}
      /\ \A i \in DOMAIN stack : stack'[i].file = stack[i].file
      /\ \A i \in DOMAIN stack : i # n => stack'[i].next = stack[i].next
      /\ stack'[n].next = Top.next + 1 /\ Top = stack[n]
  BY <1>1, PassedStack
<1>3. TypeOK'
  BY <1>1, <1>2 DEF TypeOK
<1>4. ListInv' /\ Listed' = Listed
  BY <1>1, <1>2, ListKept
<1>5. Open' = Open
  BY <1>2 DEF Open
<1>6. \A f, g : Reaches(f, g)' <=> Reaches(f, g)
  BY <1>1, ReachesKept
<1>7. SeenInv'
  BY <1>1, <1>4, <1>5, <1>6 DEF SeenInv, Through
<1>8. ASSUME NEW i \in DOMAIN stack PROVE CameTo(stack[i].file, stack'[i].next)
  <2>1. CASE i = n
    <3>1. \A k \in DOMAIN Deps(Top.file) : k < Top.next + 1 => Deps(Top.file)[k] \in seen
      BY <1>1, ComesOn
    <3>. QED  BY <1>2, <2>1, <3>1 DEF CameTo
  <2>. QED  BY <1>1, <1>2, <2>1 DEF StackInv
<1>9. StackInv'
  <2>1. \A i \in DOMAIN stack' : CameTo(stack[i].file, stack[i].next)'
    BY <1>1, <1>2, <1>8 DEF CameTo, Deps
  <2>. QED  BY <1>1, <1>2, <1>4, <1>6, <2>1 DEF StackInv
<1>. QED  BY <1>3, <1>4, <1>7, <1>9 DEF WalkInv

\* A new file is called, and the innermost call has come to it.
LEMMA EnterInv == WalkInv /\ Enter => WalkInv'
<1> SUFFICES ASSUME WalkInv, Enter PROVE WalkInv'
  OBVIOUS
<1>. DEFINE n == Len(stack)
            new == [file |-> Dep, next |-> 1]
<1>1. /\ TypeOK /\ StackInv /\ ListInv /\ SeenInv
      /\ AtDep /\ Dep \notin seen /\ Dep \notin project.broken /\ stack' = Append(Passed, new)
      /\ stack # <<>> /\ pc = "walk" /\ seen' = seen \union {Dep}
      /\ project' = project /\ pc' = pc /\ ordered' = ordered
  BY DEF WalkInv, Enter, AtDep, Walking
<1>2. /\ n \in DOMAIN stack /\ DOMAIN Passed = DOMAIN stack /\ Passed \in Seq(Frame)
      /\ DOMAIN stack = 1 .. n /\ n \in Nat \ {0} /\ Len(Passed) = n
      /\ \A i \in DOMAIN stack : Passed[i].file = stack[i].file
      /\ \A i \in DOMAIN stack : i # n => Passed[i].next = stack[i].next
      /\ Passed[n].next = Top.next + 1 /\ Top = stack[n]
  BY <1>1, PassedStack
<1>3. Dep \in File /\ Reaches(Top.file, Dep) /\ new \in Frame
  BY <1>1, DepFacts DEF Frame
<1>4. /\ DOMAIN stack' = 1 .. n + 1 /\ stack' \in Seq(Frame) /\ stack' # <<>>
      /\ stack'[n + 1] = new /\ \A i \in DOMAIN stack : stack'[i] = Passed[i]
  BY <1>1, <1>2, <1>3
<1>5. TypeOK'
  BY <1>1, <1>3, <1>4 DEF TypeOK
<1>6. ListInv' /\ Listed' = Listed
  BY <1>1, <1>4, ListKept
<1>7. /\ \A i \in 1 .. n : stack'[i].file = stack[i].file
      /\ stack'[n + 1].file = Dep /\ stack'[n + 1].next = 1
  BY <1>2, <1>4
<1>8. Open' = Open \union {Dep}
  <2>1. Open' = {stack'[i].file : i \in 1 .. n + 1}
    BY <1>4 DEF Open
  <2>2. Open = {stack[i].file : i \in 1 .. n} /\ n \in Nat
    BY <1>2 DEF Open
  <2>3. \A i \in 1 .. n + 1 : i \in 1 .. n \/ i = n + 1
    BY <2>2
  <2>4. n + 1 \in 1 .. n + 1 /\ 1 .. n \subseteq 1 .. n + 1
    BY <2>2
  <2>5. Open' \subseteq Open \union {Dep}
    BY <1>7, <2>1, <2>2, <2>3
  <2>6. Open \union {Dep} \subseteq Open'
    BY <1>7, <2>1, <2>2, <2>4
  <2>. QED  BY <2>5, <2>6
<1>9. \A f, g : Reaches(f, g)' <=> Reaches(f, g)
  BY <1>1, ReachesKept
<1>10. ASSUME NEW i \in 1 .. n PROVE Reaches(stack[i].file, Top.file)
  BY <1>1, <1>2 DEF StackInv
<1>11. ASSUME NEW i \in 1 .. n PROVE Reaches(stack[i].file, Dep)
  BY <1>3, <1>10, ReachesOn
<1>12. Reaches(Entry, Dep)
  BY <1>1, <1>2, <1>11 DEF StackInv
<1>13. SeenInv'
  BY <1>1, <1>6, <1>8, <1>9, <1>12 DEF SeenInv, Through
<1>14. Dep \notin Open /\ Dep \notin Listed
  BY <1>1 DEF SeenInv
<1>15. \A i, j \in DOMAIN stack' : i <= j => Reaches(stack[i].file, stack[j].file)'
  <2>1. Reaches(Dep, Dep)
    BY ReachesItself
  <2>2. \A i, j \in 1 .. n : i <= j => Reaches(stack[i].file, stack[j].file)
    BY <1>1, <1>2 DEF StackInv
  <2>3. \A i, j \in 1 .. n + 1 : i <= j => (j = n + 1 /\ (i = n + 1 \/ i \in 1 .. n)) \/ (i \in 1 .. n /\ j \in 1 .. n)
    BY <1>2
  <2>. QED  BY <1>4, <1>7, <1>9, <1>11, <2>1, <2>2, <2>3
<1>16. \A i, j \in DOMAIN stack' : stack'[i].file = stack'[j].file => i = j
  <2>1. \A i \in 1 .. n : stack[i].file # Dep
    BY <1>2, <1>14 DEF Open
  <2>2. \A i, j \in 1 .. n : stack[i].file = stack[j].file => i = j
    BY <1>1, <1>2 DEF StackInv
  <2>. QED  BY <1>2, <1>4, <1>7, <2>1, <2>2
<1>17. ASSUME NEW i \in DOMAIN stack' PROVE CameTo(stack[i].file, stack[i].next)'
  <2>1. CASE i = n + 1
    <3>1. Deps(Dep) \in Seq(File)
      BY <1>1, <1>3 DEF TypeOK, ComposeFile, Deps
    <3>. QED  BY <1>1, <1>7, <2>1, <3>1 DEF CameTo, Deps
  <2>2. CASE i = n
    <3>1. \A k \in DOMAIN Deps(Top.file) : k < Top.next + 1 => Deps(Top.file)[k] \in seen'
      BY <1>1, ComesOn
    <3>2. stack'[i].file = Top.file /\ stack'[i].next = Top.next + 1
      BY <1>2, <1>4, <2>2
    <3>. QED  BY <1>1, <3>1, <3>2 DEF CameTo, Deps
  <2>3. CASE i \in 1 .. n - 1
    <3>1. stack'[i].next = stack[i].next /\ CameTo(stack[i].file, stack[i].next)
      BY <1>1, <1>2, <1>4, <2>3 DEF StackInv
    <3>2. stack'[i].file = stack[i].file
      BY <1>2, <1>7, <2>3
    <3>3. project' = project /\ \A f \in seen : f \in seen'
      BY <1>1
    <3>. QED  BY <3>1, <3>2, <3>3 DEF CameTo, Deps
  <2>. QED  BY <1>2, <1>4, <2>1, <2>2, <2>3
<1>18. \A i \in DOMAIN stack' : stack'[i].file \notin Listed'
  BY <1>1, <1>2, <1>4, <1>6, <1>7, <1>14 DEF StackInv
<1>19. stack'[1].file = Entry
  BY <1>1, <1>2, <1>7 DEF StackInv
<1>20. StackInv'
  BY <1>15, <1>16, <1>17, <1>18, <1>19 DEF StackInv
<1>. QED  BY <1>5, <1>6, <1>13, <1>20 DEF WalkInv

\* Resolve fails.
LEMMA RefuseInv == WalkInv /\ Refuse => WalkInv'
<1> SUFFICES ASSUME WalkInv, Refuse PROVE WalkInv'
  OBVIOUS
<1>1. /\ TypeOK /\ StackInv /\ ListInv /\ SeenInv
      /\ AtDep /\ stack # <<>> /\ pc' = "failed" /\ seen' = seen \union {Dep}
      /\ project' = project /\ stack' = stack /\ ordered' = ordered
  BY DEF WalkInv, Refuse, AtDep, Walking
<1>2. Dep \in File /\ Reaches(Top.file, Dep) /\ Len(stack) \in DOMAIN stack
      /\ 1 \in DOMAIN stack /\ 1 <= Len(stack) /\ Top = stack[Len(stack)]
  BY <1>1, DepFacts, PassedStack
<1>3. Reaches(Entry, Top.file)
  BY <1>1, <1>2 DEF StackInv
<1>4. Reaches(Entry, Dep)
  BY <1>2, <1>3, ReachesOn
<1>5. \A f, g : Reaches(f, g)' <=> Reaches(f, g)
  BY <1>1, ReachesKept
<1>6. ListInv' /\ Listed' = Listed
  BY <1>1, ListKept
<1>7. TypeOK' /\ SeenInv'
  BY <1>1, <1>2, <1>4, <1>5 DEF TypeOK, SeenInv, Through
<1>8. StackInv'
  BY <1>1, <1>5, <1>6 DEF StackInv, CameTo, Deps
<1>. QED  BY <1>6, <1>7, <1>8 DEF WalkInv

\* The innermost call returns, and lists its file.
LEMMA LeaveInv == WalkInv /\ Leave => WalkInv'
<1> SUFFICES ASSUME WalkInv, Leave PROVE WalkInv'
  OBVIOUS
<1>. DEFINE n == Len(stack)
            m == Len(ordered)
            f == Top.file
<1>1. /\ TypeOK /\ StackInv /\ ListInv /\ SeenInv
      /\ stack # <<>> /\ pc = "walk" /\ Top.next \notin DOMAIN Deps(f)
      /\ ordered' = Append(ordered, f) /\ stack' = SubSeq(stack, 1, n - 1)
      /\ project' = project /\ pc' = pc /\ seen' = seen
  BY DEF WalkInv, Leave, Walking
<1>2. /\ n \in Nat \ {0} /\ n \in DOMAIN stack /\ DOMAIN stack = 1 .. n
      /\ Top = stack[n] /\ f \in File /\ Top.next \in Nat \ {0}
  BY <1>1, PassedStack DEF Frame
<1>3. /\ stack' \in Seq(Frame) /\ DOMAIN stack' = 1 .. n - 1 /\ Len(stack') = n - 1
      /\ \A i \in 1 .. n - 1 : stack'[i] = stack[i]
  BY <1>1, <1>2 DEF TypeOK
<1>4. /\ m \in Nat /\ DOMAIN ordered = 1 .. m
      /\ ordered' \in Seq(File) /\ DOMAIN ordered' = 1 .. m + 1 /\ Len(ordered') = m + 1
      /\ ordered'[m + 1] = f /\ \A i \in 1 .. m : ordered'[i] = ordered[i]
  BY <1>1, <1>2 DEF TypeOK
<1>5. Listed' = Listed \union {f}
  BY <1>2, <1>4 DEF Listed
<1>6. \A i \in 1 .. n - 1 : stack[i].file # f
  BY <1>1, <1>2 DEF StackInv
<1>7. Open' = Open \ {f} /\ f \in Open
  BY <1>2, <1>3, <1>6 DEF Open
<1>8. f \notin Listed
  BY <1>1, <1>2 DEF StackInv
<1>9. \A g, h : Reaches(g, h)' <=> Reaches(g, h)
  BY <1>1, ReachesKept
<1>10. TypeOK'
  BY <1>1, <1>3, <1>4 DEF TypeOK
<1>11. SeenInv'
  BY <1>1, <1>5, <1>7, <1>9 DEF SeenInv, Through
<1>12. StackInv'
  <2>1. \A i \in DOMAIN stack' : i \in DOMAIN stack /\ stack'[i] = stack[i] /\ stack[i].file # f
    BY <1>2, <1>3, <1>6
  <2>2. \A i \in DOMAIN stack' : CameTo(stack[i].file, stack[i].next)'
    BY <1>1, <2>1 DEF StackInv, CameTo, Deps
  <2>3. stack' # <<>> => stack'[1].file = Entry
    <3>1. stack' # <<>> => 1 \in DOMAIN stack'
      BY <1>2, <1>3
    <3>. QED  BY <1>1, <2>1, <3>1 DEF StackInv
  <2>. QED  BY <1>1, <1>5, <1>9, <2>1, <2>2, <2>3 DEF StackInv
<1>13. \A k \in DOMAIN Deps(f) : Deps(f)[k] \in seen
  <2>1. Deps(f) \in Seq(File)
    BY <1>1, <1>2 DEF TypeOK, ComposeFile, Deps
  <2>2. \A k \in DOMAIN Deps(f) : k < Top.next
    BY <1>1, <1>2, <2>1
  <2>. QED  BY <1>1, <1>2, <2>2 DEF StackInv, CameTo
<1>14. ASSUME NEW i \in DOMAIN ordered', NEW k \in DOMAIN Deps(ordered'[i])
       PROVE  LET d == Deps(ordered'[i])[k]
              IN  (\E j \in 1 .. i - 1 : ordered'[j] = d) \/ Reaches(d, ordered'[i])
  <2>. DEFINE d == Deps(ordered'[i])[k]
  <2>1. CASE i \in 1 .. m
    <3>1. (\E j \in 1 .. i - 1 : ordered[j] = d) \/ Reaches(d, ordered[i])
      BY <1>1, <1>4, <2>1 DEF ListInv, DependenciesFirst
    <3>2. \A j \in 1 .. i - 1 : ordered'[j] = ordered[j]
      BY <1>4, <2>1
    <3>. QED  BY <1>4, <2>1, <3>1, <3>2
  <2>2. CASE i = m + 1
    <3>1. d \in Listed \/ d \in Open
      BY <1>1, <1>4, <1>13, <2>2 DEF SeenInv
    <3>2. ASSUME d \in Listed PROVE \E j \in 1 .. i - 1 : ordered'[j] = d
      BY <1>4, <2>2, <3>2 DEF Listed
    <3>3. ASSUME d \in Open PROVE Reaches(d, f)
      BY <1>1, <1>2, <3>3 DEF Open, StackInv
    <3>. QED  BY <1>4, <2>2, <3>1, <3>2, <3>3
  <2>. QED  BY <1>4, <2>1, <2>2
<1>15. DependenciesFirst'
  <2>1. \A g : Deps(g)' = Deps(g)
    BY <1>1 DEF Deps
  <2>2. \A i \in DOMAIN ordered' : \A k \in DOMAIN Deps(ordered[i])' :
          LET d == Deps(ordered[i])'[k]
          IN  (\E j \in 1 .. i - 1 : ordered'[j] = d) \/ Reaches(d, ordered'[i])
    BY <1>14, <2>1 DEF Deps
  <2>. QED  BY <1>9, <2>2 DEF DependenciesFirst
<1>16. IsFiniteSet(Listed') /\ Cardinality(Listed') = Len(ordered')
  <2>1. IsFiniteSet(Listed) /\ Cardinality(Listed) = m
    BY <1>1 DEF ListInv
  <2>2. IsFiniteSet(Listed \union {f}) /\ Cardinality(Listed \union {f}) = m + 1
    BY <1>8, <2>1, FS_AddElement
  <2>. QED  BY <1>4, <1>5, <2>2
<1>17. \A i \in DOMAIN ordered' : \A k \in DOMAIN Deps(ordered'[i]) : Deps(ordered'[i])[k] \in seen
  <2>1. ASSUME NEW i \in 1 .. m PROVE \A k \in DOMAIN Deps(ordered'[i]) : Deps(ordered'[i])[k] \in seen
    BY <1>1, <1>4 DEF ListInv
  <2>2. ASSUME NEW i, i = m + 1 PROVE \A k \in DOMAIN Deps(ordered'[i]) : Deps(ordered'[i])[k] \in seen
    BY <1>4, <1>13, <2>2
  <2>. QED  BY <1>4, <2>1, <2>2
<1>18. stack' = <<>> => ordered' # <<>> /\ ordered'[Len(ordered')] = Entry
  <2>1. ASSUME stack' = <<>> PROVE n = 1
    <3>1. Len(stack') = 0
      BY <2>1
    <3>2. Len(stack') = n - 1 /\ n \in Nat
      BY <1>2, <1>3
    <3>. QED  BY ONLY <3>1, <3>2
  <2>. QED  BY <1>1, <1>2, <1>4, <2>1 DEF StackInv
<1>19. ListInv'
  BY <1>1, <1>15, <1>16, <1>17, <1>18 DEF ListInv, Deps
<1>. QED  BY <1>10, <1>11, <1>12, <1>19 DEF WalkInv

\* The walk is over once the names are given.
LEMMA NamingKeepsWalk ==
  ASSUME WalkInv, UNCHANGED <<project, walking>>, pc' \in {"walk", "failed", "name", "done"},
         pc' = "failed" <=> pc = "failed", pc' \in {"name", "done"} => stack = <<>>
  PROVE  WalkInv'
<1>1. project' = project /\ stack' = stack /\ seen' = seen /\ ordered' = ordered
  BY DEF walking
<1>2. \A f, g : Reaches(f, g)' <=> Reaches(f, g)
  BY <1>1, ReachesKept
<1>3. Listed' = Listed /\ Open' = Open
  BY <1>1 DEF Listed, Open
<1>4. TypeOK' /\ SeenInv'
  BY <1>1, <1>2, <1>3 DEF WalkInv, TypeOK, SeenInv, Through
<1>5. StackInv'
  BY <1>1, <1>2, <1>3 DEF WalkInv, StackInv, CameTo, Deps
<1>6. DependenciesFirst'
  BY <1>1, <1>2 DEF WalkInv, ListInv, DependenciesFirst, Deps
<1>7. ListInv'
  BY <1>1, <1>3, <1>6 DEF WalkInv, ListInv, Deps
<1>. QED  BY <1>4, <1>5, <1>7 DEF WalkInv

\* Every step keeps the walk's invariant.
LEMMA WalkNext == WalkInv /\ [Next]_vars => WalkInv'
<1> SUFFICES ASSUME WalkInv, [Next]_vars PROVE WalkInv'
  OBVIOUS
<1>1. CASE Resolved
  BY <1>1, NamingKeepsWalk DEF Resolved
<1>2. CASE NameService \/ NameFile
  BY <1>2, NamingKeepsWalk DEF NameService, NameFile, Naming, WalkInv, SeenInv, Through
<1>3. CASE Named
  BY <1>3, NamingKeepsWalk DEF Named, WalkInv, SeenInv, Through
<1>4. CASE UNCHANGED vars
  BY <1>4, NamingKeepsWalk DEF vars, WalkInv, TypeOK, SeenInv, Through
<1>. QED  BY <1>1, <1>2, <1>3, <1>4, SkipInv, EnterInv, RefuseInv, LeaveInv DEF Next

\* The walk's invariant holds in every reachable state.
THEOREM WalkInvariance == Spec => []WalkInv
BY WalkInit, WalkNext, PTL DEF Spec

\* Resolve lists a file after what it depends on, cycles apart.
THEOREM DependenciesComeFirst == Spec => []DependenciesFirst
<1>1. WalkInv => DependenciesFirst
  BY DEF WalkInv, ListInv
<1>. QED  BY <1>1, WalkInvariance, PTL

\* A successful Resolve lists exactly what the entry reaches, once each, none of it
\* unreadable, and the entry last.
THEOREM ListsWhatIsReached == Spec => []ExactlyReached
<1>1. WalkInv => ExactlyReached
  <2> SUFFICES ASSUME WalkInv, Through
               PROVE  /\ Listed = {f \in File : Reaches(Entry, f)}
                      /\ Len(ordered) = Cardinality(Listed)
                      /\ Listed \intersect project.broken = {}
                      /\ ordered[Len(ordered)] = Entry
    BY DEF ExactlyReached
  <2>1. stack = <<>> /\ Open = {} /\ seen = Listed
    BY DEF WalkInv, SeenInv, Through, Open
  <2>2. ordered \in Seq(File) /\ ordered # <<>> /\ ordered[Len(ordered)] = Entry
    BY <2>1 DEF WalkInv, TypeOK, ListInv
  <2>3. Entry \in Listed /\ Listed \subseteq File
    BY <2>2 DEF Listed
  <2>4. Closed(Listed)
    BY <2>1 DEF WalkInv, ListInv, Closed, Listed
  <2>5. \A f : Reaches(Entry, f) => f \in Listed
    BY <2>3, <2>4 DEF Reaches
  <2>6. \A f \in Listed : Reaches(Entry, f)
    BY <2>1 DEF WalkInv, SeenInv
  <2>. QED  BY <2>1, <2>2, <2>3, <2>5, <2>6 DEF WalkInv, ListInv, SeenInv, Through
<1>. QED  BY <1>1, WalkInvariance, PTL

-----------------------------------------------------------------------------
(***************************************************************************)
(* The names.                                                              *)
(***************************************************************************)

\* The services that call themselves n.
Owners(n) ==
  {s \in Service : \E f \in Listed : s \in project.services[f] /\ project.short[f][s] = n}

\* ShortNameMap has come to the service s of its i-th file.
Visited(i, s) ==
  s \in project.services[ordered[i]] /\ (i < at \/ (i = at /\ s \notin left))

\* A name that one of the services it has come to calls itself is that of an owner.
OwnersKept ==
  \A i \in DOMAIN ordered : \A s \in Service :
    Visited(i, s) =>
      LET n == project.short[ordered[i]][s]
      IN  n \in Name => n \in DOMAIN names /\ names[n] \in Owners(n)

NameInv ==
  /\ at \in Nat
  /\ pc \in {"walk", "failed"} => at = 0
  /\ Through => at \in 1 .. Len(ordered) + 1
  /\ pc = "done" => at \notin DOMAIN ordered
  /\ at \in DOMAIN ordered => left \subseteq project.services[ordered[at]]
  /\ OwnersKept

\* While Resolve walks, no service has been come to.
LEMMA UnnamedYet ==
  TypeOK /\ (at = 0 \/ (at = 1 /\ left = project.services[ordered[1]])) => OwnersKept
<1> SUFFICES ASSUME TypeOK, at = 0 \/ (at = 1 /\ left = project.services[ordered[1]])
             PROVE  OwnersKept
  OBVIOUS
<1>1. DOMAIN ordered = 1 .. Len(ordered) /\ Len(ordered) \in Nat
  BY DEF TypeOK
<1>2. \A i \in DOMAIN ordered : \A s : ~Visited(i, s)
  BY <1>1 DEF Visited
<1>. QED  BY <1>2 DEF OwnersKept

\* Setting a name to an owner, or one that is not there, keeps those of the owners.
LEMMA NameGiven ==
  ASSUME OwnersKept,
         names' = names
           \/ \E n, t : Set(n, t) /\ (t \in Owners(n) \/ n \notin DOMAIN names),
         NEW i \in DOMAIN ordered, NEW s \in Service, Visited(i, s),
         NEW m \in Name, m = project.short[ordered[i]][s]
  PROVE  m \in DOMAIN names' /\ names'[m] \in Owners(m)
<1>1. m \in DOMAIN names /\ names[m] \in Owners(m)
  BY DEF OwnersKept
<1>2. CASE \E n, t : Set(n, t) /\ (t \in Owners(n) \/ n \notin DOMAIN names)
  <2>1. PICK n, t : Set(n, t) /\ (t \in Owners(n) \/ n \notin DOMAIN names)
    BY <1>2
  <2>2. DOMAIN names' = DOMAIN names \union {n}
    BY <2>1 DEF Set
  <2>3. names'[m] = IF m = n THEN t ELSE names[m]
    BY <1>1, <2>1 DEF Set
  <2>. QED  BY <1>1, <2>1, <2>2, <2>3
<1>. QED  BY <1>1, <1>2

\* What is to be shown of a step in which names are given.
LEMMA NamesKept ==
  ASSUME UNCHANGED <<project, ordered>>,
         \A i \in DOMAIN ordered : \A s \in Service : \A m \in Name :
           Visited(i, s)' /\ m = project.short[ordered[i]][s]
             => m \in DOMAIN names' /\ names'[m] \in Owners(m)
  PROVE  OwnersKept'
<1>1. Listed' = Listed
  BY DEF Listed
<1>2. \A n : Owners(n)' = Owners(n)
  BY <1>1 DEF Owners
<1>. QED  BY <1>2 DEF OwnersKept

\* A service's own name is set.
LEMMA NameServiceInv == WalkInv /\ NameInv /\ NameService => NameInv'
<1> SUFFICES ASSUME WalkInv, NameInv, NameService PROVE NameInv'
  OBVIOUS
<1>1. PICK t \in left :
        /\ left' = left \ {t}
        /\ LET n == project.short[Here][t] IN IF n = NoName THEN UNCHANGED names ELSE Set(n, t)
  BY DEF NameService
<1>2. /\ pc = "name" /\ at \in DOMAIN ordered /\ UNCHANGED <<project, pc, ordered, at>>
      /\ OwnersKept /\ left \subseteq project.services[Here] /\ project \in ComposeFile /\ Here \in File
  BY DEF NameService, Naming, walking, WalkInv, TypeOK, NameInv, Here
<1>. DEFINE n == project.short[Here][t]
<1>3. t \in Service /\ t \in project.services[Here] /\ t \in Owners(n)
  <2>1. t \in project.services[Here] /\ Here \in Listed
    BY <1>2 DEF Here, Listed
  <2>2. t \in Service
    BY <1>2, <2>1 DEF ComposeFile
  <2>. QED  BY <2>1, <2>2 DEF Owners
<1>4. names' = names \/ Set(n, t)
  BY <1>1
<1>5. ASSUME NEW i \in DOMAIN ordered, NEW s \in Service, NEW m \in Name,
             Visited(i, s)', m = project.short[ordered[i]][s]
      PROVE  m \in DOMAIN names' /\ names'[m] \in Owners(m)
  <2>1. Visited(i, s) \/ (i = at /\ s = t)
    BY <1>1, <1>2, <1>5 DEF Visited
  <2>2. CASE Visited(i, s)
    BY <1>2, <1>3, <1>4, <1>5, <2>2, NameGiven
  <2>3. CASE i = at /\ s = t
    <3>1. m = n /\ Set(n, t)
      BY <1>1, <1>5, <2>3, ComposeAssumption DEF Here
    <3>. QED  BY <1>3, <3>1 DEF Set
  <2>. QED  BY <2>1, <2>2, <2>3
<1>6. OwnersKept'
  BY <1>2, <1>5, NamesKept
<1>. QED  BY <1>1, <1>2, <1>6 DEF NameInv, Through

\* A file's name is set, if it is free.
LEMMA NameFileInv == WalkInv /\ NameInv /\ NameFile => NameInv'
<1> SUFFICES ASSUME WalkInv, NameInv, NameFile PROVE NameInv'
  OBVIOUS
<1>1. /\ pc = "name" /\ at \in DOMAIN ordered /\ left = {} /\ at' = at + 1
      /\ left' = IF at < Len(ordered) THEN project.services[ordered[at + 1]] ELSE {}
      /\ UNCHANGED <<project, pc, ordered>> /\ OwnersKept /\ at \in Nat
      /\ DOMAIN ordered = 1 .. Len(ordered) /\ Len(ordered) \in Nat
  BY DEF NameFile, Naming, walking, WalkInv, TypeOK, NameInv
<1>2. names' = names \/ \E n, t : Set(n, t) /\ n \notin DOMAIN names
  BY DEF NameFile
<1>3. ASSUME NEW i \in DOMAIN ordered, NEW s \in Service, NEW m \in Name,
             Visited(i, s)', m = project.short[ordered[i]][s]
      PROVE  m \in DOMAIN names' /\ names'[m] \in Owners(m)
  <2>1. Visited(i, s)
    BY <1>1, <1>3 DEF Visited
  <2>. QED  BY <1>1, <1>2, <1>3, <2>1, NameGiven
<1>4. OwnersKept'
  BY <1>1, <1>3, NamesKept
<1>5. at' \in 1 .. Len(ordered) + 1 /\ (at' \in DOMAIN ordered => left' = project.services[ordered[at']])
  BY <1>1
<1>. QED  BY <1>1, <1>4, <1>5 DEF NameInv, Through

\* Every step keeps the invariant of the names.
LEMMA NameNext == WalkInv /\ WalkInv' /\ NameInv /\ [Next]_vars => NameInv'
<1> SUFFICES ASSUME WalkInv, WalkInv', NameInv, [Next]_vars PROVE NameInv'
  OBVIOUS
<1>1. CASE Skip \/ Enter \/ Refuse \/ Leave
  <2>1. pc = "walk" /\ UNCHANGED naming /\ pc' \in {"walk", "failed"}
    BY <1>1 DEF Skip, Enter, Refuse, Leave, AtDep, Walking
  <2>2. (at = 0)' /\ TypeOK'
    BY <2>1 DEF NameInv, naming, WalkInv
  <2>3. OwnersKept'
    BY <2>2, UnnamedYet, PTL
  <2>4. at' \notin DOMAIN ordered'
    BY <2>2 DEF TypeOK
  <2>. QED  BY <2>1, <2>2, <2>3, <2>4 DEF NameInv, Through
<1>2. CASE Resolved
  <2>1. /\ pc' = "name" /\ at' = 1 /\ left' = project.services[ordered[1]]
        /\ UNCHANGED <<project, ordered>> /\ stack = <<>>
    BY <1>2 DEF Resolved, walking
  <2>2. ordered \in Seq(File) /\ ordered # <<>> /\ TypeOK'
    BY <2>1 DEF WalkInv, ListInv, TypeOK
  <2>3. Len(ordered) \in Nat \ {0}
    BY <2>2
  <2>4. (at = 1 /\ left = project.services[ordered[1]])'
    BY <2>1
  <2>5. OwnersKept'
    BY <2>2, <2>4, UnnamedYet, PTL
  <2>. QED  BY <2>1, <2>3, <2>5 DEF NameInv, Through
<1>3. CASE Named
  <2>1. pc = "name" /\ pc' = "done" /\ at \notin DOMAIN ordered /\ UNCHANGED <<project, ordered, naming>>
    BY <1>3 DEF Named, walking
  <2>2. OwnersKept'
    BY <2>1 DEF NameInv, OwnersKept, Visited, Owners, Listed, naming
  <2>. QED  BY <2>1, <2>2 DEF NameInv, naming, Through
<1>4. CASE UNCHANGED vars
  BY <1>4 DEF vars, walking, naming, NameInv, OwnersKept, Visited, Owners, Listed, Through
<1>. QED  BY <1>1, <1>2, <1>3, <1>4, NameServiceInv, NameFileInv DEF Next

\* No name is given at first.
LEMMA NameInit == Init => NameInv
<1> SUFFICES ASSUME Init PROVE NameInv
  OBVIOUS
<1>1. WalkInv
  BY WalkInit
<1>2. at = 0 /\ ordered = <<>> /\ pc \in {"walk", "failed"}
  BY DEF Init
<1>3. OwnersKept
  BY <1>1, <1>2, UnnamedYet DEF WalkInv
<1>. QED  BY <1>2, <1>3 DEF NameInv, Through

\* The invariant of walk and names holds in every reachable state.
THEOREM ComposeInvariance == Spec => [](WalkInv /\ NameInv)
BY WalkInit, WalkNext, NameInit, NameNext, PTL DEF Spec

\* ShortNameMap gives a name that a service calls itself to such a service, never to
\* the only one of a file of that name.
THEOREM OwnersKeepTheirNames == Spec => []OwnNameWins
<1>1. WalkInv /\ NameInv => OwnNameWins
  <2> SUFFICES ASSUME WalkInv, NameInv, pc = "done", NEW n \in Name, Owners(n) # {}
               PROVE  n \in DOMAIN names /\ names[n] \in Owners(n)
    BY DEF OwnNameWins, Owners
  <2>1. PICK s \in Service : \E f \in Listed : s \in project.services[f] /\ project.short[f][s] = n
    BY DEF Owners
  <2>2. PICK i \in DOMAIN ordered : s \in project.services[ordered[i]] /\ project.short[ordered[i]][s] = n
    BY <2>1 DEF Listed
  <2>3. at \in 1 .. Len(ordered) + 1 /\ at \notin DOMAIN ordered /\ DOMAIN ordered = 1 .. Len(ordered)
        /\ Len(ordered) \in Nat
    BY DEF NameInv, Through, WalkInv, TypeOK
  <2>4. i < at
    BY <2>3
  <2>. QED  BY <2>2, <2>4 DEF NameInv, OwnersKept, Visited
<1>. QED  BY <1>1, ComposeInvariance, PTL
=============================================================================
