------------------------------ MODULE Compose ------------------------------
(***************************************************************************)
(* compose/resolve.go: Resolve's depth-first walk over compose files that  *)
(* name the files they depend on, and ShortNameMap over its result.        *)
(*                                                                         *)
(* Every caller passes Resolve one path.  The calls of walk are a stack of *)
(* frames, each with the index of the dependency that its loop is at.      *)
(* Paths are their cleaned, absolute form.                                 *)
(***************************************************************************)
EXTENDS Naturals, FiniteSets, Sequences

CONSTANTS
  File,     \* paths of compose files
  Entry,    \* the path that is passed to Resolve
  Service,  \* compose services
  Name,     \* short names
  NoName,   \* no short name given
  Project   \* what the files may say

ComposeFile == [
  deps     : [File -> Seq(File)],               \* depends-on-compose
  broken   : SUBSET File,                       \* cannot be read or parsed
  services : [File -> SUBSET Service],
  short    : [File -> [Service -> Name \union {NoName}]],  \* services' short-name
  title    : [File -> Name \union {NoName}]]               \* files' short-name

ASSUME ComposeAssumption ==
  /\ Entry \in File
  /\ NoName \notin Name
  /\ Project \subseteq ComposeFile

VARIABLES
  project,  \* what the files say
  pc,       \* "walk", "failed", then "name" and "done"
  stack,    \* the open calls of walk, the innermost last
  seen,     \* the paths walk has been called with
  ordered,  \* the files it has returned from
  at,       \* the index in ordered that ShortNameMap is at
  left,     \* the services of that file it has not come to
  names     \* its map so far

walking == <<stack, seen, ordered>>
naming  == <<at, left, names>>
vars    == <<project, pc, walking, naming>>

Listed == {ordered[i] : i \in DOMAIN ordered}
Open == {stack[i].file : i \in DOMAIN stack}
Top == stack[Len(stack)]
Deps(f) == project.deps[f]

\* The dependency that the innermost call is at.
Dep == Deps(Top.file)[Top.next]

Init ==
  /\ project \in Project
  /\ pc = IF Entry \in project.broken THEN "failed" ELSE "walk"
  /\ stack = <<[file |-> Entry, next |-> 1]>>
  /\ seen = {Entry}
  /\ ordered = <<>>
  /\ at = 0
  /\ left = {}
  /\ names = [n \in {} |-> n]

\* The loop of the innermost call has passed its dependency.
Passed == [stack EXCEPT ![Len(stack)].next = @ + 1]

Walking == pc = "walk" /\ stack # <<>>

AtDep == Walking /\ Top.next \in DOMAIN Deps(Top.file)

\* Faulty variant: only files that have been listed count as seen, and a cycle is
\* not left.
SkipListed ==
  /\ AtDep
  /\ Dep \in Listed
  /\ stack' = Passed
  /\ UNCHANGED <<project, pc, seen, ordered, naming>>

\* walk returns at once from a path it has been called with before.
Skip ==
  /\ AtDep
  /\ Dep \in seen
  /\ stack' = Passed
  /\ UNCHANGED <<project, pc, seen, ordered, naming>>

\* walk is called with a new path and parses the file.
Enter ==
  /\ AtDep
  /\ Dep \notin seen \union project.broken
  /\ seen' = seen \union {Dep}
  /\ stack' = Append(Passed, [file |-> Dep, next |-> 1])
  /\ UNCHANGED <<project, pc, ordered, naming>>

\* Faulty variant: a file that cannot be read is passed over.
RefuseNot ==
  /\ AtDep
  /\ Dep \in project.broken \ seen
  /\ seen' = seen \union {Dep}
  /\ stack' = Passed
  /\ UNCHANGED <<project, pc, ordered, naming>>

\* walk is called with a new path that parseComposeFile refuses.
Refuse ==
  /\ AtDep
  /\ Dep \in project.broken \ seen
  /\ seen' = seen \union {Dep}
  /\ pc' = "failed"
  /\ UNCHANGED <<project, stack, ordered, naming>>

\* Faulty variant: the file precedes its dependencies.
LeaveFirst ==
  /\ Walking
  /\ Top.next \notin DOMAIN Deps(Top.file)
  /\ ordered' = <<Top.file>> \o ordered
  /\ stack' = SubSeq(stack, 1, Len(stack) - 1)
  /\ UNCHANGED <<project, pc, seen, naming>>

\* The loop is through: the file follows its dependencies.
Leave ==
  /\ Walking
  /\ Top.next \notin DOMAIN Deps(Top.file)
  /\ ordered' = Append(ordered, Top.file)
  /\ stack' = SubSeq(stack, 1, Len(stack) - 1)
  /\ UNCHANGED <<project, pc, seen, naming>>

Resolved ==
  /\ pc = "walk" /\ stack = <<>>
  /\ pc' = "name"
  /\ at' = 1
  /\ left' = project.services[ordered[1]]
  /\ UNCHANGED <<project, walking, names>>

-----------------------------------------------------------------------------
Naming == pc = "name" /\ at \in DOMAIN ordered

Here == ordered[at]

Set(n, s) == names' = [m \in DOMAIN names \union {n} |-> IF m = n THEN s ELSE names[m]]

\* The next service of the file, in the order of a Go map, sets its name.
NameService ==
  /\ Naming
  /\ \E s \in left :
       /\ left' = left \ {s}
       /\ LET n == project.short[Here][s]
          IN  IF n = NoName THEN UNCHANGED names ELSE Set(n, s)
  /\ UNCHANGED <<project, pc, walking, at>>

\* Faulty variant: the file's name goes to its only service, taken or not.
NameFileAlways ==
  /\ Naming /\ left = {}
  /\ LET n == project.title[Here]
         only == project.services[Here]
     IN  IF n # NoName /\ Cardinality(only) = 1
           THEN \E s \in only : Set(n, s)
           ELSE UNCHANGED names
  /\ at' = at + 1
  /\ left' = IF at < Len(ordered) THEN project.services[ordered[at + 1]] ELSE {}
  /\ UNCHANGED <<project, pc, walking>>

\* The file's own name goes to its only service, unless it is taken.
NameFile ==
  /\ Naming /\ left = {}
  /\ LET n == project.title[Here]
         only == project.services[Here]
     IN  IF n # NoName /\ Cardinality(only) = 1 /\ n \notin DOMAIN names
           THEN \E s \in only : Set(n, s)
           ELSE UNCHANGED names
  /\ at' = at + 1
  /\ left' = IF at < Len(ordered) THEN project.services[ordered[at + 1]] ELSE {}
  /\ UNCHANGED <<project, pc, walking>>

Named ==
  /\ pc = "name" /\ at \notin DOMAIN ordered
  /\ pc' = "done"
  /\ UNCHANGED <<project, walking, naming>>

Next == Skip \/ Enter \/ Refuse \/ Leave \/ Resolved \/ NameService \/ NameFile \/ Named

Spec == Init /\ [][Next]_vars

\* The command runs to its end.
FairSpec == Spec /\ WF_vars(Next)

-----------------------------------------------------------------------------
Closed(S) == \A f \in S : \A i \in DOMAIN Deps(f) : Deps(f)[i] \in S

\* g is f, or a dependency of it, or of one of its dependencies...
Reaches(f, g) == \A S \in SUBSET File : f \in S /\ Closed(S) => g \in S

Through == pc \in {"name", "done"}

\* "Dependencies before dependents" (resolve.go:60), except where a file depends
\* on one that depends on it in turn.
DependenciesFirst ==
  \A i \in DOMAIN ordered : \A k \in DOMAIN Deps(ordered[i]) :
    LET d == Deps(ordered[i])[k]
    IN  (\E j \in 1 .. i - 1 : ordered[j] = d) \/ Reaches(d, ordered[i])

\* A successful Resolve lists exactly what the entry depends on, all of it
\* readable, each file once however many others depend on it ("Deduplicated",
\* resolve.go:61), and the entry last, where injectProjectEnv looks for it.
ExactlyReached ==
  Through =>
    /\ Listed = {f \in File : Reaches(Entry, f)}
    /\ Len(ordered) = Cardinality(Listed)
    /\ Listed \intersect project.broken = {}
    /\ ordered[Len(ordered)] = Entry

\* A service's own short name is never given to the only service of a file
\* with that name (resolve.go:166), in whatever order files and services come.
OwnNameWins ==
  pc = "done" =>
    \A n \in Name :
      LET owners == {s \in Service : \E f \in Listed : s \in project.services[f] /\ project.short[f][s] = n}
      IN  owners # {} => n \in DOMAIN names /\ names[n] \in owners

\* Resolve ends, cycles or not.
Ends == <>(pc \in {"failed", "done"})
=============================================================================
