-------------------------------- MODULE Ctl --------------------------------
(***************************************************************************)
(* cli/cmd/ctl: `ctl start`, `ctl dev`, both with --native, and `ctl stop`,*)
(* typed in several terminals of one machine.  A service runs in its       *)
(* container or natively; the commands of overlapping compositions hand it *)
(* over.  What Resolve returns for an entry file is the constant Resolved  *)
(* (module Compose); Docker names the containers of a file in BoxName.     *)
(***************************************************************************)
EXTENDS Integers, FiniteSets, Sequences, SequencesExt

CONSTANTS
  Terminal, Service, Entry,
  Var, ProjectName, DBPass,  \* environment variables, and two of them
  Value, Unset,
  Resolved,   \* [Entry -> Seq(ComposeFile)]
  Short,      \* [Entry -> short names to services]
  BoxName,    \* [Service -> the name of its container]
  Shell,      \* [Terminal -> Env]: the environment of each terminal
  Home,       \* Env: ~/.<name>/etc/env
  Requests,   \* the commands that may be typed
  NoNative,   \* no --native
  MaxFaults   \* failures and interruptions

Env == [Var -> Value \union {Unset}]

\* A request is [verb, entry, names, native]; native is a sequence of names.
ASSUME CtlAssumption ==
  /\ {ProjectName, DBPass} \subseteq Var /\ Unset \notin Value
  /\ Shell \in [Terminal -> Env] /\ Home \in Env
  /\ \A e \in Entry : \A i \in DOMAIN Resolved[e] : Resolved[e][i].services \subseteq Service
  /\ IsFiniteSet(Service) /\ Requests # {}
  /\ \A a \in Requests : a.verb \in {"start", "dev", "stop"} /\ a.entry \in Entry

VARIABLES
  box,      \* the environment that each service's container runs in, {} if none does
  native,   \* services that run natively
  told,     \* services that the last command's output said to run by hand
  pc, asked, left,  \* of each terminal; left is the loop over includeSvcs
  slipped,  \* history: services whose handover went wrong
  calm,     \* history: no other command since this one was typed
  faults

machine == <<box, native, told>>
history == <<slipped, calm, faults>>
vars == <<machine, pc, asked, left, history>>

-----------------------------------------------------------------------------
Services(e) == UNION {Resolved[e][i].services : i \in DOMAIN Resolved[e]}

\* AllServices: file by file, within a file in the order of a Go map.
AllServices(e) ==
  LET upTo(n) == UNION {Resolved[e][i].services : i \in {i \in DOMAIN Resolved[e] : i <= n}}
  IN  {q \in [1 .. Cardinality(Services(e)) -> Services(e)] :
         /\ Range(q) = Services(e)
         /\ \A i, j \in DOMAIN q, n \in DOMAIN Resolved[e] : i < j /\ q[j] \in upTo(n) => q[i] \in upTo(n)}

NoSchemaf == [stop |-> FALSE, run |-> FALSE, absent |-> [v \in {} |-> Unset]]

\* The first extension of the service's own, or of a file that has only this one.
FindSchemafByService(e, s) ==
  LET found == [i \in DOMAIN Resolved[e] |->
        LET f == Resolved[e][i]
        IN  IF s \notin f.services THEN {}
            ELSE IF s \in DOMAIN f.own THEN {f.own[s]}
            ELSE IF f.services = {s} THEN f.schemaf ELSE {}]
      hits == {i \in DOMAIN found : found[i] # {}}
  IN  IF hits = {} THEN NoSchemaf
      ELSE CHOOSE x \in found[CHOOSE i \in hits : \A j \in hits : i <= j] : TRUE

\* A name that is no short name is taken for a service, known or not.
ParseShortName(e, n) == IF n \in DOMAIN Short[e] THEN Short[e][n] ELSE n

\* The container_name of the service, or the service's name.
ContainerName(e, s) ==
  IF \E i \in DOMAIN Resolved[e] : s \in Resolved[e][i].named THEN BoxName[s] ELSE s

Included(a) ==
  IF a.verb = "dev" THEN {ParseShortName(a.entry, n) : n \in a.names} ELSE Services(a.entry)

\* Faulty variant: the names are compared before they are resolved.
ExcludedUnparsed(a) == IF a.verb = "dev" THEN Services(a.entry) \ a.names ELSE {}

Excluded(a) == Services(a.entry) \ Included(a)

Given(env, more) == [v \in Var |-> IF env[v] = Unset THEN more[v] ELSE env[v]]

\* From the entry file, the last one: its project, and its password if none is set.
InjectProjectEnv(e, env) ==
  LET entry == Last(Resolved[e])
  IN  IF entry.project = Unset THEN env
      ELSE [env EXCEPT ![ProjectName] = entry.project,
                       ![DBPass] = IF @ = Unset THEN entry.pass ELSE @]

LoadProjectEnv(env) == Given(env, Home)

Environment(c) == LoadProjectEnv(InjectProjectEnv(asked[c].entry, Shell[c]))

\* What the services in S say of the variables, in order; a later one wins.
LastWords(e, S, order) ==
  LET sayers(v) == {i \in DOMAIN order : order[i] \in S /\ v \in DOMAIN FindSchemafByService(e, order[i]).absent}
  IN  [v \in {w \in Var : sayers(w) # {}} |->
         FindSchemafByService(e, order[CHOOSE i \in sayers(v) : \A j \in sayers(v) : j <= i]).absent[v]]

\* Faulty variant: the overrides of the services that run.
OverridesOfIncluded(a, order) == LastWords(a.entry, Included(a), order)

\* env-overrides-when-absent of the excluded services.
Overrides(a, order) == LastWords(a.entry, Excluded(a), order)

-----------------------------------------------------------------------------
Busy == {"stop", "spawn", "down", "kill", "up"}
Up == {s \in Service : box[s] # {}}
Target(c) == ParseShortName(asked[c].entry, asked[c].native[1])
Schemaf(c, s) == FindSchemafByService(asked[c].entry, s)
Without(S) == [s \in Service |-> IF s \in S THEN {} ELSE box[s]]

Goto(c, l) == pc' = [pc EXCEPT ![c] = l]
MayFail == faults < MaxFaults /\ faults' = faults + 1

Init ==
  /\ box = [s \in Service |-> {}]
  /\ native = {} /\ told = {}
  /\ pc = [c \in Terminal |-> "idle"]
  /\ asked = [c \in Terminal |-> CHOOSE a \in Requests : TRUE]
  /\ left = [c \in Terminal |-> {}]
  /\ slipped = {} /\ calm = [c \in Terminal |-> FALSE] /\ faults = 0

\* A command is typed, and read up to its first call.  Of --native's services the
\* loop reaches the first only.
Type(c, a) ==
  LET others == {d \in Terminal \ {c} : pc[d] \in Busy}
  IN  /\ pc[c] \notin Busy \union {"native"}
      /\ asked' = [asked EXCEPT ![c] = a]
      /\ Goto(c, IF a.verb = "stop" \/ a.native = NoNative THEN "down"
                 ELSE IF a.native = <<>> THEN "done" ELSE "stop")
      /\ told' = {}
      /\ calm' = [d \in Terminal |-> d = c /\ others = {}]
      /\ slipped' = slipped \union UNION {Services(a.entry) \intersect Services(asked[d].entry) : d \in others}
      /\ UNCHANGED <<box, native, left, faults>>

-----------------------------------------------------------------------------
\* --native: `docker stop`, its outcome ignored, and the lookup of dev-instructions.
StopContainer(c) ==
  LET s == Target(c)
      named == {t \in Service : BoxName[t] = ContainerName(asked[c].entry, s)}
  IN  /\ pc[c] = "stop"
      /\ \/ box' = Without(named) /\ UNCHANGED faults
         \/ named \intersect Up # {} /\ MayFail /\ UNCHANGED box
      /\ slipped' = slipped \union {t \in Service : t = s /\ box'[t] # {}}
      /\ Goto(c, IF Schemaf(c, s).run THEN "spawn" ELSE "failed")
      /\ UNCHANGED <<native, told, asked, left, calm>>

\* runShell.  A second instance finds its port taken and ends.
RunShell(c) ==
  /\ pc[c] = "spawn"
  /\ IF Target(c) \in native
       THEN Goto(c, "failed") /\ UNCHANGED native
       ELSE Goto(c, "native") /\ native' = native \union {Target(c)}
  /\ UNCHANGED <<box, told, asked, left, history>>

ShellEnds(c) ==
  /\ pc[c] = "native"
  /\ native' = native \ {Target(c)}
  /\ Goto(c, "done")
  /\ UNCHANGED <<box, told, asked, left, history>>

\* The developer follows the instructions that were printed, and ends the process.
RunByHand(s) ==
  /\ s \in told \ native
  /\ native' = native \union {s}
  /\ UNCHANGED <<box, told, pc, asked, left, history>>

EndByHand(s) ==
  /\ s \in native
  /\ \A c \in Terminal : ~ (pc[c] = "native" /\ Target(c) = s)
  /\ native' = native \ {s}
  /\ UNCHANGED <<box, told, pc, asked, left, history>>

-----------------------------------------------------------------------------
AfterDown(c, failed) ==
  /\ Goto(c, IF asked[c].verb # "stop" THEN "kill" ELSE IF failed THEN "failed" ELSE "done")
  /\ left' = [left EXCEPT ![c] = IF asked[c].verb = "stop" THEN {} ELSE Included(asked[c])]

\* `docker compose down` of all files.
Down(c) ==
  /\ pc[c] = "down"
  /\ box' = Without(Services(asked[c].entry))
  /\ AfterDown(c, FALSE)
  /\ UNCHANGED <<native, told, asked, history>>

\* It fails, with some of them down; start and dev go on.
DownFails(c) ==
  /\ pc[c] = "down" /\ MayFail
  /\ \E T \in SUBSET Services(asked[c].entry) : box' = Without(T)
  /\ AfterDown(c, TRUE)
  /\ UNCHANGED <<native, told, asked, slipped, calm>>

\* Faulty variant: native-stop is run for the services that were excluded.
NativeStopExcluded(c) ==
  \E s \in left[c] :
    /\ pc[c] = "kill"
    /\ left' = [left EXCEPT ![c] = @ \ {s}]
    /\ native' = native \ {t \in Excluded(asked[c]) : Schemaf(c, t).stop}
    /\ slipped' = IF Schemaf(c, s).stop THEN slipped ELSE slipped \union ({s} \intersect native)
    /\ UNCHANGED <<box, told, asked, pc, calm, faults>>

\* runNativeStop of an included service: what it has not, or what fails, is ignored.
NativeStop(c) ==
  \E s \in left[c] :
    /\ pc[c] = "kill"
    /\ left' = [left EXCEPT ![c] = @ \ {s}]
    /\ \/ /\ Schemaf(c, s).stop
          /\ native' = native \ {s}
          /\ pc' = [d \in Terminal |->
                IF pc[d] = "native" /\ Target(d) = s THEN "failed" ELSE pc[d]]
          /\ UNCHANGED <<slipped, faults>>
       \/ /\ IF Schemaf(c, s).stop THEN s \in native /\ MayFail ELSE UNCHANGED faults
          /\ slipped' = slipped \union ({s} \intersect native)
          /\ UNCHANGED <<native, pc>>
    /\ UNCHANGED <<box, told, asked, calm>>

Killed(c) ==
  /\ pc[c] = "kill" /\ left[c] = {}
  /\ Goto(c, "up")
  /\ UNCHANGED <<machine, asked, left, history>>

Overriding(o, env) == [v \in Var |-> IF v \in DOMAIN o THEN o[v] ELSE env[v]]

\* The environment that compose is run with.
Environments(c) ==
  {Overriding(Overrides(asked[c], order), Environment(c)) : order \in AllServices(asked[c].entry)}

\* `docker compose up -d` with the excluded services scaled to 0.
ComposeUp(c) ==
  /\ pc[c] = "up"
  /\ \E env \in Environments(c) :
       box' = [s \in Service |->
         IF s \in Excluded(asked[c]) THEN {}
         ELSE IF s \in Services(asked[c].entry) THEN {env} ELSE box[s]]
  /\ told' = {s \in Excluded(asked[c]) : Schemaf(c, s).run}
  /\ Goto(c, "done")
  /\ UNCHANGED <<native, asked, left, history>>

\* It fails with some of them up.
ComposeUpFails(c) ==
  /\ pc[c] = "up" /\ MayFail
  /\ \E env \in Environments(c), T \in SUBSET (Services(asked[c].entry) \ Excluded(asked[c])) :
       box' = [s \in Service |-> IF s \in T THEN {env} ELSE box[s]]
  /\ Goto(c, "failed")
  /\ UNCHANGED <<native, told, asked, left, slipped, calm>>

Interrupt(c) ==
  /\ pc[c] \in Busy /\ MayFail
  /\ Goto(c, "failed")
  /\ left' = [left EXCEPT ![c] = {}]
  /\ UNCHANGED <<machine, asked, slipped, calm>>

Next ==
  \/ \E c \in Terminal :
       \/ \E a \in Requests : Type(c, a)
       \/ StopContainer(c) \/ RunShell(c) \/ ShellEnds(c)
       \/ Down(c) \/ DownFails(c) \/ NativeStop(c) \/ Killed(c)
       \/ ComposeUp(c) \/ ComposeUpFails(c) \/ Interrupt(c)
  \/ \E s \in Service : RunByHand(s) \/ EndByHand(s)

Spec == Init /\ [][Next]_vars

-----------------------------------------------------------------------------
\* A service is never up in its container and natively at once ("kill native
\* instances of services that will run in compose", start.go:101, and "stop
\* container, run natively", start.go:71), in any sequence of commands, unless
\* its handover went wrong: two commands on it overlapped, a call failed that the
\* code ignores, or it has no native-stop or no container_name.
NotTwice == Up \intersect native \subseteq slipped

Settled(c) == pc[c] = "done" /\ calm[c] /\ ~ (asked[c].verb # "stop" /\ asked[c].native # NoNative)

\* Whatever earlier commands left, also failed ones, one that succeeds leaves up
\* exactly what it was asked for, by short name or by its own ("short name → service
\* name", resolve.go:164), and nothing else of its composition.
GetsWhatItNamed ==
  \A c \in Terminal : Settled(c) =>
    LET a == asked[c]
        wanted == {s \in Services(a.entry) :
                     \/ a.verb = "start"
                     \/ a.verb = "dev" /\ \E n \in a.names :
                          IF n \in DOMAIN Short[a.entry] THEN s = Short[a.entry][n] ELSE s = n}
    IN  \A s \in Services(a.entry) : s \in Up <=> s \in wanted

\* The containers are wired for exactly the services that are absent, as one of them
\* says; else the terminal's variables win over the entry file's, and those over
\* etc/env ("variables already set are not overwritten", ctl.go:135).
WiredForTheAbsent ==
  \A c \in Terminal : Settled(c) =>
    LET e == asked[c].entry
        entry == Last(Resolved[e])
    IN  \A s \in Services(e) : \A env \in box[s], v \in Var :
          LET absent == {t \in Services(e) \ Up : v \in DOMAIN FindSchemafByService(e, t).absent}
              byFile == IF entry.project = Unset THEN Unset
                        ELSE IF v = ProjectName THEN entry.project
                        ELSE IF v = DBPass THEN entry.pass ELSE Unset
          IN  IF absent # {}
                THEN \E t \in absent : env[v] = FindSchemafByService(e, t).absent[v]
                ELSE env[v] =
                       IF v = ProjectName /\ byFile # Unset THEN byFile
                       ELSE IF Shell[c][v] # Unset THEN Shell[c][v]
                       ELSE IF byFile # Unset THEN byFile ELSE Home[v]
=============================================================================
