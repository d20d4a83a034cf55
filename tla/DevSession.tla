----------------------------- MODULE DevSession -----------------------------
(***************************************************************************)
(* schemaf/dev.go, cli/cmd/run/prerun.go and schemaf.sh: `dev` and `run`   *)
(* sessions of one project on one machine.  They share the containers of   *)
(* one compose project, whose configuration is that of production or that  *)
(* of development, three ports, and nothing that would coordinate them.    *)
(*                                                                         *)
(* A docker compose command takes effect at once.  The reset of the schema *)
(* is module SchemaReset; codegen, which comes first, is left out.         *)
(***************************************************************************)
EXTENDS FiniteSets, Naturals

CONSTANTS
  Dev,        \* sessions of `dev`
  Run,        \* sessions of `run`
  Nobody,     \* no process
  Stranger,   \* a process that is not of a session
  Specs       \* what a `dev` session may be asked for

Session == Dev \union Run
Container == {"postgres", "backend", "extra"}
Port == {"postgres", "backend", "frontend"}
Part == {"db", "infra", "backend", "frontend"}

ASSUME DevSessionAssumption ==
  /\ Dev \intersect Run = {}
  /\ {Nobody, Stranger} \intersect Session = {} /\ Nobody # Stranger
  /\ Specs \subseteq SUBSET Part \ {{}}

VARIABLES
  up,      \* the configuration each container runs in, or "no"
  holder,  \* the native process that listens on each port, by its session
  pc,      \* where each session is
  ask,     \* what it starts
  checks,  \* the ports it has still to check
  vite,    \* the sessions whose Vite process is alive
  bg,      \* the sessions that have theirs in bgProcs
  raced,   \* history: a session has acted while another was starting
  blind,   \* history: something ran when a session got no answer to its probe,
           \* and none has found or made everything stopped since
  met,     \* history: the `dev` sessions that another, or a stranger, has acted beside
  slipped  \* history: the sessions that could not end in an orderly way

vars == <<up, holder, pc, ask, checks, vite, bg, raced, blind, met, slipped>>

Starting == {"probe", "down", "ports", "up"}
Handled == {"vite", "append", "settle", "serve", "running"}
Live == Starting \union Handled
Over == {"off", "left", "ended"}

Init ==
  /\ up = [c \in Container |-> "no"]
  /\ holder \in [Port -> {Nobody, Stranger}]
  /\ pc = [s \in Session |-> "off"]
  /\ ask \in [Dev -> Specs]
  /\ checks = [d \in Dev |-> {}]
  /\ vite = {}
  /\ bg = {}
  /\ raced = FALSE
  /\ blind = FALSE
  /\ met = {}
  /\ slipped = {}

Goto(s, to) == pc' = [pc EXCEPT ![s] = to]

\* s acts beside the sessions that are live.
Acts(s) ==
  LET others == {t \in Session \ {s} : pc[t] \in Live}
  IN  /\ raced' = (raced \/ \E t \in others : pc[t] \in Starting)
      /\ met' = met \union (others \intersect Dev)

\* The process of d is gone, and its listener with it; Vite goes, too, if
\* cleanup knows of it.
Exits(d, cleanup) ==
  /\ Goto(d, "ended")
  /\ vite' = IF cleanup THEN vite \ (bg \intersect {d}) ELSE vite
  /\ holder' = [p \in Port |->
       IF holder[p] = d /\ (p # "frontend" \/ d \notin vite') THEN Nobody ELSE holder[p]]
  /\ bg' = bg \ {d}

-----------------------------------------------------------------------------
\* Faulty variant: a backend is started without its infrastructure.
BeginBare(s) ==
  /\ pc[s] = "off"
  /\ Goto(s, "probe")
  /\ checks' = [d \in Dev |->
       IF d = s THEN (ask[d] \intersect {"backend", "frontend"})
                     \union (IF ask[d] \intersect {"db", "infra"} # {} THEN {"postgres"} ELSE {})
       ELSE checks[d]]
  /\ Acts(s)
  /\ UNCHANGED <<up, holder, ask, vite, bg, blind, slipped>>

\* A session is started: parseDevServices, and what depends on what is added.
Begin(s) ==
  /\ pc[s] = "off"
  /\ Goto(s, "probe")
  /\ ask' = [d \in Dev |->
       IF d = s /\ "backend" \in ask[d] THEN ask[d] \union {"infra"} ELSE ask[d]]
  /\ checks' = [d \in Dev |->
       IF d = s THEN (ask'[d] \intersect {"backend", "frontend"})
                     \union (IF ask'[d] \intersect {"db", "infra"} # {} THEN {"postgres"} ELSE {})
       ELSE checks[d]]
  /\ Acts(s)
  /\ UNCHANGED <<up, holder, vite, bg, blind, slipped>>

Probed(s) == IF s \in Dev THEN "ports" ELSE "up"

\* A container of the project runs.
Something == \E c \in Container : up[c] # "no"

\* stopProdIfRunning, stopDevIfRunning: `docker compose ps` lists what runs of
\* the project, in whichever configuration.
Probe(s) ==
  /\ pc[s] = "probe"
  /\ Goto(s, IF Something THEN "down" ELSE Probed(s))
  /\ blind' = (blind /\ Something)
  /\ Acts(s)
  /\ UNCHANGED <<up, holder, ask, checks, vite, bg, slipped>>

\* An error of `ps` counts as nothing running.
ProbeUnanswered(s) ==
  /\ pc[s] = "probe"
  /\ Goto(s, Probed(s))
  /\ blind' = (blind \/ Something)
  /\ Acts(s)
  /\ UNCHANGED <<up, holder, ask, checks, vite, bg, slipped>>

\* Faulty variant: only the backend is stopped.
DownBackend(s) ==
  /\ pc[s] = "down"
  /\ up' = [up EXCEPT !["backend"] = "no"]
  /\ blind' = FALSE
  /\ Goto(s, Probed(s))
  /\ Acts(s)
  /\ UNCHANGED <<holder, ask, checks, vite, bg, slipped>>

\* ... and `docker compose down` stops all of it.
Down(s) ==
  /\ pc[s] = "down"
  /\ up' = [c \in Container |-> "no"]
  /\ blind' = FALSE
  /\ Goto(s, Probed(s))
  /\ Acts(s)
  /\ UNCHANGED <<holder, ask, checks, vite, bg, slipped>>

\* An error of `down`, which may have stopped some of it, ends the session.
DownFails(s) ==
  /\ pc[s] = "down"
  /\ \E stopped \in SUBSET Container :
       up' = [c \in Container |-> IF c \in stopped THEN "no" ELSE up[c]]
  /\ Goto(s, "ended")
  /\ Acts(s)
  /\ UNCHANGED <<holder, ask, checks, vite, bg, blind, slipped>>

\* The container that publishes a port.
Publishes(c, p) ==
  \/ c = "postgres" /\ p = "postgres" /\ up[c] = "dev"
  \/ c = "backend" /\ p = "backend" /\ up[c] # "no"

Free(p) == holder[p] = Nobody /\ \A c \in Container : ~Publishes(c, p)

\* A process that is not in a container listens on p.
NativeOn(p) == holder[p] # Nobody /\ \A c \in Container : ~Publishes(c, p)

\* The ports are checked in a fixed order.
Turn(p, S) == p \in S /\ (p = "postgres" \/ "postgres" \notin S) /\ (p = "frontend" => S = {p})

\* checkPort is through with p.
PortDone(d, p) ==
  /\ checks' = [checks EXCEPT ![d] = @ \ {p}]
  /\ UNCHANGED pc

Checking(d, p) == pc[d] = "ports" /\ Turn(p, checks[d])

\* The port is free, or the answer is to continue nevertheless.
PortPassed(d, p) ==
  /\ Checking(d, p)
  /\ Free(p) \/ p # "frontend"
  /\ PortDone(d, p)
  /\ Acts(d)
  /\ UNCHANGED <<up, holder, ask, vite, bg, blind, slipped>>

\* The port is not free, and the answer is no.
PortRefused(d, p) ==
  /\ Checking(d, p)
  /\ ~Free(p) /\ p # "frontend"
  /\ Exits(d, TRUE)
  /\ Acts(d)
  /\ UNCHANGED <<up, ask, checks, blind, slipped>>

\* The container that publishes the port is stopped.
PortFreed(d, p) ==
  /\ Checking(d, p)
  /\ \E c \in Container : Publishes(c, p) /\ up' = [up EXCEPT ![c] = "no"]
  /\ PortDone(d, p)
  /\ Acts(d)
  /\ UNCHANGED <<holder, ask, vite, bg, blind, slipped>>

\* The process that listens on the port is killed: Vite alone, a server with
\* what its signal handler cleans up, or a stranger.
PortTaken(d, p) ==
  /\ Checking(d, p)
  /\ NativeOn(p)
  /\ checks' = [checks EXCEPT ![d] = @ \ {p}]
  /\ LET e == holder[p]
     IN  IF e = Stranger \/ p = "frontend"
           THEN /\ holder' = [holder EXCEPT ![p] = Nobody]
                /\ vite' = vite \ {e}
                /\ UNCHANGED <<pc, bg>>
           ELSE Exits(e, TRUE)
  /\ Acts(d)
  /\ UNCHANGED <<up, ask, blind, slipped>>

PortsChecked(d) ==
  /\ pc[d] = "ports" /\ checks[d] = {}
  /\ Goto(d, "up")
  /\ Acts(d)
  /\ UNCHANGED <<up, holder, ask, checks, vite, bg, blind, slipped>>

\* What `dev` starts in containers: everything but the backend, Postgres alone,
\* or nothing.  The configuration publishes Postgres's port.
Composed(d) ==
  IF "infra" \in ask[d]
    THEN [c \in Container |-> IF c = "backend" THEN "no" ELSE "dev"]
  ELSE IF "db" \in ask[d]
    THEN [up EXCEPT !["postgres"] = "dev"]
  ELSE up

DevUp(d) ==
  /\ d \in Dev /\ pc[d] = "up"
  /\ up' = Composed(d)
  /\ up'["postgres"] = "dev" /\ up["postgres"] # "dev" => holder["postgres"] = Nobody
  /\ Goto(d, IF ask[d] \intersect {"backend", "frontend"} = {} THEN "left" ELSE "vite")
  /\ Acts(d)
  /\ UNCHANGED <<holder, ask, checks, vite, bg, blind, slipped>>

\* The port that a container publishes is taken: `up` fails, and other
\* containers may have been started.
DevUpFails(d) ==
  /\ d \in Dev /\ pc[d] = "up"
  /\ Composed(d)["postgres"] = "dev" /\ up["postgres"] # "dev" /\ holder["postgres"] # Nobody
  /\ up' \in {up, [Composed(d) EXCEPT !["postgres"] = "no"]}
  /\ Exits(d, TRUE)
  /\ Acts(d)
  /\ UNCHANGED <<ask, checks, blind, slipped>>

-----------------------------------------------------------------------------
\* The frontend is started; Vite takes another port if its own is taken.
StartVite(d) ==
  /\ pc[d] = "vite" /\ d \in Dev
  /\ IF "frontend" \in ask[d]
       THEN /\ Goto(d, "append")
            /\ vite' = vite \union {d}
            /\ holder' = IF Free("frontend") THEN [holder EXCEPT !["frontend"] = d] ELSE holder
       ELSE /\ Goto(d, "serve")
            /\ UNCHANGED <<vite, holder>>
  /\ Acts(d)
  /\ UNCHANGED <<up, ask, checks, bg, blind, slipped>>

\* It is kept for cleanup, and waited for if it is all there is.
KeepVite(d) ==
  /\ pc[d] = "append"
  /\ bg' = bg \union {d}
  /\ Goto(d, IF "backend" \in ask[d] THEN "settle" ELSE "running")
  /\ Acts(d)
  /\ UNCHANGED <<up, holder, ask, checks, vite, blind, slipped>>

\* A second later runDev looks whether Vite has ended.  ProcessState says so
\* only once Wait has returned, and nobody has called it.
Settle(d) ==
  /\ pc[d] = "settle"
  /\ Goto(d, "serve")
  /\ Acts(d)
  /\ UNCHANGED <<up, holder, ask, checks, vite, bg, blind, slipped>>

\* serve connects to the database and listens on its port...
Serve(d) ==
  /\ pc[d] = "serve"
  /\ up["postgres"] = "dev" /\ Free("backend")
  /\ holder' = [holder EXCEPT !["backend"] = d]
  /\ Goto(d, "running")
  /\ Acts(d)
  /\ UNCHANGED <<up, ask, checks, vite, bg, blind, slipped>>

\* Faulty variant: the error is returned without cleanup.
ServeFailsAtOnce(d) ==
  /\ pc[d] = "serve"
  /\ up["postgres"] # "dev" \/ ~Free("backend")
  /\ Exits(d, FALSE)
  /\ Acts(d)
  /\ UNCHANGED <<up, ask, checks, blind, slipped>>

\* ... or cannot, and runDev cleans up.
ServeFails(d) ==
  /\ pc[d] = "serve"
  /\ up["postgres"] # "dev" \/ ~Free("backend")
  /\ Exits(d, TRUE)
  /\ Acts(d)
  /\ UNCHANGED <<up, ask, checks, blind, slipped>>

\* Vite ends by itself.
ViteCrashes(d) ==
  /\ d \in vite
  /\ vite' = vite \ {d}
  /\ holder' = [p \in Port |-> IF p = "frontend" /\ holder[p] = d THEN Nobody ELSE holder[p]]
  /\ UNCHANGED <<up, pc, ask, checks, bg, raced, blind, met, slipped>>

\* A session with a frontend alone ends with it.
ViteAwaited(d) ==
  /\ pc[d] = "running" /\ d \in Dev /\ "backend" \notin ask[d]
  /\ d \notin vite
  /\ Exits(d, FALSE)
  /\ Acts(d)
  /\ UNCHANGED <<up, ask, checks, blind, slipped>>

\* A signal ends a session: before the handler is installed at once, then by
\* way of cleanup, which does not know of a Vite that is just being started.
Interrupt(d) ==
  /\ d \in Dev /\ pc[d] \in Live
  /\ Exits(d, pc[d] \in Handled)
  /\ slipped' = IF pc[d] = "append" THEN slipped \union {d} ELSE slipped
  /\ Acts(d)
  /\ UNCHANGED <<up, ask, checks, blind>>

\* It is killed: there is no cleanup.
Kill(d) ==
  /\ d \in Dev /\ pc[d] \in Handled
  /\ Exits(d, FALSE)
  /\ slipped' = slipped \union {d}
  /\ Acts(d)
  /\ UNCHANGED <<up, ask, checks, blind>>

-----------------------------------------------------------------------------
\* `docker compose up` of production, in the foreground.
RunUp(r) ==
  /\ r \in Run /\ pc[r] = "up"
  /\ holder["backend"] = Nobody
  /\ up' = [c \in Container |-> "prod"]
  /\ Goto(r, "running")
  /\ Acts(r)
  /\ UNCHANGED <<holder, ask, checks, vite, bg, blind, slipped>>

\* The backend's port is taken; the other containers have been started.
RunUpFails(r) ==
  /\ r \in Run /\ pc[r] = "up"
  /\ holder["backend"] # Nobody
  /\ up' = [c \in Container |-> IF c = "backend" THEN "no" ELSE "prod"]
  /\ Goto(r, "ended")
  /\ Acts(r)
  /\ UNCHANGED <<holder, ask, checks, vite, bg, blind, slipped>>

\* It is interrupted and stops its containers, or its terminal is closed and
\* they stay.
RunEnds(r) ==
  /\ r \in Run /\ pc[r] = "running"
  /\ \/ up' = [c \in Container |-> IF up[c] = "prod" THEN "no" ELSE up[c]]
     \/ UNCHANGED up
  /\ Goto(r, "ended")
  /\ Acts(r)
  /\ UNCHANGED <<holder, ask, checks, vite, bg, blind, slipped>>

\* Processes of others come to listen on free ports, and go, whenever they like.
\* One that takes the frontend's port once a session has checked it, and before
\* its Vite starts, has met that session: Vite moves to another port.
StrangerComes(p) ==
  /\ Free(p)
  /\ holder' = [holder EXCEPT ![p] = Stranger]
  /\ met' = IF p = "frontend"
       THEN met \union {d \in Dev : pc[d] \in {"ports", "up", "vite"} /\ "frontend" \notin checks[d]}
       ELSE met
  /\ UNCHANGED <<up, pc, ask, checks, vite, bg, raced, blind, slipped>>

StrangerGoes(p) ==
  /\ holder[p] = Stranger
  /\ holder' = [holder EXCEPT ![p] = Nobody]
  /\ UNCHANGED <<up, pc, ask, checks, vite, bg, raced, blind, met, slipped>>

DevNext(d) ==
  \/ \E p \in Port : PortPassed(d, p) \/ PortRefused(d, p) \/ PortFreed(d, p) \/ PortTaken(d, p)
  \/ PortsChecked(d) \/ DevUp(d) \/ DevUpFails(d)
  \/ StartVite(d) \/ KeepVite(d) \/ Settle(d) \/ Serve(d) \/ ServeFails(d)
  \/ ViteCrashes(d) \/ ViteAwaited(d) \/ Interrupt(d) \/ Kill(d)

RunNext(r) == RunUp(r) \/ RunUpFails(r) \/ RunEnds(r)

Next ==
  \/ \E s \in Session : Begin(s) \/ Probe(s) \/ ProbeUnanswered(s) \/ Down(s) \/ DownFails(s)
  \/ \E d \in Dev : DevNext(d)
  \/ \E r \in Run : RunNext(r)
  \/ \E p \in Port : StrangerComes(p) \/ StrangerGoes(p)

Spec == Init /\ [][Next]_vars

-----------------------------------------------------------------------------
\* "Dev and prod can't coexist" (dev.go:102): containers of the two configurations
\* are never up together, whatever sessions failed or left behind before.  There
\* are two exceptions, both of which the code allows: sessions that were started at
\* the same time, and one that took the error of its `ps` for nothing running
\* (dev.go:232, prerun.go:34) when something ran, until a later session has found
\* or made everything stopped.
NeverMixed ==
  ~raced /\ ~blind => ~ \E b, c \in Container : up[b] = "prod" /\ up[c] = "dev"

\* A session that no other has acted beside since it began has what it asked
\* for, whatever earlier ones have left and whichever ports strangers take, at
\* the latest moment too: a backend, its port and all infrastructure, and no
\* second backend; a frontend, its own port, unless a stranger took that between
\* the check and the start of Vite.
GetsWhatItAskedFor ==
  \A d \in Dev \ met : pc[d] = "running" =>
    /\ "backend" \in ask[d] =>
         /\ holder["backend"] = d
         /\ up = [c \in Container |-> IF c = "backend" THEN "no" ELSE "dev"]
    /\ d \in vite => holder["frontend"] = d

\* A Vite process outlives its session only if that was killed, or interrupted
\* while it was starting Vite.
NothingLeftBehind == \A d \in vite : pc[d] \in Handled \/ d \in slipped
=============================================================================
