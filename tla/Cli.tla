--------------------------------- MODULE Cli ---------------------------------
(***************************************************************************)
(* The commands of the CLI in several terminals of one home directory:     *)
(* each loads the state as framework.go's New does (module StateFile) and  *)
(* runs; in one terminal that may be `api events listen` (EventStream).    *)
(* Ctrl-C is what a command dies of, also half way through a write, except *)
(* a listener that has asked for the signal.                               *)
(***************************************************************************)
EXTENDS StateFile, Sequences

CONSTANTS
  Listener,   \* the terminal in which a listener may be started
  MaxEvents   \* bound on the events that the service sends

ASSUME CliAssumption == Listener \in Command /\ MaxEvents \in Nat

VARIABLES main, reader, held, interrupt, farewell, server, wire, sent, printed, outcome

Stream == INSTANCE EventStream

streamVars ==
  <<main, reader, held, interrupt, farewell, server, wire, sent, printed, outcome>>
cliVars == <<vars, streamVars>>

CliInit == Init /\ Stream!Init

\* A step of a command that does not listen, or not yet: until it has asked for the
\* signal, a listener dies of it, too.
Other(c) ==
  \/ Start(c) \/ Load(c) \/ Set(c) \/ Save(c) \/ End(c)
  \/ pc[c] # "listening" /\ Interrupt(c)

\* The listener has its address, and connects; it does not look at its state, so
\* that having none does no harm.
Listen ==
  /\ pc[Listener] \in {"loaded"} \union Stateless
  /\ Stream!Begin
  /\ Quit(Listener, "listening")
  /\ stale' = [stale EXCEPT ![Listener] = FALSE]
  /\ UNCHANGED <<files, broken, faults>>

\* listenToEvents returns, the process ends with all its goroutines, and another
\* listener would have a connection of its own.
ListenEnds ==
  /\ pc[Listener] = "listening" /\ main = "ended"
  /\ Stream!Exit
  /\ Goto(Listener, "idle")
  /\ UNCHANGED <<files, mem, history>>

Dialling == Stream!Dialling /\ UNCHANGED vars
Reading  == Stream!Reading /\ UNCHANGED vars
Waiting  == Stream!Waiting /\ UNCHANGED vars
Outside  == Stream!Outside /\ UNCHANGED vars

CliNext ==
  \/ \E c \in Command : Other(c) /\ UNCHANGED streamVars
  \/ Listen \/ ListenEnds
  \/ Dialling \/ Reading \/ Waiting \/ Outside

\* The listener's goroutines are scheduled, and its timers fire; users and services
\* need not do anything.
CliSpec ==
  /\ CliInit /\ [][CliNext]_cliVars
  /\ WF_cliVars(Dialling) /\ WF_cliVars(Reading) /\ WF_cliVars(Waiting)

-----------------------------------------------------------------------------
\* Events are printed in the order they were sent, none twice and none left out; and
\* when the listener ends because the service closed the stream, and the connection
\* has not broken off, all of them have been printed, also when it was interrupted
\* while they came.
NothingMissed == Stream!NothingMissed

\* "Ctrl+C to stop" (apis.go:415) ends the listener, whatever the service does.
InterruptEnds == Stream!InterruptEnds

\* As long as it listens, the listener comes to print every event it was sent.
EventsArrive == Stream!EventsArrive
=============================================================================
