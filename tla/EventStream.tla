----------------------------- MODULE EventStream -----------------------------
(***************************************************************************)
(* cli/apis.go, listenToEvents: `api events listen` connects to a service's*)
(* WebSocket, prints the events it receives in a goroutine of its own, and *)
(* ends when the connection does or when it is interrupted.                *)
(*                                                                         *)
(* The service may send, close, break the connection off, answer a close or*)
(* do nothing at all, ever: the client sets no deadline for it.  An event  *)
(* is its number; one that does not parse is printed too, with an error.   *)
(***************************************************************************)
EXTENDS Naturals, Sequences

CONSTANT MaxEvents  \* bound on the events that the service sends

VARIABLES
  main,       \* where the command is
  reader,     \* where the goroutine is that reads messages
  held,       \* the event it has read and not printed
  interrupt,  \* a signal is in the channel's buffer of one
  farewell,   \* the client has sent its close frame
  server,     \* "up", "closed" once it has sent its close frame, or "lost"
  wire,       \* frames on their way to the client
  sent,       \* how many events the service has sent
  printed,    \* the events that have been printed
  outcome     \* why the command ended

client  == <<main, reader, held, interrupt, farewell, printed, outcome>>
service == <<server, wire, sent>>
streamVars == <<client, service>>

CloseFrame == 0

Init ==
  /\ main = "off" /\ reader = "off" /\ held = 0
  /\ interrupt = FALSE /\ farewell = FALSE
  /\ server = "up" /\ wire = <<>> /\ sent = 0
  /\ printed = <<>>
  /\ outcome = "none"

Listening == {"dial", "select", "farewell"}

Finish(why) == main' = "ended" /\ outcome' = why

\* signal.Notify, and the handshake begins.
Begin ==
  /\ main = "off"
  /\ main' = "dial"
  /\ UNCHANGED <<reader, held, interrupt, farewell, printed, outcome, service>>

\* Ctrl-C, which only fills the channel: a second one, or one during the handshake,
\* waits there.
CtrlC ==
  /\ main \in Listening
  /\ interrupt' = TRUE
  /\ UNCHANGED <<main, reader, held, farewell, printed, outcome, service>>

\* The handshake succeeds, and the goroutine starts.
Connect ==
  /\ main = "dial"
  /\ main' = "select" /\ reader' = "read"
  /\ UNCHANGED <<held, interrupt, farewell, printed, outcome, service>>

\* It is refused, or not answered within HandshakeTimeout.
DialFails ==
  /\ main = "dial"
  /\ Finish("unreached")
  /\ UNCHANGED <<reader, held, interrupt, farewell, printed, service>>

-----------------------------------------------------------------------------
\* ReadMessage returns the next event.
Receive ==
  /\ main \in Listening /\ reader = "read"
  /\ wire # <<>> /\ Head(wire) # CloseFrame
  /\ wire' = Tail(wire)
  /\ held' = Head(wire) /\ reader' = "print"
  /\ UNCHANGED <<main, interrupt, farewell, server, sent, printed, outcome>>

\* Faulty variant: the goroutine reads one message.
PrintOnce ==
  /\ main \in Listening /\ reader = "print"
  /\ printed' = Append(printed, held)
  /\ held' = 0 /\ reader' = "off"
  /\ UNCHANGED <<main, interrupt, farewell, outcome, service>>

PrintEvent ==
  /\ main \in Listening /\ reader = "print"
  /\ printed' = Append(printed, held)
  /\ held' = 0 /\ reader' = "read"
  /\ UNCHANGED <<main, interrupt, farewell, outcome, service>>

\* ReadMessage comes to the close frame, which its default handler answers, and the
\* goroutine closes done.
ReceiveClose ==
  /\ main \in Listening /\ reader = "read"
  /\ wire # <<>> /\ Head(wire) = CloseFrame
  /\ wire' = Tail(wire)
  /\ farewell' = TRUE
  /\ reader' = "done"
  /\ UNCHANGED <<main, held, interrupt, server, sent, printed, outcome>>

\* ReadMessage fails on a connection that has broken off.
ReceiveFails ==
  /\ main \in Listening /\ reader = "read"
  /\ wire = <<>> /\ server = "lost"
  /\ reader' = "done"
  /\ UNCHANGED <<main, held, interrupt, farewell, printed, outcome, service>>

-----------------------------------------------------------------------------
\* Faulty variant: the command ends when it has sent or got a close frame.
SeeClosed ==
  /\ main \in {"select", "farewell"}
  /\ reader = "done" \/ server = "closed"
  /\ Finish("closed")
  /\ UNCHANGED <<reader, held, interrupt, farewell, printed, service>>

\* The select sees done, or the one that waits for the server to close does.
SeeDone ==
  /\ main \in {"select", "farewell"}
  /\ reader = "done"
  /\ Finish("closed")
  /\ UNCHANGED <<reader, held, interrupt, farewell, printed, service>>

\* The select sees the signal, and the command sends its close frame, if the client
\* has not sent one.  On a broken connection that may fail as well.
SeeInterrupt ==
  /\ main = "select" /\ interrupt
  /\ interrupt' = FALSE
  /\ \/ /\ farewell \/ server = "lost"
        /\ Finish("error") /\ UNCHANGED farewell
     \/ /\ ~farewell
        /\ farewell' = TRUE
        /\ main' = "farewell" /\ UNCHANGED outcome
  /\ UNCHANGED <<reader, held, printed, service>>

\* Faulty variant: nothing but the server's close ends the wait.
GiveUpNever ==
  /\ main = "farewell" /\ reader = "done"
  /\ Finish("left")
  /\ UNCHANGED <<reader, held, interrupt, farewell, printed, service>>

\* A second has passed, and the server has not closed.
GiveUp ==
  /\ main = "farewell"
  /\ Finish("left")
  /\ UNCHANGED <<reader, held, interrupt, farewell, printed, service>>

\* The process is gone, with its goroutines and its connection.
Exit ==
  /\ main = "ended"
  /\ main' = "off" /\ reader' = "off" /\ held' = 0
  /\ interrupt' = FALSE /\ farewell' = FALSE
  /\ server' = "up" /\ wire' = <<>> /\ sent' = 0
  /\ printed' = <<>>
  /\ outcome' = "none"

-----------------------------------------------------------------------------
Connected == main \in {"select", "farewell"}

Send ==
  /\ Connected /\ server = "up" /\ sent < MaxEvents
  /\ sent' = sent + 1
  /\ wire' = Append(wire, sent')
  /\ UNCHANGED <<server, client>>

\* The service closes, of its own accord or in answer to the client's frame.
Close ==
  /\ Connected /\ server = "up"
  /\ server' = "closed"
  /\ wire' = Append(wire, CloseFrame)
  /\ UNCHANGED <<sent, client>>

\* The connection breaks off; what has not been read may be lost, from some frame on.
BreakOff ==
  /\ Connected /\ server # "lost"
  /\ server' = "lost"
  /\ \E k \in 0 .. Len(wire) : wire' = SubSeq(wire, 1, k)
  /\ UNCHANGED <<sent, client>>

-----------------------------------------------------------------------------
Dialling == Connect \/ DialFails
Reading  == Receive \/ PrintEvent \/ ReceiveClose \/ ReceiveFails
Waiting  == SeeDone \/ SeeInterrupt \/ GiveUp
Outside  == CtrlC \/ Send \/ Close \/ BreakOff

Next == Begin \/ Dialling \/ Reading \/ Waiting \/ Exit \/ Outside

Spec == Init /\ [][Next]_streamVars

-----------------------------------------------------------------------------
\* Events are printed in the order they were sent, none twice and none left out;
\* and when the listener ends because the service closed the stream, and the
\* connection has not broken off, all of them have been printed, also when it was
\* interrupted while they came.
NothingMissed ==
  /\ \A i \in DOMAIN printed : printed[i] = i
  /\ outcome = "closed" /\ server = "closed" => Len(printed) = sent

\* Ctrl-C ends the listener, whatever the service and the connection do.
InterruptEnds == interrupt ~> main = "ended"

\* As long as it listens, the listener comes to print every event it was sent.
EventsArrive ==
  \A n \in 1 .. MaxEvents :
    sent >= n ~> Len(printed) >= n \/ main = "ended" \/ server = "lost"
=============================================================================
