----------------------------- MODULE StateStore -----------------------------
(***************************************************************************)
(* What the CLI's state promises to the commands that use it: one durable  *)
(* store of settings.  A command that saves changes the settings it set, at*)
(* once, and no other; what does not save changes nothing.  Files, formats *)
(* and processes do not appear here.  The promise holds while the store is *)
(* sound; the implementation says when it is not.                          *)
(***************************************************************************)
CONSTANTS
  Command, Key, Value, Unset,
  Initial,  \* the settings there may be at first
  Change    \* what a command may set: settings, Unset where it sets nothing

VARIABLES
  store,  \* the settings
  phase,  \* of each command: "idle", "busy" or, once it has saved, "saved"
  sound   \* the store's promise is being kept

promise == <<store, phase, sound>>

Init ==
  /\ store \in Initial
  /\ phase = [c \in Command |-> "idle"]
  /\ sound = TRUE

Turn(c, to) == phase' = [phase EXCEPT ![c] = to]

Begin(c) ==
  /\ phase[c] # "busy"
  /\ Turn(c, "busy")
  /\ UNCHANGED <<store, sound>>

Save(c) ==
  /\ phase[c] = "busy"
  /\ \E ch \in Change :
       store' = [k \in Key |-> IF ch[k] # Unset THEN ch[k] ELSE store[k]]
  /\ Turn(c, "saved")
  /\ UNCHANGED sound

\* A command ends without having saved, or after it has.
End(c) ==
  /\ phase[c] # "idle"
  /\ Turn(c, "idle")
  /\ UNCHANGED <<store, sound>>

\* Something goes wrong: nothing is promised until the store is sound again,
\* with the settings it has then, and a command begins.
Break == ~sound'

Mend(c) ==
  /\ ~sound /\ sound'
  /\ Turn(c, "busy")
  /\ UNCHANGED store

Next == Break \/ \E c \in Command : Begin(c) \/ Save(c) \/ End(c) \/ Mend(c)

Spec == Init /\ [][Next]_promise
=============================================================================
