---------------------------- MODULE ControlPort -----------------------------
(***************************************************************************)
(* What CameraSession promises the threads that call it, without sockets,  *)
(* readers or sequence numbers: a call that is refused because the session *)
(* is reconnecting is never carried out, a control that reports success    *)
(* has been carried out by the camera, every call is carried out at most   *)
(* once, and of a call that fails the caller knows nothing: the camera may *)
(* have carried it out, or may still do so.                                *)
(***************************************************************************)
CONSTANTS
  Controls,  \* calls that wait for the camera's answer
  Reboots    \* calls that only write

Calls == Controls \union Reboots

VARIABLES
  phase,     \* "idle", "open" or "closed" for each call
  outcome,   \* "none", "ok", "refused" or "failed" for each call
  applied    \* the calls the camera has carried out

vars == <<phase, outcome, applied>>

Init ==
  /\ phase = [c \in Calls |-> "idle"]
  /\ outcome = [c \in Calls |-> "none"]
  /\ applied = {}

Close(c, res) ==
  /\ phase' = [phase EXCEPT ![c] = "closed"]
  /\ outcome' = [outcome EXCEPT ![c] = res]
  /\ UNCHANGED applied

Open(c) ==
  /\ phase[c] = "idle"
  /\ phase' = [phase EXCEPT ![c] = "open"]
  /\ UNCHANGED <<outcome, applied>>

\* The session is not connected, at once or when it is the call's turn.
Refuse(c) ==
  /\ phase[c] \in {"idle", "open"}
  /\ c \notin applied
  /\ Close(c, "refused")

Succeed(c) ==
  /\ phase[c] = "open"
  /\ c \in Controls => c \in applied
  /\ Close(c, "ok")

Fail(c) ==
  /\ phase[c] = "open"
  /\ Close(c, "failed")

\* The camera carries a call out, possibly after the caller has given up on it.
Apply(c) ==
  /\ phase[c] # "idle"
  /\ outcome[c] # "refused"
  /\ c \notin applied
  /\ applied' = applied \union {c}
  /\ UNCHANGED <<phase, outcome>>

Next == \E c \in Calls : Open(c) \/ Refuse(c) \/ Succeed(c) \/ Fail(c) \/ Apply(c)

Spec == Init /\ [][Next]_vars
=============================================================================
