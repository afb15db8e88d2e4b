--------------------------- MODULE UplinkContract ---------------------------
(***************************************************************************)
(* What the callers of lora_send_message (app/src/main.c:157,176,241,394)  *)
(* rely on, with no choice of confirmation and no counter: a call that     *)
(* succeeds did so with the last packet it sent, one that fails sent       *)
(* nothing that was heard of, and a failure is a fatal error.  A packet is *)
(* sent again only when it asked for an acknowledgement and got none; a    *)
(* caller whose packets ask for none has at most one on the air.           *)
(***************************************************************************)
EXTENDS Naturals

CONSTANTS
  Senders,
  Confirmable,  \* those whose packets may ask for an acknowledgement
  Limit         \* how many packets a call may send

VARIABLES
  calling,  \* threads inside a call
  packets,  \* packets the call under way, or the last one, has put on the air
  done,     \* threads whose call, under way or last, has its packet through
  outcome,  \* what the last call returned
  healthy   \* has no call failed so far

vars == <<calling, packets, done, outcome, healthy>>

Init ==
  /\ calling = {} /\ done = {} /\ healthy = TRUE
  /\ packets = [s \in Senders |-> 0] /\ outcome = [s \in Senders |-> "none"]

Begin(s) ==
  /\ s \notin calling /\ calling' = calling \cup {s} /\ done' = done \ {s}
  /\ packets' = [packets EXCEPT ![s] = 0] /\ outcome' = [outcome EXCEPT ![s] = "none"]
  /\ UNCHANGED healthy

End(s, rc) ==
  s \in calling /\ calling' = calling \ {s} /\ outcome' = [outcome EXCEPT ![s] = rc]

Packet(s) ==
  /\ s \in calling /\ s \notin done /\ packets[s] < Limit
  /\ packets' = [packets EXCEPT ![s] = @ + 1]

\* The packet that got through; the call may return with it or later.
Deliver(s) ==
  /\ Packet(s) /\ done' = done \cup {s} /\ UNCHANGED healthy
  /\ End(s, "ok") \/ UNCHANGED <<calling, outcome>>

\* A packet nobody acknowledged; it may be the last one.
Lose(s) ==
  /\ s \in Confirmable /\ Packet(s) /\ UNCHANGED done
  /\ \/ End(s, "error") /\ healthy' = FALSE
     \/ UNCHANGED <<calling, outcome, healthy>>

Succeed(s) == s \in done /\ End(s, "ok") /\ UNCHANGED <<packets, done, healthy>>

Fail(s) ==
  /\ s \notin done /\ End(s, "error") /\ healthy' = FALSE
  /\ UNCHANGED <<packets, done>>

Next == \E s \in Senders : Begin(s) \/ Deliver(s) \/ Lose(s) \/ Succeed(s) \/ Fail(s)

Spec == Init /\ [][Next]_vars
=============================================================================
