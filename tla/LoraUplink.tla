----------------------------- MODULE LoraUplink -----------------------------
(***************************************************************************)
(* app/src/lora.c, lora_send_message: the retry loop every uplink of the   *)
(* application goes through, and the counter that decides which of them    *)
(* are confirmed.  The main loop (main.c:157,176,241) and the downlink     *)
(* callback (main.c:394) call it from different threads; the counter is a  *)
(* plain static uint8_t, so each of its reads and writes is a step.        *)
(* lorawan_send (external) serialises its callers.  It succeeds, which for *)
(* an unconfirmed packet means that it is on the air and for a confirmed   *)
(* one that the gateway acknowledged it; it refuses the packet; or it      *)
(* fails after a confirmed packet was sent and nobody acknowledged it.     *)
(***************************************************************************)
EXTENDS Naturals

CONSTANTS
  Senders,   \* threads that call lora_send_message
  Forcing,   \* those that may ask for a confirmed packet (main.c:157)
  Attempts,  \* SEND_ATTEMPTS
  Always,    \* CONFIG_APP_LORA_CONFIRMED_PACKET_ALWAYS
  After      \* CONFIG_APP_LORA_CONFIRMED_PACKET_AFTER, 0 when Always

ASSUME UplinkAssumption ==
  /\ Attempts \in 1..255
  /\ Always \in BOOLEAN
  /\ After \in 0..100 /\ (Always => After = 0)

VARIABLES
  unconfirmed_packets,  \* the shared counter
  pc,
  attempts,   \* argument of the call, counted down
  forced,     \* force_confirmed
  confirmed,  \* the local of the same name
  loaded,     \* the value of the counter the thread read
  feeding,    \* FALSE once watchdog_fatal was called
  \* history, for the properties only:
  accepted,   \* packets lorawan_send returned success for in the current or last call
  unheard,    \* confirmed packets of it that were sent and not acknowledged
  result,     \* what the last call returned
  since,      \* unconfirmed packets sent since the last confirmed one
  overlapped  \* was a call ever made while another one was under way

counter == <<unconfirmed_packets, loaded>>
vars == <<unconfirmed_packets, pc, attempts, forced, confirmed, loaded, feeding,
          accepted, unheard, result, since, overlapped>>

TypeOK ==
  /\ unconfirmed_packets \in 0..255
  /\ pc \in [Senders -> {"idle", "choose", "send", "load", "store"}]
  /\ attempts \in [Senders -> 0..Attempts]
  /\ forced \in [Senders -> BOOLEAN]
  /\ confirmed \in [Senders -> BOOLEAN]
  /\ loaded \in [Senders -> 0..255]
  /\ feeding \in BOOLEAN
  /\ accepted \in [Senders -> Nat]
  /\ unheard \in [Senders -> Nat]
  /\ result \in [Senders -> {"none", "ok", "error"}]
  /\ since \in 0..(After + 1)
  /\ overlapped \in BOOLEAN

Init ==
  /\ unconfirmed_packets = After
  /\ pc = [s \in Senders |-> "idle"]
  /\ attempts = [s \in Senders |-> 0]
  /\ forced = [s \in Senders |-> FALSE]
  /\ confirmed = [s \in Senders |-> FALSE]
  /\ loaded = [s \in Senders |-> 0]
  /\ feeding = TRUE
  /\ accepted = [s \in Senders |-> 0]
  /\ unheard = [s \in Senders |-> 0]
  /\ result = [s \in Senders |-> "none"]
  /\ since = 0
  /\ overlapped = FALSE

Goto(s, label) == pc' = [pc EXCEPT ![s] = label]

Call(s) ==
  /\ pc[s] = "idle" /\ Goto(s, "choose")
  /\ \E force \in IF s \in Forcing THEN BOOLEAN ELSE {FALSE} :
       forced' = [forced EXCEPT ![s] = force]
  /\ attempts' = [attempts EXCEPT ![s] = Attempts]
  /\ accepted' = [accepted EXCEPT ![s] = 0]
  /\ unheard' = [unheard EXCEPT ![s] = 0]
  /\ result' = [result EXCEPT ![s] = "none"]
  /\ overlapped' = (overlapped \/ \E t \in Senders \ {s} : pc[t] # "idle")
  /\ UNCHANGED <<counter, confirmed, feeding, since>>

MutantConfirmOneLate(s) == Always \/ (After > 0 /\ unconfirmed_packets > After) \/ forced[s]

\* Is this packet sent confirmed
MustConfirm(s) == Always \/ (After > 0 /\ unconfirmed_packets = After) \/ forced[s]

Choose(s) ==
  /\ pc[s] = "choose" /\ Goto(s, "send")
  /\ confirmed' = [confirmed EXCEPT ![s] = MustConfirm(s)]
  /\ UNCHANGED <<counter, attempts, forced, feeding, accepted, unheard, result, since, overlapped>>

Return(s, rc) == Goto(s, "idle") /\ result' = [result EXCEPT ![s] = rc]

MutantAcceptRetries(s) ==
  /\ pc[s] = "send"
  /\ accepted' = [accepted EXCEPT ![s] = @ + 1]
  /\ since' = IF confirmed[s] THEN 0 ELSE IF since > After THEN since ELSE since + 1
  /\ attempts' = [attempts EXCEPT ![s] = @ - 1]
  /\ IF attempts[s] > 1 THEN Goto(s, "choose") /\ UNCHANGED result ELSE Return(s, "ok")
  /\ UNCHANGED <<counter, forced, confirmed, feeding, unheard, overlapped>>

\* lorawan_send returned 0 (or more)
Accept(s) ==
  /\ pc[s] = "send"
  /\ accepted' = [accepted EXCEPT ![s] = @ + 1]
  /\ since' = IF confirmed[s] THEN 0 ELSE IF since > After THEN since ELSE since + 1
  /\ IF After > 0 THEN Goto(s, "load") /\ UNCHANGED result ELSE Return(s, "ok")
  /\ UNCHANGED <<counter, attempts, forced, confirmed, feeding, unheard, overlapped>>

MutantRejectForever(s) ==
  /\ pc[s] = "send" /\ Goto(s, "choose")
  /\ UNCHANGED <<counter, attempts, forced, confirmed, feeding, accepted, unheard, result, since, overlapped>>

\* lorawan_send failed: 5 s later the loop chooses again, or gives up
Retry(s) ==
  /\ attempts' = [attempts EXCEPT ![s] = @ - 1]
  /\ IF attempts[s] > 1 THEN Goto(s, "choose") /\ UNCHANGED <<feeding, result>>
                        ELSE Return(s, "error") /\ feeding' = FALSE

\* with nothing sent: not joined, no duty cycle left, the radio is not to be had
Reject(s) ==
  /\ pc[s] = "send" /\ Retry(s)
  /\ UNCHANGED <<counter, forced, confirmed, accepted, unheard, since, overlapped>>

\* with the confirmed packet sent, and the acknowledgement missing; the next attempt sends
\* the packet once more
Unheard(s) ==
  /\ pc[s] = "send" /\ confirmed[s] /\ Retry(s)
  /\ unheard' = [unheard EXCEPT ![s] = @ + 1]
  /\ since' = 0
  /\ UNCHANGED <<counter, forced, confirmed, accepted, overlapped>>

\* one load of the counter serves the comparison and the increment
Load(s) ==
  /\ pc[s] = "load" /\ Goto(s, "store")
  /\ loaded' = [loaded EXCEPT ![s] = unconfirmed_packets]
  /\ UNCHANGED <<unconfirmed_packets, attempts, forced, confirmed, feeding, accepted, unheard, result, since, overlapped>>

MutantCountPastAfter(s) == IF loaded[s] > After THEN 0 ELSE loaded[s] + 1

NextCount(s) == IF loaded[s] = After THEN 0 ELSE loaded[s] + 1

Store(s) ==
  /\ pc[s] = "store" /\ Return(s, "ok")
  /\ unconfirmed_packets' = NextCount(s)
  /\ UNCHANGED <<attempts, forced, confirmed, loaded, feeding, accepted, unheard, since, overlapped>>

lora_send_message(s) ==
  Choose(s) \/ Accept(s) \/ Reject(s) \/ Unheard(s) \/ Load(s) \/ Store(s)

Next == \E s \in Senders : Call(s) \/ lora_send_message(s)

\* Every thread inside the function is scheduled, and lorawan_send returns.
Fairness == \A s \in Senders : WF_vars(lora_send_message(s))

Spec == Init /\ [][Next]_vars /\ Fairness
----------------------------------------------------------------------------
\* However the loads and stores of several threads interleave, the counter never passes
\* After: past it no comparison with After (lora.c:165) would succeed before the uint8_t
\* wraps, and no packet would be confirmed.
CountInRange == unconfirmed_packets <= After

\* Can a call of s send a confirmed packet at all
MayConfirm(s) == Always \/ After > 0 \/ s \in Forcing

\* A call that returned success had exactly one packet accepted, and it was the last one
\* it sent; one that returned an error had none and used all its attempts.  Beyond that
\* it sent only confirmed packets that nobody acknowledged, at most one per attempt.
OneHeardPerCall ==
  \A s \in Senders :
    /\ result[s] = "ok" => accepted[s] = 1
    /\ result[s] = "error" => accepted[s] = 0 /\ attempts[s] = 0
    /\ unheard[s] > 0 => MayConfirm(s)
    /\ accepted[s] + unheard[s] <= Attempts

\* app/Kconfig:27: "Number of unconfirmed uplink packets that are sent before a
\* confirmed packet is sent": never more than After in a row, through failed attempts
\* and forced confirmations of any thread, as long as no two calls overlap.  When they
\* do, the store of one undoes the store of the other and more are sent in a row.
SerialCadence == After > 0 /\ ~overlapped => since <= After

\* lora_send_message does what its callers take for one step: however attempts of several
\* threads interleave and fail, a call succeeds with its last packet and sends nothing
\* after it, only a packet that asks for an acknowledgement is sent again, a call that
\* fails used up its attempts, only a failure stops the feeding of the watchdog, and no
\* call of another thread touches its result.
Promise == INSTANCE UplinkContract WITH
  calling <- {s \in Senders : pc[s] # "idle"},
  packets <- [s \in Senders |-> accepted[s] + unheard[s]],
  done <- {s \in Senders : accepted[s] > 0},
  outcome <- result, healthy <- feeding,
  Confirmable <- {s \in Senders : MayConfirm(s)}, Limit <- Attempts

PromiseSpec == Promise!Spec

\* Every call returns, however many of its attempts fail.
CallReturns == \A s \in Senders : pc[s] # "idle" ~> pc[s] = "idle"
============================================================================
