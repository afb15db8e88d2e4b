---------------------------- MODULE GarageProofs ----------------------------
(***************************************************************************)
(* The safety of the door and its button, for every number of requests and *)
(* presses.  Each part of the invariant says what a counter still owes: a  *)
(* pulse taken but not begun, a handler queued or running.                 *)
(***************************************************************************)
EXTENDS Garage, TLAPS

Numbers ==
  /\ door_sem \in Nat
  /\ triggers \in Nat /\ pulses \in Nat
  /\ checks \in Nat /\ presses \in Nat /\ clears \in Nat

\* At boot nothing has happened; the output is active only in a pulse, or after a failure
\* that was reported.
Doors ==
  /\ main = "boot" => door_thread = "none"
  /\ door => door_thread \in {"active", "closing", "failed", "exited"}
  /\ door_thread = "exited" => fatal

\* A handler that is queued or runs will clear the bonds at most once more.
Buttons ==
  clears + (IF queued THEN 1 ELSE 0) + (IF checks < 8 THEN 1 ELSE 0) <= presses

IInv == Numbers /\ Doors /\ PulsesAskedFor /\ Buttons

\* The invariant holds at the start.
LEMMA InitInv == Init => IInv
  BY DEF Init, WatchdogInit, IInv, Numbers, Doors, PulsesAskedFor, Owed, Buttons

\* The button's steps leave the door and the watchdog alone.
LEMMA ButtonInv == IInv /\ (PinChanges \/ ButtonWork \/ ButtonCheck) => IInv'
<1> SUFFICES ASSUME IInv, PinChanges \/ ButtonWork \/ ButtonCheck PROVE IInv'
  OBVIOUS
<1>1. UNCHANGED <<watchdog, door_vars>>
  BY DEF PinChanges, ButtonWork, ButtonCheck
<1>2. Doors' /\ PulsesAskedFor'
  BY <1>1 DEF IInv, Doors, PulsesAskedFor, Owed, watchdog, counter, door_vars
<1>3. Numbers'
  BY <1>1 DEF IInv, Numbers, PinChanges, ButtonWork, ButtonCheck, watchdog, counter, door_vars
<1>4. Buttons'
  BY DEF IInv, Numbers, Buttons, PinChanges, ButtonWork, ButtonCheck
<1> QED BY <1>2, <1>3, <1>4 DEF IInv

\* The door thread's steps leave the button alone, and the watchdog too but for the last.
LEMMA DoorInv == IInv /\ (garage_door_open_close \/ door_function) => IInv'
<1> SUFFICES ASSUME IInv, garage_door_open_close \/ door_function PROVE IInv'
  OBVIOUS
<1> USE DEF door_function, garage_door_open_close, DoorTake, DoorOpen, DoorHold, DoorClose,
        DoorRest, DoorFailure
<1>1. UNCHANGED button_vars
  OBVIOUS
<1>2. Buttons'
  BY <1>1 DEF IInv, Buttons, button_vars
<1>3. Numbers'
  BY <1>1 DEF IInv, Numbers, button_vars, watchdog, counter, watchdog_fatal
<1>4. PulsesAskedFor'
  BY DEF IInv, Numbers, PulsesAskedFor, Owed
<1>5. Doors'
  BY DEF IInv, Numbers, Doors, watchdog, counter, watchdog_fatal
<1> QED BY <1>2, <1>3, <1>4, <1>5 DEF IInv

\* A boot and a reboot put every counter back.
LEMMA BootInv == IInv /\ (garage_init \/ Reboot) => IInv'
<1> SUFFICES ASSUME IInv, garage_init \/ Reboot PROVE IInv'
  OBVIOUS
<1>1. CASE garage_init
  BY <1>1 DEF garage_init, Boot, counter, IInv, Numbers, Doors, PulsesAskedFor, Owed, Buttons
<1>2. CASE Reboot
  BY <1>2 DEF Reboot, Restart, Reset, IInv, Numbers, Doors, PulsesAskedFor, Owed, Buttons
<1> QED BY <1>1, <1>2

\* The three parts together are an invariant.
THEOREM Invariance == Spec => []IInv
<1>1. IInv /\ UNCHANGED vars => IInv'
  BY DEF IInv, Numbers, Doors, PulsesAskedFor, Owed, Buttons, vars, watchdog, counter, door_vars,
     button_vars
<1>2. IInv /\ [Next]_vars => IInv'
  BY <1>1, ButtonInv, DoorInv, BootInv DEF Next
<1> QED BY InitInv, <1>2, PTL DEF Spec

Booleans ==
  /\ watchdog_feed_allowed \in BOOLEAN /\ wdt \in BOOLEAN /\ fatal \in BOOLEAN
  /\ door \in BOOLEAN /\ button \in BOOLEAN /\ callback \in BOOLEAN /\ queued \in BOOLEAN

Places ==
  /\ main \in {"boot", "loop", "feeding"}
  /\ door_thread \in {"none", "take", "opening", "active", "closing", "rest", "failed", "exited"}

Ranges ==
  /\ time_left \in 0..Window
  /\ door_sem \in 0..1 /\ checks \in 0..8
  /\ triggers \in 0..MaxTriggers /\ pulses \in Nat
  /\ presses \in 0..MaxPresses /\ clears \in Nat

\* The variables keep their types.
THEOREM Typing == Spec => []TypeOK
<1> USE WatchdogAssumption, GarageAssumption
<1>1. TypeOK <=> Booleans /\ Places /\ Ranges
  BY Zenon DEF TypeOK, WatchdogTypeOK, Booleans, Places, Ranges
<1>2. Init => Booleans
  BY Zenon DEF Init, WatchdogInit, Booleans
<1>3. Init => Places /\ Ranges
  BY DEF Init, WatchdogInit, Places, Ranges
<1>4. Booleans /\ [Next]_vars => Booleans'
  <2> SUFFICES ASSUME Booleans, [Next]_vars PROVE Booleans'
    OBVIOUS
  <2> USE DEF Booleans
  <2>1. CASE garage_init
    BY <2>1, Zenon DEF garage_init, Boot, counter
  <2>2. CASE Reboot
    BY <2>2, Zenon DEF Reboot, Restart, Reset
  <2>3. CASE garage_door_open_close
    BY <2>3, Zenon DEF garage_door_open_close, watchdog, counter, button_vars
  <2>4. CASE door_function
    BY <2>4, Zenon DEF door_function, DoorTake, DoorOpen, DoorHold, DoorClose, DoorRest,
       DoorFailure, watchdog_fatal, watchdog, counter, button_vars
  <2>5. CASE PinChanges
    BY <2>5, Zenon DEF PinChanges, watchdog, counter, door_vars
  <2>6. CASE ButtonWork \/ ButtonCheck
    BY <2>6, Zenon DEF ButtonWork, ButtonCheck, watchdog, counter, door_vars
  <2>7. CASE UNCHANGED vars
    BY <2>7, Zenon DEF vars, watchdog, counter, door_vars, button_vars
  <2> QED BY <2>1, <2>2, <2>3, <2>4, <2>5, <2>6, <2>7, Zenon DEF Next
<1>5. Places /\ Ranges /\ [Next]_vars => Places' /\ Ranges'
  <2> SUFFICES ASSUME Places, Ranges, [Next]_vars PROVE Places' /\ Ranges'
    OBVIOUS
  <2> USE DEF Places, Ranges
  <2>1. CASE garage_init \/ Reboot
    BY <2>1 DEF garage_init, Boot, Reboot, Restart, Reset, counter
  <2>2. CASE garage_door_open_close \/ door_function
    BY <2>2 DEF garage_door_open_close, door_function, DoorTake, DoorOpen, DoorHold, DoorClose,
       DoorRest, DoorFailure, watchdog_fatal, watchdog, counter, button_vars
  <2>3. CASE PinChanges \/ ButtonWork \/ ButtonCheck
    BY <2>3 DEF PinChanges, ButtonWork, ButtonCheck, watchdog, counter, door_vars
  <2>4. CASE UNCHANGED vars
    BY <2>4 DEF vars, watchdog, counter, door_vars, button_vars
  <2> QED BY <2>1, <2>2, <2>3, <2>4 DEF Next
<1> QED BY <1>1, <1>2, <1>3, <1>4, <1>5, PTL DEF Spec

\* door_function: no pulse of the opener without a request of its own.
THEOREM EveryPulseAskedFor == Spec => []PulsesAskedFor
<1>1. IInv => PulsesAskedFor
  BY DEF IInv
<1> QED BY <1>1, Invariance, PTL

\* door_function: an output left active is one whose failure was reported.
THEOREM ActiveInPulse == Spec => []ActiveOnlyInPulse
<1>1. IInv => ActiveOnlyInPulse
  BY DEF IInv, Doors, ActiveOnlyInPulse
<1> QED BY <1>1, Invariance, PTL

\* button_pressed_handler: the bonds are cleared at most once for each press.
THEOREM EveryClearAskedFor == Spec => []ClearsAskedFor
<1>1. IInv => ClearsAskedFor
  BY DEF IInv, Numbers, Buttons, ClearsAskedFor
<1> QED BY <1>1, Invariance, PTL
----------------------------------------------------------------------------
\* main and the watchdog: as nothing calls watchdog_init, the hardware never counts and no
\* feed is ever allowed, so no fatal error is followed by the watchdog's reset.
Unarmed == main # "feeding" /\ ~watchdog_feed_allowed /\ ~wdt

THEOREM NeverArmed == WatchdogSpec => []Unarmed
<1>1. WatchdogInit => Unarmed
  BY DEF WatchdogInit, Unarmed
<1>2. Unarmed /\ [WatchdogNext]_watchdog => Unarmed'
  BY DEF Unarmed, WatchdogNext, Boot, FeedTest, Feed, watchdog_fatal, Tick, Expire, Restart,
     watchdog, counter
<1> QED BY <1>1, <1>2, PTL DEF WatchdogSpec
=============================================================================
