------------------------------- MODULE Garage -------------------------------
(***************************************************************************)
(* app/src/garage.c: LoRa and Bluetooth callbacks ask for the door, the     *)
(* door thread pulses the output that works the opener, and the push       *)
(* button, debounced on the system work queue, clears the Bluetooth bonds. *)
(* A hog in garage.overlay drives the output low from reset on.  The door  *)
(* thread ends with watchdog_fatal when a GPIO call fails; as the watchdog *)
(* never runs (Watchdog), main's feeding does nothing, and only a reboot   *)
(* asked for by downlink resets the device.                                *)
(***************************************************************************)
EXTENDS Watchdog

CONSTANTS
  MaxTriggers,  \* bound: requests for the door since the boot
  MaxPresses    \* bound: edges of the button since the boot

ASSUME GarageAssumption == MaxTriggers \in Nat /\ MaxPresses \in Nat

VARIABLES
  door_thread,  \* "none", "take", "opening", "active", "closing", "rest", "failed", "exited"
  door_sem,     \* K_SEM_DEFINE(door_sem, 0, 1)
  door,         \* is the output active
  button,       \* is the button's pin active (external)
  callback,     \* is button_cb_data registered
  queued,       \* is button_work in the system work queue
  checks,       \* the handler's counter; 8: it is not running
  triggers, pulses,  \* history: requests for the door, and pulses, since the boot
  presses, clears    \* history: edges that submitted the work, bonds cleared

door_vars == <<door_thread, door_sem, door, triggers, pulses>>
button_vars == <<button, callback, queued, checks, presses, clears>>
vars == <<watchdog, door_vars, button_vars>>

\* Type invariant.
TypeOK ==
  /\ WatchdogTypeOK
  /\ door_thread \in {"none", "take", "opening", "active", "closing", "rest", "failed", "exited"}
  /\ door_sem \in 0..1 /\ door \in BOOLEAN
  /\ button \in BOOLEAN /\ callback \in BOOLEAN /\ queued \in BOOLEAN /\ checks \in 0..8
  /\ triggers \in 0..MaxTriggers /\ pulses \in Nat
  /\ presses \in 0..MaxPresses /\ clears \in Nat

Reset ==
  /\ door_thread' = "none" /\ door_sem' = 0 /\ door' = FALSE
  /\ callback' = FALSE /\ queued' = FALSE /\ checks' = 8
  /\ triggers' = 0 /\ pulses' = 0 /\ presses' = 0 /\ clears' = 0

Init ==
  /\ WatchdogInit
  /\ door_thread = "none" /\ door_sem = 0 /\ door = FALSE
  /\ button \in BOOLEAN /\ callback = FALSE /\ queued = FALSE /\ checks = 8
  /\ triggers = 0 /\ pulses = 0 /\ presses = 0 /\ clears = 0
----------------------------------------------------------------------------
\* main boots; garage_init starts the thread, or returns an error that main ignores
garage_init ==
  /\ Boot
  /\ \/ callback' = TRUE /\ door_thread' = "take"
     \/ UNCHANGED <<callback, door_thread>>
  /\ UNCHANGED <<door_sem, door, triggers, pulses, button, queued, checks, presses, clears>>

\* garage_door_open_close, bluetooth_security_changed and
\* bluetooth_garage_characteristic_written: k_sem_give, which stops at the limit of 1
garage_door_open_close ==
  /\ main # "boot" /\ triggers < MaxTriggers
  /\ triggers' = triggers + 1
  /\ door_sem' = 1
  /\ UNCHANGED <<watchdog, door_thread, door, pulses, button_vars>>

MutantTakeLeavesSem ==
  /\ door_thread = "take" /\ door_sem = 1
  /\ door_thread' = "opening"
  /\ UNCHANGED <<watchdog, door_sem, door, triggers, pulses, button_vars>>

\* k_sem_take
DoorTake ==
  /\ door_thread = "take" /\ door_sem = 1
  /\ door_sem' = 0 /\ door_thread' = "opening"
  /\ UNCHANGED <<watchdog, door, triggers, pulses, button_vars>>

\* gpio_pin_configure_dt(&door, GPIO_OUTPUT_ACTIVE)
DoorOpen ==
  /\ door_thread = "opening"
  /\ \/ door_thread' = "active" /\ door' = TRUE /\ pulses' = pulses + 1
     \/ door_thread' = "failed" /\ UNCHANGED <<door, pulses>>
  /\ UNCHANGED <<watchdog, door_sem, triggers, button_vars>>

\* the first k_sleep
DoorHold ==
  /\ door_thread = "active" /\ door_thread' = "closing"
  /\ UNCHANGED <<watchdog, door_sem, door, triggers, pulses, button_vars>>

MutantCloseActive ==
  /\ door_thread = "closing"
  /\ door_thread' \in {"rest", "failed"}
  /\ UNCHANGED <<watchdog, door_sem, door, triggers, pulses, button_vars>>

\* gpio_pin_configure_dt(&door, GPIO_OUTPUT_INACTIVE)
DoorClose ==
  /\ door_thread = "closing"
  /\ \/ door_thread' = "rest" /\ door' = FALSE
     \/ door_thread' = "failed" /\ UNCHANGED door
  /\ UNCHANGED <<watchdog, door_sem, triggers, pulses, button_vars>>

MutantRestClears ==
  /\ door_thread = "rest" /\ door_thread' = "take" /\ door_sem' = 0
  /\ UNCHANGED <<watchdog, door, triggers, pulses, button_vars>>

\* the second k_sleep, and around again
DoorRest ==
  /\ door_thread = "rest" /\ door_thread' = "take"
  /\ UNCHANGED <<watchdog, door_sem, door, triggers, pulses, button_vars>>

\* failure: watchdog_fatal, and the thread is gone
DoorFailure ==
  /\ door_thread = "failed" /\ door_thread' = "exited"
  /\ watchdog_fatal
  /\ UNCHANGED <<door_sem, door, triggers, pulses, button_vars>>

door_function == DoorTake \/ DoorOpen \/ DoorHold \/ DoorClose \/ DoorRest \/ DoorFailure
----------------------------------------------------------------------------
\* The pin changes; an edge to active runs button_pressed, which submits the work
\* unless it is queued already.
PinChanges ==
  /\ button' = ~button
  /\ \/ /\ button' /\ callback /\ presses < MaxPresses
        /\ queued' = TRUE /\ presses' = presses + 1
     \/ ~(button' /\ callback) /\ UNCHANGED <<queued, presses>>
  /\ UNCHANGED <<watchdog, door_vars, callback, checks, clears>>

\* the work queue takes the work and calls button_pressed_handler
ButtonWork ==
  /\ queued /\ checks = 8
  /\ queued' = FALSE /\ checks' = 0
  /\ UNCHANGED <<watchdog, door_vars, button, callback, presses, clears>>

MutantClearsInLoop ==
  /\ checks < 8
  /\ checks' = IF button THEN checks + 1 ELSE 8
  /\ clears' = IF button THEN clears + 1 ELSE clears
  /\ UNCHANGED <<watchdog, door_vars, button, callback, queued, presses>>

\* button_pressed_handler: one look at the pin, every 5 ms
ButtonCheck ==
  /\ checks < 8
  /\ checks' = IF button THEN checks + 1 ELSE 8
  /\ clears' = IF button /\ checks = 7 THEN clears + 1 ELSE clears
  /\ UNCHANGED <<watchdog, door_vars, button, callback, queued, presses>>
----------------------------------------------------------------------------
\* a downlink asks for sys_reboot, which puts the RAM and the output back
Reboot == main # "boot" /\ Restart /\ Reset /\ UNCHANGED button

Next ==
  \/ garage_init \/ garage_door_open_close \/ door_function
  \/ PinChanges \/ ButtonWork \/ ButtonCheck \/ Reboot

\* The door thread runs: its sleeps end, and no thread of a higher priority holds it up.
Spec == Init /\ [][Next]_vars /\ WF_vars(door_function)
----------------------------------------------------------------------------
\* The opener toggles the door, so a pulse too many is as wrong as one too few: every
\* pulse begun, being begun or still owed has a request of its own.
Owed == IF door_thread = "opening" THEN 1 ELSE 0
PulsesAskedFor == pulses + Owed + door_sem <= triggers

\* The output is active only during a pulse, or because the thread failed to end one and
\* reported a fatal error.
ActiveOnlyInPulse ==
  door => \/ door_thread \in {"active", "closing", "failed"}
          \/ door_thread = "exited" /\ fatal

\* A press clears the bonds at most once, however the contact bounces.
ClearsAskedFor == clears <= presses

\* The opener's contact is let go after every pulse, unless the call that lets it go fails:
\* then the thread exits, and nothing but a reboot lets go of it.
DoorReleased == door ~> ~door \/ door_thread = "exited"

\* A request is answered by a pulse that begins after it, unless the thread fails.
RequestAnswered ==
  \A n \in 0..MaxTriggers :
    door_sem = 1 /\ pulses + Owed = n /\ door_thread # "none"
      ~> pulses > n \/ door_thread \in {"none", "exited"}
=============================================================================
