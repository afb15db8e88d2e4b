----------------------------- MODULE BtOnDemand -----------------------------
(***************************************************************************)
(* app/src/bluetooth.c as bluetooth.conf builds it: advertising on demand, *)
(* without BT_SMP.  A press of the button or a LoRa message opens a window *)
(* of 20 s in which the device advertises; the system work queue, the      *)
(* thread that delivers the stack's callbacks, the LoRa downlink callback  *)
(* and the timer's interrupt share continue_advert and in_connection       *)
(* without a lock.  The stack (external) has one connection object: while  *)
(* it is in use, connectable advertising cannot start.                     *)
(***************************************************************************)
EXTENDS Naturals, SequencesExt

CONSTANT MaxPrompts  \* bound: presses and LoRa operations

ASSUME BtAssumption == MaxPrompts \in Nat

VARIABLES
  continue_advert, in_connection,
  active_conn,  \* is it set
  timer,        \* is stop_advertising_timer running
  wq,           \* work items submitted to the system work queue, in order
  work,         \* what the work queue is in: an item, "prompted" (advertise2 past its test), "idle"
  bt,           \* where the stack's callback thread is
  remote,       \* where bluetooth_remote is
  advertising,  \* is the controller advertising (external)
  link,         \* the connection object: "free", "up", or "down" but not recycled (external)
  led,          \* LED_BLUE
  target,       \* what bluetooth_remote last disconnected: "none" yet, "conn" or "null"
  ended,        \* history: has a connection ended since it last tested in_connection
  prompts       \* number of prompts so far, for the bound

flags == <<continue_advert, in_connection, active_conn, timer, led>>
stack == <<advertising, link>>
hangup == <<target, ended>>
vars == <<flags, stack, wq, work, bt, remote, hangup, prompts>>

Items == {"advertise", "stop", "button"}

\* Type invariant.
TypeOK ==
  /\ continue_advert \in BOOLEAN /\ in_connection \in BOOLEAN /\ active_conn \in BOOLEAN
  /\ timer \in BOOLEAN /\ led \in BOOLEAN /\ advertising \in BOOLEAN
  /\ wq \in SeqOf(Items, 3)
  /\ work \in Items \cup {"prompted", "idle"}
  /\ bt \in {"idle", "connected", "established", "disconnected", "ended", "do_advert", "submit"}
  /\ remote \in {"idle", "stop", "disconnect"}
  /\ link \in {"free", "up", "down"}
  /\ target \in {"none", "conn", "null"} /\ ended \in BOOLEAN
  /\ prompts \in 0..MaxPrompts

Init ==
  /\ continue_advert = FALSE /\ in_connection = FALSE /\ active_conn = FALSE
  /\ timer = FALSE /\ led = FALSE /\ advertising = FALSE
  /\ wq = <<>> /\ work = "idle" /\ bt = "idle" /\ remote = "idle"
  /\ link = "free" /\ target = "none" /\ ended = FALSE /\ prompts = 0

\* k_work_submit: an item that is queued already stays where it is
Submit(item) == wq' = IF Contains(wq, item) THEN wq ELSE Append(wq, item)

Prompt == prompts < MaxPrompts /\ prompts' = prompts + 1

\* bt_le_adv_start fails while it advertises or the connection object is in use, and may
\* fail on its own; the error is only logged.
advertise == advertising' \in {advertising, advertising \/ link = "free"} /\ UNCHANGED link
----------------------------------------------------------------------------
\* button_pressed, or bluetooth_remote(BLUETOOTH_REMOTE_OP_ADVERT_START)
Pressed == Prompt /\ Submit("button") /\ UNCHANGED <<flags, stack, work, bt, remote, hangup>>

MutantTimerKeepsFlag ==
  /\ timer /\ timer' = FALSE
  /\ IF in_connection THEN UNCHANGED wq ELSE Submit("stop")
  /\ UNCHANGED <<continue_advert, in_connection, active_conn, led, stack, work, bt, remote, hangup, prompts>>

\* stop_advertising_function in the timer's interrupt, which no thread interleaves
TimerExpires ==
  /\ timer /\ timer' = FALSE /\ continue_advert' = FALSE
  /\ IF in_connection THEN UNCHANGED wq ELSE Submit("stop")
  /\ UNCHANGED <<in_connection, active_conn, led, stack, work, bt, remote, hangup, prompts>>

\* the same function called by bluetooth_remote(BLUETOOTH_REMOTE_OP_ADVERT_STOP)
RemoteStop ==
  /\ remote = "idle" /\ Prompt
  /\ remote' = "stop" /\ continue_advert' = FALSE
  /\ UNCHANGED <<in_connection, active_conn, timer, led, stack, wq, work, bt, hangup>>

RemoteStopSubmit ==
  /\ remote = "stop" /\ remote' = "idle"
  /\ IF in_connection THEN UNCHANGED wq ELSE Submit("stop")
  /\ UNCHANGED <<flags, stack, work, bt, hangup, prompts>>

\* bluetooth_remote(BLUETOOTH_REMOTE_OP_ADVERT_DISCONNECT): the test of in_connection ...
RemoteDisconnect ==
  /\ remote = "idle" /\ in_connection /\ Prompt
  /\ remote' = "disconnect" /\ target' = "none" /\ ended' = FALSE
  /\ UNCHANGED <<flags, stack, wq, work, bt>>

\* ... and bt_conn_disconnect(active_conn): the stack ends a connection later, and of NULL it
\* is assumed to return an error; then the case falls through to the default, -EINVAL
RemoteDisconnects ==
  /\ remote = "disconnect" /\ remote' = "idle"
  /\ target' = IF active_conn THEN "conn" ELSE "null"
  /\ UNCHANGED <<flags, stack, wq, work, bt, ended, prompts>>

bluetooth_remote == RemoteStopSubmit \/ RemoteDisconnects
----------------------------------------------------------------------------
\* the work queue takes its next item
WorkTake ==
  /\ work = "idle" /\ wq # <<>>
  /\ work' = Head(wq) /\ wq' = Tail(wq)
  /\ UNCHANGED <<flags, stack, bt, remote, hangup, prompts>>

WorkAdvertise ==
  /\ work = "advertise" /\ work' = "idle"
  /\ advertise
  /\ UNCHANGED <<flags, wq, bt, remote, hangup, prompts>>

\* stop_advertising
WorkStop ==
  /\ work = "stop" /\ work' = "idle"
  /\ led' = FALSE /\ advertising' = FALSE
  /\ UNCHANGED <<continue_advert, in_connection, active_conn, timer, link, wq, bt, remote, hangup, prompts>>

\* advertise2 up to continue_advert = true: the timer starts again, a closed window opens
WorkButton ==
  /\ work = "button"
  /\ timer' = TRUE
  /\ IF continue_advert
     THEN work' = "idle" /\ UNCHANGED <<continue_advert, led>>
     ELSE work' = "prompted" /\ continue_advert' = TRUE /\ led' = TRUE
  /\ UNCHANGED <<in_connection, active_conn, stack, wq, bt, remote, hangup, prompts>>

\* the rest of advertise2
WorkPrompted ==
  /\ work = "prompted" /\ work' = "idle"
  /\ IF in_connection THEN UNCHANGED stack ELSE advertise
  /\ UNCHANGED <<flags, wq, bt, remote, hangup, prompts>>

work_queue == WorkTake \/ WorkAdvertise \/ WorkStop \/ WorkButton \/ WorkPrompted
----------------------------------------------------------------------------
\* A peer connects, which ends advertising (BT_LE_ADV_OPT_ONE_TIME), or fails to (external).
PeerConnects ==
  /\ bt = "idle" /\ advertising /\ advertising' = FALSE
  /\ \/ bt' = "connected" /\ link' = "up"
     \/ bt' = "do_advert" /\ UNCHANGED link
  /\ UNCHANGED <<flags, wq, work, remote, hangup, prompts>>

\* connected without an error
Connected ==
  \/ /\ bt = "connected" /\ bt' = "established"
     /\ active_conn' = TRUE
     /\ UNCHANGED <<continue_advert, in_connection, timer, led, stack, wq, work, remote, hangup, prompts>>
  \/ /\ bt = "established" /\ bt' = "idle"
     /\ in_connection' = TRUE
     /\ UNCHANGED <<continue_advert, active_conn, timer, led, stack, wq, work, remote, hangup, prompts>>

\* The link ends (external).
LinkEnds ==
  /\ bt = "idle" /\ link = "up"
  /\ bt' = "disconnected" /\ link' = "down"
  /\ UNCHANGED <<flags, advertising, wq, work, remote, hangup, prompts>>

MutantDisconnected ==
  \/ /\ bt = "disconnected" /\ bt' = "ended"
     /\ active_conn' = FALSE /\ ended' = TRUE
     /\ UNCHANGED <<continue_advert, in_connection, timer, led, stack, wq, work, remote, target, prompts>>
  \/ /\ bt = "ended" /\ bt' = "do_advert"
     /\ in_connection' = FALSE
     /\ UNCHANGED <<continue_advert, active_conn, timer, led, stack, wq, work, remote, hangup, prompts>>

\* disconnected up to do_advert
Disconnected ==
  \/ /\ bt = "disconnected" /\ bt' = "ended"
     /\ in_connection' = FALSE /\ ended' = TRUE
     /\ UNCHANGED <<continue_advert, active_conn, timer, led, stack, wq, work, remote, target, prompts>>
  \/ /\ bt = "ended" /\ bt' = "do_advert"
     /\ active_conn' = FALSE
     /\ UNCHANGED <<continue_advert, in_connection, timer, led, stack, wq, work, remote, hangup, prompts>>

\* on_conn_recycled
Recycled ==
  /\ bt = "idle" /\ link = "down"
  /\ bt' = "do_advert" /\ link' = "free"
  /\ UNCHANGED <<flags, advertising, wq, work, remote, hangup, prompts>>

MutantDoAdvertTest ==
  /\ bt = "do_advert"
  /\ bt' = IF continue_advert THEN "submit" ELSE "idle"
  /\ UNCHANGED <<flags, stack, wq, work, remote, hangup, prompts>>

\* do_advert: the test of continue_advert ...
DoAdvertTest ==
  /\ bt = "do_advert"
  /\ IF continue_advert THEN bt' = "submit" /\ UNCHANGED led ELSE bt' = "idle" /\ led' = FALSE
  /\ UNCHANGED <<continue_advert, in_connection, active_conn, timer, stack, wq, work, remote, hangup, prompts>>

\* ... and k_work_submit; the timer's interrupt may come in between
DoAdvertSubmit ==
  /\ bt = "submit" /\ bt' = "idle"
  /\ Submit("advertise")
  /\ UNCHANGED <<flags, stack, work, remote, hangup, prompts>>

conn_callbacks == Connected \/ Disconnected \/ DoAdvertTest \/ DoAdvertSubmit

Next ==
  \/ Pressed \/ TimerExpires \/ RemoteStop \/ RemoteDisconnect \/ bluetooth_remote
  \/ work_queue \/ PeerConnects \/ LinkEnds \/ Recycled \/ conn_callbacks

\* The timer expires, the threads run, and the stack recycles a connection that is down.
Fairness ==
  /\ WF_vars(TimerExpires) /\ WF_vars(bluetooth_remote) /\ WF_vars(work_queue)
  /\ WF_vars(conn_callbacks) /\ WF_vars(Recycled)

Spec == Init /\ [][Next]_vars /\ Fairness

\* As Spec, and no peer stays connected for ever.
SpecPeersLeave == Spec /\ WF_vars(LinkEnds)
----------------------------------------------------------------------------
\* bluetooth_remote and the other readers test in_connection and use active_conn, with
\* callbacks in between: whenever no callback runs both say whether there is a connection,
\* the one is never set without the other, and bt_conn_disconnect is given NULL only where
\* the connection that was tested ended before the use.
ConnectionKnown ==
  /\ in_connection => active_conn
  /\ bt = "idle" => (in_connection <=> link = "up") /\ (active_conn <=> link = "up")
  /\ target = "null" => ended

\* While the window is open its timer runs: no sequence of presses, LoRa operations and
\* connections leaves the device in a window that never closes.
WindowTimed == continue_advert => timer

\* The LED, and the battery it drains, is turned off in the end.
LedGoesOff == led ~> ~led
=============================================================================
