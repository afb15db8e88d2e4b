------------------------------ MODULE AppMain ------------------------------
(***************************************************************************)
(* app/src/main.c: the main loop (join, start-up message, uptime message,  *)
(* readings, sleep) with lora_setup of lora.c, and the downlink callback   *)
(* that the LoRaWAN stack calls from its own thread.  lora_send_message is *)
(* one step here, successful or not (UplinkContract): a confirmed packet   *)
(* needs the gateway, an unconfirmed one succeeds without it, and          *)
(* unconfirmed_packets of lora.c decides which of them a packet is.        *)
(***************************************************************************)
EXTENDS Naturals

CONSTANTS
  FailLimit,     \* CONFIG_APP_LORA_RECONNECT_FAILED_PACKETS
  JoinAttempts,  \* LORA_JOIN_ATTEMPTS
  Always,        \* CONFIG_APP_LORA_CONFIRMED_PACKET_ALWAYS
  After,         \* CONFIG_APP_LORA_CONFIRMED_PACKET_AFTER, 0 when Always
  DefaultReadingTime,  \* CONFIG_APP_DEFAULT_SENSOR_READING_TIME
  Intervals,     \* reading times (uint16_t) a downlink may ask for
  Callback,      \* downlink_cb, the only node of the stack's callback list
  Nil

SensorReadingTimeMin == 30
SensorReadingTimeMax == 7200

ASSUME MainAssumption ==
  /\ FailLimit \in 1..50 /\ JoinAttempts \in Nat \ {0}
  /\ Always \in BOOLEAN /\ After \in 0..100 /\ (Always => After = 0)
  /\ DefaultReadingTime \in SensorReadingTimeMin..SensorReadingTimeMax
  /\ Intervals \subseteq Nat

List == INSTANCE SList WITH Nodes <- {Callback}, Nil <- Nil

VARIABLES
  pc,                      \* where main is
  lora_joined, lora_sent_join_message, failed_messages,
  join_attempts,
  unconfirmed_packets,     \* the counter of lora.c
  send_flags,              \* SEND_FLAG_UPTIME
  sensor_reading_time,
  dl_callbacks,            \* the stack's list of registered callbacks (external)
  walk,                    \* the node whose callback the stack is calling, or Nil
  dl,                      \* the downlink it is called with
  replying,                \* is the callback inside its error uplink
  holders,                 \* who enabled the high-frequency clock
  keys, stored,            \* LoRa keys: in RAM, and in the settings partition
  link,                    \* can the gateway be reached (external)
  activated,               \* has the stack a session, whatever main takes it for (external)
  greeted,                 \* history, for StartupFirst: has the network had a
                           \* start-up message since the join
  request                  \* history: the last request of the uptime is "open" until an
                           \* uplink carries it, or "late": it came between the uplink of
                           \* an earlier one and the clearing of the flag, which it is lost in

radio == <<link, activated>>
session == <<lora_joined, lora_sent_join_message, failed_messages>>
callback == <<walk, dl, replying>>
loopState == <<unconfirmed_packets, send_flags, sensor_reading_time>>
history == <<greeted, request>>
vars == <<pc, session, join_attempts, unconfirmed_packets, send_flags, sensor_reading_time,
          dl_callbacks, callback, holders, keys, stored, radio, greeted, request>>

\* What a downlink asks for, by data[0], data[1] and len, and the size of the data where it
\* is looked at.  With len = 1 the operation is whatever follows in the buffer and the data
\* size is (uint8_t)-1.
Messages ==
  [op : {"ignored", "elsewhere", "unknown", "reboot", "clear", "uptime"}, size : {0}, value : {0}]
    \cup [op : {"interval"}, size : {0, 2, 255}, value : Intervals]

None == [op |-> "none", size |-> 0, value |-> 0]

TypeOK ==
  /\ pc \in {"boot", "loop", "setup", "join", "startup", "uptime", "clear",
             "readings", "wait", "asleep", "stopped"}
  /\ lora_joined \in BOOLEAN /\ lora_sent_join_message \in BOOLEAN
  /\ failed_messages \in 0..255
  /\ join_attempts \in 0..JoinAttempts
  /\ unconfirmed_packets \in 0..After
  /\ send_flags \in BOOLEAN
  /\ sensor_reading_time \in Intervals \cup {DefaultReadingTime}
  /\ dl_callbacks \in List!Lists
  /\ walk \in {Callback, Nil} /\ dl \in Messages \cup {None} /\ replying \in BOOLEAN
  /\ holders \subseteq {"main", "downlink"}
  /\ keys \in BOOLEAN /\ stored \in BOOLEAN /\ link \in BOOLEAN
  /\ activated \in BOOLEAN /\ greeted \in BOOLEAN /\ request \in {"none", "open", "late"}

\* RAM after a reset, and a program that starts from its top
Volatile ==
  /\ pc = "boot"
  /\ lora_joined = FALSE /\ lora_sent_join_message = FALSE /\ failed_messages = 0
  /\ join_attempts = 0 /\ unconfirmed_packets = After /\ send_flags = FALSE
  /\ sensor_reading_time = DefaultReadingTime
  /\ dl_callbacks = List!EmptyList
  /\ walk = Nil /\ dl = None /\ replying = FALSE
  /\ holders = {} /\ keys = FALSE
  /\ activated = FALSE /\ greeted = FALSE /\ request = "none"

Init == Volatile /\ stored \in BOOLEAN /\ link \in BOOLEAN
----------------------------------------------------------------------------
\* main up to its loop: lora_keys_load, and the set-ups that may end it
Boot ==
  /\ pc = "boot"
  /\ keys' = stored
  /\ pc' \in {"loop", "stopped"}
  /\ UNCHANGED <<session, join_attempts, loopState, dl_callbacks, callback, holders, stored, radio, history>>

Loop ==
  /\ pc = "loop"
  /\ holders' = holders \cup {"main"}
  /\ pc' = IF lora_joined THEN "startup" ELSE "setup"
  /\ UNCHANGED <<session, join_attempts, loopState, dl_callbacks, callback, keys, stored, radio, history>>

\* The device is not ready, a key is missing or lorawan_start failed.
SetupFails ==
  /\ pc = "setup" /\ pc' = "wait"
  /\ UNCHANGED <<session, join_attempts, loopState, dl_callbacks, callback, holders, keys, stored, radio,
                 history>>

MutantSetupWithoutKeys ==
  /\ pc = "setup" /\ pc' = "join"
  /\ dl_callbacks' = List!Append(dl_callbacks, Callback)
  /\ join_attempts' = 0
  /\ UNCHANGED <<session, loopState, callback, holders, keys, stored, radio, history>>

\* lorawan_start, then lorawan_register_downlink_callback, on every call
SetupStarts ==
  /\ pc = "setup" /\ keys /\ pc' = "join"
  /\ dl_callbacks' = List!Append(dl_callbacks, Callback)
  /\ join_attempts' = 0
  /\ UNCHANGED <<session, loopState, callback, holders, keys, stored, radio, history>>

JoinFails ==
  /\ pc = "join"
  /\ join_attempts' = join_attempts + 1
  /\ activated' \in {activated, FALSE}
  /\ pc' = IF join_attempts' = JoinAttempts THEN "wait" ELSE "join"
  /\ UNCHANGED <<session, loopState, dl_callbacks, callback, holders, keys, stored, link, history>>

JoinSucceeds ==
  /\ pc = "join" /\ link /\ pc' = "startup"
  /\ lora_joined' = TRUE /\ activated' = TRUE
  /\ greeted' = FALSE
  /\ UNCHANGED <<lora_sent_join_message, failed_messages, join_attempts, loopState, dl_callbacks,
                 callback, holders, keys, stored, link, request>>

MutantConfirmOnlyForced(force) == ~Always /\ ~force

\* May lora_send_message send the packet unconfirmed.  While the callback sends as well, it
\* may find any count (LoraUplink).
MayGoUnconfirmed(force) ==
  ~Always /\ ~force /\ (After = 0 \/ replying \/ unconfirmed_packets # After)

NextCounts ==
  IF replying THEN 0..After
  ELSE {IF unconfirmed_packets = After THEN 0 ELSE unconfirmed_packets + 1}

\* rc == 0 of a lora_send_message of main: the gateway acknowledged the packet, or nobody
\* was asked to
Delivered(force) ==
  /\ link \/ MayGoUnconfirmed(force)
  /\ unconfirmed_packets' \in NextCounts
  /\ UNCHANGED failed_messages

\* ++failed_messages
NotDelivered == failed_messages' = (failed_messages + 1) % 256 /\ UNCHANGED unconfirmed_packets

unchangedBySend == <<lora_joined, join_attempts, sensor_reading_time, dl_callbacks,
                     callback, holders, keys, stored, radio>>

StartupSent ==
  /\ pc = "startup" /\ ~lora_sent_join_message /\ Delivered(TRUE)
  /\ lora_sent_join_message' = TRUE /\ greeted' = TRUE /\ pc' = "uptime"
  /\ UNCHANGED <<unchangedBySend, send_flags, request>>

MutantStartupFails ==
  /\ pc = "startup" /\ ~lora_sent_join_message /\ NotDelivered
  /\ pc' = "uptime"
  /\ UNCHANGED <<unchangedBySend, lora_sent_join_message, send_flags, history>>

StartupFails ==
  /\ pc = "startup" /\ ~lora_sent_join_message /\ NotDelivered
  /\ pc' = "wait"
  /\ UNCHANGED <<unchangedBySend, lora_sent_join_message, send_flags, history>>

unchangedBySkip == <<unchangedBySend, lora_sent_join_message, failed_messages,
                     unconfirmed_packets>>

MutantUptimeOnlyAtStart ==
  /\ pc = "startup" /\ lora_sent_join_message /\ pc' = "readings"
  /\ UNCHANGED <<unchangedBySkip, send_flags, history>>

NoStartup ==
  /\ pc = "startup" /\ lora_sent_join_message /\ pc' = "uptime"
  /\ UNCHANGED <<unchangedBySkip, send_flags, history>>

\* The packet that gets through goes out; what is left of lora_send_message, the receive
\* window behind the packet included, is at "clear".
UptimeSent ==
  /\ pc = "uptime" /\ send_flags /\ Delivered(FALSE) /\ pc' = "clear"
  /\ request' = "none"
  /\ UNCHANGED <<unchangedBySend, lora_sent_join_message, send_flags, greeted>>

MutantUptimeForgotten ==
  /\ pc = "uptime" /\ send_flags /\ NotDelivered /\ pc' = "readings"
  /\ send_flags' = FALSE
  /\ UNCHANGED <<unchangedBySend, lora_sent_join_message, history>>

UptimeFails ==
  /\ pc = "uptime" /\ send_flags /\ NotDelivered /\ pc' = "readings"
  /\ UNCHANGED <<unchangedBySend, lora_sent_join_message, send_flags, history>>

NoUptime ==
  /\ pc = "uptime" /\ ~send_flags /\ pc' = "readings"
  /\ UNCHANGED <<unchangedBySkip, send_flags, history>>

\* lora_send_message returned, and send_flags &= ~SEND_FLAG_UPTIME.  There is one flag, so
\* the value stored does not depend on the one loaded; a request that came meanwhile goes
\* with it.
ClearUptime ==
  /\ pc = "clear" /\ pc' = "readings"
  /\ send_flags' = FALSE
  /\ UNCHANGED <<unchangedBySkip, history>>

\* the readings, or the error that took their place
ReadingsSent ==
  /\ pc = "readings" /\ Delivered(FALSE) /\ pc' = "wait"
  /\ UNCHANGED <<unchangedBySend, lora_sent_join_message, send_flags, history>>

ReadingsFail ==
  /\ pc = "readings" /\ NotDelivered /\ pc' = "wait"
  /\ UNCHANGED <<unchangedBySend, lora_sent_join_message, send_flags, history>>

MutantConsiderDead(failed) ==
  IF failed > FailLimit
  THEN failed_messages' = 0 /\ lora_joined' = FALSE /\ UNCHANGED lora_sent_join_message
  ELSE failed_messages' = failed /\ UNCHANGED <<lora_joined, lora_sent_join_message>>

\* "consider connection dead and reconnect"
ConsiderDead(failed) ==
  IF failed > FailLimit
  THEN failed_messages' = 0 /\ lora_joined' = FALSE /\ lora_sent_join_message' = FALSE
  ELSE failed_messages' = failed /\ UNCHANGED <<lora_joined, lora_sent_join_message>>

MutantWaitKeepsClock ==
  /\ pc = "wait" /\ pc' = "asleep"
  /\ ConsiderDead(failed_messages)
  /\ UNCHANGED <<join_attempts, loopState, dl_callbacks, callback, holders, keys, stored, radio, history>>

Wait ==
  /\ pc = "wait" /\ pc' = "asleep"
  /\ holders' = holders \ {"main"}
  /\ ConsiderDead(failed_messages)
  /\ UNCHANGED <<join_attempts, loopState, dl_callbacks, callback, keys, stored, radio, history>>

\* k_sleep(K_SECONDS(sensor_reading_time)) ends
Wake ==
  /\ pc = "asleep" /\ pc' = "loop"
  /\ UNCHANGED <<session, join_attempts, loopState, dl_callbacks, callback, holders, keys, stored, radio,
                 history>>
----------------------------------------------------------------------------
\* The stack (external) walks its list of callbacks for a downlink on port 1: it has a
\* session, whether or not main has given that up and waits to join again.
Downlink ==
  /\ activated /\ link /\ walk = Nil /\ dl_callbacks.head # Nil
  /\ walk' = dl_callbacks.head
  /\ \E m \in Messages : dl' = m
  /\ UNCHANGED <<pc, session, join_attempts, loopState, dl_callbacks, replying, holders, keys, stored,
                 radio, history>>

\* lora_message_callback returns and the stack goes to the next node
Return ==
  /\ walk' = dl_callbacks.next[walk]
  /\ dl' = IF walk' = Nil THEN None ELSE dl
  /\ replying' = FALSE

Called(ops) == walk # Nil /\ ~replying /\ dl.op \in ops

unchangedByCallback == <<pc, session, join_attempts, dl_callbacks, keys, radio, greeted>>

\* an empty message, or one that another component or no component handles
CallbackElsewhere ==
  /\ Called({"ignored", "elsewhere"}) /\ Return
  /\ UNCHANGED <<unchangedByCallback, loopState, holders, stored, request>>

\* flash_area_flatten of the settings partition, which may fail; RAM keeps the keys
CallbackClear ==
  /\ Called({"clear"}) /\ Return
  /\ stored' \in {FALSE, stored}
  /\ UNCHANGED <<unchangedByCallback, loopState, holders, request>>

CallbackUptime ==
  /\ Called({"uptime"}) /\ Return
  /\ send_flags' = TRUE
  /\ request' = IF pc = "clear" THEN "late" ELSE "open"
  /\ UNCHANGED <<unchangedByCallback, unconfirmed_packets, sensor_reading_time, holders, stored>>

IntervalAccepted(m) ==
  m.size = 2 /\ m.value >= SensorReadingTimeMin /\ m.value <= SensorReadingTimeMax

CallbackInterval ==
  /\ Called({"interval"}) /\ Return
  /\ sensor_reading_time' = IF IntervalAccepted(dl) THEN dl.value ELSE sensor_reading_time
  /\ UNCHANGED <<unchangedByCallback, unconfirmed_packets, send_flags, holders, stored, request>>

\* "No handler for LoRa Downlink type": the error goes out as an uplink
CallbackUnknown ==
  /\ Called({"unknown"})
  /\ holders' = holders \cup {"downlink"} /\ replying' = TRUE
  /\ UNCHANGED <<unchangedByCallback, loopState, walk, dl, stored, request>>

\* lora_send_message returns, with any count after what main may have sent meanwhile
CallbackReplied ==
  /\ walk # Nil /\ replying /\ Return
  /\ unconfirmed_packets' \in 0..After
  /\ holders' = holders \ {"downlink"}
  /\ UNCHANGED <<unchangedByCallback, send_flags, sensor_reading_time, stored, request>>

\* sys_reboot from the callback, and a reset or power cycle at any time
StartOver ==
  /\ pc' = "boot"
  /\ lora_joined' = FALSE /\ lora_sent_join_message' = FALSE /\ failed_messages' = 0
  /\ join_attempts' = 0 /\ unconfirmed_packets' = After /\ send_flags' = FALSE
  /\ sensor_reading_time' = DefaultReadingTime
  /\ dl_callbacks' = List!EmptyList
  /\ walk' = Nil /\ dl' = None /\ replying' = FALSE
  /\ holders' = {} /\ keys' = FALSE
  /\ activated' = FALSE /\ greeted' = FALSE /\ request' = "none"
  /\ UNCHANGED <<stored, link>>

CallbackReboot == Called({"reboot"}) /\ StartOver

Reset == pc # "boot" /\ StartOver

\* (external) the gateway comes and goes
LinkChanges ==
  /\ link' = ~link
  /\ UNCHANGED <<pc, session, join_attempts, loopState, dl_callbacks, callback, holders, keys, stored,
                 activated, history>>
----------------------------------------------------------------------------
lora_setup == SetupFails \/ SetupStarts \/ JoinFails \/ JoinSucceeds

Main ==
  \/ Boot \/ Loop \/ lora_setup
  \/ StartupSent \/ StartupFails \/ NoStartup
  \/ UptimeSent \/ UptimeFails \/ NoUptime \/ ClearUptime
  \/ ReadingsSent \/ ReadingsFail
  \/ Wait \/ Wake

lora_message_callback ==
  \/ CallbackElsewhere \/ CallbackClear \/ CallbackUptime \/ CallbackInterval
  \/ CallbackUnknown \/ CallbackReplied \/ CallbackReboot

Next == Main \/ Downlink \/ lora_message_callback \/ Reset \/ LinkChanges

\* The main thread and the stack's thread run, and every blocking call returns.
\* A packet may fail even with the gateway in reach; LinkFairness says that not all of
\* them do, for ever.
Fairness == WF_vars(Main) /\ WF_vars(lora_message_callback)

LinkFairness ==
  /\ SF_vars(SetupStarts) /\ SF_vars(JoinSucceeds)
  /\ SF_vars(StartupSent) /\ SF_vars(UptimeSent)

Spec == Init /\ [][Next]_vars /\ Fairness

SpecAnswering == Spec /\ LinkFairness
----------------------------------------------------------------------------
\* The failure count is at most FailLimit whenever main sleeps, and a loop of the
\* main function adds at most two to it, so the uint8_t never wraps.
FailuresBounded ==
  /\ failed_messages <= FailLimit + 2
  /\ pc \in {"asleep", "loop"} => failed_messages <= FailLimit

\* Readings and uptime go out only in a session that had its start-up message: the
\* two flags of main are forgotten together, at a reconnection as at a reset.
StartupFirst == pc \in {"uptime", "clear", "readings"} => lora_joined /\ greeted

\* While main sleeps and no error uplink is on its way, nobody keeps the clock on.
ClockReleased == pc = "asleep" /\ ~replying => holders = {}

\* However malformed the downlinks, main never sleeps less than 30 s or more than 2 h.
IntervalInRange == sensor_reading_time \in SensorReadingTimeMin..SensorReadingTimeMax

\* A device whose keys were erased keeps its session, and joins no more after a reset.
ClearedStaysOff == ~stored /\ ~keys => ~lora_joined /\ pc \notin {"join", "startup"}

\* No step of main or of its callback drops a request of the uptime that no uplink has
\* carried yet, through failed uplinks and lost sessions; the flag is a plain uint8_t that
\* both write (main.c:180, main.c:311).  A request that comes between the uplink and the
\* clearing ("late") is lost.
RequestKept == request = "open" => send_flags

\* If the gateway is gone for good, and no callback is stuck in a reply, main does not stay
\* joined for good: what it sends is confirmed often enough to fail.  Without confirmed
\* packets every lorawan_send succeeds and main never notices.
DeadLinkLeft ==
  Always \/ After > 0 => (<>[](~link /\ walk = Nil) => []<>~lora_joined)

\* Once the gateway stays in reach, a requested uptime is sent (or forgotten by a reset),
\* through however many failures and reconnections come before.
UptimeAnswered == <>[]link => (request = "open" ~> request # "open")

\* app/Kconfig: "will allow application to receive and handle downlinks": the stack
\* gets to the end of its callbacks, so that it can go on to the next downlink.
DownlinkEnds == walk # Nil ~> walk = Nil
============================================================================
