---------------------------- MODULE AppMainProofs ----------------------------
(* Proofs about AppMain for every limit of failures and join attempts, every *)
(* set of reading times a downlink may ask for, and any history of resets.   *)
EXTENDS AppMain, TLAPS

\* How many failures main has counted at each point of its loop: one loop adds one at
\* the start-up message and ends, or at most one each at the uptime and the readings.
FailInv ==
  /\ failed_messages \in 0..(FailLimit + 2)
  /\ pc \notin {"readings", "wait"} => failed_messages <= FailLimit
  /\ pc = "readings" => failed_messages <= FailLimit + 1

\* Which parts of the loop run in a session, and that the two flags of main are never
\* apart: a start-up message that counts as sent was sent in this session.
SessionInv ==
  /\ lora_joined \in BOOLEAN
  /\ pc \in {"startup", "uptime", "clear", "readings"} => lora_joined = TRUE
  /\ pc \in {"uptime", "clear", "readings"} => lora_sent_join_message = TRUE
  /\ pc \in {"boot", "setup", "join", "stopped"} => lora_joined = FALSE
  /\ lora_sent_join_message = TRUE => lora_joined = TRUE /\ greeted = TRUE
  /\ pc = "join" \/ lora_joined = TRUE => keys = TRUE

\* Each of the two threads holds the clock in its own span of the program.
ClockInv ==
  /\ "main" \in holders => pc \notin {"boot", "loop", "asleep", "stopped"}
  /\ "downlink" \in holders => replying = TRUE
  /\ holders \subseteq {"main", "downlink"}

\* The downlink that is handled is one of the messages.
MessageInv == dl \in Messages \cup {None}

\* A request that no uplink has carried has its flag; between the uplink and the clearing of
\* the flag there is none but a late one.
UptimeInv ==
  /\ request \in {"none", "open", "late"}
  /\ request = "open" => send_flags = TRUE /\ pc # "clear"

IInv == FailInv /\ SessionInv /\ ClockInv /\ MessageInv /\ IntervalInRange /\ UptimeInv

\* The steps of the stack's thread that are not a reboot, and of the environment.
Beside == \/ Downlink \/ LinkChanges
          \/ CallbackElsewhere \/ CallbackClear \/ CallbackUptime
          \/ CallbackInterval \/ CallbackUnknown \/ CallbackReplied

\* They leave main, its counters and the keys alone.
LEMMA BesideFrame ==
  Beside => /\ pc' = pc /\ lora_joined' = lora_joined
            /\ lora_sent_join_message' = lora_sent_join_message
            /\ failed_messages' = failed_messages
            /\ greeted' = greeted /\ keys' = keys
<1> USE DEF session, unchangedByCallback, history
<1>1. CASE Downlink \/ LinkChanges
  BY <1>1, Zenon DEF Downlink, LinkChanges
<1>2. CASE CallbackElsewhere \/ CallbackClear \/ CallbackUptime
  BY <1>2, Zenon DEF CallbackElsewhere, CallbackClear, CallbackUptime
<1>3. CASE CallbackInterval \/ CallbackUnknown \/ CallbackReplied
  BY <1>3, Zenon DEF CallbackInterval, CallbackUnknown, CallbackReplied
<1> QED
  BY <1>1, <1>2, <1>3, Zenon DEF Beside

\* Every step is one of main, one beside it, or a reset.
LEMMA Steps ==
  [Next]_vars => Main \/ Beside \/ StartOver \/ UNCHANGED vars
BY Zenon DEF Next, lora_message_callback, CallbackReboot, Reset, Beside

\* The failure count follows the loop.
LEMMA FailStep == FailInv /\ [Next]_vars => FailInv'
<1> SUFFICES ASSUME FailInv, [Next]_vars PROVE FailInv'
  OBVIOUS
<1> USE DEF session, unchangedBySend, unchangedBySkip, history
<1>0. FailLimit \in 1..50
  BY MainAssumption
<1>1. ASSUME pc \notin {"readings", "wait"}, failed_messages' = failed_messages
      PROVE FailInv'
  BY <1>0, <1>1 DEF FailInv
<1>2. CASE Boot \/ Loop \/ SetupFails \/ SetupStarts \/ JoinFails \/ JoinSucceeds
  <2>1. pc \notin {"readings", "wait"} /\ failed_messages' = failed_messages
    BY <1>2, Zenon DEF Boot, Loop, SetupFails, SetupStarts, JoinFails, JoinSucceeds
  <2> QED
    BY <1>1, <2>1
<1>3. CASE StartupSent \/ NoStartup \/ UptimeSent \/ NoUptime \/ ClearUptime \/ Wake
  <2>1. pc \notin {"readings", "wait"} /\ failed_messages' = failed_messages
    BY <1>3, Zenon DEF StartupSent, NoStartup, UptimeSent, NoUptime, ClearUptime, Wake, Delivered
  <2> QED
    BY <1>1, <2>1
<1>4. CASE StartupFails \/ UptimeFails
  <2>1. /\ pc \notin {"readings", "wait"} /\ pc' \in {"readings", "wait"}
        /\ failed_messages' = (failed_messages + 1) % 256
    BY <1>4, Zenon DEF StartupFails, UptimeFails, NotDelivered
  <2> QED
    BY <1>0, <2>1 DEF FailInv
<1>5. CASE ReadingsSent \/ ReadingsFail
  <2>1. /\ pc = "readings" /\ pc' = "wait"
        /\ failed_messages' \in {failed_messages, (failed_messages + 1) % 256}
    BY <1>5, Zenon DEF ReadingsSent, ReadingsFail, Delivered, NotDelivered
  <2> QED
    BY <1>0, <2>1 DEF FailInv
<1>6. CASE Wait
  <2>1. pc' = "asleep" /\ ConsiderDead(failed_messages)
    BY <1>6 DEF Wait
  <2>2. failed_messages' = IF failed_messages > FailLimit THEN 0 ELSE failed_messages
    BY <2>1 DEF ConsiderDead
  <2> QED
    BY <1>0, <2>1, <2>2 DEF FailInv
<1>7. CASE Beside
  BY <1>7, BesideFrame DEF FailInv
<1>8. CASE StartOver
  BY <1>0, <1>8 DEF StartOver, FailInv
<1>9. CASE UNCHANGED vars
  BY <1>9 DEF vars, FailInv
<1> QED
  BY <1>2, <1>3, <1>4, <1>5, <1>6, <1>7, <1>8, <1>9, Steps, Zenon DEF Main, lora_setup

\* The flags of main change only at a join, a start-up message, a reconnection, a reset.
LEMMA SessionStep == SessionInv /\ [Next]_vars => SessionInv'
<1> SUFFICES ASSUME SessionInv, [Next]_vars PROVE SessionInv'
  OBVIOUS
<1> USE DEF SessionInv, session, unchangedBySend, unchangedBySkip, history
<1>1. CASE Boot \/ SetupFails
  BY <1>1 DEF Boot, SetupFails
<1>2. CASE Loop
  BY <1>2 DEF Loop
<1>3. CASE SetupStarts
  BY <1>3 DEF SetupStarts
<1>4. CASE JoinFails
  BY <1>4 DEF JoinFails
<1>5. CASE JoinSucceeds
  BY <1>5 DEF JoinSucceeds
<1>6. CASE StartupSent \/ StartupFails
  BY <1>6 DEF StartupSent, StartupFails, Delivered, NotDelivered
<1>7. CASE NoStartup
  BY <1>7 DEF NoStartup
<1>8. CASE UptimeSent \/ UptimeFails
  BY <1>8 DEF UptimeSent, UptimeFails, Delivered, NotDelivered
<1>9. CASE NoUptime \/ ClearUptime
  BY <1>9 DEF NoUptime, ClearUptime
<1>10. CASE ReadingsSent \/ ReadingsFail
  BY <1>10 DEF ReadingsSent, ReadingsFail, Delivered, NotDelivered
<1>11. CASE Wait
  BY <1>11 DEF Wait, ConsiderDead
<1>12. CASE Wake
  BY <1>12 DEF Wake
<1>13. CASE Beside
  BY <1>13, BesideFrame
<1>14. CASE StartOver
  BY <1>14 DEF StartOver
<1>15. CASE UNCHANGED vars
  BY <1>15 DEF vars
<1> QED
  BY <1>1, <1>2, <1>3, <1>4, <1>5, <1>6, <1>7, <1>8, <1>9, <1>10, <1>11, <1>12, <1>13,
     <1>14, <1>15, Steps, Zenon DEF Main, lora_setup

\* The clock is taken and given back at the two ends of each thread's span.
LEMMA ClockStep == ClockInv /\ [Next]_vars => ClockInv'
<1> SUFFICES ASSUME ClockInv, [Next]_vars PROVE ClockInv'
  OBVIOUS
<1> USE DEF ClockInv, session, callback, unchangedBySend, unchangedBySkip
<1>1. CASE Boot
  BY <1>1 DEF Boot
<1>2. CASE Loop
  BY <1>2 DEF Loop
<1>3. CASE SetupFails \/ SetupStarts \/ JoinFails \/ JoinSucceeds
  BY <1>3 DEF SetupFails, SetupStarts, JoinFails, JoinSucceeds
<1>4. CASE StartupSent \/ StartupFails \/ NoStartup
  BY <1>4 DEF StartupSent, StartupFails, NoStartup
<1>5. CASE UptimeSent \/ UptimeFails \/ NoUptime \/ ClearUptime
  BY <1>5 DEF UptimeSent, UptimeFails, NoUptime, ClearUptime
<1>6. CASE ReadingsSent \/ ReadingsFail
  BY <1>6 DEF ReadingsSent, ReadingsFail
<1>7. CASE Wait
  BY <1>7 DEF Wait
<1>8. CASE Wake
  BY <1>8 DEF Wake
<1>9. CASE Beside
  <2>1. pc' = pc
    BY <1>9, BesideFrame
  <2>2. \/ holders' = holders /\ replying' = replying
        \/ holders' = holders /\ ~Called({"unknown"}) /\ replying = FALSE
        \/ holders' = holders \cup {"downlink"} /\ replying' = TRUE
        \/ holders' = holders \ {"downlink"}
    <3> USE DEF unchangedByCallback
    <3>1. CASE Downlink \/ LinkChanges
      BY <3>1, Zenon DEF Downlink, LinkChanges
    <3>2. CASE CallbackUnknown \/ CallbackReplied
      BY <3>2, Zenon DEF CallbackUnknown, CallbackReplied
    <3>3. CASE CallbackElsewhere \/ CallbackClear
      BY <3>3 DEF CallbackElsewhere, CallbackClear, Called
    <3>4. CASE CallbackUptime \/ CallbackInterval
      BY <3>4 DEF CallbackUptime, CallbackInterval, Called
    <3> QED
      BY <1>9, <3>1, <3>2, <3>3, <3>4, Zenon DEF Beside
  <2> QED
    BY <2>1, <2>2
<1>10. CASE StartOver
  BY <1>10 DEF StartOver
<1>11. CASE UNCHANGED vars
  BY <1>11 DEF vars
<1> QED
  BY <1>1, <1>2, <1>3, <1>4, <1>5, <1>6, <1>7, <1>8, <1>9, <1>10, <1>11, Steps, Zenon
  DEF Main, lora_setup

\* A downlink stays the one that arrived while its callbacks run.
LEMMA MessageStep == MessageInv /\ [Next]_vars => MessageInv'
<1> SUFFICES ASSUME MessageInv, [Next]_vars PROVE MessageInv'
  OBVIOUS
<1>1. \/ dl' \in {dl, None}
      \/ \E m \in Messages : dl' = m
  <2> USE DEF callback, unchangedBySend, unchangedBySkip, Return
  <2>1. CASE Boot \/ Loop \/ lora_setup
    BY <2>1, Zenon DEF Boot, Loop, lora_setup, SetupFails, SetupStarts, JoinFails, JoinSucceeds
  <2>2. CASE StartupSent \/ StartupFails \/ NoStartup \/ UptimeSent \/ UptimeFails \/ NoUptime
    BY <2>2, Zenon DEF StartupSent, StartupFails, NoStartup, UptimeSent, UptimeFails, NoUptime
  <2>3. CASE ClearUptime \/ ReadingsSent \/ ReadingsFail \/ Wait \/ Wake
    BY <2>3, Zenon DEF ClearUptime, ReadingsSent, ReadingsFail, Wait, Wake
  <2>4. CASE Downlink \/ LinkChanges \/ CallbackUnknown
    BY <2>4, Zenon DEF Downlink, LinkChanges, CallbackUnknown
  <2>5. CASE CallbackElsewhere \/ CallbackClear \/ CallbackUptime
    BY <2>5 DEF CallbackElsewhere, CallbackClear, CallbackUptime
  <2>6. CASE CallbackInterval \/ CallbackReplied
    BY <2>6 DEF CallbackInterval, CallbackReplied
  <2>7. CASE StartOver
    BY <2>7, Zenon DEF StartOver
  <2>8. CASE UNCHANGED vars
    BY <2>8, Zenon DEF vars
  <2> QED
    BY <2>1, <2>2, <2>3, <2>4, <2>5, <2>6, <2>7, <2>8, Steps, Zenon DEF Main, Beside
<1> QED
  BY <1>1, Zenon DEF MessageInv

\* The check of a reading time: what passes it is in the range.
LEMMA InRange ==
  ASSUME NEW v \in Intervals, v >= 30, v <= 7200
  PROVE  v \in 30..7200
BY MainAssumption

\* Only a downlink that passed the check writes the reading time.
LEMMA IntervalStep == MessageInv /\ IntervalInRange /\ [Next]_vars => IntervalInRange'
<1> SUFFICES ASSUME MessageInv, IntervalInRange, [Next]_vars PROVE IntervalInRange'
  OBVIOUS
<1>1. ASSUME sensor_reading_time' = sensor_reading_time PROVE IntervalInRange'
  BY <1>1, Zenon DEF IntervalInRange
<1>2. CASE Main
  <2> USE <1>1 DEF session, callback, loopState, unchangedBySend, unchangedBySkip
  <2>1. CASE Boot \/ Loop \/ lora_setup
    BY <2>1, Zenon DEF Boot, Loop, lora_setup, SetupFails, SetupStarts, JoinFails, JoinSucceeds
  <2>2. CASE StartupSent \/ StartupFails \/ NoStartup \/ UptimeSent \/ UptimeFails \/ NoUptime
    BY <2>2, Zenon DEF StartupSent, StartupFails, NoStartup, UptimeSent, UptimeFails, NoUptime
  <2>3. CASE ClearUptime \/ ReadingsSent \/ ReadingsFail \/ Wait \/ Wake
    BY <2>3, Zenon DEF ClearUptime, ReadingsSent, ReadingsFail, Wait, Wake
  <2> QED
    BY <1>2, <2>1, <2>2, <2>3, Zenon DEF Main
<1>3. CASE Beside
  <2>1. CASE CallbackInterval
    <3>1. dl \in Messages /\ dl.op = "interval"
      BY <2>1 DEF CallbackInterval, Called, MessageInv, None
    <3>2. PICK v \in Intervals : v = dl.value
      BY <3>1, SMT DEF Messages
    <3>3. sensor_reading_time' = IF IntervalAccepted(dl) THEN v ELSE sensor_reading_time
      BY <2>1, <3>2, Zenon DEF CallbackInterval
    <3>4. IntervalAccepted(dl) => v >= 30 /\ v <= 7200
      BY <3>2, SMT DEF IntervalAccepted, SensorReadingTimeMin, SensorReadingTimeMax
    <3>5. IntervalAccepted(dl) => v \in 30..7200
      BY <3>4, InRange
    <3>6. CASE IntervalAccepted(dl)
      BY <3>3, <3>5, <3>6 DEF IntervalInRange, SensorReadingTimeMin, SensorReadingTimeMax
    <3>7. CASE ~IntervalAccepted(dl)
      BY <1>1, <3>3, <3>7
    <3> QED
      BY <3>6, <3>7
  <2>2. CASE ~CallbackInterval
    BY <1>1, <1>3, <2>2, Zenon DEF Beside, Downlink, LinkChanges, CallbackElsewhere,
       CallbackClear, CallbackUptime, CallbackUnknown, CallbackReplied, loopState
  <2> QED
    BY <2>1, <2>2
<1>4. CASE StartOver
  BY <1>4, MainAssumption, Zenon DEF StartOver, IntervalInRange
<1>5. CASE UNCHANGED vars
  BY <1>1, <1>5, Zenon DEF vars
<1> QED
  BY <1>2, <1>3, <1>4, <1>5, Steps

\* A request is opened with its flag, closed by the uplink that carries it, and late if it
\* comes before the clearing that follows.
LEMMA UptimeStep == UptimeInv /\ [Next]_vars => UptimeInv'
<1> SUFFICES ASSUME UptimeInv, [Next]_vars PROVE UptimeInv'
  OBVIOUS
<1>s. ASSUME request' = request, send_flags' = send_flags, pc' = "clear" => pc = "clear"
      PROVE  UptimeInv'
  BY <1>s DEF UptimeInv
<1> USE DEF loopState, history, unchangedBySend, unchangedBySkip
<1>1. CASE Boot \/ Loop \/ SetupFails \/ SetupStarts \/ JoinFails \/ JoinSucceeds
  <2>1. request' = request /\ send_flags' = send_flags
    BY <1>1, Zenon DEF Boot, Loop, SetupFails, SetupStarts, JoinFails, JoinSucceeds
  <2>2. pc' # "clear"
    BY <1>1 DEF Boot, Loop, SetupFails, SetupStarts, JoinFails, JoinSucceeds
  <2> QED
    BY <1>s, <2>1, <2>2
<1>2. CASE StartupSent \/ StartupFails \/ NoStartup \/ UptimeFails \/ NoUptime
           \/ ReadingsSent \/ ReadingsFail
  <2>1. request' = request /\ send_flags' = send_flags
    BY <1>2, Zenon DEF StartupSent, StartupFails, NoStartup, UptimeFails, NoUptime, ReadingsSent,
       ReadingsFail
  <2>2. pc' # "clear"
    BY <1>2 DEF StartupSent, StartupFails, NoStartup, UptimeFails, NoUptime, ReadingsSent,
       ReadingsFail
  <2> QED
    BY <1>s, <2>1, <2>2
<1>3. CASE UptimeSent
  BY <1>3 DEF UptimeSent, UptimeInv
<1>4. CASE ClearUptime
  <2>1. pc = "clear" /\ request' = request
    BY <1>4, Zenon DEF ClearUptime
  <2> QED
    BY <2>1 DEF UptimeInv
<1>5. CASE Wait \/ Wake
  <2>1. request' = request /\ send_flags' = send_flags
    BY <1>5, Zenon DEF Wait, Wake
  <2>2. pc' # "clear"
    BY <1>5 DEF Wait, Wake
  <2> QED
    BY <1>s, <2>1, <2>2
<1>6. CASE CallbackUptime
  <2>1. /\ send_flags' = TRUE /\ pc' = pc
        /\ request' = IF pc = "clear" THEN "late" ELSE "open"
    BY <1>6, Zenon DEF CallbackUptime, unchangedByCallback
  <2> QED
    BY <2>1 DEF UptimeInv
<1>7. CASE Beside /\ ~CallbackUptime
  <2>1. request' = request /\ send_flags' = send_flags
    BY <1>7, Zenon DEF Beside, Downlink, LinkChanges, CallbackElsewhere, CallbackClear,
       CallbackInterval, CallbackUnknown, CallbackReplied
  <2> QED
    BY <1>7, <1>s, <2>1, BesideFrame
<1>8. CASE StartOver
  BY <1>8 DEF StartOver, UptimeInv
<1>9. CASE UNCHANGED vars
  BY <1>9 DEF vars, UptimeInv
<1> QED
  BY <1>1, <1>2, <1>3, <1>4, <1>5, <1>6, <1>7, <1>8, <1>9, Steps, Zenon DEF Main, lora_setup

\* The invariant holds at the start, whatever the flash and the gateway are like.
LEMMA InitIInv == Init => IInv
<1> SUFFICES ASSUME Init PROVE IInv
  OBVIOUS
<1>0. FailLimit \in 1..50
  BY MainAssumption
<1>1. FailInv
  BY <1>0 DEF Init, Volatile, FailInv
<1>2. SessionInv /\ ClockInv /\ MessageInv
  BY DEF Init, Volatile, SessionInv, ClockInv, MessageInv
<1>4. UptimeInv
  BY DEF Init, Volatile, UptimeInv
<1>3. IntervalInRange
  BY MainAssumption, Zenon DEF Init, Volatile, IntervalInRange
<1> QED
  BY <1>1, <1>2, <1>3, <1>4 DEF IInv

\* main, its callback and the stack keep the invariant, and so do resets at any time.
THEOREM Invariance == Spec => []IInv
<1>1. IInv /\ [Next]_vars => IInv'
  BY FailStep, SessionStep, ClockStep, MessageStep, IntervalStep, UptimeStep DEF IInv
<1> QED
  BY InitIInv, <1>1, PTL DEF Spec

\* The variables that the invariant says no more of: the list of callbacks stays one of
\* the one node there is, however often that is added, and a join ends at its last attempt.
RestInv ==
  /\ pc \in {"boot", "loop", "setup", "join", "startup", "uptime", "clear",
             "readings", "wait", "asleep", "stopped"}
  /\ lora_sent_join_message \in BOOLEAN
  /\ join_attempts \in 0..JoinAttempts
  /\ pc = "join" => join_attempts < JoinAttempts
  /\ unconfirmed_packets \in 0..After
  /\ send_flags \in BOOLEAN
  /\ sensor_reading_time \in Intervals \cup {DefaultReadingTime}
  /\ dl_callbacks \in List!Lists
  /\ walk \in {Callback, Nil} /\ replying \in BOOLEAN
  /\ keys \in BOOLEAN /\ stored \in BOOLEAN /\ link \in BOOLEAN
  /\ activated \in BOOLEAN /\ greeted \in BOOLEAN

\* Adding the node gives a list, whatever the links were before.
LEMMA AppendTyped ==
  ASSUME NEW l \in List!Lists PROVE List!Append(l, Callback) \in List!Lists
<1> DEFINE N == {Callback} \cup {Nil}
           cut == [l.next EXCEPT ![Callback] = Nil]
<1>1. l.head \in N /\ l.tail \in N /\ l.next \in [{Callback} -> N]
  BY DEF List!Lists
<1>2. cut \in [{Callback} -> N]
  BY <1>1
<1>3. CASE l.tail = Nil
  BY <1>1, <1>2, <1>3 DEF List!Lists, List!Append
<1>4. CASE l.tail # Nil
  <2>1. [cut EXCEPT ![l.tail] = Callback] \in [{Callback} -> N]
    BY <1>1, <1>2
  <2> QED
    BY <1>1, <1>4, <2>1 DEF List!Lists, List!Append
<1> QED
  BY <1>3, <1>4

\* The stack goes on to the node, or to the end.
LEMMA ReturnTyped ==
  ASSUME RestInv, walk # Nil, Return PROVE walk' \in {Callback, Nil} /\ replying' = FALSE
<1>1. dl_callbacks.next \in [{Callback} -> {Callback} \cup {Nil}] /\ walk = Callback
  BY DEF RestInv, List!Lists
<1> QED
  BY <1>1 DEF Return

\* Every step keeps the types.
LEMMA RestStep == MessageInv /\ RestInv /\ [Next]_vars => RestInv'
<1> SUFFICES ASSUME MessageInv, RestInv, [Next]_vars PROVE RestInv'
  OBVIOUS
<1> USE DEF session, callback, loopState, radio, history, unchangedBySend, unchangedBySkip,
            unchangedByCallback
<1>0. JoinAttempts \in Nat \ {0}
  BY MainAssumption
<1>1. CASE Boot \/ Loop \/ SetupFails
  BY <1>1 DEF RestInv, Boot, Loop, SetupFails
<1>2. CASE SetupStarts
  <2>1. dl_callbacks' \in List!Lists
    BY <1>2, AppendTyped DEF RestInv, SetupStarts
  <2> QED
    BY <1>0, <1>2, <2>1 DEF RestInv, SetupStarts
<1>3. CASE JoinFails
  <2>1. /\ join_attempts' \in 0..JoinAttempts
        /\ pc' = "join" => join_attempts' < JoinAttempts
        /\ pc' \in {"wait", "join"}
    BY <1>0, <1>3 DEF RestInv, JoinFails
  <2> QED
    BY <1>3, <2>1 DEF RestInv, JoinFails
<1>15. CASE JoinSucceeds
  BY <1>15 DEF RestInv, JoinSucceeds
<1>c. After \in Nat /\ \A force \in BOOLEAN :
                         Delivered(force) => unconfirmed_packets' \in 0..After
  <2>1. After \in Nat
    BY MainAssumption
  <2>2. ASSUME NEW force \in BOOLEAN, Delivered(force) PROVE unconfirmed_packets' \in 0..After
    <3>1. unconfirmed_packets' \in NextCounts
      BY <2>2, Zenon DEF Delivered
    <3>2. NextCounts \subseteq 0..After
      BY <2>1 DEF NextCounts, RestInv
    <3> QED
      BY <3>1, <3>2
  <2> QED
    BY <2>1, <2>2
<1>4. CASE StartupSent \/ StartupFails \/ NoStartup
  <2>1. unconfirmed_packets' \in 0..After
    BY <1>4, <1>c, Zenon DEF RestInv, StartupSent, StartupFails, NoStartup, NotDelivered
  <2> QED
    BY <1>4, <2>1 DEF RestInv, StartupSent, StartupFails, NoStartup
<1>5. CASE UptimeSent \/ UptimeFails \/ NoUptime \/ ClearUptime
  <2>1. unconfirmed_packets' \in 0..After
    BY <1>5, <1>c, Zenon DEF RestInv, UptimeSent, UptimeFails, NoUptime, ClearUptime, NotDelivered
  <2> QED
    BY <1>5, <2>1 DEF RestInv, UptimeSent, UptimeFails, NoUptime, ClearUptime
<1>6. CASE ReadingsSent \/ ReadingsFail
  <2>1. unconfirmed_packets' \in 0..After
    BY <1>6, <1>c, Zenon DEF RestInv, ReadingsSent, ReadingsFail, NotDelivered
  <2> QED
    BY <1>6, <2>1 DEF RestInv, ReadingsSent, ReadingsFail
<1>7. CASE Wait \/ Wake
  BY <1>7 DEF RestInv, Wait, Wake, ConsiderDead
<1>8. CASE Downlink
  <2>1. walk' \in {Callback, Nil}
    BY <1>8 DEF Downlink, RestInv, List!Lists
  <2> QED
    BY <1>8, <2>1 DEF RestInv, Downlink
<1>9. CASE LinkChanges
  BY <1>9 DEF RestInv, LinkChanges
<1>10. CASE CallbackElsewhere \/ CallbackClear \/ CallbackUptime \/ CallbackReplied
  <2>1. walk' \in {Callback, Nil} /\ replying' = FALSE
    BY <1>10, ReturnTyped DEF CallbackElsewhere, CallbackClear, CallbackUptime, CallbackReplied, Called
  <2>2. unconfirmed_packets' \in 0..After
    BY <1>10, Zenon DEF RestInv, CallbackElsewhere, CallbackClear, CallbackUptime, CallbackReplied
  <2>3. CASE CallbackElsewhere
    BY <2>1, <2>2, <2>3 DEF RestInv, CallbackElsewhere
  <2>6. CASE CallbackClear
    <3>1. stored' \in BOOLEAN
      BY <2>6, Zenon DEF CallbackClear, RestInv
    <3> QED
      BY <2>1, <2>2, <2>6, <3>1 DEF RestInv, CallbackClear
  <2>4. CASE CallbackUptime
    BY <2>1, <2>2, <2>4 DEF RestInv, CallbackUptime
  <2>5. CASE CallbackReplied
    BY <2>1, <2>2, <2>5 DEF RestInv, CallbackReplied
  <2> QED
    BY <1>10, <2>3, <2>4, <2>5, <2>6
<1>11. CASE CallbackInterval
  <2>1. walk' \in {Callback, Nil} /\ replying' = FALSE
    BY <1>11, ReturnTyped DEF CallbackInterval, Called
  <2>2. dl.value \in Intervals
    BY <1>11 DEF CallbackInterval, Called, MessageInv, Messages, None
  <2>3. sensor_reading_time' \in Intervals \cup {DefaultReadingTime}
    BY <1>11, <2>2, Zenon DEF CallbackInterval, RestInv
  <2> QED
    BY <1>11, <2>1, <2>3, Zenon DEF RestInv, CallbackInterval
<1>12. CASE CallbackUnknown
  BY <1>12 DEF RestInv, CallbackUnknown
<1>13. CASE StartOver
  <2>1. dl_callbacks' \in List!Lists
    BY <1>13 DEF StartOver, List!EmptyList, List!Lists
  <2>2. join_attempts' \in 0..JoinAttempts /\ pc' = "boot" /\ unconfirmed_packets' \in 0..After
    BY <1>0, <1>c, <1>13 DEF StartOver
  <2>3. sensor_reading_time' \in Intervals \cup {DefaultReadingTime}
    BY <1>13, Zenon DEF StartOver
  <2> QED
    BY <1>13, <2>1, <2>2, <2>3, Zenon DEF RestInv, StartOver
<1>14. CASE UNCHANGED vars
  BY <1>14 DEF RestInv, vars
<1> QED
  BY <1>1, <1>2, <1>3, <1>4, <1>5, <1>6, <1>7, <1>8, <1>9, <1>10, <1>11, <1>12, <1>13,
     <1>14, <1>15, Steps, Zenon DEF Main, lora_setup, Beside

\* The variables keep their types, whatever downlinks arrive and however often the node
\* is registered: the list it becomes may be circular, but it is a list of that node.
THEOREM Typing == Spec => []TypeOK
<1>1. Init => RestInv
  <2> SUFFICES ASSUME Init PROVE RestInv
    OBVIOUS
  <2>1. dl_callbacks \in List!Lists
    BY DEF Init, Volatile, List!EmptyList, List!Lists
  <2>2. join_attempts \in 0..JoinAttempts /\ pc = "boot" /\ unconfirmed_packets \in 0..After
    BY MainAssumption DEF Init, Volatile
  <2>3. sensor_reading_time \in Intervals \cup {DefaultReadingTime}
    BY Zenon DEF Init, Volatile
  <2> QED
    BY <2>1, <2>2, <2>3, Zenon DEF Init, Volatile, RestInv
<1>2. IInv /\ RestInv /\ [Next]_vars => RestInv'
  BY RestStep DEF IInv
<1>3. Spec => []RestInv
  BY Invariance, <1>1, <1>2, PTL DEF Spec
<1>4. IInv /\ RestInv => TypeOK
  <2> SUFFICES ASSUME IInv, RestInv PROVE TypeOK
    OBVIOUS
  <2>1. FailLimit \in 1..50
    BY MainAssumption
  <2>2. failed_messages \in 0..255
    BY <2>1 DEF IInv, FailInv
  <2> QED
    BY <2>2 DEF IInv, SessionInv, ClockInv, MessageInv, UptimeInv, RestInv, TypeOK
<1> QED
  BY Invariance, <1>3, <1>4, PTL

\* The uint8_t failure count stays within two of its limit, which it respects asleep.
THEOREM FailuresAreBounded == Spec => []FailuresBounded
<1>1. IInv => FailuresBounded
  <2>1. FailLimit \in 1..50
    BY MainAssumption
  <2> QED
    BY <2>1 DEF IInv, FailInv, FailuresBounded
<1> QED
  BY Invariance, <1>1, PTL

\* No report leaves in a session without its start-up message.
THEOREM StartupComesFirst == Spec => []StartupFirst
<1>1. IInv => StartupFirst
  BY DEF IInv, SessionInv, StartupFirst
<1> QED
  BY Invariance, <1>1, PTL

\* The clock is not kept on over a sleep.
THEOREM ClockIsReleased == Spec => []ClockReleased
<1>1. IInv => ClockReleased
  BY DEF IInv, ClockInv, ClockReleased
<1> QED
  BY Invariance, <1>1, PTL

\* Whatever the downlinks, main sleeps between 30 s and 2 h.
THEOREM IntervalStaysInRange == Spec => []IntervalInRange
<1>1. IInv => IntervalInRange
  BY DEF IInv
<1> QED
  BY Invariance, <1>1, PTL

\* Without keys in RAM and in flash there is no session and no join.
THEOREM ClearedDevicesStayOff == Spec => []ClearedStaysOff
<1>1. IInv => ClearedStaysOff
  BY DEF IInv, SessionInv, ClearedStaysOff
<1> QED
  BY Invariance, <1>1, PTL

\* However uplinks fail and sessions end, a request of the uptime that no uplink has carried
\* keeps its flag: only main's clearing behind such an uplink, and a reset, take the flag away.
THEOREM RequestIsKept == Spec => []RequestKept
<1>1. IInv => RequestKept
  BY DEF IInv, UptimeInv, RequestKept
<1> QED
  BY Invariance, <1>1, PTL
==============================================================================
