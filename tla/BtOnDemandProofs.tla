-------------------------- MODULE BtOnDemandProofs --------------------------
(* Proofs about BtOnDemand for any number of prompts.                       *)
EXTENDS BtOnDemand, TLAPS

\* The work queue holds each item once at most.
QueueInv ==
  /\ wq \in Seq(Items)
  /\ \A i, j \in 1..Len(wq) : wq[i] = wq[j] => i = j

\* The threads are somewhere.
PlaceInv ==
  /\ work \in Items \cup {"prompted", "idle"}
  /\ bt \in {"idle", "connected", "established", "disconnected", "ended", "do_advert", "submit"}
  /\ remote \in {"idle", "stop", "disconnect"}
  /\ link \in {"free", "up", "down"}
  /\ target \in {"none", "conn", "null"}
  /\ prompts \in 0..MaxPrompts

FlagInv ==
  /\ continue_advert \in BOOLEAN /\ in_connection \in BOOLEAN /\ active_conn \in BOOLEAN
  /\ timer \in BOOLEAN /\ led \in BOOLEAN /\ advertising \in BOOLEAN /\ ended \in BOOLEAN

\* The connection and its two flags at each point of the callbacks: they agree but while a
\* callback sets or resets them, one after the other.  While the device advertises there is
\* no connection.
ConnectionInv ==
  /\ bt \in {"idle", "do_advert", "submit"} =>
       (in_connection <=> link = "up") /\ (active_conn <=> link = "up")
  /\ bt = "connected" => link = "up" /\ ~in_connection
  /\ bt = "established" => link = "up" /\ ~in_connection /\ active_conn
  /\ bt = "disconnected" => link = "down" /\ in_connection /\ active_conn
  /\ bt = "ended" => link = "down" /\ ~in_connection
  /\ advertising => link = "free"

\* bluetooth_remote is past its test, and the connection it tested is there unless it ended.
TargetInv ==
  /\ remote = "disconnect" /\ ~ended => in_connection
  /\ target = "null" => ended

IInv == QueueInv /\ PlaceInv /\ FlagInv /\ ConnectionInv /\ TargetInv /\ WindowTimed

\* Three kinds of item fill three places.
LEMMA QueueShort == QueueInv => wq \in SeqOf(Items, 3)
<1> SUFFICES ASSUME QueueInv PROVE wq \in SeqOf(Items, 3)
  OBVIOUS
<1>1. Len(wq) \in Nat /\ wq \in [1..Len(wq) -> Items]
  BY DEF QueueInv
<1>2. Len(wq) <= 3
  <2> SUFFICES ASSUME Len(wq) >= 4 PROVE FALSE
    BY <1>1
  <2>1. \A i \in 1..4 : wq[i] \in {"advertise", "stop", "button"}
    BY <1>1 DEF Items
  <2>2. \A i, j \in 1..4 : wq[i] = wq[j] => i = j
    BY <1>1 DEF QueueInv
  <2> QED
    BY <2>1, <2>2
<1> QED
  BY <1>1, <1>2 DEF SeqOf

LEMMA SubmitKeeps ==
  ASSUME QueueInv, NEW item \in Items, Submit(item)
  PROVE  QueueInv'
<1>1. CASE Contains(wq, item)
  BY <1>1 DEF Submit, QueueInv
<1>2. CASE ~Contains(wq, item)
  <2>1. wq' = Append(wq, item) /\ \A i \in 1..Len(wq) : wq[i] # item
    BY <1>2 DEF Submit, Contains, QueueInv
  <2>2. /\ wq' \in Seq(Items) /\ Len(wq') = Len(wq) + 1 /\ Len(wq) \in Nat
        /\ wq'[Len(wq) + 1] = item
        /\ \A i \in 1..Len(wq) : wq'[i] = wq[i]
    BY <2>1 DEF QueueInv
  <2>3. \A i \in 1..Len(wq') : i \in 1..Len(wq) \/ i = Len(wq) + 1
    BY <2>2
  <2> QED
    BY <2>1, <2>2, <2>3 DEF QueueInv
<1> QED
  BY <1>1, <1>2

LEMMA QueueStep == QueueInv /\ [Next]_vars => QueueInv'
<1> SUFFICES ASSUME QueueInv, [Next]_vars PROVE QueueInv'
  OBVIOUS
<1>1. CASE UNCHANGED wq
  BY <1>1 DEF QueueInv
<1>2. CASE \E item \in Items : Submit(item)
  BY <1>2, SubmitKeeps
<1>3. CASE WorkTake
  <2>1. wq # <<>> /\ wq' = Tail(wq)
    BY <1>3 DEF WorkTake
  <2>2. /\ wq' \in Seq(Items) /\ Len(wq') = Len(wq) - 1 /\ Len(wq) \in Nat
        /\ \A i \in 1..Len(wq') : wq'[i] = wq[i + 1]
    BY <2>1 DEF QueueInv
  <2>3. \A i \in 1..Len(wq') : i + 1 \in 1..Len(wq)
    BY <2>2
  <2>4. \A i, j \in 1..Len(wq') : wq'[i] = wq'[j] => i + 1 = j + 1
    BY <2>2, <2>3 DEF QueueInv
  <2> QED
    BY <2>2, <2>4 DEF QueueInv
<1>4. \/ UNCHANGED wq \/ (\E item \in Items : Submit(item)) \/ WorkTake
  BY DEF Next, Pressed, TimerExpires, RemoteStop, RemoteDisconnect, bluetooth_remote,
         RemoteStopSubmit, RemoteDisconnects, work_queue, WorkAdvertise, WorkStop, WorkButton,
         WorkPrompted, PeerConnects, LinkEnds, Recycled, conn_callbacks, Connected,
         Disconnected, DoAdvertTest, DoAdvertSubmit, Items, vars
<1> QED
  BY <1>1, <1>2, <1>3, <1>4

LEMMA PlaceStep == QueueInv /\ PlaceInv /\ [Next]_vars => PlaceInv'
<1> SUFFICES ASSUME QueueInv, PlaceInv, [Next]_vars PROVE PlaceInv'
  OBVIOUS
<1> USE BtAssumption DEF PlaceInv, Prompt, flags, stack, hangup, advertise
<1>1. CASE Pressed \/ TimerExpires \/ RemoteStop \/ RemoteDisconnect \/ bluetooth_remote
  BY <1>1 DEF Pressed, TimerExpires, RemoteStop, RemoteDisconnect, bluetooth_remote,
              RemoteStopSubmit, RemoteDisconnects
<1>2. CASE WorkTake
  <2>1. Head(wq) \in Items
    BY <1>2 DEF WorkTake, QueueInv
  <2> QED
    BY <1>2, <2>1 DEF WorkTake
<1>3. CASE WorkAdvertise \/ WorkStop \/ WorkButton \/ WorkPrompted
  BY <1>3 DEF WorkAdvertise, WorkStop, WorkButton, WorkPrompted
<1>4. CASE PeerConnects \/ LinkEnds \/ Recycled
  BY <1>4 DEF PeerConnects, LinkEnds, Recycled
<1>5. CASE conn_callbacks
  BY <1>5 DEF conn_callbacks, Connected, Disconnected, DoAdvertTest, DoAdvertSubmit
<1>6. CASE UNCHANGED vars
  BY <1>6 DEF vars
<1> QED
  BY <1>1, <1>2, <1>3, <1>4, <1>5, <1>6 DEF Next, work_queue

LEMMA FlagStep == FlagInv /\ [Next]_vars => FlagInv'
<1> SUFFICES ASSUME FlagInv, [Next]_vars PROVE FlagInv'
  OBVIOUS
<1> USE DEF FlagInv, flags, stack, hangup, advertise
<1>1. CASE Pressed \/ RemoteDisconnect \/ bluetooth_remote
  BY Zenon, <1>1 DEF Pressed, RemoteDisconnect, bluetooth_remote, RemoteStopSubmit, RemoteDisconnects
<1>2. CASE TimerExpires \/ RemoteStop
  BY Zenon, <1>2 DEF TimerExpires, RemoteStop
<1>3. CASE WorkTake \/ WorkAdvertise \/ WorkStop \/ WorkPrompted
  BY Zenon, <1>3 DEF WorkTake, WorkAdvertise, WorkStop, WorkPrompted
<1>4. CASE WorkButton
  BY Zenon, <1>4 DEF WorkButton
<1>5. CASE PeerConnects \/ LinkEnds \/ Recycled
  BY Zenon, <1>5 DEF PeerConnects, LinkEnds, Recycled
<1>6. CASE Connected \/ Disconnected
  BY Zenon, <1>6 DEF Connected, Disconnected
<1>7. CASE DoAdvertTest \/ DoAdvertSubmit
  BY Zenon, <1>7 DEF DoAdvertTest, DoAdvertSubmit
<1>8. CASE UNCHANGED vars
  BY Zenon, <1>8 DEF vars
<1> QED
  BY <1>1, <1>2, <1>3, <1>4, <1>5, <1>6, <1>7, <1>8 DEF Next, work_queue, conn_callbacks

LEMMA ConnectionStep == PlaceInv /\ ConnectionInv /\ [Next]_vars => ConnectionInv'
<1> SUFFICES ASSUME PlaceInv, ConnectionInv, [Next]_vars PROVE ConnectionInv'
  OBVIOUS
<1>0. bt \in {"idle", "connected", "established", "disconnected", "ended", "do_advert", "submit"}
  BY DEF PlaceInv
<1>1. CASE /\ UNCHANGED <<in_connection, active_conn, link, bt>>
           /\ advertising' => advertising \/ link = "free"
  BY <1>1 DEF ConnectionInv
<1>2. CASE PeerConnects
  <2>1. /\ bt = "idle" /\ advertising /\ ~advertising' /\ UNCHANGED <<in_connection, active_conn>>
        /\ \/ link' = "up" /\ bt' = "connected"
           \/ link' = link /\ bt' = "do_advert"
    BY <1>2 DEF PeerConnects, flags
  <2> QED
    BY <2>1 DEF ConnectionInv
<1>3. CASE LinkEnds \/ Recycled
  BY <1>3 DEF LinkEnds, Recycled, ConnectionInv, flags
<1>4. CASE Connected
  BY <1>4 DEF Connected, ConnectionInv, stack
<1>5. CASE Disconnected
  BY <1>5 DEF Disconnected, ConnectionInv, stack
<1>6. CASE DoAdvertTest \/ DoAdvertSubmit
  BY <1>6 DEF DoAdvertTest, DoAdvertSubmit, ConnectionInv, flags, stack
<1>7. CASE work_queue
  <2>1. UNCHANGED <<in_connection, active_conn, link, bt>>
    BY <1>7 DEF work_queue, WorkTake, WorkAdvertise, WorkStop, WorkButton, WorkPrompted,
       advertise, flags, stack
  <2>2. advertising' => advertising \/ link = "free"
    BY <1>7, Zenon DEF work_queue, WorkTake, WorkAdvertise, WorkStop, WorkButton, WorkPrompted,
       advertise, stack
  <2> QED
    BY <1>1, <2>1, <2>2
<1> QED
  BY <1>1, <1>2, <1>3, <1>4, <1>5, <1>6, <1>7 DEF Next, Pressed, TimerExpires, RemoteStop,
     RemoteDisconnect, bluetooth_remote, RemoteStopSubmit, RemoteDisconnects, conn_callbacks,
     flags, stack, vars

LEMMA TargetStep == PlaceInv /\ ConnectionInv /\ TargetInv /\ [Next]_vars => TargetInv'
<1> SUFFICES ASSUME PlaceInv, ConnectionInv, TargetInv, [Next]_vars PROVE TargetInv'
  OBVIOUS
<1>0. in_connection => active_conn
  BY DEF PlaceInv, ConnectionInv
<1>1. CASE UNCHANGED <<in_connection, remote, hangup>>
  BY <1>1 DEF TargetInv, hangup
<1>2. CASE RemoteStop \/ RemoteStopSubmit
  BY <1>2 DEF RemoteStop, RemoteStopSubmit, TargetInv, hangup, flags
<1>3. CASE RemoteDisconnect
  BY <1>3 DEF RemoteDisconnect, TargetInv, flags
<1>4. CASE RemoteDisconnects
  BY <1>0, <1>4 DEF RemoteDisconnects, TargetInv
<1>5. CASE Connected
  BY <1>5 DEF Connected, TargetInv, hangup
<1>6. CASE Disconnected
  BY <1>6 DEF Disconnected, TargetInv, hangup
<1> QED
  BY <1>1, <1>2, <1>3, <1>4, <1>5, <1>6 DEF Next, Pressed, TimerExpires, bluetooth_remote,
     work_queue, WorkTake, WorkAdvertise, WorkStop, WorkButton, WorkPrompted, PeerConnects,
     LinkEnds, Recycled, conn_callbacks, DoAdvertTest, DoAdvertSubmit, flags, hangup, vars

LEMMA TimedStep == WindowTimed /\ [Next]_vars => WindowTimed'
<1> SUFFICES ASSUME WindowTimed, [Next]_vars PROVE WindowTimed'
  OBVIOUS
<1> USE DEF WindowTimed, flags
<1>1. CASE Pressed \/ RemoteDisconnect \/ bluetooth_remote
  BY Zenon, <1>1 DEF Pressed, RemoteDisconnect, bluetooth_remote, RemoteStopSubmit, RemoteDisconnects
<1>2. CASE TimerExpires \/ RemoteStop
  BY Zenon, <1>2 DEF TimerExpires, RemoteStop
<1>3. CASE WorkTake \/ WorkAdvertise \/ WorkStop \/ WorkPrompted
  BY Zenon, <1>3 DEF WorkTake, WorkAdvertise, WorkStop, WorkPrompted
<1>4. CASE WorkButton
  BY Zenon, <1>4 DEF WorkButton
<1>5. CASE PeerConnects \/ LinkEnds \/ Recycled
  BY Zenon, <1>5 DEF PeerConnects, LinkEnds, Recycled
<1>6. CASE Connected \/ Disconnected
  BY Zenon, <1>6 DEF Connected, Disconnected
<1>7. CASE DoAdvertTest \/ DoAdvertSubmit
  BY Zenon, <1>7 DEF DoAdvertTest, DoAdvertSubmit
<1>8. CASE UNCHANGED vars
  BY Zenon, <1>8 DEF vars
<1> QED
  BY <1>1, <1>2, <1>3, <1>4, <1>5, <1>6, <1>7, <1>8 DEF Next, work_queue, conn_callbacks

\* The invariant holds through any presses, downlinks, expiries and connections.
THEOREM Invariance == Spec => []IInv
<1>1. Init => IInv
  <2> SUFFICES ASSUME Init PROVE IInv
    OBVIOUS
  <2>1. QueueInv /\ PlaceInv
    BY BtAssumption DEF Init, QueueInv, PlaceInv
  <2>2. FlagInv /\ WindowTimed
    BY Zenon DEF Init, FlagInv, WindowTimed
  <2>3. ConnectionInv /\ TargetInv
    BY DEF Init, ConnectionInv, TargetInv
  <2> QED
    BY <2>1, <2>2, <2>3 DEF IInv
<1>2. IInv /\ [Next]_vars => IInv'
  BY QueueStep, PlaceStep, FlagStep, ConnectionStep, TargetStep, TimedStep DEF IInv
<1> QED
  BY <1>1, <1>2, PTL DEF Spec

\* The variables keep their types; the work queue never holds an item twice.
THEOREM Typing == Spec => []TypeOK
<1>1. IInv => TypeOK
  BY QueueShort DEF IInv, PlaceInv, FlagInv, TypeOK
<1> QED
  BY Invariance, <1>1, PTL

\* The two flags of the connection, and what bt_conn_disconnect is given between them.
THEOREM ConnectionIsKnown == Spec => []ConnectionKnown
<1>1. IInv => ConnectionKnown
  BY DEF IInv, PlaceInv, ConnectionInv, TargetInv, ConnectionKnown
<1> QED
  BY Invariance, <1>1, PTL

\* An open window has its timer running.
THEOREM WindowIsTimed == Spec => []WindowTimed
<1>1. IInv => WindowTimed
  BY DEF IInv
<1> QED
  BY Invariance, <1>1, PTL
=============================================================================
