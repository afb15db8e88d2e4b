------------------------------ MODULE BtBonds ------------------------------
(***************************************************************************)
(* app/src/bluetooth.c as garage.conf builds it: always advertising, with  *)
(* BT_SMP.  Advertising is open while the bond table has room and limited  *)
(* to the accept list when it is full; a peer that reaches security level  *)
(* 4, or reads the characteristic at that level, works the garage door.    *)
(* Main (at boot), the system work queue (advertise_work, and the garage's *)
(* button) and the LoRa downlink callback run advertise, which counts the  *)
(* bonds into a variable they share without a lock.  The stack (external)  *)
(* has one connection object, keeps the bonds in flash and, for all that   *)
(* is assumed here, any number of them.  Where advertise fails it calls    *)
(* watchdog_fatal, which does nothing, as nothing started the watchdog     *)
(* (Watchdog).                                                             *)
(***************************************************************************)
EXTENDS FiniteSets, Naturals

CONSTANTS
  Peers,
  NoPeer,
  MaxPaired   \* CONFIG_BT_MAX_PAIRED

ASSUME BondsAssumption ==
  /\ IsFiniteSet(Peers) /\ NoPeer \notin Peers
  /\ MaxPaired \in Nat \ {0}

Threads == {"main", "wq", "lora"}

VARIABLES
  bonds, in_connection,
  submitted,   \* is advertise_work in the system work queue
  at,          \* where each thread is: outside, or in one of the functions below
  callback,    \* the callback that the stack's thread is about to run
  door_sem,    \* the request for the door (garage.c)
  overlapped,  \* history: did a thread or a pairing ever overlap another thread's work
  bonded,      \* the bond table in flash (external)
  accept,      \* the filter accept list (external)
  adv,         \* "off", "open" or "filter" (external)
  link,        \* the connection object: "free", "up", "ending", "down" (external)
  peer,        \* whose connection it is (external)
  level,       \* bt_conn_get_security (external)
  pairing      \* was its pairing accepted (external)

app == <<bonds, in_connection, submitted, at, callback, door_sem, overlapped>>
conn == <<link, peer, level, pairing>>
vars == <<app, bonded, accept, adv, conn>>

Inside == {"disconnect", "clear", "hangup", "stop", "unpair", "zero", "count", "start"}

\* Type invariant.
TypeOK ==
  /\ bonds \in Nat /\ in_connection \in BOOLEAN /\ submitted \in BOOLEAN
  /\ at \in [Threads -> Inside \cup {"out"}]
  /\ callback \in {"none", "failed", "connected", "disconnected"}
  /\ door_sem \in 0..1 /\ overlapped \in BOOLEAN
  /\ bonded \subseteq Peers /\ accept \subseteq Peers
  /\ adv \in {"off", "open", "filter"}
  /\ link \in {"free", "up", "ending", "down"}
  /\ peer \in Peers \cup {NoPeer} /\ level \in {1, 2, 4} /\ pairing \in BOOLEAN

Init ==
  /\ bonds = 0 /\ in_connection = FALSE /\ submitted = FALSE
  /\ at = [t \in Threads |-> IF t = "main" THEN "zero" ELSE "out"]
  /\ callback = "none" /\ door_sem = 0 /\ overlapped = FALSE
  /\ bonded = {} /\ accept = {} /\ adv = "off"
  /\ link = "free" /\ peer = NoPeer /\ level = 1 /\ pairing = FALSE

Goto(t, label) == at' = [at EXCEPT ![t] = label]

Overlap == overlapped' = (overlapped \/ \E t \in Threads : at[t] # "out")

\* a thread begins bluetooth_clear_bonds or advertise
Enter(t, label) == at[t] = "out" /\ Goto(t, label) /\ Overlap

\* bt_conn_disconnect: the stack ends the connection later
Ended == IF link = "up" THEN "ending" ELSE link
----------------------------------------------------------------------------
MutantCountKept(t) ==
  /\ at[t] = "zero" /\ Goto(t, "count")
  /\ accept' = {}
  /\ UNCHANGED <<bonds, in_connection, submitted, callback, door_sem, overlapped,
                 bonded, adv, conn>>

\* advertise: bonds = 0, bt_le_filter_accept_list_clear ...
AdvertiseZero(t) ==
  /\ at[t] = "zero" /\ Goto(t, "count")
  /\ bonds' = 0 /\ accept' = {}
  /\ UNCHANGED <<in_connection, submitted, callback, door_sem, overlapped,
                 bonded, adv, conn>>

\* ... bt_foreach_bond with bond_loop ...
AdvertiseCount(t) ==
  /\ at[t] = "count" /\ Goto(t, "start")
  /\ bonds' = bonds + Cardinality(bonded)
  /\ accept' = accept \cup bonded
  /\ UNCHANGED <<in_connection, submitted, callback, door_sem, overlapped,
                 bonded, adv, conn>>

\* ... and bt_le_adv_start, which fails while it advertises or the connection object is
\* in use
AdvertiseStart(t) ==
  /\ at[t] = "start" /\ Goto(t, "out")
  /\ IF adv = "off" /\ link = "free"
     THEN adv' = IF bonds = MaxPaired THEN "filter" ELSE "open"
     ELSE UNCHANGED adv
  /\ UNCHANGED <<bonds, in_connection, submitted, callback, door_sem, overlapped,
                 bonded, accept, conn>>

\* bluetooth_clear_bonds: the test of in_connection ...
ClearTest(t) ==
  /\ at[t] = "clear" /\ Goto(t, IF in_connection THEN "hangup" ELSE "stop")
  /\ UNCHANGED <<bonds, in_connection, submitted, callback, door_sem, overlapped,
                 bonded, accept, adv, conn>>

\* bt_conn_disconnect(active_conn), here and in bluetooth_remote: the connection that was
\* tested, one that came since, or NULL, of which an error is assumed
HangUp(t) ==
  /\ \/ at[t] = "disconnect" /\ Goto(t, "clear")
     \/ at[t] = "hangup" /\ Goto(t, "unpair")
  /\ link' = IF in_connection THEN Ended ELSE link
  /\ UNCHANGED <<bonds, in_connection, submitted, callback, door_sem, overlapped,
                 bonded, accept, adv, peer, level, pairing>>

\* ... or bt_le_adv_stop, whoever may have connected since the test ...
ClearStop(t) ==
  /\ at[t] = "stop" /\ Goto(t, "unpair")
  /\ adv' = "off"
  /\ UNCHANGED <<bonds, in_connection, submitted, callback, door_sem, overlapped,
                 bonded, accept, conn>>

\* ... bt_unpair, which also ends the connection of a bonded peer, then advertise
ClearUnpair(t) ==
  /\ at[t] = "unpair" /\ Goto(t, "zero")
  /\ bonded' = {}
  /\ link' = IF peer \in bonded THEN Ended ELSE link
  /\ UNCHANGED <<bonds, in_connection, submitted, callback, door_sem, overlapped,
                 accept, adv, peer, level, pairing>>

advertise(t) == AdvertiseZero(t) \/ AdvertiseCount(t) \/ AdvertiseStart(t)
bluetooth_clear_bonds(t) == ClearTest(t) \/ HangUp(t) \/ ClearStop(t) \/ ClearUnpair(t)
----------------------------------------------------------------------------
\* the work queue takes advertise_work, or the button's, which clears the bonds
WorkAdvertise ==
  /\ at["main"] = "out" /\ submitted /\ submitted' = FALSE
  /\ Enter("wq", "zero")
  /\ UNCHANGED <<bonds, in_connection, callback, door_sem, bonded, accept, adv, conn>>

WorkButton ==
  /\ at["main"] = "out" /\ Enter("wq", "clear")
  /\ UNCHANGED <<bonds, in_connection, submitted, callback, door_sem,
                 bonded, accept, adv, conn>>

\* bluetooth_remote(BLUETOOTH_REMOTE_OP_ADVERT_CLEAR_BONDS)
RemoteClear ==
  /\ at["main"] = "out" /\ Enter("lora", "clear")
  /\ UNCHANGED <<bonds, in_connection, submitted, callback, door_sem,
                 bonded, accept, adv, conn>>

\* bluetooth_remote(BLUETOOTH_REMOTE_OP_ADVERT_DISCONNECT): the test; past the disconnection
\* it falls through to the clearing
RemoteDisconnect ==
  /\ at["main"] = "out" /\ in_connection /\ Enter("lora", "disconnect")
  /\ UNCHANGED <<bonds, in_connection, submitted, callback, door_sem, bonded, accept, adv, conn>>
----------------------------------------------------------------------------
\* A peer connects (external): anyone, or one of the accept list; or fails to.
PeerConnects ==
  /\ callback = "none" /\ adv # "off" /\ link = "free"
  /\ \E p \in Peers :
       /\ adv = "filter" => p \in accept
       /\ \/ link' = "up" /\ peer' = p /\ callback' = "connected"
          \/ callback' = "failed" /\ UNCHANGED <<link, peer>>
  /\ adv' = "off"
  /\ UNCHANGED <<bonds, in_connection, submitted, at, door_sem, overlapped,
                 bonded, accept, level, pairing>>

\* connected with an error
ConnectFailed ==
  /\ callback = "failed" /\ callback' = "none"
  /\ submitted' = TRUE
  /\ UNCHANGED <<bonds, in_connection, at, door_sem, overlapped,
                 bonded, accept, adv, conn>>

\* connected, which sets active_conn with in_connection, as disconnected resets both (their
\* order is BtOnDemand's): the search for the peer among the bonds has no effect; then
\* bt_conn_set_security, whose failure disconnects
Connected ==
  /\ callback = "connected" /\ callback' = "none"
  /\ in_connection' = TRUE
  /\ link' \in {link, Ended}
  /\ UNCHANGED <<bonds, submitted, at, door_sem, overlapped,
                 bonded, accept, adv, peer, level, pairing>>

\* The connection is over (external), by either side or out of reach.
LinkEnds ==
  /\ callback = "none" /\ link \in {"up", "ending"}
  /\ link' = "down" /\ callback' = "disconnected"
  /\ level' = 1 /\ pairing' = FALSE
  /\ UNCHANGED <<bonds, in_connection, submitted, at, door_sem, overlapped,
                 bonded, accept, adv, peer>>

MutantDisconnected ==
  /\ callback = "disconnected" /\ callback' = "none"
  /\ in_connection' = FALSE
  /\ UNCHANGED <<bonds, submitted, at, door_sem, overlapped, bonded, accept, adv, conn>>

\* disconnected, and do_advert
Disconnected ==
  /\ callback = "disconnected" /\ callback' = "none"
  /\ in_connection' = FALSE /\ submitted' = TRUE
  /\ UNCHANGED <<bonds, at, door_sem, overlapped, bonded, accept, adv, conn>>

\* The stack recycles the connection object (external); this build has no callback for it.
Recycled ==
  /\ callback = "none" /\ link = "down"
  /\ link' = "free" /\ peer' = NoPeer
  /\ UNCHANGED <<app, bonded, accept, adv, level, pairing>>
----------------------------------------------------------------------------
\* k_sem_give(&door_sem) of bluetooth_security_changed at level 4 only
security_changed(l) == level' = l /\ door_sem' = IF l = 4 THEN 1 ELSE door_sem

\* A bonded peer encrypts the connection with its key (external).
Encrypted ==
  /\ callback = "none" /\ link = "up" /\ in_connection /\ peer \in bonded
  /\ \E l \in {2, 4} : security_changed(l)
  /\ UNCHANGED <<bonds, in_connection, submitted, at, callback, overlapped,
                 bonded, accept, adv, link, peer, pairing>>

\* A peer asks to pair: auth_pairing_accept; a refusal ends in pairing_failed.
auth_pairing_accept ==
  /\ callback = "none" /\ link = "up" /\ in_connection /\ ~pairing
  /\ IF bonds = MaxPaired
     THEN link' = "ending" /\ UNCHANGED pairing
     ELSE pairing' = TRUE /\ UNCHANGED link
  /\ UNCHANGED <<app, bonded, accept, adv, peer, level>>

\* auth_pairing_confirm cancels above the limit (and then confirms what it cancelled);
\* pairing_failed disconnects.
PairingFails ==
  /\ callback = "none" /\ link = "up" /\ pairing
  /\ pairing' = FALSE /\ link' = "ending"
  /\ UNCHANGED <<app, bonded, accept, adv, peer, level>>

\* Pairing succeeds, where auth_pairing_confirm was not asked or did not cancel; the
\* stack stores the bond.
PairingSucceeds ==
  /\ callback = "none" /\ link = "up" /\ pairing
  /\ pairing' = FALSE
  /\ bonded' = bonded \cup {peer}
  /\ \E l \in {2, 4} : security_changed(l)
  /\ Overlap
  /\ UNCHANGED <<bonds, in_connection, submitted, at, callback,
                 accept, adv, link, peer>>

MutantReadUnchecked ==
  /\ callback = "none" /\ link \in {"up", "ending"} /\ in_connection
  /\ door_sem' = 1
  /\ UNCHANGED <<bonds, in_connection, submitted, at, callback, overlapped,
                 bonded, accept, adv, conn>>

\* read_u8: bluetooth_garage_characteristic_written; below level 4 an error
read_u8 ==
  /\ callback = "none" /\ link \in {"up", "ending"} /\ in_connection /\ level = 4
  /\ door_sem' = 1
  /\ UNCHANGED <<bonds, in_connection, submitted, at, callback, overlapped,
                 bonded, accept, adv, conn>>

\* the door thread takes the request (garage.c)
DoorTake ==
  /\ door_sem = 1 /\ door_sem' = 0
  /\ UNCHANGED <<bonds, in_connection, submitted, at, callback, overlapped,
                 bonded, accept, adv, conn>>

\* The device starts again; the bonds are in flash.  (A reset during the boot, which only
\* writes RAM, begins the same boot again.)
Reset ==
  /\ at["main"] = "out"
  /\ bonds' = 0 /\ in_connection' = FALSE /\ submitted' = FALSE
  /\ at' = [t \in Threads |-> IF t = "main" THEN "zero" ELSE "out"]
  /\ callback' = "none" /\ door_sem' = 0
  /\ accept' = {} /\ adv' = "off"
  /\ link' = "free" /\ peer' = NoPeer /\ level' = 1 /\ pairing' = FALSE
  /\ UNCHANGED <<overlapped, bonded>>
----------------------------------------------------------------------------
Work(t) == advertise(t) \/ bluetooth_clear_bonds(t)

conn_callbacks == ConnectFailed \/ Connected \/ Disconnected

Next ==
  \/ \E t \in Threads : Work(t)
  \/ WorkAdvertise \/ WorkButton \/ RemoteClear \/ RemoteDisconnect
  \/ PeerConnects \/ conn_callbacks \/ LinkEnds \/ Recycled
  \/ Encrypted \/ auth_pairing_accept \/ PairingFails \/ PairingSucceeds \/ read_u8
  \/ DoorTake \/ Reset

\* The threads run, and the stack ends what it was told to end and recycles it.
Fairness ==
  /\ \A t \in Threads : WF_vars(Work(t))
  /\ WF_vars(WorkAdvertise) /\ WF_vars(conn_callbacks)
  /\ WF_vars(link = "ending" /\ LinkEnds) /\ WF_vars(Recycled)

Spec == Init /\ [][Next]_vars /\ Fairness
----------------------------------------------------------------------------
\* As long as no thread and no pairing ever overlapped another thread's count, the count
\* that advertising began with still bounds the table when a peer pairs, through
\* clearings, resets and refusals.
BondLimit == ~overlapped => Cardinality(bonded) <= MaxPaired

\* The door is asked for only by a peer at level 4 that has a bond, or whose connection
\* ends because the bonds are being cleared.
DoorForBonded ==
  [][door_sem = 0 /\ door_sem' = 1 => level' = 4 /\ (peer \in bonded' \/ link = "ending")]_vars

\* After every connection, and every attempt at one, some thread starts advertising again.
TriesToAdvertise == callback \in {"failed", "disconnected"} ~> \E t \in Threads : at[t] = "start"

\* Does not hold.  app/Kconfig: "will always advertise": without a connection the device advertises again.
\* advertise_work may come before the stack has recycled the connection, and nothing tries
\* again.
AlwaysAdvertises == adv = "off" ~> adv # "off" \/ link = "up"
=============================================================================
