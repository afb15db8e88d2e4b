--------------------------- MODULE BtBondsProofs ---------------------------
(* Proofs about BtBonds for every finite set of peers and every size of the *)
(* bond table.                                                              *)
EXTENDS BtBonds, FiniteSetTheorems, TLAPS

\* The steps that each part of the invariant has to look at, by what they leave alone.
Callbacks == conn_callbacks \/ DoorTake
Links == PeerConnects \/ LinkEnds \/ Recycled
Pairings == Encrypted \/ auth_pairing_accept \/ PairingFails \/ PairingSucceeds \/ read_u8
Entries == WorkAdvertise \/ WorkButton \/ RemoteClear \/ RemoteDisconnect

LEMMA NextSteps ==
  ASSUME [Next]_vars
  PROVE  \/ \E t \in Threads : Work(t)
         \/ Callbacks \/ Links \/ Pairings \/ Entries \/ Reset \/ UNCHANGED vars
BY DEF Next, Callbacks, Links, Pairings, Entries

\* The types of the variables that hold no truth value, with a peer where there is a link ...
Values ==
  /\ bonds \in Nat
  /\ at \in [Threads -> Inside \cup {"out"}]
  /\ callback \in {"none", "failed", "connected", "disconnected"}
  /\ door_sem \in 0..1
  /\ bonded \subseteq Peers /\ accept \subseteq Peers
  /\ adv \in {"off", "open", "filter"}
  /\ link \in {"free", "up", "ending", "down"}
  /\ peer \in Peers \cup {NoPeer} /\ level \in {1, 2, 4}
  /\ link # "free" => peer \in Peers

\* ... and those that do.
Flags ==
  /\ in_connection \in BOOLEAN /\ submitted \in BOOLEAN
  /\ overlapped \in BOOLEAN /\ pairing \in BOOLEAN

LEMMA Types == Values /\ Flags => TypeOK
BY Zenon DEF TypeOK, Values, Flags

\* The bond table is a finite set, empty or grown by one.
LEMMA Table ==
  ASSUME NEW S \in SUBSET Peers
  PROVE  /\ IsFiniteSet(S) /\ Cardinality(S) \in Nat
         /\ \A p : Cardinality(S \cup {p}) = IF p \in S THEN Cardinality(S) ELSE Cardinality(S) + 1
<1>1. IsFiniteSet(S)
  BY BondsAssumption, FS_Subset
<1> QED
  BY <1>1, FS_CardinalityType, FS_AddElement

LEMMA Empty == Cardinality({}) = 0 /\ MaxPaired \in Nat \ {0}
BY BondsAssumption, FS_EmptySet

LEMMA ValuesStep == Values /\ [Next]_vars => Values'
<1> SUFFICES ASSUME Values, [Next]_vars PROVE Values'
  OBVIOUS
<1> USE DEF Values, Goto, Inside, Enter, Ended, security_changed, app, conn
<1>1. ASSUME NEW t \in Threads, Work(t) PROVE Values'
  <2>1. CASE AdvertiseZero(t)
    BY <2>1 DEF AdvertiseZero
  <2>2. CASE AdvertiseCount(t)
    <3>1. Cardinality(bonded) \in Nat
      BY Table
    <3> QED
      BY <2>2, <3>1 DEF AdvertiseCount
  <2>3. CASE AdvertiseStart(t)
    BY <2>3 DEF AdvertiseStart
  <2>4. CASE ClearTest(t) \/ HangUp(t) \/ ClearStop(t)
    BY <2>4 DEF ClearTest, HangUp, ClearStop
  <2>5. CASE ClearUnpair(t)
    BY <2>5 DEF ClearUnpair
  <2> QED
    BY <1>1, <2>1, <2>2, <2>3, <2>4, <2>5 DEF Work, advertise, bluetooth_clear_bonds
<1>2. CASE Callbacks
  BY <1>2 DEF Callbacks, conn_callbacks, ConnectFailed, Connected, Disconnected, DoorTake
<1>3. CASE Links
  BY <1>3 DEF Links, PeerConnects, LinkEnds, Recycled
<1>4. CASE Pairings
  <2>1. CASE Encrypted
    BY <2>1 DEF Encrypted
  <2>2. CASE auth_pairing_accept
    BY <2>2 DEF auth_pairing_accept
  <2>3. CASE PairingFails \/ read_u8
    BY <2>3 DEF PairingFails, read_u8
  <2>4. CASE PairingSucceeds
    BY <2>4 DEF PairingSucceeds
  <2> QED
    BY <1>4, <2>1, <2>2, <2>3, <2>4 DEF Pairings
<1>5. CASE Entries
  BY <1>5 DEF Entries, WorkAdvertise, WorkButton, RemoteClear, RemoteDisconnect, Threads
<1>6. CASE Reset
  BY <1>6 DEF Reset, Threads
<1>7. CASE UNCHANGED vars
  BY <1>7 DEF vars
<1> QED
  BY NextSteps, <1>1, <1>2, <1>3, <1>4, <1>5, <1>6, <1>7

LEMMA FlagsStep == Flags /\ [Next]_vars => Flags'
<1> SUFFICES ASSUME Flags, [Next]_vars PROVE Flags'
  OBVIOUS
<1> USE DEF Flags, Enter, Overlap, app, conn
<1>1. ASSUME NEW t \in Threads, Work(t) PROVE Flags'
  BY <1>1 DEF Work, advertise, bluetooth_clear_bonds, AdvertiseZero, AdvertiseCount,
              AdvertiseStart, ClearTest, HangUp, ClearStop, ClearUnpair
<1>2. CASE Callbacks
  BY <1>2 DEF Callbacks, conn_callbacks, ConnectFailed, Connected, Disconnected, DoorTake
<1>3. CASE Links
  BY <1>3 DEF Links, PeerConnects, LinkEnds, Recycled
<1>4. CASE Pairings
  BY <1>4 DEF Pairings, Encrypted, auth_pairing_accept, PairingFails, PairingSucceeds, read_u8
<1>5. CASE Entries
  BY <1>5 DEF Entries, WorkAdvertise, WorkButton, RemoteClear, RemoteDisconnect
<1>6. CASE Reset
  BY <1>6 DEF Reset
<1>7. CASE UNCHANGED vars
  BY <1>7 DEF vars
<1> QED
  BY NextSteps, <1>1, <1>2, <1>3, <1>4, <1>5, <1>6, <1>7
----------------------------------------------------------------------------
\* What the connection object is while the device advertises, believes in a connection,
\* or is about to hear of one.
LinkInv ==
  /\ adv # "off" => link = "free"
  /\ in_connection => link # "free"
  /\ in_connection /\ link = "down" => callback = "disconnected"
  /\ callback = "connected" => link \in {"up", "ending"}
  /\ callback = "disconnected" => link = "down"

\* At level 4 the peer is connected, and has a bond unless its connection is ending.
LevelInv == level = 4 => link = "ending" \/ (link = "up" /\ peer \in bonded)

LEMMA LinkStep == Values /\ LinkInv /\ LevelInv /\ [Next]_vars => LinkInv' /\ LevelInv'
<1> SUFFICES ASSUME Values, LinkInv, LevelInv, [Next]_vars PROVE LinkInv' /\ LevelInv'
  OBVIOUS
<1> USE DEF LinkInv, LevelInv, Ended, conn
<1>0. /\ link \in {"free", "up", "ending", "down"}
      /\ callback \in {"none", "failed", "connected", "disconnected"}
  BY DEF Values
<1>1. ASSUME NEW t \in Threads, Work(t) PROVE LinkInv' /\ LevelInv'
  <2>1. CASE AdvertiseZero(t) \/ AdvertiseCount(t)
    BY <2>1 DEF AdvertiseZero, AdvertiseCount
  <2>2. CASE AdvertiseStart(t)
    BY <2>2 DEF AdvertiseStart
  <2>3. CASE ClearTest(t) \/ HangUp(t) \/ ClearStop(t)
    BY <1>0, <2>3 DEF ClearTest, HangUp, ClearStop
  <2>4. CASE ClearUnpair(t)
    BY <1>0, <2>4 DEF ClearUnpair
  <2> QED
    BY <1>1, <2>1, <2>2, <2>3, <2>4 DEF Work, advertise, bluetooth_clear_bonds
<1>2. CASE Callbacks
  BY <1>0, <1>2 DEF Callbacks, conn_callbacks, ConnectFailed, Connected, Disconnected, DoorTake
<1>3. CASE Links
  <2>1. CASE PeerConnects
    BY <1>0, <2>1 DEF PeerConnects
  <2>2. CASE LinkEnds
    BY <1>0, <2>2 DEF LinkEnds
  <2>3. CASE Recycled
    BY <1>0, <2>3 DEF Recycled, app
  <2> QED
    BY <1>3, <2>1, <2>2, <2>3 DEF Links
<1>4. CASE Pairings
  <2>1. CASE Encrypted
    BY <1>0, <2>1 DEF Encrypted, security_changed
  <2>2. CASE auth_pairing_accept
    BY <1>0, <2>2 DEF auth_pairing_accept, app
  <2>3. CASE PairingFails
    BY <1>0, <2>3 DEF PairingFails, app
  <2>4. CASE PairingSucceeds
    BY <1>0, <2>4 DEF PairingSucceeds, security_changed
  <2>5. CASE read_u8
    BY <1>0, <2>5 DEF read_u8
  <2> QED
    BY <1>4, <2>1, <2>2, <2>3, <2>4, <2>5 DEF Pairings
<1>5. CASE Entries
  BY <1>0, <1>5 DEF Entries, WorkAdvertise, WorkButton, RemoteClear, RemoteDisconnect
<1>6. CASE Reset
  BY <1>6 DEF Reset
<1>7. CASE UNCHANGED vars
  BY <1>7 DEF vars, app
<1> QED
  BY NextSteps, <1>1, <1>2, <1>3, <1>4, <1>5, <1>6, <1>7
----------------------------------------------------------------------------
\* Without an overlap one thread at most is inside, and what it did so far is true of the
\* table; open advertising leaves room for a bond, and a connected peer has one or room.
CountInv ==
  ~overlapped =>
    /\ \A t, u \in Threads : at[t] # "out" /\ at[u] # "out" => t = u
    /\ \A t \in Threads :
         /\ at[t] \in {"hangup", "unpair"} => adv = "off"
         /\ at[t] = "count" => bonds = 0 /\ accept = {}
         /\ at[t] = "start" => bonds = Cardinality(bonded) /\ accept \subseteq bonded
    /\ Cardinality(bonded) <= MaxPaired
    /\ adv = "open" => Cardinality(bonded) < MaxPaired
    /\ adv = "filter" => accept \subseteq bonded
    /\ link = "up" => peer \in bonded \/ Cardinality(bonded) < MaxPaired

IInv == Values /\ Flags /\ LinkInv /\ LevelInv /\ CountInv

\* A step that leaves alone what a thread counts, and at most takes a connection away,
\* keeps the invariant.
LEMMA CountKept ==
  ASSUME CountInv, UNCHANGED <<bonds, at, overlapped, bonded, accept>>,
         adv' \in {adv, "off"}, link' = "up" => link = "up" /\ peer' = peer
  PROVE  CountInv'
BY DEF CountInv

LEMMA CountStep == IInv /\ [Next]_vars => CountInv'
<1> SUFFICES ASSUME IInv, [Next]_vars PROVE CountInv'
  OBVIOUS
<1>0. Values /\ CountInv /\ LinkInv /\ at \in [Threads -> Inside \cup {"out"}]
  BY DEF IInv, Values
<1>c. Cardinality(bonded) \in Nat
  BY <1>0, Table DEF Values
<1>1. ASSUME NEW t \in Threads, Work(t) PROVE CountInv'
  <2> SUFFICES ASSUME ~overlapped PROVE CountInv'
    BY <1>1 DEF CountInv, Work, advertise, bluetooth_clear_bonds, AdvertiseZero,
                AdvertiseCount, AdvertiseStart, ClearTest, HangUp, ClearStop, ClearUnpair
  <2>0. /\ at[t] # "out"
        /\ \A u \in Threads : u # t => at[u] = "out"
    BY <1>0, <1>1 DEF CountInv, Work, advertise, bluetooth_clear_bonds, AdvertiseZero,
                AdvertiseCount, AdvertiseStart, ClearTest, HangUp, ClearStop, ClearUnpair
  <2>1. CASE AdvertiseZero(t)
    BY <1>0, <2>0, <2>1 DEF AdvertiseZero, Goto, CountInv, conn
  <2>2. CASE AdvertiseCount(t)
    BY <1>0, <1>c, <2>0, <2>2 DEF AdvertiseCount, Goto, CountInv, conn
  <2>3. CASE AdvertiseStart(t)
    BY <1>0, <1>c, <2>0, <2>3, Empty DEF AdvertiseStart, Goto, CountInv, conn
  <2>4. CASE ClearTest(t)
    BY <1>0, <2>0, <2>4 DEF ClearTest, Goto, CountInv, LinkInv, conn
  <2>5. CASE HangUp(t)
    BY <1>0, <2>0, <2>5 DEF HangUp, Goto, CountInv, LinkInv, Ended
  <2>6. CASE ClearStop(t)
    BY <1>0, <2>0, <2>6 DEF ClearStop, Goto, CountInv, conn
  <2>7. CASE ClearUnpair(t)
    BY <1>0, <2>0, <2>7, Empty DEF ClearUnpair, Goto, CountInv
  <2> QED
    BY <1>1, <2>1, <2>2, <2>3, <2>4, <2>5, <2>6, <2>7 DEF Work, advertise, bluetooth_clear_bonds
<1>2. CASE Callbacks
  BY <1>0, <1>2, CountKept DEF Callbacks, conn_callbacks, ConnectFailed, Connected, Disconnected,
                         DoorTake, Ended, conn
<1>3. CASE Links
  <2>1. CASE PeerConnects
    BY <1>0, <2>1 DEF PeerConnects, CountInv, Values
  <2>2. CASE LinkEnds \/ Recycled
    BY <1>0, <2>2, CountKept DEF LinkEnds, Recycled, app
  <2> QED
    BY <1>3, <2>1, <2>2 DEF Links
<1>4. CASE Pairings
  <2>1. CASE Encrypted \/ auth_pairing_accept \/ PairingFails \/ read_u8
    BY <1>0, <2>1, CountKept DEF Encrypted, auth_pairing_accept, PairingFails, read_u8, app, conn
  <2>2. CASE PairingSucceeds
    <3> SUFFICES ASSUME ~overlapped' PROVE CountInv'
      BY DEF CountInv
    <3>1. ~overlapped /\ \A t \in Threads : at[t] = "out"
      BY <2>2 DEF PairingSucceeds, Overlap
    <3>2. Cardinality(bonded') = IF peer \in bonded THEN Cardinality(bonded) ELSE Cardinality(bonded) + 1
      BY <1>0, <2>2, Table DEF PairingSucceeds, Values
    <3>3. /\ adv = "off" /\ adv' = adv /\ at' = at /\ link' = "up" /\ peer' = peer
          /\ peer \in bonded' /\ link = "up"
      BY <1>0, <2>2 DEF PairingSucceeds, LinkInv, Values
    <3>4. Cardinality(bonded) <= MaxPaired /\ (peer \in bonded \/ Cardinality(bonded) < MaxPaired)
      BY <1>0, <3>1, <3>3 DEF CountInv
    <3>5. Cardinality(bonded') <= MaxPaired
      BY <1>c, <3>2, <3>4, Empty
    <3> QED
      BY <3>1, <3>3, <3>5 DEF CountInv
  <2> QED
    BY <1>4, <2>1, <2>2 DEF Pairings
<1>5. CASE Entries
  <2>1. PICK t \in Threads, label \in {"zero", "clear", "disconnect"} : Enter(t, label)
    BY <1>5 DEF Entries, WorkAdvertise, WorkButton, RemoteClear, RemoteDisconnect, Threads
  <2>2. /\ UNCHANGED <<bonds, bonded, accept, adv, peer>> /\ link' \in {link, "ending"}
    BY <1>5 DEF Entries, WorkAdvertise, WorkButton, RemoteClear, RemoteDisconnect, conn, Ended
  <2> SUFFICES ASSUME ~overlapped' PROVE CountInv'
    BY DEF CountInv
  <2>3. ~overlapped /\ \A u \in Threads : at[u] = "out"
    BY <2>1 DEF Enter, Overlap
  <2>4. at' = [at EXCEPT ![t] = label]
    BY <2>1 DEF Enter, Goto
  <2> QED
    BY <1>0, <2>2, <2>3, <2>4 DEF CountInv
<1>6. CASE Reset
  BY <1>0, <1>6 DEF Reset, CountInv
<1>7. CASE UNCHANGED vars
  BY <1>0, <1>7, CountKept DEF vars, app, conn
<1> QED
  BY NextSteps, <1>1, <1>2, <1>3, <1>4, <1>5, <1>6, <1>7
----------------------------------------------------------------------------
\* The invariant holds whichever threads, peers and callbacks come in between.
THEOREM Invariance == Spec => []IInv
<1>1. Init => IInv
  <2> SUFFICES ASSUME Init PROVE IInv
    OBVIOUS
  <2>1. Values
    BY DEF Init, Values, Inside, Threads
  <2>2. Flags
    BY Zenon DEF Init, Flags
  <2>3. LinkInv /\ LevelInv
    BY DEF Init, LinkInv, LevelInv
  <2>4. CountInv
    BY Empty DEF Init, CountInv
  <2> QED
    BY <2>1, <2>2, <2>3, <2>4 DEF IInv
<1>2. IInv /\ [Next]_vars => IInv'
  BY ValuesStep, FlagsStep, LinkStep, CountStep DEF IInv
<1> QED
  BY <1>1, <1>2, PTL DEF Spec

\* The variables keep their types, whichever threads and peers do what.
THEOREM Typing == Spec => []TypeOK
<1>1. IInv => TypeOK
  BY Types DEF IInv
<1> QED
  BY Invariance, <1>1, PTL

\* The bond table is never filled beyond its size, as long as nothing overlaps a count.
THEOREM BondsLimited == Spec => []BondLimit
<1>1. IInv => BondLimit
  BY DEF IInv, CountInv, BondLimit
<1> QED
  BY Invariance, <1>1, PTL

\* Only a peer at level 4, with a bond or on its way out, ever has the door worked.
THEOREM DoorIsForBonded == Spec => DoorForBonded
<1>1. IInv /\ [Next]_vars =>
        (door_sem = 0 /\ door_sem' = 1 => level' = 4 /\ (peer \in bonded' \/ link = "ending"))
  <2> SUFFICES ASSUME IInv, [Next]_vars, door_sem = 0, door_sem' = 1
               PROVE  level' = 4 /\ (peer \in bonded' \/ link = "ending")
    OBVIOUS
  <2>1. CASE Encrypted
    BY <2>1 DEF Encrypted, security_changed
  <2>2. CASE PairingSucceeds
    BY <2>2 DEF PairingSucceeds, security_changed
  <2>3. CASE read_u8
    BY <2>3 DEF read_u8, IInv, LevelInv, conn
  <2>4. CASE door_sem' = door_sem \/ door_sem' = 0
    BY <2>4
  <2>5. \/ Encrypted \/ PairingSucceeds \/ read_u8
        \/ door_sem' = door_sem \/ door_sem' = 0
    BY DEF Next, Work, advertise, bluetooth_clear_bonds, AdvertiseZero, AdvertiseCount,
           AdvertiseStart, ClearTest, HangUp, ClearStop, ClearUnpair, WorkAdvertise, WorkButton, RemoteClear,
           RemoteDisconnect, PeerConnects, conn_callbacks, ConnectFailed, Connected,
           Disconnected, LinkEnds, Recycled, auth_pairing_accept, PairingFails, DoorTake,
           Reset, vars, app
  <2> QED
    BY <2>1, <2>2, <2>3, <2>4, <2>5
<1> QED
  BY Invariance, <1>1, PTL DEF Spec, DoorForBonded
=============================================================================
