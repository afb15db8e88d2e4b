---------------------------- MODULE HfclkProofs ----------------------------
(* Proofs about Hfclk, and IrLed as a user of it, for any finite set of     *)
(* fewer than 255 users.                                                   *)
EXTENDS IrLed, FiniteSetTheorems, SequenceTheorems, TLAPS

\* A user is inside hfclk_enable or hfclk_disable exactly when it holds the semaphore.
SemaphoreHeld == \A u \in Users : pc[u] \in Inside <=> sem = u

\* What the clock is at each point of the critical section.
ClockInv ==
  /\ sem = NoUser => (clock <=> hfclk_count > 0)
  /\ \A u \in Users :
       /\ pc[u] \in {"enabling", "disabling"} => (clock <=> hfclk_count > 0)
       /\ pc[u] = "counting" => clock
       /\ pc[u] = "clearing" => ~clock

\* ClockMatchesCount is not inductive: it says nothing of a state in the critical
\* section, and a uint8_t count that wrapped would read 0 with the clock running.
IInv == TypeOK /\ SemaphoreHeld /\ ClockInv /\ CountBounded

\* The counted users are a finite set of users.
LEMMA CountedFinite ==
  /\ IsFiniteSet(Counted) /\ Cardinality(Counted) \in Nat
  /\ \A u \in Users \ Counted : Cardinality(Counted) < Cardinality(Users)
<1>1. Counted \subseteq Users
  BY DEF Counted
<1>2. IsFiniteSet(Counted) /\ Cardinality(Counted) \in Nat
      /\ Cardinality(Counted) <= Cardinality(Users)
      /\ (Cardinality(Counted) = Cardinality(Users) => Counted = Users)
  BY <1>1, FS_Subset, FS_CardinalityType, UsersAssumption
<1>3. Cardinality(Users) \in Nat
  BY FS_CardinalityType, UsersAssumption
<1> QED
  BY <1>2, <1>3

\* The same of the next state.
LEMMA CountedFiniteNext == Cardinality(Counted)' \in Nat
<1>1. Counted' \subseteq Users
  BY DEF Counted
<1> QED
  BY <1>1, FS_Subset, FS_CardinalityType, UsersAssumption

\* How many users are counted after one joined or left them.
LEMMA CountedChange ==
  ASSUME NEW u \in Users
  PROVE  /\ Counted' = Counted \cup {u} /\ u \notin Counted
              => Cardinality(Counted)' = Cardinality(Counted) + 1
         /\ Counted' = Counted \ {u}
              => /\ Cardinality(Counted)' + 1 >= Cardinality(Counted)
                 /\ Cardinality(Counted)' \in Nat
                 /\ u \in Counted => Cardinality(Counted)' = Cardinality(Counted) - 1
         /\ Counted' = Counted => Cardinality(Counted)' = Cardinality(Counted)
BY CountedFinite, FS_AddElement, FS_RemoveElement, FS_CardinalityType

\* Typing of the state (% 256 keeps the count in range whatever it was).
LEMMA TypeStep == TypeOK /\ [Next]_vars => TypeOK'
<1> SUFFICES ASSUME TypeOK, [Next]_vars PROVE TypeOK'
  OBVIOUS
<1> USE DEF TypeOK, Take, Goto, Return, Outside, Inside
<1>1. ASSUME NEW u \in Users, EnableTake(u) PROVE TypeOK'
  BY <1>1 DEF EnableTake
<1>2. ASSUME NEW u \in Users, EnableOn(u) PROVE TypeOK'
  <2>1. clock' \in BOOLEAN
    BY <1>2 DEF EnableOn
  <2> QED
    BY <1>2, <2>1 DEF EnableOn
<1>3. ASSUME NEW u \in Users, EnableFail(u) PROVE TypeOK'
  BY <1>3 DEF EnableFail
<1>4. ASSUME NEW u \in Users, EnableCount(u) PROVE TypeOK'
  <2>1. hfclk_count' \in 0..255
    BY <1>4 DEF EnableCount
  <2> QED
    BY <1>4, <2>1 DEF EnableCount
<1>5. ASSUME NEW u \in Users, hfclk_disable(u) PROVE TypeOK'
  <2>1. CASE DisableTake(u)
    BY <2>1 DEF DisableTake
  <2>2. CASE DisableNotRunning(u) \/ DisableFail(u)
    BY <2>2 DEF DisableNotRunning, DisableFail
  <2>3. CASE DisableShared(u) \/ DisableClear(u)
    <3>1. hfclk_count' \in 0..255
      BY <2>3 DEF DisableShared, DisableClear
    <3> QED
      BY <2>3, <3>1 DEF DisableShared, DisableClear
  <2>4. CASE DisableOff(u)
    BY <2>4 DEF DisableOff
  <2> QED
    BY <1>5, <2>1, <2>2, <2>3, <2>4 DEF hfclk_disable
<1>6. CASE UNCHANGED vars
  BY <1>6 DEF vars
<1> QED
  BY <1>1, <1>2, <1>3, <1>4, <1>5, <1>6 DEF Next, hfclk_enable

\* The invariant holds at the start: nobody is inside, counted or granted the clock.
LEMMA InitIInv == Init => IInv
<1> SUFFICES ASSUME Init PROVE IInv
  OBVIOUS
<1>1. TypeOK
  <2>1. clock \in BOOLEAN /\ granted \in [Users -> BOOLEAN] /\ failed \subseteq {"on", "off"}
    BY Zenon DEF Init
  <2>2. hfclk_count \in 0..255 /\ pc \in [Users -> Outside \cup Inside]
    BY SMT DEF Init, Outside, Inside
  <2> QED
    BY <2>1, <2>2 DEF Init, TypeOK
<1>2. SemaphoreHeld /\ ClockInv
  BY UsersAssumption DEF Init, SemaphoreHeld, ClockInv, Outside, Inside
<1>3. CountBounded
  BY CountedFinite DEF Init, CountBounded
<1> QED
  BY <1>1, <1>2, <1>3 DEF IInv

\* The semaphore serialises the two functions.
LEMMA SemaphoreStep == TypeOK /\ SemaphoreHeld /\ [Next]_vars => SemaphoreHeld'
<1> SUFFICES ASSUME TypeOK, SemaphoreHeld, [Next]_vars PROVE SemaphoreHeld'
  OBVIOUS
<1> USE UsersAssumption DEF TypeOK, SemaphoreHeld, Take, Goto, Return, Outside, Inside
<1>1. ASSUME NEW u \in Users, hfclk_enable(u) PROVE SemaphoreHeld'
  <2>1. CASE EnableTake(u)
    BY <2>1 DEF EnableTake
  <2>2. CASE EnableOn(u)
    BY <2>2 DEF EnableOn
  <2>3. CASE EnableFail(u) \/ EnableCount(u)
    BY <2>3 DEF EnableFail, EnableCount
  <2> QED
    BY <1>1, <2>1, <2>2, <2>3 DEF hfclk_enable
<1>2. ASSUME NEW u \in Users, hfclk_disable(u) PROVE SemaphoreHeld'
  BY <1>2 DEF hfclk_disable, DisableTake, DisableNotRunning, DisableShared,
              DisableOff, DisableFail, DisableClear
<1>3. CASE UNCHANGED vars
  BY <1>3 DEF vars
<1> QED
  BY <1>1, <1>2, <1>3 DEF Next

\* What a step does to the set of counted users.
LEMMA CountedStep ==
  ASSUME IInv, NEW u \in Users
  PROVE  /\ EnableTake(u) \/ EnableOn(u) \/ EnableFail(u) \/ DisableTake(u) \/ DisableOff(u)
              => Counted' = Counted /\ Cardinality(Counted)' = Cardinality(Counted)
         /\ EnableCount(u) => Cardinality(Counted)' = Cardinality(Counted) + 1
         /\ DisableNotRunning(u) \/ DisableShared(u) \/ DisableFail(u) \/ DisableClear(u)
              => /\ Cardinality(Counted)' + 1 >= Cardinality(Counted)
                 /\ granted[u] => /\ u \in Counted
                                  /\ Cardinality(Counted)' = Cardinality(Counted) - 1
<1> USE DEF Goto, Return
<1>0. /\ pc \in [Users -> Outside \cup Inside] /\ granted \in [Users -> BOOLEAN]
      /\ Cardinality(Counted) \in Nat
  BY CountedFinite DEF IInv, TypeOK
<1>1. ASSUME EnableTake(u) \/ EnableOn(u) \/ EnableFail(u) \/ DisableTake(u) \/ DisableOff(u)
      PROVE  Counted' = Counted /\ Cardinality(Counted)' = Cardinality(Counted)
  <2>1. Counted' = Counted
    BY <1>0, <1>1 DEF Counted, EnableTake, EnableOn, EnableFail, DisableTake, DisableOff
  <2> QED
    BY <2>1, CountedChange
<1>2. ASSUME EnableCount(u) PROVE Cardinality(Counted)' = Cardinality(Counted) + 1
  <2>1. u \notin Counted /\ Counted' = Counted \cup {u}
    BY <1>0, <1>2 DEF EnableCount, Counted
  <2> QED
    BY <2>1, CountedChange
<1>3. ASSUME DisableNotRunning(u) \/ DisableShared(u) \/ DisableFail(u) \/ DisableClear(u)
      PROVE  /\ Cardinality(Counted)' + 1 >= Cardinality(Counted)
             /\ granted[u] => /\ u \in Counted
                              /\ Cardinality(Counted)' = Cardinality(Counted) - 1
  <2>1. Counted' = Counted \ {u} /\ (granted[u] => u \in Counted)
    BY <1>0, <1>3 DEF Counted, DisableNotRunning, DisableShared, DisableFail, DisableClear
  <2> QED
    BY <1>0, <2>1, CountedChange
<1> QED
  BY <1>1, <1>2, <1>3

\* The count grows by one with Counted, and loses at most one more than Counted does.
LEMMA CountStep == IInv /\ [Next]_vars => CountBounded'
<1> SUFFICES ASSUME IInv, [Next]_vars PROVE CountBounded'
  OBVIOUS
<1>0. hfclk_count \in 0..255 /\ CountBounded
      /\ Cardinality(Counted) \in Nat /\ Cardinality(Counted)' \in Nat
  BY CountedFinite, CountedFiniteNext DEF IInv, TypeOK
<1>1. ASSUME NEW u \in Users,
             EnableTake(u) \/ EnableOn(u) \/ EnableFail(u) \/ DisableTake(u) \/ DisableOff(u)
      PROVE  CountBounded'
  <2>1. Cardinality(Counted)' = Cardinality(Counted) /\ hfclk_count' = hfclk_count
    BY <1>1, CountedStep
    DEF EnableTake, EnableOn, EnableFail, DisableTake, DisableOff
  <2> QED
    BY <1>0, <2>1 DEF CountBounded
<1>2. ASSUME NEW u \in Users, EnableCount(u) PROVE CountBounded'
  <2>1. hfclk_count' <= hfclk_count + 1 /\ hfclk_count' \in Nat
    BY <1>0, <1>2 DEF EnableCount
  <2>2. Cardinality(Counted)' = Cardinality(Counted) + 1
    BY <1>2, CountedStep
  <2> QED
    BY <1>0, <2>1, <2>2 DEF CountBounded
<1>3. ASSUME NEW u \in Users,
             DisableNotRunning(u) \/ DisableShared(u) \/ DisableFail(u) \/ DisableClear(u)
      PROVE  CountBounded'
  <2>1. /\ Cardinality(Counted)' + 1 >= Cardinality(Counted)
        /\ hfclk_count' <= 1 \/ hfclk_count' = hfclk_count - 1
    BY <1>3, CountedStep
    DEF DisableNotRunning, DisableShared, DisableFail, DisableClear
  <2>2. hfclk_count' \in 0..255
    BY TypeStep DEF IInv, TypeOK
  <2> QED
    BY <1>0, <2>1, <2>2 DEF CountBounded
<1>4. CASE UNCHANGED vars
  BY <1>0, <1>4 DEF vars, CountBounded, Counted
<1> QED
  BY <1>1, <1>2, <1>3, <1>4 DEF Next, hfclk_enable, hfclk_disable

\* No enable wraps the uint8_t count: the user it adds was not counted before.
LEMMA NoWrap ==
  ASSUME IInv, NEW u \in Users, EnableCount(u)
  PROVE  hfclk_count' = hfclk_count + 1
<1>1. u \notin Counted
  BY DEF EnableCount, Counted
<1>2. Cardinality(Counted) < 254 /\ Cardinality(Counted) \in Nat
  BY <1>1, CountedFinite, UsersAssumption, FS_CardinalityType
<1> QED
  BY <1>2 DEF IInv, TypeOK, CountBounded, EnableCount

\* Only the holder of the semaphore is in the critical section, so only its own
\* clauses of ClockInv can change.
LEMMA ClockStep == IInv /\ [Next]_vars => ClockInv'
<1> SUFFICES ASSUME IInv, [Next]_vars PROVE ClockInv'
  OBVIOUS
<1> USE UsersAssumption DEF IInv, TypeOK, SemaphoreHeld, Take, Goto, Return, Outside, Inside
<1>1. ASSUME NEW u \in Users, EnableTake(u) PROVE ClockInv'
  BY <1>1 DEF EnableTake, ClockInv
<1>2. ASSUME NEW u \in Users, EnableOn(u) PROVE ClockInv'
  <2>1. clock'
    BY <1>2 DEF EnableOn, ClockInv
  <2>2. sem' # NoUser
    BY <1>2 DEF EnableOn
  <2>3. \A v \in Users : pc'[v] \notin {"enabling", "disabling", "clearing"}
    BY <1>2 DEF EnableOn
  <2> QED
    BY ONLY <2>1, <2>2, <2>3, Zenon DEF ClockInv
<1>3. ASSUME NEW u \in Users, EnableFail(u) PROVE ClockInv'
  BY <1>3 DEF EnableFail, ClockInv
<1>4. ASSUME NEW u \in Users, EnableCount(u) PROVE ClockInv'
  <2>1. clock'
    BY <1>4 DEF EnableCount, ClockInv
  <2>2. hfclk_count' > 0
    BY <1>4, NoWrap
  <2>3. \A v \in Users : pc'[v] \notin Inside
    BY <1>4 DEF EnableCount
  <2> QED
    BY ONLY <2>1, <2>2, <2>3, Zenon DEF ClockInv, Inside
<1>5. ASSUME NEW u \in Users, DisableTake(u) PROVE ClockInv'
  BY <1>5 DEF DisableTake, ClockInv
<1>6. ASSUME NEW u \in Users, DisableNotRunning(u) PROVE ClockInv'
  BY <1>6 DEF DisableNotRunning, ClockInv
<1>7. ASSUME NEW u \in Users, DisableShared(u) PROVE ClockInv'
  BY <1>7 DEF DisableShared, ClockInv
<1>8. ASSUME NEW u \in Users, DisableOff(u) PROVE ClockInv'
  BY <1>8 DEF DisableOff, ClockInv
<1>9. ASSUME NEW u \in Users, DisableFail(u) PROVE ClockInv'
  BY <1>9 DEF DisableFail, ClockInv
<1>10. ASSUME NEW u \in Users, DisableClear(u) PROVE ClockInv'
  BY <1>10 DEF DisableClear, ClockInv
<1>11. CASE UNCHANGED vars
  BY <1>11 DEF vars, ClockInv
<1> QED
  BY <1>1, <1>2, <1>3, <1>4, <1>5, <1>6, <1>7, <1>8, <1>9, <1>10, <1>11
  DEF Next, hfclk_enable, hfclk_disable

\* IInv holds in every reachable state, with any number of users and any failures.
THEOREM Invariance == Spec => []IInv
<1>1. IInv /\ [Next]_vars => IInv'
  BY TypeStep, SemaphoreStep, CountStep, ClockStep DEF IInv
<1> QED
  BY InitIInv, <1>1, PTL DEF Spec

\* The variables keep their types, whatever fails and however the threads interleave.
THEOREM Typing == Spec => []TypeOK
<1>1. IInv => TypeOK
  BY DEF IInv
<1> QED
  BY <1>1, Invariance, PTL

\* The count and the hardware agree whenever the semaphore is free.
THEOREM ClockMatches == Spec => []ClockMatchesCount
<1>1. IInv => ClockMatchesCount
  BY DEF IInv, ClockInv, ClockMatchesCount
<1> QED
  BY Invariance, <1>1, PTL

\* The uint8_t count never exceeds the granted users by more than one.
THEOREM CountIsBounded == Spec => []CountBounded
<1>1. IInv => CountBounded
  BY DEF IInv
<1> QED
  BY Invariance, <1>1, PTL
----------------------------------------------------------------------------
\* How the count relates to the counted users while a call of the clock driver never
\* failed: without failed starts it is at least their number, and every user past its
\* hfclk_enable is one of them; without failed stops it is at most their number.
Lower ==
  "on" \notin failed =>
    /\ hfclk_count >= Cardinality(Counted)
    /\ \A u \in Users : pc[u] \in {"using", "disabling", "clearing"} => granted[u]

Upper == "off" \notin failed => hfclk_count <= Cardinality(Counted)

LastUser == \A u \in Users : pc[u] = "clearing" => hfclk_count = 1

\* A counted user makes the number positive, and two make it at least two.
LEMMA CountedMembers ==
  ASSUME NEW u \in Counted
  PROVE  /\ Cardinality(Counted) >= 1
         /\ \A v \in Counted \ {u} : Cardinality(Counted) >= 2
<1>1. /\ IsFiniteSet(Counted \ {u})
      /\ Cardinality(Counted \ {u}) = Cardinality(Counted) - 1
  BY CountedFinite, FS_RemoveElement
<1>2. Cardinality(Counted \ {u}) \in Nat /\ Cardinality(Counted) \in Nat
  BY <1>1, CountedFinite, FS_CardinalityType
<1>3. ASSUME NEW v \in Counted \ {u} PROVE Cardinality(Counted \ {u}) # 0
  BY <1>1, <1>3, FS_EmptySet
<1> QED
  BY <1>1, <1>2, <1>3

\* The user that is about to clear the count keeps the semaphore.
LEMMA LastUserStep == IInv /\ LastUser /\ [Next]_vars => LastUser'
<1> SUFFICES ASSUME IInv, LastUser, [Next]_vars PROVE LastUser'
  OBVIOUS
<1> USE UsersAssumption DEF LastUser, Take, Goto, Return, Outside, Inside
<1>0. /\ pc \in [Users -> Outside \cup Inside]
      /\ \A u, v \in Users : pc[u] \in Inside /\ pc[v] \in Inside => u = v
      /\ sem = NoUser => \A u \in Users : pc[u] \notin Inside
  BY DEF IInv, TypeOK, SemaphoreHeld
<1>1. ASSUME NEW u \in Users, EnableTake(u) \/ DisableTake(u) PROVE LastUser'
  BY <1>0, <1>1 DEF EnableTake, DisableTake
<1>2. ASSUME NEW u \in Users, EnableOn(u) PROVE LastUser'
  BY <1>0, <1>2 DEF EnableOn
<1>3. ASSUME NEW u \in Users, EnableFail(u) \/ EnableCount(u) PROVE LastUser'
  BY <1>0, <1>3 DEF EnableFail, EnableCount
<1>4. ASSUME NEW u \in Users, DisableNotRunning(u) \/ DisableShared(u) PROVE LastUser'
  BY <1>0, <1>4 DEF DisableNotRunning, DisableShared
<1>5. ASSUME NEW u \in Users, DisableOff(u) PROVE LastUser'
  BY <1>0, <1>5 DEF DisableOff
<1>6. ASSUME NEW u \in Users, DisableFail(u) \/ DisableClear(u) PROVE LastUser'
  BY <1>0, <1>6 DEF DisableFail, DisableClear
<1>7. CASE UNCHANGED vars
  BY <1>7 DEF vars
<1> QED
  BY <1>1, <1>2, <1>3, <1>4, <1>5, <1>6, <1>7 DEF Next, hfclk_enable, hfclk_disable

\* A lower bound that falls by one stays one of a number that falls by at most one.
LEMMA LowerDecrement ==
  ASSUME NEW n \in Nat, NEW n2 \in Nat, NEW c \in Nat, NEW c2 \in Nat,
         n >= c, n2 + 1 >= n, c2 = c - 1
  PROVE  n2 >= c2
OBVIOUS

\* Both bounds of the count: a start that fails gives up the lower one, a stop that
\* fails the upper one, and no other call does.
LEMMA BoundsStep == IInv /\ LastUser /\ Lower /\ Upper /\ [Next]_vars => Lower' /\ Upper'
<1> SUFFICES ASSUME IInv, LastUser, Lower, Upper, [Next]_vars PROVE Lower' /\ Upper'
  OBVIOUS
<1> DEFINE Granted == \A v \in Users : pc[v] \in {"using", "disabling", "clearing"} => granted[v]
<1> USE DEF Goto, Return
<1>0. /\ hfclk_count \in 0..255 /\ Cardinality(Counted) \in Nat
      /\ pc \in [Users -> Outside \cup Inside] /\ granted \in [Users -> BOOLEAN]
  BY CountedFinite DEF IInv, TypeOK
<1>1. ASSUME NEW u \in Users,
             EnableTake(u) \/ EnableOn(u) \/ DisableTake(u) \/ DisableOff(u)
      PROVE  Lower' /\ Upper'
  <2>1. /\ Cardinality(Counted)' = Cardinality(Counted)
        /\ hfclk_count' = hfclk_count /\ failed' = failed
    BY <1>1, CountedStep DEF EnableTake, EnableOn, DisableTake, DisableOff
  <2>2. Granted => Granted'
    BY <1>0, <1>1 DEF EnableTake, EnableOn, DisableTake, DisableOff
  <2> QED
    BY <2>1, <2>2 DEF Lower, Upper
<1>2. ASSUME NEW u \in Users, EnableFail(u) PROVE Lower' /\ Upper'
  <2>1. /\ Cardinality(Counted)' = Cardinality(Counted) /\ hfclk_count' = hfclk_count
        /\ "on" \in failed' /\ ("off" \notin failed' => "off" \notin failed)
    BY <1>2, CountedStep DEF EnableFail
  <2> QED
    BY <2>1 DEF Lower, Upper
<1>3. ASSUME NEW u \in Users, EnableCount(u) PROVE Lower' /\ Upper'
  <2>1. /\ Cardinality(Counted)' = Cardinality(Counted) + 1
        /\ hfclk_count' = hfclk_count + 1 /\ failed' = failed
    BY <1>3, CountedStep, NoWrap DEF EnableCount
  <2>2. Granted => Granted'
    BY <1>0, <1>3 DEF EnableCount
  <2> QED
    BY <1>0, <2>1, <2>2 DEF Lower, Upper
<1>4. ASSUME NEW u \in Users,
             DisableNotRunning(u) \/ DisableShared(u) \/ DisableFail(u) \/ DisableClear(u)
      PROVE  Lower' /\ Upper'
  <2>1. Cardinality(Counted)' \in Nat
    BY CountedFiniteNext
  <2>2. Granted => Granted'
    BY <1>0, <1>4 DEF DisableNotRunning, DisableShared, DisableFail, DisableClear
  <2>3. "on" \notin failed' => "on" \notin failed
    BY <1>4 DEF DisableNotRunning, DisableShared, DisableFail, DisableClear
  <2>4. Lower'
    <3> SUFFICES ASSUME "on" \notin failed' PROVE Granted' /\ hfclk_count' >= Cardinality(Counted)'
      BY DEF Lower
    <3>1. Granted
      BY <2>3 DEF Lower
    <3>0. hfclk_count >= Cardinality(Counted)
      BY <2>3 DEF Lower
    <3>2. granted[u]
      BY <1>4, <3>1 DEF DisableNotRunning, DisableShared, DisableFail, DisableClear
    <3>3. Cardinality(Counted)' = Cardinality(Counted) - 1
      BY <1>4, <3>2, CountedStep
    <3>4. hfclk_count' + 1 >= hfclk_count /\ hfclk_count' \in 0..255
      BY <1>0, <1>4, TypeStep
      DEF DisableNotRunning, DisableShared, DisableFail, DisableClear, LastUser, IInv, TypeOK
    <3>5. hfclk_count' >= Cardinality(Counted)'
      <4>1. /\ hfclk_count \in Nat /\ hfclk_count' \in Nat
            /\ Cardinality(Counted) \in Nat /\ Cardinality(Counted)' \in Nat
        BY <1>0, <2>1, <3>4
      <4> QED
        BY <4>1, <3>0, <3>3, <3>4, LowerDecrement
    <3> QED
      BY <2>2, <3>1, <3>5, Zenon
  <2>5. Upper'
    <3> SUFFICES ASSUME "off" \notin failed' PROVE hfclk_count' <= Cardinality(Counted)'
      BY DEF Upper
    <3>1. ~DisableFail(u) /\ hfclk_count <= Cardinality(Counted)
      BY <1>4 DEF DisableNotRunning, DisableShared, DisableFail, DisableClear, Upper
    <3>2. Cardinality(Counted)' + 1 >= Cardinality(Counted)
      BY <1>4, CountedStep
    <3>3. CASE DisableShared(u)
      BY <1>0, <2>1, <3>1, <3>2, <3>3 DEF DisableShared
    <3>4. CASE DisableNotRunning(u) \/ DisableClear(u)
      BY <2>1, <3>4 DEF DisableNotRunning, DisableClear
    <3> QED
      BY <1>4, <3>1, <3>3, <3>4
  <2> QED
    BY <2>4, <2>5
<1>5. CASE UNCHANGED vars
  BY <1>5 DEF vars, Lower, Upper, Counted
<1> QED
  BY <1>1, <1>2, <1>3, <1>4, <1>5 DEF Next, hfclk_enable, hfclk_disable

FullInv == IInv /\ LastUser /\ Lower /\ Upper

\* Both bounds of the count hold in every reachable state.
THEOREM FullInvariance == Spec => []FullInv
<1>1. Init => FullInv
  <2> SUFFICES ASSUME Init PROVE FullInv
    OBVIOUS
  <2>1. Counted = {}
    BY DEF Init, Counted
  <2>2. hfclk_count = Cardinality(Counted) /\ hfclk_count = 0
    BY <2>1, FS_EmptySet DEF Init
  <2> QED
    BY InitIInv, <2>2 DEF Init, FullInv, LastUser, Lower, Upper
<1>2. FullInv /\ [Next]_vars => FullInv'
  BY TypeStep, SemaphoreStep, CountStep, ClockStep, LastUserStep, BoundsStep DEF FullInv, IInv
<1> QED
  BY <1>1, <1>2, PTL DEF Spec

\* While no start of the clock failed, whoever was granted it has it.
THEOREM GrantedClock == Spec => []GrantedHasClock
<1>1. FullInv => GrantedHasClock
  <2> SUFFICES ASSUME FullInv, "on" \notin failed, NEW u \in Users, pc[u] = "using", granted[u]
               PROVE clock
    BY DEF GrantedHasClock
  <2>0. hfclk_count \in Nat /\ Cardinality(Counted) \in Nat
        /\ hfclk_count >= Cardinality(Counted) /\ u \in Counted
    BY CountedFinite DEF FullInv, IInv, TypeOK, Lower, Counted
  <2>1. hfclk_count > 0
    BY <2>0, CountedMembers
  <2>2. CASE sem = NoUser
    BY <2>1, <2>2 DEF FullInv, IInv, ClockInv
  <2>3. ASSUME NEW v \in Users, sem = v PROVE clock
    <3>1. pc[v] \in Inside /\ v # u
      BY <2>3 DEF FullInv, IInv, SemaphoreHeld, Inside
    <3>2. pc[v] # "clearing"
      <4> SUFFICES ASSUME pc[v] = "clearing" PROVE FALSE
        OBVIOUS
      <4>1. granted[v] /\ hfclk_count = 1
        BY DEF FullInv, Lower, LastUser
      <4>2. v \in Counted /\ u \in Counted \ {v}
        BY <2>0, <3>1, <4>1 DEF Counted
      <4>3. Cardinality(Counted) >= 2
        BY <4>2, CountedMembers
      <4> QED
        BY <2>0, <4>1, <4>3
    <3> QED
      BY <2>1, <3>1, <3>2 DEF FullInv, IInv, ClockInv, Inside
  <2> QED
    BY <2>2, <2>3 DEF FullInv, IInv, TypeOK
<1> QED
  BY <1>1, FullInvariance, PTL

\* While no stop of the clock failed, it is off when nobody uses it.
THEOREM IdleStopped == Spec => []IdleClockStopped
<1>1. FullInv => IdleClockStopped
  <2> SUFFICES ASSUME FullInv, "off" \notin failed, \A u \in Users : pc[u] = "idle"
               PROVE ~clock /\ hfclk_count = 0
    BY DEF IdleClockStopped
  <2>1. hfclk_count = 0
    <3>1. Counted = {}
      BY DEF Counted
    <3>2. hfclk_count <= 0 /\ hfclk_count \in Nat
      BY <3>1, FS_EmptySet DEF FullInv, Upper, IInv, TypeOK
    <3> QED
      BY <3>2
  <2>2. sem = NoUser
    BY DEF FullInv, IInv, TypeOK, SemaphoreHeld, Inside
  <2> QED
    BY <2>1, <2>2 DEF FullInv, IInv, ClockInv
<1> QED
  BY <1>1, FullInvariance, PTL

\* Every step of the counter is a step of the contract or leaves it alone: the clock
\* starts before the first grant and stops only after the last release, and a start
\* that fails voids the contract.
THEOREM ImplementsContract == Spec => ContractSpec
<1> DEFINE Holders == {u \in Users : granted[u] /\ pc[u] = "using"}
<1>1. Init => Contract!Init
  BY DEF Init, Contract!Init
<1>2. FullInv /\ [Next]_vars => [Contract!Next]_Contract!vars
  <2> SUFFICES ASSUME FullInv, [Next]_vars PROVE [Contract!Next]_Contract!vars
    OBVIOUS
  <2> USE DEF Goto, Return
  <2>0. /\ clock \in BOOLEAN /\ hfclk_count \in 0..255
        /\ pc \in [Users -> Outside \cup Inside] /\ granted \in [Users -> BOOLEAN]
    BY DEF FullInv, IInv, TypeOK
  <2>s. ASSUME Holders' = Holders, UNCHANGED <<clock, failed>> PROVE UNCHANGED Contract!vars
    BY <2>s DEF Contract!vars
  <2>v. ASSUME "on" \in failed, "on" \in failed' PROVE Contract!Next
    <3>1. clock' \in BOOLEAN /\ Holders' \in SUBSET Users
      <4>1. clock' \in BOOLEAN
        BY TypeStep DEF FullInv, IInv, TypeOK
      <4> QED
        BY <4>1, Zenon
    <3> QED
      BY <2>v, <3>1 DEF Contract!Next, Contract!Anything
  <2>k. "on" \in failed => "on" \in failed'
    BY DEF Next, vars, hfclk_enable, hfclk_disable, EnableTake, EnableOn, EnableFail, EnableCount,
           DisableTake, DisableNotRunning, DisableShared, DisableOff, DisableFail, DisableClear
  <2>g. CASE "on" \in failed
    BY <2>g, <2>k, <2>v
  <2>h. CASE "on" \notin failed
    <3>0. \A u \in Users : pc[u] \in {"using", "disabling", "clearing"} => granted[u]
      BY <2>h DEF FullInv, Lower
    <3>1. ASSUME NEW u \in Users,
                 EnableTake(u) \/ DisableNotRunning(u) \/ DisableShared(u) \/ DisableClear(u)
          PROVE UNCHANGED Contract!vars
      <4>1. Holders' = Holders
        BY <2>0, <3>1 DEF EnableTake, DisableNotRunning, DisableShared, DisableClear
      <4> QED
        BY <2>s, <3>1, <4>1 DEF EnableTake, DisableNotRunning, DisableShared, DisableClear
    <3>2. ASSUME NEW u \in Users, EnableOn(u) PROVE [Contract!Next]_Contract!vars
      <4>1. Holders' = Holders /\ UNCHANGED failed
        BY <2>0, <3>2 DEF EnableOn
      <4>2. CASE hfclk_count = 0
        <5>1. clock = FALSE /\ clock' = TRUE
          BY <2>0, <3>2, <4>2 DEF EnableOn, FullInv, IInv, ClockInv
        <5> QED
          BY <4>1, <5>1, Zenon DEF Contract!Next, Contract!Start
      <4>3. CASE hfclk_count # 0
        BY <3>2, <2>s, <4>1, <4>3 DEF EnableOn
      <4> QED
        BY <4>2, <4>3
    <3>3. ASSUME NEW u \in Users, EnableFail(u) PROVE Contract!Void
      <4>1. Holders' = Holders /\ UNCHANGED clock /\ "on" \in failed'
        BY <2>0, <3>3 DEF EnableFail
      <4> QED
        BY <4>1 DEF Contract!Void
    <3>4. ASSUME NEW u \in Users, EnableCount(u) PROVE Contract!Grant(u)
      <4>1. Holders' = Holders \cup {u}
        BY <2>0, <3>4 DEF EnableCount
      <4>2. clock /\ UNCHANGED <<clock, failed>>
        BY <3>4 DEF EnableCount, FullInv, IInv, ClockInv
      <4> QED
        BY <4>1, <4>2 DEF Contract!Grant
    <3>5. ASSUME NEW u \in Users, DisableTake(u) PROVE Contract!Release(u)
      <4>1. u \in Holders /\ Holders' = Holders \ {u} /\ UNCHANGED <<clock, failed>>
        BY <2>0, <3>0, <3>5 DEF DisableTake
      <4> QED
        BY <4>1 DEF Contract!Release
    <3>6. ASSUME NEW u \in Users, DisableFail(u) PROVE UNCHANGED Contract!vars
      <4>1. Holders' = Holders /\ UNCHANGED clock /\ "on" \notin failed'
        BY <2>0, <2>h, <3>6 DEF DisableFail
      <4> QED
        BY <2>h, <4>1 DEF Contract!vars
    <3>7. ASSUME NEW u \in Users, DisableOff(u) PROVE Contract!Stop
      <4>1. Counted \ {u} = {}
        <5> SUFFICES ASSUME NEW v \in Counted \ {u} PROVE FALSE
          OBVIOUS
        <5>1. u \in Counted /\ Cardinality(Counted) <= 1 /\ Cardinality(Counted) \in Nat
          BY <2>0, <2>h, <3>0, <3>7, CountedFinite DEF DisableOff, FullInv, Lower, Counted
        <5> QED
          BY <5>1, CountedMembers
      <4>2. Holders = {} /\ Holders' = {} /\ UNCHANGED failed
        BY <2>0, <3>7, <4>1 DEF DisableOff, Counted
      <4> QED
        BY <3>7, <4>2 DEF DisableOff, Contract!Stop
    <3>8. CASE UNCHANGED vars
      <4>1. Holders' = Holders /\ UNCHANGED <<clock, failed>>
        BY <3>8 DEF vars
      <4> QED
        BY <2>s, <4>1
    <3> QED
      BY <3>1, <3>2, <3>3, <3>4, <3>5, <3>6, <3>7, <3>8
      DEF Next, hfclk_enable, hfclk_disable, Contract!Next
  <2> QED
    BY <2>g, <2>h
<1> QED
  BY <1>1, <1>2, FullInvariance, PTL DEF Spec, ContractSpec, Contract!Spec
----------------------------------------------------------------------------
\* Every step of the infrared LED is one of the clock or leaves it alone.
LEMMA IrStepIsUse == [IrNext]_irVars => [Next]_vars
<1> SUFFICES ASSUME [IrNext]_irVars PROVE [Next]_vars
  OBVIOUS
<1>1. CASE IrClock
  BY <1>1, IrAssumption DEF IrClock, Next
<1>2. CASE Others
  BY <1>2 DEF Others, Next
<1>3. CASE UNCHANGED irVars
  BY <1>3 DEF irVars
<1>4. CASE Call \/ Lock \/ SendBit \/ NextByte \/ Unlock \/ LowPower
  BY <1>4 DEF Call, Lock, SendBit, NextByte, Unlock, LowPower
<1> QED
  BY <1>1, <1>2, <1>3, <1>4 DEF IrNext, ir_led_send

\* The infrared LED is a user of the clock like the others: its calls, and what its lock
\* of the interrupts keeps from happening, are steps of the clock or leave it alone.
THEOREM IrLedIsUser == IrSpec => Spec
<1>1. IrInit => Init
  BY DEF IrInit
<1> QED
  BY <1>1, IrStepIsUse, PTL DEF IrSpec, Spec

\* While a frame is sent its sender uses the clock and nobody else runs.
Sending == ir = "sending" => irq /\ pc[Ir] = "using"

\* A frame has the clock for the whole time it is sent, unless the clock ever refused to
\* start.
THEOREM FrameClock == IrSpec => []FrameHasClock
<1>1. IrInit => Sending
  BY DEF IrInit, Sending
<1>2. Sending /\ [IrNext]_irVars => Sending'
  <2> SUFFICES ASSUME Sending, [IrNext]_irVars PROVE Sending'
    OBVIOUS
  <2> USE DEF Sending
  <2>1. CASE Call
    BY <2>1 DEF Call
  <2>2. CASE Lock
    BY <2>2 DEF Lock, vars
  <2>3. CASE SendBit \/ NextByte
    BY <2>3 DEF SendBit, NextByte, vars
  <2>4. CASE Unlock \/ LowPower
    BY <2>4 DEF Unlock, LowPower
  <2>5. CASE IrClock
    BY <2>5 DEF IrClock, sending
  <2>6. CASE Others
    BY <2>6 DEF Others, sending
  <2>7. CASE UNCHANGED irVars
    BY <2>7 DEF irVars, vars, sending
  <2> QED
    BY <2>1, <2>2, <2>3, <2>4, <2>5, <2>6, <2>7 DEF IrNext, ir_led_send
<1>3. FullInv /\ GrantedHasClock /\ Sending => FrameHasClock
  BY IrAssumption DEF FullInv, Lower, Sending, FrameHasClock, GrantedHasClock
<1> QED
  BY <1>1, <1>2, <1>3, IrLedIsUser, FullInvariance, GrantedClock, PTL DEF IrSpec
----------------------------------------------------------------------------
(* The frame of the infrared LED.                                           *)

\* The weights by which the shifts have multiplied a byte.
Shifts == <<1, 2, 4, 8, 16, 32, 64, 128, 256>>

\* A byte, its highest bit, what is left of it when n bits are shifted out, and its n-th bit
\* from the top.
UInt8 == 0..255
Highest(c) == IF c \div 128 = 0 THEN 0 ELSE 1
ShiftedOut(b, n) == (b * Shifts[n + 1]) % 256
NthBit(b, n) == (b \div Weight[n + 1]) % 2

\* The frame so far holds the bits of the bytes before the q-th and t of its own, and check
\* is the q-th byte with those t shifted out.
FrameInv ==
  /\ ir \in {"sending", "sent"} =>
       /\ Len(spaces) = 8 * q + t
       /\ \A i \in 1..Len(spaces) : spaces[i] = BitOf(data, i)
       /\ q < command_size => check = ShiftedOut(data[q + 1], t)
       /\ q = command_size => t = 0
  /\ ir = "sent" => q = command_size

IrInv == IrTypeOK /\ FrameInv

\* The commands are eleven bytes.
LEMMA CommandBytes ==
  /\ command_size = 11
  /\ \A d \in Commands : \A i \in 1..11 : d[i] \in UInt8
<1> DEFINE bytes(d) == d \in Seq(UInt8) /\ Len(d) = 11
<1>1. bytes(command_off)
  BY SMT DEF command_off, Address, UInt8
<1>2. bytes(command_cooldown_2h)
  BY SMT DEF command_cooldown_2h, Address, UInt8
<1>3. bytes(command_ac_medium_18c_move)
  BY SMT DEF command_ac_medium_18c_move, Address, UInt8
<1>4. bytes(command_ac_high_18c_move)
  BY SMT DEF command_ac_high_18c_move, Address, UInt8
<1>5. ASSUME NEW d, bytes(d) PROVE \A i \in 1..11 : d[i] \in UInt8
  <2>1. \A s \in Seq(UInt8) : s \in [1..Len(s) -> UInt8]
    BY LenProperties
  <2>2. d \in Seq(UInt8) /\ Len(d) = 11
    BY <1>5, Zenon
  <2>3. d \in [1..11 -> UInt8]
    BY <2>1, <2>2, Zenon
  <2> QED
    BY <2>3, Zenon
<1>6. command_size = 11
  BY <1>1, SMT DEF command_size
<1> HIDE DEF bytes
<1>7. \A d \in Commands : bytes(d)
  BY <1>1, <1>2, <1>3, <1>4, Zenon DEF Commands
<1> QED
  BY <1>5, <1>6, <1>7, Zenon

\* What is tested and shifted for the t-th bit of a byte.
LEMMA ShiftedBit ==
  ASSUME NEW b \in UInt8, NEW n \in 0..7
  PROVE  /\ Highest(ShiftedOut(b, n)) = NthBit(b, n)
         /\ Shift(ShiftedOut(b, n)) = ShiftedOut(b, n + 1)
<1>1. CASE n = 0
  BY <1>1, SMT DEF UInt8, Highest, ShiftedOut, NthBit, Shifts, Weight, Shift
<1>2. CASE n = 1
  BY <1>2, SMT DEF UInt8, Highest, ShiftedOut, NthBit, Shifts, Weight, Shift
<1>3. CASE n = 2
  BY <1>3, SMT DEF UInt8, Highest, ShiftedOut, NthBit, Shifts, Weight, Shift
<1>4. CASE n = 3
  BY <1>4, SMT DEF UInt8, Highest, ShiftedOut, NthBit, Shifts, Weight, Shift
<1>5. CASE n = 4
  BY <1>5, SMT DEF UInt8, Highest, ShiftedOut, NthBit, Shifts, Weight, Shift
<1>6. CASE n = 5
  BY <1>6, SMT DEF UInt8, Highest, ShiftedOut, NthBit, Shifts, Weight, Shift
<1>7. CASE n = 6
  BY <1>7, SMT DEF UInt8, Highest, ShiftedOut, NthBit, Shifts, Weight, Shift
<1>8. CASE n = 7
  BY <1>8, SMT DEF UInt8, Highest, ShiftedOut, NthBit, Shifts, Weight, Shift
<1> QED
  BY <1>1, <1>2, <1>3, <1>4, <1>5, <1>6, <1>7, <1>8, SMT

\* The counters, the byte that is shifted and the bits sent keep their types.
LEMMA IrTypeStep ==
  ASSUME IrTypeOK, [IrNext]_irVars
  PROVE  IrTypeOK'
<1>0. TypeOK'
  BY IrStepIsUse, TypeStep DEF IrTypeOK
<1>a. /\ ir \in {"idle", "called", "sending", "sent"} /\ irq \in BOOLEAN
      /\ latency \in {"low power", "constant"} /\ data \in Commands
      /\ q \in 0..command_size /\ t \in 0..8 /\ check \in 0..255 /\ spaces \in Seq({0, 1})
  BY Zenon DEF IrTypeOK
<1>b. command_size = 11 /\ \A d \in Commands : \A i \in 1..11 : d[i] \in 0..255
  BY CommandBytes, Zenon DEF UInt8
<1>c. /\ 0 \in 0..command_size /\ 0 \in 0..8 /\ 0 \in 0..255 /\ 1 \in 1..11
      /\ <<>> \in Seq({0, 1}) /\ command_off \in Commands
  <2>1. command_off \in Commands
    BY Zenon DEF Commands
  <2> QED
    BY <1>b, <2>1, SMT
<1>1. CASE Call
  <2>1. /\ ir' = "called" /\ data' \in Commands /\ latency' = "constant"
        /\ UNCHANGED <<irq, q, t, check, spaces>>
    BY <1>1, Zenon DEF Call
  <2> QED
    BY <1>0, <1>a, <2>1, Zenon DEF IrTypeOK
<1>2. CASE Lock
  <2>1. /\ ir' = "sending" /\ irq' = TRUE /\ q' = 0 /\ t' = 0 /\ check' = data[1]
        /\ spaces' = <<>> /\ UNCHANGED <<latency, data>>
    BY <1>2, Zenon DEF Lock
  <2> QED
    BY <1>0, <1>a, <1>b, <1>c, <2>1, Zenon DEF IrTypeOK
<1>3. CASE SendBit
  <2>1. /\ t < 8 /\ t' = t + 1 /\ check' = (check * 2) % 256
        /\ spaces' = Append(spaces, IF check \div 128 = 0 THEN 0 ELSE 1)
        /\ UNCHANGED <<ir, irq, latency, data, q>>
    BY <1>3, Zenon DEF SendBit, Shift
  <2>2. t' \in 0..8 /\ check' \in 0..255
    <3>1. t \in 0..8 /\ check \in 0..255 /\ t < 8 /\ t' = t + 1 /\ check' = (check * 2) % 256
      BY <1>a, <2>1, Zenon
    <3> QED
      BY <3>1, SMT
  <2>3. spaces' \in Seq({0, 1})
    <3>1. spaces \in Seq({0, 1})
      BY <1>a
    <3> QED
      BY <2>1, <3>1, SMT
  <2> QED
    BY <1>0, <1>a, <2>1, <2>2, <2>3, Zenon DEF IrTypeOK
<1>4. CASE NextByte
  <2>1. /\ q < command_size /\ q' = q + 1 /\ t' = 0
        /\ check' = IF q' < command_size THEN data[q' + 1] ELSE check
        /\ UNCHANGED <<ir, irq, latency, data, spaces>>
    BY <1>4, Zenon DEF NextByte
  <2>2. q \in 0..11 /\ q < 11 /\ q' = q + 1
    BY <1>a, <1>b, <2>1, Zenon
  <2>3. q' \in 0..11 /\ (q' < 11 => q' + 1 \in 1..11)
    BY <2>2, SMT
  <2>4. check' \in 0..255
    BY <1>a, <1>b, <2>1, <2>3, Zenon
  <2> QED
    BY <1>0, <1>a, <1>b, <1>c, <2>1, <2>3, <2>4, Zenon DEF IrTypeOK
<1>5. CASE Unlock
  <2>1. ir' = "sent" /\ irq' = FALSE /\ UNCHANGED latency /\ UNCHANGED <<data, q, t, check, spaces>>
    BY <1>5, Zenon DEF Unlock, frame
  <2> QED
    BY <1>0, <1>a, <2>1, Zenon DEF IrTypeOK
<1>6. CASE LowPower
  <2>1. /\ ir' = "idle" /\ latency' = "low power" /\ data' = command_off /\ q' = 0 /\ t' = 0
        /\ check' = 0 /\ spaces' = <<>> /\ UNCHANGED irq
    BY <1>6, Zenon DEF LowPower
  <2> QED
    BY <1>0, <1>a, <1>c, <2>1, Zenon DEF IrTypeOK
<1>7. CASE IrClock \/ Others \/ UNCHANGED irVars
  <2>1. UNCHANGED sending
    BY <1>7, Zenon DEF IrClock, Others, irVars
  <2>2. UNCHANGED <<ir, irq, latency>> /\ UNCHANGED <<data, q, t, check, spaces>>
    BY <2>1, Zenon DEF sending, frame
  <2> QED
    BY <1>0, <1>a, <2>2, Zenon DEF IrTypeOK
<1> QED
  BY <1>1, <1>2, <1>3, <1>4, <1>5, <1>6, <1>7, Zenon DEF IrNext, ir_led_send

LEMMA IrInitTypes == IrInit => IrTypeOK
<1> SUFFICES ASSUME IrInit PROVE IrTypeOK
  OBVIOUS
<1>1. TypeOK
  BY InitIInv, Zenon DEF IrInit, IInv
<1>2. /\ 0 \in 0..command_size /\ 0 \in 0..8 /\ 0 \in 0..255 /\ <<>> \in Seq({0, 1})
  BY CommandBytes, SMT
<1>3. command_off \in Commands
  BY Zenon DEF Commands
<1> QED
  BY <1>1, <1>2, <1>3, Zenon DEF IrInit, IrTypeOK

\* A call's counters stay within the command and the byte, whatever the clock answers.
THEOREM IrTyping == IrSpec => []IrTypeOK
  BY IrInitTypes, IrTypeStep, PTL DEF IrSpec

\* Every bit goes on the air as it stands in the command.
LEMMA FrameStep ==
  ASSUME IrInv, [IrNext]_irVars
  PROVE  FrameInv'
<1>a. /\ data \in Commands /\ q \in 0..11 /\ t \in 0..8 /\ spaces \in Seq({0, 1})
      /\ command_size = 11 /\ \A d \in Commands : \A i \in 1..11 : d[i] \in UInt8
  BY CommandBytes, Zenon DEF IrInv, IrTypeOK
<1>b. FrameInv
  BY DEF IrInv
<1>1. CASE Call
  BY <1>1 DEF Call, FrameInv
<1>2. CASE Lock
  <2>1. /\ ir' = "sending" /\ q' = 0 /\ t' = 0 /\ check' = data[1] /\ spaces' = <<>>
        /\ UNCHANGED data
    BY <1>2, Zenon DEF Lock
  <2>2. data[1] \in UInt8
    BY <1>a
  <2>3. data[1] = ShiftedOut(data[0 + 1], 0)
    BY <2>2, SMT DEF UInt8, ShiftedOut, Shifts
  <2> QED
    BY <1>a, <2>1, <2>3 DEF FrameInv
<1>3. CASE SendBit
  <2>1. /\ ir = "sending" /\ q < 11 /\ t < 8 /\ t' = t + 1 /\ check' = Shift(check)
        /\ spaces' = Append(spaces, Highest(check))
        /\ UNCHANGED <<ir, data, q>>
    BY <1>3, <1>a, Zenon DEF SendBit, Highest
  <2>2. /\ Len(spaces) = 8 * q + t /\ \A i \in 1..Len(spaces) : spaces[i] = BitOf(data, i)
        /\ check = ShiftedOut(data[q + 1], t)
    BY <1>a, <1>b, <2>1 DEF FrameInv
  <2>3. /\ q + 1 \in 1..11 /\ t \in 0..7
    BY <1>a, <2>1, SMT
  <2>4. data[q + 1] \in UInt8
    BY <1>a, <2>3, Zenon
  <2>5. Highest(check) = NthBit(data[q + 1], t) /\ Shift(check) = ShiftedOut(data[q + 1], t + 1)
    BY <2>2, <2>3, <2>4, ShiftedBit, Zenon
  <2>6. BitOf(data, 8 * q + t + 1) = NthBit(data[q + 1], t)
    <3>1. ((8 * q + t + 1) - 1) \div 8 = q /\ ((8 * q + t + 1) - 1) % 8 = t
      BY <1>a, <2>3, SMT
    <3> QED
      BY <3>1, Zenon DEF BitOf, NthBit
  <2>7. /\ Len(spaces') = 8 * q + t + 1
        /\ \A i \in 1..(8 * q + t) : spaces'[i] = spaces[i]
        /\ spaces'[8 * q + t + 1] = BitOf(data, 8 * q + t + 1)
    <3> DEFINE bit == Highest(check)
    <3>1. bit = BitOf(data, 8 * q + t + 1) /\ bit \in {0, 1}
      BY <2>5, <2>6, Zenon DEF Highest
    <3> HIDE DEF bit
    <3>2. spaces' = Append(spaces, bit) /\ spaces \in Seq({0, 1}) /\ Len(spaces) = 8 * q + t
      BY <1>a, <2>1, <2>2 DEF bit
    <3>3. q \in Nat /\ t \in Nat
      BY <1>a
    <3> QED
      BY <3>1, <3>2, <3>3
  <2>8. \A i \in 1..Len(spaces') : spaces'[i] = BitOf(data, i)
    <3> SUFFICES ASSUME NEW i \in 1..(8 * q + t + 1) PROVE spaces'[i] = BitOf(data, i)
      BY <2>7
    <3>1. i \in 1..(8 * q + t) \/ i = 8 * q + t + 1
      BY <1>a, SMT
    <3> QED
      BY <2>2, <2>7, <3>1, Zenon
  <2>9. check' = ShiftedOut(data'[q' + 1], t') /\ Len(spaces') = 8 * q' + t'
    <3>1. 8 * q + t + 1 = 8 * q + (t + 1)
      BY <1>a, SMT
    <3> QED
      BY <2>1, <2>5, <2>7, <3>1, Zenon
  <2>10. data' = data /\ q' # command_size' /\ ir' # "sent"
    BY <1>a, <2>1 DEF command_size, command_off, Address
  <2> QED
    BY <2>8, <2>9, <2>10, Zenon DEF FrameInv
<1>4. CASE NextByte
  <2>1. /\ ir = "sending" /\ q < 11 /\ t = 8 /\ q' = q + 1 /\ t' = 0
        /\ check' = IF q' < 11 THEN data[q' + 1] ELSE check
        /\ UNCHANGED <<ir, data, spaces>>
    BY <1>4, <1>a, Zenon DEF NextByte
  <2>2. Len(spaces) = 8 * q + t /\ \A i \in 1..Len(spaces) : spaces[i] = BitOf(data, i)
    BY <1>b, <2>1 DEF FrameInv
  <2>3. Len(spaces') = 8 * q' + t'
    <3>1. 8 * q + 8 = 8 * (q + 1) + 0
      BY <1>a, SMT
    <3> QED
      BY <2>1, <2>2, <3>1, Zenon
  <2>4. q' < 11 => check' = ShiftedOut(data[q' + 1], t')
    <3> SUFFICES ASSUME q' < 11 PROVE check' = ShiftedOut(data[q' + 1], t')
      OBVIOUS
    <3>1. q' + 1 \in 1..11
      BY <1>a, <2>1
    <3>2. data[q' + 1] \in UInt8 /\ check' = data[q' + 1] /\ t' = 0
      BY <1>a, <2>1, <3>1, Zenon
    <3>3. \A b \in UInt8 : b = ShiftedOut(b, 0)
      BY SMT DEF UInt8, ShiftedOut, Shifts
    <3> QED
      BY <3>2, <3>3, Zenon
  <2> QED
    BY <1>a, <2>1, <2>2, <2>3, <2>4, Zenon DEF FrameInv
<1>5. CASE Unlock
  <2>1. /\ ir = "sending" /\ q = command_size /\ ir' = "sent" /\ UNCHANGED <<data, q, t, check, spaces>>
    BY <1>5, Zenon DEF Unlock, frame
  <2> QED
    BY <1>b, <2>1 DEF FrameInv
<1>6. CASE LowPower
  BY <1>6 DEF LowPower, FrameInv
<1>7. CASE IrClock \/ Others \/ UNCHANGED irVars
  <2>1. UNCHANGED sending
    BY <1>7, Zenon DEF IrClock, Others, irVars
  <2>2. UNCHANGED <<ir, irq, latency>> /\ UNCHANGED <<data, q, t, check, spaces>>
    BY <2>1, Zenon DEF sending, frame
  <2> QED
    BY <1>b, <2>2 DEF FrameInv
<1> QED
  BY <1>1, <1>2, <1>3, <1>4, <1>5, <1>6, <1>7, Zenon DEF IrNext, ir_led_send

\* What was sent when the sender unlocks the interrupts are the bits of its command, each byte's
\* highest first, whoever shares the clock and whatever it answers.
THEOREM FrameSent == IrSpec => []FrameIsCommand
<1>1. IrInit => FrameInv
  BY DEF IrInit, FrameInv
<1>2. IrInv => FrameIsCommand
  <2> SUFFICES ASSUME IrInv, ir = "sent"
               PROVE  spaces = [i \in 1..(8 * command_size) |-> BitOf(data, i)]
    BY DEF FrameIsCommand
  <2>1. /\ Len(spaces) = 8 * q + t /\ q = command_size /\ t = 0 /\ command_size = 11
        /\ \A i \in 1..Len(spaces) : spaces[i] = BitOf(data, i)
    BY CommandBytes DEF IrInv, FrameInv
  <2>2. spaces \in Seq({0, 1})
    BY DEF IrInv, IrTypeOK
  <2>3. 8 * q + t = 8 * command_size
    BY <2>1
  <2>4. spaces = [i \in 1..Len(spaces) |-> spaces[i]]
    BY <2>2
  <2> QED
    BY <2>1, <2>3, <2>4, Zenon
<1> QED
  BY <1>1, <1>2, IrInitTypes, IrTypeStep, FrameStep, PTL DEF IrSpec, IrInv
=============================================================================
