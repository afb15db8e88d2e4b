---------------------------- MODULE UplinkProofs ----------------------------
(* Proofs about the two components that send: LoraUplink for any set of     *)
(* senders and any configuration, and SmpLora for any sizes of responses    *)
(* and payloads and any length of a request.                                *)
EXTENDS LoraUplink, SmpLora, TLAPS

\* What is loaded from the counter is in the range of the counter.
RangeInv == CountInRange /\ \A s \in Senders : loaded[s] <= After

\* How far each call is: nothing accepted before "load", one packet from there on, and no
\* attempt both still to be made and used for a packet nobody acknowledged.
ProgressInv ==
  \A s \in Senders :
    /\ pc[s] \in {"choose", "send"} =>
         accepted[s] = 0 /\ attempts[s] > 0 /\ result[s] = "none"
    /\ pc[s] \in {"load", "store"} => accepted[s] = 1 /\ result[s] = "none"
    /\ accepted[s] \in {0, 1} /\ (accepted[s] = 1 => attempts[s] > 0)
    /\ unheard[s] + attempts[s] <= Attempts

\* A packet is confirmed only where the configuration or the caller asks for it.
ConfirmInv ==
  \A s \in Senders : /\ forced[s] => s \in Forcing
                     /\ pc[s] = "send" /\ confirmed[s] => MayConfirm(s)

IInv == TypeOK /\ RangeInv /\ ProgressInv /\ ConfirmInv /\ OneHeardPerCall

\* The values a step of s gives the functions it changes.
LEMMA TypeStep == IInv /\ [Next]_vars => TypeOK'
<1> SUFFICES ASSUME IInv, [Next]_vars PROVE TypeOK'
  OBVIOUS
<1> USE UplinkAssumption DEF IInv, TypeOK, counter, Goto, Return, Retry
<1>1. ASSUME NEW s \in Senders, Call(s) PROVE TypeOK'
  <2>1. PICK force \in BOOLEAN : forced' = [forced EXCEPT ![s] = force]
    BY <1>1, Zenon DEF Call
  <2>2. forced' \in [Senders -> BOOLEAN] /\ overlapped' \in BOOLEAN
    <3>1. forced' \in [Senders -> BOOLEAN]
      BY <2>1
    <3>2. overlapped' \in BOOLEAN
      BY <1>1, Zenon DEF Call
    <3> QED
      BY <3>1, <3>2
  <2> QED
    BY <1>1, <2>2 DEF Call
<1>2. ASSUME NEW s \in Senders, Choose(s) PROVE TypeOK'
  <2>1. MustConfirm(s) \in BOOLEAN
    BY DEF MustConfirm
  <2> QED
    BY <1>2, <2>1 DEF Choose
<1>3. ASSUME NEW s \in Senders, Accept(s) PROVE TypeOK'
  <2>1. since' \in 0..(After + 1)
    BY <1>3 DEF Accept
  <2>2. pc' \in [Senders -> {"idle", "choose", "send", "load", "store"}]
        /\ result' \in [Senders -> {"none", "ok", "error"}]
    BY <1>3 DEF Accept
  <2> QED
    BY <1>3, <2>1, <2>2 DEF Accept
<1>4. ASSUME NEW s \in Senders, Reject(s) PROVE TypeOK'
  <2>1. attempts[s] > 0 /\ attempts[s] \in 0..Attempts
    BY <1>4 DEF Reject, ProgressInv
  <2>2. feeding' \in BOOLEAN
    BY <1>4 DEF Reject
  <2>3. pc' \in [Senders -> {"idle", "choose", "send", "load", "store"}]
        /\ result' \in [Senders -> {"none", "ok", "error"}]
    BY <1>4 DEF Reject
  <2> QED
    BY <1>4, <2>1, <2>2, <2>3 DEF Reject
<1>8. ASSUME NEW s \in Senders, Unheard(s) PROVE TypeOK'
  <2>1. attempts[s] > 0 /\ attempts[s] \in 0..Attempts
    BY <1>8 DEF Unheard, ProgressInv
  <2>2. feeding' \in BOOLEAN
    BY <1>8 DEF Unheard
  <2>3. pc' \in [Senders -> {"idle", "choose", "send", "load", "store"}]
        /\ result' \in [Senders -> {"none", "ok", "error"}]
    BY <1>8 DEF Unheard
  <2> QED
    BY <1>8, <2>1, <2>2, <2>3 DEF Unheard
<1>5. ASSUME NEW s \in Senders, Load(s) PROVE TypeOK'
  BY <1>5 DEF Load
<1>6. ASSUME NEW s \in Senders, Store(s) PROVE TypeOK'
  <2>1. NextCount(s) \in 0..255
    BY DEF NextCount, RangeInv
  <2> QED
    BY <1>6, <2>1 DEF Store
<1>7. CASE UNCHANGED vars
  BY <1>7 DEF vars
<1> QED
  BY <1>1, <1>2, <1>3, <1>4, <1>5, <1>6, <1>7, <1>8 DEF Next, lora_send_message

\* The counter stays in range: a thread stores 0, or one more than a value below After.
LEMMA RangeStep == IInv /\ [Next]_vars => RangeInv'
<1> SUFFICES ASSUME IInv, [Next]_vars PROVE RangeInv'
  OBVIOUS
<1> USE UplinkAssumption DEF IInv, TypeOK, RangeInv, CountInRange, counter
<1>1. ASSUME NEW s \in Senders, Call(s) \/ Choose(s) \/ Accept(s) \/ Reject(s) \/ Unheard(s)
      PROVE RangeInv'
  BY <1>1 DEF Call, Choose, Accept, Reject, Unheard
<1>2. ASSUME NEW s \in Senders, Load(s) PROVE RangeInv'
  BY <1>2 DEF Load
<1>3. ASSUME NEW s \in Senders, Store(s) PROVE RangeInv'
  BY <1>3 DEF Store, NextCount
<1>4. CASE UNCHANGED vars
  BY <1>4 DEF vars
<1> QED
  BY <1>1, <1>2, <1>3, <1>4 DEF Next, lora_send_message

\* Who may confirm is settled by the configuration and by the caller.
LEMMA ConfirmStep == IInv /\ [Next]_vars => ConfirmInv'
<1> SUFFICES ASSUME IInv, [Next]_vars PROVE ConfirmInv'
  OBVIOUS
<1> USE DEF ConfirmInv, MayConfirm, Goto, Return, Retry
<1>0. /\ pc \in [Senders -> {"idle", "choose", "send", "load", "store"}]
      /\ forced \in [Senders -> BOOLEAN] /\ confirmed \in [Senders -> BOOLEAN]
      /\ ConfirmInv
  BY DEF IInv, TypeOK
<1>1. ASSUME NEW s \in Senders, Call(s) PROVE ConfirmInv'
  <2>1. PICK force \in IF s \in Forcing THEN BOOLEAN ELSE {FALSE} :
          forced' = [forced EXCEPT ![s] = force]
    BY <1>1, Zenon DEF Call
  <2>2. force => s \in Forcing
    BY <2>1
  <2>3. \A t \in Senders : forced'[t] => t \in Forcing
    BY <1>0, <2>1, <2>2
  <2>4. \A t \in Senders : pc'[t] = "send" => pc[t] = "send"
    BY <1>0, <1>1 DEF Call
  <2> QED
    BY <1>0, <1>1, <2>3, <2>4, Zenon DEF Call
<1>2. ASSUME NEW s \in Senders, Choose(s) PROVE ConfirmInv'
  <2>1. confirmed' = [confirmed EXCEPT ![s] = MustConfirm(s)] /\ UNCHANGED forced
    BY <1>2, Zenon DEF Choose
  <2>2. MustConfirm(s) => MayConfirm(s)
    BY <1>0 DEF MustConfirm
  <2>3. confirmed'[s] => MayConfirm(s)
    BY <1>0, <2>1, <2>2, Zenon
  <2>4. \A t \in Senders \ {s} : confirmed'[t] = confirmed[t] /\ pc'[t] = pc[t]
    BY <1>0, <1>2, <2>1 DEF Choose
  <2> QED
    BY <1>0, <2>1, <2>3, <2>4, Zenon
<1>3. ASSUME NEW s \in Senders,
             Accept(s) \/ Reject(s) \/ Unheard(s) \/ Load(s) \/ Store(s)
      PROVE  ConfirmInv'
  <2>1. UNCHANGED <<forced, confirmed>> /\ \A t \in Senders : pc'[t] = "send" => pc[t] = "send"
    BY <1>0, <1>3 DEF Accept, Reject, Unheard, Load, Store
  <2> QED
    BY <1>0, <2>1, Zenon
<1>4. CASE UNCHANGED vars
  BY <1>0, <1>4, Zenon DEF vars
<1> QED
  BY <1>1, <1>2, <1>3, <1>4, Zenon DEF Next, lora_send_message

\* One call makes one transition at a time and no other thread's call changes with it.
LEMMA CallStep == IInv /\ [Next]_vars => ProgressInv' /\ OneHeardPerCall'
<1> SUFFICES ASSUME IInv, [Next]_vars PROVE ProgressInv' /\ OneHeardPerCall'
  OBVIOUS
<1> USE UplinkAssumption DEF ProgressInv, OneHeardPerCall, Goto, Return, Retry
<1>0. /\ pc \in [Senders -> {"idle", "choose", "send", "load", "store"}]
      /\ attempts \in [Senders -> 0..Attempts]
      /\ accepted \in [Senders -> Nat] /\ unheard \in [Senders -> Nat]
      /\ result \in [Senders -> {"none", "ok", "error"}]
      /\ ProgressInv /\ OneHeardPerCall
      /\ \A s \in Senders : pc[s] = "send" /\ confirmed[s] => MayConfirm(s)
  BY DEF IInv, TypeOK, ConfirmInv
<1>1. ASSUME NEW s \in Senders, Call(s) PROVE ProgressInv' /\ OneHeardPerCall'
  BY <1>0, <1>1 DEF Call
<1>2. ASSUME NEW s \in Senders, Choose(s) PROVE ProgressInv' /\ OneHeardPerCall'
  BY <1>0, <1>2 DEF Choose
<1>3. ASSUME NEW s \in Senders, Accept(s) PROVE ProgressInv' /\ OneHeardPerCall'
  BY <1>0, <1>3 DEF Accept
<1>4. ASSUME NEW s \in Senders, Reject(s) PROVE ProgressInv' /\ OneHeardPerCall'
  BY <1>0, <1>4 DEF Reject
<1>5. ASSUME NEW s \in Senders, Unheard(s) PROVE ProgressInv' /\ OneHeardPerCall'
  <2>1. MayConfirm(s)
    BY <1>0, <1>5, Zenon DEF Unheard
  <2> QED
    BY <1>0, <1>5, <2>1 DEF Unheard
<1>6. ASSUME NEW s \in Senders, Load(s) PROVE ProgressInv' /\ OneHeardPerCall'
  BY <1>0, <1>6 DEF Load
<1>7. ASSUME NEW s \in Senders, Store(s) PROVE ProgressInv' /\ OneHeardPerCall'
  BY <1>0, <1>7 DEF Store
<1>8. CASE UNCHANGED vars
  BY <1>0, <1>8 DEF vars
<1> QED
  BY <1>1, <1>2, <1>3, <1>4, <1>5, <1>6, <1>7, <1>8 DEF Next, lora_send_message

\* The invariant holds in every reachable state, however the threads interleave.
THEOREM Invariance == Spec => []IInv
<1>1. Init => IInv
  <2> SUFFICES ASSUME Init PROVE IInv
    OBVIOUS
  <2>1. forced \in [Senders -> BOOLEAN] /\ confirmed \in [Senders -> BOOLEAN]
        /\ feeding \in BOOLEAN /\ overlapped \in BOOLEAN
    BY Zenon DEF Init
  <2>2. /\ unconfirmed_packets \in 0..255 /\ since \in 0..(After + 1)
        /\ pc \in [Senders -> {"idle", "choose", "send", "load", "store"}]
        /\ attempts \in [Senders -> 0..Attempts]
        /\ loaded \in [Senders -> 0..255]
        /\ accepted \in [Senders -> Nat] /\ unheard \in [Senders -> Nat]
        /\ result \in [Senders -> {"none", "ok", "error"}]
    BY UplinkAssumption DEF Init
  <2>3. RangeInv /\ ProgressInv /\ OneHeardPerCall
    BY UplinkAssumption DEF Init, RangeInv, CountInRange, ProgressInv, OneHeardPerCall
  <2>4. ConfirmInv
    BY DEF Init, ConfirmInv
  <2> QED
    BY <2>1, <2>2, <2>3, <2>4 DEF IInv, TypeOK
<1>2. IInv /\ [Next]_vars => IInv'
  BY TypeStep, RangeStep, ConfirmStep, CallStep DEF IInv
<1> QED
  BY <1>1, <1>2, PTL DEF Spec

\* The variables keep their types, whatever fails and however the threads interleave.
THEOREM Typing == Spec => []TypeOK
<1>1. IInv => TypeOK
  BY DEF IInv
<1> QED
  BY <1>1, Invariance, PTL

\* With any number of senders the counter stays where a comparison with After can
\* still succeed.
THEOREM CounterInRange == Spec => []CountInRange
<1>1. IInv => CountInRange
  BY DEF IInv, RangeInv
<1> QED
  BY Invariance, <1>1, PTL

\* With any number of senders and attempts, a call that succeeds got one packet through, a call
\* that fails none, and beyond that each sent only confirmed packets nobody acknowledged, none
\* if it can send no confirmed packet, and no more packets than it has attempts.
THEOREM CallsAgree == Spec => []OneHeardPerCall
<1>1. IInv => OneHeardPerCall
  BY DEF IInv
<1> QED
  BY Invariance, <1>1, PTL

\* Every step of every thread is, seen by its callers, the beginning of a call, a packet of it, its
\* return, or nothing: choosing, refused attempts and the counter do not show.
THEOREM KeepsPromise == Spec => PromiseSpec
<1> DEFINE Callers == {s \in Senders : pc[s] # "idle"}
           Through == {s \in Senders : accepted[s] > 0}
           Sends == [s \in Senders |-> accepted[s] + unheard[s]]
<1>1. Init => Promise!Init
  <2> SUFFICES ASSUME Init PROVE Promise!Init
    OBVIOUS
  <2>1. Callers = {} /\ Through = {}
    BY DEF Init
  <2>2. feeding = TRUE
    BY Zenon DEF Init
  <2>3. Sends = [s \in Senders |-> 0] /\ result = [s \in Senders |-> "none"]
    BY DEF Init
  <2> QED
    BY <2>1, <2>2, <2>3, Zenon DEF Promise!Init
<1>2. IInv /\ [Next]_vars => [Promise!Next]_Promise!vars
  <2> SUFFICES ASSUME IInv, [Next]_vars PROVE [Promise!Next]_Promise!vars
    OBVIOUS
  <2>0. /\ pc \in [Senders -> {"idle", "choose", "send", "load", "store"}]
        /\ attempts \in [Senders -> 0..Attempts]
        /\ accepted \in [Senders -> Nat] /\ unheard \in [Senders -> Nat]
        /\ \A s \in Senders : pc[s] = "send" =>
             /\ accepted[s] = 0 /\ attempts[s] > 0 /\ unheard[s] + attempts[s] <= Attempts
        /\ \A s \in Senders : pc[s] = "store" => accepted[s] = 1
        /\ \A s \in Senders : pc[s] = "send" /\ confirmed[s] => MayConfirm(s)
    BY DEF IInv, TypeOK, ProgressInv, ConfirmInv
  <2>b. Attempts \in Nat
    BY UplinkAssumption
  <2>s. ASSUME Callers' = Callers, UNCHANGED <<accepted, unheard, result, feeding>>
        PROVE  UNCHANGED Promise!vars
    BY <2>s DEF Promise!vars
  <2>1. ASSUME NEW s \in Senders, Call(s) PROVE Promise!Begin(s)
    <3>1. s \notin Callers /\ Callers' = Callers \cup {s}
      BY <2>0, <2>1 DEF Call, Goto
    <3>2. /\ accepted' = [accepted EXCEPT ![s] = 0] /\ unheard' = [unheard EXCEPT ![s] = 0]
          /\ result' = [result EXCEPT ![s] = "none"] /\ UNCHANGED feeding
      BY <2>1 DEF Call
    <3>3. Sends' = [Sends EXCEPT ![s] = 0]
      <4>1. \A t \in Senders : accepted'[t] + unheard'[t] =
                             IF t = s THEN 0 ELSE accepted[t] + unheard[t]
        BY <2>0, <3>2
      <4> QED
        BY <4>1
    <3>4. Through' = Through \ {s}
      <4>1. \A t \in Senders : accepted'[t] > 0 <=> accepted[t] > 0 /\ t # s
        BY <2>0, <3>2
      <4> QED
        BY <4>1
    <3> QED
      BY <3>1, <3>2, <3>3, <3>4, Zenon DEF Promise!Begin
  <2>2. ASSUME NEW s \in Senders, Accept(s) PROVE Promise!Deliver(s)
    <3>0. s \in Callers /\ s \notin Through /\ Sends[s] < Attempts
      BY <2>0, <2>b, <2>2 DEF Accept
    <3>1. accepted' = [accepted EXCEPT ![s] = accepted[s] + 1] /\ UNCHANGED <<unheard, feeding>>
      BY <2>2 DEF Accept
    <3>2. Sends' = [Sends EXCEPT ![s] = Sends[s] + 1] /\ Through' = Through \cup {s}
      <4>1. \A t \in Senders : accepted'[t] + unheard'[t] =
                IF t = s THEN accepted[s] + unheard[s] + 1 ELSE accepted[t] + unheard[t]
        BY <2>0, <3>1
      <4>2. \A t \in Senders : accepted'[t] > 0 <=> accepted[t] > 0 \/ t = s
        BY <2>0, <3>1
      <4>3. Sends' = [Sends EXCEPT ![s] = Sends[s] + 1]
        BY <4>1
      <4>4. Through' = Through \cup {s}
        BY <4>2
      <4> QED
        BY <4>3, <4>4
    <3>3. Promise!Packet(s)
      BY <3>0, <3>2, Zenon DEF Promise!Packet
    <3>4. CASE After > 0
      <4>1. Callers' = Callers /\ UNCHANGED result
        BY <2>0, <2>2, <3>4 DEF Accept, Goto
      <4> QED
        BY <3>1, <3>2, <3>3, <4>1, Zenon DEF Promise!Deliver
    <3>5. CASE ~(After > 0)
      <4>1. Callers' = Callers \ {s} /\ result' = [result EXCEPT ![s] = "ok"]
        BY <2>0, <2>2, <3>5 DEF Accept, Goto, Return
      <4> QED
        BY <3>0, <3>1, <3>2, <3>3, <4>1, Zenon DEF Promise!Deliver, Promise!End
    <3> QED
      BY <3>4, <3>5
  <2>3. ASSUME NEW s \in Senders, Reject(s), attempts[s] > 1 PROVE UNCHANGED Promise!vars
    <3>1. Callers' = Callers
      BY <2>0, <2>3 DEF Reject, Retry, Goto
    <3>2. UNCHANGED <<accepted, unheard, result, feeding>>
      BY <2>3 DEF Reject, Retry
    <3> QED
      BY <2>s, <3>1, <3>2
  <2>4. ASSUME NEW s \in Senders, Reject(s), ~(attempts[s] > 1) PROVE Promise!Fail(s)
    <3>1. s \in Callers /\ Callers' = Callers \ {s} /\ s \notin Through
      BY <2>0, <2>4 DEF Reject, Retry, Return, Goto
    <3>2. /\ result' = [result EXCEPT ![s] = "error"] /\ feeding' = FALSE
          /\ UNCHANGED <<accepted, unheard>>
      BY <2>4 DEF Reject, Retry, Return
    <3> QED
      BY <3>1, <3>2, Zenon DEF Promise!Fail, Promise!End
  <2>8. ASSUME NEW s \in Senders, Unheard(s) PROVE Promise!Lose(s)
    <3>0. s \in Callers /\ s \notin Through /\ Sends[s] < Attempts
      BY <2>0, <2>b, <2>8 DEF Unheard
    <3>1. unheard' = [unheard EXCEPT ![s] = unheard[s] + 1] /\ UNCHANGED accepted
      BY <2>8 DEF Unheard
    <3>2. Sends' = [Sends EXCEPT ![s] = Sends[s] + 1] /\ Through' = Through
      <4>1. \A t \in Senders : accepted'[t] + unheard'[t] =
                IF t = s THEN accepted[s] + unheard[s] + 1 ELSE accepted[t] + unheard[t]
        BY <2>0, <3>1
      <4>2. Sends' = [Sends EXCEPT ![s] = Sends[s] + 1]
        BY <4>1
      <4>3. Through' = Through
        BY <3>1
      <4> QED
        BY <4>2, <4>3
    <3>3. Promise!Packet(s)
      BY <3>0, <3>2, Zenon DEF Promise!Packet
    <3>4. s \in {t \in Senders : MayConfirm(t)}
      BY <2>0, <2>8, Zenon DEF Unheard
    <3>5. CASE attempts[s] > 1
      <4>1. Callers' = Callers /\ UNCHANGED <<result, feeding>>
        BY <2>0, <2>8, <3>5 DEF Unheard, Retry, Goto
      <4> QED
        BY <3>2, <3>3, <3>4, <4>1, Zenon DEF Promise!Lose
    <3>6. CASE ~(attempts[s] > 1)
      <4>1. Callers' = Callers \ {s} /\ result' = [result EXCEPT ![s] = "error"]
            /\ feeding' = FALSE
        BY <2>0, <2>8, <3>6 DEF Unheard, Retry, Return, Goto
      <4> QED
        BY <3>0, <3>2, <3>3, <3>4, <4>1, Zenon DEF Promise!Lose, Promise!End
    <3> QED
      BY <3>5, <3>6
  <2>5. ASSUME NEW s \in Senders, Choose(s) \/ Load(s) PROVE UNCHANGED Promise!vars
    <3>1. Callers' = Callers
      BY <2>0, <2>5 DEF Choose, Load, Goto
    <3>2. UNCHANGED <<accepted, unheard, result, feeding>>
      BY <2>5 DEF Choose, Load
    <3> QED
      BY <2>s, <3>1, <3>2
  <2>6. ASSUME NEW s \in Senders, Store(s) PROVE Promise!Succeed(s)
    <3>1. s \in Callers /\ Callers' = Callers \ {s} /\ s \in Through
      BY <2>0, <2>6 DEF Store, Return, Goto
    <3>2. result' = [result EXCEPT ![s] = "ok"] /\ UNCHANGED <<accepted, unheard, feeding>>
      BY <2>6 DEF Store, Return
    <3>3. Through' = Through /\ Sends' = Sends
      BY <3>2
    <3> QED
      BY <3>1, <3>2, <3>3, Zenon DEF Promise!Succeed, Promise!End
  <2>7. CASE UNCHANGED vars
    BY <2>s, <2>7 DEF vars
  <2> QED
    BY <2>1, <2>2, <2>3, <2>4, <2>5, <2>6, <2>7, <2>8, Zenon
       DEF Next, lora_send_message, Promise!Next
<1> QED
  BY <1>1, <1>2, Invariance, PTL DEF Spec, PromiseSpec, Promise!Spec
----------------------------------------------------------------------------
\* While calls do not overlap, at most one thread is inside, and nothing happens
\* between its comparison and its store: what it chose unconfirmed was chosen below
\* After, and is counted before the next choice.
OneInside == \A s, t \in Senders : pc[s] # "idle" /\ pc[t] # "idle" => s = t

Counting(s) ==
  /\ pc[s] = "send" => confirmed[s] \/ unconfirmed_packets < After
  /\ pc[s] \in {"load", "store"} =>
       \/ since = 0
       \/ since <= unconfirmed_packets + 1 /\ unconfirmed_packets < After
  /\ pc[s] = "store" => loaded[s] = unconfirmed_packets

Settled == (\A s \in Senders : pc[s] \notin {"load", "store"}) => since <= unconfirmed_packets

SerialInv == ~overlapped => OneInside /\ Settled /\ \A s \in Senders : Counting(s)

\* A step of the only thread inside.
LEMMA SerialStep ==
  ASSUME After > 0, IInv, SerialInv, NEW s \in Senders, lora_send_message(s)
  PROVE  SerialInv'
<1> SUFFICES ASSUME ~overlapped PROVE SerialInv'
  BY DEF SerialInv, lora_send_message, Choose, Accept, Reject, Unheard, Retry, Load, Store
<1> USE DEF counter, Goto, Return, Retry
<1>0. /\ unconfirmed_packets \in 0..After /\ since \in 0..(After + 1)
      /\ pc \in [Senders -> {"idle", "choose", "send", "load", "store"}]
      /\ confirmed \in [Senders -> BOOLEAN] /\ loaded \in [Senders -> 0..255]
  BY UplinkAssumption DEF IInv, TypeOK, RangeInv, CountInRange
<1>1. OneInside /\ Settled /\ \A t \in Senders : Counting(t)
  BY DEF SerialInv
<1>2. \A t \in Senders \ {s} : pc[t] = "idle" /\ pc'[t] = "idle"
  BY <1>0, <1>1 DEF OneInside, lora_send_message, Choose, Accept, Reject, Unheard, Retry, Load, Store
<1>3. OneInside'
  BY <1>2 DEF OneInside
<1>4. Settled' /\ Counting(s)'
  <2> USE UplinkAssumption
  <2>a. pc[s] \notin {"load", "store"} => since <= unconfirmed_packets
    BY <1>1, <1>2 DEF Settled
  <2>b. Counting(s)
    BY <1>1
  <2>1. CASE Choose(s)
    <3>1. confirmed'[s] = MustConfirm(s)
      BY <1>0, <2>1, Zenon DEF Choose
    <3>2. MustConfirm(s) \/ unconfirmed_packets < After
      BY <1>0 DEF MustConfirm
    <3>3. confirmed'[s] \/ unconfirmed_packets < After
      BY <3>1, <3>2, Zenon
    <3> QED
      BY <1>0, <2>1, <2>a, <3>3 DEF Choose, Settled, Counting
  <2>2. CASE Accept(s)
    <3>1. pc'[s] = "load"
      BY <1>0, <2>2 DEF Accept
    <3>2. \/ since' = 0
          \/ since' <= unconfirmed_packets' + 1 /\ unconfirmed_packets' < After
      <4>1. CASE confirmed[s]
        <5>1. since' = 0
          BY <2>2, <4>1, Zenon DEF Accept
        <5> QED
          BY <5>1
      <4>2. CASE ~confirmed[s]
        <5>1. pc[s] = "send" /\ unconfirmed_packets' = unconfirmed_packets
          BY <2>2 DEF Accept
        <5>2. unconfirmed_packets < After
          BY <2>b, <4>2, <5>1, Zenon DEF Counting
        <5>3. since' = IF since > After THEN since ELSE since + 1
          BY <2>2, <4>2, Zenon DEF Accept
        <5>4. since <= unconfirmed_packets
          BY <2>a, <5>1
        <5> QED
          BY <1>0, <5>1, <5>2, <5>3, <5>4
      <4> QED
        BY <4>1, <4>2
    <3> QED
      BY <3>1, <3>2 DEF Settled, Counting
  <2>3. CASE Reject(s)
    BY <1>0, <2>3, <2>a DEF Reject, Settled, Counting
  <2>6. CASE Unheard(s)
    <3>1. since' = 0 /\ UNCHANGED unconfirmed_packets /\ pc'[s] \notin {"load", "store", "send"}
      BY <1>0, <2>6 DEF Unheard
    <3> QED
      BY <1>0, <3>1 DEF Settled, Counting
  <2>4. CASE Load(s)
    BY <1>0, <2>4, <2>b DEF Load, Settled, Counting
  <2>5. CASE Store(s)
    BY <1>0, <2>5, <2>b DEF Store, NextCount, Settled, Counting
  <2> QED
    BY <2>1, <2>2, <2>3, <2>4, <2>5, <2>6 DEF lora_send_message
<1>5. \A t \in Senders \ {s} : Counting(t)'
  BY <1>2 DEF Counting
<1> QED
  BY <1>3, <1>4, <1>5, Zenon DEF SerialInv

\* A call that begins: either the flag is set or nobody else is inside.
LEMMA SerialCall ==
  ASSUME IInv, SerialInv, NEW s \in Senders, Call(s)
  PROVE  SerialInv'
<1> SUFFICES ASSUME ~overlapped, \A t \in Senders \ {s} : pc[t] = "idle" PROVE SerialInv'
  BY DEF SerialInv, Call
<1>0. pc \in [Senders -> {"idle", "choose", "send", "load", "store"}]
  BY DEF IInv, TypeOK
<1>1. /\ \A t \in Senders \ {s} : pc'[t] = "idle"
      /\ pc'[s] = "choose" /\ pc[s] = "idle"
  BY <1>0 DEF Call, Goto
<1>2. since <= unconfirmed_packets /\ UNCHANGED <<since, unconfirmed_packets>>
  BY <1>1 DEF SerialInv, Settled, Call, counter
<1> QED
  BY <1>1, <1>2 DEF SerialInv, OneInside, Settled, Counting

\* Kconfig's promise, for every value of After and any number of threads, as long as
\* no two calls overlap.
THEOREM CadenceWhenSerial == Spec => []SerialCadence
<1>1. CASE After > 0
  <2>1. Init => SerialInv
    BY UplinkAssumption DEF Init, SerialInv, OneInside, Settled, Counting
  <2>2. IInv /\ SerialInv /\ [Next]_vars => SerialInv'
    <3>1. CASE UNCHANGED vars
      BY <3>1 DEF vars, SerialInv, OneInside, Settled, Counting
    <3> QED
      BY <1>1, <3>1, SerialStep, SerialCall DEF Next
  <2>3. IInv /\ SerialInv => SerialCadence
    <3> SUFFICES ASSUME IInv, SerialInv, ~overlapped PROVE since <= After
      BY DEF SerialCadence
    <3>0. unconfirmed_packets \in 0..After /\ since \in 0..(After + 1)
      BY UplinkAssumption DEF IInv, TypeOK, RangeInv, CountInRange
    <3>1. Settled /\ \A s \in Senders : Counting(s)
      BY DEF SerialInv
    <3>2. CASE \A s \in Senders : pc[s] \notin {"load", "store"}
      BY <3>0, <3>1, <3>2, UplinkAssumption DEF Settled
    <3>3. ASSUME NEW s \in Senders, pc[s] \in {"load", "store"} PROVE since <= After
      BY <3>0, <3>1, <3>3, UplinkAssumption DEF Counting
    <3> QED
      BY <3>2, <3>3
  <2> QED
    BY <2>1, <2>2, <2>3, Invariance, PTL DEF Spec
<1>2. CASE ~(After > 0)
  <2>1. SerialCadence
    BY <1>2 DEF SerialCadence
  <2> QED
    BY <2>1, PTL
<1> QED
  BY <1>1, <1>2
----------------------------------------------------------------------------
(* SmpLora.                                                                 *)

\* The fifo as long as empty_message was never put into it twice: a poll, a response, or a poll
\* with a response behind it, and none of it while the thread waits in k_fifo_get.
None(l) == l.head = Nil /\ l.tail = Nil
Single(l, n) == l.head = n /\ l.tail = n /\ l.next[n] = Nil
Pair(l) == /\ l.head = Empty /\ l.tail = Response
           /\ l.next[Empty] = Response /\ l.next[Response] = Nil
Short(l) == None(l) \/ Single(l, Empty) \/ Single(l, Response) \/ Pair(l)

InHand == loop \in {"pull", "send"}

FifoInv == Short(smp_lora_fifo) /\ (smp_lora_fifo.head # Nil => loop # "waiting")

\* Where tx_data is: in the fifo or in the thread's hands, not in both, and smp_lora_uplink
\* waits.
OwnInv ==
  smp_lora_fifo.tail = Response =>
    wq = "blocked" /\ ~my_sem /\ ~(InHand /\ msg = Response)

\* What the thread has in hand.
HandInv ==
  InHand => /\ msg # Nil
            /\ msg = Empty => size = 0
            /\ msg = Response => size = length /\ wq = "blocked" /\ ~my_sem

\* Every poll was asked for, the one in the fifo included.
PollInv == polls + (IF smp_lora_fifo.head = Empty THEN 1 ELSE 0) <= partials

\* How far the request is that the work queue has: it lacks nothing.
RequestInv == (wq # "idle" => left = 0) /\ (wq = "blocked" => length \in Sizes)

SmpInv ==
  /\ SmpTypeOK /\ RequestInv
  /\ ~relinked => FifoInv /\ OwnInv /\ HandInv /\ PollInv

\* The list stays a list whatever is put in and taken out.
LEMMA PutKeeps ==
  ASSUME NEW l \in List!Lists, NEW n \in {Empty, Response}
  PROVE  List!Put(l, n) \in List!Lists
<1>1. /\ l.head \in {Empty, Response, Nil} /\ l.tail \in {Empty, Response, Nil}
      /\ l.next \in [{Empty, Response} -> {Empty, Response, Nil}]
      /\ l = [head |-> l.head, tail |-> l.tail, next |-> l.next]
  BY DEF List!Lists
<1>2. List!Append(l, n) \in List!Lists
  <2> DEFINE cut == [l.next EXCEPT ![n] = Nil]
  <2>1. cut \in [{Empty, Response} -> {Empty, Response, Nil}]
    BY <1>1
  <2>2. CASE l.tail = Nil
    BY <1>1, <2>1, <2>2 DEF List!Lists, List!Append
  <2>3. CASE l.tail # Nil
    <3>1. [cut EXCEPT ![l.tail] = n] \in [{Empty, Response} -> {Empty, Response, Nil}]
      BY <1>1, <2>1
    <3> QED
      BY <1>1, <2>1, <2>3, <3>1 DEF List!Lists, List!Append
  <2> QED
    BY <2>2, <2>3
<1>3. CASE ~(l.tail = Nil \/ l.next[l.tail] = Nil)
  <2> DEFINE links == [[l.next EXCEPT ![n] = l.next[l.tail]] EXCEPT ![l.tail] = n]
  <2>1. links \in [{Empty, Response} -> {Empty, Response, Nil}]
    BY <1>1, <1>3
  <2>2. List!Put(l, n) = [head |-> l.head, tail |-> l.tail, next |-> links]
    BY <1>1, <1>3 DEF List!Put
  <2> QED
    BY <1>1, <2>1, <2>2 DEF List!Lists
<1> QED
  BY <1>2, <1>3 DEF List!Put

LEMMA RestKeeps ==
  ASSUME NEW l \in List!Lists, l.head # Nil
  PROVE  List!Rest(l) \in List!Lists
<1>1. l = [head |-> l.head, tail |-> l.tail, next |-> l.next]
  BY DEF List!Lists
<1> DEFINE second == l.next[l.head]
           last == IF l.tail = l.head THEN second ELSE l.tail
<1>2. second \in {Empty, Response, Nil} /\ last \in {Empty, Response, Nil}
  BY DEF List!Lists
<1>3. l.next \in [{Empty, Response} -> {Empty, Response, Nil}]
  BY DEF List!Lists
<1>4. List!Rest(l) = [head |-> second, tail |-> last, next |-> l.next]
  <2> DEFINE moved == [l EXCEPT !.head = second]
  <2>1. moved = [head |-> second, tail |-> l.tail, next |-> l.next]
    BY <1>1
  <2>2. List!Rest(l) = [moved EXCEPT !.tail = IF moved.tail = l.head THEN second ELSE moved.tail]
    BY DEF List!Rest
  <2> QED
    BY <2>1, <2>2
<1> HIDE DEF second, last
<1> QED
  BY <1>2, <1>3, <1>4 DEF List!Lists

\* The variables are handed their types by every step, whoever else sends.
LEMMA BeginTypes ==
  ASSUME SmpTypeOK, NEW m \in {Empty, Response}, NEW len \in Sizes \cup {0}, Begin(m, len)
  PROVE  /\ loop' = "pull" /\ msg' = m /\ size' \in Sizes \cup {0} /\ pos' = 0 /\ clock' = TRUE
         /\ polls' \in 0..(MaxPartials + 1) /\ data_size' = data_size /\ tries' = tries
  BY SmpAssumption DEF Begin, SmpTypeOK

LEMMA HandOverTypes ==
  ASSUME SmpTypeOK, NEW m \in {Empty, Response}, NEW len \in Sizes \cup {0}, HandOver(m, len)
  PROVE  /\ smp_lora_fifo' \in List!Lists
         /\ loop' \in {"waiting", "next", "pull", "send"} /\ msg' \in {Empty, Response, Nil}
         /\ size' \in Sizes \cup {0} /\ pos' \in Nat /\ data_size' \in 0..255 /\ tries' \in 0..3
         /\ clock' \in BOOLEAN /\ (clock' <=> loop' \in {"pull", "send"})
         /\ polls' \in 0..(MaxPartials + 1)
<1>1. CASE loop = "waiting" /\ Begin(m, len) /\ UNCHANGED smp_lora_fifo
  <2>1. /\ loop' = "pull" /\ msg' = m /\ size' \in Sizes \cup {0} /\ pos' = 0 /\ clock' = TRUE
        /\ polls' \in 0..(MaxPartials + 1) /\ data_size' = data_size /\ tries' = tries
    BY <1>1, BeginTypes
  <2>2. smp_lora_fifo' \in List!Lists
    BY <1>1, Zenon DEF SmpTypeOK
  <2> QED
    BY <2>1, <2>2 DEF SmpTypeOK
<1>2. CASE loop # "waiting" /\ smp_lora_fifo' = List!Put(smp_lora_fifo, m) /\ UNCHANGED <<thread, polls>>
  BY <1>2, PutKeeps DEF SmpTypeOK, thread
<1> QED
  BY <1>1, <1>2 DEF HandOver

\* What the end of a fragment leaves behind.
SmpAdvanced ==
  /\ pos' \in Nat /\ loop' \in {"pull", "next"} /\ clock' \in BOOLEAN /\ my_sem' \in BOOLEAN
  /\ clock' <=> loop' = "pull"
  /\ UNCHANGED smp_lora_fifo /\ UNCHANGED msg /\ UNCHANGED size /\ UNCHANGED data_size
  /\ UNCHANGED wq /\ UNCHANGED length /\ UNCHANGED left /\ UNCHANGED polls /\ UNCHANGED partials
  /\ UNCHANGED relinked

LEMMA AdvanceTypes ==
  ASSUME SmpTypeOK, loop = "send", Advance
  PROVE  SmpAdvanced
<1>1. pos' \in Nat
  BY DEF Advance, SmpTypeOK
<1>2. loop' \in {"pull", "next"} /\ clock' \in BOOLEAN /\ (clock' <=> loop' = "pull")
  BY DEF Advance, Finish, SmpTypeOK
<1>3. my_sem' \in BOOLEAN
  <2>1. my_sem' = my_sem \/ my_sem' = (my_sem \/ size # 0)
    BY DEF Advance, Finish
  <2> QED
    BY <2>1, Zenon DEF SmpTypeOK
<1> QED
  BY <1>1, <1>2, <1>3 DEF Advance, SmpAdvanced

\* A step of the radio or of a callback that leaves the thread alone.
LEMMA RadioTypes ==
  ASSUME SmpTypeOK, UNCHANGED smp_lora_fifo, UNCHANGED thread, UNCHANGED polls,
         UNCHANGED my_sem, UNCHANGED length, UNCHANGED partials, UNCHANGED relinked,
         window' = FALSE, left' \in {0, left}, wq' \in {wq, "handling"}
  PROVE  SmpTypeOK'
<1>1. /\ UNCHANGED loop /\ UNCHANGED msg /\ UNCHANGED size /\ UNCHANGED pos
      /\ UNCHANGED data_size /\ UNCHANGED tries /\ UNCHANGED clock
  BY DEF thread
<1>2. left' \in 0..(MaxFragments - 1)
  BY SmpAssumption DEF SmpTypeOK
<1>3. wq' \in {"idle", "handling", "blocked"}
  BY DEF SmpTypeOK
<1> QED
  BY <1>1, <1>2, <1>3 DEF SmpTypeOK

\* Every action keeps the types, with or without an application that shares the radio.
LEMMA SmpTypeStep ==
  ASSUME SmpTypeOK, [SmpNext]_smpVars
  PROVE  SmpTypeOK'
<1> USE SmpAssumption
<1>a. UNCHANGED thread => UNCHANGED loop /\ UNCHANGED msg /\ UNCHANGED size /\ UNCHANGED pos
                         /\ UNCHANGED data_size /\ UNCHANGED tries /\ UNCHANGED clock
  BY DEF thread
<1>b. UNCHANGED queue => UNCHANGED wq /\ UNCHANGED my_sem /\ UNCHANGED length
  BY DEF queue
<1>1. CASE OtherUplink
  BY <1>1, <1>a, <1>b DEF OtherUplink, SmpTypeOK
<1>2. CASE WindowCloses
  <2>1. window' = FALSE /\ UNCHANGED <<smp_lora_fifo, thread, queue, left, polls, partials, relinked>>
    BY <1>2, Zenon DEF WindowCloses
  <2> QED
    BY <1>b, <2>1, RadioTypes
<1>3. CASE DownlinkPartial
  <2>1. left' \in 0..(MaxFragments - 1)
    BY <1>3 DEF DownlinkPartial, Lacking, SmpTypeOK
  <2>2. partials' \in 0..MaxPartials
    BY <1>3 DEF DownlinkPartial, SmpTypeOK
  <2>3. /\ smp_lora_fifo' \in List!Lists
        /\ loop' \in {"waiting", "next", "pull", "send"} /\ msg' \in {Empty, Response, Nil}
        /\ size' \in Sizes \cup {0} /\ pos' \in Nat /\ data_size' \in 0..255 /\ tries' \in 0..3
        /\ clock' \in BOOLEAN /\ (clock' <=> loop' \in {"pull", "send"})
        /\ polls' \in 0..(MaxPartials + 1)
    BY <1>3, HandOverTypes DEF DownlinkPartial
  <2>4. relinked' \in BOOLEAN
    BY <1>3, Zenon DEF DownlinkPartial
  <2> QED
    BY <1>3, <2>1, <2>2, <2>3, <2>4 DEF DownlinkPartial, SmpTypeOK, queue
<1>4. CASE DownlinkComplete
  <2>1. /\ window' = FALSE /\ left' = 0 /\ wq' = "handling"
        /\ UNCHANGED <<smp_lora_fifo, thread, my_sem, length, polls, partials, relinked>>
    BY <1>4, Zenon DEF DownlinkComplete
  <2> QED
    BY <2>1, RadioTypes
<1>5. CASE DownlinkDropped
  <2>1. /\ window' = FALSE /\ left' \in {0, left}
        /\ UNCHANGED <<smp_lora_fifo, thread, queue, polls, partials, relinked>>
    BY <1>5, Zenon DEF DownlinkDropped
  <2> QED
    BY <1>b, <2>1, RadioTypes
<1>6. CASE Uplink
  <2>1. length' \in Sizes \cup {0}
    BY <1>6 DEF Uplink
  <2>2. /\ smp_lora_fifo' \in List!Lists
        /\ loop' \in {"waiting", "next", "pull", "send"} /\ msg' \in {Empty, Response, Nil}
        /\ size' \in Sizes \cup {0} /\ pos' \in Nat /\ data_size' \in 0..255 /\ tries' \in 0..3
        /\ clock' \in BOOLEAN /\ (clock' <=> loop' \in {"pull", "send"})
        /\ polls' \in 0..(MaxPartials + 1)
    BY <1>6, <2>1, HandOverTypes DEF Uplink
  <2> QED
    BY <1>6, <2>1, <2>2 DEF Uplink, SmpTypeOK
<1>7. CASE UplinkReturns
  BY <1>7 DEF UplinkReturns, SmpTypeOK, thread
<1>8. CASE NextBlocks
  BY <1>8 DEF NextBlocks, SmpTypeOK, queue
<1>9. CASE NextTakes
  <2>1. smp_lora_fifo.head \in {Empty, Response} /\ smp_lora_fifo' \in List!Lists
    <3>1. smp_lora_fifo' \in List!Lists
      BY <1>9, RestKeeps DEF NextTakes, SmpTypeOK
    <3> QED
      BY <1>9, <3>1 DEF NextTakes, SmpTypeOK, List!Lists
  <2>2. length \in Sizes \cup {0}
    BY DEF SmpTypeOK
  <2>3. /\ loop' = "pull" /\ msg' = smp_lora_fifo.head
        /\ size' \in Sizes \cup {0} /\ pos' = 0 /\ clock' = TRUE
        /\ polls' \in 0..(MaxPartials + 1) /\ data_size' = data_size /\ tries' = tries
    BY <1>9, <2>1, <2>2, BeginTypes DEF NextTakes
  <2> QED
    BY <1>9, <2>1, <2>3 DEF NextTakes, SmpTypeOK, queue
<1>10. CASE Pull
  <2>1. data_size' \in 0..255
    BY <1>10 DEF Pull, SmpTypeOK
  <2> QED
    BY <1>10, <2>1 DEF Pull, SmpTypeOK, queue
<1>11. CASE Sent
  <2>1. SmpAdvanced
    BY <1>11, AdvanceTypes DEF Sent
  <2> QED
    BY <1>11, <2>1 DEF Sent, SmpTypeOK, SmpAdvanced
<1>12. CASE Failed
  <2>1. tries' \in 0..3
    <3>1. tries' = tries - 1 /\ (tries > 1 \/ tries = 1) /\ tries \in 0..3
      BY <1>12, Zenon DEF Failed, SmpTypeOK
    <3> QED
      BY <3>1
  <2>4. window' \in BOOLEAN
    BY <1>12, Zenon DEF Failed, SmpTypeOK
  <2>2. CASE Advance
    <3>1. SmpAdvanced
      BY <1>12, <2>2, AdvanceTypes, Zenon DEF Failed
    <3> QED
      BY <1>12, <2>1, <2>4, <3>1 DEF Failed, SmpTypeOK, SmpAdvanced
  <2>3. CASE UNCHANGED <<smp_lora_fifo, loop, msg, size, pos, data_size, clock, queue, left, polls, partials, relinked>>
    BY <1>12, <1>b, <2>1, <2>3, <2>4 DEF Failed, SmpTypeOK
  <2> QED
    BY <1>12, <2>2, <2>3 DEF Failed
<1>13. CASE UNCHANGED smpVars
  BY <1>13 DEF smpVars, thread, queue, SmpTypeOK
<1> QED
  BY <1>1, <1>2, <1>3, <1>4, <1>5, <1>6, <1>7, <1>8, <1>9, <1>10, <1>11, <1>12, <1>13
  DEF SmpNext, smp_lora_downlink, smp_lora_uplink, smp_lora_uplink_thread

LEMMA SmpInitTypes == SmpInit => SmpTypeOK
<1>1. List!EmptyList \in List!Lists
  BY DEF List!EmptyList, List!Lists
<1>2. /\ 0 \in 0..(MaxFragments - 1) /\ 0 \in 0..MaxPartials /\ 0 \in 0..(MaxPartials + 1)
      /\ 0 \in 0..255 /\ 0 \in 0..3 /\ 0 \in Nat
  BY SmpAssumption
<1> QED
  BY <1>1, <1>2, Zenon DEF SmpInit, SmpTypeOK

\* The types, among them that the thread holds the high-frequency clock exactly while it has
\* a message in hand, whatever else sends.
THEOREM SmpTyping == SmpSpec => []SmpTypeOK
  BY SmpInitTypes, SmpTypeStep, PTL DEF SmpSpec

\* What putting a node in and taking one out makes of a short fifo.
LEMMA ListParts ==
  ASSUME NEW l \in List!Lists
  PROVE  /\ l = [head |-> l.head, tail |-> l.tail, next |-> l.next]
         /\ l.head \in {Empty, Response, Nil} /\ l.tail \in {Empty, Response, Nil}
         /\ l.next \in [{Empty, Response} -> {Empty, Response, Nil}]
  BY DEF List!Lists

LEMMA PutNone ==
  ASSUME NEW l \in List!Lists, NEW n \in {Empty, Response}, None(l)
  PROVE  Single(List!Put(l, n), n)
<1>1. List!Put(l, n) = [head |-> n, tail |-> n, next |-> [l.next EXCEPT ![n] = Nil]]
  BY DEF List!Put, List!Append, None
<1> QED
  BY <1>1, ListParts DEF Single

LEMMA PutBehind ==
  ASSUME NEW l \in List!Lists, Single(l, Empty)
  PROVE  Pair(List!Put(l, Response))
<1> DEFINE cut == [l.next EXCEPT ![Response] = Nil]
<1>1. List!Put(l, Response)
        = [head |-> Empty, tail |-> Response, next |-> [cut EXCEPT ![Empty] = Response]]
  BY SmpAssumption DEF List!Put, List!Append, Single
<1> QED
  BY <1>1, ListParts, SmpAssumption DEF Pair

LEMMA RestParts ==
  ASSUME NEW l \in List!Lists, l.head # Nil
  PROVE  /\ List!Rest(l).head = l.next[l.head] /\ List!Rest(l).next = l.next
         /\ List!Rest(l).tail = IF l.tail = l.head THEN l.next[l.head] ELSE l.tail
<1> DEFINE second == l.next[l.head]
           moved == [l EXCEPT !.head = second]
<1>1. moved = [head |-> second, tail |-> l.tail, next |-> l.next]
  BY ListParts
<1>2. List!Rest(l) = [moved EXCEPT !.tail = IF moved.tail = l.head THEN second ELSE moved.tail]
  BY DEF List!Rest
<1> QED
  BY <1>1, <1>2

LEMMA RestShort ==
  ASSUME NEW l \in List!Lists, Short(l), l.head # Nil
  PROVE  /\ None(List!Rest(l)) \/ Single(List!Rest(l), Response)
         /\ Single(List!Rest(l), Response) => l.head = Empty /\ l.tail = Response
<1>1. CASE Single(l, Empty) \/ Single(l, Response)
  BY <1>1, RestParts, SmpAssumption DEF Single, None
<1>2. CASE Pair(l)
  BY <1>2, RestParts, SmpAssumption DEF Single, Pair
<1> QED
  BY <1>1, <1>2 DEF Short, None

\* What following the links reaches in a short fifo.
LEMMA MembersShort ==
  ASSUME NEW l \in List!Lists, Short(l)
  PROVE  /\ Response \in List!Members(l) => l.tail = Response
         /\ l.head = Empty => Empty \in List!Members(l)
<1>1. ASSUME l.tail # Response PROVE Response \notin List!Members(l)
  <2>1. None(l) \/ Single(l, Empty)
    BY <1>1 DEF Short, Single, Pair
  <2>2. List!Closed(l, {l.head} \cap {Empty})
    BY <2>1, SmpAssumption DEF List!Closed, None, Single
  <2> QED
    BY <2>2, SmpAssumption DEF List!Members
<1>2. ASSUME l.head = Empty PROVE Empty \in List!Members(l)
  BY <1>2, SmpAssumption DEF List!Members, List!Closed
<1> QED
  BY <1>1, <1>2

\* What handing a message over does: a thread that waits has it in hand, one that is busy
\* finds it behind what the fifo holds.
Begun(m, len) ==
  /\ loop = "waiting" /\ loop' = "pull" /\ msg' = m
  /\ size' = (IF m = Response THEN len ELSE 0)
  /\ UNCHANGED smp_lora_fifo
  /\ polls' <= polls + (IF m = Empty THEN 1 ELSE 0)

Queued(m) ==
  /\ loop # "waiting" /\ smp_lora_fifo' = List!Put(smp_lora_fifo, m)
  /\ UNCHANGED loop /\ UNCHANGED msg /\ UNCHANGED size /\ UNCHANGED polls

LEMMA HandOverCases ==
  ASSUME SmpTypeOK, NEW m \in {Empty, Response}, NEW len \in Sizes \cup {0}, HandOver(m, len)
  PROVE  Begun(m, len) \/ Queued(m)
<1>1. CASE loop = "waiting" /\ Begin(m, len) /\ UNCHANGED smp_lora_fifo
  <2>1. polls \in Nat
    BY SmpAssumption DEF SmpTypeOK
  <2>2. polls' = IF m = Empty /\ polls <= MaxPartials THEN polls + 1 ELSE polls
    BY <1>1 DEF Begin
  <2>3. polls' <= polls + (IF m = Empty THEN 1 ELSE 0)
    BY <2>1, <2>2
  <2> QED
    BY <1>1, <2>3 DEF Begin, Begun
<1>2. CASE loop # "waiting" /\ smp_lora_fifo' = List!Put(smp_lora_fifo, m)
           /\ UNCHANGED <<thread, polls>>
  BY <1>2 DEF thread, Queued
<1> QED
  BY <1>1, <1>2 DEF HandOver

\* Counting with the poll in the fifo.
LEMMA LessAndOne ==
  ASSUME NEW p \in Nat, NEW q \in Nat, NEW r \in Nat, NEW A \in BOOLEAN, NEW B \in BOOLEAN,
         p <= q, A => B, q + (IF B THEN 1 ELSE 0) <= r
  PROVE  p + (IF A THEN 1 ELSE 0) <= r
<1>1. CASE A
  BY <1>1
<1>2. CASE ~A
  <2>1. q <= r
    <3>1. CASE B
      BY <3>1
    <3>2. CASE ~B
      BY <3>2
    <3> QED
      BY <3>1, <3>2
  <2> QED
    BY <1>2, <2>1
<1> QED
  BY <1>1, <1>2

\* Every action keeps the fifo short until a poll is put into it twice, and the request single.
LEMMA SmpStep ==
  ASSUME SmpInv, [SmpNext]_smpVars
  PROVE  SmpInv'
<1> USE DEF InHand
<1>0. SmpTypeOK'
  BY SmpTypeStep DEF SmpInv
<1>a. UNCHANGED thread => UNCHANGED loop /\ UNCHANGED msg /\ UNCHANGED size /\ UNCHANGED pos
                         /\ UNCHANGED data_size /\ UNCHANGED tries /\ UNCHANGED clock
  BY DEF thread
<1>b. UNCHANGED queue => UNCHANGED wq /\ UNCHANGED my_sem /\ UNCHANGED length
  BY DEF queue
<1>c. RequestInv /\ SmpTypeOK /\ (~relinked => FifoInv /\ OwnInv /\ HandInv /\ PollInv)
  BY DEF SmpInv
<1>d. /\ Empty # Response /\ Empty # Nil /\ Response # Nil
      /\ \A z \in Sizes : z \in Nat /\ z # 0
      /\ polls \in Nat /\ partials \in Nat
  BY <1>c, SmpAssumption DEF SmpTypeOK
<1>e. polls' \in Nat
  BY <1>0, SmpAssumption DEF SmpTypeOK
<1>s. ASSUME UNCHANGED smp_lora_fifo, UNCHANGED loop, UNCHANGED msg, UNCHANGED size,
             UNCHANGED wq, UNCHANGED my_sem, UNCHANGED length, UNCHANGED polls,
             UNCHANGED partials, UNCHANGED relinked, left' \in {0, left}
      PROVE  SmpInv'
  BY <1>0, <1>c, <1>s DEF SmpInv, RequestInv, FifoInv, OwnInv, HandInv, PollInv
<1>1. CASE OtherUplink \/ WindowCloses \/ DownlinkDropped
  <2>1. /\ UNCHANGED <<smp_lora_fifo, thread, queue, polls, partials, relinked>>
        /\ left' \in {0, left}
    BY <1>1, Zenon DEF OtherUplink, WindowCloses, DownlinkDropped
  <2> QED
    BY <1>a, <1>b, <1>s, <2>1
<1>3. CASE DownlinkPartial
  <2>1. /\ Lacking # {} /\ UNCHANGED queue /\ HandOver(Empty, 0) /\ partials' = partials + 1
        /\ relinked' = (relinked \/ Empty \in List!Members(smp_lora_fifo))
    BY <1>3, Zenon DEF DownlinkPartial
  <2>2. wq = "idle"
    BY <1>c, <2>1 DEF RequestInv, Lacking, SmpTypeOK
  <2>3. RequestInv'
    BY <1>b, <2>1, <2>2 DEF RequestInv
  <2>4. SUFFICES ASSUME ~relinked' PROVE FifoInv' /\ OwnInv' /\ HandInv' /\ PollInv'
    BY <1>0, <2>3 DEF SmpInv
  <2>5. ~relinked /\ Empty \notin List!Members(smp_lora_fifo)
    BY <2>1, <2>4, Zenon
  <2>6. FifoInv /\ OwnInv /\ HandInv /\ PollInv
    BY <1>c, <2>5
  <2>7. None(smp_lora_fifo)
    <3>1. smp_lora_fifo.tail # Response
      BY <2>2, <2>6 DEF OwnInv
    <3>2. smp_lora_fifo.head # Empty
      BY <1>c, <2>5, <2>6, MembersShort DEF FifoInv, SmpTypeOK
    <3> QED
      BY <2>6, <3>1, <3>2 DEF FifoInv, Short, Single, Pair
  <2>8. Begun(Empty, 0) \/ Queued(Empty)
    BY <1>c, <2>1, HandOverCases
  <2>9. CASE Begun(Empty, 0)
    <3>1. FifoInv' /\ OwnInv' /\ HandInv'
      BY <1>d, <2>6, <2>7, <2>9 DEF Begun, FifoInv, OwnInv, HandInv, None, Short
    <3>2. PollInv'
      <4>1. smp_lora_fifo.head # Empty /\ smp_lora_fifo'.head # Empty
        BY <1>d, <2>7, <2>9 DEF Begun, None
      <4>2. polls' <= polls + 1
        BY <1>d, <2>9, Zenon DEF Begun
      <4>3. polls <= partials
        BY <1>d, <2>6, <4>1 DEF PollInv
      <4>4. polls' <= partials'
        BY <1>d, <1>e, <2>1, <4>2, <4>3
      <4> QED
        BY <1>e, <4>1, <4>4 DEF PollInv
    <3> QED
      BY <3>1, <3>2
  <2>10. CASE Queued(Empty)
    <3>1. Single(smp_lora_fifo', Empty)
      BY <1>c, <2>7, <2>10, PutNone DEF Queued, SmpTypeOK
    <3>2. FifoInv' /\ OwnInv' /\ HandInv'
      BY <1>b, <1>d, <2>1, <2>6, <2>10, <3>1 DEF Queued, FifoInv, OwnInv, HandInv, Single, Short
    <3>3. PollInv'
      <4>1. smp_lora_fifo.head # Empty /\ smp_lora_fifo'.head = Empty
        BY <1>d, <2>7, <3>1 DEF None, Single
      <4>2. polls <= partials /\ polls' = polls
        BY <1>d, <2>6, <2>10, <4>1 DEF PollInv, Queued
      <4> QED
        BY <1>d, <2>1, <4>1, <4>2 DEF PollInv
    <3> QED
      BY <3>2, <3>3
  <2> QED
    BY <2>8, <2>9, <2>10
<1>4. CASE DownlinkComplete
  <2>1. /\ Lacking # {} /\ left' = 0 /\ wq' = "handling"
        /\ UNCHANGED <<smp_lora_fifo, thread, my_sem, length, polls, partials, relinked>>
    BY <1>4, Zenon DEF DownlinkComplete
  <2>2. wq = "idle"
    BY <1>c, <2>1 DEF RequestInv, Lacking, SmpTypeOK
  <2> QED
    BY <1>0, <1>a, <1>c, <1>d, <2>1, <2>2
       DEF SmpInv, FifoInv, OwnInv, HandInv, RequestInv, PollInv
<1>6. CASE Uplink
  <2>1. /\ wq = "handling" /\ wq' = "blocked" /\ my_sem' = FALSE /\ length' \in Sizes
        /\ HandOver(Response, length') /\ UNCHANGED <<left, partials, relinked>>
    BY <1>6, Zenon DEF Uplink
  <2>2. RequestInv'
    BY <1>c, <2>1 DEF RequestInv
  <2>3. SUFFICES ASSUME ~relinked' PROVE FifoInv' /\ OwnInv' /\ HandInv' /\ PollInv'
    BY <1>0, <2>2 DEF SmpInv
  <2>4. FifoInv /\ OwnInv /\ HandInv /\ PollInv
    BY <1>c, <2>1, <2>3
  <2>5. smp_lora_fifo.tail # Response /\ ~(InHand /\ msg = Response)
    BY <2>1, <2>4 DEF OwnInv, HandInv
  <2>6. None(smp_lora_fifo) \/ Single(smp_lora_fifo, Empty)
    BY <2>4, <2>5 DEF FifoInv, Short, Single, Pair
  <2>7. Begun(Response, length') \/ Queued(Response)
    BY <1>c, <2>1, HandOverCases
  <2>p. ASSUME polls' <= polls, smp_lora_fifo'.head = Empty => smp_lora_fifo.head = Empty
        PROVE  PollInv'
    <3>1. polls + (IF smp_lora_fifo.head = Empty THEN 1 ELSE 0) <= partials
      BY <2>4 DEF PollInv
    <3>2. polls' + (IF smp_lora_fifo'.head = Empty THEN 1 ELSE 0) <= partials
      BY <1>d, <1>e, <2>p, <3>1, LessAndOne
    <3>3. UNCHANGED partials
      BY <2>1
    <3> QED
      BY <3>2, <3>3 DEF PollInv
  <2>8. CASE Begun(Response, length')
    <3>1. polls' <= polls
      BY <1>d, <2>8 DEF Begun
    <3>2. PollInv'
      BY <2>8, <2>p, <3>1 DEF Begun
    <3>3. None(smp_lora_fifo)
      BY <1>d, <2>4, <2>6, <2>8 DEF Begun, FifoInv, Single
    <3> QED
      BY <1>d, <2>1, <2>4, <2>8, <3>2, <3>3 DEF Begun, FifoInv, OwnInv, HandInv, None, Short
  <2>9. CASE Queued(Response)
    <3>1. Single(smp_lora_fifo', Response) \/ Pair(smp_lora_fifo')
      BY <1>c, <2>6, <2>9, PutNone, PutBehind DEF Queued, SmpTypeOK
    <3>2. smp_lora_fifo'.head = Empty => smp_lora_fifo.head = Empty
      <4>1. CASE None(smp_lora_fifo)
        <5>1. Single(smp_lora_fifo', Response)
          BY <1>c, <2>9, <4>1, PutNone DEF Queued, SmpTypeOK
        <5> QED
          BY <1>d, <5>1 DEF Single
      <4>2. CASE Single(smp_lora_fifo, Empty)
        BY <4>2 DEF Single
      <4> QED
        BY <2>6, <4>1, <4>2
    <3>3. polls' <= polls
      BY <1>d, <2>9 DEF Queued
    <3>4. PollInv'
      BY <2>p, <3>2, <3>3
    <3>5. FifoInv' /\ OwnInv' /\ HandInv'
      BY <1>d, <2>1, <2>4, <2>5, <2>9, <3>1
         DEF Queued, FifoInv, OwnInv, HandInv, Single, Pair, Short
    <3> QED
      BY <3>4, <3>5
  <2> QED
    BY <2>7, <2>8, <2>9
<1>7. CASE UplinkReturns
  <2>1. /\ wq = "blocked" /\ my_sem /\ wq' = "idle" /\ UNCHANGED left
        /\ UNCHANGED <<smp_lora_fifo, thread, length, polls, partials, relinked>>
    BY <1>7, Zenon DEF UplinkReturns
  <2> QED
    BY <1>0, <1>a, <1>c, <1>d, <2>1
       DEF SmpInv, FifoInv, OwnInv, HandInv, RequestInv, PollInv
<1>8. CASE NextBlocks
  <2>1. /\ smp_lora_fifo.head = Nil /\ loop' = "waiting"
        /\ UNCHANGED <<smp_lora_fifo, queue, left, polls, partials, relinked>>
    BY <1>8, Zenon DEF NextBlocks
  <2> QED
    BY <1>0, <1>b, <1>c, <2>1 DEF SmpInv, FifoInv, OwnInv, HandInv, RequestInv, PollInv
<1>9. CASE NextTakes
  <2>1. /\ loop = "next" /\ smp_lora_fifo.head # Nil /\ smp_lora_fifo' = List!Rest(smp_lora_fifo)
        /\ Begin(smp_lora_fifo.head, length) /\ UNCHANGED <<queue, left, partials, relinked>>
    BY <1>9 DEF NextTakes
  <2>2. RequestInv'
    BY <1>b, <1>c, <2>1 DEF RequestInv
  <2>3. SUFFICES ASSUME ~relinked' PROVE FifoInv' /\ OwnInv' /\ HandInv' /\ PollInv'
    BY <1>0, <2>2 DEF SmpInv
  <2>4. FifoInv /\ OwnInv /\ HandInv /\ PollInv
    BY <1>c, <2>1, <2>3
  <2>5. /\ None(smp_lora_fifo') \/ Single(smp_lora_fifo', Response)
        /\ Single(smp_lora_fifo', Response)
             => smp_lora_fifo.head = Empty /\ smp_lora_fifo.tail = Response
    BY <1>c, <2>1, <2>4, RestShort DEF FifoInv, SmpTypeOK
  <2>6. /\ loop' = "pull" /\ msg' = smp_lora_fifo.head
        /\ size' = (IF msg' = Response THEN length ELSE 0)
    BY <2>1 DEF Begin
  <2>7. smp_lora_fifo.head = Response => smp_lora_fifo.tail = Response
    BY <1>d, <2>4 DEF FifoInv, Short, None, Single, Pair
  <2>8. FifoInv' /\ OwnInv' /\ HandInv'
    BY <1>b, <1>d, <2>1, <2>4, <2>5, <2>6, <2>7
       DEF FifoInv, OwnInv, HandInv, None, Single, Short
  <2>9. PollInv'
    <3>1. smp_lora_fifo'.head # Empty
      BY <1>d, <2>5 DEF None, Single
    <3>2. polls' = IF smp_lora_fifo.head = Empty /\ polls <= MaxPartials THEN polls + 1 ELSE polls
      BY <2>1 DEF Begin
    <3>3. polls' <= polls + (IF smp_lora_fifo.head = Empty THEN 1 ELSE 0)
      BY <1>d, <3>2
    <3>4. polls' <= partials
      <4>1. polls + (IF smp_lora_fifo.head = Empty THEN 1 ELSE 0) <= partials
        BY <2>4 DEF PollInv
      <4> QED
        BY <1>d, <1>e, <3>3, <4>1
    <3>5. UNCHANGED partials
      BY <2>1
    <3> QED
      BY <1>e, <3>1, <3>4, <3>5 DEF PollInv
  <2> QED
    BY <2>8, <2>9
<1>10. CASE Pull
  <2>1. /\ loop = "pull" /\ loop' = "send"
        /\ UNCHANGED <<smp_lora_fifo, msg, size, queue, left, polls, partials, relinked>>
    BY <1>10, Zenon DEF Pull
  <2> QED
    BY <1>0, <1>b, <1>c, <2>1 DEF SmpInv, FifoInv, OwnInv, HandInv, RequestInv, PollInv
<1>11. ASSUME loop = "send", Advance PROVE SmpInv'
  <2>1. UNCHANGED <<smp_lora_fifo, msg, size, wq, length, left, polls, partials, relinked>>
    BY <1>11, Zenon DEF Advance
  <2>2. CASE loop' = "pull" /\ UNCHANGED <<clock, my_sem>>
    BY <1>0, <1>11, <1>c, <2>1, <2>2 DEF SmpInv, FifoInv, OwnInv, HandInv, RequestInv, PollInv
  <2>3. CASE Finish
    <3>1. loop' = "next" /\ my_sem' = (my_sem \/ size # 0)
      BY <2>3, Zenon DEF Finish
    <3>2. RequestInv'
      BY <1>c, <2>1 DEF RequestInv
    <3>3. SUFFICES ASSUME ~relinked' PROVE FifoInv' /\ OwnInv' /\ HandInv' /\ PollInv'
      BY <1>0, <3>2 DEF SmpInv
    <3>4. FifoInv /\ OwnInv /\ HandInv /\ PollInv
      BY <1>c, <2>1, <3>3
    <3>5. OwnInv'
      <4>1. SUFFICES ASSUME smp_lora_fifo.tail = Response PROVE wq = "blocked" /\ ~my_sem'
        BY <2>1, <3>1 DEF OwnInv
      <4>2. wq = "blocked" /\ ~my_sem /\ msg # Response
        BY <1>11, <3>4, <4>1 DEF OwnInv
      <4>3. msg = Empty
        BY <1>11, <1>c, <3>4, <4>2 DEF HandInv, SmpTypeOK
      <4>4. size = 0
        BY <1>11, <3>4, <4>3 DEF HandInv
      <4> QED
        BY <3>1, <4>2, <4>4, Zenon
    <3> QED
      BY <2>1, <3>1, <3>4, <3>5 DEF FifoInv, HandInv, PollInv
  <2> QED
    BY <1>11, <2>2, <2>3, Zenon DEF Advance
<1>12. CASE Sent
  BY <1>11, <1>12, Zenon DEF Sent
<1>13. CASE Failed
  <2>1. CASE Advance
    BY <1>11, <1>13, <2>1, Zenon DEF Failed
  <2>2. CASE UNCHANGED <<smp_lora_fifo, loop, msg, size, pos, data_size, clock, queue,
                         left, polls, partials, relinked>>
    BY <1>b, <1>s, <2>2
  <2> QED
    BY <1>13, <2>1, <2>2, Zenon DEF Failed
<1>14. CASE UNCHANGED smpVars
  BY <1>14, <1>a, <1>b, <1>s DEF smpVars
<1> QED
  BY <1>1, <1>3, <1>4, <1>6, <1>7, <1>8, <1>9, <1>10, <1>12, <1>13, <1>14
  DEF SmpNext, smp_lora_downlink, smp_lora_uplink, smp_lora_uplink_thread

LEMMA SmpInitInv == SmpInit => SmpInv
<1> SUFFICES ASSUME SmpInit PROVE SmpInv
  OBVIOUS
<1>1. smp_lora_fifo.head = Nil /\ smp_lora_fifo.tail = Nil
  BY DEF SmpInit, List!EmptyList
<1>2. loop = "waiting" /\ wq = "idle" /\ left = 0 /\ polls = 0 /\ partials = 0
  BY DEF SmpInit
<1>3. Nil # Empty /\ Nil # Response
  BY SmpAssumption
<1> QED
  BY <1>1, <1>2, <1>3, SmpInitTypes
     DEF SmpInv, FifoInv, OwnInv, HandInv, InHand, RequestInv, PollInv, Short, None

LEMMA SmpInvariance == SmpSpec => []SmpInv
  BY SmpInitInv, SmpStep, PTL DEF SmpSpec

\* tx_data, which is on the stack of smp_lora_uplink, is in the fifo or in the thread's hands
\* only while smp_lora_uplink waits: for all lengths, fragment sizes and requests and whatever
\* else the device sends, until empty_message is linked to itself.
THEOREM BufferIsOwned == SmpSpec => []BufferOwned
<1>1. SmpInv => BufferOwned
  <2> SUFFICES ASSUME SmpInv, ~relinked,
                      \/ Response \in List!Members(smp_lora_fifo)
                      \/ msg = Response /\ loop \in {"pull", "send"}
               PROVE  wq = "blocked" /\ ~my_sem
    BY DEF BufferOwned
  <2>1. CASE Response \in List!Members(smp_lora_fifo)
    <3>1. smp_lora_fifo.tail = Response
      BY <2>1, MembersShort DEF SmpInv, SmpTypeOK, FifoInv
    <3> QED
      BY <3>1, Zenon DEF SmpInv, OwnInv
  <2>2. CASE msg = Response /\ loop \in {"pull", "send"}
    BY <2>2, Zenon DEF SmpInv, HandInv, InHand
  <2> QED
    BY <2>1, <2>2
<1> QED
  BY <1>1, SmpInvariance, PTL

\* The transport sends no more empty uplinks than packets left a request incomplete, up to the
\* same point.
THEOREM PollsAreAskedFor == SmpSpec => []PollsOnlyAskedFor
<1>1. SmpInv => PollsOnlyAskedFor
  <2> SUFFICES ASSUME SmpInv, ~relinked PROVE polls <= partials
    BY DEF PollsOnlyAskedFor, PollsMatchPartials
  <2>1. polls \in Nat /\ partials \in Nat
    BY SmpAssumption DEF SmpInv, SmpTypeOK
  <2>2. polls + (IF smp_lora_fifo.head = Empty THEN 1 ELSE 0) <= partials
    BY DEF SmpInv, PollInv
  <2> QED
    BY <2>1, <2>2
<1> QED
  BY <1>1, SmpInvariance, PTL

\* smp_lora_uplink gets back when its own response, and no poll, is done and nothing of it is
\* left to send, however many fragments it took and whichever of them failed.
THEOREM ReleasesAreWhole == SmpSpec => ReleasedWhole
<1>1. ASSUME SmpInv, [SmpNext]_smpVars
      PROVE  [~relinked /\ ~my_sem /\ my_sem'
                => wq = "blocked" /\ msg = Response /\ pos' >= length]_smpVars
  <2> SUFFICES ASSUME ~relinked, ~my_sem, my_sem', SmpNext
               PROVE  wq = "blocked" /\ msg = Response /\ pos' >= length
    BY <1>1 DEF smpVars, queue
  <2>1. CASE Sent \/ Failed
    <3>1. loop = "send"
      BY <2>1 DEF Sent, Failed
    <3>2. pos' >= size /\ size # 0
      <4>1. Advance
        BY <2>1 DEF Sent, Failed, queue
      <4> QED
        BY <4>1 DEF Advance, Finish
    <3>3. msg \in {Empty, Response, Nil}
      BY <1>1 DEF SmpInv, SmpTypeOK
    <3>4. msg = Response /\ wq = "blocked" /\ size = length
      BY <1>1, <3>1, <3>2, <3>3 DEF SmpInv, HandInv, InHand
    <3> QED
      BY <3>2, <3>4
  <2>2. CASE ~(Sent \/ Failed)
    <3>1. my_sem' = my_sem \/ my_sem' = FALSE
      BY <2>2 DEF SmpNext, smp_lora_downlink, smp_lora_uplink, smp_lora_uplink_thread, OtherUplink,
                  WindowCloses, DownlinkPartial, DownlinkComplete, DownlinkDropped, Uplink,
                  UplinkReturns, NextBlocks, NextTakes, Pull, queue
    <3> QED
      BY <3>1
  <2> QED
    BY <2>1, <2>2
<1> QED
  BY <1>1, SmpInvariance, PTL DEF SmpSpec, ReleasedWhole
=============================================================================
