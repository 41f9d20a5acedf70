-------------------------- MODULE SpscQueueProofs --------------------------
(***************************************************************************)
(* Proofs about SpscQueue for every capacity and any number of values: the *)
(* type invariant, that no wakeup is lost, that None means drained, and    *)
(* that the lane implements ClosableChannel.                               *)
(***************************************************************************)
EXTENDS SpscQueue, TLAPS

\* Where the two threads can be.
PcInv == /\ sender_closed <=> spc \in {"drop_notify", "gone"}
         /\ rpc = "last_pop" => sender_closed
         /\ rpc \in {"pop", "check", "last_pop", "await"} <=> notified # "none"

\* The ring holds the accepted values that were not received, in order.
RingInv == /\ sent = received + Len(ring)
           /\ \A i \in 1..Len(ring) : ring[i] = received + i

\* NoLostWakeup, from the moment the first pop came back empty.
WakeInv == notified = "waiting" =>
             /\ (rpc \in {"check", "await"} /\ ring # <<>>) => spc = "notify"
             /\ (rpc = "await" /\ sender_closed) => spc = "drop_notify"

EndInv == ended => sender_closed /\ ring = <<>>

IInv == TypeOK /\ PcInv /\ RingInv /\ WakeInv /\ EndInv

\* IInv holds of a new lane.
LEMMA InitIInv == Init => IInv
<1> SUFFICES ASSUME Init PROVE IInv
  OBVIOUS
<1>1. TypeOK
  <2>1. ring \in Seq(Nat) /\ Len(ring) = 0 BY DEF Init
  <2>2. Len(ring) <= Capacity BY <2>1, CapacityAssumption
  <2> QED BY <2>1, <2>2 DEF Init, TypeOK
<1>2. PcInv /\ WakeInv /\ EndInv BY DEF Init, PcInv, WakeInv, EndInv
<1>3. RingInv
  <2>1. Len(ring) = 0 BY DEF Init
  <2>2. 1..Len(ring) = {} BY <2>1
  <2> QED BY <2>1, <2>2 DEF Init, RingInv
<1> QED BY <1>1, <1>2, <1>3 DEF IInv

\* The permit is Boolean after a Notified future is dropped.
LEMMA DropPermit == DropNotified => permit' \in BOOLEAN
BY Zenon DEF DropNotified

\* pop() takes the oldest value and leaves the rest in order.
LEMMA PopFacts ==
  ASSUME TypeOK, PopValue
  PROVE  /\ Len(ring) > 0 /\ Head(ring) = ring[1] /\ Head(ring) \in Nat
         /\ Tail(ring) \in Seq(Nat) /\ Len(Tail(ring)) = Len(ring) - 1
         /\ \A i \in 1..Len(Tail(ring)) : Tail(ring)[i] = ring[i + 1]
<1>1. ring \in Seq(Nat) /\ ring # <<>> BY DEF TypeOK, PopValue
<1> QED BY <1>1

\* A successful pop preserves the types.
LEMMA PopTypeOK == TypeOK /\ PopValue => TypeOK'
<1> SUFFICES ASSUME TypeOK, PopValue PROVE TypeOK'
  OBVIOUS
<1>1. ring' \in Seq(Nat) /\ Len(ring') <= Capacity /\ received' \in Nat
  BY PopFacts, CapacityAssumption DEF PopValue, TypeOK
<1>2. permit' \in BOOLEAN BY DropPermit DEF PopValue
<1> QED BY <1>1, <1>2 DEF PopValue, DropNotified, TypeOK, senderVars

\* Every atomic step of try_send, recv and the two drops preserves the types.
LEMMA StepTypeOK == IInv /\ [Next]_vars => TypeOK'
<1> SUFFICES ASSUME IInv, [Next]_vars PROVE TypeOK'
  OBVIOUS
<1> USE CapacityAssumption, MaxSendsAssumption DEF IInv, TypeOK, senderVars, receiverVars
<1>1. CASE TrySendCheck BY <1>1 DEF TrySendCheck
<1>2. CASE TrySendPush
  <2>1. CASE Len(ring) = Capacity BY <1>2, <2>1 DEF TrySendPush
  <2>2. CASE Len(ring) < Capacity
    <3>1. ring' \in Seq(Nat) /\ Len(ring') = Len(ring) + 1
      BY <1>2, <2>2 DEF TrySendPush
    <3> QED BY <1>2, <2>2, <3>1 DEF TrySendPush
  <2> QED BY <1>2, <2>1, <2>2 DEF TrySendPush
<1>3. CASE TrySendNotify BY <1>3 DEF TrySendNotify, NotifyOne
<1>4. CASE SenderDropStore BY <1>4 DEF SenderDropStore
<1>5. CASE SenderDropNotify BY <1>5 DEF SenderDropNotify, NotifyOne
<1>6. CASE RecvEnable BY <1>6 DEF RecvEnable, EnableNotified
<1>7. CASE RecvPop
  <2>1. CASE PopValue BY <2>1, PopTypeOK
  <2>2. CASE ring = <<>> /\ ~PopValue BY <1>7, <2>2 DEF RecvPop
  <2> QED BY <1>7, <2>1, <2>2 DEF RecvPop
<1>8. CASE RecvCheck BY <1>8 DEF RecvCheck
<1>9. CASE RecvLastPop
  <2>1. CASE PopValue BY <1>9, <2>1, PopTypeOK DEF RecvLastPop
  <2>2. CASE ring = <<>> /\ ~PopValue
    <3>1. permit' \in BOOLEAN BY <1>9, <2>2, DropPermit DEF RecvLastPop
    <3> QED BY <1>9, <2>2, <3>1 DEF RecvLastPop, DropNotified
  <2> QED BY <1>9, <2>1, <2>2 DEF RecvLastPop
<1>10. CASE RecvWake BY <1>10 DEF RecvWake
<1>11. CASE RecvCancel BY <1>11 DEF RecvCancel, DropNotified
<1>12. CASE ReceiverDrop BY <1>12 DEF ReceiverDrop
<1>13. CASE UNCHANGED vars BY <1>13 DEF vars
<1> QED BY <1>1, <1>2, <1>3, <1>4, <1>5, <1>6, <1>7, <1>8, <1>9, <1>10, <1>11, <1>12, <1>13
        DEF Next, Producer, Consumer

\* The threads stay where PcInv says they are.
LEMMA StepPcInv == IInv /\ [Next]_vars => PcInv'
<1> SUFFICES ASSUME IInv, [Next]_vars PROVE PcInv'
  OBVIOUS
<1> USE DEF IInv, TypeOK, PcInv, senderVars, receiverVars
<1>1. CASE TrySendCheck BY <1>1 DEF TrySendCheck
<1>2. CASE TrySendPush BY <1>2 DEF TrySendPush
<1>3. CASE TrySendNotify BY <1>3 DEF TrySendNotify, NotifyOne
<1>4. CASE SenderDropStore BY <1>4 DEF SenderDropStore
<1>5. CASE SenderDropNotify BY <1>5 DEF SenderDropNotify, NotifyOne
<1>6. CASE RecvEnable BY <1>6 DEF RecvEnable, EnableNotified
<1>7. CASE RecvPop BY <1>7 DEF RecvPop, PopValue, DropNotified
<1>8. CASE RecvCheck BY <1>8 DEF RecvCheck
<1>9. CASE RecvLastPop BY <1>9 DEF RecvLastPop, PopValue, DropNotified
<1>10. CASE RecvWake BY <1>10 DEF RecvWake
<1>11. CASE RecvCancel BY <1>11 DEF RecvCancel, DropNotified
<1>12. CASE ReceiverDrop BY <1>12 DEF ReceiverDrop
<1>13. CASE UNCHANGED vars BY <1>13 DEF vars
<1> QED BY <1>1, <1>2, <1>3, <1>4, <1>5, <1>6, <1>7, <1>8, <1>9, <1>10, <1>11, <1>12, <1>13
        DEF Next, Producer, Consumer

\* Only a push and a pop change what the ring holds.
LEMMA StepRingInv == IInv /\ [Next]_vars => RingInv'
<1> SUFFICES ASSUME IInv, [Next]_vars PROVE RingInv'
  OBVIOUS
<1>1. CASE UNCHANGED <<ring, sent, received>> BY <1>1 DEF IInv, RingInv
<1>2. CASE TrySendPush /\ Len(ring) < Capacity
  <2>1. ring \in Seq(Nat) /\ sent \in Nat /\ received \in Nat BY DEF IInv, TypeOK
  <2>2. ring' = Append(ring, sent + 1) /\ sent' = sent + 1 /\ received' = received
    BY <1>2, <2>1, CapacityAssumption DEF TrySendPush, receiverVars
  <2>3. Len(ring') = Len(ring) + 1 /\ ring'[Len(ring) + 1] = sent + 1
        /\ \A i \in 1..Len(ring) : ring'[i] = ring[i]
    BY <2>1, <2>2
  <2> QED BY <2>1, <2>2, <2>3 DEF IInv, RingInv
<1>3. CASE PopValue
  <2>1. ring' = Tail(ring) /\ received' = Head(ring) /\ sent' = sent
    BY <1>3 DEF PopValue, senderVars
  <2>2. ring \in Seq(Nat) /\ sent \in Nat /\ received \in Nat BY DEF IInv, TypeOK
  <2>3. /\ Len(ring) > 0 /\ Head(ring) = ring[1]
        /\ Len(Tail(ring)) = Len(ring) - 1
        /\ \A i \in 1..Len(Tail(ring)) : Tail(ring)[i] = ring[i + 1]
    BY <1>3, PopFacts DEF IInv
  <2>4. Len(ring) \in Nat BY <2>2
  <2>5. received' = received + 1 BY <2>1, <2>3, <2>4 DEF IInv, RingInv
  <2>6. sent' = received' + Len(ring') BY <2>1, <2>2, <2>3, <2>4, <2>5 DEF IInv, RingInv
  <2>7. ASSUME NEW i \in 1..Len(ring') PROVE ring'[i] = received' + i
    <3>1. i \in 1..(Len(ring) - 1) /\ i + 1 \in 1..Len(ring) BY <2>1, <2>3, <2>4
    <3>2. ring'[i] = ring[i + 1] BY <2>1, <2>3, <3>1
    <3>3. ring[i + 1] = received + (i + 1) BY <3>1 DEF IInv, RingInv
    <3> QED BY <2>2, <2>5, <3>1, <3>2, <3>3
  <2> QED BY <2>6, <2>7 DEF RingInv
<1> QED BY <1>1, <1>2, <1>3
        DEF Next, Producer, Consumer, vars, senderVars, receiverVars, TrySendCheck, TrySendPush,
            TrySendNotify, SenderDropStore, SenderDropNotify, RecvEnable, RecvPop, RecvCheck,
            RecvLastPop, RecvWake, RecvCancel, ReceiverDrop, IInv, TypeOK

\* A registered consumer is not passed by: a push or a close that it did not
\* see is still to be notified.
LEMMA StepWakeInv == IInv /\ [Next]_vars => WakeInv'
<1> SUFFICES ASSUME IInv, [Next]_vars PROVE WakeInv'
  OBVIOUS
<1> USE DEF IInv, TypeOK, PcInv, WakeInv, senderVars, receiverVars
<1>1. CASE TrySendCheck BY <1>1 DEF TrySendCheck
<1>2. CASE TrySendPush BY <1>2 DEF TrySendPush
<1>3. CASE TrySendNotify BY <1>3 DEF TrySendNotify, NotifyOne
<1>4. CASE SenderDropStore BY <1>4 DEF SenderDropStore
<1>5. CASE SenderDropNotify BY <1>5 DEF SenderDropNotify, NotifyOne
<1>6. CASE RecvEnable BY <1>6 DEF RecvEnable, EnableNotified
<1>7. CASE RecvPop BY <1>7 DEF RecvPop, PopValue, DropNotified
<1>8. CASE RecvCheck BY <1>8 DEF RecvCheck
<1>9. CASE RecvLastPop BY <1>9 DEF RecvLastPop, PopValue, DropNotified
<1>10. CASE RecvWake BY <1>10 DEF RecvWake
<1>11. CASE RecvCancel BY <1>11 DEF RecvCancel, DropNotified
<1>12. CASE ReceiverDrop BY <1>12 DEF ReceiverDrop
<1>13. CASE UNCHANGED vars BY <1>13 DEF vars
<1> QED BY <1>1, <1>2, <1>3, <1>4, <1>5, <1>6, <1>7, <1>8, <1>9, <1>10, <1>11, <1>12, <1>13
        DEF Next, Producer, Consumer

\* Once recv has returned None the lane stays closed and empty.
LEMMA StepEndInv == IInv /\ [Next]_vars => EndInv'
<1> SUFFICES ASSUME IInv, [Next]_vars PROVE EndInv'
  OBVIOUS
<1> USE DEF IInv, TypeOK, PcInv, EndInv, senderVars, receiverVars
<1>1. CASE TrySendPush BY <1>1 DEF TrySendPush
<1>2. CASE PopValue BY <1>2 DEF PopValue
<1>3. CASE RecvLastPop /\ ~PopValue
  <2>1. sender_closed /\ ring = <<>> BY <1>3 DEF RecvLastPop
  <2>2. ring' = ring /\ sender_closed' = sender_closed BY <1>3 DEF RecvLastPop
  <2> QED BY <2>1, <2>2
<1>4. CASE UNCHANGED <<ring, ended>> /\ (sender_closed => sender_closed') BY <1>4
<1> QED BY <1>1, <1>2, <1>3, <1>4
        DEF Next, Producer, Consumer, vars, TrySendCheck, TrySendNotify, SenderDropStore,
            SenderDropNotify, RecvEnable, RecvPop, RecvCheck, RecvLastPop, RecvWake, RecvCancel,
            ReceiverDrop

\* The inductive invariant holds in every reachable state.
THEOREM InvariantHolds == Spec => []IInv
<1>1. Init => IInv BY InitIInv
<1>2. IInv /\ [Next]_vars => IInv'
  BY StepTypeOK, StepPcInv, StepRingInv, StepWakeInv, StepEndInv DEF IInv
<1> QED BY <1>1, <1>2, PTL DEF Spec

\* Every reachable state of the lane is well typed; the ring is within its
\* capacity.
THEOREM TypesHold == Spec => []TypeOK
<1>1. IInv => TypeOK BY DEF IInv
<1> QED BY <1>1, InvariantHolds, PTL

\* No interleaving of try_send, recv, cancellation and the drops leaves the
\* consumer parked with a value in the ring or a sender that is gone.
THEOREM WakeupsHold == Spec => []NoLostWakeup
<1>1. IInv => NoLostWakeup BY DEF IInv, WakeInv, NoLostWakeup
<1> QED BY <1>1, InvariantHolds, PTL

\* None is returned only after the sender is gone and everything was received.
THEOREM DrainedHolds == Spec => []NoneMeansDrained
<1>1. IInv => NoneMeansDrained
  BY DEF IInv, TypeOK, RingInv, EndInv, NoneMeansDrained
<1> QED BY <1>1, InvariantHolds, PTL

\* The lane is a bounded closable FIFO: a push that succeeds accepts, a pop
\* that succeeds delivers the next value, the store of Sender::drop closes,
\* None reports the end, and every other step changes nothing observable.
THEOREM Refinement == Spec => ImplementsChannel
<1>1. Init => Channel!Init BY DEF Init, Channel!Init
<1>2. IInv /\ [Next]_vars => [Channel!Next]_(Channel!cvars)
  <2> SUFFICES ASSUME IInv, [Next]_vars PROVE [Channel!Next]_(Channel!cvars)
    OBVIOUS
  <2>1. CASE TrySendPush /\ Len(ring) < Capacity
    <3>1. ~sender_closed BY <2>1 DEF TrySendPush, IInv, PcInv
    <3>2. Len(ring) # Capacity BY <2>1, CapacityAssumption DEF IInv, TypeOK
    <3> QED BY <2>1, <3>1, <3>2
            DEF TrySendPush, receiverVars, Channel!Next, Channel!Accept
  <2>2. CASE PopValue
    <3>1. Head(ring) = received + 1
      <4>1. Len(ring) > 0 /\ Head(ring) = ring[1] BY <2>2, PopFacts DEF IInv
      <4>2. Len(ring) \in Nat BY DEF IInv, TypeOK
      <4> QED BY <4>1, <4>2 DEF IInv, RingInv
    <3> QED BY <2>2, <3>1 DEF PopValue, senderVars, Channel!Next, Channel!Deliver
  <2>3. CASE SenderDropStore
    BY <2>3 DEF SenderDropStore, receiverVars, Channel!Next, Channel!Close
  <2>4. CASE RecvLastPop /\ ~PopValue
    <3>1. sender_closed /\ ring = <<>> BY <2>4 DEF RecvLastPop, IInv, PcInv
    <3>2. received = sent BY <3>1 DEF IInv, TypeOK, RingInv
    <3> QED BY <2>4, <3>1, <3>2 DEF RecvLastPop, senderVars, Channel!Next, Channel!ReportEnd
  <2>5. CASE UNCHANGED <<ring, sent, received, sender_closed, ended>>
    BY <2>5 DEF Channel!cvars
  <2> QED BY <2>1, <2>2, <2>3, <2>4, <2>5, CapacityAssumption
          DEF Next, Producer, Consumer, vars, senderVars, receiverVars, TrySendCheck, TrySendPush,
              TrySendNotify, SenderDropNotify, RecvEnable, RecvPop, RecvCheck, RecvLastPop,
              RecvWake, RecvCancel, ReceiverDrop, IInv, TypeOK
<1> QED BY <1>1, <1>2, InvariantHolds, PTL DEF Spec, ImplementsChannel, Channel!Spec
============================================================================
