----------------------------- MODULE SpscQueue -----------------------------
(***************************************************************************)
(* The single-producer, single-consumer lane of src/src/queue.rs: an rtrb  *)
(* ring, one tokio Notify that parks the consumer, and a closed flag per   *)
(* side.  The producer and the consumer run on different threads; every    *)
(* atomic access of one of them is a step of its own.                      *)
(*                                                                         *)
(* The payloads are numbered: the n-th accepted value is n.                *)
(***************************************************************************)
EXTENDS Naturals, Sequences

CONSTANTS Capacity, \* slots of the ring
          MaxSends  \* bound on accepted values (the code has none)

ASSUME CapacityAssumption == Capacity \in Nat \ {0}
ASSUME MaxSendsAssumption == MaxSends \in Nat

VARIABLES ring,            \* the contents of the rtrb ring, oldest first
          permit,          \* Notify: a stored notification without a waiter
          notified,        \* Notify: state of the Notified future of recv()
          sender_closed, receiver_closed,
          spc,             \* next step of the producer
          rpc,             \* next step of the consumer
          sent, received,  \* accepted and received values so far
          ended            \* recv() has returned None

vars == <<ring, permit, notified, sender_closed, receiver_closed, spc, rpc,
          sent, received, ended>>

senderVars == <<sender_closed, spc, sent>>
receiverVars == <<receiver_closed, rpc, received, ended>>

Init == /\ ring = <<>>
        /\ permit = FALSE
        /\ notified = "none"
        /\ sender_closed = FALSE
        /\ receiver_closed = FALSE
        /\ spc = "idle"
        /\ rpc = "idle"
        /\ sent = 0
        /\ received = 0
        /\ ended = FALSE

(***************************************************************************)
(* tokio::sync::Notify with a single waiter (external).                    *)
(***************************************************************************)
\* notify_one(): wake the registered waiter, or store one permit.
NotifyOne == IF notified = "waiting"
             THEN notified' = "woken" /\ UNCHANGED permit
             ELSE permit' = TRUE /\ UNCHANGED notified

\* Notified::enable(): take the stored permit, or register as the waiter.
EnableNotified == IF permit
                  THEN notified' = "done" /\ permit' = FALSE
                  ELSE notified' = "waiting" /\ UNCHANGED permit

\* Dropping the future: a wakeup it was given and did not use is passed on.
DropNotified == /\ notified' = "none"
                /\ permit' = (permit \/ notified = "woken")

(***************************************************************************)
(* Producer: Sender::try_send and Drop for Sender.                         *)
(***************************************************************************)
\* try_send: the early return when the receiver is gone.
TrySendCheck == /\ spc = "idle"
                /\ sent < MaxSends
                /\ spc' = IF receiver_closed THEN "idle" ELSE "push"
                /\ UNCHANGED <<ring, permit, notified, sender_closed, sent, receiverVars>>

\* Mutant: a full ring is not noticed.
TrySendPushUnbounded == /\ spc = "push"
                        /\ ring' = Append(ring, sent + 1)
                        /\ sent' = sent + 1
                        /\ spc' = "notify"
                        /\ UNCHANGED <<permit, notified, sender_closed, receiverVars>>

\* try_send: producer.push, Err(value) on a full ring.
TrySendPush == /\ spc = "push"
               /\ \/ /\ Len(ring) = Capacity
                     /\ spc' = "idle"
                     /\ UNCHANGED <<ring, sent>>
                  \/ /\ Len(ring) < Capacity
                     /\ ring' = Append(ring, sent + 1)
                     /\ sent' = sent + 1
                     /\ spc' = "notify"
               /\ UNCHANGED <<permit, notified, sender_closed, receiverVars>>

\* Mutant: the first value of an empty ring does not wake the consumer.
TrySendNotifyFirst == /\ spc = "notify"
                      /\ IF Len(ring) = 1 THEN UNCHANGED <<permit, notified>> ELSE NotifyOne
                      /\ spc' = "idle"
                      /\ UNCHANGED <<ring, sender_closed, sent, receiverVars>>

TrySendNotify == /\ spc = "notify"
                 /\ NotifyOne
                 /\ spc' = "idle"
                 /\ UNCHANGED <<ring, sender_closed, sent, receiverVars>>

\* Mutant: the notification is forgotten.
SenderDropSilent == /\ spc = "idle"
                    /\ sender_closed' = TRUE
                    /\ spc' = "gone"
                    /\ UNCHANGED <<ring, permit, notified, sent, receiverVars>>

\* Drop for Sender: the store, then the notification.
SenderDropStore == /\ spc = "idle"
                   /\ sender_closed' = TRUE
                   /\ spc' = "drop_notify"
                   /\ UNCHANGED <<ring, permit, notified, sent, receiverVars>>

SenderDropNotify == /\ spc = "drop_notify"
                    /\ NotifyOne
                    /\ spc' = "gone"
                    /\ UNCHANGED <<ring, sender_closed, sent, receiverVars>>

(***************************************************************************)
(* Consumer: Receiver::recv and Drop for Receiver.                         *)
(***************************************************************************)
\* recv (first iteration, or again after a wakeup): register interest.
RecvEnable == /\ rpc = "idle" \/ rpc = "loop"
              /\ EnableNotified
              /\ rpc' = "pop"
              /\ UNCHANGED <<ring, receiver_closed, received, ended, senderVars>>

\* consumer.pop() succeeded: recv returns the value and drops the future.
PopValue == /\ ring # <<>>
            /\ ring' = Tail(ring)
            /\ received' = Head(ring)
            /\ rpc' = "idle"
            /\ DropNotified
            /\ UNCHANGED <<receiver_closed, ended, senderVars>>

RecvPop == /\ rpc = "pop"
           /\ \/ PopValue
              \/ /\ ring = <<>>
                 /\ rpc' = "check"
                 /\ UNCHANGED <<ring, permit, notified, receiver_closed, received, ended, senderVars>>

\* The sender_closed test that follows an empty pop.
RecvCheck == /\ rpc = "check"
             /\ rpc' = IF sender_closed THEN "last_pop" ELSE "await"
             /\ UNCHANGED <<ring, permit, notified, receiver_closed, received, ended, senderVars>>

\* Mutant: a closed sender ends the lane without the second pop.
RecvEndAtOnce == /\ rpc = "last_pop"
                 /\ ended' = TRUE
                 /\ rpc' = "idle"
                 /\ DropNotified
                 /\ UNCHANGED <<ring, receiver_closed, received, senderVars>>

\* return self.consumer.pop().ok(): values pushed between the first pop and
\* the close are still returned.
RecvLastPop == /\ rpc = "last_pop"
               /\ \/ PopValue
                  \/ /\ ring = <<>>
                     /\ ended' = TRUE
                     /\ rpc' = "idle"
                     /\ DropNotified
                     /\ UNCHANGED <<ring, receiver_closed, received, senderVars>>

\* notified.await completes, and the loop runs again.
RecvWake == /\ rpc = "await"
            /\ notified \in {"woken", "done"}
            /\ notified' = "none"
            /\ rpc' = "loop"
            /\ UNCHANGED <<ring, permit, receiver_closed, received, ended, senderVars>>

\* The recv future is dropped at its await point (a timeout, a select!).
RecvCancel == /\ rpc = "await"
              /\ DropNotified
              /\ rpc' = "idle"
              /\ UNCHANGED <<ring, receiver_closed, received, ended, senderVars>>

ReceiverDrop == /\ rpc = "idle"
                /\ receiver_closed' = TRUE
                /\ rpc' = "gone"
                /\ UNCHANGED <<ring, permit, notified, received, ended, senderVars>>

Producer == \/ TrySendCheck \/ TrySendPush \/ TrySendNotify
            \/ SenderDropStore \/ SenderDropNotify

Consumer == \/ RecvEnable \/ RecvPop \/ RecvCheck \/ RecvLastPop \/ RecvWake
            \/ RecvCancel \/ ReceiverDrop

Next == Producer \/ Consumer

Spec == Init /\ [][Next]_vars

\* Code that has begun runs on: a synchronous function finishes, and the
\* runtime polls a task whose future was woken.  Nothing makes an application
\* call, cancel or drop anything.
Fairness == /\ WF_vars(TrySendPush) /\ WF_vars(TrySendNotify)
            /\ WF_vars(SenderDropNotify)
            /\ WF_vars(rpc = "loop" /\ RecvEnable) /\ WF_vars(RecvPop)
            /\ WF_vars(RecvCheck) /\ WF_vars(RecvLastPop) /\ WF_vars(RecvWake)

FairSpec == Spec /\ Fairness

----------------------------------------------------------------------------
\* The variables keep their types, and push never exceeds the ring's capacity.
TypeOK == /\ ring \in Seq(Nat) /\ Len(ring) <= Capacity
          /\ permit \in BOOLEAN
          /\ notified \in {"none", "waiting", "woken", "done"}
          /\ sender_closed \in BOOLEAN /\ receiver_closed \in BOOLEAN
          /\ spc \in {"idle", "push", "notify", "drop_notify", "gone"}
          /\ rpc \in {"idle", "loop", "pop", "check", "last_pop", "await", "gone"}
          /\ sent \in Nat /\ received \in Nat
          /\ ended \in BOOLEAN

\* The consumer parked in notified.await has been missed by no notification:
\* while a value is in the ring, or the sender is gone, its wakeup is given or
\* the producer is still on its way to notify_one (register, recheck, wait).
NoLostWakeup ==
    (rpc = "await" /\ notified = "waiting") =>
        /\ ring # <<>> => spc = "notify"
        /\ sender_closed => spc = "drop_notify"

\* recv returns None only when the sender is gone and every accepted value was
\* received: the pop after the closed test is not skipped.
NoneMeansDrained == ended => sender_closed /\ received = sent /\ ring = <<>>

Channel == INSTANCE ClosableChannel WITH queue <- ring, closed <- sender_closed

\* Sender and Receiver implement the bounded closable FIFO of ClosableChannel:
\* values leave in order and once, and the end is reported after the last one.
ImplementsChannel == Channel!Spec

\* A recv() call returns (or is cancelled) once a value is in the ring or the
\* sender is dropped, however the steps of the two threads interleave.
RecvReturns ==
    (rpc \in {"loop", "pop", "check", "last_pop", "await"} /\ (ring # <<>> \/ sender_closed))
        ~> (rpc = "idle")
============================================================================
