-------------------------- MODULE ClosableChannel --------------------------
(***************************************************************************)
(* What a queue lane of rtn-mq promises its two owners: a bounded FIFO     *)
(* with one producer and one consumer.  The n-th accepted value is the     *)
(* number n.  The consumer gets every accepted value once and in order,    *)
(* and learns of the end of the lane (recv() = None) only after the        *)
(* producer is gone and everything it sent has been received.              *)
(***************************************************************************)
EXTENDS Naturals, Sequences

CONSTANT Capacity   \* descriptor slots of the lane

VARIABLES queue,    \* accepted and not yet received values
          sent,     \* number of accepted values
          received, \* number of received values
          closed,   \* the producer is gone
          ended     \* the consumer has been told that the lane ended

cvars == <<queue, sent, received, closed, ended>>

Init == /\ queue = <<>>
        /\ sent = 0
        /\ received = 0
        /\ closed = FALSE
        /\ ended = FALSE

Accept == /\ ~closed
          /\ Len(queue) < Capacity
          /\ sent' = sent + 1
          /\ queue' = Append(queue, sent + 1)
          /\ UNCHANGED <<received, closed, ended>>

Deliver == /\ queue # <<>>
           /\ Head(queue) = received + 1
           /\ received' = received + 1
           /\ queue' = Tail(queue)
           /\ UNCHANGED <<sent, closed, ended>>

Close == /\ closed' = TRUE
         /\ UNCHANGED <<queue, sent, received, ended>>

ReportEnd == /\ closed
             /\ received = sent
             /\ ended' = TRUE
             /\ UNCHANGED <<queue, sent, received, closed>>

Next == Accept \/ Deliver \/ Close \/ ReportEnd

Spec == Init /\ [][Next]_cvars
============================================================================
