------------------------------ MODULE Delivery ------------------------------
(***************************************************************************)
(* One publisher and one subscriber endpoint exchanging the messages of    *)
(* one topic: the delivery half of src/src/endpoint/owner.rs at both ends, *)
(* the transport tasks between them (src/src/endpoint/transport.rs), and   *)
(* the application that receives and completes deliveries.                 *)
(*                                                                         *)
(* Each owner is one task: a command, a frame or a tick is handled in one  *)
(* step, with the schedule() call that ends it.  The transport tasks and   *)
(* the application interleave with both.  Control frames of a session are  *)
(* one FIFO stream per direction; each binding's DATA has a stream of its  *)
(* own, so DATA and control overtake each other.  Sessions fail, and the   *)
(* endpoints register new ones independently.                              *)
(*                                                                         *)
(* Sessions, subscriptions and messages are numbered in order of creation. *)
(* Every message is addressed to one subscription, so a delivery key is    *)
(* the message.  Byte sizes are not modelled: a credit always covers a     *)
(* frame.  The 64-slot control queue never overflows here.                 *)
(***************************************************************************)
EXTENDS Integers, Sequences, FiniteSets

CONSTANTS Mode,                \* "Acknowledged" or "BestEffort"
          MaxMsgs, MaxSubs, MaxSessions, \* bounds of the numberings
          PeerMessages,        \* Config::per_peer_messages
          SubMessages,         \* Config::subscription_messages
          Expiring             \* messages whose lifetime ends within the model

Msgs == 1..MaxMsgs
Subs == 1..MaxSubs
Sessions == 1..MaxSessions

ASSUME ModeAssumption == Mode \in {"Acknowledged", "BestEffort"}
ASSUME BoundsAssumption == MaxMsgs \in Nat /\ MaxSubs \in Nat /\ MaxSessions \in Nat
ASSUME LimitsAssumption == PeerMessages \in Nat \ {0} /\ SubMessages \in Nat \ {0}
ASSUME ExpiringAssumption == Expiring \subseteq Msgs

VARIABLES pub,      \* state of the publisher's owner and its DATA writer
          sub,      \* state of the subscriber's owner and its application
          ticket,   \* Begin answered, Incoming not yet handled: per DATA stream
          alive,    \* the QUIC connection of a session is open
          pnew, snew, \* sessions whose Register has not reached the owner
          nonce,    \* dialer nonce of a session, 0 before it exists
          p2s, s2p, \* control frames in flight, per session
          data,     \* DATA frames in flight, per stream
          stopped,  \* STOP_SENDING 1 was sent on the stream
          expired,  \* messages past their expiry
          acked,    \* messages the application called ack() on
          faults    \* kinds of error that made an owner or a reader drop a session

vars == <<pub, sub, ticket, alive, pnew, snew, nonce, p2s, s2p, data, stopped,
          expired, acked, faults>>

net == <<pnew, snew, nonce>>

None == 0
NoBinding == [sub |-> None, credit |-> FALSE, requested |-> FALSE,
              queue |-> <<>>, writing |-> None, dead |-> FALSE]

\* The frames of wire::Control that delivery uses.  Request is CREDIT with
\* slots = 0 and bytes > 0, Return is CREDIT with slots = 0 and bytes = 0.
Frame(type, n) == [type |-> type, n |-> n, code |-> 0]
Outcome(m, code) == [type |-> "Outcome", n |-> m, code |-> code]

\* pend[m] of the publisher is one of: no; due: may be sent now; writing:
\* handed to the writer, not reported Sent; wait: next retry is not due.
Init == /\ pub = [sess |-> None, bind |-> NoBinding,
                  pend |-> [m \in Msgs |-> "no"],
                  target |-> [m \in Msgs |-> None],
                  tried |-> {}, terminal |-> {},
                  outcome |-> [m \in Msgs |-> "None"],
                  sentq |-> <<>>, out |-> <<>>]
        /\ sub = [sess |-> None, id |-> None, created |-> 0, open |-> FALSE,
                  confirmed |-> FALSE, grant |-> FALSE, demand |-> FALSE,
                  ring |-> <<>>,
                  obj |-> [m \in Msgs |-> "none"],
                  disp |-> [m \in Msgs |-> 0],
                  dedup |-> [m \in Msgs |-> "None"],
                  out |-> <<>>]
        /\ ticket = [x \in Sessions \X Subs |-> None]
        /\ alive = [s \in Sessions |-> FALSE]
        /\ pnew = {} /\ snew = {}
        /\ nonce = [s \in Sessions |-> 0]
        /\ p2s = [s \in Sessions |-> <<>>]
        /\ s2p = [s \in Sessions |-> <<>>]
        /\ data = [x \in Sessions \X Subs |-> <<>>]
        /\ stopped = {}
        /\ expired = {} /\ acked = {} /\ faults = {}

(***************************************************************************)
(* Publisher: the operations of Owner as functions of its state p.         *)
(***************************************************************************)
Pending(p) == {m \in Msgs : p.pend[m] # "no"}
PendingFor(p, b) == {m \in Pending(p) : p.target[m] = b}

\* Mutant: the outcome is reported only when the delivery was attempted.
FinishAttempted(p, ms, result) ==
    [p EXCEPT !.pend = [m \in Msgs |-> IF m \in ms THEN "no" ELSE @[m]],
              !.outcome = [m \in Msgs |-> IF m \in ms \cap Pending(p) \cap p.tried
                                          THEN result ELSE @[m]],
              !.terminal = @ \cup (ms \cap Pending(p) \cap p.tried)]

\* Mutant: no terminal receipt is kept.
FinishNoReceipt(p, ms, result) ==
    [p EXCEPT !.pend = [m \in Msgs |-> IF m \in ms THEN "no" ELSE @[m]],
              !.outcome = [m \in Msgs |-> IF m \in ms \cap Pending(p) THEN result ELSE @[m]]]

\* Owner::finish on every delivery of ms.
Finish(p, ms, result) ==
    [p EXCEPT !.pend = [m \in Msgs |-> IF m \in ms THEN "no" ELSE @[m]],
              !.outcome = [m \in Msgs |-> IF m \in ms \cap Pending(p) THEN result ELSE @[m]],
              !.terminal = @ \cup (ms \cap Pending(p) \cap p.tried)]

\* Mutant: best-effort deliveries are kept for the next session too.
RemoveSubscriberKeeping(p) ==
    [p EXCEPT !.sess = None, !.bind = NoBinding, !.sentq = <<>>, !.out = <<>>,
              !.pend = [m \in Msgs |-> IF @[m] = "no" THEN "no" ELSE "due"]]

\* Owner::remove_peer: a best-effort delivery fails, the others become due.
RemoveSubscriber(p) ==
    LET q == [p EXCEPT !.sess = None, !.bind = NoBinding, !.sentq = <<>>, !.out = <<>>,
                       !.pend = [m \in Msgs |-> IF @[m] = "no" THEN "no" ELSE "due"]]
    IN IF Mode = "BestEffort" THEN Finish(q, Pending(q), "Failed") ELSE q

Send(x, frame) == IF x.sess = None THEN x ELSE [x EXCEPT !.out = Append(@, frame)]

\* Owner::schedule: the deliveries that may be sent now, oldest first, use the
\* binding's credit; the next one asks for another.
Eligible(p) == {m \in Msgs : /\ p.pend[m] = "due"
                             /\ m \notin expired
                             /\ p.bind # NoBinding /\ p.bind.sub = p.target[m]}

Oldest(ms) == CHOOSE m \in ms : \A k \in ms : m <= k

RequestCredit(p) ==
    IF p.bind.requested THEN p
    ELSE Send([p EXCEPT !.bind.requested = TRUE], Frame("Request", p.bind.sub))

Schedule(p) ==
    LET ms == Eligible(p)
        m == Oldest(ms)
        q == [p EXCEPT !.bind.credit = FALSE, !.bind.queue = Append(@, m),
                       !.pend[m] = "writing", !.tried = @ \cup {m}]
    IN CASE ms = {} -> p
         [] ms # {} /\ ~p.bind.credit -> RequestCredit(p)
         [] ms # {} /\ p.bind.credit /\ (p.bind.queue # <<>> \/ p.bind.dead) -> p
         [] OTHER -> IF ms = {m} THEN q ELSE RequestCredit(q)

\* The end of every publisher step.  Dropping a Peer closes its connection;
\* what its session still holds would be ignored by the session checks of
\* Remote and Sent, and is dropped with it.
PublisherStep(p, inbox) ==
    LET q == Schedule(p)
        old == pub.sess
        over == old # None /\ q.sess # old
    IN /\ pub' = [q EXCEPT !.out = <<>>]
       /\ p2s' = IF q.sess # None /\ alive[q.sess]
                 THEN [p2s EXCEPT ![q.sess] = @ \o q.out] ELSE p2s
       /\ s2p' = IF over THEN [inbox EXCEPT ![old] = <<>>] ELSE inbox
       /\ alive' = IF over THEN [alive EXCEPT ![old] = FALSE] ELSE alive

(***************************************************************************)
(* Publisher: application calls, the DATA writer task, timers.             *)
(***************************************************************************)
\* Owner::publish, to the one recipient: NoSubscribers without a binding, and
\* Rejected when the peer's slots are used up.
Publish(m) ==
    /\ pub.outcome[m] = "None" /\ \A k \in 1..(m - 1) : pub.outcome[k] # "None"
    /\ pub.bind # NoBinding
    /\ IF Cardinality(Pending(pub)) < PeerMessages
       THEN PublisherStep([pub EXCEPT !.pend[m] = "due", !.target[m] = pub.bind.sub,
                                      !.outcome[m] = "Pending"], s2p)
       ELSE PublisherStep([pub EXCEPT !.outcome[m] = "Rejected"], s2p)
    /\ UNCHANGED <<sub, ticket, net, data, stopped, expired, acked, faults>>

\* Command::Cancel.
Cancel(m) == /\ m \in Pending(pub)
             /\ PublisherStep(Finish(pub, {m}, "Cancelled"), s2p)
             /\ UNCHANGED <<sub, ticket, net, data, stopped, expired, acked, faults>>

\* pending.next is reached; the next schedule() sends the delivery again.
RetryDue(m) == /\ pub.pend[m] = "wait"
               /\ pub' = [pub EXCEPT !.pend[m] = "due"]
               /\ UNCHANGED <<sub, ticket, alive, net, p2s, s2p, data, stopped, expired,
                              acked, faults>>

\* write_data takes the next item of its queue.
WriterTake == /\ pub.bind.queue # <<>> /\ pub.bind.writing = None /\ ~pub.bind.dead
              /\ pub' = [pub EXCEPT !.bind.writing = Head(pub.bind.queue), !.bind.queue = Tail(@)]
              /\ UNCHANGED <<sub, ticket, alive, net, p2s, s2p, data, stopped, expired,
                             acked, faults>>

\* write_frame returned: the frame is on the stream, or the stream was stopped
\* with code 1, or the write failed and the task closes the connection.
WriterDone ==
    LET x == <<pub.sess, pub.bind.sub>>
        m == pub.bind.writing
        Report(result, dead) ==
            pub' = [pub EXCEPT !.bind.writing = None, !.bind.dead = dead,
                               !.sentq = Append(@, <<m, result>>)]
    IN /\ m # None
       /\ \/ /\ alive[pub.sess] /\ x \notin stopped
             /\ data' = [data EXCEPT ![x] = Append(@, m)]
             /\ Report("ok", FALSE)
             /\ UNCHANGED alive
          \/ /\ alive[pub.sess] /\ x \in stopped
             /\ Report("closed", TRUE)
             /\ UNCHANGED <<alive, data>>
          \/ /\ Report("error", TRUE)
             /\ alive' = [alive EXCEPT ![pub.sess] = FALSE]
             /\ UNCHANGED data
       /\ UNCHANGED <<sub, ticket, net, p2s, s2p, stopped, expired, acked, faults>>

\* Command::Sent.
Sent ==
    LET m == pub.sentq[1][1]
        result == pub.sentq[1][2]
        p == [pub EXCEPT !.sentq = Tail(@)]
        q == CASE m \notin Pending(p) -> p
               [] m \in Pending(p) /\ Mode = "BestEffort" ->
                     Finish(p, {m}, IF result = "ok" THEN "Sent" ELSE "Failed")
               [] m \in Pending(p) /\ Mode # "BestEffort" /\ result = "closed" ->
                     Finish(p, {m}, "Failed")
               [] m \in Pending(p) /\ Mode # "BestEffort" /\ result = "error" ->
                     RemoveSubscriber(p)
               [] OTHER -> [p EXCEPT !.pend[m] = "wait"]
    IN /\ pub.sentq # <<>>
       /\ PublisherStep(q, s2p)
       /\ UNCHANGED <<sub, ticket, net, data, stopped, expired, acked, faults>>

(***************************************************************************)
(* Publisher: Owner::control, on the oldest frame of the current session.  *)
(***************************************************************************)
FromSubscriber(type) == /\ pub.sess # None /\ s2p[pub.sess] # <<>>
                        /\ Head(s2p[pub.sess]).type = type
PInbox == [s2p EXCEPT ![pub.sess] = Tail(@)]

\* Dropping a Binding cancels its writer; a frame it was writing is cut short
\* (the stream is finished after a prefix of it) or not begun.
DropWriter(kept) == \/ UNCHANGED data
                    \/ /\ ~kept /\ pub.bind.writing # None /\ alive[pub.sess]
                       /\ data' = [data EXCEPT ![<<pub.sess, pub.bind.sub>>] = Append(@, None)]

HandleSubscribe ==
    /\ FromSubscriber("Subscribe")
    /\ LET b == Head(s2p[pub.sess]).n
           p == IF pub.bind.sub = b THEN pub ELSE [pub EXCEPT !.bind = [NoBinding EXCEPT !.sub = b]]
       IN /\ PublisherStep(Send(p, Frame("Suback", b)), PInbox)
          /\ DropWriter(pub.bind.sub = b)
    /\ UNCHANGED <<sub, ticket, net, stopped, expired, acked, faults>>

HandleUnsubscribe ==
    /\ FromSubscriber("Unsubscribe")
    /\ LET b == Head(s2p[pub.sess]).n
           p == IF pub.bind.sub = b THEN [pub EXCEPT !.bind = NoBinding] ELSE pub
       IN /\ PublisherStep(Finish(p, PendingFor(p, b), "Failed"), PInbox)
          /\ DropWriter(pub.bind.sub # b)
    /\ UNCHANGED <<sub, ticket, net, stopped, expired, acked, faults>>

HandleCredit ==
    /\ FromSubscriber("Credit")
    /\ LET b == Head(s2p[pub.sess]).n
           granted == [pub EXCEPT !.bind.credit = TRUE, !.bind.requested = FALSE]
           unused == Send([granted EXCEPT !.bind.credit = FALSE], Frame("Return", b))
       IN CASE pub.bind.sub # b -> PublisherStep(pub, PInbox) /\ UNCHANGED faults
            [] pub.bind.sub = b /\ (~pub.bind.requested \/ pub.bind.credit) ->
                  /\ PublisherStep(RemoveSubscriber(pub), PInbox)
                  /\ faults' = faults \cup {"unsolicited credit"}
            [] OTHER -> /\ PublisherStep(IF PendingFor(pub, b) = {} THEN unused ELSE granted, PInbox)
                        /\ UNCHANGED faults
    /\ UNCHANGED <<sub, ticket, net, data, stopped, expired, acked>>

HandleOutcome ==
    /\ FromSubscriber("Outcome")
    /\ LET m == Head(s2p[pub.sess]).n
           code == Head(s2p[pub.sess]).code
           error == CASE m \in Pending(pub) /\ m \notin pub.tried -> {"ACK before DATA"}
                      [] m \notin Pending(pub) /\ m \notin pub.terminal -> {"unaddressed ACK"}
                      [] OTHER -> {}
           retry == IF pub.pend[m] = "due" THEN [pub EXCEPT !.pend[m] = "wait"] ELSE pub
           p == CASE code = 0 -> Finish(pub, {m}, "Processed")
                  [] code = 1 -> retry
                  [] OTHER -> Finish(pub, {m}, "PermanentNack")
       IN /\ PublisherStep(IF error = {} THEN p ELSE RemoveSubscriber(pub), PInbox)
          /\ faults' = faults \cup error
    /\ UNCHANGED <<sub, ticket, net, data, stopped, expired, acked>>

(***************************************************************************)
(* Publisher: Command::End and Owner::maintenance.                         *)
(***************************************************************************)
PublisherEnd == /\ pub.sess # None /\ ~alive[pub.sess]
                /\ PublisherStep(RemoveSubscriber(pub), s2p)
                /\ UNCHANGED <<sub, ticket, net, data, stopped, expired, acked, faults>>

InFlight(m) == \/ m = pub.bind.writing \/ m \in {pub.bind.queue[i] : i \in DOMAIN pub.bind.queue}
               \/ \E x \in Sessions \X Subs : m = ticket[x] \/ \E i \in DOMAIN data[x] : data[x][i] = m
               \/ \E s \in Sessions : \E i \in DOMAIN s2p[s] :
                     s2p[s][i].type = "Outcome" /\ s2p[s][i].n = m

\* Timing assumption: no frame of a message is still under way when the
\* publisher drops its terminal receipt, a handshake timeout after the expiry.
Forgettable == {m \in pub.terminal \cap expired : ~InFlight(m)}

\* Mutant: only the deliveries of connected peers expire.
OverdueConnected(p) == {m \in Pending(p) : \/ m \in expired /\ p.sess # None
                                           \/ p.bind # NoBinding /\ p.bind.sub # p.target[m]}

\* The deliveries that maintenance fails: expired, or their subscription replaced.
Overdue(p) == {m \in Pending(p) : \/ m \in expired
                                  \/ p.bind # NoBinding /\ p.bind.sub # p.target[m]}

PublisherMaintenance ==
    \E forgotten \in {{}, Forgettable} :
       LET p1 == IF pub.sess # None /\ ~alive[pub.sess] THEN RemoveSubscriber(pub) ELSE pub
           p2 == [p1 EXCEPT !.terminal = @ \ forgotten]
           p3 == Finish(p2, Overdue(p2), "Failed")
           p4 == IF p3.bind.credit /\ PendingFor(p3, p3.bind.sub) = {}
                 THEN Send([p3 EXCEPT !.bind.credit = FALSE], Frame("Return", p3.bind.sub)) ELSE p3
       IN /\ PublisherStep(p4, s2p)
          /\ UNCHANGED <<sub, ticket, net, data, stopped, expired, acked, faults>>

(***************************************************************************)
(* Subscriber: the operations of Owner as functions of its state r.        *)
(***************************************************************************)
\* Owner::remove_peer.
RemovePublisher(r) == [r EXCEPT !.sess = None, !.out = <<>>, !.confirmed = FALSE,
                                !.grant = FALSE, !.demand = FALSE]

\* The slots budget of the local subscription: the permit travels from the
\* grant to the ticket to the payload, and is freed when that is dropped.
SlotsUsed(r) == (IF r.grant THEN 1 ELSE 0)
              + Cardinality({s \in Sessions : r.id # None /\ ticket[<<s, r.id>>] # None})
              + Cardinality({m \in Msgs : r.obj[m] \in {"queued", "held"} /\ pub.target[m] = r.id})

\* Mutant: the subscription's slots are not reserved.
GrantCreditsUnreserved(r) ==
    IF r.id # None /\ r.demand /\ r.confirmed /\ ~r.grant
    THEN Send([r EXCEPT !.demand = FALSE, !.grant = TRUE], Frame("Credit", r.id))
    ELSE r

\* Owner::grant_credits, for the one publisher.
GrantCredits(r) ==
    IF r.id # None /\ r.demand /\ r.confirmed /\ ~r.grant /\ SlotsUsed(r) < SubMessages
    THEN Send([r EXCEPT !.demand = FALSE, !.grant = TRUE], Frame("Credit", r.id))
    ELSE r

\* The end of every subscriber step, as PublisherStep.
SubscriberStep(r, inbox) ==
    LET old == sub.sess
        over == old # None /\ r.sess # old
    IN /\ sub' = [r EXCEPT !.out = <<>>]
       /\ s2p' = IF r.sess # None /\ alive[r.sess]
                 THEN [s2p EXCEPT ![r.sess] = @ \o r.out] ELSE s2p
       /\ p2s' = IF over THEN [inbox EXCEPT ![old] = <<>>] ELSE inbox
       /\ alive' = IF over THEN [alive EXCEPT ![old] = FALSE] ELSE alive
       /\ data' = IF over THEN [x \in DOMAIN data |-> IF x[1] = old THEN <<>> ELSE data[x]] ELSE data

(***************************************************************************)
(* Subscriber: application calls.                                          *)
(***************************************************************************)
\* Owner::subscribe: AlreadySubscribed until maintenance saw the last handle
\* dropped.
Subscribe ==
    /\ sub.id = None /\ sub.created < MaxSubs
    /\ LET b == sub.created + 1
           r == [sub EXCEPT !.id = b, !.created = b, !.open = TRUE, !.confirmed = FALSE,
                            !.grant = FALSE, !.demand = FALSE, !.ring = <<>>]
       IN SubscriberStep(Send(r, Frame("Subscribe", b)), p2s)
    /\ UNCHANGED <<pub, ticket, net, stopped, expired, acked, faults>>

DropSubscription == /\ sub.open
                    /\ sub' = [sub EXCEPT !.open = FALSE]
                    /\ UNCHANGED <<pub, ticket, alive, net, p2s, s2p, data, stopped, expired,
                                   acked, faults>>

\* Subscription::recv.
Recv == /\ sub.open /\ sub.ring # <<>>
        /\ sub' = [sub EXCEPT !.obj[Head(sub.ring)] = "held", !.ring = Tail(@)]
        /\ UNCHANGED <<pub, ticket, alive, net, p2s, s2p, data, stopped, expired, acked, faults>>

\* Delivery::ack (1), nack or drop (2), permanent nack (3).
Complete(m, code) ==
    /\ sub.obj[m] = "held"
    /\ sub' = [sub EXCEPT !.obj[m] = "done", !.disp[m] = code]
    /\ acked' = IF code = 1 THEN acked \cup {m} ELSE acked
    /\ UNCHANGED <<pub, ticket, alive, net, p2s, s2p, data, stopped, expired, faults>>

(***************************************************************************)
(* Subscriber: Owner::control.                                             *)
(***************************************************************************)
FromPublisher(type) == /\ sub.sess # None /\ p2s[sub.sess] # <<>>
                       /\ Head(p2s[sub.sess]).type = type
SInbox == [p2s EXCEPT ![sub.sess] = Tail(@)]

HandleSuback ==
    /\ FromPublisher("Suback")
    /\ SubscriberStep(IF sub.id = Head(p2s[sub.sess]).n
                      THEN [sub EXCEPT !.confirmed = TRUE] ELSE sub, SInbox)
    /\ UNCHANGED <<pub, ticket, net, stopped, expired, acked, faults>>

\* Mutant: a returned credit leaves the grant in place.
ReturnKeepsGrant ==
    /\ \/ FromPublisher("Request")
       \/ FromPublisher("Return")
    /\ LET f == Head(p2s[sub.sess])
           r == [sub EXCEPT !.demand = (f.type = "Request")]
       IN SubscriberStep(IF sub.id = f.n /\ sub.confirmed THEN r ELSE sub, SInbox)
    /\ UNCHANGED <<pub, ticket, net, stopped, expired, acked, faults>>

\* Mutant: a request that overtakes the DATA of the last grant is forgotten.
RequestNeedsNoGrant ==
    /\ \/ FromPublisher("Request")
       \/ FromPublisher("Return")
    /\ LET f == Head(p2s[sub.sess])
           r == IF f.type = "Request" THEN [sub EXCEPT !.demand = ~sub.grant]
                ELSE [sub EXCEPT !.grant = FALSE, !.demand = FALSE]
       IN SubscriberStep(IF sub.id = f.n /\ sub.confirmed THEN r ELSE sub, SInbox)
    /\ UNCHANGED <<pub, ticket, net, stopped, expired, acked, faults>>

HandleRequestCredit ==
    /\ \/ FromPublisher("Request")
       \/ FromPublisher("Return")
    /\ LET f == Head(p2s[sub.sess])
           r == IF f.type = "Request" THEN [sub EXCEPT !.demand = TRUE]
                ELSE [sub EXCEPT !.grant = FALSE, !.demand = FALSE]
       IN SubscriberStep(IF sub.id = f.n /\ sub.confirmed THEN r ELSE sub, SInbox)
    /\ UNCHANGED <<pub, ticket, net, stopped, expired, acked, faults>>

(***************************************************************************)
(* Subscriber: read_data, Owner::begin and Owner::incoming.                *)
(***************************************************************************)
\* A reader that fails cancels its session.
ReaderFails(s, kind) == /\ alive' = [alive EXCEPT ![s] = FALSE]
                        /\ faults' = faults \cup {kind}
                        /\ UNCHANGED <<sub, ticket, stopped, data>>

\* SubscriptionClosed: STOP_SENDING code 1, and the reader ends.
ReaderStops(x) == /\ stopped' = stopped \cup {x}
                  /\ data' = [data EXCEPT ![x] = <<>>]
                  /\ UNCHANGED <<sub, ticket, alive, faults>>

ReaderAdmits(x, m) == /\ sub' = [sub EXCEPT !.grant = FALSE]
                      /\ data' = [data EXCEPT ![x] = Tail(@)]
                      /\ ticket' = [ticket EXCEPT ![x] = m]
                      /\ UNCHANGED <<alive, stopped, faults>>

Begin(b) ==
    LET s == sub.sess
        x == <<s, b>>
        m == Head(data[x])
    IN /\ s # None /\ data[x] # <<>> /\ ticket[x] = None
       /\ \/ m = None /\ ReaderFails(s, "truncated DATA")
          \/ sub.id = None /\ ReaderStops(x)
          \/ /\ m # None /\ sub.id # None
             /\ CASE sub.id # b \/ ~sub.confirmed -> ReaderFails(s, "unauthorized DATA")
                  [] sub.id = b /\ sub.confirmed /\ ~sub.grant -> ReaderFails(s, "DATA without credit")
                  [] OTHER -> ReaderAdmits(x, m)
       /\ UNCHANGED <<pub, net, p2s, s2p, expired, acked>>

\* Owner::incoming for a session that is current: what becomes of message m.
Admit(b, m) ==
    LET answer(code) == Send(sub, Outcome(m, code))
    IN CASE m \in expired \/ sub.id # b -> answer(2)
         [] ~(m \in expired \/ sub.id # b) /\ sub.dedup[m] = "Processed" -> answer(0)
         [] ~(m \in expired \/ sub.id # b) /\ sub.dedup[m] = "Permanent" -> answer(2)
         [] ~(m \in expired \/ sub.id # b) /\ sub.dedup[m] = "Processing" -> sub
         [] OTHER -> IF sub.open /\ Len(sub.ring) < SubMessages
                     THEN [sub EXCEPT !.ring = Append(@, m), !.obj[m] = "queued",
                                      !.disp[m] = 0, !.dedup[m] = "Processing"]
                     ELSE [answer(1) EXCEPT !.dedup[m] = "Retryable"]

\* Command::Incoming: the payload is complete.  A payload of an earlier
\* session fails peer_valid, and remove_peer drops the current one.
Incoming(x) ==
    /\ ticket[x] # None
    /\ ticket' = [ticket EXCEPT ![x] = None]
    /\ IF x[1] = sub.sess
       THEN SubscriberStep(Admit(x[2], ticket[x]), p2s) /\ UNCHANGED faults
       ELSE /\ SubscriberStep(RemovePublisher(sub), p2s)
            /\ faults' = IF sub.sess # None THEN faults \cup {"stale payload"} ELSE faults
    /\ UNCHANGED <<pub, net, stopped, expired, acked>>

\* The reader of a closed session is aborted before its payload is complete.
AbortReader(x) == /\ ticket[x] # None /\ ~alive[x[1]]
                  /\ ticket' = [ticket EXCEPT ![x] = None]
                  /\ UNCHANGED <<pub, sub, alive, net, p2s, s2p, data, stopped, expired,
                                 acked, faults>>

(***************************************************************************)
(* Subscriber: Command::End and Owner::maintenance.                        *)
(***************************************************************************)
SubscriberEnd == /\ sub.sess # None /\ ~alive[sub.sess]
                 /\ SubscriberStep(RemovePublisher(sub), p2s)
                 /\ UNCHANGED <<pub, ticket, net, stopped, expired, acked, faults>>

\* The subscription whose handle is gone is removed; with it go the deliveries
\* still in its ring, and dropping a Delivery nacks it.
RemoveClosed(r) ==
    IF r.id = None \/ r.open THEN r
    ELSE Send([r EXCEPT !.id = None, !.confirmed = FALSE, !.grant = FALSE, !.demand = FALSE,
                        !.ring = <<>>,
                        !.obj = [m \in Msgs |-> IF @[m] = "queued" THEN "done" ELSE @[m]],
                        !.disp = [m \in Msgs |-> IF r.obj[m] = "queued" THEN 2 ELSE @[m]]],
              Frame("Unsubscribe", r.id))

\* The dispositions that applications stored are settled and answered; an
\* expired record is settled without an answer and then dropped.
Settled(r) == {m \in Msgs : r.dedup[m] = "Processing" /\ m \notin expired /\ r.disp[m] # 0}
\* Mutant: a nack is recorded as processed.
StateOfNackProcessed == <<"Processed", "Processed", "Permanent">>

\* Mutant: an ack is recorded as retryable.
StateOfAckRetryable == <<"Retryable", "Retryable", "Permanent">>

StateOf == <<"Processed", "Retryable", "Permanent">>

\* The order of the dedup map: by subscription, whose ids are random, and then
\* by message.
Orders(r) ==
    LET target(f, i) == pub.target[f[i]]
    IN {f \in [1..Cardinality(Settled(r)) -> Settled(r)] : \A i, j \in DOMAIN f :
            (i < j /\ target(f, i) = target(f, j)) =>
                f[i] < f[j] /\ \A k \in i..j : target(f, k) = target(f, i)}

Answers(r, order) == [i \in DOMAIN order |-> Outcome(order[i], r.disp[order[i]] - 1)]

Settle(r, order) ==
    [r EXCEPT !.dedup = [m \in Msgs |-> CASE m \in expired -> "None"
                                          [] m \in Settled(r) -> StateOf[r.disp[m]]
                                          [] OTHER -> @[m]],
              !.out = IF r.sess = None THEN @ ELSE @ \o Answers(r, order)]

SubscriberMaintenance ==
    LET r == RemoveClosed(IF sub.sess # None /\ ~alive[sub.sess] THEN RemovePublisher(sub) ELSE sub)
    IN /\ \E order \in Orders(r) : SubscriberStep(GrantCredits(Settle(r, order)), p2s)
       /\ UNCHANGED <<pub, ticket, net, stopped, expired, acked, faults>>

(***************************************************************************)
(* Sessions: a handshake completes, the connection fails, and each owner   *)
(* registers the session.  Both prefer the smaller dialer nonce.           *)
(***************************************************************************)
Connect(s) ==
    /\ nonce[s] = 0 /\ \A t \in 1..(s - 1) : nonce[t] # 0
    /\ \E n \in Sessions : (\A t \in Sessions : nonce[t] # n) /\ nonce' = [nonce EXCEPT ![s] = n]
    /\ alive' = [alive EXCEPT ![s] = TRUE]
    /\ pnew' = pnew \cup {s} /\ snew' = snew \cup {s}
    /\ UNCHANGED <<pub, sub, ticket, p2s, s2p, data, stopped, expired, acked, faults>>

Disconnect(s) == /\ alive[s]
                 /\ alive' = [alive EXCEPT ![s] = FALSE]
                 /\ UNCHANGED <<pub, sub, ticket, net, p2s, s2p, data, stopped, expired,
                                acked, faults>>

\* The tie-break of Owner::register: (existing.dialer, existing.nonce) <= ...
Prefers(old, s) == old # None /\ nonce[old] <= nonce[s]

\* Register answered false: the transport task closes its connection.
Refuse(s) == /\ alive' = [alive EXCEPT ![s] = FALSE]
             /\ UNCHANGED <<pub, sub, p2s, s2p, data>>

PublisherRegister(s) ==
    /\ s \in pnew
    /\ pnew' = pnew \ {s}
    /\ IF Prefers(pub.sess, s) THEN Refuse(s)
       ELSE /\ PublisherStep([RemoveSubscriber(pub) EXCEPT !.sess = s], s2p)
            /\ UNCHANGED <<sub, data>>
    /\ UNCHANGED <<ticket, snew, nonce, stopped, expired, acked, faults>>

SubscriberRegister(s) ==
    /\ s \in snew
    /\ snew' = snew \ {s}
    /\ IF Prefers(sub.sess, s) THEN Refuse(s)
       ELSE /\ LET r == [RemovePublisher(sub) EXCEPT !.sess = s]
               IN SubscriberStep(IF r.id = None THEN r ELSE Send(r, Frame("Subscribe", r.id)), p2s)
            /\ UNCHANGED pub
    /\ UNCHANGED <<ticket, pnew, nonce, stopped, expired, acked, faults>>

Expire(m) == /\ m \in Expiring \ expired
             /\ pub.outcome[m] # "None"
             /\ expired' = expired \cup {m}
             /\ UNCHANGED <<pub, sub, ticket, alive, net, p2s, s2p, data, stopped, acked, faults>>

PublisherNext == \/ \E m \in Msgs : Publish(m) \/ Cancel(m) \/ RetryDue(m)
                 \/ WriterTake \/ WriterDone \/ Sent
                 \/ HandleSubscribe \/ HandleUnsubscribe \/ HandleCredit \/ HandleOutcome
                 \/ PublisherEnd \/ PublisherMaintenance
                 \/ \E s \in Sessions : PublisherRegister(s)

SubscriberNext == \/ Subscribe \/ DropSubscription \/ Recv
                  \/ \E m \in Msgs, code \in 1..3 : Complete(m, code)
                  \/ HandleSuback \/ HandleRequestCredit
                  \/ \E b \in Subs : Begin(b)
                  \/ \E x \in Sessions \X Subs : Incoming(x) \/ AbortReader(x)
                  \/ SubscriberEnd \/ SubscriberMaintenance
                  \/ \E s \in Sessions : SubscriberRegister(s)

Next == \/ PublisherNext \/ SubscriberNext
        \/ \E s \in Sessions : Connect(s) \/ Disconnect(s)
        \/ \E m \in Msgs : Expire(m)

Spec == Init /\ [][Next]_vars

\* Tasks that can run do run: the runtime polls ready tasks, the owner's tick
\* recurs every 20 ms, timers fire and open streams deliver.  The application
\* keeps receiving and completing, and does not nack a message for ever.
\* Nothing makes anyone publish, subscribe, cancel, connect or disconnect.
Fairness ==
    /\ \A m \in Msgs : WF_vars(RetryDue(m))
    /\ \A m \in Expiring : WF_vars(Expire(m))
    /\ WF_vars(WriterTake \/ WriterDone) /\ WF_vars(Sent)
    /\ WF_vars(HandleSubscribe \/ HandleUnsubscribe \/ HandleCredit \/ HandleOutcome)
    /\ WF_vars(PublisherMaintenance) /\ WF_vars(SubscriberMaintenance)
    /\ WF_vars(HandleSuback \/ HandleRequestCredit)
    /\ \A b \in Subs : WF_vars(Begin(b) \/ \E s \in Sessions : Incoming(<<s, b>>))
    /\ WF_vars(Recv) /\ \A m \in Msgs : SF_vars(Complete(m, 1))

FairSpec == Spec /\ Fairness

-----------------------------------------------------------------------------
PendStates == {"no", "due", "writing", "wait"}
Outcomes == {"None", "Pending", "Sent", "Processed", "Rejected", "Failed", "PermanentNack", "Cancelled"}

Frames == [type : {"Subscribe", "Suback", "Unsubscribe", "Credit", "Request", "Return"},
           n : 0..MaxSubs, code : {0}]
          \cup [type : {"Outcome"}, n : Msgs, code : 0..2]

Bindings == [sub : 0..MaxSubs, credit : BOOLEAN, requested : BOOLEAN,
             queue : Seq(Msgs), writing : 0..MaxMsgs, dead : BOOLEAN]

Publishers == [sess : 0..MaxSessions, bind : Bindings,
               pend : [Msgs -> PendStates], target : [Msgs -> 0..MaxSubs],
               tried : SUBSET Msgs, terminal : SUBSET Msgs,
               outcome : [Msgs -> Outcomes],
               sentq : Seq(Msgs \X {"ok", "closed", "error"}), out : Seq(Frames)]

Subscribers == [sess : 0..MaxSessions, id : 0..MaxSubs, created : 0..MaxSubs,
                open : BOOLEAN, confirmed : BOOLEAN, grant : BOOLEAN, demand : BOOLEAN,
                ring : Seq(Msgs), obj : [Msgs -> {"none", "queued", "held", "done"}],
                disp : [Msgs -> 0..3],
                dedup : [Msgs -> {"None", "Processing", "Retryable", "Processed", "Permanent"}],
                out : Seq(Frames)]

\* The state of both owners and of the streams between them keeps its types;
\* the writer's queue and the delivery ring keep their capacities, terminal
\* receipts are of attempted deliveries, and a receipt is open exactly while
\* its delivery is pending.
TypeOK ==
    /\ pub \in Publishers /\ sub \in Subscribers
    /\ ticket \in [Sessions \X Subs -> 0..MaxMsgs]
    /\ alive \in [Sessions -> BOOLEAN]
    /\ pnew \subseteq Sessions /\ snew \subseteq Sessions
    /\ nonce \in [Sessions -> 0..MaxSessions]
    /\ p2s \in [Sessions -> Seq(Frames)] /\ s2p \in [Sessions -> Seq(Frames)]
    /\ data \in [Sessions \X Subs -> Seq(0..MaxMsgs)]
    /\ stopped \subseteq Sessions \X Subs
    /\ expired \subseteq Msgs /\ acked \subseteq Msgs
    /\ Len(pub.bind.queue) <= 1 /\ Len(sub.ring) <= SubMessages
    /\ pub.terminal \subseteq pub.tried
    /\ \A m \in Msgs : pub.pend[m] # "no" <=> pub.outcome[m] = "Pending"

\* A receipt reports Processed only for a message whose delivery the
\* application acknowledged, whatever was retried, lost or answered late.
ProcessedMeansAcked == \A m \in Msgs : pub.outcome[m] = "Processed" => m \in acked

\* A delivery that the application acknowledged is not handed to it again:
\* retries after a lost ACK or a reconnect end in the deduplication record.
AckedNotRedelivered == [][\A m \in acked : sub.obj[m] # "queued" => sub'.obj[m] # "queued"]_vars

Count(seq, f) == Cardinality({i \in DOMAIN seq : seq[i] = f})

\* The places in which the one credit of a binding can be.
Credits(s, b) ==
    LET here == pub.sess = s /\ pub.bind.sub = b
    IN Count(s2p[s], Frame("Credit", b)) + Count(p2s[s], Frame("Return", b))
       + (IF here /\ pub.bind.credit THEN 1 ELSE 0)
       + (IF here /\ pub.bind.writing # None THEN 1 ELSE 0)
       + (IF here THEN Len(pub.bind.queue) ELSE 0)
       + Len(data[<<s, b>>])

\* The capacity that the subscriber reserved for the publisher is neither lost
\* nor duplicated: while the session is up, a grant is matched by exactly one
\* credit, in a frame, at the publisher, or spent on DATA not yet begun.
CreditConserved ==
    (sub.sess # None /\ sub.id # None /\ alive[sub.sess]) =>
        Credits(sub.sess, sub.id) = (IF sub.grant THEN 1 ELSE 0)

\* Endpoints that both run this code never take each other's frames for a
\* protocol violation: DATA finds its grant, a grant its request, and an
\* outcome a pending delivery that was sent or a retained terminal receipt.
PeersAgree == faults \cap {"unsolicited credit", "DATA without credit", "ACK before DATA",
                           "unaddressed ACK"} = {}

\* A granted frame always finds room in the delivery ring: try_send in incoming
\* fails only for a dropped handle.
GrantHasRoom == \A s \in Sessions :
    (sub.id # None /\ ticket[<<s, sub.id>>] # None) => Len(sub.ring) < SubMessages

\* Best effort means no second transmission: a delivery that was handed to the
\* writer is never due again.
SentAtMostOnce == [][Mode = "BestEffort" =>
    \A m \in pub.tried : pub.pend[m] # "due" => pub'.pend[m] # "due"]_vars

Up == pub.sess # None /\ sub.sess = pub.sess /\ alive[pub.sess]

\* While a session stays up, every admitted delivery is resolved: no credit
\* request, grant, wakeup, retry or answer is lost between the two owners.
ResolvedWhileUp == <>[]Up => \A m \in Msgs : (pub.outcome[m] = "Pending") ~> (pub.outcome[m] # "Pending")

\* With a deadline, every admitted delivery is resolved whatever happens to
\* the sessions, the subscription and the subscriber.
ResolvedByDeadline == \A m \in Expiring :
    (pub.outcome[m] = "Pending") ~> (pub.outcome[m] # "Pending")

\* ARCHITECTURE.md: closing a subscription retires its topic stream without
\* closing unrelated streams, so DATA that was under way when the subscription
\* closed is never answered by ending the session.
CloseKeepsSession == "unauthorized DATA" \notin faults

\* ARCHITECTURE.md: when the ACK is lost, the retry is answered by an ACK while
\* the deduplication record proves completion; a message the application
\* acknowledged is not reported as permanently refused.
NackMeansUnprocessed == \A m \in Msgs : pub.outcome[m] = "PermanentNack" => m \notin acked
=============================================================================
