--------------------------- MODULE DeliveryProofs ---------------------------
(***************************************************************************)
(* Proofs about Delivery for any number of messages, subscriptions and     *)
(* sessions and any limits: the type invariant, that Processed is reported *)
(* only for acknowledged messages, and that these are not delivered again. *)
(***************************************************************************)
EXTENDS Delivery, FiniteSetTheorems, SequenceTheorems, WellFoundedInduction, TLAPS

\* Frames that report Processed only for messages of A.
GoodFrames(A) == {f \in Frames : (f.type = "Outcome" /\ f.code = 0) => f.n \in A}

\* A publisher state whose Processed receipts are of messages of A.
PubOK(p, A) ==
    /\ p \in Publishers
    /\ Len(p.bind.queue) <= 1
    /\ p.terminal \subseteq p.tried
    /\ \A m \in Msgs : p.pend[m] # "no" <=> p.outcome[m] = "Pending"
    /\ \A m \in Msgs : p.outcome[m] = "Processed" => m \in A

\* A subscriber state in which A are the acknowledged and X the expired messages.
\* An acknowledged message is recorded as such until it expires; a message that
\* the application has yet to complete is recorded as being processed.
SubOK(r, A, X) ==
    /\ r \in Subscribers
    /\ Len(r.ring) <= SubMessages
    /\ r.out \in Seq(GoodFrames(A))
    /\ \A m \in Msgs : r.dedup[m] = "Processed" => m \in A
    /\ \A m \in Msgs : m \in A <=> r.disp[m] = 1
    /\ \A m \in Msgs : m \in A =>
          r.obj[m] = "done" /\ (m \in X \/ r.dedup[m] \in {"Processing", "Processed"})
    /\ \A m \in Msgs : r.obj[m] \in {"queued", "held"} =>
          r.disp[m] = 0 /\ (m \in X \/ r.dedup[m] = "Processing")
    /\ \A i \in 1..Len(r.ring) : r.obj[r.ring[i]] = "queued"
    /\ \A i, j \in 1..Len(r.ring) : r.ring[i] = r.ring[j] => i = j

\* The streams and sessions between the owners.
NetOK ==
    /\ ticket \in [Sessions \X Subs -> 0..MaxMsgs]
    /\ alive \in [Sessions -> BOOLEAN]
    /\ pnew \subseteq Sessions /\ snew \subseteq Sessions
    /\ nonce \in [Sessions -> 0..MaxSessions]
    /\ p2s \in [Sessions -> Seq(Frames)]
    /\ s2p \in [Sessions -> Seq(GoodFrames(acked))]
    /\ data \in [Sessions \X Subs -> Seq(0..MaxMsgs)]
    /\ stopped \subseteq Sessions \X Subs
    /\ expired \subseteq Msgs /\ acked \subseteq Msgs

IInv == NetOK /\ PubOK(pub, acked) /\ SubOK(sub, acked, expired)

----------------------------------------------------------------------------
(* The publisher's operations. *)

\* A binding that was just created, or none.
LEMMA NewBinding == /\ NoBinding \in Bindings /\ NoBinding.queue = <<>> /\ NoBinding.sub = 0
                    /\ \A b \in 0..MaxSubs : /\ [NoBinding EXCEPT !.sub = b] \in Bindings
                                             /\ [NoBinding EXCEPT !.sub = b].queue = <<>>
<1>1. <<>> \in Seq(Msgs) OBVIOUS
<1>2. NoBinding \in Bindings /\ NoBinding.queue = <<>> /\ NoBinding.sub = 0
  BY <1>1, BoundsAssumption DEF NoBinding, Bindings, None
<1> QED BY <1>2 DEF Bindings

\* Owner::finish reports a result once and keeps the bookkeeping consistent.
LEMMA FinishOK ==
  ASSUME NEW A, NEW p, PubOK(p, A), NEW ms, 
         NEW result \in Outcomes \ {"None", "Pending"},
         result = "Processed" => \A m \in ms : m \in A
  PROVE  /\ PubOK(Finish(p, ms, result), A)
         /\ Finish(p, ms, result).bind = p.bind /\ Finish(p, ms, result).sess = p.sess
<1> DEFINE q == Finish(p, ms, result)
<1>1. p \in Publishers BY DEF PubOK
<1>2. /\ q.sess = p.sess /\ q.bind = p.bind /\ q.target = p.target /\ q.tried = p.tried
      /\ q.sentq = p.sentq /\ q.out = p.out
      /\ q.pend = [m \in Msgs |-> IF m \in ms THEN "no" ELSE p.pend[m]]
      /\ q.outcome = [m \in Msgs |-> IF m \in ms \cap Pending(p) THEN result ELSE p.outcome[m]]
      /\ q.terminal = p.terminal \cup (ms \cap Pending(p) \cap p.tried)
  BY <1>1 DEF Finish, Publishers
<1>3. q \in Publishers
  <2>1. q.pend \in [Msgs -> PendStates] BY <1>1, <1>2 DEF Publishers, PendStates
  <2>2. q.outcome \in [Msgs -> Outcomes] BY <1>1, <1>2 DEF Publishers
  <2>3. q.terminal \subseteq Msgs BY <1>1, <1>2 DEF Publishers
  <2> QED BY <1>1, <1>2, <2>1, <2>2, <2>3 DEF Finish, Publishers
<1>4. ASSUME NEW m \in Msgs
      PROVE  /\ q.pend[m] # "no" <=> q.outcome[m] = "Pending"
             /\ q.outcome[m] = "Processed" => m \in A
  BY <1>1, <1>2 DEF PubOK, Pending, Publishers
<1>5. Len(q.bind.queue) <= 1 /\ q.terminal \subseteq q.tried BY <1>2 DEF PubOK
<1> HIDE DEF q
<1>6. PubOK(q, A) BY <1>3, <1>4, <1>5 DEF PubOK
<1> QED BY <1>2, <1>6 DEF q

\* Owner::remove_peer, at the publisher.
LEMMA RemoveSubscriberOK ==
  ASSUME NEW A, NEW p, PubOK(p, A)
  PROVE  PubOK(RemoveSubscriber(p), A) /\ RemoveSubscriber(p).sess = None
<1> DEFINE q == [p EXCEPT !.sess = None, !.bind = NoBinding, !.sentq = <<>>, !.out = <<>>,
                          !.pend = [m \in Msgs |-> IF @[m] = "no" THEN "no" ELSE "due"]]
<1>1. p \in Publishers BY DEF PubOK
<1>2. /\ q.sess = None /\ q.bind = NoBinding /\ q.target = p.target /\ q.tried = p.tried
      /\ q.terminal = p.terminal /\ q.outcome = p.outcome /\ q.sentq = <<>> /\ q.out = <<>>
      /\ q.pend = [m \in Msgs |-> IF p.pend[m] = "no" THEN "no" ELSE "due"]
  BY <1>1 DEF Publishers
<1>3. NoBinding \in Bindings /\ NoBinding.queue = <<>> BY NewBinding
<1>4. q \in Publishers
  <2>1. q.pend \in [Msgs -> PendStates] BY <1>2 DEF PendStates
  <2>2. None \in 0..MaxSessions BY BoundsAssumption DEF None
  <2>3. q.sentq \in Seq(Msgs \X {"ok", "closed", "error"}) /\ q.out \in Seq(Frames) BY <1>2
  <2> QED BY <1>1, <1>2, <1>3, <2>1, <2>2, <2>3 DEF Publishers
<1>5. PubOK(q, A)
  <2>1. Len(q.bind.queue) <= 1 BY <1>2, <1>3
  <2>2. \A m \in Msgs : q.pend[m] # "no" <=> p.pend[m] # "no" BY <1>2
  <2> HIDE DEF q
  <2> QED BY <1>2, <1>4, <2>1, <2>2 DEF PubOK
<1>6. RemoveSubscriber(p) = IF Mode = "BestEffort" THEN Finish(q, Pending(q), "Failed") ELSE q
  BY DEF RemoveSubscriber
<1> HIDE DEF q
<1>7. /\ PubOK(Finish(q, Pending(q), "Failed"), A)
      /\ Finish(q, Pending(q), "Failed").sess = None
  <2>1. "Failed" \in Outcomes \ {"None", "Pending"} /\ "Failed" # "Processed" BY DEF Outcomes
  <2> QED BY <1>5, <1>2, <2>1, FinishOK
<1> QED BY <1>2, <1>5, <1>6, <1>7

\* A change of the binding.
LEMMA WithBinding ==
  ASSUME NEW A, NEW p, PubOK(p, A), NEW b \in Bindings, Len(b.queue) <= 1
  PROVE  /\ PubOK([p EXCEPT !.bind = b], A)
         /\ [p EXCEPT !.bind = b].bind = b /\ [p EXCEPT !.bind = b].sess = p.sess
<1>1. p \in Publishers BY DEF PubOK
<1>2. [p EXCEPT !.bind = b] \in Publishers /\ [p EXCEPT !.bind = b].bind = b BY <1>1 DEF Publishers
<1> QED BY <1>1, <1>2 DEF PubOK, Publishers

\* Owner::send, at the publisher.
LEMMA SendOK ==
  ASSUME NEW A, NEW p, PubOK(p, A), NEW f \in Frames
  PROVE  PubOK(Send(p, f), A) /\ Send(p, f).bind = p.bind /\ Send(p, f).sess = p.sess
<1>1. p \in Publishers BY DEF PubOK
<1>2. Append(p.out, f) \in Seq(Frames) BY <1>1 DEF Publishers
<1>3. [p EXCEPT !.out = Append(p.out, f)] \in Publishers BY <1>1, <1>2 DEF Publishers
<1> QED BY <1>1, <1>3 DEF PubOK, Publishers, Send

\* The frames about a subscription.
LEMMA FrameOK ==
  ASSUME NEW b \in 0..MaxSubs,
         NEW type \in {"Subscribe", "Suback", "Unsubscribe", "Credit", "Request", "Return"}
  PROVE  Frame(type, b) \in Frames /\ \A A : Frame(type, b) \in GoodFrames(A)
BY DEF Frame, Frames, GoodFrames

\* A credit request is recorded in the binding and sent.
LEMMA RequestCreditOK ==
  ASSUME NEW A, NEW p, PubOK(p, A)
  PROVE  PubOK(RequestCredit(p), A) /\ RequestCredit(p).sess = p.sess
<1> DEFINE b == [p.bind EXCEPT !.requested = TRUE]
           q == [p EXCEPT !.bind = b]
<1>1. p \in Publishers /\ p.bind \in Bindings BY DEF PubOK, Publishers
<1>2. b \in Bindings /\ b.queue = p.bind.queue BY <1>1 DEF Bindings
<1>3. Len(b.queue) <= 1 BY <1>2 DEF PubOK
<1>4. q = [p EXCEPT !.bind.requested = TRUE] BY <1>1 DEF Publishers
<1>5. PubOK(q, A) /\ q.sess = p.sess BY <1>2, <1>3, WithBinding
<1>6. Frame("Request", p.bind.sub) \in Frames BY <1>1, FrameOK DEF Bindings
<1> HIDE DEF q
<1>7. PubOK(Send(q, Frame("Request", p.bind.sub)), A)
      /\ Send(q, Frame("Request", p.bind.sub)).sess = p.sess BY <1>5, <1>6, SendOK
<1> QED BY <1>4, <1>7 DEF RequestCredit

\* A set of messages has an oldest one.
LEMMA OldestIn ==
  ASSUME NEW ms, ms \subseteq Msgs, ms # {}
  PROVE  Oldest(ms) \in ms
<1> DEFINE R == OpToRel(<, Nat)
<1>1. ms \subseteq Nat BY BoundsAssumption DEF Msgs
<1>2. IsWellFoundedOn(R, Nat) BY NatLessThanWellFounded
<1>3. R = {ss \in Nat \X Nat : ss[1] < ss[2]} BY Zenon DEF OpToRel
<1> HIDE DEF R
<1>4. PICK x \in ms : \A y \in ms : ~(<<y, x>> \in R) BY <1>1, <1>2, WFMin
<1>5. ASSUME NEW y \in ms PROVE x <= y
  <2>1. ~(y < x)
    <3>1. <<y, x>> \in Nat \X Nat /\ <<y, x>>[1] = y /\ <<y, x>>[2] = x BY <1>1
    <3>2. y < x => <<y, x>> \in {ss \in Nat \X Nat : ss[1] < ss[2]} BY <3>1
    <3> QED BY <1>3, <1>4, <3>2, Zenon
  <2>2. x \in Nat /\ y \in Nat BY <1>1
  <2> QED BY <2>1, <2>2
<1> QED BY <1>5 DEF Oldest

\* Owner::schedule hands at most one delivery to an idle writer.
LEMMA ScheduleOK ==
  ASSUME NEW A, NEW p, PubOK(p, A)
  PROVE  PubOK(Schedule(p), A) /\ Schedule(p).sess = p.sess
<1> DEFINE ms == Eligible(p)
           m == Oldest(ms)
           q == [p EXCEPT !.bind.credit = FALSE, !.bind.queue = Append(@, m),
                          !.pend[m] = "writing", !.tried = @ \cup {m}]
<1>1. p \in Publishers /\ p.bind \in Bindings BY DEF PubOK, Publishers
<1>2. CASE ms = {} BY <1>2 DEF Schedule
<1>3. CASE ms # {} /\ ~p.bind.credit BY <1>3, RequestCreditOK DEF Schedule
<1>4. CASE ms # {} /\ p.bind.credit /\ (p.bind.queue # <<>> \/ p.bind.dead)
  BY <1>4 DEF Schedule
<1>5. CASE ms # {} /\ p.bind.credit /\ ~(p.bind.queue # <<>> \/ p.bind.dead)
  <2>1. m \in Msgs /\ p.pend[m] = "due"
    <3>1. ms \subseteq Msgs /\ \A k \in ms : p.pend[k] = "due" BY DEF Eligible
    <3> QED BY <1>5, <3>1, OldestIn
  <2> HIDE DEF m
  <2>2. /\ q.bind = [p.bind EXCEPT !.credit = FALSE, !.queue = Append(@, m)]
        /\ q.pend = [p.pend EXCEPT ![m] = "writing"] /\ q.tried = p.tried \cup {m}
        /\ q.sess = p.sess /\ q.target = p.target /\ q.terminal = p.terminal
        /\ q.outcome = p.outcome /\ q.sentq = p.sentq /\ q.out = p.out
    BY <1>1 DEF Publishers, Bindings
  <2>3. Append(p.bind.queue, m) \in Seq(Msgs) /\ Len(Append(p.bind.queue, m)) = 1
    BY <1>1, <1>5, <2>1 DEF Bindings
  <2>4. q.bind \in Bindings /\ q.bind.queue = Append(p.bind.queue, m)
    <3> DEFINE b == [p.bind EXCEPT !.credit = FALSE, !.queue = Append(@, m)]
               s == Append(p.bind.queue, m)
    <3> HIDE DEF s
    <3>1. s \in Seq(Msgs) BY <2>3 DEF s
    <3>2. \A z \in Seq(Msgs) : /\ [p.bind EXCEPT !.credit = FALSE, !.queue = z] \in Bindings
                              /\ [p.bind EXCEPT !.credit = FALSE, !.queue = z].queue = z
      BY <1>1 DEF Bindings
    <3>3. b = [p.bind EXCEPT !.credit = FALSE, !.queue = s] BY <1>1 DEF Bindings, s
    <3> HIDE DEF b
    <3>4. q.bind = b BY <2>2 DEF b
    <3>5. b \in Bindings /\ b.queue = s BY <3>1, <3>2, <3>3
    <3> HIDE DEF q
    <3> QED BY <3>4, <3>5 DEF s
  <2>5. q.pend \in [Msgs -> PendStates] BY <1>1, <2>1, <2>2 DEF Publishers, PendStates
  <2>6. q \in Publishers BY <1>1, <2>1, <2>2, <2>4, <2>5 DEF Publishers
  <2>7. \A k \in Msgs : q.pend[k] # "no" <=> p.pend[k] # "no"
    BY <1>1, <2>1, <2>2 DEF Publishers
  <2>8. PubOK(q, A)
    <3> HIDE DEF q
    <3> QED BY <2>2, <2>3, <2>4, <2>6, <2>7 DEF PubOK
  <2>9. Schedule(p) = IF ms = {m} THEN q ELSE RequestCredit(q) BY <1>5 DEF Schedule, m
  <2> HIDE DEF q, ms
  <2> QED BY <2>2, <2>8, <2>9, RequestCreditOK
<1> QED BY <1>2, <1>3, <1>4, <1>5

\* The end of a publisher step, with schedule(), keeps the invariant when what
\* precedes it does.
LEMMA PublisherStepOK ==
  ASSUME IInv, NEW p, PubOK(p, acked), NEW inbox \in [Sessions -> Seq(GoodFrames(acked))],
         PublisherStep(p, inbox),
         sub' = sub, ticket' = ticket, nonce' = nonce, stopped' = stopped,
         expired' = expired, acked' = acked,
         pnew' \subseteq Sessions, snew' \subseteq Sessions,
         data' \in [Sessions \X Subs -> Seq(0..MaxMsgs)]
  PROVE  IInv'
<1> DEFINE q == Schedule(p)
<1>1. PubOK(q, acked) BY ScheduleOK
<1> HIDE DEF q
<1>2. q \in Publishers BY <1>1 DEF PubOK
<1>3. PubOK(pub', acked)
  <2>1. pub' = [q EXCEPT !.out = <<>>] BY DEF PublisherStep, q
  <2>2. <<>> \in Seq(Frames) OBVIOUS
  <2>3. pub' \in Publishers BY <1>2, <2>1, <2>2 DEF Publishers
  <2> QED BY <1>1, <1>2, <2>1, <2>3 DEF PubOK, Publishers
<1>4. pub \in Publishers /\ pub.sess \in 0..MaxSessions BY DEF IInv, PubOK, Publishers
<1>5. pub.sess # None => pub.sess \in Sessions BY <1>4, BoundsAssumption DEF Sessions, None
<1>6. q.sess # None => q.sess \in Sessions
  BY <1>2, BoundsAssumption DEF Publishers, Sessions, None
<1>7. p2s' \in [Sessions -> Seq(Frames)]
  <2>1. p2s \in [Sessions -> Seq(Frames)] BY DEF IInv, NetOK
  <2>2. q.out \in Seq(Frames) BY <1>2 DEF Publishers
  <2>3. q.sess # None => p2s[q.sess] \o q.out \in Seq(Frames) BY <1>6, <2>1, <2>2
  <2>4. p2s' = IF q.sess # None /\ alive[q.sess]
               THEN [p2s EXCEPT ![q.sess] = p2s[q.sess] \o q.out] ELSE p2s
    BY DEF PublisherStep, q
  <2> QED BY <1>6, <2>1, <2>3, <2>4
<1>8. s2p' \in [Sessions -> Seq(GoodFrames(acked))]
  <2>1. s2p' = inbox \/ (pub.sess # None /\ s2p' = [inbox EXCEPT ![pub.sess] = <<>>])
    BY DEF PublisherStep
  <2>2. <<>> \in Seq(GoodFrames(acked)) OBVIOUS
  <2> QED BY <1>5, <2>1, <2>2
<1>9. alive' \in [Sessions -> BOOLEAN]
  <2>1. alive' = alive \/ (pub.sess # None /\ alive' = [alive EXCEPT ![pub.sess] = FALSE])
    BY DEF PublisherStep
  <2> QED BY <1>5, <2>1 DEF IInv, NetOK
<1> QED BY <1>3, <1>7, <1>8, <1>9 DEF IInv, NetOK

\* A step of the writer task or of a timer, which changes the publisher's state
\* without a command of its owner.
LEMMA WriterStepOK ==
  ASSUME IInv, PubOK(pub', acked),
         sub' = sub, ticket' = ticket, nonce' = nonce, stopped' = stopped,
         expired' = expired, acked' = acked, pnew' = pnew, snew' = snew,
         p2s' = p2s, s2p' = s2p,
         alive' \in [Sessions -> BOOLEAN],
         data' \in [Sessions \X Subs -> Seq(0..MaxMsgs)]
  PROVE  IInv'
BY DEF IInv, NetOK

\* The frame that Owner::control handles at the publisher.
LEMMA FromSubscriberOK ==
  ASSUME IInv, NEW type, FromSubscriber(type)
  PROVE  /\ pub.sess \in Sessions /\ Head(s2p[pub.sess]) \in GoodFrames(acked)
         /\ Head(s2p[pub.sess]).type = type
         /\ PInbox \in [Sessions -> Seq(GoodFrames(acked))]
<1>1. pub.sess \in Sessions
  BY BoundsAssumption DEF IInv, PubOK, Publishers, FromSubscriber, Sessions, None
<1>2. s2p \in [Sessions -> Seq(GoodFrames(acked))] BY DEF IInv, NetOK
<1>3. s2p[pub.sess] \in Seq(GoodFrames(acked)) /\ s2p[pub.sess] # <<>>
  BY <1>1, <1>2 DEF FromSubscriber
<1>4. Head(s2p[pub.sess]) \in GoodFrames(acked) /\ Tail(s2p[pub.sess]) \in Seq(GoodFrames(acked))
  BY <1>3
<1>5. PInbox = [s2p EXCEPT ![pub.sess] = Tail(s2p[pub.sess])] BY DEF PInbox
<1> QED BY <1>1, <1>2, <1>4, <1>5 DEF FromSubscriber

\* A frame about a subscription names one, an outcome names a message.
LEMMA FrameNames ==
  ASSUME NEW A, NEW f \in GoodFrames(A)
  PROVE  /\ f.type # "Outcome" => f.n \in 0..MaxSubs
         /\ f.type = "Outcome" => f.n \in Msgs /\ f.code \in 0..2 /\ (f.code = 0 => f.n \in A)
BY DEF GoodFrames, Frames

\* A DATA stream that is written to, or one that does not exist.
LEMMA WithData ==
  ASSUME IInv, NEW x, NEW m \in 0..MaxMsgs
  PROVE  [data EXCEPT ![x] = Append(@, m)] \in [Sessions \X Subs -> Seq(0..MaxMsgs)]
<1>1. data \in [Sessions \X Subs -> Seq(0..MaxMsgs)] BY DEF IInv, NetOK
<1>2. x \in Sessions \X Subs => Append(data[x], m) \in Seq(0..MaxMsgs) BY <1>1
<1> QED BY <1>1, <1>2

\* A binding that is dropped may leave a frame cut short.
LEMMA DropWriterOK ==
  ASSUME IInv, NEW kept, DropWriter(kept)
  PROVE  data' \in [Sessions \X Subs -> Seq(0..MaxMsgs)]
<1>1. None \in 0..MaxMsgs BY BoundsAssumption DEF None
<1>2. data \in [Sessions \X Subs -> Seq(0..MaxMsgs)] BY DEF IInv, NetOK
<1>3. \A x : [data EXCEPT ![x] = Append(@, None)] \in [Sessions \X Subs -> Seq(0..MaxMsgs)]
  BY <1>1, WithData
<1>4. data' = data \/ data' = [data EXCEPT ![<<pub.sess, pub.bind.sub>>] = Append(@, None)]
  BY DEF DropWriter
<1> QED BY <1>2, <1>3, <1>4

\* Owner::publish.
LEMMA PublishOK == ASSUME IInv, NEW m \in Msgs, Publish(m) PROVE IInv'
<1> DEFINE a == [pub EXCEPT !.pend[m] = "due", !.target[m] = pub.bind.sub, !.outcome[m] = "Pending"]
           b == [pub EXCEPT !.outcome[m] = "Rejected"]
<1>1. PubOK(pub, acked) /\ pub \in Publishers BY DEF IInv, PubOK
<1>2. pub.pend[m] = "no" BY <1>1 DEF PubOK, Publish
<1>3. PubOK(a, acked)
  <2>1. /\ a.pend = [pub.pend EXCEPT ![m] = "due"] /\ a.outcome = [pub.outcome EXCEPT ![m] = "Pending"]
        /\ a.target = [pub.target EXCEPT ![m] = pub.bind.sub]
        /\ a.bind = pub.bind /\ a.terminal = pub.terminal /\ a.tried = pub.tried
        /\ a.sess = pub.sess /\ a.sentq = pub.sentq /\ a.out = pub.out
    BY <1>1 DEF Publishers
  <2>2. a.pend \in [Msgs -> PendStates] /\ a.outcome \in [Msgs -> Outcomes] /\ a.target \in [Msgs -> 0..MaxSubs]
    BY <1>1, <2>1 DEF Publishers, PendStates, Outcomes, Bindings
  <2>3. a \in Publishers BY <1>1, <2>1, <2>2 DEF Publishers
  <2>4. \A k \in Msgs : /\ a.pend[k] = IF k = m THEN "due" ELSE pub.pend[k]
                        /\ a.outcome[k] = IF k = m THEN "Pending" ELSE pub.outcome[k]
    BY <1>1, <2>1 DEF Publishers
  <2> HIDE DEF a
  <2> QED BY <1>1, <2>1, <2>3, <2>4 DEF PubOK
<1>4. PubOK(b, acked)
  <2>1. /\ b.outcome = [pub.outcome EXCEPT ![m] = "Rejected"] /\ b.pend = pub.pend
        /\ b.bind = pub.bind /\ b.terminal = pub.terminal /\ b.tried = pub.tried
    BY <1>1 DEF Publishers
  <2>2. b \in Publishers BY <1>1 DEF Publishers, Outcomes
  <2>3. \A k \in Msgs : b.outcome[k] = IF k = m THEN "Rejected" ELSE pub.outcome[k]
    BY <1>1, <2>1 DEF Publishers
  <2> HIDE DEF b
  <2> QED BY <1>1, <1>2, <2>1, <2>2, <2>3 DEF PubOK
<1>5. s2p \in [Sessions -> Seq(GoodFrames(acked))] /\ data \in [Sessions \X Subs -> Seq(0..MaxMsgs)]
      /\ pnew \subseteq Sessions /\ snew \subseteq Sessions
  BY DEF IInv, NetOK
<1>6. PublisherStep(a, s2p) \/ PublisherStep(b, s2p) BY DEF Publish
<1>7. /\ sub' = sub /\ ticket' = ticket /\ nonce' = nonce /\ stopped' = stopped /\ expired' = expired
      /\ acked' = acked /\ pnew' = pnew /\ snew' = snew /\ data' = data
  BY DEF Publish, net
<1> HIDE DEF a, b
<1> QED BY <1>3, <1>4, <1>5, <1>6, <1>7, PublisherStepOK

\* A publisher step that handles no frame and writes no DATA.
LEMMA OwnStepOK ==
  ASSUME IInv, NEW p, PubOK(p, acked), PublisherStep(p, s2p),
         UNCHANGED <<sub, ticket, net, data, stopped, expired, acked>>
  PROVE  IInv'
<1>1. s2p \in [Sessions -> Seq(GoodFrames(acked))] /\ data \in [Sessions \X Subs -> Seq(0..MaxMsgs)]
      /\ pnew \subseteq Sessions /\ snew \subseteq Sessions
  BY DEF IInv, NetOK
<1> QED BY <1>1, PublisherStepOK DEF net

\* Command::Cancel.
LEMMA CancelOK == ASSUME IInv, NEW m \in Msgs, Cancel(m) PROVE IInv'
<1>1. PubOK(Finish(pub, {m}, "Cancelled"), acked)
  <2>1. "Cancelled" \in Outcomes \ {"None", "Pending"} /\ "Cancelled" # "Processed" BY DEF Outcomes
  <2> QED BY <2>1, FinishOK DEF IInv
<1> QED BY <1>1, OwnStepOK DEF Cancel

\* pending.next is reached.
LEMMA RetryDueOK == ASSUME IInv, NEW m \in Msgs, RetryDue(m) PROVE IInv'
<1>1. PubOK(pub, acked) /\ pub \in Publishers BY DEF IInv, PubOK
<1>2. pub' = [pub EXCEPT !.pend[m] = "due"] /\ pub.pend[m] = "wait" BY DEF RetryDue
<1>3. pub' \in Publishers BY <1>1, <1>2 DEF Publishers, PendStates
<1>4. \A k \in Msgs : pub'.pend[k] # "no" <=> pub.pend[k] # "no" BY <1>1, <1>2 DEF Publishers
<1>5. PubOK(pub', acked) BY <1>1, <1>2, <1>3, <1>4 DEF PubOK, Publishers
<1> QED BY <1>5, WriterStepOK DEF RetryDue, net, IInv, NetOK

\* write_data takes an item.
LEMMA WriterTakeOK == ASSUME IInv, WriterTake PROVE IInv'
<1> DEFINE m == Head(pub.bind.queue)
           s == Tail(pub.bind.queue)
           b == [pub.bind EXCEPT !.writing = m, !.queue = s]
<1>1. PubOK(pub, acked) /\ pub \in Publishers /\ pub.bind \in Bindings BY DEF IInv, PubOK, Publishers
<1>2. m \in 0..MaxMsgs /\ s \in Seq(Msgs) /\ Len(s) <= 1
  <2>1. pub.bind.queue \in Seq(Msgs) /\ pub.bind.queue # <<>> /\ Len(pub.bind.queue) <= 1
    BY <1>1 DEF Bindings, PubOK, WriterTake
  <2>2. m \in Msgs /\ s \in Seq(Msgs) /\ Len(s) = Len(pub.bind.queue) - 1 BY <2>1
  <2>3. Len(pub.bind.queue) \in Nat BY <2>1
  <2> QED BY <2>1, <2>2, <2>3 DEF Msgs
<1>3. pub' = [pub EXCEPT !.bind = b] BY <1>1 DEF WriterTake, Publishers, Bindings
<1> HIDE DEF m, s
<1>4. b \in Bindings /\ b.queue = s BY <1>1, <1>2 DEF Bindings
<1> HIDE DEF b
<1>5. PubOK(pub', acked) BY <1>1, <1>2, <1>3, <1>4, WithBinding
<1>6. alive \in [Sessions -> BOOLEAN] /\ data \in [Sessions \X Subs -> Seq(0..MaxMsgs)]
  BY DEF IInv, NetOK
<1> QED BY <1>5, <1>6, WriterStepOK DEF WriterTake, net

\* The report of the writer task.
LEMMA ReportOK ==
  ASSUME NEW A, PubOK(pub, A), pub.bind.writing # None,
         NEW result \in {"ok", "closed", "error"}, NEW dead \in BOOLEAN
  PROVE  PubOK([pub EXCEPT !.bind.writing = None, !.bind.dead = dead,
                           !.sentq = Append(@, <<pub.bind.writing, result>>)], A)
<1> DEFINE b == [pub.bind EXCEPT !.writing = None, !.dead = dead]
           s == Append(pub.sentq, <<pub.bind.writing, result>>)
           p == [pub EXCEPT !.bind = b]
           q == [p EXCEPT !.sentq = s]
<1>1. pub \in Publishers /\ pub.bind \in Bindings BY DEF PubOK, Publishers
<1>2. s \in Seq(Msgs \X {"ok", "closed", "error"})
  <2>1. pub.bind.writing \in Msgs BY <1>1, BoundsAssumption DEF Bindings, Msgs, None
  <2> QED BY <1>1, <2>1 DEF Publishers
<1>3. b \in Bindings /\ b.queue = pub.bind.queue
  <2>1. None \in 0..MaxMsgs BY BoundsAssumption DEF None
  <2>2. CASE dead = TRUE BY <1>1, <2>1, <2>2 DEF Bindings
  <2>3. CASE dead = FALSE BY <1>1, <2>1, <2>3 DEF Bindings
  <2> QED BY <2>2, <2>3
<1>4. PubOK(p, A) /\ p \in Publishers /\ p.bind = b
  <2>1. Len(b.queue) <= 1 BY <1>3 DEF PubOK
  <2> HIDE DEF b
  <2>2. PubOK(p, A) /\ p.bind = b BY <1>3, <2>1, WithBinding
  <2> QED BY <2>2 DEF PubOK
<1>5. [pub EXCEPT !.bind.writing = None, !.bind.dead = dead,
                  !.sentq = Append(@, <<pub.bind.writing, result>>)] = q
  BY <1>1 DEF Publishers, Bindings
<1> HIDE DEF s, p
<1>6. q \in Publishers BY <1>2, <1>4 DEF Publishers
<1>7. PubOK(q, A) BY <1>4, <1>6 DEF PubOK, Publishers
<1> QED BY <1>5, <1>7

\* write_frame returned.
LEMMA WriterDoneOK == ASSUME IInv, WriterDone PROVE IInv'
<1> DEFINE m == pub.bind.writing
           x == <<pub.sess, pub.bind.sub>>
           After(result, dead) == [pub EXCEPT !.bind.writing = None, !.bind.dead = dead,
                                              !.sentq = Append(@, <<m, result>>)]
<1>1. PubOK(pub, acked) /\ m # None /\ m \in 0..MaxMsgs
  BY DEF IInv, PubOK, Publishers, Bindings, WriterDone
<1>2. \A result \in {"ok", "closed", "error"}, dead \in BOOLEAN : PubOK(After(result, dead), acked)
  BY <1>1, ReportOK
<1>3. \/ pub' = After("ok", FALSE)
      \/ pub' = After("closed", TRUE)
      \/ pub' = After("error", TRUE)
  BY DEF WriterDone
<1>4. PubOK(pub', acked)
  <2> HIDE DEF After
  <2> QED BY <1>2, <1>3
<1>5. alive' \in [Sessions -> BOOLEAN]
  <2>1. alive' = alive \/ alive' = [alive EXCEPT ![pub.sess] = FALSE] BY DEF WriterDone
  <2> QED BY <2>1 DEF IInv, NetOK
<1>6. data' \in [Sessions \X Subs -> Seq(0..MaxMsgs)]
  <2>1. data' = data \/ data' = [data EXCEPT ![x] = Append(@, m)] BY DEF WriterDone
  <2>2. [data EXCEPT ![x] = Append(@, m)] \in [Sessions \X Subs -> Seq(0..MaxMsgs)]
    BY <1>1, WithData
  <2>3. data \in [Sessions \X Subs -> Seq(0..MaxMsgs)] BY DEF IInv, NetOK
  <2> QED BY <2>1, <2>2, <2>3
<1> QED BY <1>4, <1>5, <1>6, WriterStepOK DEF WriterDone, net

\* Command::Sent.
LEMMA SentOK == ASSUME IInv, Sent PROVE IInv'
<1> DEFINE m == pub.sentq[1][1]
           result == pub.sentq[1][2]
           p == [pub EXCEPT !.sentq = Tail(@)]
           waiting == [p EXCEPT !.pend[m] = "wait"]
<1>1. PubOK(pub, acked) /\ pub \in Publishers BY DEF IInv, PubOK
<1>2. pub.sentq \in Seq(Msgs \X {"ok", "closed", "error"}) /\ pub.sentq # <<>>
  BY <1>1 DEF Publishers, Sent
<1>3. m \in Msgs /\ Tail(pub.sentq) \in Seq(Msgs \X {"ok", "closed", "error"})
  <2>1. pub.sentq[1] \in Msgs \X {"ok", "closed", "error"} BY <1>2
  <2> QED BY <1>2, <2>1
<1>4. PubOK(p, acked)
  <2>1. p \in Publishers BY <1>1, <1>3 DEF Publishers
  <2> QED BY <1>1, <2>1 DEF PubOK, Publishers
<1>5. p \in Publishers BY <1>4 DEF PubOK
<1> HIDE DEF m, p
<1>6. m \in Pending(p) => PubOK(waiting, acked)
  <2> SUFFICES ASSUME m \in Pending(p) PROVE PubOK(waiting, acked) OBVIOUS
  <2>1. waiting \in Publishers BY <1>3, <1>5 DEF Publishers, PendStates
  <2>2. \A k \in Msgs : waiting.pend[k] # "no" <=> p.pend[k] # "no"
    BY <1>3, <1>5 DEF Publishers, Pending
  <2> QED BY <1>4, <1>5, <2>1, <2>2 DEF PubOK, Publishers
<1>7. \A o \in {"Sent", "Failed"} : PubOK(Finish(p, {m}, o), acked)
  <2>1. \A o \in {"Sent", "Failed"} : o \in Outcomes \ {"None", "Pending"} /\ o # "Processed"
    BY DEF Outcomes
  <2> QED BY <1>4, <2>1, FinishOK
<1>8. PubOK(RemoveSubscriber(p), acked) BY <1>4, RemoveSubscriberOK
<1>9. PICK q : PublisherStep(q, s2p) /\ q \in {p, Finish(p, {m}, "Sent"), Finish(p, {m}, "Failed"),
                                               RemoveSubscriber(p)} \cup
                                              {z \in {waiting} : m \in Pending(p)}
  <2>1. PublisherStep(CASE m \notin Pending(p) -> p
               [] m \in Pending(p) /\ Mode = "BestEffort" ->
                     Finish(p, {m}, IF result = "ok" THEN "Sent" ELSE "Failed")
               [] m \in Pending(p) /\ Mode # "BestEffort" /\ result = "closed" ->
                     Finish(p, {m}, "Failed")
               [] m \in Pending(p) /\ Mode # "BestEffort" /\ result = "error" ->
                     RemoveSubscriber(p)
               [] OTHER -> waiting, s2p)
    BY DEF Sent, m, p
  <2> HIDE DEF waiting, result
  <2> QED BY <2>1
<1>10. PubOK(q, acked)
  <2> HIDE DEF waiting
  <2> QED BY <1>4, <1>6, <1>7, <1>8, <1>9
<1> QED BY <1>9, <1>10, OwnStepOK DEF Sent

\* A publisher step that handles a frame of the current session.
LEMMA FrameStepOK ==
  ASSUME IInv, NEW type, FromSubscriber(type), NEW p, PubOK(p, acked), PublisherStep(p, PInbox),
         UNCHANGED <<sub, ticket, net, stopped, expired, acked>>,
         data' \in [Sessions \X Subs -> Seq(0..MaxMsgs)]
  PROVE  IInv'
<1>1. PInbox \in [Sessions -> Seq(GoodFrames(acked))] BY FromSubscriberOK
<1>2. pnew \subseteq Sessions /\ snew \subseteq Sessions BY DEF IInv, NetOK
<1> QED BY <1>1, <1>2, PublisherStepOK DEF net

\* SUBSCRIBE.
LEMMA HandleSubscribeOK == ASSUME IInv, HandleSubscribe PROVE IInv'
<1> DEFINE b == Head(s2p[pub.sess]).n
           p == IF pub.bind.sub = b THEN pub ELSE [pub EXCEPT !.bind = [NoBinding EXCEPT !.sub = b]]
<1>1. b \in 0..MaxSubs
  <2>1. FromSubscriber("Subscribe") BY DEF HandleSubscribe
  <2>2. Head(s2p[pub.sess]) \in GoodFrames(acked) /\ Head(s2p[pub.sess]).type = "Subscribe"
    BY <2>1, FromSubscriberOK
  <2> QED BY <2>2, FrameNames
<1> HIDE DEF b
<1>2. PubOK(p, acked)
  <2> DEFINE c == [NoBinding EXCEPT !.sub = b]
  <2>1. c \in Bindings /\ Len(c.queue) <= 1
    <3>1. c \in Bindings /\ c.queue = <<>> BY <1>1, NewBinding
    <3> QED BY <3>1
  <2> HIDE DEF c
  <2>2. PubOK([pub EXCEPT !.bind = c], acked) BY <2>1, WithBinding DEF IInv
  <2> QED BY <2>2 DEF IInv, c
<1> HIDE DEF p
<1>3. PubOK(Send(p, Frame("Suback", b)), acked) BY <1>1, <1>2, FrameOK, SendOK
<1>4. data' \in [Sessions \X Subs -> Seq(0..MaxMsgs)] BY DropWriterOK DEF HandleSubscribe
<1>5. FromSubscriber("Subscribe") /\ PublisherStep(Send(p, Frame("Suback", b)), PInbox)
  BY DEF HandleSubscribe, p, b
<1> QED BY <1>3, <1>4, <1>5, FrameStepOK DEF HandleSubscribe

\* UNSUBSCRIBE.
LEMMA HandleUnsubscribeOK == ASSUME IInv, HandleUnsubscribe PROVE IInv'
<1> DEFINE b == Head(s2p[pub.sess]).n
           p == IF pub.bind.sub = b THEN [pub EXCEPT !.bind = NoBinding] ELSE pub
<1>1. PubOK(p, acked)
  <2>1. NoBinding \in Bindings /\ Len(NoBinding.queue) <= 1
    <3>1. NoBinding \in Bindings /\ NoBinding.queue = <<>> BY NewBinding
    <3> QED BY <3>1
  <2>2. PubOK([pub EXCEPT !.bind = NoBinding], acked) BY <2>1, WithBinding DEF IInv
  <2> QED BY <2>2 DEF IInv
<1> HIDE DEF p
<1>2. PubOK(Finish(p, PendingFor(p, b), "Failed"), acked)
  <2>1. "Failed" \in Outcomes \ {"None", "Pending"} /\ "Failed" # "Processed" BY DEF Outcomes
  <2> QED BY <1>1, <2>1, FinishOK
<1>3. data' \in [Sessions \X Subs -> Seq(0..MaxMsgs)] BY DropWriterOK DEF HandleUnsubscribe
<1>4. FromSubscriber("Unsubscribe") /\ PublisherStep(Finish(p, PendingFor(p, b), "Failed"), PInbox)
  BY DEF HandleUnsubscribe, p
<1> HIDE DEF b
<1> QED BY <1>2, <1>3, <1>4, FrameStepOK DEF HandleUnsubscribe

\* CREDIT.
LEMMA HandleCreditOK == ASSUME IInv, HandleCredit PROVE IInv'
<1> DEFINE b == Head(s2p[pub.sess]).n
           c == [pub.bind EXCEPT !.credit = TRUE, !.requested = FALSE]
           d == [c EXCEPT !.credit = FALSE]
           granted == [pub EXCEPT !.bind = c]
           unused == [granted EXCEPT !.bind = d]
<1>1. PubOK(pub, acked) /\ pub \in Publishers /\ pub.bind \in Bindings BY DEF IInv, PubOK, Publishers
<1>2. FromSubscriber("Credit") BY DEF HandleCredit
<1>3. b \in 0..MaxSubs
  <2>1. Head(s2p[pub.sess]) \in GoodFrames(acked) /\ Head(s2p[pub.sess]).type = "Credit"
    BY <1>2, FromSubscriberOK
  <2> QED BY <2>1, FrameNames
<1>4. c \in Bindings /\ d \in Bindings /\ c.queue = pub.bind.queue /\ d.queue = pub.bind.queue
  BY <1>1 DEF Bindings
<1>5. Len(c.queue) <= 1 /\ Len(d.queue) <= 1 BY <1>1, <1>4 DEF PubOK
<1>6. /\ [pub EXCEPT !.bind.credit = TRUE, !.bind.requested = FALSE] = granted
      /\ [granted EXCEPT !.bind.credit = FALSE] = unused
  BY <1>1 DEF Publishers, Bindings
<1>7. \/ PublisherStep(pub, PInbox)
      \/ PublisherStep(RemoveSubscriber(pub), PInbox)
      \/ PublisherStep(Send(unused, Frame("Return", b)), PInbox)
      \/ PublisherStep(granted, PInbox)
  <2> DEFINE g == [pub EXCEPT !.bind.credit = TRUE, !.bind.requested = FALSE]
             u == [g EXCEPT !.bind.credit = FALSE]
  <2>1. \/ PublisherStep(pub, PInbox)
        \/ PublisherStep(RemoveSubscriber(pub), PInbox)
        \/ PublisherStep(IF PendingFor(pub, b) = {} THEN Send(u, Frame("Return", b)) ELSE g, PInbox)
    BY DEF HandleCredit
  <2>2. g = granted /\ u = unused BY <1>6
  <2> HIDE DEF g, u, granted, unused, b
  <2> QED BY <2>1, <2>2
<1> HIDE DEF b, c, d
<1>8. PubOK(granted, acked) BY <1>1, <1>4, <1>5, WithBinding
<1>9. PubOK(unused, acked)
  <2> HIDE DEF granted
  <2> QED BY <1>4, <1>5, <1>8, WithBinding
<1> HIDE DEF granted, unused
<1>10. PubOK(Send(unused, Frame("Return", b)), acked) BY <1>3, <1>9, FrameOK, SendOK
<1>11. PubOK(RemoveSubscriber(pub), acked) BY <1>1, RemoveSubscriberOK
<1>12. data' \in [Sessions \X Subs -> Seq(0..MaxMsgs)] BY DEF HandleCredit, IInv, NetOK
<1> QED BY <1>1, <1>2, <1>7, <1>8, <1>10, <1>11, <1>12, FrameStepOK DEF HandleCredit

\* OUTCOME: Processed is reported only when an ACK says so.
LEMMA HandleOutcomeOK == ASSUME IInv, HandleOutcome PROVE IInv'
<1> DEFINE f == Head(s2p[pub.sess])
           m == f.n
           waiting == [pub EXCEPT !.pend[m] = "wait"]
<1>1. PubOK(pub, acked) /\ pub \in Publishers BY DEF IInv, PubOK
<1>2. FromSubscriber("Outcome") BY DEF HandleOutcome
<1>3. m \in Msgs /\ (f.code = 0 => m \in acked)
  <2>1. f \in GoodFrames(acked) /\ f.type = "Outcome" BY <1>2, FromSubscriberOK
  <2> QED BY <2>1, FrameNames
<1>4. PubOK(RemoveSubscriber(pub), acked) BY <1>1, RemoveSubscriberOK
<1>5. f.code = 0 => PubOK(Finish(pub, {m}, "Processed"), acked)
  <2>1. "Processed" \in Outcomes \ {"None", "Pending"} BY DEF Outcomes
  <2>2. f.code = 0 => \A k \in {m} : k \in acked BY <1>3
  <2> HIDE DEF m, f
  <2> QED BY <1>1, <2>1, <2>2, FinishOK
<1>6. PubOK(Finish(pub, {m}, "PermanentNack"), acked)
  <2>1. "PermanentNack" \in Outcomes \ {"None", "Pending"} /\ "PermanentNack" # "Processed"
    BY DEF Outcomes
  <2> QED BY <1>1, <2>1, FinishOK
<1>7. pub.pend[m] = "due" => PubOK(waiting, acked)
  <2> HIDE DEF m
  <2> SUFFICES ASSUME pub.pend[m] = "due" PROVE PubOK(waiting, acked) OBVIOUS
  <2>1. waiting \in Publishers BY <1>1, <1>3 DEF Publishers, PendStates
  <2>2. \A k \in Msgs : waiting.pend[k] # "no" <=> pub.pend[k] # "no" BY <1>1, <1>3 DEF Publishers
  <2> QED BY <1>1, <2>1, <2>2 DEF PubOK, Publishers
<1>8. \/ PublisherStep(RemoveSubscriber(pub), PInbox)
      \/ f.code = 0 /\ PublisherStep(Finish(pub, {m}, "Processed"), PInbox)
      \/ PublisherStep(Finish(pub, {m}, "PermanentNack"), PInbox)
      \/ PublisherStep(pub, PInbox)
      \/ pub.pend[m] = "due" /\ PublisherStep(waiting, PInbox)
  <2> DEFINE retry == IF pub.pend[m] = "due" THEN waiting ELSE pub
             p == CASE f.code = 0 -> Finish(pub, {m}, "Processed")
                    [] f.code = 1 -> retry
                    [] OTHER -> Finish(pub, {m}, "PermanentNack")
  <2>1. PublisherStep(p, PInbox) \/ PublisherStep(RemoveSubscriber(pub), PInbox) BY DEF HandleOutcome
  <2> HIDE DEF waiting, m, f
  <2> QED BY <2>1
<1>9. data' \in [Sessions \X Subs -> Seq(0..MaxMsgs)] BY DEF HandleOutcome, IInv, NetOK
<1>10. UNCHANGED <<sub, ticket, net, stopped, expired, acked>> BY DEF HandleOutcome
<1> HIDE DEF waiting, m, f
<1> QED BY <1>1, <1>2, <1>4, <1>5, <1>6, <1>7, <1>8, <1>9, <1>10, FrameStepOK

\* Command::End.
LEMMA PublisherEndOK == ASSUME IInv, PublisherEnd PROVE IInv'
<1>1. PubOK(RemoveSubscriber(pub), acked) BY RemoveSubscriberOK DEF IInv
<1> QED BY <1>1, OwnStepOK DEF PublisherEnd

\* The maintenance tick at the publisher.
LEMMA PublisherMaintenanceOK == ASSUME IInv, PublisherMaintenance PROVE IInv'
<1>1. PICK forgotten \in {{}, Forgettable} :
       LET p1 == IF pub.sess # None /\ ~alive[pub.sess] THEN RemoveSubscriber(pub) ELSE pub
           p2 == [p1 EXCEPT !.terminal = @ \ forgotten]
           p3 == Finish(p2, Overdue(p2), "Failed")
           p4 == IF p3.bind.credit /\ PendingFor(p3, p3.bind.sub) = {}
                 THEN Send([p3 EXCEPT !.bind.credit = FALSE], Frame("Return", p3.bind.sub)) ELSE p3
       IN /\ PublisherStep(p4, s2p)
          /\ UNCHANGED <<sub, ticket, net, data, stopped, expired, acked, faults>>
  BY DEF PublisherMaintenance
<1> DEFINE p1 == IF pub.sess # None /\ ~alive[pub.sess] THEN RemoveSubscriber(pub) ELSE pub
           p2 == [p1 EXCEPT !.terminal = @ \ forgotten]
           p3 == Finish(p2, Overdue(p2), "Failed")
           r3 == [p3 EXCEPT !.bind.credit = FALSE]
           p4 == IF p3.bind.credit /\ PendingFor(p3, p3.bind.sub) = {}
                 THEN Send(r3, Frame("Return", p3.bind.sub)) ELSE p3
<1>2. PublisherStep(p4, s2p) /\ UNCHANGED <<sub, ticket, net, data, stopped, expired, acked>> BY <1>1
<1>3. PubOK(p1, acked) BY RemoveSubscriberOK DEF IInv
<1> HIDE DEF p1
<1>4. PubOK(p2, acked)
  <2>1. p1 \in Publishers BY <1>3 DEF PubOK
  <2>2. p2 \in Publishers /\ p2.terminal = p1.terminal \ forgotten BY <2>1 DEF Publishers
  <2> QED BY <1>3, <2>1, <2>2 DEF PubOK, Publishers
<1> HIDE DEF p2
<1>5. PubOK(p3, acked)
  <2>1. "Failed" \in Outcomes \ {"None", "Pending"} /\ "Failed" # "Processed" BY DEF Outcomes
  <2> QED BY <1>4, <2>1, FinishOK
<1> HIDE DEF p3
<1>6. PubOK(r3, acked) /\ p3.bind \in Bindings
  <2> DEFINE c == [p3.bind EXCEPT !.credit = FALSE]
  <2>1. p3 \in Publishers /\ p3.bind \in Bindings BY <1>5 DEF PubOK, Publishers
  <2>2. c \in Bindings /\ c.queue = p3.bind.queue BY <2>1 DEF Bindings
  <2>3. Len(c.queue) <= 1 BY <1>5, <2>2 DEF PubOK
  <2>4. r3 = [p3 EXCEPT !.bind = c] BY <2>1 DEF Publishers
  <2> HIDE DEF c, r3
  <2> QED BY <1>5, <2>1, <2>2, <2>3, <2>4, WithBinding
<1>7. PubOK(Send(r3, Frame("Return", p3.bind.sub)), acked)
  <2>1. p3.bind.sub \in 0..MaxSubs BY <1>6 DEF Bindings
  <2> HIDE DEF r3
  <2> QED BY <1>6, <2>1, FrameOK, SendOK
<1>8. PubOK(p4, acked)
  <2> HIDE DEF r3
  <2> QED BY <1>5, <1>7
<1> HIDE DEF p4
<1> QED BY <1>2, <1>8, OwnStepOK

\* Owner::register at the publisher.
LEMMA PublisherRegisterOK ==
  ASSUME IInv, NEW s \in Sessions, PublisherRegister(s)
  PROVE  IInv'
<1>1. pnew' \subseteq Sessions /\ snew' \subseteq Sessions /\ data \in [Sessions \X Subs -> Seq(0..MaxMsgs)]
  BY DEF PublisherRegister, IInv, NetOK
<1>2. CASE Prefers(pub.sess, s)
  <2>1. Refuse(s) BY <1>2 DEF PublisherRegister
  <2>2. alive' \in [Sessions -> BOOLEAN] BY <2>1 DEF Refuse, IInv, NetOK
  <2> QED BY <1>1, <2>1, <2>2 DEF Refuse, PublisherRegister, IInv, NetOK
<1>3. CASE ~Prefers(pub.sess, s)
  <2> DEFINE p == RemoveSubscriber(pub)
             q == [p EXCEPT !.sess = s]
  <2>1. PublisherStep(q, s2p) /\ UNCHANGED <<sub, data>> BY <1>3 DEF PublisherRegister
  <2>2. PubOK(p, acked) BY RemoveSubscriberOK DEF IInv
  <2> HIDE DEF p
  <2>3. p \in Publishers BY <2>2 DEF PubOK
  <2>4. q \in Publishers
    <3>1. s \in 0..MaxSessions BY BoundsAssumption DEF Sessions
    <3> QED BY <2>3, <3>1 DEF Publishers
  <2>5. PubOK(q, acked) BY <2>2, <2>3, <2>4 DEF PubOK, Publishers
  <2> HIDE DEF q
  <2>6. s2p \in [Sessions -> Seq(GoodFrames(acked))] BY DEF IInv, NetOK
  <2> QED BY <1>1, <2>1, <2>5, <2>6, PublisherStepOK DEF PublisherRegister
<1> QED BY <1>2, <1>3

----------------------------------------------------------------------------
(* The subscriber's operations. *)

\* A change that leaves the deliveries alone, or forgets the ring.
LEMMA SameDeliveries ==
  ASSUME NEW A, NEW X, NEW r, SubOK(r, A, X), NEW q \in Subscribers,
         q.ring = r.ring \/ q.ring = <<>>, q.obj = r.obj, q.disp = r.disp, q.dedup = r.dedup,
         q.out \in Seq(GoodFrames(A))
  PROVE  SubOK(q, A, X)
<1>1. CASE q.ring = r.ring BY <1>1 DEF SubOK
<1>2. CASE q.ring = <<>>
  <2>1. Len(q.ring) = 0 /\ 1..Len(q.ring) = {} BY <1>2
  <2>2. Len(q.ring) <= SubMessages BY <2>1, LimitsAssumption
  <2> QED BY <2>1, <2>2 DEF SubOK
<1> QED BY <1>1, <1>2

\* Frames are frames.
LEMMA GoodAreFrames == \A A : Seq(GoodFrames(A)) \subseteq Seq(Frames)
<1>1. \A A : GoodFrames(A) \subseteq Frames BY DEF GoodFrames
<1> QED BY <1>1, SeqMonotonic

\* Owner::send, at the subscriber.
LEMMA SubSendOK ==
  ASSUME NEW A, NEW X, NEW r, SubOK(r, A, X), NEW f \in GoodFrames(A)
  PROVE  /\ SubOK(Send(r, f), A, X)
         /\ Send(r, f).obj = r.obj /\ Send(r, f).disp = r.disp /\ Send(r, f).dedup = r.dedup
         /\ Send(r, f).ring = r.ring
<1> DEFINE q == [r EXCEPT !.out = Append(r.out, f)]
<1>1. r \in Subscribers /\ r.out \in Seq(GoodFrames(A)) BY DEF SubOK
<1>2. Append(r.out, f) \in Seq(GoodFrames(A)) BY <1>1
<1>3. Append(r.out, f) \in Seq(Frames) BY <1>2, GoodAreFrames
<1>4. /\ q \in Subscribers /\ q.ring = r.ring /\ q.obj = r.obj /\ q.disp = r.disp
      /\ q.dedup = r.dedup /\ q.out = Append(r.out, f)
  BY <1>1, <1>3 DEF Subscribers
<1> HIDE DEF q
<1>5. SubOK(q, A, X) BY <1>2, <1>4, SameDeliveries
<1>6. Send(r, f) = IF r.sess = None THEN r ELSE q BY DEF Send, q
<1> QED BY <1>4, <1>5, <1>6

\* Owner::remove_peer, at the subscriber.
LEMMA RemovePublisherOK ==
  ASSUME NEW A, NEW X, NEW r, SubOK(r, A, X)
  PROVE  SubOK(RemovePublisher(r), A, X)
<1> DEFINE q == RemovePublisher(r)
<1>1. r \in Subscribers BY DEF SubOK
<1>2. <<>> \in Seq(Frames) /\ <<>> \in Seq(GoodFrames(A)) /\ None \in 0..MaxSessions
  BY BoundsAssumption DEF None
<1>3. /\ q \in Subscribers /\ q.ring = r.ring /\ q.obj = r.obj /\ q.disp = r.disp
      /\ q.dedup = r.dedup /\ q.out = <<>>
  BY <1>1, <1>2 DEF RemovePublisher, Subscribers
<1> HIDE DEF q
<1>4. SubOK(q, A, X) BY <1>2, <1>3, SameDeliveries
<1> QED BY <1>4 DEF q

\* The end of a subscriber step keeps the invariant when what precedes it does.
LEMMA SubscriberStepOK ==
  ASSUME IInv, NEW r, SubOK(r, acked, expired), NEW inbox \in [Sessions -> Seq(Frames)],
         SubscriberStep(r, inbox),
         pub' = pub, nonce' = nonce, stopped' = stopped, expired' = expired, acked' = acked,
         pnew' \subseteq Sessions, snew' \subseteq Sessions,
         ticket' \in [Sessions \X Subs -> 0..MaxMsgs]
  PROVE  IInv'
<1>1. r \in Subscribers /\ r.out \in Seq(GoodFrames(acked)) BY DEF SubOK
<1>2. SubOK(sub', acked, expired)
  <2>1. sub' = [r EXCEPT !.out = <<>>] BY DEF SubscriberStep
  <2>2. <<>> \in Seq(Frames) /\ <<>> \in Seq(GoodFrames(acked)) OBVIOUS
  <2>3. /\ sub' \in Subscribers /\ sub'.ring = r.ring /\ sub'.obj = r.obj /\ sub'.disp = r.disp
        /\ sub'.dedup = r.dedup /\ sub'.out = <<>>
    BY <1>1, <2>1, <2>2 DEF Subscribers
  <2> QED BY <2>2, <2>3, SameDeliveries
<1>3. sub.sess # None => sub.sess \in Sessions
  BY BoundsAssumption DEF IInv, SubOK, Subscribers, Sessions, None
<1>4. r.sess # None => r.sess \in Sessions
  BY <1>1, BoundsAssumption DEF Subscribers, Sessions, None
<1>5. s2p' \in [Sessions -> Seq(GoodFrames(acked))]
  <2>1. s2p \in [Sessions -> Seq(GoodFrames(acked))] BY DEF IInv, NetOK
  <2>2. r.sess # None => s2p[r.sess] \o r.out \in Seq(GoodFrames(acked)) BY <1>1, <1>4, <2>1
  <2>3. s2p' = IF r.sess # None /\ alive[r.sess]
               THEN [s2p EXCEPT ![r.sess] = s2p[r.sess] \o r.out] ELSE s2p
    BY DEF SubscriberStep
  <2> QED BY <1>4, <2>1, <2>2, <2>3
<1>6. p2s' \in [Sessions -> Seq(Frames)]
  <2>1. p2s' = inbox \/ (sub.sess # None /\ p2s' = [inbox EXCEPT ![sub.sess] = <<>>])
    BY DEF SubscriberStep
  <2>2. <<>> \in Seq(Frames) OBVIOUS
  <2> QED BY <1>3, <2>1, <2>2
<1>7. alive' \in [Sessions -> BOOLEAN]
  <2>1. alive' = alive \/ (sub.sess # None /\ alive' = [alive EXCEPT ![sub.sess] = FALSE])
    BY DEF SubscriberStep
  <2> QED BY <1>3, <2>1 DEF IInv, NetOK
<1>8. data' \in [Sessions \X Subs -> Seq(0..MaxMsgs)]
  <2>1. data \in [Sessions \X Subs -> Seq(0..MaxMsgs)] BY DEF IInv, NetOK
  <2>2. \/ data' = data
        \/ data' = [x \in DOMAIN data |-> IF x[1] = sub.sess THEN <<>> ELSE data[x]]
    BY DEF SubscriberStep
  <2>3. <<>> \in Seq(0..MaxMsgs) OBVIOUS
  <2> QED BY <2>1, <2>2, <2>3
<1> QED BY <1>2, <1>5, <1>6, <1>7, <1>8 DEF IInv, NetOK

\* A subscriber step that handles no frame, or one of the current session.
LEMMA OwnSubStepOK ==
  ASSUME IInv, NEW r, SubOK(r, acked, expired),
         \/ SubscriberStep(r, p2s)
         \/ (\E type : FromPublisher(type)) /\ SubscriberStep(r, SInbox),
         UNCHANGED <<pub, ticket, net, stopped, expired, acked>>
  PROVE  IInv'
<1>1. p2s \in [Sessions -> Seq(Frames)] /\ ticket \in [Sessions \X Subs -> 0..MaxMsgs]
      /\ pnew \subseteq Sessions /\ snew \subseteq Sessions
  BY DEF IInv, NetOK
<1>2. (\E type : FromPublisher(type)) => SInbox \in [Sessions -> Seq(Frames)]
  <2> SUFFICES ASSUME NEW type, FromPublisher(type) PROVE SInbox \in [Sessions -> Seq(Frames)]
    OBVIOUS
  <2>1. sub.sess \in Sessions
    BY BoundsAssumption DEF IInv, SubOK, Subscribers, FromPublisher, Sessions, None
  <2>2. p2s[sub.sess] \in Seq(Frames) /\ p2s[sub.sess] # <<>> BY <1>1, <2>1 DEF FromPublisher
  <2>3. Tail(p2s[sub.sess]) \in Seq(Frames) BY <2>2
  <2>4. SInbox = [p2s EXCEPT ![sub.sess] = Tail(p2s[sub.sess])] BY DEF SInbox
  <2> QED BY <1>1, <2>1, <2>3, <2>4
<1> QED BY <1>1, <1>2, SubscriberStepOK DEF net

\* Owner::subscribe.
LEMMA SubscribeOK == ASSUME IInv, Subscribe PROVE IInv'
<1> DEFINE b == sub.created + 1
           r == [sub EXCEPT !.id = b, !.created = b, !.open = TRUE, !.confirmed = FALSE,
                            !.grant = FALSE, !.demand = FALSE, !.ring = <<>>]
<1>1. SubOK(sub, acked, expired) /\ sub \in Subscribers BY DEF IInv, SubOK
<1>2. b \in 0..MaxSubs BY <1>1, BoundsAssumption DEF Subscribe, Subscribers
<1>3. <<>> \in Seq(Msgs) OBVIOUS
<1>4. SubscriberStep(Send(r, Frame("Subscribe", b)), p2s) BY DEF Subscribe
<1> HIDE DEF b
<1>5. /\ r \in Subscribers /\ r.ring = <<>> /\ r.obj = sub.obj /\ r.disp = sub.disp
      /\ r.dedup = sub.dedup /\ r.out = sub.out
  BY <1>1, <1>2, <1>3 DEF Subscribers
<1> HIDE DEF r
<1>6. sub.out \in Seq(GoodFrames(acked)) BY <1>1 DEF SubOK
<1>7. SubOK(r, acked, expired) BY <1>1, <1>5, <1>6, SameDeliveries
<1>8. SubOK(Send(r, Frame("Subscribe", b)), acked, expired) BY <1>2, <1>7, FrameOK, SubSendOK
<1> QED BY <1>4, <1>8, OwnSubStepOK DEF Subscribe

\* A step of the application or of a reader, which changes the subscriber's
\* state without a command of its owner.
LEMMA ReaderStepOK ==
  ASSUME IInv, SubOK(sub', acked, expired),
         pub' = pub, nonce' = nonce, expired' = expired, acked' = acked,
         pnew' = pnew, snew' = snew, p2s' = p2s, s2p' = s2p,
         stopped' \subseteq Sessions \X Subs,
         ticket' \in [Sessions \X Subs -> 0..MaxMsgs],
         alive' \in [Sessions -> BOOLEAN],
         data' \in [Sessions \X Subs -> Seq(0..MaxMsgs)]
  PROVE  IInv'
BY DEF IInv, NetOK

\* The Subscription handle is dropped.
LEMMA DropSubscriptionOK == ASSUME IInv, DropSubscription PROVE IInv'
<1>1. SubOK(sub, acked, expired) /\ sub \in Subscribers BY DEF IInv, SubOK
<1>2. sub' = [sub EXCEPT !.open = FALSE] BY DEF DropSubscription
<1>3. /\ sub' \in Subscribers /\ sub'.ring = sub.ring /\ sub'.obj = sub.obj
      /\ sub'.disp = sub.disp /\ sub'.dedup = sub.dedup /\ sub'.out = sub.out
  BY <1>1, <1>2 DEF Subscribers
<1>4. sub.out \in Seq(GoodFrames(acked)) BY <1>1 DEF SubOK
<1>5. SubOK(sub', acked, expired) BY <1>1, <1>3, <1>4, SameDeliveries
<1> QED BY <1>5, ReaderStepOK DEF DropSubscription, net, IInv, NetOK

\* Subscription::recv: the oldest delivery leaves the ring.
LEMMA RecvOK == ASSUME IInv, Recv PROVE IInv'
<1> DEFINE h == Head(sub.ring)
           s == Tail(sub.ring)
<1>1. SubOK(sub, acked, expired) /\ sub \in Subscribers BY DEF IInv, SubOK
<1>2. sub.ring \in Seq(Msgs) /\ sub.ring # <<>> BY <1>1 DEF Subscribers, Recv
<1>3. /\ h = sub.ring[1] /\ h \in Msgs /\ s \in Seq(Msgs) /\ Len(s) = Len(sub.ring) - 1
      /\ Len(sub.ring) \in Nat /\ Len(sub.ring) > 0
      /\ \A i \in 1..Len(s) : s[i] = sub.ring[i + 1]
  BY <1>2
<1>4. sub' = [sub EXCEPT !.obj[h] = "held", !.ring = s] BY DEF Recv
<1> HIDE DEF h, s
<1>5. /\ sub' \in Subscribers /\ sub'.ring = s /\ sub'.obj = [sub.obj EXCEPT ![h] = "held"]
      /\ sub'.disp = sub.disp /\ sub'.dedup = sub.dedup /\ sub'.out = sub.out
  BY <1>1, <1>3, <1>4 DEF Subscribers
<1>6. sub.obj[h] = "queued" BY <1>1, <1>3 DEF SubOK
<1>7. \A m \in Msgs : sub'.obj[m] = IF m = h THEN "held" ELSE sub.obj[m]
  BY <1>1, <1>5 DEF Subscribers
<1>8. ASSUME NEW i \in 1..Len(s) PROVE sub'.obj[s[i]] = "queued"
  <2>1. i + 1 \in 1..Len(sub.ring) /\ s[i] = sub.ring[i + 1] /\ i + 1 # 1 /\ 1 \in 1..Len(sub.ring)
    BY <1>3
  <2>2. sub.ring[i + 1] # sub.ring[1] BY <1>1, <2>1 DEF SubOK
  <2>3. sub.obj[sub.ring[i + 1]] = "queued" BY <1>1, <2>1 DEF SubOK
  <2>4. s[i] \in Msgs BY <1>3
  <2> QED BY <1>3, <1>7, <2>1, <2>2, <2>3, <2>4
<1>9. ASSUME NEW i \in 1..Len(s), NEW j \in 1..Len(s), s[i] = s[j] PROVE i = j
  <2>1. i + 1 \in 1..Len(sub.ring) /\ j + 1 \in 1..Len(sub.ring) BY <1>3
  <2>2. sub.ring[i + 1] = sub.ring[j + 1] BY <1>3, <1>9
  <2>3. i + 1 = j + 1 BY <1>1, <2>1, <2>2 DEF SubOK
  <2> QED BY <2>3
<1>10. Len(s) <= SubMessages BY <1>1, <1>3, LimitsAssumption DEF SubOK
<1>11. SubOK(sub', acked, expired)
  BY <1>1, <1>5, <1>6, <1>7, <1>8, <1>9, <1>10 DEF SubOK
<1> QED BY <1>11, ReaderStepOK DEF Recv, net, IInv, NetOK

\* Delivery::ack, nack and drop.
LEMMA CompleteOK ==
  ASSUME IInv, NEW m \in Msgs, NEW code \in 1..3, Complete(m, code)
  PROVE  IInv'
<1>1. SubOK(sub, acked, expired) /\ sub \in Subscribers BY DEF IInv, SubOK
<1>2. acked \subseteq acked' /\ acked' = (IF code = 1 THEN acked \cup {m} ELSE acked) BY DEF Complete
<1>3. Seq(GoodFrames(acked)) \subseteq Seq(GoodFrames(acked'))
  <2>1. GoodFrames(acked) \subseteq GoodFrames(acked') BY <1>2 DEF GoodFrames
  <2> QED BY <2>1, SeqMonotonic
<1>4. sub' = [sub EXCEPT !.obj[m] = "done", !.disp[m] = code] /\ sub.obj[m] = "held" BY DEF Complete
<1>5. /\ sub' \in Subscribers /\ sub'.ring = sub.ring /\ sub'.obj = [sub.obj EXCEPT ![m] = "done"]
      /\ sub'.disp = [sub.disp EXCEPT ![m] = code] /\ sub'.dedup = sub.dedup /\ sub'.out = sub.out
  <2> DEFINE o == [sub.obj EXCEPT ![m] = "done"]
             d == [sub.disp EXCEPT ![m] = code]
  <2>1. code \in 0..3 OBVIOUS
  <2>2. o \in [Msgs -> {"none", "queued", "held", "done"}] BY <1>1 DEF Subscribers
  <2>3. d \in [Msgs -> 0..3] BY <1>1, <2>1 DEF Subscribers
  <2>4. sub' = [sub EXCEPT !.obj = o, !.disp = d] BY <1>1, <1>4 DEF Subscribers
  <2> HIDE DEF o, d
  <2>5. sub' \in Subscribers /\ sub'.ring = sub.ring /\ sub'.obj = o
        /\ sub'.disp = d /\ sub'.dedup = sub.dedup /\ sub'.out = sub.out
    BY <1>1, <2>2, <2>3, <2>4 DEF Subscribers
  <2> QED BY <2>5 DEF o, d
<1>6. \A k \in Msgs : /\ sub'.obj[k] = IF k = m THEN "done" ELSE sub.obj[k]
                      /\ sub'.disp[k] = IF k = m THEN code ELSE sub.disp[k]
  BY <1>1, <1>5 DEF Subscribers
<1>7. m \notin acked /\ (m \in expired \/ sub.dedup[m] = "Processing") BY <1>1, <1>4 DEF SubOK
<1>8. \A i \in 1..Len(sub.ring) : sub.ring[i] # m /\ sub.ring[i] \in Msgs
  BY <1>1, <1>4 DEF SubOK, Subscribers
<1>9. SubOK(sub', acked', expired)
  <2>1. sub'.out \in Seq(GoodFrames(acked')) BY <1>1, <1>3, <1>5 DEF SubOK
  <2>2. Len(sub'.ring) <= SubMessages BY <1>1, <1>5 DEF SubOK
  <2>3. \A k \in Msgs : k \in acked' <=> sub'.disp[k] = 1 BY <1>1, <1>2, <1>6, <1>7 DEF SubOK
  <2>4. \A k \in Msgs : sub'.dedup[k] = "Processed" => k \in acked' BY <1>1, <1>2, <1>5 DEF SubOK
  <2>5. \A k \in Msgs : k \in acked' =>
           sub'.obj[k] = "done" /\ (k \in expired \/ sub'.dedup[k] \in {"Processing", "Processed"})
    BY <1>1, <1>2, <1>5, <1>6, <1>7 DEF SubOK
  <2>6. \A k \in Msgs : sub'.obj[k] \in {"queued", "held"} =>
           sub'.disp[k] = 0 /\ (k \in expired \/ sub'.dedup[k] = "Processing")
    BY <1>1, <1>5, <1>6 DEF SubOK
  <2>7. \A i \in 1..Len(sub'.ring) : sub'.obj[sub'.ring[i]] = "queued" BY <1>1, <1>5, <1>6, <1>8 DEF SubOK
  <2>8. \A i, j \in 1..Len(sub'.ring) : sub'.ring[i] = sub'.ring[j] => i = j BY <1>1, <1>5 DEF SubOK
  <2> QED BY <1>5, <2>1, <2>2, <2>3, <2>4, <2>5, <2>6, <2>7, <2>8 DEF SubOK
<1>10. PubOK(pub', acked') BY <1>2 DEF Complete, IInv, PubOK
<1>11. s2p' \in [Sessions -> Seq(GoodFrames(acked'))] /\ acked' \subseteq Msgs
  BY <1>2, <1>3 DEF Complete, IInv, NetOK
<1> QED BY <1>9, <1>10, <1>11 DEF Complete, net, IInv, NetOK

\* Control::Suback.
LEMMA HandleSubackOK == ASSUME IInv, HandleSuback PROVE IInv'
<1> DEFINE q == [sub EXCEPT !.confirmed = TRUE]
<1>1. SubOK(sub, acked, expired) /\ sub \in Subscribers /\ sub.out \in Seq(GoodFrames(acked))
  BY DEF IInv, SubOK
<1>2. /\ q \in Subscribers /\ q.ring = sub.ring /\ q.obj = sub.obj /\ q.disp = sub.disp
      /\ q.dedup = sub.dedup /\ q.out = sub.out
  BY <1>1 DEF Subscribers
<1>3. SubscriberStep(q, SInbox) \/ SubscriberStep(sub, SInbox) BY DEF HandleSuback
<1> HIDE DEF q
<1>4. SubOK(q, acked, expired) BY <1>1, <1>2, SameDeliveries
<1>5. \E type : FromPublisher(type) BY DEF HandleSuback
<1> QED BY <1>1, <1>3, <1>4, <1>5, OwnSubStepOK DEF HandleSuback

\* Control::Credit at the subscriber: a request or a returned credit.
LEMMA HandleRequestCreditOK == ASSUME IInv, HandleRequestCredit PROVE IInv'
<1> DEFINE q == [sub EXCEPT !.demand = TRUE]
           z == [sub EXCEPT !.grant = FALSE, !.demand = FALSE]
<1>1. SubOK(sub, acked, expired) /\ sub \in Subscribers /\ sub.out \in Seq(GoodFrames(acked))
  BY DEF IInv, SubOK
<1>2. /\ q \in Subscribers /\ q.ring = sub.ring /\ q.obj = sub.obj /\ q.disp = sub.disp
      /\ q.dedup = sub.dedup /\ q.out = sub.out
  BY <1>1 DEF Subscribers
<1>3. /\ z \in Subscribers /\ z.ring = sub.ring /\ z.obj = sub.obj /\ z.disp = sub.disp
      /\ z.dedup = sub.dedup /\ z.out = sub.out
  BY <1>1 DEF Subscribers
<1>4. SubscriberStep(q, SInbox) \/ SubscriberStep(z, SInbox) \/ SubscriberStep(sub, SInbox)
  BY DEF HandleRequestCredit
<1> HIDE DEF q, z
<1>5. SubOK(q, acked, expired) /\ SubOK(z, acked, expired) BY <1>1, <1>2, <1>3, SameDeliveries
<1>6. \E type : FromPublisher(type) BY DEF HandleRequestCredit
<1> QED BY <1>1, <1>4, <1>5, <1>6, OwnSubStepOK DEF HandleRequestCredit

\* Owner::begin: the head of a DATA stream is refused or takes the grant.
LEMMA BeginOK == ASSUME IInv, NEW b \in Subs, Begin(b) PROVE IInv'
<1> DEFINE x == <<sub.sess, b>>
           m == Head(data[x])
<1>1. /\ SubOK(sub, acked, expired) /\ sub \in Subscribers /\ sub.out \in Seq(GoodFrames(acked))
      /\ ticket \in [Sessions \X Subs -> 0..MaxMsgs] /\ alive \in [Sessions -> BOOLEAN]
      /\ data \in [Sessions \X Subs -> Seq(0..MaxMsgs)] /\ stopped \subseteq Sessions \X Subs
  BY DEF IInv, SubOK, NetOK
<1>2. sub.sess \in Sessions
  <2>1. sub.sess # None BY DEF Begin
  <2> QED BY <1>1, <2>1, BoundsAssumption DEF Subscribers, Sessions, None
<1>3. x \in Sessions \X Subs BY <1>2
<1>4. data[x] \in Seq(0..MaxMsgs) /\ data[x] # <<>> BY <1>1, <1>3 DEF Begin
<1>5. m \in 0..MaxMsgs /\ Tail(data[x]) \in Seq(0..MaxMsgs)
  <2>1. \A S, s : s \in Seq(S) /\ s # <<>> => Head(s) \in S /\ Tail(s) \in Seq(S) OBVIOUS
  <2> QED BY <1>4, <2>1
<1>6. \/ \E kind : ReaderFails(sub.sess, kind)
      \/ ReaderStops(x)
      \/ ReaderAdmits(x, m)
  BY DEF Begin
<1>7. UNCHANGED <<pub, nonce, pnew, snew, p2s, s2p, expired, acked>> BY DEF Begin, net
<1> HIDE DEF x, m
<1>8. CASE \E kind : ReaderFails(sub.sess, kind)
  <2>1. PICK kind : ReaderFails(sub.sess, kind) BY <1>8
  <2>2. alive' \in [Sessions -> BOOLEAN] BY <1>1, <1>2, <2>1 DEF ReaderFails
  <2> QED BY <1>1, <1>7, <2>1, <2>2, ReaderStepOK DEF ReaderFails
<1>9. CASE ReaderStops(x)
  <2>1. <<>> \in Seq(0..MaxMsgs) OBVIOUS
  <2>2. data' \in [Sessions \X Subs -> Seq(0..MaxMsgs)] BY <1>1, <1>3, <1>9, <2>1 DEF ReaderStops
  <2>3. stopped' \subseteq Sessions \X Subs BY <1>1, <1>3, <1>9 DEF ReaderStops
  <2> QED BY <1>1, <1>7, <1>9, <2>2, <2>3, ReaderStepOK DEF ReaderStops
<1>10. CASE ReaderAdmits(x, m)
  <2>1. data' \in [Sessions \X Subs -> Seq(0..MaxMsgs)] BY <1>1, <1>5, <1>10 DEF ReaderAdmits
  <2>2. ticket' \in [Sessions \X Subs -> 0..MaxMsgs] BY <1>1, <1>5, <1>10 DEF ReaderAdmits
  <2>3. /\ sub' \in Subscribers /\ sub'.ring = sub.ring /\ sub'.obj = sub.obj
        /\ sub'.disp = sub.disp /\ sub'.dedup = sub.dedup /\ sub'.out = sub.out
    BY <1>1, <1>10 DEF Subscribers, ReaderAdmits
  <2>4. SubOK(sub', acked, expired) BY <1>1, <2>3, SameDeliveries
  <2> QED BY <1>1, <1>7, <1>10, <2>1, <2>2, <2>4, ReaderStepOK DEF ReaderAdmits
<1> QED BY <1>6, <1>8, <1>9, <1>10

\* Owner::incoming: Processed is answered only from a record of it, and what is
\* queued was neither acknowledged nor queued already.
LEMMA AdmitOK ==
  ASSUME IInv, NEW b, NEW m \in Msgs
  PROVE  SubOK(Admit(b, m), acked, expired)
<1>1. SubOK(sub, acked, expired) /\ sub \in Subscribers /\ acked \subseteq Msgs
  BY DEF IInv, SubOK, NetOK
<1>2. ASSUME NEW code \in 0..2, code = 0 => m \in acked PROVE Outcome(m, code) \in GoodFrames(acked)
  BY <1>2 DEF GoodFrames, Frames, Outcome
<1>3. ASSUME NEW code \in 0..2, code = 0 => m \in acked
      PROVE  /\ SubOK(Send(sub, Outcome(m, code)), acked, expired)
             /\ Send(sub, Outcome(m, code)).obj = sub.obj /\ Send(sub, Outcome(m, code)).disp = sub.disp
             /\ Send(sub, Outcome(m, code)).dedup = sub.dedup
             /\ Send(sub, Outcome(m, code)).ring = sub.ring
  BY <1>1, <1>2, <1>3, SubSendOK
<1> DEFINE fresh == ~(m \in expired \/ sub.id # b) /\ sub.dedup[m] \notin {"Processed", "Permanent", "Processing"}
           s == Append(sub.ring, m)
           q == [sub EXCEPT !.ring = s, !.obj[m] = "queued", !.disp[m] = 0, !.dedup[m] = "Processing"]
           a == Send(sub, Outcome(m, 1))
           z == [a EXCEPT !.dedup[m] = "Retryable"]
<1>4. \/ Admit(b, m) = Send(sub, Outcome(m, 2))
      \/ Admit(b, m) = Send(sub, Outcome(m, 0)) /\ sub.dedup[m] = "Processed"
      \/ Admit(b, m) = sub
      \/ fresh /\ Len(sub.ring) < SubMessages /\ Admit(b, m) = q
      \/ fresh /\ Admit(b, m) = z
  BY DEF Admit
<1>5. fresh => m \notin acked /\ sub.obj[m] \notin {"queued", "held"} BY <1>1 DEF SubOK
<1>6. CASE fresh /\ Len(sub.ring) < SubMessages /\ Admit(b, m) = q
  <2>1. sub.ring \in Seq(Msgs) BY <1>1 DEF Subscribers
  <2>2. /\ s \in Seq(Msgs) /\ Len(s) = Len(sub.ring) + 1 /\ Len(sub.ring) \in Nat
        /\ \A i \in 1..Len(sub.ring) : s[i] = sub.ring[i] /\ sub.ring[i] \in Msgs
        /\ s[Len(sub.ring) + 1] = m
    BY <2>1
  <2>3. Len(s) <= SubMessages BY <1>6, <2>2, LimitsAssumption
  <2> HIDE DEF s
  <2>4. /\ q \in Subscribers /\ q.ring = s /\ q.out = sub.out
        /\ q.obj = [sub.obj EXCEPT ![m] = "queued"] /\ q.disp = [sub.disp EXCEPT ![m] = 0]
        /\ q.dedup = [sub.dedup EXCEPT ![m] = "Processing"]
    <3> DEFINE o == [sub.obj EXCEPT ![m] = "queued"]
               d == [sub.disp EXCEPT ![m] = 0]
               e == [sub.dedup EXCEPT ![m] = "Processing"]
    <3>1. o \in [Msgs -> {"none", "queued", "held", "done"}] BY <1>1 DEF Subscribers
    <3>2. d \in [Msgs -> 0..3] BY <1>1 DEF Subscribers
    <3>3. e \in [Msgs -> {"None", "Processing", "Retryable", "Processed", "Permanent"}]
      BY <1>1 DEF Subscribers
    <3>4. q = [sub EXCEPT !.ring = s, !.obj = o, !.disp = d, !.dedup = e] BY <1>1 DEF Subscribers
    <3> HIDE DEF o, d, e, q
    <3>5. q \in Subscribers /\ q.ring = s /\ q.out = sub.out /\ q.obj = o /\ q.disp = d /\ q.dedup = e
      BY <1>1, <2>2, <3>1, <3>2, <3>3, <3>4 DEF Subscribers
    <3> QED BY <3>5 DEF o, d, e
  <2> HIDE DEF q
  <2>5. \A k \in Msgs : /\ q.obj[k] = IF k = m THEN "queued" ELSE sub.obj[k]
                        /\ q.disp[k] = IF k = m THEN 0 ELSE sub.disp[k]
                        /\ q.dedup[k] = IF k = m THEN "Processing" ELSE sub.dedup[k]
    BY <1>1, <2>4 DEF Subscribers
  <2>6. \A i \in 1..Len(sub.ring) : sub.ring[i] # m BY <1>1, <1>5, <1>6 DEF SubOK
  <2>7. \A i \in 1..Len(s) : q.obj[s[i]] = "queued"
    BY <1>1, <2>2, <2>5 DEF SubOK
  <2>8. \A i, j \in 1..Len(s) : s[i] = s[j] => i = j
    <3> SUFFICES ASSUME NEW i \in 1..Len(s), NEW j \in 1..Len(s), s[i] = s[j] PROVE i = j
      OBVIOUS
    <3>1. CASE i \in 1..Len(sub.ring) /\ j \in 1..Len(sub.ring) BY <1>1, <2>2, <3>1 DEF SubOK
    <3>2. CASE ~(i \in 1..Len(sub.ring)) /\ ~(j \in 1..Len(sub.ring)) BY <2>2, <3>2
    <3>3. CASE i \in 1..Len(sub.ring) /\ ~(j \in 1..Len(sub.ring))
      BY <2>2, <2>6, <3>3
    <3>4. CASE ~(i \in 1..Len(sub.ring)) /\ j \in 1..Len(sub.ring)
      BY <2>2, <2>6, <3>4
    <3> QED BY <3>1, <3>2, <3>3, <3>4
  <2>9. \A k \in Msgs : k \in acked <=> q.disp[k] = 1 BY <1>1, <1>5, <1>6, <2>5 DEF SubOK
  <2>10. \A k \in Msgs : q.dedup[k] = "Processed" => k \in acked BY <1>1, <2>5 DEF SubOK
  <2>11. \A k \in Msgs : k \in acked =>
           q.obj[k] = "done" /\ (k \in expired \/ q.dedup[k] \in {"Processing", "Processed"})
    BY <1>1, <1>5, <1>6, <2>5 DEF SubOK
  <2>12. \A k \in Msgs : q.obj[k] \in {"queued", "held"} =>
           q.disp[k] = 0 /\ (k \in expired \/ q.dedup[k] = "Processing")
    BY <1>1, <2>5 DEF SubOK
  <2>13. q.out \in Seq(GoodFrames(acked)) BY <1>1, <2>4 DEF SubOK
  <2>14. SubOK(q, acked, expired)
    BY <2>3, <2>4, <2>7, <2>8, <2>9, <2>10, <2>11, <2>12, <2>13 DEF SubOK
  <2> QED BY <1>6, <2>14
<1>7. CASE fresh /\ Admit(b, m) = z
  <2>1. SubOK(a, acked, expired) /\ a.obj = sub.obj /\ a.disp = sub.disp /\ a.dedup = sub.dedup
    BY <1>3
  <2> HIDE DEF a
  <2>2. a \in Subscribers BY <2>1 DEF SubOK
  <2>3. /\ z \in Subscribers /\ z.ring = a.ring /\ z.out = a.out /\ z.obj = a.obj
        /\ z.disp = a.disp /\ z.dedup = [a.dedup EXCEPT ![m] = "Retryable"]
    BY <2>2 DEF Subscribers
  <2> HIDE DEF z
  <2>4. \A k \in Msgs : z.dedup[k] = IF k = m THEN "Retryable" ELSE a.dedup[k]
    BY <2>2, <2>3 DEF Subscribers
  <2>5. SubOK(z, acked, expired) BY <1>5, <1>7, <2>1, <2>3, <2>4 DEF SubOK
  <2> QED BY <1>7, <2>5
<1>8. CASE Admit(b, m) = Send(sub, Outcome(m, 0)) /\ sub.dedup[m] = "Processed"
  <2>1. m \in acked BY <1>1, <1>8 DEF SubOK
  <2> QED BY <1>3, <1>8, <2>1
<1>9. CASE Admit(b, m) = Send(sub, Outcome(m, 2)) BY <1>3, <1>9
<1>10. CASE Admit(b, m) = sub BY <1>1, <1>10
<1> QED BY <1>4, <1>6, <1>7, <1>8, <1>9, <1>10

\* Command::Incoming.
LEMMA IncomingOK == ASSUME IInv, NEW x \in Sessions \X Subs, Incoming(x) PROVE IInv'
<1>1. /\ SubOK(sub, acked, expired) /\ p2s \in [Sessions -> Seq(Frames)]
      /\ pnew \subseteq Sessions /\ snew \subseteq Sessions
      /\ ticket \in [Sessions \X Subs -> 0..MaxMsgs]
  BY DEF IInv, NetOK
<1>2. ticket[x] \in 0..MaxMsgs /\ ticket[x] # None BY <1>1 DEF Incoming
<1>3. ticket[x] \in Msgs BY <1>2, BoundsAssumption DEF Msgs, None
<1>4. ticket' \in [Sessions \X Subs -> 0..MaxMsgs]
  <2>1. None \in 0..MaxMsgs BY BoundsAssumption DEF None
  <2>2. ticket' = [ticket EXCEPT ![x] = None] BY DEF Incoming
  <2> QED BY <1>1, <2>1, <2>2
<1>5. SubOK(Admit(x[2], ticket[x]), acked, expired) BY <1>3, AdmitOK
<1>6. SubOK(RemovePublisher(sub), acked, expired) BY <1>1, RemovePublisherOK
<1>7. SubscriberStep(Admit(x[2], ticket[x]), p2s) \/ SubscriberStep(RemovePublisher(sub), p2s)
  BY DEF Incoming
<1>8. UNCHANGED <<pub, pnew, snew, nonce, stopped, expired, acked>> BY DEF Incoming, net
<1> QED BY <1>1, <1>4, <1>5, <1>6, <1>7, <1>8, SubscriberStepOK

\* A reader is aborted.
LEMMA AbortReaderOK == ASSUME IInv, NEW x \in Sessions \X Subs, AbortReader(x) PROVE IInv'
<1>1. ticket \in [Sessions \X Subs -> 0..MaxMsgs] BY DEF IInv, NetOK
<1>2. None \in 0..MaxMsgs BY BoundsAssumption DEF None
<1>3. ticket' \in [Sessions \X Subs -> 0..MaxMsgs] BY <1>1, <1>2 DEF AbortReader
<1>4. UNCHANGED <<pub, sub, alive, nonce, pnew, snew, p2s, s2p, data, stopped, expired, acked>>
  BY DEF AbortReader, net
<1> QED BY <1>3, <1>4 DEF IInv, NetOK

\* Command::End.
LEMMA SubscriberEndOK == ASSUME IInv, SubscriberEnd PROVE IInv'
<1>1. SubOK(RemovePublisher(sub), acked, expired) BY RemovePublisherOK DEF IInv
<1> QED BY <1>1, OwnSubStepOK DEF SubscriberEnd

\* Maintenance: a closed subscription nacks the deliveries in its ring.
LEMMA RemoveClosedOK ==
  ASSUME NEW A, NEW X, NEW r, SubOK(r, A, X)
  PROVE  SubOK(RemoveClosed(r), A, X)
<1> DEFINE o == [m \in Msgs |-> IF r.obj[m] = "queued" THEN "done" ELSE r.obj[m]]
           d == [m \in Msgs |-> IF r.obj[m] = "queued" THEN 2 ELSE r.disp[m]]
           q == [r EXCEPT !.id = None, !.confirmed = FALSE, !.grant = FALSE, !.demand = FALSE,
                          !.ring = <<>>, !.obj = o, !.disp = d]
<1>1. r \in Subscribers BY DEF SubOK
<1>2. <<>> \in Seq(Msgs) /\ None \in 0..MaxSubs BY BoundsAssumption DEF None
<1>3. o \in [Msgs -> {"none", "queued", "held", "done"}] /\ d \in [Msgs -> 0..3]
  BY <1>1 DEF Subscribers
<1>4. /\ q \in Subscribers /\ q.ring = <<>> /\ q.obj = o /\ q.disp = d
      /\ q.dedup = r.dedup /\ q.out = r.out
  <2> HIDE DEF o, d
  <2> QED BY <1>1, <1>2, <1>3 DEF Subscribers
<1>5. RemoveClosed(r) = IF r.id = None \/ r.open THEN r ELSE Send(q, Frame("Unsubscribe", r.id))
  BY DEF RemoveClosed
<1> HIDE DEF q
<1>6. SubOK(q, A, X)
  <2>1. Len(q.ring) = 0 /\ 1..Len(q.ring) = {} BY <1>4
  <2>2. Len(q.ring) <= SubMessages BY <2>1, LimitsAssumption
  <2>3. \A m \in Msgs : /\ q.obj[m] = IF r.obj[m] = "queued" THEN "done" ELSE r.obj[m]
                        /\ q.disp[m] = IF r.obj[m] = "queued" THEN 2 ELSE r.disp[m]
    BY <1>4
  <2> QED BY <1>4, <2>1, <2>2, <2>3 DEF SubOK
<1>7. Frame("Unsubscribe", r.id) \in GoodFrames(A) BY <1>1, FrameOK DEF Subscribers
<1> QED BY <1>5, <1>6, <1>7, SubSendOK

\* Maintenance: dispositions are recorded and answered as they were given.
LEMMA SettleOK ==
  ASSUME NEW A, NEW r, SubOK(r, A, expired), NEW order \in Orders(r)
  PROVE  SubOK(Settle(r, order), A, expired)
<1> DEFINE n == Cardinality(Settled(r))
           e == [m \in Msgs |-> CASE m \in expired -> "None"
                                  [] m \in Settled(r) -> StateOf[r.disp[m]]
                                  [] OTHER -> r.dedup[m]]
           a == r.out \o Answers(r, order)
           u == IF r.sess = None THEN r.out ELSE a
<1>1. r \in Subscribers /\ r.out \in Seq(GoodFrames(A)) BY DEF SubOK
<1>2. Settled(r) \subseteq Msgs /\ \A m \in Settled(r) : r.disp[m] \in 1..3 /\ r.dedup[m] = "Processing" /\ m \notin expired
  BY <1>1 DEF Settled, Subscribers
<1>3. order \in [1..n -> Settled(r)] /\ n \in Nat
  <2>1. IsFiniteSet(Msgs) BY FS_Interval, BoundsAssumption DEF Msgs
  <2>2. IsFiniteSet(Settled(r)) BY <1>2, <2>1, FS_Subset
  <2> QED BY <2>2, FS_CardinalityType DEF Orders
<1> HIDE DEF n
<1>4. Answers(r, order) \in Seq(GoodFrames(A))
  <2>1. ASSUME NEW i \in 1..n PROVE Outcome(order[i], r.disp[order[i]] - 1) \in GoodFrames(A)
    <3>1. order[i] \in Settled(r) BY <1>3
    <3>2. order[i] \in Msgs /\ r.disp[order[i]] \in 1..3 BY <1>2, <3>1
    <3>3. r.disp[order[i]] - 1 \in 0..2 /\ (r.disp[order[i]] - 1 = 0 => r.disp[order[i]] = 1) BY <3>2
    <3>4. r.disp[order[i]] = 1 => order[i] \in A BY <3>2 DEF SubOK
    <3> HIDE DEF Outcome
    <3> QED BY <3>2, <3>3, <3>4 DEF GoodFrames, Frames, Outcome
  <2>2. Answers(r, order) = [i \in 1..n |-> Outcome(order[i], r.disp[order[i]] - 1)]
    BY <1>3 DEF Answers
  <2>3. \A i \in 1..n : Answers(r, order)[i] \in GoodFrames(A) BY <2>1, <2>2
  <2>4. Answers(r, order) \in [1..n -> GoodFrames(A)] BY <2>1, <2>2
  <2> HIDE DEF Answers
  <2> QED BY <1>3, <2>4, SeqDef
<1>5. a \in Seq(GoodFrames(A)) BY <1>1, <1>4
<1>6. u \in Seq(GoodFrames(A)) BY <1>1, <1>5
<1>7. u \in Seq(Frames) BY <1>6, GoodAreFrames
<1>8. StateOf[1] = "Processed" /\ StateOf[2] = "Retryable" /\ StateOf[3] = "Permanent" BY DEF StateOf
<1>9. \A m \in Msgs : /\ m \in expired => e[m] = "None"
                      /\ m \in Settled(r) => e[m] = StateOf[r.disp[m]]
                      /\ m \notin expired /\ m \notin Settled(r) => e[m] = r.dedup[m]
  BY <1>2
<1>10. \A m \in Settled(r) : StateOf[r.disp[m]] \in {"Retryable", "Processed", "Permanent"}
                             /\ (StateOf[r.disp[m]] = "Processed" <=> r.disp[m] = 1)
  <2> SUFFICES ASSUME NEW m \in Settled(r)
               PROVE  StateOf[r.disp[m]] \in {"Retryable", "Processed", "Permanent"}
                      /\ (StateOf[r.disp[m]] = "Processed" <=> r.disp[m] = 1)
    OBVIOUS
  <2>1. r.disp[m] = 1 \/ r.disp[m] = 2 \/ r.disp[m] = 3 BY <1>2
  <2> HIDE DEF StateOf
  <2> QED BY <1>8, <2>1
<1>11. e \in [Msgs -> {"None", "Processing", "Retryable", "Processed", "Permanent"}]
  <2>1. \A m \in Msgs : r.dedup[m] \in {"None", "Processing", "Retryable", "Processed", "Permanent"}
    BY <1>1 DEF Subscribers
  <2>2. \A m \in Msgs : e[m] \in {"None", "Processing", "Retryable", "Processed", "Permanent"}
    BY <1>9, <1>10, <2>1
  <2>3. e = [m \in Msgs |-> e[m]] OBVIOUS
  <2> HIDE DEF e
  <2> QED BY <2>2, <2>3
<1>12. Settle(r, order) = [r EXCEPT !.dedup = e, !.out = u] BY DEF Settle
<1> HIDE DEF e, u, a
<1> DEFINE q == Settle(r, order)
<1>13. q \in Subscribers /\ q.ring = r.ring /\ q.obj = r.obj /\ q.disp = r.disp /\ q.dedup = e /\ q.out = u
  BY <1>1, <1>7, <1>11, <1>12 DEF Subscribers
<1> HIDE DEF q
<1>14. \A m \in Msgs : q.dedup[m] = "Processed" => m \in A
  BY <1>2, <1>9, <1>10, <1>13 DEF SubOK
<1>15. \A m \in Msgs : m \in A =>
          q.obj[m] = "done" /\ (m \in expired \/ q.dedup[m] \in {"Processing", "Processed"})
  <2> SUFFICES ASSUME NEW m \in Msgs, m \in A, m \notin expired
               PROVE  q.dedup[m] \in {"Processing", "Processed"}
    BY <1>13 DEF SubOK
  <2>1. r.disp[m] = 1 /\ r.dedup[m] \in {"Processing", "Processed"} BY DEF SubOK
  <2> QED BY <1>9, <1>10, <1>13, <2>1
<1>16. \A m \in Msgs : q.obj[m] \in {"queued", "held"} =>
          q.disp[m] = 0 /\ (m \in expired \/ q.dedup[m] = "Processing")
  <2> SUFFICES ASSUME NEW m \in Msgs, q.obj[m] \in {"queued", "held"}
               PROVE  q.disp[m] = 0 /\ (m \in expired \/ q.dedup[m] = "Processing")
    OBVIOUS
  <2>1. r.disp[m] = 0 /\ (m \in expired \/ r.dedup[m] = "Processing") BY <1>13 DEF SubOK
  <2>2. m \notin Settled(r) BY <1>2, <2>1
  <2> QED BY <1>9, <1>13, <2>1, <2>2
<1>17. SubOK(q, A, expired) BY <1>6, <1>13, <1>14, <1>15, <1>16 DEF SubOK
<1> QED BY <1>17 DEF q

\* Owner::grant_credits.
LEMMA GrantCreditsOK ==
  ASSUME NEW A, NEW X, NEW r, SubOK(r, A, X)
  PROVE  SubOK(GrantCredits(r), A, X)
<1> DEFINE q == [r EXCEPT !.demand = FALSE, !.grant = TRUE]
<1>1. r \in Subscribers /\ r.out \in Seq(GoodFrames(A)) BY DEF SubOK
<1>2. /\ q \in Subscribers /\ q.ring = r.ring /\ q.obj = r.obj /\ q.disp = r.disp
      /\ q.dedup = r.dedup /\ q.out = r.out
  BY <1>1 DEF Subscribers
<1>3. GrantCredits(r) = r \/ GrantCredits(r) = Send(q, Frame("Credit", r.id)) BY DEF GrantCredits
<1> HIDE DEF q
<1>4. SubOK(q, A, X) BY <1>1, <1>2, SameDeliveries
<1>5. Frame("Credit", r.id) \in GoodFrames(A) BY <1>1, FrameOK DEF Subscribers
<1> QED BY <1>3, <1>4, <1>5, SubSendOK

\* Owner::maintenance, at the subscriber.
LEMMA SubscriberMaintenanceOK == ASSUME IInv, SubscriberMaintenance PROVE IInv'
<1> DEFINE c == IF sub.sess # None /\ ~alive[sub.sess] THEN RemovePublisher(sub) ELSE sub
           r == RemoveClosed(c)
<1>1. SubOK(sub, acked, expired) BY DEF IInv
<1>2. SubOK(c, acked, expired) BY <1>1, RemovePublisherOK
<1>3. \E order \in Orders(r) : SubscriberStep(GrantCredits(Settle(r, order)), p2s)
  BY DEF SubscriberMaintenance
<1> HIDE DEF c
<1>4. SubOK(r, acked, expired) BY <1>2, RemoveClosedOK
<1> HIDE DEF r
<1>5. PICK order \in Orders(r) : SubscriberStep(GrantCredits(Settle(r, order)), p2s) BY <1>3
<1>6. SubOK(Settle(r, order), acked, expired) BY <1>4, SettleOK
<1>7. SubOK(GrantCredits(Settle(r, order)), acked, expired) BY <1>6, GrantCreditsOK
<1> QED BY <1>5, <1>7, OwnSubStepOK DEF SubscriberMaintenance

\* Owner::register, at the subscriber.
LEMMA SubscriberRegisterOK ==
  ASSUME IInv, NEW s \in Sessions, SubscriberRegister(s)
  PROVE  IInv'
<1>1. /\ pnew' \subseteq Sessions /\ snew' \subseteq Sessions
      /\ ticket' \in [Sessions \X Subs -> 0..MaxMsgs] /\ p2s \in [Sessions -> Seq(Frames)]
  BY DEF SubscriberRegister, IInv, NetOK
<1>2. CASE Prefers(sub.sess, s)
  <2>1. Refuse(s) BY <1>2 DEF SubscriberRegister
  <2>2. alive' \in [Sessions -> BOOLEAN] BY <2>1 DEF Refuse, IInv, NetOK
  <2> QED BY <1>1, <2>1, <2>2 DEF Refuse, SubscriberRegister, IInv, NetOK
<1>3. CASE ~Prefers(sub.sess, s)
  <2> DEFINE c == RemovePublisher(sub)
             r == [c EXCEPT !.sess = s]
             q == IF r.id = None THEN r ELSE Send(r, Frame("Subscribe", r.id))
  <2>1. SubscriberStep(q, p2s) /\ UNCHANGED pub BY <1>3 DEF SubscriberRegister
  <2>2. SubOK(c, acked, expired) BY RemovePublisherOK DEF IInv
  <2> HIDE DEF c
  <2>3. c \in Subscribers /\ c.out \in Seq(GoodFrames(acked)) BY <2>2 DEF SubOK
  <2>4. s \in 0..MaxSessions BY BoundsAssumption DEF Sessions
  <2>5. /\ r \in Subscribers /\ r.ring = c.ring /\ r.obj = c.obj /\ r.disp = c.disp
        /\ r.dedup = c.dedup /\ r.out = c.out
    BY <2>3, <2>4 DEF Subscribers
  <2> HIDE DEF r
  <2>6. SubOK(r, acked, expired) BY <2>2, <2>3, <2>5, SameDeliveries
  <2>7. Frame("Subscribe", r.id) \in GoodFrames(acked) BY <2>5, FrameOK DEF Subscribers
  <2>8. SubOK(q, acked, expired) BY <2>6, <2>7, SubSendOK
  <2> HIDE DEF q
  <2>9. UNCHANGED <<nonce, stopped, expired, acked>> BY DEF SubscriberRegister
  <2> QED BY <1>1, <2>1, <2>8, <2>9, SubscriberStepOK
<1> QED BY <1>2, <1>3

----------------------------------------------------------------------------
(* Sessions and deadlines, and the invariant. *)

\* A handshake completes.
LEMMA ConnectOK == ASSUME IInv, NEW s \in Sessions, Connect(s) PROVE IInv'
<1>1. alive' \in [Sessions -> BOOLEAN] BY DEF Connect, IInv, NetOK
<1>2. nonce' \in [Sessions -> 0..MaxSessions]
  <2>1. PICK n \in Sessions : nonce' = [nonce EXCEPT ![s] = n] BY DEF Connect
  <2>2. n \in 0..MaxSessions BY BoundsAssumption DEF Sessions
  <2> QED BY <2>1, <2>2 DEF IInv, NetOK
<1>3. pnew' \subseteq Sessions /\ snew' \subseteq Sessions BY DEF Connect, IInv, NetOK
<1> QED BY <1>1, <1>2, <1>3 DEF Connect, IInv, NetOK

\* A connection fails.
LEMMA DisconnectOK == ASSUME IInv, NEW s \in Sessions, Disconnect(s) PROVE IInv'
<1>1. alive' \in [Sessions -> BOOLEAN] BY DEF Disconnect, IInv, NetOK
<1> QED BY <1>1 DEF Disconnect, net, IInv, NetOK

\* A deadline passes.
LEMMA ExpireOK == ASSUME IInv, NEW m \in Msgs, Expire(m) PROVE IInv'
<1>1. expired \subseteq expired' /\ expired' \subseteq Msgs BY DEF Expire, IInv, NetOK
<1>2. SubOK(sub', acked, expired') BY <1>1 DEF Expire, IInv, SubOK
<1> QED BY <1>1, <1>2 DEF Expire, net, IInv, NetOK

\* The two owners start with nothing.
LEMMA InitIInv == Init => IInv
<1> SUFFICES ASSUME Init PROVE IInv OBVIOUS
<1>1. /\ None \in 0..MaxSessions /\ None \in 0..MaxSubs /\ None \in 0..MaxMsgs
      /\ 0 \in 0..MaxSubs /\ 0 \in 0..MaxSessions /\ 0 \in 0..3
  BY BoundsAssumption DEF None
<1>2. <<>> \in Seq(Msgs) /\ <<>> \in Seq(Frames) /\ <<>> \in Seq(GoodFrames(acked))
      /\ <<>> \in Seq(0..MaxMsgs) /\ <<>> \in Seq(Msgs \X {"ok", "closed", "error"})
  OBVIOUS
<1>3. NetOK BY <1>1, <1>2 DEF Init, NetOK
<1>4. PubOK(pub, acked)
  <2>1. [m \in Msgs |-> "no"] \in [Msgs -> PendStates] BY DEF PendStates
  <2>2. [m \in Msgs |-> None] \in [Msgs -> 0..MaxSubs] BY <1>1
  <2>3. [m \in Msgs |-> "None"] \in [Msgs -> Outcomes] BY DEF Outcomes
  <2>4. pub \in Publishers BY <1>1, <1>2, <2>1, <2>2, <2>3, NewBinding DEF Init, Publishers
  <2>5. /\ pub.bind.queue = <<>> /\ pub.terminal = {}
        /\ \A m \in Msgs : pub.pend[m] = "no" /\ pub.outcome[m] = "None"
    BY NewBinding DEF Init
  <2>6. Len(pub.bind.queue) = 0 BY <2>5
  <2>7. Len(pub.bind.queue) <= 1 BY <2>6
  <2> QED BY <2>4, <2>5, <2>7 DEF PubOK
<1>5. SubOK(sub, acked, expired)
  <2>1. [m \in Msgs |-> "none"] \in [Msgs -> {"none", "queued", "held", "done"}] OBVIOUS
  <2>2. [m \in Msgs |-> 0] \in [Msgs -> 0..3] BY <1>1
  <2>3. [m \in Msgs |-> "None"]
        \in [Msgs -> {"None", "Processing", "Retryable", "Processed", "Permanent"}]
    OBVIOUS
  <2>4. sub \in Subscribers BY <1>1, <1>2, <2>1, <2>2, <2>3 DEF Init, Subscribers
  <2>5. /\ sub.ring = <<>> /\ sub.out = <<>> /\ acked = {}
        /\ \A m \in Msgs : sub.obj[m] = "none" /\ sub.disp[m] = 0 /\ sub.dedup[m] = "None"
    BY DEF Init
  <2>6. Len(sub.ring) = 0 /\ 1..Len(sub.ring) = {} BY <2>5
  <2>7. Len(sub.ring) <= SubMessages BY <2>6, LimitsAssumption
  <2> QED BY <1>2, <2>4, <2>5, <2>6, <2>7 DEF SubOK
<1> QED BY <1>3, <1>4, <1>5 DEF IInv

\* Every step keeps the invariant.
LEMMA StepIInv == IInv /\ [Next]_vars => IInv'
<1> SUFFICES ASSUME IInv, [Next]_vars PROVE IInv' OBVIOUS
<1>1. CASE PublisherNext
  BY <1>1, PublishOK, CancelOK, RetryDueOK, WriterTakeOK, WriterDoneOK, SentOK, HandleSubscribeOK,
     HandleUnsubscribeOK, HandleCreditOK, HandleOutcomeOK, PublisherEndOK, PublisherMaintenanceOK,
     PublisherRegisterOK
  DEF PublisherNext
<1>2. CASE SubscriberNext
  BY <1>2, SubscribeOK, DropSubscriptionOK, RecvOK, CompleteOK, HandleSubackOK,
     HandleRequestCreditOK, BeginOK, IncomingOK, AbortReaderOK, SubscriberEndOK,
     SubscriberMaintenanceOK, SubscriberRegisterOK
  DEF SubscriberNext
<1>3. CASE \E s \in Sessions : Connect(s) \/ Disconnect(s) BY <1>3, ConnectOK, DisconnectOK
<1>4. CASE \E m \in Msgs : Expire(m) BY <1>4, ExpireOK
<1>5. CASE UNCHANGED vars BY <1>5 DEF vars, IInv, NetOK
<1> QED BY <1>1, <1>2, <1>3, <1>4, <1>5 DEF Next

\* The set of acknowledged messages only grows.
LEMMA AckedGrows == [Next]_vars => acked \subseteq acked'
<1> SUFFICES ASSUME [Next]_vars PROVE acked \subseteq acked' OBVIOUS
<1>1. CASE PublisherNext
  BY <1>1 DEF PublisherNext, Publish, Cancel, RetryDue, WriterTake, WriterDone, Sent,
              HandleSubscribe, HandleUnsubscribe, HandleCredit, HandleOutcome, PublisherEnd,
              PublisherMaintenance, PublisherRegister
<1>2. CASE SubscriberNext
  BY <1>2 DEF SubscriberNext, Subscribe, DropSubscription, Recv, Complete, HandleSuback,
              HandleRequestCredit, Begin, Incoming, AbortReader, SubscriberEnd,
              SubscriberMaintenance, SubscriberRegister
<1>3. CASE \E s \in Sessions : Connect(s) \/ Disconnect(s) BY <1>3 DEF Connect, Disconnect
<1>4. CASE \E m \in Msgs : Expire(m) BY <1>4 DEF Expire
<1>5. CASE UNCHANGED vars BY <1>5 DEF vars
<1> QED BY <1>1, <1>2, <1>3, <1>4, <1>5 DEF Next

\* The inductive invariant holds in every reachable state.
THEOREM InvariantHolds == Spec => []IInv
BY InitIInv, StepIInv, PTL DEF Spec

\* Both owners and the streams keep their types, the writer's queue and the
\* delivery ring their capacities, and receipts match pending deliveries.
THEOREM TypesHold == Spec => []TypeOK
<1>1. IInv => TypeOK
  <2> SUFFICES ASSUME IInv PROVE TypeOK OBVIOUS
  <2>1. s2p \in [Sessions -> Seq(Frames)]
    <3>1. s2p \in [Sessions -> Seq(GoodFrames(acked))] BY DEF IInv, NetOK
    <3>2. Seq(GoodFrames(acked)) \subseteq Seq(Frames) BY GoodAreFrames
    <3> QED BY <3>1, <3>2
  <2> QED BY <2>1 DEF IInv, NetOK, PubOK, SubOK, TypeOK
<1> QED BY <1>1, InvariantHolds, PTL

\* Processed is reported only for acknowledged messages: a success travels from
\* Delivery::ack through the deduplication record and an OUTCOME frame.
THEOREM ProcessedHolds == Spec => []ProcessedMeansAcked
<1>1. IInv => ProcessedMeansAcked BY DEF IInv, PubOK, ProcessedMeansAcked
<1> QED BY <1>1, InvariantHolds, PTL

\* What the application acknowledged is never put in its ring again.
THEOREM RedeliveryHolds == Spec => AckedNotRedelivered
<1>1. IInv' /\ acked \subseteq acked'
      => \A m \in acked : sub.obj[m] # "queued" => sub'.obj[m] # "queued"
  BY DEF IInv, NetOK, SubOK
<1>2. IInv /\ [Next]_vars
      => [\A m \in acked : sub.obj[m] # "queued" => sub'.obj[m] # "queued"]_vars
  BY <1>1, StepIInv, AckedGrows
<1> QED BY <1>2, InvariantHolds, PTL DEF Spec, AckedNotRedelivered
=============================================================================
