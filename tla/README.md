# TLA+ models of rtn-mq

rtn-mq is an embedded publish/subscribe library: endpoints in different
processes connect over Iroh (QUIC), exchange certificates, subscribe to each
other's topics and deliver messages under credit-based flow control, best-effort
or acknowledged. This directory holds TLA+ models of the parts whose
correctness depends on interleaving, loss, retry and restart, the TLC runs that
check them on small instances, and TLAPS proofs for all instances.

## The system

| part | source | state | operations |
|---|---|---|---|
| Endpoint owner | `endpoint/owner.rs` | `Owner`: peers, subscriptions, pending, dedup, terminal, budgets | one task: handles a command, a frame or the 20 ms tick, then calls `schedule()` |
| Peer sessions | `endpoint/transport.rs` | control streams, DATA readers and writers, a cancellation token per session | `handshake`, `run`, `read_data`, `write_data`; `Owner::register`, `remove_peer` |
| Topic registry | `owner.rs` | local subscriptions, `Peer::outbound` bindings, `inbound` streams | SUBSCRIBE, SUBACK, UNSUBSCRIBE |
| Delivery engine | `owner.rs` | `Pending`, `Dedup`, `TerminalReceipt` | publish, schedule, Sent, outcome, begin, incoming, maintenance |
| Buffer manager | `buffer.rs` | atomic budgets and permits | reserve, shrink, drop |
| Delivery queue | `queue.rs` | ring, `Notify`, two closed flags | `try_send`, `recv`, the two drops |
| Join-code admission | `join.rs` | `Host`: grants, members | issue, revoke_code, enroll, prune, persist, with_storage |
| Certificates, revocation | `auth.rs`, `identity.rs` | deny list, signed snapshots | check, deny, apply |
| Wire format | `wire.rs`, `cbor.rs` | none | encode and parse frames |
| Public API | `endpoint.rs` | handles | publish, subscribe, recv, ack, nack, shutdown |

What is hard here: two owners that share no state and agree only through
frames; control and DATA on different QUIC streams, so that each overtakes the
other; sessions that fail and are replaced while frames of the old one are under
way; deadlines, retries and acknowledgements that race; subscriptions closed and
created again; a lock-free ring whose `recv` can be cancelled; a state file that
may or may not have been replaced when a save reports failure. `PROJECT.json`
lists these hazards with the line where each bites.

## Modules

| module | models |
|---|---|
| `SpscQueue` | `queue.rs`, one step per atomic access of sender and receiver |
| `ClosableChannel` | what a queue promises: a bounded FIFO that can be closed |
| `SpscQueueProofs` | proofs about `SpscQueue`, the refinement included |
| `Admission` | the host side of join codes with its storage |
| `AdmissionProofs` | proofs about `Admission` |
| `Delivery` | a publisher's owner, a subscriber's owner, their transport tasks and applications |
| `DeliveryProofs` | proofs about `Delivery` |
| `MC...` | instances for TLC |

### SpscQueue

`ring` holds the values of the rtrb ring; the n-th accepted value is n, so order,
loss and duplication are visible. `spc` and `rpc` are the program counters of
sender and receiver. `permit` and `notified` are the state of tokio's `Notify`
with its one waiter, modelled from the way `queue.rs` uses it: `enable`
takes the stored permit or registers, `notify_one` wakes the registered waiter
or stores a permit, dropping a future that was woken passes the wakeup on.
`recv` can be cancelled where it awaits.

### Admission

`mem` is `Host` in the running process, `disk` what `load()` returns, and
`unsynced` the older values that a power loss can bring back. The owner
serialises the operations, so each is one step. `persist` succeeds, or fails
with nothing written, or fails after the rename (permissions, directory sync) and
leaves either value. `enroll` is four actions, by its return: a cached
certificate (nothing is saved), a new certificate saved or rolled back, a
refusal; all of them drop expired members first. `Restart` loses memory and the
deny list. `given`, `withdrawn` and `handed` record what callers were told.
`LoadSettles` says that a value once loaded stays stored.

The limits that the encoding puts on the state, permissions and the host's own
certificate expiry are left out; the clock never steps back.

### Delivery

`pub` is the publisher's owner for one subscriber (`sess` the current session,
`bind` its `Binding`, `pend`, `target`, `tried` its `Pending` entries,
`terminal` its terminal receipts, `outcome` the receipt, `sentq` the `Sent`
commands of the DATA writer). `sub` is the subscriber's owner (`id` and `open`
the subscription and its handle, `confirmed`, `grant` and `demand` the peer's
entries in it, `ring` its delivery queue, `obj` and `disp` the `Delivery`
handles and the dispositions they store, `dedup` the deduplication records).
Between them are, per session, a FIFO control stream each way and, per binding, a DATA stream.
`ticket` is a payload being read, between `Begin` and `Incoming`.

`PublisherStep` and `SubscriberStep` end every owner step: they apply
`schedule()`, put what was sent on the control stream of the session that is now
current, and close the connection of a session that was dropped. An owner
compares the session of a frame with the current one; dropping what an old session still
carries stands for that comparison, except for payloads, where the
code drops the *current* session (`Incoming`, fault "stale payload").

`faults` collects the kinds of error for which an owner or a reader ended a
session. Abstractions: every message has one recipient, a credit always covers
the frame (no byte sizes), there is one topic, the control queue of 64 frames
does not overflow, certificates stay valid. Sessions, subscriptions and
messages are numbered and bounded by `MaxSessions`, `MaxSubs`, `MaxMsgs`.
`Forgettable` states the one timing assumption: a terminal receipt is dropped,
a handshake timeout after the expiry, when no frame of its message is under way.

## Runs

| run | instance | shows |
|---|---|---|
| `queue` | capacity 2, 5 values | types, no lost wakeup, `None` only at the end, refinement of `ClosableChannel`, `recv` returns |
| `admission` | 2 peers, 2 codes with one use, 3 certificates, 3 faults, clock 0..2 | use limit, membership, revocation, one certificate per redemption, denial |
| `reconnect` | 1 message, 2 sessions | `Processed` only after `ack`, no redelivery after `ack`, the peers' views agree |
| `flow_control` | 2 messages, 1 slot | credits are neither lost nor duplicated, a granted frame finds room |
| `resubscribe` | 2 subscriptions | the same with frames of a closed subscription under way |
| `best_effort` | 2 messages | handed to the writer at most once |
| `progress` | fair | a delivery without deadline is resolved while the session is up |
| `deadline` | fair | a delivery with a deadline is always resolved |
| `admission_power_loss` | `LoadSettles = FALSE` | violation of the use limit, see below |
| `close_session` | 2 subscriptions | violation: DATA of a closed subscription ends the session |
| `late_retry` | 2 sessions | violation: a retry at its expiry is refused although processed |

Bounds. The ring of 2 with 5 values wraps around and is full, partly filled and
empty in every phase of `recv`. Two peers and a one-use code are the least that
can exceed a limit; the certificate lifetime is shorter than the code's, so a
redeemed certificate expires while its code lives; three faults allow a failed
save, a restart and a second restart. Two sessions give each nonce order,
replacement, refusal and a reconnect with a lost outcome. Two messages and one slot make
deliveries compete for a credit; two subscriptions are the least for a stale one.
Peers and codes are interchangeable in `Admission`, so its run uses symmetry; it checks
no liveness.

Fairness. In `SpscQueue`, code that has begun runs on: synchronous
functions finish and a woken task is polled. Nothing makes an application call or drop
anything. In `Delivery`, ready tasks run, the tick recurs, timers fire and open
streams deliver (weak fairness of each task). The application receives and
completes what it holds; `SF(Complete(m, 1))` says that it does not nack one message for
ever, without which an acknowledged delivery without a deadline is retried for ever.
Publishing, subscribing, cancelling, connecting and losing a connection are not fair.

### Where the code and the documents differ

* `admission_power_loss`: `save_file` renames the new state into place and then
  syncs the directory. When the sync fails, the enrollment is rolled back and
  reported as failed. A restarted process loads the renamed file and returns the
  cached certificate without another save; a power loss can still bring the
  old file back, and the one-use code then admits a second identity.
  `README.md` says that such a code is reusable only by the same
  identity after either side restarts. `LoadSettles` excludes this case.
* `close_session`: when DATA arrives for a subscription that was closed and the
  topic has none, the stream is stopped with code 1. When the application has
  subscribed again, the same DATA is `Unauthorized` and ends the session with
  all its streams. `ARCHITECTURE.md` describes only the first behaviour.
* `late_retry`: `incoming` tests the expiry before the deduplication record. A
  retry after a lost ACK that arrives at the expiry, before the tick drops the record, is
  refused for good, and the receipt says `PermanentNack` for a message that was
  acknowledged. The failure table of `ARCHITECTURE.md` requires an ACK while
  the record proves completion; elsewhere it says that expired messages in
  flight are refused, without saying which rule comes first.

## Proofs

`SpscQueueProofs`, for every `Capacity` and `MaxSends`:

* `InvariantHolds`: `IInv` is inductive. It adds to the types which program counters go
  with which state of `Notify` (the future exists from `enable` to the return), that
  the ring holds exactly the values `received + 1 .. sent` in order, that a registered
  receiver that saw an empty ring is woken or about to be, and that after `None`
  nothing is left. `NoLostWakeup` alone is not inductive: the step from the
  pop to the await needs what holds between registration and pop.
* `TypesHold`, `WakeupsHold`, `DrainedHolds` follow from it.
* `Refinement`: `Spec => ImplementsChannel`. Push, pop, the store of the sender's drop and
  the last `None` are steps of the channel; every other step stutters.

`AdmissionProofs`, for all finite sets of peers, all codes, limits and bounds:

* `TypesHold`: the state is well formed in memory and storage.
* `RevocationHolds`: a revoked code is in no value the host holds or can load,
  because `revoke_code` returns Ok only after a durable save and a code's id is
  never drawn twice. It needs no assumption on storage.
* `EnrollmentInvariant`, assuming `LoadSettles`: every value the host
  holds or can load *knows* every certificate that was returned (its redemption is
  recorded, or replaced by a later certificate after it expired, or its code is gone for good;
  an unexpired one is a member). Every stored value also *covers* memory, which is
  what allows a cached certificate to be returned without a save. `UsesHold`, `MembershipHolds` and `RedemptionHolds`
  follow: a value that knows all returned certificates within a limit bounds them.
* `DenialHolds`, assuming `LoadSettles`: no step returns or replaces a denied
  redemption.

`DeliveryProofs`, for any numbers of messages, subscriptions and sessions, any
limits and either delivery mode:

* `InvariantHolds`: `IInv` is inductive, with one lemma per action. `PubOK` says that a
  receipt is open exactly while its delivery is pending and that `Processed` receipts are of
  acknowledged messages; `NetOK` that every success OUTCOME under way is of one. `SubOK`
  ties the subscriber together: a `Processed` record is of an acknowledged
  message, a message is acknowledged exactly when its stored disposition says so, an
  acknowledged message is recorded as `Processing` or `Processed` until it expires, a
  delivery still queued or held is recorded as `Processing`, and the ring holds queued
  deliveries without duplicates. `ProcessedMeansAcked` alone is not inductive: the success
  passes through the disposition, the record and a frame before the receipt shows it.
* `TypesHold` and `ProcessedHolds` follow from it.
* `RedeliveryHolds`: `Spec => AckedNotRedelivered`. Only `Admit` queues a
  delivery, and it does so only for a message that has not expired and whose record is
  neither `Processing` nor `Processed`, which by `SubOK` is not acknowledged.

Model-checked only: the liveness properties (`RecvReturns`,
`ResolvedWhileUp`, `ResolvedByDeadline`), which are out of the prover's reach, and, so
far, `PeersAgree`, `CreditConserved`, `GrantHasRoom` and `SentAtMostOnce`.

## Plan

1. More of `DeliveryProofs`: `SentAtMostOnce`, then `CreditConserved` and
   `GrantHasRoom`, whose invariant counts the places a credit can be in.
2. `Budget`: the counter of `buffer.rs`, with concurrent reserve, shrink and drop,
   against an abstract pool.
3. `Sessions`: registration between two endpoints that both dial, with stale sessions,
   rejoin, renewal, revocation, the control queue of 64 and agreement on one session.
4. `Registry`: several topics and peers, refusals, the inbound stream table, the
   rotation of credit candidates and its fairness.
5. `Shutdown`: drain, goodbye and the outcomes still owed.
6. Revocation snapshots (`auth.rs`): monotonic sequence and expiry.
7. The enrollment exchange seen from the client: timeouts and retries against `Admission`.

Not planned: byte-level formats (`wire.rs`, `cbor.rs`, COSE), signatures and key
files, metrics and logs. They hold no state that steps of several actors change.
