----------------------------- MODULE Admission -----------------------------
(***************************************************************************)
(* The host side of join-code enrollment (src/src/join.rs), driven by the  *)
(* endpoint owner: issue and revoke join codes, enroll peers, prune, and   *)
(* the persistence of all of it through HostStorage, with failing saves,   *)
(* crashes and restarts.                                                   *)
(*                                                                         *)
(* The owner serialises these operations, so each is one step.  A save has *)
(* three outcomes.  "ok": the new value is durable.  "failed": nothing was *)
(* written.  "unsure": FileHostStorage renamed the new file into place and *)
(* a later call (set_permissions, the directory sync) failed, so save()    *)
(* returned Err while a reload may see either value.  A crash between the  *)
(* rename and the reply is an "unsure" save followed by Restart.           *)
(***************************************************************************)
EXTENDS Naturals, FiniteSets

CONSTANTS Peers, Codes,
          NoGrant, NoCert,  \* absent entries of the codes and redeemed maps
          MaxUses,          \* JoinOptions::max_uses
          MaxCodes,         \* the owner passes Config::max_topics
          MaxMembers,       \* the owner passes Config::max_peers
          CodeLifetime, CertLifetime,
          LoadSettles,      \* a value that load() returned stays stored
          MaxTime, MaxCerts, MaxFaults \* bounds: clock, certificates, failed saves and restarts

ASSUME PeersAssumption == IsFiniteSet(Peers)
ASSUME LimitsAssumption == /\ MaxUses \in Nat /\ MaxCodes \in Nat /\ MaxMembers \in Nat
                           /\ CodeLifetime \in Nat /\ CertLifetime \in Nat
ASSUME BoundsAssumption == MaxTime \in Nat /\ MaxCerts \in Nat /\ MaxFaults \in Nat
ASSUME LoadSettlesAssumption == LoadSettles \in BOOLEAN

Certificate == [id : Nat, peer : Peers, expires : Nat]

ASSUME AbsentAssumption == NoCert \notin Certificate

Grant == [expires : Nat, redeemed : [Peers -> Certificate \cup {NoCert}]]

ASSUME NoGrantAssumption == NoGrant \notin Grant

\* The state of Host that encode() saves and decode() restores.
Host == [codes : [Codes -> Grant \cup {NoGrant}], members : SUBSET Certificate]

VARIABLES mem,       \* Host in the running process
          disk,      \* what load() returns while the machine stays up
          unsynced,  \* older values that a power loss can bring back
          denied,    \* Trust: denied certificate ids (process-local)
          now, next_id, faults,
          given,     \* codes whose issue returned Ok
          withdrawn, \* codes whose revocation returned Ok
          handed     \* <<code, certificate>> of every successful enrollment

vars == <<mem, disk, unsynced, denied, now, next_id, faults, given, withdrawn, handed>>

EmptyHost == [codes |-> [c \in Codes |-> NoGrant], members |-> {}]

Live(h) == {c \in Codes : h.codes[c] # NoGrant}
RedeemedPeers(g) == {p \in Peers : g.redeemed[p] # NoCert}
Unexpired(certs) == {x \in certs : x.expires > now}

\* Every value of the host state that the program may hold or load again.
Stored == {disk} \cup unsynced

Init == /\ mem = EmptyHost
        /\ disk = EmptyHost
        /\ unsynced = {}
        /\ denied = {}
        /\ now = 0
        /\ next_id = 1
        /\ faults = 0
        /\ given = {}
        /\ withdrawn = {}
        /\ handed = {}

(***************************************************************************)
(* Host::persist of value new, with memory rolled back to old on Err.      *)
(***************************************************************************)
SaveOk(new) == /\ mem' = new
               /\ disk' = new
               /\ unsynced' = {}
               /\ UNCHANGED faults

SaveFailed(new, old) == /\ faults < MaxFaults
                        /\ faults' = faults + 1
                        /\ mem' = old
                        /\ \/ UNCHANGED <<disk, unsynced>>
                           \/ disk' = new /\ unsynced' = unsynced \cup {disk}

(***************************************************************************)
(* Admission::issue.  A code's id derives from a fresh random secret.      *)
(***************************************************************************)
Fresh(c) == c \notin given /\ c \notin Live(mem) /\ \A s \in Stored : c \notin Live(s)

Issue(c) ==
    LET grant == [expires |-> now + CodeLifetime, redeemed |-> [p \in Peers |-> NoCert]]
        new == [mem EXCEPT !.codes[c] = grant]
    IN /\ Fresh(c)
       /\ Cardinality(Live(mem)) < MaxCodes
       /\ \/ SaveOk(new) /\ given' = given \cup {c}
          \/ SaveFailed(new, mem) /\ UNCHANGED given
       /\ UNCHANGED <<denied, now, next_id, withdrawn, handed>>

(***************************************************************************)
(* Admission::revoke_code, on an id the application was given.             *)
(***************************************************************************)
\* Mutant: the grant leaves memory and nothing is saved.
RevokeCodeUnsaved(c) == /\ c \in given
                        /\ mem' = [mem EXCEPT !.codes[c] = NoGrant]
                        /\ withdrawn' = withdrawn \cup {c}
                        /\ UNCHANGED <<disk, unsynced, denied, now, next_id, faults, given, handed>>

RevokeCode(c) ==
    LET new == [mem EXCEPT !.codes[c] = NoGrant]
    IN /\ c \in given
       /\ \/ SaveOk(new) /\ withdrawn' = withdrawn \cup {c}
          \/ SaveFailed(new, mem) /\ UNCHANGED withdrawn
       /\ UNCHANGED <<denied, now, next_id, given, handed>>

(***************************************************************************)
(* Admission::enroll.                                                      *)
(***************************************************************************)
\* trust.check of a cached certificate: the deny list precedes the expiry.
CachedUsable(x) == x.id \notin denied /\ now < x.expires

\* Mutant: the expiry is tested first and hides the denial.
CachedExpiredFirst(x) == now >= x.expires

CachedExpired(x) == x.id \notin denied /\ now >= x.expires

\* members.retain: every call drops expired members, whatever it returns.
Retained == [mem EXCEPT !.members = Unexpired(mem.members)]

GrantUsable(c) == c \in Live(mem) /\ mem.codes[c].expires > now

\* The certificate of an earlier redemption is returned without a save.
EnrollCached(p, c) ==
    /\ c \in given
    /\ GrantUsable(c)
    /\ LET x == mem.codes[c].redeemed[p]
       IN /\ x # NoCert
          /\ CachedUsable(x)
          /\ handed' = handed \cup {<<c, x>>}
    /\ mem' = Retained
    /\ UNCHANGED <<disk, unsynced, denied, now, next_id, faults, given, withdrawn>>

\* Mutant: one identity too many.
MayRedeemOneMore(p, c) ==
    LET g == mem.codes[c]
    IN /\ IF g.redeemed[p] # NoCert
          THEN CachedExpired(g.redeemed[p])
          ELSE Cardinality(RedeemedPeers(g)) <= MaxUses
       /\ Cardinality(Unexpired(mem.members)) < MaxMembers

\* Mutant: a redeemed identity is always given a fresh certificate.
MayRedeemAgain(p, c) ==
    LET g == mem.codes[c]
    IN /\ g.redeemed[p] # NoCert \/ Cardinality(RedeemedPeers(g)) < MaxUses
       /\ Cardinality(Unexpired(mem.members)) < MaxMembers

MayRedeem(p, c) ==
    LET g == mem.codes[c]
    IN /\ IF g.redeemed[p] # NoCert
          THEN CachedExpired(g.redeemed[p])
          ELSE Cardinality(RedeemedPeers(g)) < MaxUses
       /\ Cardinality(Unexpired(mem.members)) < MaxMembers

\* Mutant: the lifetime is subtracted.
CertExpiryBackwards == now - CertLifetime

\* The host's own certificate, which caps this, outlives the model.
CertExpiry == now + CertLifetime

\* Mutant: success is returned before the outcome of the save is known.
EnrollNewEarlyReply(p, c) ==
    LET x == [id |-> next_id, peer |-> p, expires |-> CertExpiry]
        new == [codes |-> [mem.codes EXCEPT ![c].redeemed[p] = x],
                members |-> Unexpired(mem.members) \cup {x}]
    IN /\ c \in given
       /\ GrantUsable(c)
       /\ MayRedeem(p, c)
       /\ next_id <= MaxCerts
       /\ next_id' = next_id + 1
       /\ SaveOk(new) \/ SaveFailed(new, Retained)
       /\ handed' = handed \cup {<<c, x>>}
       /\ UNCHANGED <<denied, now, given, withdrawn>>

\* A certificate is issued; its membership and the cached reply are saved.
EnrollNew(p, c) ==
    LET x == [id |-> next_id, peer |-> p, expires |-> CertExpiry]
        new == [codes |-> [mem.codes EXCEPT ![c].redeemed[p] = x],
                members |-> Unexpired(mem.members) \cup {x}]
    IN /\ c \in given
       /\ GrantUsable(c)
       /\ MayRedeem(p, c)
       /\ next_id <= MaxCerts
       /\ next_id' = next_id + 1
       /\ \/ SaveOk(new) /\ handed' = handed \cup {<<c, x>>}
          \/ SaveFailed(new, Retained) /\ UNCHANGED handed
       /\ UNCHANGED <<denied, now, given, withdrawn>>

\* Every early return with Err, the metadata budget included, after retain.
EnrollRefused == /\ mem' = Retained
                 /\ UNCHANGED <<disk, unsynced, denied, now, next_id, faults, given,
                                withdrawn, handed>>

(***************************************************************************)
(* Admission::prune, from the maintenance tick; nothing is saved.          *)
(***************************************************************************)
Pruned == [codes |-> [c \in Codes |-> IF c \in Live(mem) /\ mem.codes[c].expires > now
                                      THEN mem.codes[c] ELSE NoGrant],
           members |-> Unexpired(mem.members)]

Prune == /\ mem' = Pruned
         /\ UNCHANGED <<disk, unsynced, denied, now, next_id, faults, given, withdrawn, handed>>

\* Command::Deny runs maintenance, and with it prune, before it replies.
Deny(x) == /\ denied' = denied \cup {x.id}
           /\ mem' = Pruned
           /\ UNCHANGED <<disk, unsynced, now, next_id, faults, given, withdrawn, handed>>

(***************************************************************************)
(* A crash and Admission::with_storage: memory, and the deny list with it, *)
(* is lost.  The process alone restarts, or the machine lost power.        *)
(***************************************************************************)
Restart ==
    /\ faults < MaxFaults
    /\ faults' = faults + 1
    /\ \E loaded \in Stored :
          /\ mem' = loaded
          /\ disk' = loaded
          /\ unsynced' = IF LoadSettles \/ loaded # disk THEN {} ELSE unsynced
    /\ denied' = {}
    /\ UNCHANGED <<now, next_id, given, withdrawn, handed>>

Tick == /\ now < MaxTime
        /\ now' = now + 1
        /\ UNCHANGED <<mem, disk, unsynced, denied, next_id, faults, given, withdrawn, handed>>

Next == \/ \E c \in Codes : Issue(c) \/ RevokeCode(c)
        \/ \E p \in Peers, c \in Codes : EnrollCached(p, c) \/ EnrollNew(p, c)
        \/ EnrollRefused
        \/ Prune
        \/ \E h \in handed : Deny(h[2])
        \/ Restart
        \/ Tick

Spec == Init /\ [][Next]_vars

----------------------------------------------------------------------------
\* What issue, enroll, prune and a restart leave in memory and in storage is a
\* well-formed Host; every certificate expires at a time in the clock's range.
TypeOK == /\ mem \in Host /\ disk \in Host /\ unsynced \subseteq Host
          /\ denied \subseteq Nat
          /\ now \in Nat /\ next_id \in Nat /\ faults \in Nat
          /\ given \subseteq Codes /\ withdrawn \subseteq Codes
          /\ handed \subseteq (Codes \X Certificate)

HandedPeers(c) == {h[2].peer : h \in {k \in handed : k[1] = c}}

\* A code admits at most max_uses distinct endpoint identities, counted over
\* failed saves, crashes and restarts: the redeemed map that enroll consults
\* never forgets an identity that was sent a certificate.
UsesBounded == \A c \in Codes : Cardinality(HandedPeers(c)) <= MaxUses

\* Success is returned only with the membership recorded: a certificate that
\* enroll returned and that has not expired passes Admission::check now, and
\* would after any restart.
HandedAreMembers == \A h \in handed : h[2].expires > now =>
                        \A s \in {mem} \cup Stored : h[2] \in s.members

\* revoke_code that returned Ok is final: no restart brings the grant back.
RevokedStaysRevoked == \A c \in withdrawn : \A s \in {mem} \cup Stored : c \notin Live(s)

\* Same-key recovery returns the certificate it returned before: a code never
\* gives one identity two certificates that are valid at the same time.
OneCertificatePerRedemption ==
    \A h, k \in handed : (h[1] = k[1] /\ h[2].peer = k[2].peer /\ h[2] # k[2]) =>
        (h[2].expires <= now \/ k[2].expires <= now)

\* While the process lives, denying the certificate that a peer redeemed from
\* a code closes the code to that peer: waiting for the expiry, at which enroll
\* replaces a certificate, does not get it a fresh one.
DeniedGrantClosed ==
    [][\A c \in Codes, p \in Peers :
          (c \in Live(mem) /\ mem.codes[c].redeemed[p] # NoCert
             /\ mem.codes[c].redeemed[p].id \in denied /\ denied \subseteq denied') =>
          /\ c \in Live(mem') => mem'.codes[c].redeemed[p] = mem.codes[c].redeemed[p]
          /\ \A h \in handed' \ handed : ~(h[1] = c /\ h[2].peer = p)]_vars
============================================================================
