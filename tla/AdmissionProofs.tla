-------------------------- MODULE AdmissionProofs --------------------------
(***************************************************************************)
(* Proofs about Admission for any peers, codes and limits, any number of   *)
(* failed saves and any number of restarts, provided that a value which    *)
(* load() returned stays stored (LoadSettles).                             *)
(***************************************************************************)
EXTENDS Admission, FiniteSetTheorems, TLAPS

\* Replacing the grant of one code leaves the rest of the host alone.
LEMMA WithGrant ==
  ASSUME NEW h \in Host, NEW c \in Codes, NEW g \in Grant \cup {NoGrant},
         NEW n, n = [h EXCEPT !.codes[c] = g]
  PROVE  /\ n \in Host /\ n.members = h.members /\ n.codes[c] = g
         /\ \A d \in Codes : d # c => n.codes[d] = h.codes[d]
BY DEF Host

\* Dropping expired members.
LEMMA RetainedFacts ==
  ASSUME mem \in Host
  PROVE  /\ Retained \in Host /\ Retained.codes = mem.codes
         /\ Retained.members = Unexpired(mem.members)
BY DEF Retained, Host, Unexpired

\* Dropping expired codes and members.
LEMMA PrunedFacts ==
  ASSUME mem \in Host
  PROVE  /\ Pruned \in Host /\ Pruned.members = Unexpired(mem.members)
         /\ \A c \in Codes : Pruned.codes[c] # NoGrant => Pruned.codes[c] = mem.codes[c]
BY DEF Pruned, Host, Unexpired

(***************************************************************************)
(* Type correctness.                                                       *)
(***************************************************************************)
\* Host::persist leaves well-typed values behind.
LEMMA SaveTypes ==
  ASSUME TypeOK, NEW new \in Host, NEW old \in Host, SaveOk(new) \/ SaveFailed(new, old)
  PROVE  mem' \in Host /\ disk' \in Host /\ unsynced' \subseteq Host /\ faults' \in Nat
BY DEF SaveOk, SaveFailed, TypeOK

\* The state with a new grant is a Host.
LEMMA IssueType ==
  ASSUME TypeOK, NEW c \in Codes
  PROVE  [mem EXCEPT !.codes[c] = [expires |-> now + CodeLifetime,
                                   redeemed |-> [p \in Peers |-> NoCert]]] \in Host
<1>1. [expires |-> now + CodeLifetime, redeemed |-> [p \in Peers |-> NoCert]] \in Grant
  BY LimitsAssumption DEF TypeOK, Grant
<1> QED BY <1>1, WithGrant DEF TypeOK

\* The initial state is well typed.
LEMMA InitTypeOK == Init => TypeOK
<1>1. EmptyHost \in Host BY DEF EmptyHost, Host
<1> QED BY <1>1 DEF Init, TypeOK

\* What EnrollNew writes.
NewCert(p) == [id |-> next_id, peer |-> p, expires |-> CertExpiry]
NewHost(p, c) == [codes |-> [mem.codes EXCEPT ![c].redeemed[p] = NewCert(p)],
                  members |-> Unexpired(mem.members) \cup {NewCert(p)}]

\* The certificate EnrollNew issues, and the state that records it.
LEMMA NewFacts ==
  ASSUME TypeOK, NEW c \in Codes, NEW p \in Peers, mem.codes[c] # NoGrant,
         NEW n, n = NewHost(p, c)
  PROVE  /\ NewCert(p) \in Certificate /\ NewCert(p).peer = p
         /\ n \in Host /\ n.members = Unexpired(mem.members) \cup {NewCert(p)}
         /\ \A d \in Codes : d # c => n.codes[d] = mem.codes[d]
         /\ n.codes[c] \in Grant /\ n.codes[c] # NoGrant
         /\ n.codes[c].redeemed[p] = NewCert(p)
         /\ \A q \in Peers : q # p => n.codes[c].redeemed[q] = mem.codes[c].redeemed[q]
<1>1. NewCert(p) \in Certificate /\ NewCert(p).peer = p
  BY LimitsAssumption DEF NewCert, CertExpiry, Certificate, TypeOK
<1>2. mem.codes \in [Codes -> Grant \cup {NoGrant}] BY DEF TypeOK, Host
<1>3. mem.codes[c] \in Grant BY <1>2
<1> DEFINE g == [mem.codes[c] EXCEPT !.redeemed[p] = NewCert(p)]
<1>4. /\ g \in Grant /\ g.redeemed[p] = NewCert(p)
      /\ \A q \in Peers : q # p => g.redeemed[q] = mem.codes[c].redeemed[q]
  <2> HIDE DEF NewCert
  <2> QED BY <1>1, <1>3 DEF Grant
<1>5. n.codes = [mem.codes EXCEPT ![c] = g]
      /\ n.members = Unexpired(mem.members) \cup {NewCert(p)}
  BY DEF NewHost
<1>6. n = [codes |-> n.codes, members |-> n.members] BY DEF NewHost
<1> HIDE DEF g
<1>7. n.codes \in [Codes -> Grant \cup {NoGrant}] /\ n.codes[c] = g
      /\ \A d \in Codes : d # c => n.codes[d] = mem.codes[d]
  BY <1>2, <1>4, <1>5
<1>8. n.members \subseteq Certificate BY <1>1, <1>5 DEF Unexpired, TypeOK, Host
<1>9. n \in Host BY <1>6, <1>7, <1>8 DEF Host
<1> QED BY <1>1, <1>4, <1>5, <1>7, <1>9, NoGrantAssumption

\* Every step keeps the types.
LEMMA StepTypeOK == TypeOK /\ [Next]_vars => TypeOK'
<1> SUFFICES ASSUME TypeOK, [Next]_vars PROVE TypeOK' OBVIOUS
<1>1. ASSUME NEW c \in Codes, Issue(c) PROVE TypeOK'
  <2>1. mem' \in Host /\ disk' \in Host /\ unsynced' \subseteq Host /\ faults' \in Nat
    BY <1>1, IssueType, SaveTypes DEF Issue, TypeOK
  <2> QED BY <1>1, <2>1 DEF Issue, TypeOK
<1>2. ASSUME NEW c \in Codes, RevokeCode(c) PROVE TypeOK'
  <2>1. [mem EXCEPT !.codes[c] = NoGrant] \in Host BY WithGrant DEF TypeOK
  <2>2. mem' \in Host /\ disk' \in Host /\ unsynced' \subseteq Host /\ faults' \in Nat
    BY <1>2, <2>1, SaveTypes DEF RevokeCode, TypeOK
  <2> QED BY <1>2, <2>2 DEF RevokeCode, TypeOK
<1>3. ASSUME NEW p \in Peers, NEW c \in Codes, EnrollCached(p, c) PROVE TypeOK'
  <2>1. mem.codes[c] \in Grant BY <1>3 DEF EnrollCached, GrantUsable, Live, TypeOK, Host
  <2>2. mem.codes[c].redeemed[p] \in Certificate BY <1>3, <2>1 DEF EnrollCached, Grant
  <2>3. handed' \subseteq (Codes \X Certificate) BY <1>3, <2>2 DEF EnrollCached, TypeOK
  <2> QED BY <1>3, <2>3, RetainedFacts DEF EnrollCached, TypeOK
<1>4. ASSUME NEW p \in Peers, NEW c \in Codes, EnrollNew(p, c) PROVE TypeOK'
  <2>1. mem.codes[c] # NoGrant BY <1>4 DEF EnrollNew, GrantUsable, Live
  <2>2. NewHost(p, c) \in Host /\ NewCert(p) \in Certificate BY <2>1, NewFacts
  <2>3. /\ SaveOk(NewHost(p, c)) \/ SaveFailed(NewHost(p, c), Retained)
        /\ handed' \in {handed, handed \cup {<<c, NewCert(p)>>}}
        /\ next_id' = next_id + 1 /\ UNCHANGED <<denied, now, given, withdrawn>>
    BY <1>4 DEF EnrollNew, NewHost, NewCert
  <2>4. mem' \in Host /\ disk' \in Host /\ unsynced' \subseteq Host /\ faults' \in Nat
    BY <2>2, <2>3, SaveTypes, RetainedFacts DEF TypeOK
  <2>5. handed' \subseteq (Codes \X Certificate) BY <2>2, <2>3 DEF TypeOK
  <2> QED BY <2>3, <2>4, <2>5 DEF TypeOK
<1>5. CASE EnrollRefused BY <1>5, RetainedFacts DEF EnrollRefused, TypeOK
<1>6. CASE Prune BY <1>6, PrunedFacts DEF Prune, TypeOK
<1>7. ASSUME NEW h \in handed, Deny(h[2]) PROVE TypeOK'
  <2>1. h[2].id \in Nat BY DEF TypeOK, Certificate
  <2> QED BY <1>7, <2>1, PrunedFacts DEF Deny, TypeOK
<1>8. CASE Restart BY <1>8 DEF Restart, Stored, TypeOK
<1>9. CASE Tick BY <1>9 DEF Tick, TypeOK
<1>10. CASE UNCHANGED vars BY <1>10 DEF vars, TypeOK
<1> QED BY <1>1, <1>2, <1>3, <1>4, <1>5, <1>6, <1>7, <1>8, <1>9, <1>10 DEF Next

\* Every value the host holds in memory or storage is well formed, whatever
\* enrollments, failed saves and restarts led to it.
THEOREM TypesHold == Spec => []TypeOK
BY InitTypeOK, StepTypeOK, PTL DEF Spec

(***************************************************************************)
(* Revocation.                                                             *)
(***************************************************************************)
\* A revoked code was given out, so its id is never issued again.
RevInv == TypeOK /\ withdrawn \subseteq given /\ RevokedStaysRevoked

\* Every step preserves RevInv.
LEMMA StepRevInv == RevInv /\ [Next]_vars => RevInv'
<1> SUFFICES ASSUME RevInv, [Next]_vars PROVE RevInv' OBVIOUS
<1> USE DEF RevInv
<1>0. TypeOK' BY StepTypeOK
<1> DEFINE Gone(h, c) == h.codes[c] = NoGrant
<1>a. \A h : \A c \in Codes : c \in Live(h) <=> ~Gone(h, c) BY DEF Live
<1>b. \A c \in withdrawn : Gone(mem, c) /\ \A s \in Stored : Gone(s, c)
  BY <1>a DEF RevokedStaysRevoked, TypeOK
<1> SUFFICES /\ withdrawn' \subseteq given'
             /\ \A c \in withdrawn' : Gone(mem', c) /\ \A s \in Stored' : Gone(s, c)
  BY <1>0, <1>a DEF RevokedStaysRevoked, TypeOK
<1>s. ASSUME NEW new, NEW old, NEW c, SaveOk(new) \/ SaveFailed(new, old),
             Gone(new, c), Gone(old, c), \A s \in Stored : Gone(s, c)
      PROVE  Gone(mem', c) /\ \A s \in Stored' : Gone(s, c)
  BY <1>s DEF SaveOk, SaveFailed, Stored
<1>1. ASSUME NEW c \in Codes, Issue(c)
      PROVE  /\ withdrawn' \subseteq given'
             /\ \A d \in withdrawn' : Gone(mem', d) /\ \A s \in Stored' : Gone(s, d)
  <2> DEFINE g == [expires |-> now + CodeLifetime, redeemed |-> [p \in Peers |-> NoCert]]
             new == [mem EXCEPT !.codes[c] = g]
  <2>1. c \notin withdrawn BY <1>1 DEF Issue, Fresh
  <2>2. SaveOk(new) \/ SaveFailed(new, mem) BY <1>1 DEF Issue
  <2>3. \A d \in withdrawn : Gone(new, d) BY <2>1, <1>b DEF TypeOK, Host
  <2>4. withdrawn' = withdrawn /\ given \subseteq given' BY <1>1 DEF Issue
  <2> HIDE DEF new, Gone
  <2> QED BY <2>2, <2>3, <2>4, <1>b, <1>s
<1>2. ASSUME NEW c \in Codes, RevokeCode(c)
      PROVE  /\ withdrawn' \subseteq given'
             /\ \A d \in withdrawn' : Gone(mem', d) /\ \A s \in Stored' : Gone(s, d)
  <2> DEFINE new == [mem EXCEPT !.codes[c] = NoGrant]
  <2>1. \A d \in withdrawn \cup {c} : Gone(new, d) BY <1>b DEF TypeOK, Host
  <2>2. CASE SaveOk(new) /\ withdrawn' = withdrawn \cup {c}
    <3>1. mem' = new /\ Stored' = {new} BY <2>2 DEF SaveOk, Stored
    <3>2. withdrawn' \subseteq given' BY <1>2, <2>2 DEF RevokeCode
    <3> HIDE DEF new, Gone
    <3> QED BY <2>1, <2>2, <3>1, <3>2
  <2>3. CASE SaveFailed(new, mem) /\ withdrawn' = withdrawn
    <3>1. withdrawn' \subseteq given' BY <1>2, <2>3 DEF RevokeCode
    <3> HIDE DEF new, Gone
    <3> QED BY <2>1, <2>3, <3>1, <1>b, <1>s
  <2> QED BY <1>2, <2>2, <2>3 DEF RevokeCode
<1>3. ASSUME NEW p \in Peers, NEW c \in Codes, EnrollNew(p, c)
      PROVE  /\ withdrawn' \subseteq given'
             /\ \A d \in withdrawn' : Gone(mem', d) /\ \A s \in Stored' : Gone(s, d)
  <2> DEFINE new == NewHost(p, c)
  <2>1. mem.codes[c] # NoGrant /\ withdrawn' = withdrawn /\ given' = given
    BY <1>3 DEF EnrollNew, GrantUsable, Live
  <2>2. SaveOk(new) \/ SaveFailed(new, Retained) BY <1>3 DEF EnrollNew, NewHost, NewCert
  <2>3. \A d \in Codes : d # c => new.codes[d] = mem.codes[d] BY <2>1, NewFacts
  <2>4. \A d \in withdrawn : Gone(new, d)
    <3> HIDE DEF new
    <3> QED BY <2>1, <2>3, <1>b DEF TypeOK
  <2>5. \A d \in withdrawn : Gone(Retained, d) BY <1>b, RetainedFacts DEF TypeOK
  <2> HIDE DEF new, Gone
  <2> QED BY <2>1, <2>2, <2>4, <2>5, <1>b, <1>s
<1>4. ASSUME mem' \in {mem, Retained, Pruned}, UNCHANGED <<disk, unsynced, given, withdrawn>>
      PROVE  /\ withdrawn' \subseteq given'
             /\ \A d \in withdrawn' : Gone(mem', d) /\ \A s \in Stored' : Gone(s, d)
  <2>1. \A d \in withdrawn : Gone(mem', d)
    BY <1>4, <1>b, RetainedFacts, PrunedFacts DEF TypeOK
  <2>2. Stored' = Stored BY <1>4 DEF Stored
  <2> HIDE DEF Gone
  <2> QED BY <1>4, <1>b, <2>1, <2>2
<1>5. CASE Restart
  <2>1. mem' \in Stored /\ Stored' \subseteq Stored BY <1>5 DEF Restart, Stored
  <2> HIDE DEF Gone
  <2> QED BY <1>5, <1>b, <2>1 DEF Restart
<1>6. ASSUME NEW p \in Peers, NEW c \in Codes, EnrollCached(p, c)
      PROVE  mem' = Retained /\ UNCHANGED <<disk, unsynced, given, withdrawn>>
  BY <1>6 DEF EnrollCached
<1>7. ASSUME NEW h \in handed, Deny(h[2])
      PROVE  mem' = Pruned /\ UNCHANGED <<disk, unsynced, given, withdrawn>>
  BY <1>7 DEF Deny
<1>8. CASE EnrollRefused \/ Prune \/ Tick \/ UNCHANGED vars
  BY <1>4, <1>8 DEF EnrollRefused, Prune, Tick, vars
<1> HIDE DEF Gone
<1> QED BY <1>1, <1>2, <1>3, <1>4, <1>5, <1>6, <1>7, <1>8 DEF Next

\* revoke_code that returned Ok is final, over failed saves and restarts.
THEOREM RevocationHolds == Spec => []RevokedStaysRevoked
<1>1. Init => RevInv BY InitTypeOK DEF Init, RevInv, RevokedStaysRevoked
<1>2. RevInv => RevokedStaysRevoked BY DEF RevInv
<1> QED BY <1>1, <1>2, StepRevInv, PTL DEF Spec

(***************************************************************************)
(* Enrollment.  The invariant speaks of every host value h that is in      *)
(* memory or that a reload may return, at time t.                          *)
(***************************************************************************)
\* No grant is over its limit, and a cached certificate that has not expired
\* belongs to a member.
Good(h, t) == \A c \in Codes : h.codes[c] # NoGrant =>
    /\ Cardinality(RedeemedPeers(h.codes[c])) <= MaxUses
    /\ \A p \in Peers : h.codes[c].redeemed[p] # NoCert =>
          /\ h.codes[c].redeemed[p].peer = p
          /\ h.codes[c].redeemed[p].expires > t => h.codes[c].redeemed[p] \in h.members

\* h remembers the certificates of H that enroll returned.
Knows(h, H, t) == \A k \in H :
    /\ k[2].expires > t => k[2] \in h.members
    /\ h.codes[k[1]] # NoGrant =>
          /\ h.codes[k[1]].redeemed[k[2].peer] # NoCert
          /\ k[2].expires > t => h.codes[k[1]].redeemed[k[2].peer] = k[2]

\* h holds every redemption and every unexpired member of m: enroll may return
\* what it finds in memory without a save.
Covers(m, h, t) ==
    /\ \A x \in m.members : x.expires > t => x \in h.members
    /\ \A c \in Codes : (m.codes[c] # NoGrant /\ h.codes[c] # NoGrant) =>
          \A p \in Peers : m.codes[c].redeemed[p] # NoCert =>
             /\ h.codes[c].redeemed[p] # NoCert
             /\ m.codes[c].redeemed[p].expires > t =>
                   h.codes[c].redeemed[p] = m.codes[c].redeemed[p]

EnrollInv == /\ TypeOK
             /\ \A k \in handed : k[1] \in given
             /\ Good(mem, now) /\ Knows(mem, handed, now)
             /\ \A s \in Stored : Good(s, now) /\ Knows(s, handed, now) /\ Covers(mem, s, now)
             /\ UsesBounded
             /\ OneCertificatePerRedemption

\* Time only weakens what a host must hold.
LEMMA Later ==
  ASSUME NEW t \in Nat, NEW u \in Nat, t <= u, NEW m \in Host, NEW h \in Host,
         NEW H \in SUBSET (Codes \X Certificate)
  PROVE  /\ Good(h, t) => Good(h, u)
         /\ Knows(h, H, t) => Knows(h, H, u)
         /\ Covers(m, h, t) => Covers(m, h, u)
<1>1. \A x \in Certificate : x.expires > u => x.expires > t BY DEF Certificate
<1>2. \A c \in Codes, p \in Peers : h.codes[c] # NoGrant /\ h.codes[c].redeemed[p] # NoCert =>
         h.codes[c].redeemed[p] \in Certificate
  BY DEF Host, Grant
<1>3. \A c \in Codes, p \in Peers : m.codes[c] # NoGrant /\ m.codes[c].redeemed[p] # NoCert =>
         m.codes[c].redeemed[p] \in Certificate
  BY DEF Host, Grant
<1>4. Good(h, t) => Good(h, u) BY <1>1, <1>2 DEF Good
<1>5. Knows(h, H, t) => Knows(h, H, u)
  <2>1. \A k \in H : k[2] \in Certificate OBVIOUS
  <2> QED BY <1>1, <2>1 DEF Knows
<1>6. Covers(m, h, t) => Covers(m, h, u)
  <2>1. m.members \subseteq Certificate BY DEF Host
  <2> QED BY <1>1, <1>3, <2>1 DEF Covers
<1> QED BY <1>4, <1>5, <1>6

\* A host covers itself, and covering is kept when memory forgets.
LEMMA Forget ==
  ASSUME NEW t, NEW m, NEW n, NEW h,
         \A x \in m.members : x.expires > t => x \in n.members,
         \A x \in n.members : x \in m.members,
         \A c \in Codes : n.codes[c] # NoGrant => n.codes[c] = m.codes[c]
  PROVE  /\ Covers(m, m, t)
         /\ Covers(m, h, t) => Covers(n, h, t)
         /\ Good(m, t) => Good(n, t)
         /\ \A H : (H \subseteq (Codes \X Certificate) /\ Knows(m, H, t)) => Knows(n, H, t)
<1>1. Covers(m, m, t) BY DEF Covers
<1>2. Covers(m, h, t) => Covers(n, h, t) BY DEF Covers
<1>3. Good(m, t) => Good(n, t) BY DEF Good
<1>4. ASSUME NEW H, H \subseteq (Codes \X Certificate), Knows(m, H, t) PROVE Knows(n, H, t)
  <2>1. \A k \in H : k[1] \in Codes BY <1>4
  <2> QED BY <1>4, <2>1 DEF Knows
<1> QED BY <1>1, <1>2, <1>3, <1>4

\* A host that knows what was handed out bounds it.
LEMMA KnownBounded ==
  ASSUME NEW t, NEW h \in Host, NEW H \in SUBSET (Codes \X Certificate), NEW c \in Codes,
         h.codes[c] # NoGrant, Good(h, t), Knows(h, H, t)
  PROVE  Cardinality({k[2].peer : k \in {j \in H : j[1] = c}}) <= MaxUses
<1> DEFINE P == {k[2].peer : k \in {j \in H : j[1] = c}}
           R == RedeemedPeers(h.codes[c])
<1>1. \A k \in H : k[2].peer \in Peers BY DEF Certificate
<1>2. P \subseteq R BY <1>1 DEF Knows, RedeemedPeers
<1>3. R \subseteq Peers BY DEF RedeemedPeers
<1>4. Cardinality(R) <= MaxUses BY DEF Good
<1> HIDE DEF P, R
<1>5. IsFiniteSet(R) BY <1>3, PeersAssumption, FS_Subset
<1>6. IsFiniteSet(P) /\ Cardinality(P) <= Cardinality(R) BY <1>2, <1>5, FS_Subset
<1>7. Cardinality(P) \in Nat /\ Cardinality(R) \in Nat BY <1>5, <1>6, FS_CardinalityType
<1>8. Cardinality(P) <= MaxUses BY <1>4, <1>6, <1>7, LimitsAssumption
<1> QED BY <1>8 DEF P

\* The state that EnrollNew saves extends the one in memory.
LEMMA NewHostInv ==
  ASSUME EnrollInv, NEW p \in Peers, NEW c \in Codes, GrantUsable(c), MayRedeem(p, c),
         NEW n, n = NewHost(p, c), NEW x, x = NewCert(p)
  PROVE  /\ Good(n, now) /\ Knows(n, handed, now) /\ Covers(mem, n, now)
         /\ Knows(n, handed \cup {<<c, x>>}, now)
         /\ \A k \in handed : (k[1] = c /\ k[2].peer = p) => k[2].expires <= now
<1>0. TypeOK /\ mem \in Host /\ handed \subseteq (Codes \X Certificate) /\ now \in Nat
  BY DEF EnrollInv, TypeOK
<1>1. mem.codes[c] # NoGrant BY DEF GrantUsable, Live
<1>2. /\ x \in Certificate /\ x.peer = p
      /\ n \in Host /\ n.members = Unexpired(mem.members) \cup {x}
      /\ \A d \in Codes : d # c => n.codes[d] = mem.codes[d]
      /\ n.codes[c] \in Grant /\ n.codes[c] # NoGrant
      /\ n.codes[c].redeemed[p] = x
      /\ \A q \in Peers : q # p => n.codes[c].redeemed[q] = mem.codes[c].redeemed[q]
  BY <1>0, <1>1, NewFacts
<1>3. x # NoCert BY <1>2, AbsentAssumption
<1> DEFINE old == mem.codes[c].redeemed[p]
<1>4. old # NoCert => old \in Certificate /\ old.expires <= now
  <2>1. old # NoCert => old \in Certificate BY <1>0, <1>1 DEF Host, Grant
  <2>2. old # NoCert => now >= old.expires BY DEF MayRedeem, CachedExpired
  <2> QED BY <1>0, <2>1, <2>2 DEF Certificate
<1>5. Good(mem, now) /\ Knows(mem, handed, now) BY DEF EnrollInv
<1>6. \A k \in handed : (k[1] = c /\ k[2].peer = p) => k[2].expires <= now
  <2> SUFFICES ASSUME NEW k \in handed, k[1] = c, k[2].peer = p PROVE k[2].expires <= now
    OBVIOUS
  <2>1. old # NoCert /\ (k[2].expires > now => old = k[2]) BY <1>1, <1>5 DEF Knows
  <2>2. k[2].expires \in Nat BY <1>0 DEF Certificate
  <2> QED BY <1>0, <1>4, <2>1, <2>2 DEF Certificate
<1>7. Cardinality(RedeemedPeers(n.codes[c])) <= MaxUses
  <2> DEFINE R == RedeemedPeers(mem.codes[c])
             S == RedeemedPeers(n.codes[c])
  <2>1. S = R \cup {p} BY <1>2, <1>3 DEF RedeemedPeers
  <2>2. R \subseteq Peers /\ Cardinality(R) <= MaxUses BY <1>1, <1>5 DEF Good, RedeemedPeers
  <2>3. p \in R <=> old # NoCert BY DEF RedeemedPeers
  <2>4. old = NoCert => Cardinality(R) < MaxUses BY DEF MayRedeem
  <2> HIDE DEF R, S, old
  <2>5. IsFiniteSet(R) BY <2>2, PeersAssumption, FS_Subset
  <2>6. Cardinality(R) \in Nat BY <2>5, FS_CardinalityType
  <2>7. CASE p \in R
    <3>1. S = R BY <2>1, <2>7
    <3> QED BY <2>2, <3>1 DEF S
  <2>8. CASE p \notin R
    <3>1. Cardinality(S) = Cardinality(R) + 1 BY <2>1, <2>5, <2>8, FS_AddElement
    <3>2. Cardinality(S) <= MaxUses BY <2>3, <2>4, <2>6, <2>8, <3>1, LimitsAssumption
    <3> QED BY <3>2 DEF S
  <2> QED BY <2>7, <2>8
<1>8. \A y \in mem.members : y.expires > now => y \in n.members BY <1>2 DEF Unexpired
<1>9. Good(n, now)
  <2> SUFFICES ASSUME NEW d \in Codes, n.codes[d] # NoGrant
               PROVE  /\ Cardinality(RedeemedPeers(n.codes[d])) <= MaxUses
                      /\ \A q \in Peers : n.codes[d].redeemed[q] # NoCert =>
                            /\ n.codes[d].redeemed[q].peer = q
                            /\ n.codes[d].redeemed[q].expires > now =>
                                  n.codes[d].redeemed[q] \in n.members
    BY DEF Good
  <2>1. CASE d = c BY <1>1, <1>2, <1>5, <1>7, <1>8, <2>1 DEF Good
  <2>2. CASE d # c BY <1>2, <1>5, <1>8, <2>2 DEF Good
  <2> QED BY <2>1, <2>2
<1>10. Covers(mem, n, now)
  <2> SUFFICES ASSUME NEW d \in Codes, mem.codes[d] # NoGrant, n.codes[d] # NoGrant,
                      NEW q \in Peers, mem.codes[d].redeemed[q] # NoCert
               PROVE  /\ n.codes[d].redeemed[q] # NoCert
                      /\ mem.codes[d].redeemed[q].expires > now =>
                            n.codes[d].redeemed[q] = mem.codes[d].redeemed[q]
    BY <1>8 DEF Covers
  <2>1. CASE d = c /\ q = p BY <1>0, <1>2, <1>3, <1>4, <2>1 DEF Certificate
  <2>2. CASE ~(d = c /\ q = p) BY <1>2, <2>2
  <2> QED BY <2>1, <2>2
<1>11. Knows(n, handed, now)
  <2> SUFFICES ASSUME NEW k \in handed
               PROVE  /\ k[2].expires > now => k[2] \in n.members
                      /\ n.codes[k[1]] # NoGrant =>
                            /\ n.codes[k[1]].redeemed[k[2].peer] # NoCert
                            /\ k[2].expires > now =>
                                  n.codes[k[1]].redeemed[k[2].peer] = k[2]
    BY DEF Knows
  <2>1. k[1] \in Codes /\ k[2].peer \in Peers /\ k[2].expires \in Nat BY <1>0 DEF Certificate
  <2>2. k[2].expires > now => k[2] \in n.members BY <1>5, <1>8 DEF Knows
  <2>3. CASE k[1] = c /\ k[2].peer = p BY <1>0, <1>2, <1>3, <1>6, <2>1, <2>2, <2>3
  <2>4. CASE ~(k[1] = c /\ k[2].peer = p)
    <3>1. mem.codes[k[1]] # NoGrant =>
             /\ mem.codes[k[1]].redeemed[k[2].peer] # NoCert
             /\ k[2].expires > now => mem.codes[k[1]].redeemed[k[2].peer] = k[2]
      BY <1>5 DEF Knows
    <3>2. CASE k[1] # c
      <4>1. n.codes[k[1]] = mem.codes[k[1]] BY <1>2, <2>1, <3>2
      <4> QED BY <2>2, <3>1, <4>1
    <3>3. CASE k[1] = c
      <4>1. n.codes[c].redeemed[k[2].peer] = mem.codes[c].redeemed[k[2].peer]
        BY <1>2, <2>1, <2>4, <3>3
      <4> QED BY <1>1, <2>2, <3>1, <3>3, <4>1
    <3> QED BY <3>2, <3>3
  <2> QED BY <2>3, <2>4
<1>12. Knows(n, handed \cup {<<c, x>>}, now)
  BY <1>2, <1>3, <1>11 DEF Knows
<1> QED BY <1>6, <1>9, <1>10, <1>11, <1>12

\* Issuing or revoking a code leaves every redemption and member in place.
LEMMA OtherHostInv ==
  ASSUME EnrollInv, NEW c \in Codes, NEW g \in Grant \cup {NoGrant},
         NEW n, n = [mem EXCEPT !.codes[c] = g],
         \/ g = NoGrant
         \/ /\ \A p \in Peers : g.redeemed[p] = NoCert
            /\ c \notin given /\ mem.codes[c] = NoGrant
  PROVE  n \in Host /\ Good(n, now) /\ Knows(n, handed, now) /\ Covers(mem, n, now)
<1>0. mem \in Host /\ handed \subseteq (Codes \X Certificate) BY DEF EnrollInv, TypeOK
<1>1. /\ n \in Host /\ n.members = mem.members /\ n.codes[c] = g
      /\ \A d \in Codes : d # c => n.codes[d] = mem.codes[d]
  BY <1>0 DEF Host
<1>2. Good(mem, now) /\ Knows(mem, handed, now) /\ \A k \in handed : k[1] \in given
  BY DEF EnrollInv
<1>3. g # NoGrant => Cardinality(RedeemedPeers(g)) <= MaxUses
  <2> SUFFICES ASSUME g # NoGrant PROVE Cardinality(RedeemedPeers(g)) <= MaxUses OBVIOUS
  <2>1. RedeemedPeers(g) = {} BY DEF RedeemedPeers
  <2>2. Cardinality(RedeemedPeers(g)) = 0 BY <2>1, FS_EmptySet
  <2> QED BY <2>2, LimitsAssumption
<1>4. Good(n, now) BY <1>1, <1>2, <1>3 DEF Good
<1>5. Covers(mem, n, now)
  <2>1. ASSUME NEW d \in Codes, mem.codes[d] # NoGrant, n.codes[d] # NoGrant
        PROVE  n.codes[d] = mem.codes[d]
    BY <1>1, <2>1
  <2> QED BY <1>1, <2>1 DEF Covers
<1>6. Knows(n, handed, now)
  <2>1. ASSUME NEW k \in handed, n.codes[k[1]] # NoGrant
        PROVE  n.codes[k[1]] = mem.codes[k[1]]
    <3>1. k[1] \in Codes /\ k[1] \in given BY <1>0, <1>2
    <3> QED BY <1>1, <2>1, <3>1
  <2> QED BY <1>1, <1>2, <2>1 DEF Knows
<1> QED BY <1>1, <1>4, <1>5, <1>6

\* What a host must hold for one more returned certificate.
LEMMA KnowsOneMore ==
  ASSUME NEW t, NEW h, NEW H, NEW c, NEW x, Knows(h, H, t), x # NoCert, x \in h.members,
         h.codes[c] # NoGrant => h.codes[c].redeemed[x.peer] = x
  PROVE  Knows(h, H \cup {<<c, x>>}, t)
BY DEF Knows

\* Every step preserves EnrollInv.
LEMMA StepEnrollInv == LoadSettles /\ EnrollInv /\ [Next]_vars => EnrollInv'
<1> SUFFICES ASSUME LoadSettles, EnrollInv, [Next]_vars PROVE EnrollInv' OBVIOUS
<1>0. TypeOK /\ TypeOK' BY StepTypeOK DEF EnrollInv
<1>t. mem \in Host /\ now \in Nat /\ handed \subseteq (Codes \X Certificate)
      /\ mem' \in Host /\ handed' \subseteq (Codes \X Certificate)
  BY <1>0 DEF TypeOK
<1>i. /\ \A k \in handed : k[1] \in given
      /\ Good(mem, now) /\ Knows(mem, handed, now)
      /\ \A s \in Stored : Good(s, now) /\ Knows(s, handed, now) /\ Covers(mem, s, now)
      /\ UsesBounded /\ OneCertificatePerRedemption
  BY DEF EnrollInv
<1>r. ASSUME NEW n \in {Retained, Pruned}
      PROVE  /\ Good(n, now) /\ Knows(n, handed, now)
             /\ \A s : Covers(mem, s, now) => Covers(n, s, now)
  <2>1. /\ \A x \in mem.members : x.expires > now => x \in n.members
        /\ \A x \in n.members : x \in mem.members
        /\ \A c \in Codes : n.codes[c] # NoGrant => n.codes[c] = mem.codes[c]
    BY <1>t, RetainedFacts, PrunedFacts DEF Unexpired
  <2> QED BY <1>i, <1>t, <2>1, Forget
\* What a save leaves behind.
<1>s. ASSUME NEW new, NEW old, SaveOk(new) \/ SaveFailed(new, old), UNCHANGED <<now, handed>>,
             Good(new, now), Knows(new, handed, now), Covers(old, new, now),
             Good(old, now), Knows(old, handed, now), \A s \in Stored : Covers(old, s, now)
      PROVE  /\ Good(mem', now') /\ Knows(mem', handed', now')
             /\ \A s \in Stored' : Good(s, now') /\ Knows(s, handed', now')
                                    /\ Covers(mem', s, now')
  <2>1. CASE SaveOk(new)
    <3>1. mem' = new /\ Stored' = {new} BY <2>1 DEF SaveOk, Stored
    <3>2. Covers(new, new, now) BY Forget
    <3> QED BY <1>s, <3>1, <3>2
  <2>2. CASE SaveFailed(new, old)
    <3>1. mem' = old /\ Stored' \subseteq Stored \cup {new} BY <2>2 DEF SaveFailed, Stored
    <3> QED BY <1>s, <1>i, <3>1
  <2> QED BY <1>s, <2>1, <2>2
\* Steps that return no certificate.
<1>q. ASSUME handed' = handed, now' \in Nat, now <= now', given \subseteq given',
             /\ Good(mem', now') /\ Knows(mem', handed', now')
             /\ \A s \in Stored' : Good(s, now') /\ Knows(s, handed', now')
                                    /\ Covers(mem', s, now')
      PROVE  EnrollInv'
  <2>1. UsesBounded' BY <1>q, <1>i DEF UsesBounded, HandedPeers
  <2>2. OneCertificatePerRedemption'
    <3>1. \A k \in handed : k[2].expires \in Nat BY <1>t DEF Certificate
    <3> QED BY <1>q, <1>i, <1>t, <3>1 DEF OneCertificatePerRedemption
  <2> QED BY <1>0, <1>q, <1>i, <2>1, <2>2 DEF EnrollInv
\* Steps that return certificate x of code c to its peer.
<1>h. ASSUME NEW c \in Codes, NEW x \in Certificate, handed' = handed \cup {<<c, x>>},
             now' = now, given' = given, c \in given, mem'.codes[c] # NoGrant,
             \A k \in handed : (k[1] = c /\ k[2].peer = x.peer) =>
                k[2].expires <= now \/ k[2] = x,
             /\ Good(mem', now') /\ Knows(mem', handed', now')
             /\ \A s \in Stored' : Good(s, now') /\ Knows(s, handed', now')
                                    /\ Covers(mem', s, now')
      PROVE  EnrollInv'
  <2>1. UsesBounded'
    <3> SUFFICES ASSUME NEW d \in Codes PROVE Cardinality(HandedPeers(d)') <= MaxUses
      BY DEF UsesBounded
    <3>1. CASE d = c
      <4>1. Cardinality({k[2].peer : k \in {j \in handed' : j[1] = c}}) <= MaxUses
        BY <1>h, <1>t, KnownBounded
      <4> QED BY <3>1, <4>1 DEF HandedPeers
    <3>2. CASE d # c
      <4>1. HandedPeers(d)' = HandedPeers(d) BY <1>h, <3>2 DEF HandedPeers
      <4> QED BY <1>i, <4>1 DEF UsesBounded
    <3> QED BY <3>1, <3>2
  <2>2. OneCertificatePerRedemption'
    BY <1>h, <1>i DEF OneCertificatePerRedemption
  <2>3. \A k \in handed' : k[1] \in given' BY <1>h, <1>i
  <2> QED BY <1>0, <1>h, <2>1, <2>2, <2>3 DEF EnrollInv
<1>1. ASSUME NEW c \in Codes, Issue(c) PROVE EnrollInv'
  <2> DEFINE g == [expires |-> now + CodeLifetime, redeemed |-> [p \in Peers |-> NoCert]]
             new == [mem EXCEPT !.codes[c] = g]
  <2>1. g \in Grant BY <1>0, LimitsAssumption DEF Grant, TypeOK
  <2>2. \A p \in Peers : g.redeemed[p] = NoCert OBVIOUS
  <2>3. c \notin given /\ mem.codes[c] = NoGrant BY <1>1 DEF Issue, Fresh, Live
  <2>4. /\ SaveOk(new) \/ SaveFailed(new, mem)
        /\ UNCHANGED <<now, handed>> /\ given \subseteq given'
    BY <1>1 DEF Issue
  <2>5. new = [mem EXCEPT !.codes[c] = g] OBVIOUS
  <2> HIDE DEF g, new
  <2>6. Good(new, now) /\ Knows(new, handed, now) /\ Covers(mem, new, now)
    BY <2>1, <2>2, <2>3, <2>5, OtherHostInv
  <2>7. /\ Good(mem', now') /\ Knows(mem', handed', now')
        /\ \A s \in Stored' : Good(s, now') /\ Knows(s, handed', now') /\ Covers(mem', s, now')
    BY <2>4, <2>6, <1>i, <1>s
  <2> QED BY <1>t, <1>q, <2>4, <2>7
<1>2. ASSUME NEW c \in Codes, RevokeCode(c) PROVE EnrollInv'
  <2> DEFINE new == [mem EXCEPT !.codes[c] = NoGrant]
  <2>1. /\ SaveOk(new) \/ SaveFailed(new, mem)
        /\ UNCHANGED <<now, handed, given>>
    BY <1>2 DEF RevokeCode
  <2>2. new = [mem EXCEPT !.codes[c] = NoGrant] OBVIOUS
  <2> HIDE DEF new
  <2>3. Good(new, now) /\ Knows(new, handed, now) /\ Covers(mem, new, now)
    BY <2>2, OtherHostInv
  <2>4. /\ Good(mem', now') /\ Knows(mem', handed', now')
        /\ \A s \in Stored' : Good(s, now') /\ Knows(s, handed', now') /\ Covers(mem', s, now')
    BY <2>1, <2>3, <1>i, <1>s
  <2> QED BY <1>t, <1>q, <2>1, <2>4
<1>3. ASSUME NEW p \in Peers, NEW c \in Codes, EnrollCached(p, c) PROVE EnrollInv'
  <2> DEFINE x == mem.codes[c].redeemed[p]
  <2>1. /\ c \in given /\ mem.codes[c] # NoGrant /\ x # NoCert /\ now < x.expires
        /\ handed' = handed \cup {<<c, x>>} /\ mem' = Retained
        /\ UNCHANGED <<now, given>> /\ Stored' = Stored
    BY <1>3 DEF EnrollCached, GrantUsable, CachedUsable, Live, Stored
  <2>2. x \in Certificate BY <1>t, <2>1 DEF Host, Grant
  <2>3. x.expires > now BY <1>t, <2>1, <2>2 DEF Certificate
  <2>4. x.peer = p /\ x \in mem.members BY <1>i, <2>1, <2>3 DEF Good
  <2>5. /\ mem'.codes[c] # NoGrant /\ mem'.codes[c].redeemed[p] = x
        /\ x \in mem'.members
    BY <1>t, <2>1, <2>3, <2>4, RetainedFacts DEF Unexpired
  <2>6. Good(mem', now) /\ Knows(mem', handed, now) /\ \A s \in Stored : Covers(mem', s, now)
    BY <1>r, <1>i, <2>1
  <2>7. \A s \in Stored : x \in s.members /\ (s.codes[c] # NoGrant => s.codes[c].redeemed[p] = x)
    BY <1>i, <2>1, <2>3, <2>4 DEF Covers
  <2>8. \A k \in handed : (k[1] = c /\ k[2].peer = x.peer) => k[2].expires <= now \/ k[2] = x
    <3> SUFFICES ASSUME NEW k \in handed, k[1] = c, k[2].peer = x.peer
                 PROVE  k[2].expires <= now \/ k[2] = x
      OBVIOUS
    <3>1. k[2].expires > now => x = k[2] BY <1>i, <2>1, <2>4 DEF Knows
    <3>2. k[2].expires \in Nat BY <1>t DEF Certificate
    <3> QED BY <1>t, <3>1, <3>2
  <2> HIDE DEF x
  <2>9. Knows(mem', handed', now) /\ \A s \in Stored : Knows(s, handed', now)
    <3>1. Knows(mem', handed', now) BY <2>1, <2>4, <2>5, <2>6, KnowsOneMore
    <3>2. \A s \in Stored : Knows(s, handed', now) BY <1>i, <2>1, <2>4, <2>7, KnowsOneMore
    <3> QED BY <3>1, <3>2
  <2> QED BY <1>h, <1>i, <2>1, <2>2, <2>5, <2>6, <2>8, <2>9
<1>4. ASSUME NEW p \in Peers, NEW c \in Codes, EnrollNew(p, c) PROVE EnrollInv'
  <2> DEFINE new == NewHost(p, c)
             x == NewCert(p)
  <2>1. /\ c \in given /\ GrantUsable(c) /\ MayRedeem(p, c) /\ mem.codes[c] # NoGrant
        /\ \/ SaveOk(new) /\ handed' = handed \cup {<<c, x>>}
           \/ SaveFailed(new, Retained) /\ handed' = handed
        /\ UNCHANGED <<now, given>>
    BY <1>4 DEF EnrollNew, NewHost, NewCert, GrantUsable, Live
  <2>2. /\ Good(new, now) /\ Knows(new, handed, now) /\ Covers(mem, new, now)
        /\ Knows(new, handed \cup {<<c, x>>}, now)
        /\ \A k \in handed : (k[1] = c /\ k[2].peer = p) => k[2].expires <= now
    BY <2>1, NewHostInv
  <2>3. x \in Certificate /\ x.peer = p /\ new.codes[c] # NoGrant BY <1>0, <2>1, NewFacts
  <2> HIDE DEF new, x
  <2>4. CASE SaveOk(new) /\ handed' = handed \cup {<<c, x>>}
    <3>1. mem' = new /\ Stored' = {new} BY <2>4 DEF SaveOk, Stored
    <3>2. Covers(new, new, now) BY Forget
    <3> QED BY <1>h, <2>1, <2>2, <2>3, <2>4, <3>1, <3>2
  <2>5. CASE SaveFailed(new, Retained) /\ handed' = handed
    <3>1. /\ Good(mem', now') /\ Knows(mem', handed', now')
          /\ \A s \in Stored' : Good(s, now') /\ Knows(s, handed', now') /\ Covers(mem', s, now')
      BY <1>i, <1>r, <1>s, <2>1, <2>2, <2>5
    <3> QED BY <1>t, <1>q, <2>1, <2>5, <3>1
  <2> QED BY <2>1, <2>4, <2>5
<1>5. ASSUME mem' \in {Retained, Pruned}, UNCHANGED <<disk, unsynced, now, given, handed>>
      PROVE  EnrollInv'
  <2>1. Stored' = Stored BY <1>5 DEF Stored
  <2> QED BY <1>5, <1>i, <1>t, <1>r, <1>q, <2>1
<1>6. ASSUME NEW k \in handed, Deny(k[2]) PROVE EnrollInv' BY <1>5, <1>6 DEF Deny
<1>7. CASE EnrollRefused \/ Prune BY <1>5, <1>7 DEF EnrollRefused, Prune
<1>8. CASE Restart
  <2>1. mem' \in Stored /\ Stored' = {mem'} /\ UNCHANGED <<now, given, handed>>
    BY <1>8 DEF Restart, Stored
  <2>2. Covers(mem', mem', now) BY Forget
  <2> QED BY <1>t, <1>i, <1>q, <2>1, <2>2
<1>9. CASE Tick
  <2>1. Stored' = Stored /\ mem' = mem /\ UNCHANGED <<given, handed>> BY <1>9 DEF Tick, Stored
  <2>2. now' \in Nat /\ now <= now' BY <1>9, <1>t DEF Tick
  <2>3. \A s \in Stored : s \in Host BY <1>0 DEF Stored, TypeOK
  <2>4. /\ Good(mem, now') /\ Knows(mem, handed, now')
        /\ \A s \in Stored : Good(s, now') /\ Knows(s, handed, now') /\ Covers(mem, s, now')
    BY <1>t, <1>i, <2>2, <2>3, Later
  <2> QED BY <1>q, <2>1, <2>2, <2>4
<1>10. CASE UNCHANGED vars
  <2>1. Stored' = Stored BY <1>10 DEF vars, Stored
  <2> QED BY <1>10, <1>t, <1>i, <1>q, <2>1 DEF vars
<1> QED BY <1>1, <1>2, <1>3, <1>4, <1>6, <1>7, <1>8, <1>9, <1>10 DEF Next

\* The invariant of enrollment holds when what load() returned stays stored.
THEOREM EnrollmentInvariant == LoadSettles /\ Spec => []EnrollInv
<1>1. Init => EnrollInv
  <2> SUFFICES ASSUME Init PROVE EnrollInv OBVIOUS
  <2>1. TypeOK /\ mem = EmptyHost /\ Stored = {EmptyHost} /\ handed = {}
    BY InitTypeOK DEF Init, Stored
  <2>2. \A c \in Codes : EmptyHost.codes[c] = NoGrant BY DEF EmptyHost
  <2>3. EmptyHost.members = {} BY DEF EmptyHost
  <2>4. Good(EmptyHost, now) /\ Knows(EmptyHost, {}, now) /\ Covers(EmptyHost, EmptyHost, now)
    BY <2>2, <2>3 DEF Good, Knows, Covers
  <2>5. UsesBounded
    <3>1. \A c \in Codes : HandedPeers(c) = {} BY <2>1 DEF HandedPeers
    <3>2. \A c \in Codes : Cardinality(HandedPeers(c)) = 0 BY <3>1, FS_EmptySet
    <3> QED BY <3>2, LimitsAssumption DEF UsesBounded
  <2>6. OneCertificatePerRedemption BY <2>1 DEF OneCertificatePerRedemption
  <2> QED BY <2>1, <2>4, <2>5, <2>6 DEF EnrollInv
<1> SUFFICES ASSUME LoadSettles PROVE Spec => []EnrollInv OBVIOUS
<1>2. EnrollInv /\ [Next]_vars => EnrollInv' BY StepEnrollInv
<1> QED BY <1>1, <1>2, PTL DEF Spec

\* A code admits at most max_uses identities, over any number of failed saves
\* and restarts.
THEOREM UsesHold == LoadSettles /\ Spec => []UsesBounded
<1>1. EnrollInv => UsesBounded BY DEF EnrollInv
<1> QED BY <1>1, EnrollmentInvariant, PTL

\* An unexpired certificate that enroll returned is a recorded membership, in
\* memory and in whatever a restart loads.
THEOREM MembershipHolds == LoadSettles /\ Spec => []HandedAreMembers
<1>1. EnrollInv => HandedAreMembers BY DEF EnrollInv, Knows, HandedAreMembers
<1> QED BY <1>1, EnrollmentInvariant, PTL

\* No identity holds two certificates of one code that are valid together.
THEOREM RedemptionHolds == LoadSettles /\ Spec => []OneCertificatePerRedemption
<1>1. EnrollInv => OneCertificatePerRedemption BY DEF EnrollInv
<1> QED BY <1>1, EnrollmentInvariant, PTL

\* The step relation of DeniedGrantClosed, for code c and peer p.
ClosedTo(c, p) ==
    (c \in Live(mem) /\ mem.codes[c].redeemed[p] # NoCert
       /\ mem.codes[c].redeemed[p].id \in denied /\ denied \subseteq denied') =>
    /\ c \in Live(mem') => mem'.codes[c].redeemed[p] = mem.codes[c].redeemed[p]
    /\ \A h \in handed' \ handed : ~(h[1] = c /\ h[2].peer = p)

\* No step replaces or returns a denied redemption.
LEMMA StepClosed == EnrollInv /\ [Next]_vars => \A c \in Codes, p \in Peers : ClosedTo(c, p)
<1> SUFFICES ASSUME EnrollInv, [Next]_vars, NEW c \in Codes, NEW p \in Peers,
                    mem.codes[c] # NoGrant, mem.codes[c].redeemed[p] # NoCert,
                    mem.codes[c].redeemed[p].id \in denied, denied \subseteq denied'
             PROVE  /\ mem'.codes[c] # NoGrant =>
                           mem'.codes[c].redeemed[p] = mem.codes[c].redeemed[p]
                    /\ \A h \in handed' \ handed : ~(h[1] = c /\ h[2].peer = p)
  BY DEF ClosedTo, Live
<1>t. TypeOK /\ mem \in Host /\ Good(mem, now) BY DEF EnrollInv, TypeOK
<1>1. ASSUME mem' \in {mem, Retained, Pruned}
      PROVE  mem'.codes[c] # NoGrant => mem'.codes[c].redeemed[p] = mem.codes[c].redeemed[p]
  BY <1>1, <1>t, RetainedFacts, PrunedFacts
<1>2. ASSUME NEW d \in Codes, Issue(d) \/ RevokeCode(d)
      PROVE  /\ mem'.codes[c] # NoGrant =>
                    mem'.codes[c].redeemed[p] = mem.codes[c].redeemed[p]
             /\ handed' = handed
  <2>1. CASE Issue(d)
    <3>1. d # c BY <2>1 DEF Issue, Fresh, Live
    <3>2. mem'.codes[c] = mem.codes[c]
      BY <1>t, <2>1, <3>1 DEF Issue, SaveOk, SaveFailed, Host
    <3> QED BY <2>1, <3>2 DEF Issue
  <2>2. CASE RevokeCode(d)
    <3>1. mem'.codes[c] \in {NoGrant, mem.codes[c]}
      BY <1>t, <2>2 DEF RevokeCode, SaveOk, SaveFailed, Host
    <3> QED BY <2>2, <3>1 DEF RevokeCode
  <2> QED BY <1>2, <2>1, <2>2
<1>3. ASSUME NEW q \in Peers, NEW d \in Codes, EnrollCached(q, d)
      PROVE  /\ mem' = Retained
             /\ \A h \in handed' \ handed : ~(h[1] = c /\ h[2].peer = p)
  <2>1. ~(d = c /\ q = p) BY <1>3 DEF EnrollCached, CachedUsable
  <2>2. mem.codes[d] # NoGrant /\ mem.codes[d].redeemed[q] # NoCert
        /\ handed' = handed \cup {<<d, mem.codes[d].redeemed[q]>>} /\ mem' = Retained
    BY <1>3 DEF EnrollCached, GrantUsable, Live
  <2>3. mem.codes[d].redeemed[q].peer = q BY <1>t, <2>2 DEF Good
  <2> QED BY <2>1, <2>2, <2>3
<1>4. ASSUME NEW q \in Peers, NEW d \in Codes, EnrollNew(q, d)
      PROVE  /\ mem'.codes[c] # NoGrant =>
                    mem'.codes[c].redeemed[p] = mem.codes[c].redeemed[p]
             /\ \A h \in handed' \ handed : ~(h[1] = c /\ h[2].peer = p)
  <2>1. mem.codes[d] # NoGrant BY <1>4 DEF EnrollNew, GrantUsable, Live
  <2>2. ~(d = c /\ q = p)
    <3>1. MayRedeem(q, d) BY <1>4 DEF EnrollNew
    <3> QED BY <3>1 DEF MayRedeem, CachedExpired
  <2> DEFINE new == NewHost(q, d)
             x == NewCert(q)
  <2>3. /\ SaveOk(new) \/ SaveFailed(new, Retained)
        /\ handed' \in {handed, handed \cup {<<d, x>>}}
    BY <1>4 DEF EnrollNew, NewHost, NewCert
  <2>4. /\ x.peer = q
        /\ \A e \in Codes : e # d => new.codes[e] = mem.codes[e]
        /\ \A r \in Peers : r # q => new.codes[d].redeemed[r] = mem.codes[d].redeemed[r]
    BY <1>t, <2>1, NewFacts
  <2> HIDE DEF new, x
  <2>5. mem' \in {new, Retained} BY <2>3 DEF SaveOk, SaveFailed
  <2>6. new.codes[c].redeemed[p] = mem.codes[c].redeemed[p] BY <2>2, <2>4
  <2>7. \A h \in handed' \ handed : ~(h[1] = c /\ h[2].peer = p) BY <2>2, <2>3, <2>4
  <2> QED BY <1>1, <2>5, <2>6, <2>7
<1>5. CASE EnrollRefused \/ Prune \/ (\E h \in handed : Deny(h[2]))
  <2>1. mem' \in {Retained, Pruned} /\ handed' = handed BY <1>5 DEF EnrollRefused, Prune, Deny
  <2> QED BY <1>1, <2>1
<1>6. CASE Restart BY <1>6 DEF Restart
<1>7. CASE Tick \/ UNCHANGED vars
  <2>1. mem' = mem /\ handed' = handed BY <1>7 DEF Tick, vars
  <2> QED BY <2>1
<1> QED BY <1>1, <1>2, <1>3, <1>4, <1>5, <1>6, <1>7 DEF Next

\* A code stays closed to a peer whose redemption was denied.
THEOREM DenialHolds == LoadSettles /\ Spec => DeniedGrantClosed
<1>1. EnrollInv /\ [Next]_vars => [\A c \in Codes, p \in Peers : ClosedTo(c, p)]_vars
  BY StepClosed
<1>2. DeniedGrantClosed <=> [][\A c \in Codes, p \in Peers : ClosedTo(c, p)]_vars
  BY PTL DEF DeniedGrantClosed, ClosedTo
<1> QED BY <1>1, <1>2, EnrollmentInvariant, PTL DEF Spec
============================================================================
