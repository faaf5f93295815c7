---------------------------- MODULE Broker_proofs ----------------------------
(***************************************************************************)
(* Proofs about the broker's authority, for any number of clients, targets  *)
(* and registrations.                                                       *)
(*                                                                          *)
(* A public method of the broker is a chain of internal ones, so the        *)
(* invariant is a predicate of a broker value, Good(s).  Each internal      *)
(* operator is shown to keep it once, and a method keeps it as the chain it *)
(* is.  Follows, Steady and Safe say how a value follows another, and such  *)
(* steps compose.                                                           *)
(***************************************************************************)
EXTENDS BrokerRuns, FiniteSetTheorems, TLAPS

-----------------------------------------------------------------------------
(* The inductive invariant. *)

Fields == {"principals", "retired", "grants", "revisions", "consent", "usage", "proposals",
           "registrations", "pending", "targets", "forgotten", "runs", "requests", "starts",
           "global", "undelivered", "detached", "minted"}
TargetFields == {"generation", "active", "epoch", "writer"}
RegistrationFields == {"connection", "local", "id", "revision", "enrollment", "target", "review",
                       "decision", "consent"}
GrantFields == {"connection", "slot", "epoch", "controls", "sources", "bindings", "invoke", "results",
                "handoffs", "expires", "usage"}
MintKinds == {"approval", "grant", "ownership", "registration", "run", "request"}
Slots == {Ordinary, Metadata} \cup {Enrollment(i, e) : i \in Nat, e \in Nat}

\* The types of a broker value.
Shape(s) ==
    /\ DOMAIN s = Fields
    /\ s.principals \subseteq Connections /\ s.retired \subseteq Connections
    /\ s.revisions \in [Connections -> [SlotKinds -> Nat]]
    /\ s.proposals \in [Connections -> 0 .. ProposalsPerConnection]
    /\ DOMAIN s.consent = Connections /\ DOMAIN s.usage = Connections
    /\ s.minted \in [MintKinds -> Nat]

TargetsOK(s) ==
    /\ DOMAIN s.targets \subseteq Sessions /\ s.forgotten \in 0 .. MaxGeneration
    /\ \A x \in DOMAIN s.targets :
          /\ DOMAIN s.targets[x] = TargetFields
          /\ s.targets[x].generation \in 1 .. MaxGeneration /\ s.targets[x].active \in BOOLEAN

GrantsOK(s) ==
    /\ IsFiniteSet(s.grants)
    /\ \A g \in s.grants : /\ DOMAIN g = GrantFields
                           /\ g.connection \in Connections /\ g.slot \in Slots
                           /\ g.slot[1] = "Enrollment" => g.controls = {}
    /\ \A g, h \in s.grants : g.connection = h.connection /\ g.slot = h.slot => g = h

\* Ids grow: an association is as old as its registration's last revision.
RegistrationsOK(s) ==
    /\ \A r \in s.registrations :
          /\ DOMAIN r = RegistrationFields /\ r.connection \in Connections
          /\ r.id \in Nat /\ r.revision \in Nat /\ r.enrollment \in Nat
          /\ r.id <= s.minted.registration /\ r.revision <= s.minted.registration
          /\ r.enrollment <= r.revision
    /\ \A r, q \in s.registrations : r.id = q.id => r = q

\* GrantsNameLiveThings, of any broker value.
LiveOK(s) ==
    \A g \in s.grants :
        /\ g.connection \in s.principals
        /\ GrantTargets(g) \subseteq Current(s)
        /\ g.slot[1] = "Enrollment" => \E r \in Enrolled(s, g.connection, g.slot) : g.sources = {r.target}

\* PendingIsCurrent, with the reason: the revisions recorded are those of now.
PendingOK(s) ==
    \A p \in s.pending :
        /\ p.connection \in s.principals
        /\ p.revisions = s.revisions[p.connection]
        /\ p.seen = {g.epoch : g \in GrantsOf(s, p.connection)}
        /\ GrantTargets(p) \subseteq Current(s)

\* LiveGrantsAreConsented, of any broker value.
ConsentOK(s) ==
    \A o \in s.grants : o.slot = Ordinary /\ o.controls # {} =>
        /\ \A m \in SlotGrants(s, o.connection, Metadata) :
              s.consent[o.connection] = {<<o.epoch, m.epoch>>} /\ ValidateCrossClosure(o, m.sources)
        /\ \A r \in {x \in s.registrations : x.connection = o.connection} :
              \A m \in SlotGrants(s, o.connection, Enrollment(r.id, r.enrollment)) :
                  /\ r.consent = {[ordinary |-> o.epoch, metadata |-> m.epoch, sinks |-> o.controls]}
                  /\ ValidateCrossClosure(o, m.sources)

\* What x, a review or a decision, saw of the client's ordinary grant is what
\* the client holds, as long as the slot's revision has not moved.
Saw(s, c, x) ==
    /\ x.revision \in Nat /\ x.revision <= s.revisions[c]["Ordinary"]
    /\ x.revision = s.revisions[c]["Ordinary"] =>
          x.seen = {g.epoch : g \in SlotGrants(s, c, Ordinary)}

DecisionsOK(s) ==
    \A r \in s.registrations :
        /\ \A d, e \in r.decision : d = e
        /\ \A d \in r.decision : Saw(s, r.connection, d)

Good(s) ==
    /\ Shape(s) /\ TargetsOK(s) /\ GrantsOK(s) /\ RegistrationsOK(s)
    /\ LiveOK(s) /\ PendingOK(s) /\ ConsentOK(s) /\ DecisionsOK(s)

\* A closed reference is older than the attachment or the high-water mark.
ClosedOK(s, refs) ==
    \A ref \in refs :
        /\ ref \in Refs
        /\ IF ref.session \in DOMAIN s.targets
           THEN /\ ref.generation <= s.targets[ref.session].generation
                /\ s.targets[ref.session].active => ref.generation # s.targets[ref.session].generation
           ELSE ref.generation <= s.forgotten

\* A candidate is no newer than its registration, and newer than the
\* association of it; a review knows its client and what it saw.
CandidateOK(s, t) ==
    /\ t.id \in Nat /\ t.id <= s.minted.registration /\ t.revision \in Nat
    /\ \A r \in s.registrations : r.id = t.id =>
          t.revision <= r.revision /\ (t.revision = r.revision => r.enrollment < r.revision)

ReviewOK(s, t) ==
    /\ t.id \in Nat /\ t.id <= s.minted.registration
    /\ t.connection \in Connections /\ Saw(s, t.connection, t)
    /\ \A r \in s.registrations : r.id = t.id => r.connection = t.connection

TokensOK(s, ts) ==
    \A t \in ts : (t.kind = "enroll" => CandidateOK(s, t)) /\ (t.kind = "review" => ReviewOK(s, t))

BrokerInv ==
    /\ now \in 0 .. MaxTime
    /\ Good(b) /\ ClosedOK(b, closed) /\ TokensOK(b, tokens)

-----------------------------------------------------------------------------
(* What the internal operators change. *)

\* The two values differ in runs, requests, delivery and leases at most.
SameAuthority(n, s) ==
    /\ DOMAIN n = Fields
    /\ n.principals = s.principals /\ n.retired = s.retired /\ n.grants = s.grants
    /\ n.revisions = s.revisions /\ n.consent = s.consent /\ n.proposals = s.proposals
    /\ n.registrations = s.registrations /\ n.pending = s.pending
    /\ n.forgotten = s.forgotten /\ n.minted = s.minted /\ DOMAIN n.usage = DOMAIN s.usage
    /\ n.starts = s.starts

\* The targets differ in their owners at most, and in their leases at most.
SameReferences(n, s) ==
    /\ DOMAIN n.targets = DOMAIN s.targets
    /\ \A x \in DOMAIN s.targets :
          /\ DOMAIN n.targets[x] = TargetFields
          /\ n.targets[x].generation = s.targets[x].generation
          /\ n.targets[x].active = s.targets[x].active

SameTargets(n, s) ==
    /\ SameReferences(n, s)
    /\ \A x \in DOMAIN s.targets : n.targets[x].epoch = s.targets[x].epoch

\* The current references are a function of generations and activity.
LEMMA CurrentDependsOnTargets ==
    ASSUME NEW s, NEW n, SameReferences(n, s) PROVE Current(n) = Current(s)
BY DEF SameReferences, Current, Ref

\* cut ends runs and their leases and leaves authority alone.
LEMMA CutEffect ==
    ASSUME NEW s, Shape(s), TargetsOK(s), NEW ids, NEW state
    PROVE  SameAuthority(Cut(s, ids, state), s) /\ SameTargets(Cut(s, ids, state), s)
<1>1. SameAuthority(Cut(s, ids, state), s)
  BY DEF Shape, Cut, Fields, SameAuthority
<1>2. SameTargets(Cut(s, ids, state), s)
  BY DEF Shape, TargetsOK, Cut, Released, Fields, TargetFields, SameTargets, SameReferences
<1> QED
  BY <1>1, <1>2

\* The invariant does not look at anything else.
LEMMA SameIsGood ==
    ASSUME NEW s, NEW n, Good(s), SameAuthority(n, s), SameReferences(n, s)
    PROVE  Good(n)
<1>1. Current(n) = Current(s)
  BY CurrentDependsOnTargets
<1>2. Shape(n)
  BY DEF Good, Shape, SameAuthority
<1>3. TargetsOK(n)
  BY DEF Good, TargetsOK, SameAuthority, SameReferences
<1>4. GrantsOK(n)
  BY DEF Good, GrantsOK, SameAuthority
<1>5. RegistrationsOK(n)
  BY DEF Good, RegistrationsOK, SameAuthority
<1>6. LiveOK(n)
  BY <1>1 DEF Good, LiveOK, SameAuthority, Enrolled
<1>7. PendingOK(n)
  BY <1>1 DEF Good, PendingOK, SameAuthority, GrantsOf
<1>8. ConsentOK(n)
  BY DEF Good, ConsentOK, SameAuthority, SlotGrants, GrantsOf
<1>9. DecisionsOK(n)
  BY DEF Good, DecisionsOK, Saw, SameAuthority, SlotGrants, GrantsOf
<1> QED
  BY <1>2, <1>3, <1>4, <1>5, <1>6, <1>7, <1>8, <1>9 DEF Good

\* cut keeps the invariant.
LEMMA CutIsGood ==
    ASSUME NEW s, Good(s), NEW ids, NEW state PROVE Good(Cut(s, ids, state))
BY CutEffect, SameIsGood DEF Good, SameTargets

\* One more identifier changes nothing but the counter.
LEMMA MintEffect ==
    ASSUME NEW s, Shape(s), NEW kind \in MintKinds
    PROVE  /\ Shape(Mint(s, kind))
           /\ \A f \in Fields \ {"minted"} : Mint(s, kind)[f] = s[f]
           /\ Mint(s, kind).minted[kind] = s.minted[kind] + 1
           /\ \A k \in MintKinds \ {kind} : Mint(s, kind).minted[k] = s.minted[k]
BY DEF Shape, Mint, Fields, MintKinds

\* Minting an id keeps the invariant.
LEMMA MintIsGood ==
    ASSUME NEW s, Good(s), NEW kind \in MintKinds
    PROVE  Good(Mint(s, kind))
<1> DEFINE n == Mint(s, kind)
<1> HIDE DEF n
<1>1. Shape(n) /\ (\A f \in Fields \ {"minted"} : n[f] = s[f])
  BY MintEffect DEF Good, n
<1>2. /\ n.grants = s.grants /\ n.principals = s.principals /\ n.targets = s.targets
      /\ n.registrations = s.registrations /\ n.pending = s.pending /\ n.forgotten = s.forgotten
      /\ n.revisions = s.revisions /\ n.consent = s.consent
  BY <1>1 DEF Fields
<1>3. n.minted.registration \in Nat /\ n.minted.registration >= s.minted.registration /\ s.minted.registration \in Nat
  BY MintEffect DEF Good, n, MintKinds, Shape
<1>4. Current(n) = Current(s)
  BY <1>2 DEF Current
<1>5. TargetsOK(n) /\ GrantsOK(n)
  BY <1>2 DEF Good, TargetsOK, GrantsOK
<1>6. RegistrationsOK(n)
  BY <1>2, <1>3 DEF Good, RegistrationsOK
<1>7. LiveOK(n) /\ PendingOK(n)
  BY <1>2, <1>4 DEF Good, LiveOK, PendingOK, Enrolled, GrantsOf
<1>8. ConsentOK(n) /\ DecisionsOK(n)
  BY <1>2 DEF Good, ConsentOK, DecisionsOK, Saw, SlotGrants, GrantsOf
<1> QED
  BY <1>1, <1>5, <1>6, <1>7, <1>8 DEF Good, n

\* The kinds of slot, told apart by their first entry.
LEMMA SlotsByKind ==
    /\ \A x \in Slots : x[1] \in SlotKinds
    /\ \A x \in Slots : (x[1] = "Ordinary" <=> x = Ordinary) /\ (x[1] = "Metadata" <=> x = Metadata)
    /\ \A i, e : Enrollment(i, e)[1] = "Enrollment"
    /\ \A i, e, j, f : Enrollment(i, e) = Enrollment(j, f) => i = j /\ e = f
    /\ Ordinary[1] = "Ordinary" /\ Metadata[1] = "Metadata"
BY DEF Slots, SlotKinds, Ordinary, Metadata, Enrollment

\* A revision moves exactly if a grant of its kind is removed.
LEMMA BumpCounts ==
    ASSUME NEW s, GrantsOK(s), NEW slots, NEW c, NEW k
    PROVE  /\ Bump(s, slots, c, k) \in Nat
           /\ Bump(s, slots, c, k) = 0 <=>
                 \A g \in s.grants : g.connection = c /\ g.slot[1] = k => <<g.connection, g.slot>> \notin slots
<1> DEFINE T == {g \in Removed(s, slots) : g.connection = c /\ g.slot[1] = k}
<1>1. T \in SUBSET s.grants /\ IsFiniteSet(s.grants)
  BY DEF Removed, GrantsOK
<1>2. IsFiniteSet(T)
  BY <1>1, FS_Subset
<1>3. Cardinality(T) \in Nat /\ (Cardinality(T) = 0 <=> T = {})
  BY <1>2, FS_CardinalityType, FS_EmptySet
<1> QED
  BY <1>3 DEF Bump, Removed

\* What a registration keeps of its consent.
Forgets(r, slots) == IF Unconsented(r, slots) THEN [r EXCEPT !.consent = {}] ELSE r

\* Everything RevokeSlots changes.
Revoked(n, s, slots) ==
    /\ DOMAIN n = Fields
    /\ n.principals = s.principals /\ n.retired = s.retired /\ n.proposals = s.proposals
    /\ n.forgotten = s.forgotten /\ n.minted = s.minted /\ DOMAIN n.usage = DOMAIN s.usage
    /\ n.starts = s.starts
    /\ n.grants = {g \in s.grants : <<g.connection, g.slot>> \notin slots}
    /\ n.registrations = {Forgets(r, slots) : r \in s.registrations}
    /\ n.revisions \in [Connections -> [SlotKinds -> Nat]]
    /\ \A c \in Connections, k \in SlotKinds :
          /\ n.revisions[c][k] >= s.revisions[c][k]
          /\ n.revisions[c][k] = s.revisions[c][k] <=>
                \A g \in s.grants : g.connection = c /\ g.slot[1] = k => <<g.connection, g.slot>> \notin slots
    /\ DOMAIN n.consent = Connections
    /\ \A c \in Connections :
          (\A g \in s.grants : /\ g.connection = c /\ g.slot[1] \in {"Ordinary", "Metadata"}
                               => <<g.connection, g.slot>> \notin slots)
              => n.consent[c] = s.consent[c]
    /\ n.pending = {p \in s.pending : /\ <<p.connection, p.slot>> \notin slots
                                      /\ \/ p.connection \notin {x[1] : x \in slots}
                                         \/ p.revisions = n.revisions[p.connection]}

\* RevokeSlots changes what Revoked says, whatever the slots.
LEMMA RevokeEffect ==
    ASSUME NEW s, Shape(s), TargetsOK(s), GrantsOK(s), NEW slots
    PROVE  Revoked(RevokeSlots(s, slots), s, slots) /\ SameTargets(RevokeSlots(s, slots), s)
<1> DEFINE d == Dropped(s, slots)
           f == DiscardStaleProposals(d, {x[1] : x \in slots})
           n == RevokeSlots(s, slots)
<1>1. /\ DOMAIN d = Fields /\ d.principals = s.principals /\ d.retired = s.retired
      /\ d.proposals = s.proposals /\ d.forgotten = s.forgotten /\ d.minted = s.minted
      /\ d.usage = s.usage /\ d.targets = s.targets /\ d.starts = s.starts
  BY DEF Dropped, Shape, Fields
<1>2. /\ d.grants = {g \in s.grants : <<g.connection, g.slot>> \notin slots}
      /\ d.registrations = {Forgets(r, slots) : r \in s.registrations}
      /\ d.pending = {p \in s.pending : <<p.connection, p.slot>> \notin slots}
  BY DEF Dropped, Shape, Fields, Forgets, Removed
<1>3. d.revisions = [c \in Connections |-> [k \in SlotKinds |-> s.revisions[c][k] + Bump(s, slots, c, k)]]
  BY DEF Dropped, Shape, Fields
<1>4. d.consent = [c \in Connections |->
                      IF Bump(s, slots, c, "Ordinary") + Bump(s, slots, c, "Metadata") > 0
                      THEN {} ELSE s.consent[c]]
  BY DEF Dropped, Shape, Fields
<1>5. /\ DOMAIN f = Fields /\ f.principals = d.principals /\ f.retired = d.retired
      /\ f.proposals = d.proposals /\ f.forgotten = d.forgotten /\ f.minted = d.minted
      /\ f.usage = d.usage /\ f.targets = d.targets /\ f.starts = d.starts
      /\ f.grants = d.grants /\ f.registrations = d.registrations
      /\ f.revisions = d.revisions /\ f.consent = d.consent
      /\ f.pending = {p \in d.pending : \/ p.connection \notin {x[1] : x \in slots}
                                        \/ p.revisions = d.revisions[p.connection]}
  <2> HIDE DEF d
  <2> QED
    BY <1>1 DEF DiscardStaleProposals, Fields
<1>6. \A c \in Connections, k \in SlotKinds :
          /\ d.revisions[c][k] \in Nat /\ d.revisions[c][k] >= s.revisions[c][k]
          /\ d.revisions[c][k] = s.revisions[c][k] <=>
                \A g \in s.grants : g.connection = c /\ g.slot[1] = k => <<g.connection, g.slot>> \notin slots
  <2> HIDE DEF d
  <2> SUFFICES ASSUME NEW c \in Connections, NEW k \in SlotKinds
               PROVE  /\ d.revisions[c][k] \in Nat /\ d.revisions[c][k] >= s.revisions[c][k]
                      /\ d.revisions[c][k] = s.revisions[c][k] <=>
                            \A g \in s.grants : g.connection = c /\ g.slot[1] = k
                                                    => <<g.connection, g.slot>> \notin slots
    OBVIOUS
  <2>1. d.revisions[c][k] = s.revisions[c][k] + Bump(s, slots, c, k)
    BY <1>3
  <2>2. s.revisions[c][k] \in Nat
    BY DEF Shape
  <2> QED
    BY <2>1, <2>2, BumpCounts
<1>7. d.revisions \in [Connections -> [SlotKinds -> Nat]]
  <2> HIDE DEF d
  <2> QED
    BY <1>3, <1>6
<1>8. ASSUME NEW c \in Connections,
             \A g \in s.grants : g.connection = c /\ g.slot[1] \in {"Ordinary", "Metadata"}
                                    => <<g.connection, g.slot>> \notin slots
      PROVE  d.consent[c] = s.consent[c]
  <2> HIDE DEF d
  <2>1. Bump(s, slots, c, "Ordinary") = 0 /\ Bump(s, slots, c, "Metadata") = 0
    BY <1>8, BumpCounts
  <2> QED
    BY <1>4, <2>1
<1>9. Shape(f) /\ TargetsOK(f)
  <2> HIDE DEF d, f
  <2> QED
    BY <1>1, <1>4, <1>5, <1>7 DEF Shape, TargetsOK
<1>10. PICK ids : n = Cut(f, ids, "Interrupted")
  BY DEF RevokeSlots
<1> HIDE DEF d, f, n
<1>11. SameAuthority(n, f) /\ SameTargets(n, f)
  BY <1>9, <1>10, CutEffect
<1>12. SameTargets(n, s)
  BY <1>1, <1>5, <1>11 DEF SameTargets, SameReferences
<1>13. Revoked(n, s, slots)
  <2>1. /\ DOMAIN n = Fields /\ n.principals = s.principals /\ n.retired = s.retired
        /\ n.proposals = s.proposals /\ n.forgotten = s.forgotten /\ n.minted = s.minted
        /\ DOMAIN n.usage = DOMAIN s.usage /\ n.starts = s.starts
        /\ n.grants = d.grants /\ n.registrations = d.registrations
        /\ n.revisions = d.revisions /\ n.consent = d.consent /\ n.pending = f.pending
    BY <1>1, <1>5, <1>11 DEF SameAuthority
  <2>2. DOMAIN n.consent = Connections
    BY <1>4, <2>1
  <2>3. \A c \in Connections :
          (\A g \in s.grants : /\ g.connection = c /\ g.slot[1] \in {"Ordinary", "Metadata"}
                               => <<g.connection, g.slot>> \notin slots)
              => n.consent[c] = s.consent[c]
    BY <1>8, <2>1
  <2>4. n.pending = {p \in s.pending : /\ <<p.connection, p.slot>> \notin slots
                                       /\ \/ p.connection \notin {x[1] : x \in slots}
                                          \/ p.revisions = n.revisions[p.connection]}
    BY <1>2, <1>5, <2>1
  <2>5. \A c \in Connections, k \in SlotKinds :
          /\ n.revisions[c][k] >= s.revisions[c][k]
          /\ n.revisions[c][k] = s.revisions[c][k] <=>
                \A g \in s.grants : g.connection = c /\ g.slot[1] = k => <<g.connection, g.slot>> \notin slots
    BY <1>6, <2>1
  <2>6. /\ n.grants = {g \in s.grants : <<g.connection, g.slot>> \notin slots}
        /\ n.registrations = {Forgets(r, slots) : r \in s.registrations}
        /\ n.revisions \in [Connections -> [SlotKinds -> Nat]]
    BY <1>2, <1>7, <2>1
  <2> QED
    BY <2>1, <2>2, <2>3, <2>4, <2>5, <2>6, Zenon DEF Revoked
<1> QED
  BY <1>12, <1>13 DEF n

\* A registration that loses its consent keeps everything else.
LEMMA ForgetsEffect ==
    ASSUME NEW r, DOMAIN r = RegistrationFields, NEW slots
    PROVE  /\ DOMAIN Forgets(r, slots) = RegistrationFields
           /\ \A f \in RegistrationFields \ {"consent"} : Forgets(r, slots)[f] = r[f]
           /\ ~Unconsented(r, slots) => Forgets(r, slots) = r
BY DEF Forgets, RegistrationFields

\* The registrations after a revocation are the ones before, consent aside.
LEMMA RevokedRegistrations ==
    ASSUME NEW s, RegistrationsOK(s), NEW slots, NEW n, Revoked(n, s, slots)
    PROVE  /\ \A q \in n.registrations : \E r \in s.registrations :
                 /\ q = Forgets(r, slots) /\ DOMAIN q = RegistrationFields
                 /\ q.id = r.id /\ q.connection = r.connection /\ q.enrollment = r.enrollment
                 /\ q.target = r.target /\ q.revision = r.revision /\ q.review = r.review
                 /\ q.decision = r.decision
           /\ \A r \in s.registrations : Forgets(r, slots) \in n.registrations
<1>1. \A r \in s.registrations : DOMAIN r = RegistrationFields
  BY DEF RegistrationsOK
<1>2. \A r \in s.registrations : \A f \in RegistrationFields \ {"consent"} : Forgets(r, slots)[f] = r[f]
  BY <1>1, ForgetsEffect
<1>3. n.registrations = {Forgets(r, slots) : r \in s.registrations}
  BY DEF Revoked
<1>4. ASSUME NEW r \in s.registrations, NEW q, q = Forgets(r, slots)
      PROVE  /\ DOMAIN q = RegistrationFields
             /\ q.id = r.id /\ q.connection = r.connection /\ q.enrollment = r.enrollment
             /\ q.target = r.target /\ q.revision = r.revision /\ q.review = r.review
             /\ q.decision = r.decision
  <2>1. \A f \in RegistrationFields \ {"consent"} : q[f] = r[f]
    BY <1>2, <1>4
  <2>2. DOMAIN q = RegistrationFields
    BY <1>1, <1>4, ForgetsEffect
  <2> QED
    BY <2>1, <2>2 DEF RegistrationFields
<1> QED
  BY <1>3, <1>4

\* A client whose revisions have not moved has lost no grant, and conversely.
LEMMA RevokedGrants ==
    ASSUME NEW s, Shape(s), GrantsOK(s), NEW slots, NEW n, Revoked(n, s, slots), NEW c \in Connections
    PROVE  /\ n.revisions[c] = s.revisions[c] <=> GrantsOf(n, c) = GrantsOf(s, c)
           /\ c \notin {x[1] : x \in slots} => GrantsOf(n, c) = GrantsOf(s, c)
           /\ n.revisions[c]["Ordinary"] \in Nat /\ s.revisions[c]["Ordinary"] \in Nat
           /\ n.revisions[c]["Ordinary"] >= s.revisions[c]["Ordinary"]
           /\ n.revisions[c]["Ordinary"] = s.revisions[c]["Ordinary"] =>
                 SlotGrants(n, c, Ordinary) = SlotGrants(s, c, Ordinary)
<1>1. GrantsOf(n, c) = {g \in GrantsOf(s, c) : <<g.connection, g.slot>> \notin slots}
  BY DEF GrantsOf, Revoked
<1>2. /\ \A k \in SlotKinds :
            n.revisions[c][k] = s.revisions[c][k] <=>
                \A g \in s.grants : g.connection = c /\ g.slot[1] = k => <<g.connection, g.slot>> \notin slots
      /\ n.revisions[c]["Ordinary"] >= s.revisions[c]["Ordinary"]
  <2>1. \A k \in SlotKinds :
            /\ n.revisions[c][k] >= s.revisions[c][k]
            /\ n.revisions[c][k] = s.revisions[c][k] <=>
                  \A g \in s.grants : g.connection = c /\ g.slot[1] = k => <<g.connection, g.slot>> \notin slots
    BY DEF Revoked
  <2>2. "Ordinary" \in SlotKinds
    BY DEF SlotKinds
  <2> QED
    BY <2>1, <2>2, Zenon
<1>3. n.revisions[c] \in [SlotKinds -> Nat] /\ s.revisions[c] \in [SlotKinds -> Nat]
  BY DEF Revoked, Shape
<1>4. n.revisions[c] = s.revisions[c] <=> \A k \in SlotKinds : n.revisions[c][k] = s.revisions[c][k]
  BY <1>3
<1>5. \A g \in s.grants : g.slot \in Slots /\ g.slot[1] \in SlotKinds
  BY SlotsByKind DEF GrantsOK
<1>6. n.revisions[c] = s.revisions[c] <=>
          \A g \in s.grants : g.connection = c => <<g.connection, g.slot>> \notin slots
  BY <1>2, <1>4, <1>5
<1>7. n.revisions[c] = s.revisions[c] <=> GrantsOf(n, c) = GrantsOf(s, c)
  BY <1>1, <1>6 DEF GrantsOf
<1>8. c \notin {x[1] : x \in slots} => GrantsOf(n, c) = GrantsOf(s, c)
  <2>1. \A x \in slots : x[1] \in {y[1] : y \in slots}
    OBVIOUS
  <2>2. \A g \in GrantsOf(s, c) : <<g.connection, g.slot>>[1] = c
    BY DEF GrantsOf
  <2> QED
    BY <1>1, <2>1, <2>2
<1>9. n.revisions[c]["Ordinary"] = s.revisions[c]["Ordinary"] =>
          SlotGrants(n, c, Ordinary) = SlotGrants(s, c, Ordinary)
  BY <1>1, <1>2, SlotsByKind DEF SlotGrants, GrantsOf, SlotKinds
<1> QED
  BY <1>2, <1>3, <1>7, <1>8, <1>9 DEF SlotKinds

\* What was seen of a grant is right or its revision has moved.
LEMMA SawStays ==
    ASSUME NEW s, Shape(s), GrantsOK(s), NEW slots, NEW n, Revoked(n, s, slots),
           NEW c \in Connections, NEW x, Saw(s, c, x)
    PROVE  Saw(n, c, x)
BY RevokedGrants DEF Saw

\* Whatever revocations leave behind satisfies the invariant.
LEMMA RevokedIsGood ==
    ASSUME NEW s, Good(s), NEW slots, NEW n, Revoked(n, s, slots), SameReferences(n, s)
    PROVE  Good(n)
<1>1. /\ Shape(s) /\ TargetsOK(s) /\ GrantsOK(s) /\ RegistrationsOK(s)
      /\ LiveOK(s) /\ PendingOK(s) /\ ConsentOK(s) /\ DecisionsOK(s)
  BY DEF Good
<1>2. Current(n) = Current(s)
  BY CurrentDependsOnTargets
<1>3. Shape(n)
  BY <1>1 DEF Shape, Revoked
<1>4. TargetsOK(n)
  BY <1>1 DEF TargetsOK, Revoked, SameReferences
<1>5. n.grants \in SUBSET s.grants
  BY DEF Revoked
<1>6. GrantsOK(n)
  <2>1. IsFiniteSet(n.grants)
    BY <1>1, <1>5, FS_Subset DEF GrantsOK
  <2> QED
    BY <1>1, <1>5, <2>1 DEF GrantsOK
<1>7. RegistrationsOK(n)
  <2>1. n.minted = s.minted
    BY DEF Revoked
  <2>2. \A r \in n.registrations :
          /\ DOMAIN r = RegistrationFields /\ r.connection \in Connections
          /\ r.id \in Nat /\ r.revision \in Nat /\ r.enrollment \in Nat
          /\ r.id <= n.minted.registration /\ r.revision <= n.minted.registration
          /\ r.enrollment <= r.revision
    BY <1>1, <2>1, RevokedRegistrations DEF RegistrationsOK
  <2>3. ASSUME NEW r \in n.registrations, NEW q \in n.registrations, r.id = q.id PROVE r = q
    <3>1. PICK r0 \in s.registrations : r = Forgets(r0, slots) /\ r.id = r0.id
      BY <1>1, RevokedRegistrations
    <3>2. PICK q0 \in s.registrations : q = Forgets(q0, slots) /\ q.id = q0.id
      BY <1>1, RevokedRegistrations
    <3>3. r0 = q0
      BY <1>1, <2>3, <3>1, <3>2 DEF RegistrationsOK
    <3> QED
      BY <3>1, <3>2, <3>3
  <2> QED
    BY <2>2, <2>3 DEF RegistrationsOK
<1>8. LiveOK(n)
  <2> SUFFICES ASSUME NEW g \in n.grants
               PROVE  /\ g.connection \in n.principals
                      /\ GrantTargets(g) \subseteq Current(n)
                      /\ g.slot[1] = "Enrollment" =>
                            \E r \in Enrolled(n, g.connection, g.slot) : g.sources = {r.target}
    BY DEF LiveOK
  <2>1. g.connection \in n.principals /\ GrantTargets(g) \subseteq Current(n)
    BY <1>1, <1>2, <1>5 DEF LiveOK, Revoked
  <2>2. ASSUME g.slot[1] = "Enrollment"
        PROVE  \E r \in Enrolled(n, g.connection, g.slot) : g.sources = {r.target}
    <3>1. PICK r \in Enrolled(s, g.connection, g.slot) : g.sources = {r.target}
      BY <1>1, <1>5, <2>2 DEF LiveOK
    <3>2. r \in s.registrations /\ DOMAIN r = RegistrationFields
      BY <1>1, <3>1 DEF Enrolled, RegistrationsOK
    <3>3. PICK q \in n.registrations : q = Forgets(r, slots)
      BY <1>1, <3>2, RevokedRegistrations
    <3>4. q.id = r.id /\ q.connection = r.connection /\ q.enrollment = r.enrollment /\ q.target = r.target
      BY <3>2, <3>3, ForgetsEffect DEF RegistrationFields
    <3>5. q \in Enrolled(n, g.connection, g.slot)
      BY <1>2, <3>1, <3>4 DEF Enrolled
    <3> QED
      BY <3>1, <3>4, <3>5
  <2> QED
    BY <2>1, <2>2
<1>9. PendingOK(n)
  <2> SUFFICES ASSUME NEW p \in n.pending
               PROVE  /\ p.connection \in n.principals
                      /\ p.revisions = n.revisions[p.connection]
                      /\ p.seen = {g.epoch : g \in GrantsOf(n, p.connection)}
                      /\ GrantTargets(p) \subseteq Current(n)
    BY DEF PendingOK
  <2>1. p \in s.pending /\ (p.connection \notin {x[1] : x \in slots} \/ p.revisions = n.revisions[p.connection])
    BY DEF Revoked
  <2>2. /\ p.connection \in s.principals /\ p.revisions = s.revisions[p.connection]
        /\ p.seen = {g.epoch : g \in GrantsOf(s, p.connection)} /\ GrantTargets(p) \subseteq Current(s)
    BY <1>1, <2>1 DEF PendingOK
  <2>3. p.connection \in Connections
    BY <1>1, <2>2 DEF Shape
  <2>4. GrantsOf(n, p.connection) = GrantsOf(s, p.connection)
        /\ n.revisions[p.connection] = s.revisions[p.connection]
    BY <1>1, <2>1, <2>2, <2>3, RevokedGrants
  <2> QED
    BY <1>2, <2>2, <2>4 DEF Revoked
<1>10. ConsentOK(n)
  <2> SUFFICES ASSUME NEW o \in n.grants, o.slot = Ordinary, o.controls # {}
               PROVE  /\ \A m \in SlotGrants(n, o.connection, Metadata) :
                            /\ n.consent[o.connection] = {<<o.epoch, m.epoch>>}
                            /\ ValidateCrossClosure(o, m.sources)
                      /\ \A r \in {x \in n.registrations : x.connection = o.connection} :
                            \A m \in SlotGrants(n, o.connection, Enrollment(r.id, r.enrollment)) :
                               /\ r.consent = {[ordinary |-> o.epoch, metadata |-> m.epoch,
                                                sinks |-> o.controls]}
                               /\ ValidateCrossClosure(o, m.sources)
    BY DEF ConsentOK
  <2>1. o \in s.grants /\ <<o.connection, Ordinary>> \notin slots /\ o.connection \in Connections
    BY <1>1 DEF Revoked, GrantsOK
  <2>2. ASSUME NEW m \in SlotGrants(n, o.connection, Metadata)
        PROVE  n.consent[o.connection] = {<<o.epoch, m.epoch>>} /\ ValidateCrossClosure(o, m.sources)
    <3>1. m \in SlotGrants(s, o.connection, Metadata) /\ <<o.connection, Metadata>> \notin slots
      BY DEF Revoked, SlotGrants, GrantsOf
    <3>2. \A g \in s.grants : g.connection = o.connection /\ g.slot[1] \in {"Ordinary", "Metadata"}
                                 => <<g.connection, g.slot>> \notin slots
      BY <1>1, <2>1, <3>1, SlotsByKind DEF GrantsOK
    <3>3. n.consent[o.connection] = s.consent[o.connection]
      BY <2>1, <3>2 DEF Revoked
    <3> QED
      BY <1>1, <2>1, <3>1, <3>3 DEF ConsentOK
  <2>3. ASSUME NEW q \in n.registrations, q.connection = o.connection,
               NEW m \in SlotGrants(n, o.connection, Enrollment(q.id, q.enrollment))
        PROVE  /\ q.consent = {[ordinary |-> o.epoch, metadata |-> m.epoch, sinks |-> o.controls]}
               /\ ValidateCrossClosure(o, m.sources)
    <3>1. PICK r \in s.registrations : /\ q = Forgets(r, slots) /\ q.id = r.id
                                       /\ q.connection = r.connection /\ q.enrollment = r.enrollment
      BY <1>1, RevokedRegistrations
    <3>2. /\ m \in SlotGrants(s, o.connection, Enrollment(r.id, r.enrollment))
          /\ <<o.connection, Enrollment(r.id, r.enrollment)>> \notin slots
      BY <3>1 DEF Revoked, SlotGrants, GrantsOf
    <3>3. q = r
      BY <2>1, <2>3, <3>1, <3>2 DEF Forgets, Unconsented
    <3> QED
      BY <1>1, <2>1, <2>3, <3>2, <3>3 DEF ConsentOK
  <2> QED
    BY <2>2, <2>3
<1>11. DecisionsOK(n)
  <2> SUFFICES ASSUME NEW q \in n.registrations
               PROVE  (\A d, e \in q.decision : d = e) /\ (\A d \in q.decision : Saw(n, q.connection, d))
    BY DEF DecisionsOK
  <2>1. PICK r \in s.registrations : q.connection = r.connection /\ q.decision = r.decision
    BY <1>1, RevokedRegistrations
  <2>2. r.connection \in Connections
    BY <1>1 DEF RegistrationsOK
  <2>3. (\A d, e \in r.decision : d = e) /\ (\A d \in r.decision : Saw(s, r.connection, d))
    BY <1>1 DEF DecisionsOK
  <2> QED
    BY <1>1, <2>1, <2>2, <2>3, SawStays
<1> QED
  BY <1>3, <1>4, <1>6, <1>7, <1>8, <1>9, <1>10, <1>11 DEF Good

\* RevokeSlots keeps the invariant.
LEMMA RevokeIsGood ==
    ASSUME NEW s, Good(s), NEW slots PROVE Good(RevokeSlots(s, slots))
BY RevokeEffect, RevokedIsGood DEF Good, SameTargets

\* Dropping proposals, and changing registrations in nothing that a grant or a
\* consent rests on.
LEMMA RevisedIsGood ==
    ASSUME NEW s, NEW n, Good(s), Shape(n), TargetsOK(n), RegistrationsOK(n), DecisionsOK(n), LiveOK(n),
           n.grants = s.grants, n.principals = s.principals, n.revisions = s.revisions,
           n.consent = s.consent, n.pending \subseteq s.pending, Current(n) = Current(s),
           \A q \in n.registrations : \E r \in s.registrations :
               /\ q.connection = r.connection /\ q.id = r.id
               /\ q.enrollment = r.enrollment /\ q.consent = r.consent
    PROVE  Good(n)
<1>1. GrantsOK(n)
  BY DEF Good, GrantsOK
<1>2. PendingOK(n)
  BY DEF Good, PendingOK, GrantsOf
<1>3. ConsentOK(n)
  <2>1. \A c, x : SlotGrants(n, c, x) = SlotGrants(s, c, x)
    BY DEF SlotGrants, GrantsOf
  <2> QED
    BY <2>1 DEF Good, ConsentOK
<1> QED
  BY <1>1, <1>2, <1>3 DEF Good

-----------------------------------------------------------------------------
(* Revocations, one after the other. *)

\* n is what revocations leave of s.
Weaker(n, s) ==
    /\ n.minted = s.minted /\ n.forgotten = s.forgotten /\ SameTargets(n, s)
    /\ n.grants \subseteq s.grants /\ n.pending \subseteq s.pending
    /\ \A q \in n.registrations : \E r \in s.registrations :
          /\ q.id = r.id /\ q.connection = r.connection /\ q.enrollment = r.enrollment
          /\ q.revision = r.revision /\ q.target = r.target
    /\ \A c \in Connections : \A x : Saw(s, c, x) => Saw(n, c, x)

\* Revocations compose.
LEMMA WeakerChain ==
    ASSUME NEW s, NEW m, NEW n, Weaker(m, s), Weaker(n, m) PROVE Weaker(n, s)
<1>1. SameTargets(n, s)
  BY DEF Weaker, SameTargets, SameReferences
<1>2. n.minted = s.minted /\ n.forgotten = s.forgotten /\ n.grants \subseteq s.grants /\ n.pending \subseteq s.pending
  BY DEF Weaker
<1>3. ASSUME NEW q \in n.registrations
      PROVE  \E r \in s.registrations :
                /\ q.id = r.id /\ q.connection = r.connection /\ q.enrollment = r.enrollment
                /\ q.revision = r.revision /\ q.target = r.target
  <2>1. PICK p \in m.registrations :
                /\ q.id = p.id /\ q.connection = p.connection /\ q.enrollment = p.enrollment
                /\ q.revision = p.revision /\ q.target = p.target
    BY DEF Weaker
  <2>2. PICK r \in s.registrations :
                /\ p.id = r.id /\ p.connection = r.connection /\ p.enrollment = r.enrollment
                /\ p.revision = r.revision /\ p.target = r.target
    BY DEF Weaker
  <2> QED
    BY <2>1, <2>2
<1>4. \A c \in Connections : \A x : Saw(s, c, x) => Saw(n, c, x)
  BY DEF Weaker
<1> QED
  BY <1>1, <1>2, <1>3, <1>4 DEF Weaker

\* RevokeSlots is a revocation.
LEMMA RevokeIsWeaker ==
    ASSUME NEW s, Good(s), NEW slots PROVE Weaker(RevokeSlots(s, slots), s)
<1> DEFINE n == RevokeSlots(s, slots)
<1>1. Shape(s) /\ GrantsOK(s) /\ RegistrationsOK(s) /\ TargetsOK(s)
  BY DEF Good
<1>2. Revoked(n, s, slots) /\ SameTargets(n, s)
  BY <1>1, RevokeEffect
<1> HIDE DEF n
<1>3. \A c \in Connections : \A x : Saw(s, c, x) => Saw(n, c, x)
  BY <1>1, <1>2, SawStays
<1>4. \A q \in n.registrations : \E r \in s.registrations :
          /\ q.id = r.id /\ q.connection = r.connection /\ q.enrollment = r.enrollment
          /\ q.revision = r.revision /\ q.target = r.target
  BY <1>1, <1>2, RevokedRegistrations
<1>5. n.minted = s.minted /\ n.forgotten = s.forgotten /\ n.grants \subseteq s.grants /\ n.pending \subseteq s.pending
  BY <1>2 DEF Revoked
<1> QED
  BY <1>2, <1>3, <1>4, <1>5 DEF Weaker, n

\* Less of the pending proposals, and of the registrations that no grant is for.
LEMMA FewerIsGood ==
    ASSUME NEW s, NEW n, Good(s), DOMAIN n = Fields,
           \A f \in Fields \ {"registrations", "pending"} : n[f] = s[f],
           n.registrations \subseteq s.registrations, n.pending \subseteq s.pending, LiveOK(n)
    PROVE  Good(n) /\ Weaker(n, s)
<1>1. /\ n.grants = s.grants /\ n.principals = s.principals /\ n.retired = s.retired
      /\ n.revisions = s.revisions /\ n.consent = s.consent /\ n.proposals = s.proposals
      /\ n.usage = s.usage /\ n.minted = s.minted /\ n.targets = s.targets /\ n.forgotten = s.forgotten
  BY DEF Fields
<1>2. Shape(n) /\ TargetsOK(n)
  BY <1>1 DEF Good, Shape, TargetsOK
<1>3. RegistrationsOK(n)
  BY <1>1 DEF Good, RegistrationsOK
<1>4. DecisionsOK(n)
  BY <1>1 DEF Good, DecisionsOK, Saw, SlotGrants, GrantsOf
<1>5. Current(n) = Current(s)
  BY <1>1 DEF Current
<1>6. Good(n)
  BY <1>1, <1>2, <1>3, <1>4, <1>5, RevisedIsGood
<1>7. SameTargets(n, s)
  BY <1>1 DEF Good, TargetsOK, SameTargets, SameReferences
<1>8. \A c, x : Saw(s, c, x) => Saw(n, c, x)
  BY <1>1 DEF Saw, SlotGrants, GrantsOf
<1> QED
  BY <1>1, <1>6, <1>7, <1>8 DEF Weaker

\* Dropping proposals keeps the invariant.
LEMMA FewerProposals ==
    ASSUME NEW s, Good(s), NEW ps, ps \subseteq s.pending
    PROVE  Good([s EXCEPT !.pending = ps]) /\ Weaker([s EXCEPT !.pending = ps], s)
<1> DEFINE n == [s EXCEPT !.pending = ps]
<1>1. DOMAIN n = Fields /\ (\A f \in Fields \ {"pending"} : n[f] = s[f]) /\ n.pending = ps
  BY DEF Good, Shape, Fields
<1>2. n.registrations = s.registrations /\ n.grants = s.grants /\ n.principals = s.principals /\ n.targets = s.targets
  BY <1>1 DEF Fields
<1> HIDE DEF n
<1>3. LiveOK(n)
  BY <1>2 DEF Good, LiveOK, Enrolled, Current
<1>4. Good(n) /\ Weaker(n, s)
  BY <1>1, <1>2, <1>3, FewerIsGood
<1> QED
  BY <1>4 DEF n

\* cut is a revocation.
LEMMA CutIsWeaker ==
    ASSUME NEW s, Good(s), NEW ids, NEW state PROVE Weaker(Cut(s, ids, state), s)
<1>1. SameAuthority(Cut(s, ids, state), s) /\ SameTargets(Cut(s, ids, state), s)
  BY CutEffect DEF Good
<1> QED
  BY <1>1 DEF SameAuthority, Weaker, Saw, SlotGrants, GrantsOf

\* poll_expiry keeps every client and every registration.
Polled(n, s) ==
    /\ Good(n) /\ Weaker(n, s)
    /\ n.principals = s.principals /\ n.retired = s.retired /\ n.proposals = s.proposals
    /\ \A q \in n.registrations : \E r \in s.registrations :
          /\ q.id = r.id /\ q.connection = r.connection /\ q.enrollment = r.enrollment
          /\ q.target = r.target /\ q.revision = r.revision
          /\ q.review = r.review /\ q.decision = r.decision
    /\ \A r \in s.registrations : \E q \in n.registrations : q.id = r.id

\* poll_expiry keeps the invariant, and every client and registration.
LEMMA PollEffect ==
    ASSUME NEW s, Good(s) PROVE Polled(PollExpiry(s), s)
<1> DEFINE timely == [s EXCEPT !.pending = {p \in @ : now < p.expires}]
           ended == Cut(timely, {r \in DOMAIN s.runs : /\ s.runs[r].state = "Running"
                                                       /\ now >= s.runs[r].deadline}, "TimedOut")
           slots == {<<g.connection, g.slot>> : g \in {x \in s.grants : now >= x.expires}}
           n == RevokeSlots(ended, slots)
<1>1. n = PollExpiry(s)
  BY DEF PollExpiry
<1>2. Good(timely) /\ Weaker(timely, s)
  <2>1. {p \in s.pending : now < p.expires} \subseteq s.pending
    OBVIOUS
  <2> QED
    BY <2>1, FewerProposals
<1>3. /\ timely.registrations = s.registrations /\ timely.principals = s.principals
      /\ timely.retired = s.retired /\ timely.proposals = s.proposals
  BY DEF Good, Shape, Fields
<1> HIDE DEF timely
<1>4. SameAuthority(ended, timely) /\ Good(ended) /\ Weaker(ended, timely)
  BY <1>2, CutEffect, CutIsGood, CutIsWeaker DEF Good
<1> HIDE DEF ended, slots
<1>5. Good(n) /\ Weaker(n, ended) /\ Revoked(n, ended, slots)
  BY <1>4, RevokeIsGood, RevokeIsWeaker, RevokeEffect DEF Good
<1> HIDE DEF n
<1>6. Weaker(n, s)
  BY <1>2, <1>4, <1>5, WeakerChain
<1>7. ended.registrations = s.registrations
  BY <1>3, <1>4 DEF SameAuthority
<1>8. n.principals = s.principals /\ n.retired = s.retired /\ n.proposals = s.proposals
  BY <1>3, <1>4, <1>5 DEF SameAuthority, Revoked
<1>9. RegistrationsOK(ended) /\ (\A r \in s.registrations : DOMAIN r = RegistrationFields)
  BY <1>4, <1>7 DEF Good, RegistrationsOK
<1>10. \A q \in n.registrations : \E r \in s.registrations :
          /\ q.id = r.id /\ q.connection = r.connection /\ q.enrollment = r.enrollment
          /\ q.target = r.target /\ q.revision = r.revision
          /\ q.review = r.review /\ q.decision = r.decision
  BY <1>5, <1>7, <1>9, RevokedRegistrations
<1>11. ASSUME NEW r \in s.registrations PROVE \E q \in n.registrations : q.id = r.id
  <2>1. Forgets(r, slots) \in n.registrations
    BY <1>5, <1>7, <1>9, RevokedRegistrations
  <2>2. Forgets(r, slots).id = r.id
    BY <1>9, ForgetsEffect DEF RegistrationFields
  <2> QED
    BY <2>1, <2>2
<1> QED
  BY <1>1, <1>5, <1>6, <1>8, <1>10, <1>11 DEF Polled

\* An enrollment's grant is in the slot of a registration with its target.
LEMMA EnrollmentGrant ==
    ASSUME NEW s, Good(s), NEW g \in s.grants, g.slot \notin {Ordinary, Metadata}
    PROVE  /\ g.slot[1] = "Enrollment" /\ g.controls = {}
           /\ \E r \in s.registrations :
                 /\ r.connection = g.connection /\ r.enrollment # 0 /\ r.target \in Current(s)
                 /\ g.slot = Enrollment(r.id, r.enrollment) /\ g.sources = {r.target}
<1>1. g.slot[1] = "Enrollment"
  <2>1. g.slot \in Slots
    BY DEF Good, GrantsOK
  <2>2. g.slot[1] \in SlotKinds /\ g.slot[1] # "Ordinary" /\ g.slot[1] # "Metadata"
    BY <2>1, SlotsByKind
  <2> QED
    BY <2>2 DEF SlotKinds
<1>2. PICK r \in Enrolled(s, g.connection, g.slot) : g.sources = {r.target}
  BY <1>1 DEF Good, LiveOK
<1> QED
  BY <1>1, <1>2 DEF Enrolled, Good, GrantsOK

\* The value between invalidate_target's revocations: no registration is bound to
\* the target.
Loosened(s, ref) ==
    LET l == RevokeSlots(s, EnrollmentSlots(s, {r \in s.registrations : r.enrollment # 0 /\ r.target = ref}))
    IN  [l EXCEPT !.registrations = {r \in @ : r.enrollment = 0 \/ r.target # ref}]

\* Nothing names the target after invalidate_target.
LEMMA InvalidateEffect ==
    ASSUME NEW s, Good(s), NEW ref
    PROVE  LET n == InvalidateTarget(s, ref)
           IN  /\ Good(n) /\ Weaker(n, s)
               /\ n.principals = s.principals /\ n.retired = s.retired
               /\ \A g \in n.grants : ref \notin GrantTargets(g)
               /\ \A p \in n.pending : ref \notin GrantTargets(p)
               /\ \A r \in n.registrations : r.enrollment = 0 \/ r.target # ref
               /\ Good(Loosened(s, ref))
<1> DEFINE bound == {r \in s.registrations : r.enrollment # 0 /\ r.target = ref}
           l == RevokeSlots(s, EnrollmentSlots(s, bound))
           loose == [l EXCEPT !.registrations = {r \in @ : r.enrollment = 0 \/ r.target # ref}]
           slots == {<<g.connection, g.slot>> :
                         g \in {x \in loose.grants : /\ x.slot \in {Ordinary, Metadata}
                                                     /\ ref \in GrantTargets(x)}}
           freed == RevokeSlots(loose, slots)
           n == [freed EXCEPT !.pending = {p \in @ : ref \notin GrantTargets(p)}]
<1>1. n = InvalidateTarget(s, ref)
  BY DEF InvalidateTarget
<1>18. loose = Loosened(s, ref)
  BY DEF Loosened
<1>2. Good(l) /\ Weaker(l, s) /\ Revoked(l, s, EnrollmentSlots(s, bound))
  BY RevokeIsGood, RevokeIsWeaker, RevokeEffect DEF Good
<1>3. \A r \in bound : <<r.connection, Enrollment(r.id, r.enrollment)>> \in EnrollmentSlots(s, bound)
  BY DEF EnrollmentSlots
<1> HIDE DEF l
<1>4. /\ DOMAIN loose = Fields /\ (\A f \in Fields \ {"registrations"} : loose[f] = l[f])
      /\ loose.registrations = {r \in l.registrations : r.enrollment = 0 \/ r.target # ref}
  BY <1>2 DEF Revoked, Fields
<1>5. /\ loose.grants = l.grants /\ loose.pending = l.pending /\ loose.principals = l.principals
      /\ loose.targets = l.targets /\ loose.retired = l.retired
  BY <1>4 DEF Fields
<1>6. ASSUME NEW g \in l.grants, g.slot \notin {Ordinary, Metadata}
      PROVE  \E r \in l.registrations :
                 /\ r.connection = g.connection /\ r.enrollment # 0 /\ r.target \in Current(l)
                 /\ g.slot = Enrollment(r.id, r.enrollment) /\ g.sources = {r.target} /\ r.target # ref
  <2>1. PICK r \in l.registrations :
                 /\ r.connection = g.connection /\ r.enrollment # 0 /\ r.target \in Current(l)
                 /\ g.slot = Enrollment(r.id, r.enrollment) /\ g.sources = {r.target}
    BY <1>2, <1>6, EnrollmentGrant
  <2>2. r.target # ref
    <3> SUFFICES ASSUME r.target = ref PROVE FALSE
      OBVIOUS
    <3>1. PICK q \in s.registrations : /\ r.id = q.id /\ r.connection = q.connection
                                       /\ r.enrollment = q.enrollment /\ r.target = q.target
      BY <1>2 DEF Weaker
    <3>2. q \in bound
      BY <2>1, <3>1
    <3>3. <<g.connection, g.slot>> \in EnrollmentSlots(s, bound)
      BY <1>3, <2>1, <3>1, <3>2
    <3> QED
      BY <1>2, <3>3 DEF Revoked
  <2> QED
    BY <2>1, <2>2
<1> HIDE DEF loose, bound
<1>7. LiveOK(loose)
  <2>1. Current(loose) = Current(l)
    BY <1>5 DEF Current
  <2>2. \A g \in loose.grants : g.connection \in loose.principals /\ GrantTargets(g) \subseteq Current(loose)
    BY <1>2, <1>5, <2>1 DEF Good, LiveOK
  <2>3. ASSUME NEW g \in loose.grants, g.slot[1] = "Enrollment"
        PROVE  \E r \in Enrolled(loose, g.connection, g.slot) : g.sources = {r.target}
    <3>1. g.slot \notin {Ordinary, Metadata}
      BY <2>3, SlotsByKind
    <3>2. PICK r \in l.registrations :
                 /\ r.connection = g.connection /\ r.enrollment # 0 /\ r.target \in Current(l)
                 /\ g.slot = Enrollment(r.id, r.enrollment) /\ g.sources = {r.target} /\ r.target # ref
      BY <1>5, <1>6, <3>1
    <3>3. r \in loose.registrations
      BY <1>4, <3>2
    <3> QED
      BY <2>1, <3>2, <3>3 DEF Enrolled
  <2> QED
    BY <2>2, <2>3 DEF LiveOK
<1>8. Good(loose) /\ Weaker(loose, l)
  <2>1. loose.registrations \subseteq l.registrations /\ loose.pending \subseteq l.pending
    BY <1>4, <1>5
  <2> QED
    BY <1>2, <1>4, <1>7, <2>1, FewerIsGood
<1>9. Good(freed) /\ Weaker(freed, loose) /\ Revoked(freed, loose, slots)
  BY <1>8, RevokeIsGood, RevokeIsWeaker, RevokeEffect DEF Good
<1>10. \A g \in loose.grants : g.slot \in {Ordinary, Metadata} /\ ref \in GrantTargets(g)
                                  => <<g.connection, g.slot>> \in slots
  OBVIOUS
<1> HIDE DEF freed, slots
<1>11. \A g \in freed.grants : g \in l.grants /\ (g.slot \in {Ordinary, Metadata} => ref \notin GrantTargets(g))
  BY <1>5, <1>9, <1>10 DEF Revoked
<1>12. ASSUME NEW g \in freed.grants PROVE ref \notin GrantTargets(g)
  <2>1. CASE g.slot \in {Ordinary, Metadata}
    BY <1>11, <2>1
  <2>2. CASE g.slot \notin {Ordinary, Metadata}
    <3>1. g.controls = {}
      BY <1>9, <2>2, EnrollmentGrant
    <3>2. ref \notin g.sources
      BY <1>6, <1>11, <2>2
    <3> QED
      BY <3>1, <3>2 DEF GrantTargets
  <2> QED
    BY <2>1, <2>2
<1>13. \A r \in freed.registrations : r.enrollment = 0 \/ r.target # ref
  BY <1>4, <1>9 DEF Weaker
<1>14. Good(n) /\ Weaker(n, freed)
  <2>1. {p \in freed.pending : ref \notin GrantTargets(p)} \subseteq freed.pending
    OBVIOUS
  <2> QED
    BY <1>9, <2>1, FewerProposals
<1>15. /\ n.grants = freed.grants /\ n.registrations = freed.registrations
       /\ n.principals = freed.principals /\ n.retired = freed.retired
       /\ n.pending = {p \in freed.pending : ref \notin GrantTargets(p)}
  BY <1>9 DEF Good, Shape, Fields
<1>16. n.principals = s.principals /\ n.retired = s.retired
  BY <1>2, <1>5, <1>9, <1>15 DEF Revoked
<1> HIDE DEF n
<1>17. Weaker(n, s)
  BY <1>2, <1>8, <1>9, <1>14, WeakerChain
<1> QED
  BY <1>1, <1>8, <1>12, <1>13, <1>14, <1>15, <1>16, <1>17, <1>18

\* A client that is revoked holds no grant and has asked for none.
LEMMA ClientEffect ==
    ASSUME NEW s, Good(s), NEW c \in Connections
    PROVE  LET n == Revoke(s, c)
           IN  /\ Good(n) /\ Weaker(n, s)
               /\ n.principals = s.principals /\ n.retired = s.retired /\ n.proposals = s.proposals
               /\ \A g \in n.grants : g.connection # c
               /\ \A p \in n.pending : p.connection # c
<1> DEFINE mine == {r \in s.registrations : r.connection = c}
           slots == {<<c, Ordinary>>, <<c, Metadata>>} \cup EnrollmentSlots(s, mine)
           cut == RevokeSlots(s, slots)
           clear(r) == IF r.connection = c THEN [r EXCEPT !.review = 0, !.decision = {}] ELSE r
           n == [cut EXCEPT !.registrations = {clear(r) : r \in @},
                            !.pending = {p \in @ : p.connection # c}]
<1>1. n = Revoke(s, c)
  BY DEF Revoke
<1>2. Good(cut) /\ Weaker(cut, s) /\ Revoked(cut, s, slots)
  BY RevokeIsGood, RevokeIsWeaker, RevokeEffect DEF Good
<1>3. \A r \in s.registrations : r.connection = c /\ r.enrollment # 0
                                    => <<r.connection, Enrollment(r.id, r.enrollment)>> \in slots
  BY DEF EnrollmentSlots
<1>4. <<c, Ordinary>> \in slots /\ <<c, Metadata>> \in slots
  OBVIOUS
<1> HIDE DEF slots, cut
<1>5. ASSUME NEW g \in cut.grants PROVE g.connection # c
  <2> SUFFICES ASSUME g.connection = c PROVE FALSE
    OBVIOUS
  <2>1. g \in s.grants /\ <<g.connection, g.slot>> \notin slots
    BY <1>2 DEF Revoked
  <2>2. g.slot \notin {Ordinary, Metadata}
    BY <1>4, <2>1
  <2>3. PICK r \in s.registrations : /\ r.connection = g.connection /\ r.enrollment # 0
                                     /\ g.slot = Enrollment(r.id, r.enrollment)
    BY <2>1, <2>2, EnrollmentGrant
  <2> QED
    BY <1>3, <2>1, <2>3
<1>6. \A r \in cut.registrations : DOMAIN r = RegistrationFields
  BY <1>2 DEF Good, RegistrationsOK
<1>7. ASSUME NEW r \in cut.registrations
      PROVE  /\ DOMAIN clear(r) = RegistrationFields /\ clear(r).id = r.id
             /\ clear(r).connection = r.connection /\ clear(r).enrollment = r.enrollment
             /\ clear(r).revision = r.revision /\ clear(r).target = r.target
             /\ clear(r).consent = r.consent
             /\ clear(r).decision = {} \/ clear(r).decision = r.decision
  BY <1>6 DEF RegistrationFields
<1> HIDE DEF clear
<1>8. /\ DOMAIN n = Fields /\ n.registrations = {clear(r) : r \in cut.registrations}
      /\ n.pending = {p \in cut.pending : p.connection # c}
      /\ n.grants = cut.grants /\ n.principals = cut.principals /\ n.retired = cut.retired
      /\ n.revisions = cut.revisions /\ n.consent = cut.consent /\ n.proposals = cut.proposals
      /\ n.usage = cut.usage /\ n.minted = cut.minted /\ n.targets = cut.targets
      /\ n.forgotten = cut.forgotten
  BY <1>2 DEF Good, Shape, Fields
<1> HIDE DEF n
<1>9. Shape(n) /\ TargetsOK(n)
  BY <1>2, <1>8 DEF Good, Shape, TargetsOK
<1>10. Current(n) = Current(cut) /\ SameTargets(n, cut)
  BY <1>2, <1>8 DEF Current, Good, TargetsOK, SameTargets, SameReferences
<1>11. \A q \in n.registrations : \E r \in cut.registrations :
          /\ q = clear(r) /\ DOMAIN q = RegistrationFields
          /\ q.id = r.id /\ q.connection = r.connection /\ q.enrollment = r.enrollment
          /\ q.revision = r.revision /\ q.target = r.target /\ q.consent = r.consent
          /\ (q.decision = {} \/ q.decision = r.decision)
  BY <1>7, <1>8
<1>12. RegistrationsOK(n)
  <2>1. \A r \in n.registrations :
          /\ DOMAIN r = RegistrationFields /\ r.connection \in Connections
          /\ r.id \in Nat /\ r.revision \in Nat /\ r.enrollment \in Nat
          /\ r.id <= n.minted.registration /\ r.revision <= n.minted.registration
          /\ r.enrollment <= r.revision
    BY <1>2, <1>8, <1>11 DEF Good, RegistrationsOK
  <2>2. ASSUME NEW r \in n.registrations, NEW q \in n.registrations, r.id = q.id PROVE r = q
    <3>1. PICK r0 \in cut.registrations : r = clear(r0) /\ r.id = r0.id
      BY <1>11
    <3>2. PICK q0 \in cut.registrations : q = clear(q0) /\ q.id = q0.id
      BY <1>11
    <3>3. r0 = q0
      BY <1>2, <2>2, <3>1, <3>2 DEF Good, RegistrationsOK
    <3> QED
      BY <3>1, <3>2, <3>3
  <2> QED
    BY <2>1, <2>2 DEF RegistrationsOK
<1>13. \A k, x : Saw(cut, k, x) => Saw(n, k, x)
  BY <1>8 DEF Saw, SlotGrants, GrantsOf
<1>14. DecisionsOK(n)
  BY <1>2, <1>11, <1>13 DEF Good, DecisionsOK
<1>15. LiveOK(n)
  <2>1. \A g \in n.grants : g.connection \in n.principals /\ GrantTargets(g) \subseteq Current(n)
    BY <1>2, <1>8, <1>10 DEF Good, LiveOK
  <2>2. ASSUME NEW g \in n.grants, g.slot[1] = "Enrollment"
        PROVE  \E r \in Enrolled(n, g.connection, g.slot) : g.sources = {r.target}
    <3>1. PICK r \in Enrolled(cut, g.connection, g.slot) : g.sources = {r.target}
      BY <1>2, <1>8, <2>2 DEF Good, LiveOK
    <3>2. clear(r) \in n.registrations /\ r \in cut.registrations
      BY <1>8, <3>1 DEF Enrolled
    <3>3. clear(r) \in Enrolled(n, g.connection, g.slot)
      BY <1>7, <1>10, <3>1, <3>2 DEF Enrolled
    <3> QED
      BY <1>7, <3>1, <3>2, <3>3
  <2> QED
    BY <2>1, <2>2 DEF LiveOK
<1>16. Good(n)
  <2>1. n.pending \subseteq cut.pending
    BY <1>8
  <2> QED
    BY <1>2, <1>8, <1>9, <1>10, <1>11, <1>12, <1>14, <1>15, <2>1, RevisedIsGood
<1>17. Weaker(n, cut)
  BY <1>8, <1>10, <1>11, <1>13 DEF Weaker
<1>18. Weaker(n, s)
  BY <1>2, <1>17, WeakerChain
<1> QED
  BY <1>1, <1>2, <1>5, <1>8, <1>16, <1>18 DEF Revoked

\* A disconnection keeps the invariant and only takes away.
LEMMA DisconnectEffect ==
    ASSUME NEW s, Good(s), NEW c \in Connections
    PROVE  Good(Disconnected(s, c)) /\ Weaker(Disconnected(s, c), s)
<1> DEFINE cut == Revoke(s, c)
           n == Disconnected(s, c)
<1>1. /\ Good(cut) /\ Weaker(cut, s)
      /\ \A g \in cut.grants : g.connection # c
      /\ \A p \in cut.pending : p.connection # c
  BY ClientEffect
<1>2. /\ DOMAIN n = Fields /\ n.principals = cut.principals \ {c} /\ n.retired = cut.retired \cup {c}
      /\ n.registrations = {r \in cut.registrations : r.connection # c}
      /\ n.grants = cut.grants /\ n.pending = cut.pending
      /\ n.revisions = cut.revisions /\ n.consent = cut.consent /\ n.proposals = cut.proposals
      /\ n.usage = cut.usage /\ n.minted = cut.minted /\ n.targets = cut.targets
      /\ n.forgotten = cut.forgotten
  <2>1. DOMAIN cut = Fields
    BY <1>1 DEF Good, Shape
  <2> HIDE DEF cut
  <2>2. n = [cut EXCEPT !.principals = @ \ {c},
                        !.retired = @ \cup {c},
                        !.registrations = {r \in @ : r.connection # c},
                        !.runs = [r \in {x \in DOMAIN @ : @[x].connection # c} |-> @[r]],
                        !.starts = {x \in @ : x.connection # c}]
    BY DEF Disconnected, cut
  <2> HIDE DEF n
  <2> QED
    BY <2>1, <2>2 DEF Fields
<1> HIDE DEF n, cut
<1>3. Shape(n) /\ TargetsOK(n)
  BY <1>1, <1>2 DEF Good, Shape, TargetsOK
<1>4. Current(n) = Current(cut) /\ SameTargets(n, cut)
  BY <1>1, <1>2 DEF Current, Good, TargetsOK, SameTargets, SameReferences
<1>5. GrantsOK(n) /\ RegistrationsOK(n)
  BY <1>1, <1>2 DEF Good, GrantsOK, RegistrationsOK
<1>6. LiveOK(n)
  BY <1>1, <1>2, <1>4 DEF Good, LiveOK, Enrolled
<1>7. PendingOK(n)
  BY <1>1, <1>2, <1>4 DEF Good, PendingOK, GrantsOf
<1>8. ConsentOK(n)
  BY <1>1, <1>2 DEF Good, ConsentOK, SlotGrants, GrantsOf
<1>9. \A k, x : Saw(cut, k, x) => Saw(n, k, x)
  BY <1>2 DEF Saw, SlotGrants, GrantsOf
<1>10. DecisionsOK(n)
  BY <1>1, <1>2, <1>9 DEF Good, DecisionsOK
<1>11. Weaker(n, cut)
  BY <1>2, <1>4, <1>9 DEF Weaker
<1> QED
  BY <1>1, <1>3, <1>5, <1>6, <1>7, <1>8, <1>10, <1>11, WeakerChain DEF n, Good

-----------------------------------------------------------------------------
(* References and tokens that the application still has. *)

\* n follows s: no reference comes back, and a registration is the one of
\* before, with its association or with a newer revision, or has a new id.
Follows(n, s) ==
    /\ n.minted.registration >= s.minted.registration
    /\ n.forgotten = s.forgotten /\ SameReferences(n, s)
    /\ \A c \in Connections : \A x : Saw(s, c, x) => Saw(n, c, x)
    /\ \A q \in n.registrations :
          \/ q.id > s.minted.registration
          \/ \E r \in s.registrations :
                /\ q.id = r.id /\ q.connection = r.connection
                /\ (q.revision = r.revision /\ q.enrollment = r.enrollment) \/ q.revision > r.revision

\* The application's tokens stay as truthful as they were.
LEMMA FollowsKeepsTokens ==
    ASSUME NEW s, NEW n, Good(s), Good(n), Follows(n, s), NEW ts, TokensOK(s, ts)
    PROVE  TokensOK(n, ts)
<1> SUFFICES ASSUME NEW t \in ts
             PROVE  (t.kind = "enroll" => CandidateOK(n, t)) /\ (t.kind = "review" => ReviewOK(n, t))
  BY DEF TokensOK
<1>1. n.minted.registration \in Nat /\ s.minted.registration \in Nat /\ n.minted.registration >= s.minted.registration
  BY DEF Good, Shape, MintKinds, Follows
<1>2. /\ \A r \in s.registrations : r.revision \in Nat /\ r.id \in Nat /\ r.enrollment \in Nat
      /\ \A r \in n.registrations : r.revision \in Nat /\ r.id \in Nat /\ r.enrollment \in Nat
  BY DEF Good, RegistrationsOK
<1>3. ASSUME t.kind = "enroll" PROVE CandidateOK(n, t)
  <2>1. CandidateOK(s, t)
    BY <1>3 DEF TokensOK
  <2>2. t.id \in Nat /\ t.id <= n.minted.registration /\ t.revision \in Nat /\ t.id <= s.minted.registration
    BY <1>1, <2>1 DEF CandidateOK
  <2>3. ASSUME NEW q \in n.registrations, q.id = t.id
        PROVE  t.revision <= q.revision /\ (t.revision = q.revision => q.enrollment < q.revision)
    <3>1. PICK r \in s.registrations :
              /\ q.id = r.id
              /\ (q.revision = r.revision /\ q.enrollment = r.enrollment) \/ q.revision > r.revision
      BY <1>1, <1>2, <2>2, <2>3 DEF Follows
    <3>2. t.revision <= r.revision /\ (t.revision = r.revision => r.enrollment < r.revision)
      BY <2>1, <2>3, <3>1 DEF CandidateOK
    <3> QED
      BY <1>2, <2>2, <3>1, <3>2
  <2> QED
    BY <2>2, <2>3 DEF CandidateOK
<1>4. ASSUME t.kind = "review" PROVE ReviewOK(n, t)
  <2>1. ReviewOK(s, t)
    BY <1>4 DEF TokensOK
  <2>2. /\ t.id \in Nat /\ t.id <= n.minted.registration /\ t.id <= s.minted.registration
        /\ t.connection \in Connections
    BY <1>1, <2>1 DEF ReviewOK
  <2>3. Saw(n, t.connection, t)
    BY <2>1 DEF ReviewOK, Follows
  <2>4. ASSUME NEW q \in n.registrations, q.id = t.id PROVE q.connection = t.connection
    <3>1. PICK r \in s.registrations : q.id = r.id /\ q.connection = r.connection
      BY <1>1, <1>2, <2>2, <2>4 DEF Follows
    <3> QED
      BY <2>1, <2>4, <3>1 DEF ReviewOK
  <2> QED
    BY <2>2, <2>3, <2>4 DEF ReviewOK
<1> QED
  BY <1>3, <1>4

\* A closed reference stays behind the attachment of now.
LEMMA FollowsKeepsClosed ==
    ASSUME NEW s, NEW n, SameReferences(n, s), n.forgotten = s.forgotten, NEW refs, ClosedOK(s, refs)
    PROVE  ClosedOK(n, refs)
BY DEF ClosedOK, SameReferences

\* Steps that follow one another compose.
LEMMA FollowsChain ==
    ASSUME NEW s, NEW m, NEW n, Good(s), Good(m), Good(n), Follows(m, s), Follows(n, m)
    PROVE  Follows(n, s)
<1>1. SameReferences(n, s) /\ n.forgotten = s.forgotten
  BY DEF Follows, SameReferences
<1>2. \A c \in Connections : \A x : Saw(s, c, x) => Saw(n, c, x)
  BY DEF Follows
<1>3. /\ s.minted.registration \in Nat /\ m.minted.registration \in Nat /\ n.minted.registration \in Nat
      /\ m.minted.registration >= s.minted.registration /\ n.minted.registration >= m.minted.registration
  BY DEF Good, Shape, MintKinds, Follows
<1>4. /\ \A r \in s.registrations : r.revision \in Nat /\ r.id \in Nat
      /\ \A r \in m.registrations : r.revision \in Nat /\ r.id \in Nat
      /\ \A r \in n.registrations : r.revision \in Nat /\ r.id \in Nat
  BY DEF Good, RegistrationsOK
<1>5. ASSUME NEW q \in n.registrations
      PROVE  \/ q.id > s.minted.registration
             \/ \E r \in s.registrations :
                   /\ q.id = r.id /\ q.connection = r.connection
                   /\ (q.revision = r.revision /\ q.enrollment = r.enrollment) \/ q.revision > r.revision
  <2>1. CASE q.id > m.minted.registration
    BY <1>3, <1>4, <2>1
  <2>2. ASSUME NEW p \in m.registrations, q.id = p.id, q.connection = p.connection,
               (q.revision = p.revision /\ q.enrollment = p.enrollment) \/ q.revision > p.revision
        PROVE  \/ q.id > s.minted.registration
               \/ \E r \in s.registrations :
                     /\ q.id = r.id /\ q.connection = r.connection
                     /\ (q.revision = r.revision /\ q.enrollment = r.enrollment) \/ q.revision > r.revision
    <3>1. CASE p.id > s.minted.registration
      BY <2>2, <3>1
    <3>2. ASSUME NEW r \in s.registrations, p.id = r.id, p.connection = r.connection,
                 (p.revision = r.revision /\ p.enrollment = r.enrollment) \/ p.revision > r.revision
          PROVE  \E r1 \in s.registrations :
                     /\ q.id = r1.id /\ q.connection = r1.connection
                     /\ (q.revision = r1.revision /\ q.enrollment = r1.enrollment) \/ q.revision > r1.revision
      <4>1. (q.revision = r.revision /\ q.enrollment = r.enrollment) \/ q.revision > r.revision
        BY <1>4, <2>2, <3>2
      <4> QED
        BY <2>2, <3>2, <4>1
    <3> QED
      BY <3>1, <3>2 DEF Follows
  <2> QED
    BY <2>1, <2>2 DEF Follows
<1> QED
  BY <1>1, <1>2, <1>3, <1>5 DEF Follows

\* A revocation brings nothing back.
LEMMA WeakerFollows ==
    ASSUME NEW s, NEW n, Good(s), Weaker(n, s) PROVE Follows(n, s)
<1>1. n.minted.registration >= s.minted.registration
  BY DEF Good, Shape, MintKinds, Weaker
<1> QED
  BY <1>1 DEF Weaker, SameTargets, Follows

\* Nor does minting an id.
LEMMA MintFollows ==
    ASSUME NEW s, Good(s), NEW kind \in MintKinds PROVE Follows(Mint(s, kind), s)
<1> DEFINE n == Mint(s, kind)
<1>1. /\ \A f \in Fields \ {"minted"} : n[f] = s[f]
      /\ n.minted.registration >= s.minted.registration
  BY MintEffect DEF Good, Shape, MintKinds
<1> HIDE DEF n
<1>2. /\ n.grants = s.grants /\ n.registrations = s.registrations /\ n.targets = s.targets
      /\ n.forgotten = s.forgotten /\ n.revisions = s.revisions
  BY <1>1 DEF Fields
<1>3. SameReferences(n, s)
  BY <1>2 DEF Good, TargetsOK, SameReferences
<1>4. \A c, x : Saw(s, c, x) => Saw(n, c, x)
  BY <1>2 DEF Saw, SlotGrants, GrantsOf
<1>5. Follows(n, s)
  BY <1>1, <1>2, <1>3, <1>4 DEF Follows
<1> QED
  BY <1>5 DEF n

\* What every step but an attachment and a closure does.
LEMMA Moves ==
    ASSUME BrokerInv, Good(b'), Follows(b', b), now' = now, tokens' = tokens, closed' = closed
    PROVE  BrokerInv'
<1>1. TokensOK(b', tokens)
  BY FollowsKeepsTokens DEF BrokerInv
<1>2. ClosedOK(b', closed)
  BY FollowsKeepsClosed DEF BrokerInv, Follows
<1> QED
  BY <1>1, <1>2 DEF BrokerInv

\* A method that only takes away keeps the whole invariant.
LEMMA WeakerMoves ==
    ASSUME BrokerInv, Good(b'), Weaker(b', b), Keep PROVE BrokerInv'
<1>1. Good(b) /\ now' = now /\ tokens' = tokens /\ closed' = closed
  BY DEF BrokerInv, Keep
<1>2. Follows(b', b)
  BY <1>1, WeakerFollows
<1> QED
  BY <1>1, <1>2, Moves

\* The same authority, up to runs and owners.
LEMMA SameFollows ==
    ASSUME NEW s, NEW n, Good(s), SameAuthority(n, s), SameReferences(n, s)
    PROVE  Good(n) /\ Follows(n, s)
<1>1. Good(n)
  BY SameIsGood
<1>2. \A c, x : Saw(s, c, x) => Saw(n, c, x)
  BY DEF SameAuthority, Saw, SlotGrants, GrantsOf
<1>3. n.minted.registration >= s.minted.registration
  BY DEF Good, Shape, MintKinds, SameAuthority
<1> QED
  BY <1>1, <1>2, <1>3 DEF SameAuthority, Follows

-----------------------------------------------------------------------------
(* Every method keeps the invariant: connections, revocation and time. *)

\* accept_connection keeps the invariant.
LEMMA AcceptStep ==
    ASSUME BrokerInv, NEW c \in Connections, AcceptConnection(c) PROVE BrokerInv'
<1>1. Good(b) /\ DOMAIN b = Fields /\ Keep
  BY DEF BrokerInv, Good, Shape, AcceptConnection
<1>2. b' = [b EXCEPT !.principals = @ \cup {c}]
  BY DEF AcceptConnection
<1>3. /\ DOMAIN b' = Fields /\ b'.principals = b.principals \cup {c} /\ b'.retired = b.retired
      /\ b'.grants = b.grants /\ b'.pending = b.pending /\ b'.registrations = b.registrations
      /\ b'.revisions = b.revisions /\ b'.consent = b.consent /\ b'.proposals = b.proposals
      /\ b'.usage = b.usage /\ b'.minted = b.minted /\ b'.targets = b.targets
      /\ b'.forgotten = b.forgotten
  BY <1>1, <1>2 DEF Fields
<1>4. Current(b') = Current(b) /\ SameTargets(b', b)
  BY <1>1, <1>3 DEF Current, Good, TargetsOK, SameTargets, SameReferences
<1>5. Shape(b') /\ TargetsOK(b') /\ GrantsOK(b') /\ RegistrationsOK(b')
  BY <1>1, <1>3 DEF Good, Shape, TargetsOK, GrantsOK, RegistrationsOK
<1>6. LiveOK(b')
  BY <1>1, <1>3, <1>4 DEF Good, LiveOK, Enrolled
<1>7. PendingOK(b')
  BY <1>1, <1>3, <1>4 DEF Good, PendingOK, GrantsOf
<1>8. ConsentOK(b') /\ DecisionsOK(b')
  BY <1>1, <1>3 DEF Good, ConsentOK, DecisionsOK, Saw, SlotGrants, GrantsOf
<1>9. \A k, x : Saw(b, k, x) => Saw(b', k, x)
  BY <1>3 DEF Saw, SlotGrants, GrantsOf
<1>10. Weaker(b', b)
  BY <1>3, <1>4, <1>9 DEF Weaker
<1> QED
  BY <1>1, <1>5, <1>6, <1>7, <1>8, <1>10, WeakerMoves DEF Good

\* disconnect keeps the invariant.
LEMMA DisconnectStep ==
    ASSUME BrokerInv, NEW c \in Connections, Disconnect(c) PROVE BrokerInv'
<1>1. Good(b) /\ b' = Disconnected(b, c) /\ Keep
  BY DEF BrokerInv, Disconnect
<1>2. Good(b') /\ Weaker(b', b)
  BY <1>1, DisconnectEffect
<1> QED
  BY <1>1, <1>2, WeakerMoves

\* A method that revokes some slots keeps the invariant.
LEMMA RevokeStep ==
    ASSUME BrokerInv, NEW slots, b' = RevokeSlots(b, slots), Keep PROVE BrokerInv'
<1>1. Good(b') /\ Weaker(b', b)
  BY RevokeIsGood, RevokeIsWeaker DEF BrokerInv
<1> QED
  BY <1>1, WeakerMoves

\* revoke keeps the invariant.
LEMMA RevokeConnectionStep ==
    ASSUME BrokerInv, NEW c \in Connections, RevokeConnection(c) PROVE BrokerInv'
<1>1. Good(b) /\ b' = Revoke(b, c) /\ Keep
  BY DEF BrokerInv, RevokeConnection
<1>2. Good(b') /\ Weaker(b', b)
  BY <1>1, ClientEffect
<1> QED
  BY <1>1, <1>2, WeakerMoves

\* revoke_all keeps the invariant.
LEMMA RevokeAllStep ==
    ASSUME BrokerInv, RevokeAll PROVE BrokerInv'
<1> DEFINE slots == {<<c, slot>> : c \in b.principals, slot \in {Ordinary, Metadata}}
                       \cup EnrollmentSlots(b, b.registrations)
           cut == RevokeSlots(b, slots)
<1>1. Good(b) /\ Keep /\ b' = [cut EXCEPT !.registrations = {}, !.pending = {}]
  BY DEF BrokerInv, RevokeAll
<1>2. Good(cut) /\ Weaker(cut, b) /\ Revoked(cut, b, slots)
  BY <1>1, RevokeIsGood, RevokeIsWeaker, RevokeEffect DEF Good
<1>3. \A r \in b.registrations : r.enrollment # 0 => <<r.connection, Enrollment(r.id, r.enrollment)>> \in slots
  BY DEF EnrollmentSlots
<1>4. \A c \in b.principals : <<c, Ordinary>> \in slots /\ <<c, Metadata>> \in slots
  OBVIOUS
<1> HIDE DEF slots, cut
<1>5. ASSUME NEW g \in cut.grants PROVE FALSE
  <2>1. g \in b.grants /\ <<g.connection, g.slot>> \notin slots /\ g.connection \in b.principals
    BY <1>1, <1>2 DEF Revoked, Good, LiveOK
  <2>2. g.slot \notin {Ordinary, Metadata}
    BY <1>4, <2>1
  <2>3. PICK r \in b.registrations : /\ r.connection = g.connection /\ r.enrollment # 0
                                     /\ g.slot = Enrollment(r.id, r.enrollment)
    BY <1>1, <2>1, <2>2, EnrollmentGrant
  <2> QED
    BY <1>3, <2>1, <2>3
<1>6. /\ DOMAIN b' = Fields /\ (\A f \in Fields \ {"registrations", "pending"} : b'[f] = cut[f])
      /\ b'.registrations = {} /\ b'.pending = {}
  BY <1>1, <1>2 DEF Revoked, Fields
<1>7. b'.grants = {}
  BY <1>5, <1>6 DEF Fields
<1>8. LiveOK(b')
  BY <1>7 DEF LiveOK
<1>9. Good(b') /\ Weaker(b', cut)
  BY <1>2, <1>6, <1>8, FewerIsGood
<1>10. Weaker(b', b)
  BY <1>2, <1>9, WeakerChain
<1> QED
  BY <1>1, <1>9, <1>10, WeakerMoves

\* poll_expiry as a method keeps the invariant.
LEMMA PollExpiryMoves ==
    ASSUME BrokerInv, PollExpiryStep PROVE BrokerInv'
<1>1. Good(b) /\ b' = PollExpiry(b) /\ Keep
  BY DEF BrokerInv, PollExpiryStep
<1>2. Good(b') /\ Weaker(b', b)
  <2>1. Polled(b', b)
    BY <1>1, PollEffect
  <2> QED
    BY <2>1 DEF Polled
<1> QED
  BY <1>1, <1>2, WeakerMoves

\* The passing of time keeps the invariant.
LEMMA TickStep ==
    ASSUME BrokerInv, Tick PROVE BrokerInv'
<1>1. b' = b /\ tokens' = tokens /\ closed' = closed /\ now < MaxTime /\ now' = now + 1
  BY DEF Tick
<1>2. now' \in 0 .. MaxTime
  BY <1>1, BrokerAssumption DEF BrokerInv
<1> QED
  BY <1>1, <1>2 DEF BrokerInv

\* reject keeps the invariant.
LEMMA RejectStep ==
    ASSUME BrokerInv, NEW p, RejectApproval(p) PROVE BrokerInv'
<1>1. Good(b) /\ Keep /\ b' = [b EXCEPT !.pending = b.pending \ {p}]
  BY DEF BrokerInv, RejectApproval
<1>2. b.pending \ {p} \subseteq b.pending
  OBVIOUS
<1>3. Good(b') /\ Weaker(b', b)
  BY <1>1, <1>2, FewerProposals
<1> QED
  BY <1>1, <1>3, WeakerMoves

-----------------------------------------------------------------------------
(* Proposals. *)

\* prepare_ordinary_enrollment_review keeps the invariant.
LEMMA PrepareOrdinaryStep ==
    ASSUME BrokerInv, NEW p, NEW sinks, PrepareOrdinaryEnrollmentReview(p, sinks) PROVE BrokerInv'
<1>1. b' = b /\ now' = now /\ closed' = closed
  BY DEF PrepareOrdinaryEnrollmentReview
<1> DEFINE t == [kind |-> "ordinary", id |-> p.id, revisions |-> p.revisions,
                 epoch |-> {g.epoch : g \in SlotGrants(b, p.connection, Ordinary)},
                 sources |-> EnrollmentMetadataSources(b, p.connection), sinks |-> sinks]
<1>2. tokens' = tokens \cup {t} /\ t.kind = "ordinary"
  BY DEF PrepareOrdinaryEnrollmentReview
<1> HIDE DEF t
<1>3. TokensOK(b, tokens \cup {t})
  BY <1>2 DEF BrokerInv, TokensOK
<1> QED
  BY <1>1, <1>2, <1>3 DEF BrokerInv

\* A proposal made against the grants of now keeps the invariant.
LEMMA ProposalIsGood ==
    ASSUME NEW s, Good(s), NEW c \in s.principals, s.proposals[c] < ProposalsPerConnection,
           NEW slot, NEW scope, NEW snapshot, GrantTargets(scope) \subseteq Current(s)
    PROVE  LET n == RequestPending(s, c, Pending(s, c, slot, scope, snapshot))
           IN  Good(n) /\ Follows(n, s)
<1> DEFINE p == Pending(s, c, slot, scope, snapshot)
           m == Mint(s, "approval")
           n == RequestPending(s, c, p)
<1>1. Good(m) /\ Follows(m, s) /\ (\A f \in Fields \ {"minted"} : m[f] = s[f])
  BY MintIsGood, MintFollows, MintEffect DEF Good, MintKinds
<1>2. /\ p.connection = c /\ p.revisions = s.revisions[c] /\ p.seen = {g.epoch : g \in GrantsOf(s, c)}
      /\ GrantTargets(p) = GrantTargets(scope)
  BY DEF Pending, GrantTargets
<1>3. n = [m EXCEPT !.pending = @ \cup {p}, !.proposals[c] = @ + 1]
  BY DEF RequestPending
<1> HIDE DEF p, m, n
<1>4. /\ DOMAIN n = Fields /\ n.pending = m.pending \cup {p}
      /\ n.proposals = [m.proposals EXCEPT ![c] = @ + 1]
      /\ n.grants = m.grants /\ n.principals = m.principals /\ n.retired = m.retired
      /\ n.revisions = m.revisions /\ n.consent = m.consent /\ n.registrations = m.registrations
      /\ n.usage = m.usage /\ n.minted = m.minted /\ n.targets = m.targets
      /\ n.forgotten = m.forgotten
  BY <1>1, <1>3 DEF Good, Shape, Fields
<1>5. /\ m.principals = s.principals /\ m.proposals = s.proposals /\ m.targets = s.targets
      /\ m.revisions = s.revisions /\ m.grants = s.grants
  BY <1>1 DEF Fields
<1>6. n.proposals \in [Connections -> 0 .. ProposalsPerConnection]
  <2>1. s.proposals \in [Connections -> 0 .. ProposalsPerConnection]
    BY DEF Good, Shape
  <2>2. s.proposals[c] + 1 \in 0 .. ProposalsPerConnection
    BY <2>1, GrantAssumption DEF Good, Shape
  <2> QED
    BY <1>4, <1>5, <2>1, <2>2, ZenonT(40)
<1>7. Shape(n) /\ TargetsOK(n) /\ GrantsOK(n) /\ RegistrationsOK(n)
  BY <1>1, <1>4, <1>6 DEF Good, Shape, TargetsOK, GrantsOK, RegistrationsOK
<1>8. Current(n) = Current(m) /\ Current(m) = Current(s) /\ SameReferences(n, m)
  BY <1>1, <1>4, <1>5 DEF Current, Good, TargetsOK, SameReferences
<1>9. LiveOK(n) /\ ConsentOK(n) /\ DecisionsOK(n)
  <2>1. LiveOK(n)
    BY <1>1, <1>4, <1>8 DEF Good, LiveOK, Enrolled
  <2>2. ConsentOK(n) /\ DecisionsOK(n)
    BY <1>1, <1>4 DEF Good, ConsentOK, DecisionsOK, Saw, SlotGrants, GrantsOf
  <2> QED
    BY <2>1, <2>2
<1>10. PendingOK(n)
  <2> SUFFICES ASSUME NEW q \in n.pending
               PROVE  /\ q.connection \in n.principals
                      /\ q.revisions = n.revisions[q.connection]
                      /\ q.seen = {g.epoch : g \in GrantsOf(n, q.connection)}
                      /\ GrantTargets(q) \subseteq Current(n)
    BY DEF PendingOK
  <2>1. CASE q = p
    BY <1>2, <1>4, <1>5, <1>8, <2>1 DEF GrantsOf
  <2>2. CASE q \in m.pending
    BY <1>1, <1>4, <1>8, <2>2 DEF Good, PendingOK, GrantsOf
  <2> QED
    BY <1>4, <2>1, <2>2
<1>11. Good(n)
  BY <1>7, <1>9, <1>10 DEF Good
<1>12. Follows(n, m)
  <2>1. \A k, x : Saw(m, k, x) => Saw(n, k, x)
    BY <1>4 DEF Saw, SlotGrants, GrantsOf
  <2>2. n.minted.registration >= m.minted.registration
    BY <1>1, <1>4 DEF Good, Shape, MintKinds
  <2> QED
    BY <1>4, <1>8, <2>1, <2>2 DEF Follows
<1>13. Follows(n, s)
  BY <1>1, <1>11, <1>12, FollowsChain
<1> QED
  BY <1>11, <1>13 DEF n, p

\* A proposal after the leading poll_expiry.
LEMMA PolledProposal ==
    ASSUME BrokerInv, NEW s, s = PollExpiry(b), NEW c, MayPropose(s, c),
           NEW slot, NEW scope, NEW snapshot, GrantTargets(scope) \subseteq Current(s),
           b' = RequestPending(s, c, Pending(s, c, slot, scope, snapshot))
    PROVE  Good(b') /\ Follows(b', b)
<1>1. Good(b) /\ Good(s) /\ Follows(s, b)
  <2>1. Good(b) /\ Polled(s, b)
    BY PollEffect DEF BrokerInv
  <2> QED
    BY <2>1, WeakerFollows DEF Polled
<1>2. c \in s.principals /\ s.proposals[c] < ProposalsPerConnection
  BY DEF MayPropose
<1>3. Good(b') /\ Follows(b', s)
  BY <1>1, <1>2, ProposalIsGood
<1> QED
  BY <1>1, <1>3, FollowsChain

\* request_approval keeps the invariant.
LEMMA RequestApprovalStep ==
    ASSUME BrokerInv, NEW c \in Connections, NEW t, RequestApproval(c, t) PROVE BrokerInv'
<1> DEFINE s == PollExpiry(b)
           scope == Resolve(s, t)
<1>1. /\ MayPropose(s, c) /\ Keep
      /\ b' = RequestPending(s, c, Pending(s, c, Ordinary, scope, OwnershipSnapshot(s, scope.controls)))
  BY DEF RequestApproval
<1> HIDE DEF s
<1>2. GrantTargets(scope) \subseteq Current(s)
  BY DEF GrantTargets, Resolve
<1> HIDE DEF scope
<1>3. Good(b') /\ Follows(b', b)
  BY <1>1, <1>2, PolledProposal DEF s
<1> QED
  BY <1>1, <1>3, Moves DEF Keep

\* request_metadata keeps the invariant.
LEMMA RequestMetadataStep ==
    ASSUME BrokerInv, NEW c \in Connections, NEW refs, RequestMetadataApproval(c, refs) PROVE BrokerInv'
<1> DEFINE s == PollExpiry(b)
           scope == [NoScope EXCEPT !.sources = refs]
<1>1. /\ MayPropose(s, c) /\ Keep /\ refs \subseteq Current(s)
      /\ b' = RequestPending(s, c, Pending(s, c, Metadata, scope, OwnershipSnapshot(s, Controls(s, c))))
  BY DEF RequestMetadataApproval
<1> HIDE DEF s
<1>2. GrantTargets(scope) \subseteq Current(s)
  BY <1>1 DEF GrantTargets, NoScope
<1> HIDE DEF scope
<1>3. Good(b') /\ Follows(b', b)
  BY <1>1, <1>2, PolledProposal DEF s
<1> QED
  BY <1>1, <1>3, Moves DEF Keep

\* request_enrollment_metadata keeps the invariant.
LEMMA RequestEnrollmentStep ==
    ASSUME BrokerInv, NEW r, RequestEnrollmentMetadataApproval(r) PROVE BrokerInv'
<1> DEFINE s == PollExpiry(b)
           c == r.connection
           slot == Enrollment(r.id, r.enrollment)
           scope == [NoScope EXCEPT !.sources = {r.target}]
<1>1. /\ MayPropose(s, c) /\ r.target \in Current(s) /\ now' = now /\ closed' = closed
      /\ b' = RequestPending(s, c, Pending(s, c, slot, scope, OwnershipSnapshot(s, Controls(s, c))))
  BY DEF RequestEnrollmentMetadataApproval
<1> DEFINE t == [kind |-> "grant",
                 id |-> Pending(s, c, slot, scope, OwnershipSnapshot(s, Controls(s, c))).id,
                 controls |-> Controls(s, c),
                 control |-> {g.epoch : g \in {x \in SlotGrants(s, c, Ordinary) : x.controls # {}}}]
<1>2. tokens' = tokens \cup {t} /\ t.kind = "grant"
  BY DEF RequestEnrollmentMetadataApproval
<1> HIDE DEF s, t
<1>3. GrantTargets(scope) \subseteq Current(s)
  BY <1>1 DEF GrantTargets, NoScope
<1> HIDE DEF scope, slot, c
<1>4. Good(b') /\ Follows(b', b)
  BY <1>1, <1>3, PolledProposal DEF s
<1>5. TokensOK(b', tokens)
  BY <1>4, FollowsKeepsTokens DEF BrokerInv
<1>6. TokensOK(b', tokens')
  BY <1>2, <1>5 DEF TokensOK
<1>7. ClosedOK(b', closed)
  BY <1>4, FollowsKeepsClosed DEF BrokerInv, Follows
<1> QED
  BY <1>1, <1>4, <1>6, <1>7 DEF BrokerInv

-----------------------------------------------------------------------------
(* Targets. *)

\* A current reference is an attached session with its generation.
LEMMA CurrentRefs ==
    ASSUME NEW s, TargetsOK(s), NEW ref \in Current(s)
    PROVE  /\ ref = Ref(ref.session, ref.generation) /\ ref \in Refs
           /\ ref.session \in DOMAIN s.targets /\ s.targets[ref.session].active
           /\ s.targets[ref.session].generation = ref.generation
<1>1. PICK x \in DOMAIN s.targets : s.targets[x].active /\ ref = Ref(x, s.targets[x].generation)
  BY DEF Current
<1>2. x \in Sessions /\ s.targets[x].generation \in 1 .. MaxGeneration
  BY DEF TargetsOK
<1>3. ref.session = x /\ ref.generation = s.targets[x].generation
  BY <1>1 DEF Ref
<1> QED
  BY <1>1, <1>2, <1>3 DEF Ref, Refs

\* A closed reference is not current.
LEMMA ClosedIsNotCurrent ==
    ASSUME NEW s, TargetsOK(s), NEW refs, ClosedOK(s, refs)
    PROVE  Current(s) \cap refs = {}
<1> SUFFICES ASSUME NEW ref \in Current(s), ref \in refs PROVE FALSE
  OBVIOUS
<1>1. /\ ref.session \in DOMAIN s.targets /\ s.targets[ref.session].active
      /\ s.targets[ref.session].generation = ref.generation
  BY CurrentRefs
<1> QED
  BY <1>1 DEF ClosedOK

\* human_takeover keeps the invariant.
LEMMA TakeoverStep ==
    ASSUME BrokerInv, NEW ref \in Current(b), HumanTakeover(ref) PROVE BrokerInv'
<1> DEFINE m == Mint(b, "ownership")
           slots == {<<g.connection, Ordinary>> :
                        g \in {g \in b.grants : g.slot = Ordinary /\ ref \in g.controls}}
           r == RevokeSlots(m, slots)
<1>1. Good(b) /\ Keep /\ b' = [r EXCEPT !.targets[ref.session].epoch = m.minted.ownership,
                                         !.targets[ref.session].writer = {}]
  BY DEF BrokerInv, HumanTakeover
<1> HIDE DEF slots
<1>2. Good(m) /\ Follows(m, b)
  BY <1>1, MintIsGood, MintFollows DEF MintKinds
<1>3. Good(r) /\ Follows(r, m)
  <2> HIDE DEF m
  <2> QED
    BY <1>2, RevokeIsGood, RevokeIsWeaker, WeakerFollows
<1>4. ref.session \in DOMAIN b.targets
  BY <1>1, CurrentRefs DEF Good
<1> HIDE DEF r, m
<1>5. /\ DOMAIN b' = Fields /\ b'.targets = [r.targets EXCEPT ![ref.session].epoch = m.minted.ownership,
                                                             ![ref.session].writer = {}]
      /\ SameAuthority(b', r)
  BY <1>1, <1>3 DEF Good, Shape, Fields, SameAuthority
<1>6. \A x \in DOMAIN r.targets : DOMAIN r.targets[x] = TargetFields
  BY <1>3 DEF Good, TargetsOK
<1>7. SameReferences(b', r)
  BY <1>5, <1>6 DEF SameReferences, TargetFields
<1>8. Good(b') /\ Follows(b', r)
  BY <1>3, <1>5, <1>7, SameFollows
<1>9. Follows(b', b)
  BY <1>1, <1>2, <1>3, <1>8, FollowsChain
<1> QED
  BY <1>1, <1>8, <1>9, Moves DEF Keep

\* Targets that no authority names may change at will.
LEMMA RetargetedIsGood ==
    ASSUME NEW s, NEW n, Good(s), DOMAIN n = Fields,
           \A f \in Fields \ {"targets", "forgotten"} : n[f] = s[f], TargetsOK(n),
           NEW gone, Current(s) \ gone \subseteq Current(n),
           \A g \in s.grants : GrantTargets(g) \cap gone = {},
           \A p \in s.pending : GrantTargets(p) \cap gone = {}
    PROVE  Good(n)
<1>1. /\ n.grants = s.grants /\ n.principals = s.principals /\ n.retired = s.retired
      /\ n.revisions = s.revisions /\ n.consent = s.consent /\ n.proposals = s.proposals
      /\ n.usage = s.usage /\ n.minted = s.minted /\ n.registrations = s.registrations
      /\ n.pending = s.pending
  BY DEF Fields
<1>2. Shape(n) /\ GrantsOK(n) /\ RegistrationsOK(n)
  BY <1>1 DEF Good, Shape, GrantsOK, RegistrationsOK
<1>3. \A g \in s.grants : GrantTargets(g) \subseteq Current(n)
  BY DEF Good, LiveOK
<1>4. LiveOK(n)
  <2>1. ASSUME NEW g \in s.grants, g.slot[1] = "Enrollment"
        PROVE  \E r \in Enrolled(n, g.connection, g.slot) : g.sources = {r.target}
    <3>1. PICK r \in Enrolled(s, g.connection, g.slot) : g.sources = {r.target}
      BY <2>1 DEF Good, LiveOK
    <3>2. r.target \in Current(n)
      BY <1>3, <3>1 DEF GrantTargets
    <3>3. r \in Enrolled(n, g.connection, g.slot)
      BY <1>1, <3>1, <3>2 DEF Enrolled
    <3> QED
      BY <3>1, <3>3
  <2> QED
    BY <1>1, <1>3, <2>1 DEF Good, LiveOK
<1>5. PendingOK(n)
  BY <1>1 DEF Good, PendingOK, GrantsOf
<1>6. ConsentOK(n) /\ DecisionsOK(n)
  BY <1>1 DEF Good, ConsentOK, DecisionsOK, Saw, SlotGrants, GrantsOf
<1> QED
  BY <1>2, <1>4, <1>5, <1>6 DEF Good

\* A change of targets alone leaves the tokens as they were.
LEMMA RetargetedKeepsTokens ==
    ASSUME NEW s, NEW n, n.registrations = s.registrations, n.minted = s.minted,
           n.revisions = s.revisions, n.grants = s.grants, NEW ts, TokensOK(s, ts)
    PROVE  TokensOK(n, ts)
BY DEF TokensOK, CandidateOK, ReviewOK, Saw, SlotGrants, GrantsOf

\* forget_closed_target keeps the invariant: the high-water mark covers it.
LEMMA ForgetStep ==
    ASSUME BrokerInv, NEW x, ForgetClosedTarget(x) PROVE BrokerInv'
<1> DEFINE high == IF b.forgotten > b.targets[x].generation THEN b.forgotten ELSE b.targets[x].generation
<1>1. /\ Good(b) /\ Keep /\ x \in DOMAIN b.targets /\ ~b.targets[x].active
      /\ b' = [b EXCEPT !.targets = [y \in DOMAIN b.targets \ {x} |-> b.targets[y]], !.forgotten = high]
  BY DEF BrokerInv, ForgetClosedTarget
<1>2. /\ DOMAIN b' = Fields /\ (\A f \in Fields \ {"targets", "forgotten"} : b'[f] = b[f])
      /\ b'.targets = [y \in DOMAIN b.targets \ {x} |-> b.targets[y]] /\ b'.forgotten = high
  BY <1>1 DEF Good, Shape, Fields
<1>3. /\ high \in 0 .. MaxGeneration /\ high >= b.forgotten /\ high >= b.targets[x].generation
      /\ b.forgotten \in Nat
  BY <1>1 DEF Good, TargetsOK
<1> HIDE DEF high
<1>4. TargetsOK(b')
  <2>1. \A y \in DOMAIN b'.targets : y \in DOMAIN b.targets /\ b'.targets[y] = b.targets[y]
    BY <1>2
  <2>2. TargetsOK(b)
    BY <1>1 DEF Good
  <2> QED
    BY <1>2, <1>3, <2>1, <2>2, Zenon DEF TargetsOK
<1>5. Current(b') = Current(b)
  <2>1. DOMAIN b'.targets = DOMAIN b.targets \ {x} /\ (\A y \in DOMAIN b'.targets : b'.targets[y] = b.targets[y])
    BY <1>2
  <2>2. {y \in DOMAIN b'.targets : b'.targets[y].active} = {y \in DOMAIN b.targets : b.targets[y].active}
    BY <1>1, <2>1, Zenon
  <2>3. \A y \in {z \in DOMAIN b.targets : b.targets[z].active} : b'.targets[y] = b.targets[y]
    BY <2>1, <2>2
  <2> QED
    BY <2>2, <2>3 DEF Current
<1>6. Good(b')
  <2>1. Current(b) \ {} \subseteq Current(b')
    BY <1>5
  <2>2. (\A g \in b.grants : GrantTargets(g) \cap {} = {}) /\ (\A p \in b.pending : GrantTargets(p) \cap {} = {})
    OBVIOUS
  <2> QED
    BY <1>1, <1>2, <1>4, <2>1, <2>2, RetargetedIsGood
<1>7. TokensOK(b', tokens)
  <2>1. /\ b'.registrations = b.registrations /\ b'.minted = b.minted /\ b'.revisions = b.revisions
        /\ b'.grants = b.grants
    BY <1>2 DEF Fields
  <2> QED
    BY <2>1, RetargetedKeepsTokens DEF BrokerInv
<1>8. ClosedOK(b', closed)
  <2> SUFFICES ASSUME NEW ref \in closed
               PROVE  /\ ref \in Refs
                      /\ IF ref.session \in DOMAIN b'.targets
                         THEN /\ ref.generation <= b'.targets[ref.session].generation
                              /\ b'.targets[ref.session].active =>
                                     ref.generation # b'.targets[ref.session].generation
                         ELSE ref.generation <= b'.forgotten
    BY DEF ClosedOK
  <2>1. ref \in Refs
    BY DEF BrokerInv, ClosedOK
  <2>2. ref.generation \in Nat
    BY <2>1 DEF Refs
  <2>3. CASE ref.session = x
    <3>1. ref.generation <= b.targets[x].generation /\ b.targets[x].generation \in Nat
      BY <1>1, <2>3 DEF BrokerInv, ClosedOK, Good, TargetsOK
    <3>2. ref.generation <= high
      BY <1>3, <2>2, <3>1
    <3> QED
      BY <1>2, <2>1, <2>3, <3>2
  <2>4. CASE ref.session # x /\ ref.session \in DOMAIN b.targets
    <3>1. b'.targets[ref.session] = b.targets[ref.session] /\ ref.session \in DOMAIN b'.targets
      BY <1>2, <2>4
    <3> QED
      BY <2>1, <2>4, <3>1 DEF BrokerInv, ClosedOK
  <2>5. CASE ref.session \notin DOMAIN b.targets
    <3>1. ref.generation <= b.forgotten
      BY <2>5 DEF BrokerInv, ClosedOK
    <3>2. ref.generation <= high
      BY <1>3, <2>2, <3>1
    <3> QED
      BY <1>2, <2>1, <2>5, <3>2
  <2> QED
    BY <2>3, <2>4, <2>5
<1> QED
  BY <1>1, <1>6, <1>7, <1>8 DEF BrokerInv, Keep

\* What invalidate_target and then a change of the session's attachment leave.
LEMMA DetachStep ==
    ASSUME BrokerInv, NEW s, Good(s), Follows(s, b), NEW x \in Sessions, NEW old,
           \A ref \in old : ref = Ref(x, s.targets[x].generation) /\ ref \in Refs,
           x \in DOMAIN s.targets /\ s.targets[x].active => Ref(x, s.targets[x].generation) \in old,
           \A g \in s.grants : GrantTargets(g) \cap old = {},
           \A p \in s.pending : GrantTargets(p) \cap old = {},
           NEW fresh, DOMAIN fresh = TargetFields, fresh.generation \in 1 .. MaxGeneration,
           fresh.active \in BOOLEAN,
           x \in DOMAIN s.targets => fresh.generation >= s.targets[x].generation,
           x \notin DOMAIN s.targets => fresh.generation > s.forgotten /\ old = {},
           fresh.active /\ x \in DOMAIN s.targets => fresh.generation > s.targets[x].generation,
           b' = [s EXCEPT !.targets = [y \in DOMAIN s.targets \cup {x} |->
                                           IF y = x THEN fresh ELSE s.targets[y]]],
           closed' = closed \cup old, tokens' = tokens, now' = now
    PROVE  BrokerInv'
<1>1. /\ DOMAIN b' = Fields /\ (\A f \in Fields \ {"targets", "forgotten"} : b'[f] = s[f])
      /\ b'.targets = [y \in DOMAIN s.targets \cup {x} |-> IF y = x THEN fresh ELSE s.targets[y]]
      /\ b'.forgotten = s.forgotten
  BY DEF Good, Shape, Fields
<1>2. TargetsOK(s) /\ Good(b)
  BY DEF Good, BrokerInv
<1>3. TargetsOK(b')
  <2>1. DOMAIN b'.targets \subseteq Sessions /\ b'.forgotten \in 0 .. MaxGeneration
    BY <1>1, <1>2 DEF TargetsOK
  <2>2. ASSUME NEW y \in DOMAIN b'.targets
        PROVE  /\ DOMAIN b'.targets[y] = TargetFields
               /\ b'.targets[y].generation \in 1 .. MaxGeneration /\ b'.targets[y].active \in BOOLEAN
    <3>1. CASE y = x
      <4>1. b'.targets[y] = fresh
        BY <1>1, <3>1
      <4> QED
        BY <4>1
    <3>2. CASE y # x
      <4>1. b'.targets[y] = s.targets[y] /\ y \in DOMAIN s.targets
        BY <1>1, <3>2
      <4> QED
        BY <1>2, <4>1 DEF TargetsOK
    <3> QED
      BY <3>1, <3>2
  <2> QED
    BY <2>1, <2>2 DEF TargetsOK
<1>4. Current(s) \ old \subseteq Current(b')
  <2> SUFFICES ASSUME NEW ref \in Current(s), ref \notin old PROVE ref \in Current(b')
    OBVIOUS
  <2>1. PICK y \in DOMAIN s.targets : s.targets[y].active /\ ref = Ref(y, s.targets[y].generation)
    BY DEF Current
  <2>2. y # x
    BY <2>1
  <2>3. y \in DOMAIN b'.targets /\ b'.targets[y] = s.targets[y]
    BY <1>1, <2>2
  <2> QED
    BY <2>1, <2>3 DEF Current
<1>5. Good(b')
  BY <1>1, <1>3, <1>4, RetargetedIsGood
<1>6. TokensOK(b', tokens)
  <2>1. TokensOK(s, tokens)
    BY <1>2, FollowsKeepsTokens DEF BrokerInv
  <2>2. /\ b'.registrations = s.registrations /\ b'.minted = s.minted /\ b'.revisions = s.revisions
        /\ b'.grants = s.grants
    BY <1>1 DEF Fields
  <2> QED
    BY <2>1, <2>2, RetargetedKeepsTokens
<1>7. ClosedOK(s, closed)
  BY FollowsKeepsClosed DEF BrokerInv, Follows
<1>8. ClosedOK(b', closed \cup old)
  <2> SUFFICES ASSUME NEW ref \in closed \cup old
               PROVE  /\ ref \in Refs
                      /\ IF ref.session \in DOMAIN b'.targets
                         THEN /\ ref.generation <= b'.targets[ref.session].generation
                              /\ b'.targets[ref.session].active =>
                                     ref.generation # b'.targets[ref.session].generation
                         ELSE ref.generation <= b'.forgotten
    BY DEF ClosedOK
  <2>1. ref \in Refs
    BY <1>7 DEF ClosedOK
  <2>2. ref.generation \in Nat /\ fresh.generation \in Nat
    BY <2>1 DEF Refs
  <2>3. CASE ref.session = x
    <3>1. x \in DOMAIN b'.targets /\ b'.targets[x] = fresh
      BY <1>1
    <3>2. CASE x \in DOMAIN s.targets
      <4>1. ref.generation <= s.targets[x].generation /\ s.targets[x].generation \in Nat
        <5>1. CASE ref \in closed
          BY <1>2, <1>7, <2>3, <3>2, <5>1 DEF ClosedOK, TargetsOK
        <5>2. CASE ref \in old
          BY <1>2, <3>2, <5>2 DEF Ref, TargetsOK
        <5> QED
          BY <5>1, <5>2
      <4>2. ref.generation <= fresh.generation /\ (fresh.active => ref.generation # fresh.generation)
        BY <2>2, <3>2, <4>1
      <4> QED
        BY <2>1, <2>3, <3>1, <4>2
    <3>3. CASE x \notin DOMAIN s.targets
      <4>1. ref \in closed /\ ref.generation <= s.forgotten /\ s.forgotten \in Nat
        BY <1>2, <1>7, <2>3, <3>3 DEF ClosedOK, TargetsOK
      <4>2. ref.generation < fresh.generation
        BY <2>2, <3>3, <4>1
      <4> QED
        BY <2>1, <2>2, <2>3, <3>1, <4>2
    <3> QED
      BY <3>2, <3>3
  <2>4. CASE ref.session # x
    <3>1. ref \in closed
      BY <2>4 DEF Ref
    <3>2. ref.session \in DOMAIN b'.targets <=> ref.session \in DOMAIN s.targets
      BY <1>1, <2>4
    <3>3. ref.session \in DOMAIN s.targets => b'.targets[ref.session] = s.targets[ref.session]
      BY <1>1, <2>4
    <3> QED
      BY <1>1, <1>7, <3>1, <3>2, <3>3 DEF ClosedOK
  <2> QED
    BY <2>3, <2>4
<1> QED
  BY <1>5, <1>6, <1>8 DEF BrokerInv

\* close_target keeps the invariant.
LEMMA CloseStep ==
    ASSUME BrokerInv, NEW ref \in Current(b), CloseTarget(ref) PROVE BrokerInv'
<1> DEFINE s == InvalidateTarget(b, ref)
           x == ref.session
           fresh == [s.targets[x] EXCEPT !.active = FALSE, !.writer = {}]
<1>1. /\ b' = [s EXCEPT !.targets[x].active = FALSE, !.targets[x].writer = {}]
      /\ closed' = closed \cup {ref} /\ now' = now /\ tokens' = tokens /\ Good(b)
  BY DEF CloseTarget, BrokerInv
<1>2. /\ Good(s) /\ Weaker(s, b)
      /\ \A g \in s.grants : ref \notin GrantTargets(g)
      /\ \A p \in s.pending : ref \notin GrantTargets(p)
  BY <1>1, InvalidateEffect
<1>3. Follows(s, b)
  <2> HIDE DEF s
  <2> QED
    BY <1>1, <1>2, WeakerFollows
<1> HIDE DEF s
<1>4. /\ ref = Ref(x, ref.generation) /\ ref \in Refs /\ x \in Sessions /\ x \in DOMAIN b.targets
      /\ b.targets[x].generation = ref.generation
  BY <1>1, CurrentRefs DEF Good, Refs
<1>5. x \in DOMAIN s.targets /\ ref = Ref(x, s.targets[x].generation)
  BY <1>3, <1>4 DEF Follows, SameReferences
<1>6. /\ DOMAIN s.targets[x] = TargetFields /\ s.targets[x].generation \in 1 .. MaxGeneration
      /\ s.targets[x].generation \in Nat
  BY <1>2, <1>5 DEF Good, TargetsOK
<1>7. /\ DOMAIN fresh = TargetFields /\ fresh.generation = s.targets[x].generation
      /\ fresh.active = FALSE
  BY <1>6 DEF TargetFields
<1>8. b' = [s EXCEPT !.targets = [y \in DOMAIN s.targets \cup {x} |->
                                      IF y = x THEN fresh ELSE s.targets[y]]]
  <2>1. [s.targets EXCEPT ![x].active = FALSE, ![x].writer = {}] =
           [y \in DOMAIN s.targets \cup {x} |-> IF y = x THEN fresh ELSE s.targets[y]]
    BY <1>5
  <2>2. DOMAIN s = Fields
    BY <1>2 DEF Good, Shape
  <2> HIDE DEF fresh
  <2> QED
    BY <1>1, <2>1, <2>2 DEF Fields
<1> HIDE DEF fresh, x
<1>9. (\A g \in s.grants : GrantTargets(g) \cap {ref} = {}) /\ (\A p \in s.pending : GrantTargets(p) \cap {ref} = {})
  BY <1>2
<1>10. fresh.active \in BOOLEAN /\ ~fresh.active
  BY <1>7, Zenon
<1>11. fresh.generation >= s.targets[x].generation /\ fresh.generation \in 1 .. MaxGeneration
  BY <1>6, <1>7
<1>12. \A r \in {ref} : r = Ref(x, s.targets[x].generation) /\ r \in Refs
  BY <1>4, <1>5
<1>13. Ref(x, s.targets[x].generation) \in {ref}
  BY <1>5
<1> QED
  BY <1>1, <1>2, <1>3, <1>4, <1>5, <1>7, <1>8, <1>9, <1>10, <1>11, <1>12, <1>13, DetachStep

\* attach_target keeps the invariant: its generation is above every closed one.
LEMMA AttachStep ==
    ASSUME BrokerInv, NEW x \in Sessions, NEW generation \in 1 .. MaxGeneration,
           AttachTarget(x, generation)
    PROVE  BrokerInv'
<1> DEFINE m == Mint(b, "ownership")
           old == IF x \in DOMAIN b.targets THEN {Ref(x, b.targets[x].generation)} ELSE {}
           s == IF old = {} THEN m ELSE InvalidateTarget(m, Ref(x, b.targets[x].generation))
           fresh == [generation |-> generation, active |-> TRUE,
                     epoch |-> m.minted.ownership, writer |-> {}]
<1>1. /\ IF old # {} THEN generation > b.targets[x].generation ELSE generation > b.forgotten
      /\ b' = [s EXCEPT !.targets = [y \in DOMAIN @ \cup {x} |-> IF y = x THEN fresh ELSE @[y]]]
      /\ closed' = closed \cup old /\ now' = now /\ tokens' = tokens /\ Good(b)
  BY DEF AttachTarget, BrokerInv
<1>2. /\ DOMAIN fresh = TargetFields /\ fresh.generation = generation /\ fresh.active = TRUE
  BY DEF TargetFields
<1> HIDE DEF fresh
<1>3. Good(m) /\ Follows(m, b)
  BY <1>1, MintIsGood, MintFollows DEF MintKinds
<1> HIDE DEF m
<1>4. /\ Good(s) /\ Follows(s, m)
      /\ \A g \in s.grants : GrantTargets(g) \cap old = {}
      /\ \A p \in s.pending : GrantTargets(p) \cap old = {}
  <2>1. CASE x \notin DOMAIN b.targets
    <3>1. old = {} /\ s = m
      BY <2>1
    <3>2. SameAuthority(m, m) /\ SameReferences(m, m)
      BY <1>3 DEF SameAuthority, SameReferences, Good, Shape, TargetsOK
    <3> HIDE DEF old, s
    <3> QED
      BY <1>3, <3>1, <3>2, SameFollows
  <2>2. CASE x \in DOMAIN b.targets
    <3> DEFINE ref == Ref(x, b.targets[x].generation)
               i == InvalidateTarget(m, ref)
    <3>1. old = {ref} /\ s = i
      BY <2>2
    <3> HIDE DEF old, s, ref
    <3>2. /\ Good(i) /\ Weaker(i, m)
          /\ \A g \in i.grants : ref \notin GrantTargets(g)
          /\ \A p \in i.pending : ref \notin GrantTargets(p)
      BY <1>3, InvalidateEffect
    <3> HIDE DEF i
    <3>3. Follows(i, m)
      BY <1>3, <3>2, WeakerFollows
    <3> QED
      BY <3>1, <3>2, <3>3
  <2> QED
    BY <2>1, <2>2
<1>5. x \notin DOMAIN b.targets => old = {}
  OBVIOUS
<1>6. x \in DOMAIN b.targets => old = {Ref(x, b.targets[x].generation)}
  OBVIOUS
<1> HIDE DEF s, old
<1>7. Follows(s, b)
  BY <1>1, <1>3, <1>4, FollowsChain
<1>8. /\ DOMAIN s.targets = DOMAIN b.targets /\ s.forgotten = b.forgotten
      /\ x \in DOMAIN b.targets => s.targets[x].generation = b.targets[x].generation
  BY <1>7 DEF Follows, SameReferences
<1>9. x \in DOMAIN b.targets => /\ s.targets[x].generation \in 1 .. MaxGeneration
                                /\ Ref(x, s.targets[x].generation) \in Refs
  BY <1>4, <1>8 DEF Good, TargetsOK, Ref, Refs
<1>10. \A ref \in old : ref = Ref(x, s.targets[x].generation) /\ ref \in Refs
  BY <1>5, <1>6, <1>8, <1>9
<1>11. x \in DOMAIN s.targets => fresh.generation > s.targets[x].generation /\ fresh.generation >= s.targets[x].generation
  BY <1>1, <1>2, <1>6, <1>8, <1>9
<1>12. x \notin DOMAIN s.targets => fresh.generation > s.forgotten /\ old = {}
  BY <1>1, <1>2, <1>5, <1>8
<1>13. x \in DOMAIN s.targets /\ s.targets[x].active => Ref(x, s.targets[x].generation) \in old
  BY <1>6, <1>8
<1>14. fresh.generation \in 1 .. MaxGeneration /\ fresh.active \in BOOLEAN
  BY <1>2
<1> QED
  BY <1>1, <1>2, <1>4, <1>7, <1>10, <1>11, <1>12, <1>13, <1>14, DetachStep

-----------------------------------------------------------------------------
(* Registrations. *)

\* An enrollment's grant belongs to the one registration with its id.
LEMMA GrantOfRegistration ==
    ASSUME NEW s, Good(s), NEW g \in s.grants, NEW i, NEW e, g.slot = Enrollment(i, e)
    PROVE  \E r \in s.registrations :
              /\ r.id = i /\ r.enrollment = e /\ e # 0 /\ r.connection = g.connection
              /\ r.target \in Current(s) /\ g.sources = {r.target}
<1>1. g.slot \notin {Ordinary, Metadata}
  BY DEF Enrollment, Ordinary, Metadata
<1>2. PICK r \in s.registrations :
         /\ r.connection = g.connection /\ r.enrollment # 0 /\ r.target \in Current(s)
         /\ g.slot = Enrollment(r.id, r.enrollment) /\ g.sources = {r.target}
  BY <1>1, EnrollmentGrant
<1>3. r.id = i /\ r.enrollment = e
  BY <1>2 DEF Enrollment
<1> QED
  BY <1>2, <1>3

\* A registration changes in what no grant and no consent rests on.
LEMMA UpdateIsGood ==
    ASSUME NEW s, Good(s), NEW old \in s.registrations, NEW new, DOMAIN new = RegistrationFields,
           new.id = old.id, new.connection = old.connection, new.enrollment = old.enrollment,
           new.target = old.target, new.consent = old.consent,
           new.revision \in Nat, old.revision <= new.revision, new.revision <= s.minted.registration,
           \A d, e \in new.decision : d = e,
           \A d \in new.decision : Saw(s, old.connection, d)
    PROVE  /\ Good(Update(s, old, new)) /\ Follows(Update(s, old, new), s)
           /\ Update(s, old, new).registrations = (s.registrations \ {old}) \cup {new}
           /\ \A f \in Fields \ {"registrations"} : Update(s, old, new)[f] = s[f]
<1> DEFINE n == Update(s, old, new)
<1>1. /\ DOMAIN n = Fields /\ n.registrations = (s.registrations \ {old}) \cup {new}
      /\ \A f \in Fields \ {"registrations"} : n[f] = s[f]
  BY DEF Good, Shape, Fields, Update
<1> HIDE DEF n
<1>2. /\ n.grants = s.grants /\ n.principals = s.principals /\ n.retired = s.retired
      /\ n.revisions = s.revisions /\ n.consent = s.consent /\ n.proposals = s.proposals
      /\ n.usage = s.usage /\ n.minted = s.minted /\ n.targets = s.targets
      /\ n.forgotten = s.forgotten /\ n.pending = s.pending
  BY <1>1 DEF Fields
<1>3. Shape(n) /\ TargetsOK(n) /\ Current(n) = Current(s) /\ SameReferences(n, s)
  BY <1>1, <1>2 DEF Good, Shape, TargetsOK, Current, SameReferences
<1>4. RegistrationsOK(n)
  <2>1. /\ old.connection \in Connections /\ old.id \in Nat /\ old.enrollment \in Nat
        /\ old.id <= s.minted.registration /\ old.enrollment <= old.revision /\ old.revision \in Nat
    BY DEF Good, RegistrationsOK
  <2>2. new.enrollment <= new.revision
    BY <2>1
  <2> QED
    BY <1>1, <1>2, <2>1, <2>2 DEF Good, RegistrationsOK
<1>5. \A k, x : Saw(s, k, x) => Saw(n, k, x)
  BY <1>2 DEF Saw, SlotGrants, GrantsOf
<1>6. DecisionsOK(n)
  BY <1>1, <1>5 DEF Good, DecisionsOK
<1>7. \A q \in n.registrations : \E r \in s.registrations :
          /\ q.connection = r.connection /\ q.id = r.id /\ q.enrollment = r.enrollment
          /\ q.consent = r.consent /\ q.target = r.target
          /\ (q.revision = r.revision \/ q.revision > r.revision)
  <2>1. new.revision = old.revision \/ new.revision > old.revision
    BY DEF Good, RegistrationsOK
  <2> QED
    BY <1>1, <2>1
<1>8. LiveOK(n)
  <2>1. \A g \in n.grants : g.connection \in n.principals /\ GrantTargets(g) \subseteq Current(n)
    BY <1>2, <1>3 DEF Good, LiveOK
  <2>2. ASSUME NEW g \in n.grants, g.slot[1] = "Enrollment"
        PROVE  \E r \in Enrolled(n, g.connection, g.slot) : g.sources = {r.target}
    <3>1. PICK r \in Enrolled(s, g.connection, g.slot) : g.sources = {r.target}
      BY <1>2, <2>2 DEF Good, LiveOK
    <3>2. CASE r = old
      <4>1. new \in Enrolled(n, g.connection, g.slot) /\ new.target = r.target
        BY <1>1, <1>3, <3>1, <3>2 DEF Enrolled
      <4> QED
        BY <3>1, <4>1
    <3>3. CASE r # old
      <4>1. r \in Enrolled(n, g.connection, g.slot)
        BY <1>1, <1>3, <3>1, <3>3 DEF Enrolled
      <4> QED
        BY <3>1, <4>1
    <3> QED
      BY <3>2, <3>3
  <2> QED
    BY <2>1, <2>2 DEF LiveOK
<1>9. Good(n)
  <2>1. n.pending \subseteq s.pending
    BY <1>2
  <2> QED
    BY <1>2, <1>3, <1>4, <1>6, <1>7, <1>8, <2>1, RevisedIsGood
<1>10. Follows(n, s)
  <2>1. n.minted.registration >= s.minted.registration
    BY <1>2 DEF Good, Shape, MintKinds
  <2> QED
    BY <1>2, <1>3, <1>5, <1>7, <2>1 DEF Follows
<1> QED
  BY <1>1, <1>9, <1>10 DEF n

\* register_controller keeps the invariant.
LEMMA RegisterStep ==
    ASSUME BrokerInv, NEW c \in Connections, NEW local, RegisterControllerSession(c, local)
    PROVE  BrokerInv'
<1> DEFINE m == Mint(b, "registration")
           id == m.minted.registration
           new == [connection |-> c, local |-> local, id |-> id, revision |-> id, enrollment |-> 0,
                   target |-> NoRef, review |-> 0, decision |-> {}, consent |-> {}]
<1>1. Good(b) /\ Keep /\ b' = [m EXCEPT !.registrations = @ \cup {new}]
  BY DEF BrokerInv, RegisterControllerSession
<1>2. Good(m) /\ Follows(m, b) /\ (\A f \in Fields \ {"minted"} : m[f] = b[f])
  BY <1>1, MintIsGood, MintFollows, MintEffect DEF MintKinds, Good
<1>3. id = b.minted.registration + 1 /\ b.minted.registration \in Nat
  BY <1>1, MintEffect DEF MintKinds, Good, Shape
<1>4. /\ DOMAIN new = RegistrationFields /\ new.connection = c /\ new.id = id /\ new.revision = id
      /\ new.enrollment = 0 /\ new.decision = {}
  BY DEF RegistrationFields
<1> HIDE DEF new, m
<1>5. /\ DOMAIN b' = Fields /\ b'.registrations = m.registrations \cup {new}
      /\ b'.grants = m.grants /\ b'.principals = m.principals /\ b'.retired = m.retired
      /\ b'.revisions = m.revisions /\ b'.consent = m.consent /\ b'.proposals = m.proposals
      /\ b'.usage = m.usage /\ b'.minted = m.minted /\ b'.targets = m.targets
      /\ b'.forgotten = m.forgotten /\ b'.pending = m.pending
  BY <1>1, <1>2 DEF Good, Shape, Fields
<1>6. m.registrations = b.registrations
  BY <1>2 DEF Fields
<1>7. Shape(b') /\ TargetsOK(b') /\ GrantsOK(b') /\ Current(b') = Current(m) /\ SameReferences(b', m)
  BY <1>2, <1>5 DEF Good, Shape, TargetsOK, GrantsOK, Current, SameReferences
<1>8. \A r \in b.registrations : r.id \in Nat /\ r.id < id
  BY <1>1, <1>3 DEF Good, RegistrationsOK
<1>9. RegistrationsOK(b')
  <2>1. ASSUME NEW r \in b'.registrations
        PROVE  /\ DOMAIN r = RegistrationFields /\ r.connection \in Connections
               /\ r.id \in Nat /\ r.revision \in Nat /\ r.enrollment \in Nat
               /\ r.id <= b'.minted.registration /\ r.revision <= b'.minted.registration
               /\ r.enrollment <= r.revision
    <3>1. CASE r = new
      BY <1>3, <1>4, <1>5, <3>1
    <3>2. CASE r \in m.registrations
      BY <1>2, <1>5, <3>2 DEF Good, RegistrationsOK
    <3> QED
      BY <1>5, <3>1, <3>2
  <2>2. ASSUME NEW r \in b'.registrations, NEW q \in b'.registrations, r.id = q.id PROVE r = q
    <3>1. \A x \in m.registrations : x.id # new.id
      BY <1>3, <1>4, <1>6, <1>8
    <3> QED
      BY <1>2, <1>5, <2>2, <3>1 DEF Good, RegistrationsOK
  <2> QED
    BY <2>1, <2>2 DEF RegistrationsOK
<1>10. LiveOK(b')
  BY <1>2, <1>5, <1>7 DEF Good, LiveOK, Enrolled
<1>11. PendingOK(b')
  BY <1>2, <1>5, <1>7 DEF Good, PendingOK, GrantsOf
<1>12. ConsentOK(b')
  <2>1. \A k, x : SlotGrants(b', k, x) = SlotGrants(m, k, x)
    BY <1>5 DEF SlotGrants, GrantsOf
  <2>2. ASSUME NEW k, NEW g \in SlotGrants(m, k, Enrollment(new.id, new.enrollment)) PROVE FALSE
    <3>1. g \in m.grants /\ g.slot = Enrollment(new.id, new.enrollment)
      BY DEF SlotGrants, GrantsOf
    <3> QED
      BY <1>2, <1>4, <3>1, GrantOfRegistration
  <2> QED
    BY <1>2, <1>5, <2>1, <2>2 DEF Good, ConsentOK
<1>13. \A k, x : Saw(m, k, x) => Saw(b', k, x)
  BY <1>5 DEF Saw, SlotGrants, GrantsOf
<1>14. DecisionsOK(b')
  BY <1>2, <1>4, <1>5, <1>13 DEF Good, DecisionsOK
<1>15. Good(b')
  BY <1>7, <1>9, <1>10, <1>11, <1>12, <1>14 DEF Good
<1>16. Follows(b', b)
  <2>1. /\ b'.minted.registration >= b.minted.registration /\ b'.forgotten = b.forgotten
        /\ b'.minted.registration = id
    BY <1>2, <1>3, <1>5 DEF Follows, m
  <2>2. SameReferences(b', b)
    BY <1>2, <1>7 DEF Follows, SameReferences
  <2>3. \A k \in Connections : \A x : Saw(b, k, x) => Saw(b', k, x)
    BY <1>2, <1>13 DEF Follows
  <2>4. new.id > b.minted.registration
    BY <1>3, <1>4
  <2> QED
    BY <1>5, <1>6, <2>1, <2>2, <2>3, <2>4 DEF Follows
<1> QED
  BY <1>1, <1>15, <1>16, Moves DEF Keep

\* prepare_controller_enrollment keeps the invariant; its candidate is the newest.
LEMMA PrepareEnrollmentStep ==
    ASSUME BrokerInv, NEW r \in b.registrations, NEW ref, PrepareControllerEnrollment(r, ref)
    PROVE  BrokerInv'
<1> DEFINE m == Mint(b, "registration")
           new == [r EXCEPT !.revision = m.minted.registration]
           t == [kind |-> "enroll", id |-> r.id, connection |-> r.connection,
                 target |-> ref, revision |-> m.minted.registration]
<1>1. /\ Good(b) /\ b' = Update(m, r, new) /\ now' = now /\ closed' = closed
      /\ tokens' = tokens \cup {t} \/ tokens' = tokens
  BY DEF BrokerInv, PrepareControllerEnrollment
<1>2. Good(m) /\ Follows(m, b) /\ (\A f \in Fields \ {"minted"} : m[f] = b[f])
  BY <1>1, MintIsGood, MintFollows, MintEffect DEF MintKinds, Good
<1>3. m.minted.registration = b.minted.registration + 1 /\ b.minted.registration \in Nat
  BY <1>1, MintEffect DEF MintKinds, Good, Shape
<1>4. m.registrations = b.registrations
  BY <1>2 DEF Fields
<1> HIDE DEF m
<1>5. /\ DOMAIN r = RegistrationFields /\ r.id \in Nat /\ r.id <= b.minted.registration
      /\ r.revision \in Nat /\ r.revision <= b.minted.registration
      /\ r.enrollment \in Nat /\ r.enrollment <= r.revision
  BY <1>1 DEF Good, RegistrationsOK
<1>6. /\ DOMAIN new = RegistrationFields /\ new.id = r.id /\ new.connection = r.connection
      /\ new.enrollment = r.enrollment /\ new.target = r.target /\ new.consent = r.consent
      /\ new.revision = m.minted.registration /\ new.decision = r.decision
  BY <1>5 DEF RegistrationFields
<1>7. t.kind = "enroll" /\ t.id = r.id /\ t.revision = m.minted.registration
  OBVIOUS
<1> HIDE DEF new, t
<1>8. (\A d, e \in new.decision : d = e) /\ (\A d \in new.decision : Saw(m, r.connection, d))
  BY <1>2, <1>4, <1>6 DEF Good, DecisionsOK
<1>9. r \in m.registrations /\ new.revision \in Nat /\ r.revision <= new.revision /\ new.revision <= m.minted.registration
  BY <1>3, <1>4, <1>5, <1>6
<1>10. /\ Good(b') /\ Follows(b', m) /\ b'.registrations = (m.registrations \ {r}) \cup {new}
       /\ b'.minted = m.minted
  BY <1>1, <1>2, <1>6, <1>8, <1>9, UpdateIsGood DEF Fields
<1>11. Follows(b', b)
  BY <1>1, <1>2, <1>10, FollowsChain
<1>12. TokensOK(b', tokens) /\ ClosedOK(b', closed)
  BY <1>10, <1>11, FollowsKeepsTokens, FollowsKeepsClosed DEF BrokerInv, Follows
<1>13. CandidateOK(b', t)
  <2>1. \A q \in b'.registrations : q.id = t.id => q = new
    BY <1>6, <1>7, <1>10 DEF Good, RegistrationsOK
  <2>2. new.enrollment < new.revision /\ t.revision = new.revision /\ t.revision \in Nat
    BY <1>3, <1>5, <1>6, <1>7
  <2>3. t.id \in Nat /\ t.id <= b'.minted.registration
    BY <1>3, <1>5, <1>7, <1>10
  <2> QED
    BY <2>1, <2>2, <2>3 DEF CandidateOK
<1>14. TokensOK(b', tokens')
  BY <1>1, <1>7, <1>12, <1>13 DEF TokensOK
<1> QED
  BY <1>1, <1>10, <1>12, <1>14 DEF BrokerInv

\* No grant is left of the enrollment of a registration that was cut.
LEMMA CutEnrollment ==
    ASSUME NEW s, Good(s), NEW r \in s.registrations, NEW n,
           n = RevokeSlots(s, EnrollmentSlots(s, {r}))
    PROVE  /\ Good(n) /\ Weaker(n, s)
           /\ \E q \in n.registrations : q.id = r.id
           /\ \A q \in n.registrations : q.id = r.id =>
                 q.connection = r.connection /\ q.enrollment = r.enrollment /\ q.revision = r.revision
           /\ \A g \in n.grants : \A e : g.slot # Enrollment(r.id, e)
<1> DEFINE slots == EnrollmentSlots(s, {r})
<1>1. Good(n) /\ Weaker(n, s) /\ Revoked(n, s, slots)
  BY RevokeIsGood, RevokeIsWeaker, RevokeEffect DEF Good
<1>2. r.enrollment # 0 => <<r.connection, Enrollment(r.id, r.enrollment)>> \in slots
  BY DEF EnrollmentSlots
<1> HIDE DEF slots
<1>3. \E q \in n.registrations : q.id = r.id
  <2>1. Forgets(r, slots) \in n.registrations
    BY <1>1, RevokedRegistrations DEF Good
  <2>2. Forgets(r, slots).id = r.id
    BY ForgetsEffect DEF Good, RegistrationsOK, RegistrationFields
  <2> QED
    BY <2>1, <2>2
<1>4. ASSUME NEW q \in n.registrations, q.id = r.id
      PROVE  q.connection = r.connection /\ q.enrollment = r.enrollment /\ q.revision = r.revision
  <2>1. PICK x \in s.registrations : /\ q.id = x.id /\ q.connection = x.connection
                                     /\ q.enrollment = x.enrollment /\ q.revision = x.revision
    BY <1>1 DEF Weaker
  <2>2. x = r
    BY <1>4, <2>1 DEF Good, RegistrationsOK
  <2> QED
    BY <2>1, <2>2
<1>5. ASSUME NEW g \in n.grants, NEW e, g.slot = Enrollment(r.id, e) PROVE FALSE
  <2>1. g \in s.grants /\ <<g.connection, g.slot>> \notin slots
    BY <1>1 DEF Revoked
  <2>2. PICK x \in s.registrations : x.id = r.id /\ x.enrollment = e /\ e # 0 /\ x.connection = g.connection
    BY <1>5, <2>1, GrantOfRegistration
  <2>3. x = r
    BY <2>2 DEF Good, RegistrationsOK
  <2> QED
    BY <1>2, <1>5, <2>1, <2>2, <2>3
<1> QED
  BY <1>1, <1>3, <1>4, <1>5

\* unregister_controller keeps the invariant.
LEMMA UnregisterStep ==
    ASSUME BrokerInv, NEW r \in b.registrations, UnregisterControllerSession(r) PROVE BrokerInv'
<1> DEFINE cut == RevokeSlots(b, EnrollmentSlots(b, {r}))
<1>1. Good(b) /\ Keep /\ b' = [cut EXCEPT !.registrations = {x \in @ : x.id # r.id}]
  BY DEF BrokerInv, UnregisterControllerSession
<1>2. /\ Good(cut) /\ Weaker(cut, b)
      /\ \A g \in cut.grants : \A e : g.slot # Enrollment(r.id, e)
  <2>1. Good(b)
    BY <1>1
  <2> QED
    BY <2>1, CutEnrollment
<1> HIDE DEF cut
<1>3. /\ DOMAIN b' = Fields /\ (\A f \in Fields \ {"registrations", "pending"} : b'[f] = cut[f])
      /\ b'.registrations = {x \in cut.registrations : x.id # r.id} /\ b'.pending = cut.pending
  BY <1>1, <1>2 DEF Good, Shape, Fields
<1>4. b'.grants = cut.grants /\ b'.principals = cut.principals /\ b'.targets = cut.targets
  BY <1>3 DEF Fields
<1>5. LiveOK(b')
  <2>1. Current(b') = Current(cut)
    BY <1>4 DEF Current
  <2>2. \A g \in b'.grants : g.connection \in b'.principals /\ GrantTargets(g) \subseteq Current(b')
    BY <1>2, <1>4, <2>1 DEF Good, LiveOK
  <2>3. ASSUME NEW g \in b'.grants, g.slot[1] = "Enrollment"
        PROVE  \E x \in Enrolled(b', g.connection, g.slot) : g.sources = {x.target}
    <3>1. PICK x \in Enrolled(cut, g.connection, g.slot) : g.sources = {x.target}
      BY <1>2, <1>4, <2>3 DEF Good, LiveOK
    <3>2. x \in b'.registrations
      BY <1>2, <1>3, <1>4, <3>1 DEF Enrolled
    <3>3. x \in Enrolled(b', g.connection, g.slot)
      BY <2>1, <3>1, <3>2 DEF Enrolled
    <3> QED
      BY <3>1, <3>3
  <2> QED
    BY <2>2, <2>3 DEF LiveOK
<1>6. Good(b') /\ Weaker(b', cut)
  BY <1>2, <1>3, <1>5, FewerIsGood
<1>7. Weaker(b', b)
  BY <1>2, <1>6, WeakerChain
<1> QED
  BY <1>1, <1>6, <1>7, WeakerMoves

\* approve_controller_enrollment keeps the invariant: the old association's grant goes first.
LEMMA ApproveEnrollmentStep ==
    ASSUME BrokerInv, NEW r \in b.registrations, NEW t, ApproveControllerEnrollment(r, t)
    PROVE  BrokerInv'
<1> DEFINE m == Mint(b, "registration")
           cut == RevokeSlots(m, EnrollmentSlots(m, {r}))
           old == CHOOSE x \in cut.registrations : x.id = r.id
           id == m.minted.registration
           new == [old EXCEPT !.revision = id, !.enrollment = id, !.target = t.target,
                              !.review = 0, !.decision = {}]
<1>1. Good(b) /\ Keep /\ b' = Update(cut, old, new)
  BY DEF BrokerInv, ApproveControllerEnrollment
<1>2. Good(m) /\ Follows(m, b) /\ (\A f \in Fields \ {"minted"} : m[f] = b[f])
  BY <1>1, MintIsGood, MintFollows, MintEffect DEF MintKinds, Good
<1>3. id = b.minted.registration + 1 /\ b.minted.registration \in Nat
  BY <1>1, MintEffect DEF MintKinds, Good, Shape
<1>4. r \in m.registrations
  BY <1>2 DEF Fields
<1> HIDE DEF m
<1>5. /\ Good(cut) /\ Weaker(cut, m)
      /\ \E q \in cut.registrations : q.id = r.id
      /\ \A q \in cut.registrations : q.id = r.id =>
            q.connection = r.connection /\ q.enrollment = r.enrollment /\ q.revision = r.revision
      /\ \A g \in cut.grants : \A e : g.slot # Enrollment(r.id, e)
  BY <1>2, <1>4, CutEnrollment
<1> HIDE DEF cut
<1>6. old \in cut.registrations /\ old.id = r.id
  BY <1>5
<1> HIDE DEF old
<1>7. /\ DOMAIN old = RegistrationFields /\ old.connection = r.connection /\ old.revision = r.revision
      /\ old.revision \in Nat /\ old.revision < id /\ r.id \in Nat /\ r.id < id /\ r.connection \in Connections
  BY <1>1, <1>3, <1>5, <1>6 DEF Good, RegistrationsOK
<1>8. /\ DOMAIN new = RegistrationFields /\ new.id = r.id /\ new.connection = r.connection
      /\ new.revision = id /\ new.enrollment = id /\ new.decision = {}
  BY <1>6, <1>7 DEF RegistrationFields
<1> HIDE DEF new
<1>9. /\ DOMAIN b' = Fields /\ b'.registrations = (cut.registrations \ {old}) \cup {new}
      /\ b'.grants = cut.grants /\ b'.principals = cut.principals /\ b'.retired = cut.retired
      /\ b'.revisions = cut.revisions /\ b'.consent = cut.consent /\ b'.proposals = cut.proposals
      /\ b'.usage = cut.usage /\ b'.minted = cut.minted /\ b'.targets = cut.targets
      /\ b'.forgotten = cut.forgotten /\ b'.pending = cut.pending
  BY <1>1, <1>5 DEF Good, Shape, Fields, Update
<1>10. cut.minted.registration = id
  BY <1>5 DEF Weaker
<1>11. Shape(b') /\ TargetsOK(b') /\ GrantsOK(b') /\ Current(b') = Current(cut) /\ SameReferences(b', cut)
  BY <1>5, <1>9 DEF Good, Shape, TargetsOK, GrantsOK, Current, SameReferences
<1> HIDE DEF id
<1>12. RegistrationsOK(b')
  <2>1. ASSUME NEW q \in b'.registrations
        PROVE  /\ DOMAIN q = RegistrationFields /\ q.connection \in Connections
               /\ q.id \in Nat /\ q.revision \in Nat /\ q.enrollment \in Nat
               /\ q.id <= b'.minted.registration /\ q.revision <= b'.minted.registration
               /\ q.enrollment <= q.revision
    <3>1. CASE q = new
      BY <1>3, <1>7, <1>8, <1>9, <1>10, <3>1
    <3>2. CASE q \in cut.registrations
      BY <1>5, <1>9, <3>2 DEF Good, RegistrationsOK
    <3> QED
      BY <1>9, <3>1, <3>2
  <2>2. \A x, q \in b'.registrations : x.id = q.id => x = q
    BY <1>5, <1>6, <1>8, <1>9 DEF Good, RegistrationsOK
  <2> QED
    BY <2>1, <2>2 DEF RegistrationsOK
<1>13. LiveOK(b')
  <2>1. \A g \in b'.grants : g.connection \in b'.principals /\ GrantTargets(g) \subseteq Current(b')
    BY <1>5, <1>9, <1>11 DEF Good, LiveOK
  <2>2. ASSUME NEW g \in b'.grants, g.slot[1] = "Enrollment"
        PROVE  \E x \in Enrolled(b', g.connection, g.slot) : g.sources = {x.target}
    <3>1. PICK x \in Enrolled(cut, g.connection, g.slot) : g.sources = {x.target}
      BY <1>5, <1>9, <2>2 DEF Good, LiveOK
    <3>2. x # old
      BY <1>5, <1>6, <1>9, <3>1 DEF Enrolled
    <3>3. x \in Enrolled(b', g.connection, g.slot)
      BY <1>9, <1>11, <3>1, <3>2 DEF Enrolled
    <3> QED
      BY <3>1, <3>3
  <2> QED
    BY <2>1, <2>2 DEF LiveOK
<1>14. PendingOK(b')
  BY <1>5, <1>9, <1>11 DEF Good, PendingOK, GrantsOf
<1>15. ConsentOK(b')
  <2>1. \A k, x : SlotGrants(b', k, x) = SlotGrants(cut, k, x)
    BY <1>9 DEF SlotGrants, GrantsOf
  <2>2. \A k : SlotGrants(cut, k, Enrollment(new.id, new.enrollment)) = {}
    BY <1>5, <1>8 DEF SlotGrants, GrantsOf
  <2> QED
    BY <1>5, <1>9, <2>1, <2>2 DEF Good, ConsentOK
<1>16. \A k, x : Saw(cut, k, x) => Saw(b', k, x)
  BY <1>9 DEF Saw, SlotGrants, GrantsOf
<1>17. DecisionsOK(b')
  BY <1>5, <1>8, <1>9, <1>16 DEF Good, DecisionsOK
<1>18. Good(b')
  BY <1>11, <1>12, <1>13, <1>14, <1>15, <1>17 DEF Good
<1>19. Follows(b', cut)
  <2>1. b'.minted.registration >= cut.minted.registration
    BY <1>3, <1>9, <1>10
  <2>2. new.id = old.id /\ new.connection = old.connection /\ new.revision > old.revision
    BY <1>3, <1>6, <1>7, <1>8
  <2> QED
    BY <1>6, <1>9, <1>11, <1>16, <2>1, <2>2 DEF Follows
<1>20. Follows(cut, b)
  BY <1>1, <1>2, <1>5, WeakerFollows, FollowsChain
<1>21. Follows(b', b)
  BY <1>1, <1>5, <1>18, <1>19, <1>20, FollowsChain
<1> QED
  BY <1>1, <1>18, <1>21, Moves DEF Keep

\* prepare_enrollment_metadata_review keeps the invariant.
LEMMA PrepareReviewStep ==
    ASSUME BrokerInv, NEW r \in b.registrations, PrepareEnrollmentMetadataReview(r) PROVE BrokerInv'
<1> DEFINE p == PollExpiry(b)
           m == Mint(p, "registration")
           old == CHOOSE x \in p.registrations : x.id = r.id
           id == m.minted.registration
           c == r.connection
           new == [old EXCEPT !.review = id]
           t == [kind |-> "review", id |-> r.id, connection |-> c,
                 enrollment |-> r.enrollment, target |-> r.target, review |-> id,
                 revision |-> p.revisions[c]["Ordinary"],
                 ownership |-> OwnershipSnapshot(p, Controls(p, c)), expires |-> now + GrantLifetime,
                 seen |-> {g.epoch : g \in SlotGrants(p, c, Ordinary)}]
<1>1. Good(b) /\ b' = Update(m, old, new) /\ tokens' = tokens \cup {t} /\ now' = now /\ closed' = closed
  BY DEF BrokerInv, PrepareEnrollmentMetadataReview
<1>2. Polled(p, b)
  BY <1>1, PollEffect
<1>3. /\ t.kind = "review" /\ t.id = r.id /\ t.connection = c
      /\ t.revision = p.revisions[c]["Ordinary"]
      /\ t.seen = {g.epoch : g \in SlotGrants(p, c, Ordinary)}
  OBVIOUS
<1> HIDE DEF p, t
<1>4. Good(p) /\ Follows(p, b)
  BY <1>1, <1>2, WeakerFollows DEF Polled
<1>5. Good(m) /\ Follows(m, p) /\ (\A f \in Fields \ {"minted"} : m[f] = p[f])
  BY <1>4, MintIsGood, MintFollows, MintEffect DEF MintKinds, Good
<1>6. id = p.minted.registration + 1 /\ p.minted.registration \in Nat
  BY <1>4, MintEffect DEF MintKinds, Good, Shape
<1> HIDE DEF m
<1>7. m.registrations = p.registrations /\ m.grants = p.grants /\ m.revisions = p.revisions
  BY <1>5 DEF Fields
<1>8. old \in p.registrations /\ old.id = r.id
  BY <1>2 DEF Polled
<1> HIDE DEF old
<1>9. /\ DOMAIN old = RegistrationFields /\ old.revision \in Nat /\ old.revision <= p.minted.registration
      /\ old.id \in Nat /\ old.id <= p.minted.registration
  BY <1>4, <1>8 DEF Good, RegistrationsOK
<1>10. \A q \in p.registrations : q.id = r.id => q.connection = c
  BY <1>1, <1>2 DEF Polled, Good, RegistrationsOK
<1>11. /\ DOMAIN new = RegistrationFields /\ new.id = old.id /\ new.connection = old.connection
       /\ new.enrollment = old.enrollment /\ new.target = old.target /\ new.consent = old.consent
       /\ new.revision = old.revision /\ new.decision = old.decision
  BY <1>9 DEF RegistrationFields
<1> HIDE DEF new
<1>12. (\A d, e \in new.decision : d = e) /\ (\A d \in new.decision : Saw(m, old.connection, d))
  BY <1>5, <1>7, <1>8, <1>11 DEF Good, DecisionsOK
<1>13. /\ old \in m.registrations /\ new.revision \in Nat /\ old.revision <= new.revision
       /\ new.revision <= m.minted.registration
  BY <1>6, <1>7, <1>8, <1>9, <1>11
<1>14. /\ Good(b') /\ Follows(b', m) /\ b'.registrations = (m.registrations \ {old}) \cup {new}
       /\ b'.minted = m.minted /\ b'.grants = m.grants /\ b'.revisions = m.revisions
  BY <1>1, <1>5, <1>11, <1>12, <1>13, UpdateIsGood DEF Fields
<1>15. Follows(b', b)
  BY <1>1, <1>4, <1>5, <1>14, FollowsChain
<1>16. TokensOK(b', tokens) /\ ClosedOK(b', closed)
  BY <1>14, <1>15, FollowsKeepsTokens, FollowsKeepsClosed DEF BrokerInv, Follows
<1>17. ReviewOK(b', t)
  <2>1. t.id \in Nat /\ t.id <= b'.minted.registration
    BY <1>3, <1>6, <1>8, <1>9, <1>14
  <2>2. c \in Connections
    BY <1>1 DEF Good, RegistrationsOK
  <2>3. b'.revisions[c]["Ordinary"] \in Nat
    BY <1>14, <2>2 DEF Good, Shape, SlotKinds
  <2>4. t.revision = b'.revisions[c]["Ordinary"] /\ t.seen = {g.epoch : g \in SlotGrants(b', c, Ordinary)}
    BY <1>3, <1>7, <1>14 DEF SlotGrants, GrantsOf
  <2>5. Saw(b', c, t)
    BY <2>3, <2>4 DEF Saw
  <2>6. \A q \in b'.registrations : q.id = t.id => q.connection = c
    BY <1>3, <1>7, <1>8, <1>10, <1>11, <1>14
  <2> QED
    BY <1>3, <2>1, <2>2, <2>5, <2>6 DEF ReviewOK
<1>18. TokensOK(b', tokens')
  BY <1>1, <1>3, <1>16, <1>17 DEF TokensOK
<1> QED
  BY <1>1, <1>14, <1>16, <1>18 DEF BrokerInv

\* A review or a decision is taken back.
LEMMA ClearStep ==
    ASSUME BrokerInv, NEW r \in b.registrations, NEW decision \in {r.decision, {}}, Keep,
           b' = Update(b, r, [r EXCEPT !.review = 0, !.decision = decision])
    PROVE  BrokerInv'
<1> DEFINE new == [r EXCEPT !.review = 0, !.decision = decision]
<1>1. Good(b) /\ b' = Update(b, r, new)
  BY DEF BrokerInv
<1>2. /\ DOMAIN r = RegistrationFields /\ r.revision \in Nat /\ r.revision <= b.minted.registration
  BY <1>1 DEF Good, RegistrationsOK
<1>3. /\ DOMAIN new = RegistrationFields /\ new.id = r.id /\ new.connection = r.connection
      /\ new.enrollment = r.enrollment /\ new.target = r.target /\ new.consent = r.consent
      /\ new.revision = r.revision /\ new.decision = decision
  BY <1>2 DEF RegistrationFields
<1> HIDE DEF new
<1>4. (\A d, e \in new.decision : d = e) /\ (\A d \in new.decision : Saw(b, r.connection, d))
  BY <1>1, <1>3 DEF Good, DecisionsOK
<1>5. new.revision \in Nat /\ r.revision <= new.revision /\ new.revision <= b.minted.registration
  BY <1>2, <1>3
<1>6. Good(b') /\ Follows(b', b)
  BY <1>1, <1>3, <1>4, <1>5, UpdateIsGood
<1> QED
  BY <1>6, Moves DEF Keep

\* cancel_enrollment_metadata_review keeps the invariant.
LEMMA CancelReviewStep ==
    ASSUME BrokerInv, NEW r \in b.registrations, CancelEnrollmentMetadataReview(r) PROVE BrokerInv'
<1>1. DOMAIN r = RegistrationFields
  BY DEF BrokerInv, Good, RegistrationsOK
<1>2. [r EXCEPT !.review = 0] = [r EXCEPT !.review = 0, !.decision = r.decision]
  BY <1>1 DEF RegistrationFields
<1>3. b' = Update(b, r, [r EXCEPT !.review = 0, !.decision = r.decision]) /\ Keep
  BY <1>2 DEF CancelEnrollmentMetadataReview
<1> QED
  BY <1>3, ClearStep

\* revoke_enrollment_metadata_decision keeps the invariant.
LEMMA RevokeDecisionStep ==
    ASSUME BrokerInv, NEW r \in b.registrations, RevokeEnrollmentMetadataDecision(r) PROVE BrokerInv'
<1>1. b' = Update(b, r, [r EXCEPT !.review = 0, !.decision = {}]) /\ Keep
  BY DEF RevokeEnrollmentMetadataDecision
<1> QED
  BY <1>1, ClearStep

\* approve_enrollment_metadata_review keeps the invariant: the decision saw what its review saw.
LEMMA ApproveReviewStep ==
    ASSUME BrokerInv, NEW t \in tokens, NEW lifetime, ApproveEnrollmentMetadataReview(t, lifetime)
    PROVE  BrokerInv'
<1> DEFINE s == PollExpiry(b)
<1>1. Good(b) /\ Keep /\ t.kind = "review"
  BY DEF BrokerInv, ApproveEnrollmentMetadataReview
<1>2. PICK r \in s.registrations :
         /\ r.id = t.id
         /\ b' = Update(s, r, [r EXCEPT !.review = 0,
                                        !.decision = {[enrollment |-> r.enrollment,
                                                       revision |-> t.revision,
                                                       expires |-> now + lifetime,
                                                       seen |-> t.seen]}])
  BY DEF ApproveEnrollmentMetadataReview
<1>3. Polled(s, b)
  BY <1>1, PollEffect
<1> HIDE DEF s
<1>4. Good(s) /\ Follows(s, b)
  BY <1>1, <1>3, WeakerFollows DEF Polled
<1> DEFINE d == [enrollment |-> r.enrollment, revision |-> t.revision, expires |-> now + lifetime,
                 seen |-> t.seen]
           new == [r EXCEPT !.review = 0, !.decision = {d}]
<1>5. b' = Update(s, r, new)
  BY <1>2
<1>6. d.revision = t.revision /\ d.seen = t.seen
  OBVIOUS
<1> HIDE DEF d
<1>7. /\ DOMAIN r = RegistrationFields /\ r.revision \in Nat /\ r.revision <= s.minted.registration
  BY <1>4 DEF Good, RegistrationsOK
<1>8. /\ DOMAIN new = RegistrationFields /\ new.id = r.id /\ new.connection = r.connection
      /\ new.enrollment = r.enrollment /\ new.target = r.target /\ new.consent = r.consent
      /\ new.revision = r.revision /\ new.decision = {d}
  BY <1>7 DEF RegistrationFields
<1> HIDE DEF new
<1>9. Saw(s, r.connection, d)
  <2>1. ReviewOK(s, t)
    BY <1>1, <1>4, FollowsKeepsTokens DEF BrokerInv, TokensOK
  <2>2. Saw(s, r.connection, t)
    BY <1>2, <2>1 DEF ReviewOK
  <2> QED
    BY <1>6, <2>2 DEF Saw
<1>10. (\A x, y \in new.decision : x = y) /\ (\A x \in new.decision : Saw(s, r.connection, x))
  BY <1>8, <1>9
<1>11. new.revision \in Nat /\ r.revision <= new.revision /\ new.revision <= s.minted.registration
  BY <1>7, <1>8
<1>12. Good(b') /\ Follows(b', s)
  BY <1>4, <1>5, <1>8, <1>10, <1>11, UpdateIsGood
<1>13. Follows(b', b)
  BY <1>1, <1>4, <1>12, FollowsChain
<1> QED
  BY <1>1, <1>12, <1>13, Moves DEF Keep

-----------------------------------------------------------------------------
(* Native decisions on proposals. *)

\* The registrations are the same, consents of the client c aside.
Reconsented(new, old, c) ==
    /\ \A q \in new : \E r \in old :
          /\ DOMAIN q = RegistrationFields
          /\ q.id = r.id /\ q.connection = r.connection /\ q.enrollment = r.enrollment
          /\ q.target = r.target /\ q.revision = r.revision /\ q.decision = r.decision
          /\ r.connection # c => q = r
    /\ \A r \in old : \E q \in new : q.id = r.id
    /\ \A q, r \in new : q.id = r.id => q = r

\* n is s with the grant g of the client c in a slot that was free.
Approved(n, s, c, slot, g) ==
    /\ DOMAIN n = Fields
    /\ n.principals = s.principals /\ n.retired = s.retired /\ n.proposals = s.proposals
    /\ n.minted = s.minted /\ n.targets = s.targets /\ n.forgotten = s.forgotten
    /\ DOMAIN n.usage = Connections /\ DOMAIN n.consent = Connections
    /\ \A k \in Connections \ {c} : n.consent[k] = s.consent[k]
    /\ n.grants = s.grants \cup {g} /\ DOMAIN g = GrantFields
    /\ n.revisions = [s.revisions EXCEPT ![c][slot[1]] = @ + 1]
    /\ n.pending = {p \in s.pending : p.connection \notin {c} \/ p.revisions = n.revisions[p.connection]}
    /\ Reconsented(n.registrations, s.registrations, c)

\* The client's consents cover the ordinary grant of n.
Covered(n, c) ==
    \A o \in SlotGrants(n, c, Ordinary) : o.controls # {} =>
        /\ \A m \in SlotGrants(n, c, Metadata) :
              n.consent[c] = {<<o.epoch, m.epoch>>} /\ ValidateCrossClosure(o, m.sources)
        /\ \A q \in {x \in n.registrations : x.connection = c} :
              \A m \in SlotGrants(n, c, Enrollment(q.id, q.enrollment)) :
                  /\ q.consent = {[ordinary |-> o.epoch, metadata |-> m.epoch, sinks |-> o.controls]}
                  /\ ValidateCrossClosure(o, m.sources)

\* A grant in a free slot keeps the invariant, if it names live things and is consented to.
LEMMA ApprovedIsGood ==
    ASSUME NEW s, Good(s), NEW c \in s.principals, NEW slot \in Slots, NEW g,
           g.connection = c, g.slot = slot, GrantTargets(g) \subseteq Current(s),
           SlotGrants(s, c, slot) = {},
           slot[1] = "Enrollment" => /\ g.controls = {}
                                     /\ \E r \in Enrolled(s, c, slot) : g.sources = {r.target},
           NEW n, Approved(n, s, c, slot, g), Covered(n, c)
    PROVE  Good(n) /\ Follows(n, s)
<1>1. /\ Shape(s) /\ TargetsOK(s) /\ GrantsOK(s) /\ RegistrationsOK(s)
      /\ LiveOK(s) /\ PendingOK(s) /\ ConsentOK(s) /\ DecisionsOK(s)
  BY DEF Good
<1>2. c \in Connections /\ slot[1] \in SlotKinds /\ (slot[1] = "Ordinary" <=> slot = Ordinary)
  BY <1>1, SlotsByKind DEF Shape
<1>3. /\ n.revisions \in [Connections -> [SlotKinds -> Nat]]
      /\ n.revisions[c][slot[1]] = s.revisions[c][slot[1]] + 1
      /\ \A k \in Connections \ {c} : n.revisions[k] = s.revisions[k]
      /\ \A i \in SlotKinds \ {slot[1]} : n.revisions[c][i] = s.revisions[c][i]
      /\ s.revisions \in [Connections -> [SlotKinds -> Nat]]
  <2>1. n.revisions = [s.revisions EXCEPT ![c][slot[1]] = @ + 1]
    BY DEF Approved
  <2>2. s.revisions \in [Connections -> [SlotKinds -> Nat]]
    BY <1>1 DEF Shape
  <2> QED
    BY <1>2, <2>1, <2>2
<1>4. Shape(n)
  BY <1>1, <1>3 DEF Shape, Approved
<1>5. TargetsOK(n) /\ Current(n) = Current(s) /\ SameReferences(n, s)
  BY <1>1 DEF TargetsOK, Approved, Current, SameReferences
<1>6. n.grants = s.grants \cup {g} /\ DOMAIN g = GrantFields
  BY DEF Approved
<1>7. GrantsOK(n)
  <2>1. IsFiniteSet(n.grants)
    BY <1>1, <1>6, FS_AddElement DEF GrantsOK
  <2>2. \A h \in s.grants : ~(h.connection = c /\ h.slot = slot)
    BY DEF SlotGrants, GrantsOf
  <2>3. \A h \in n.grants : /\ DOMAIN h = GrantFields
                            /\ h.connection \in Connections /\ h.slot \in Slots
                            /\ h.slot[1] = "Enrollment" => h.controls = {}
    BY <1>1, <1>2, <1>6 DEF GrantsOK
  <2>4. \A h, i \in n.grants : h.connection = i.connection /\ h.slot = i.slot => h = i
    BY <1>1, <1>6, <2>2 DEF GrantsOK
  <2> QED
    BY <2>1, <2>3, <2>4 DEF GrantsOK
<1>8. Reconsented(n.registrations, s.registrations, c) /\ n.minted = s.minted
  BY DEF Approved
<1>9. RegistrationsOK(n)
  <2>1. \A q \in n.registrations :
          /\ DOMAIN q = RegistrationFields /\ q.connection \in Connections
          /\ q.id \in Nat /\ q.revision \in Nat /\ q.enrollment \in Nat
          /\ q.id <= n.minted.registration /\ q.revision <= n.minted.registration
          /\ q.enrollment <= q.revision
    BY <1>1, <1>8 DEF Reconsented, RegistrationsOK
  <2> QED
    BY <1>8, <2>1 DEF RegistrationsOK, Reconsented
<1>10. ASSUME NEW k, NEW x, NEW r \in Enrolled(s, k, x)
       PROVE  \E q \in Enrolled(n, k, x) : q.target = r.target
  <2>1. PICK q \in n.registrations : q.id = r.id
    BY <1>8 DEF Reconsented, Enrolled
  <2>2. PICK y \in s.registrations : /\ q.id = y.id /\ q.connection = y.connection
                                     /\ q.enrollment = y.enrollment /\ q.target = y.target
    BY <1>8 DEF Reconsented
  <2>3. y = r
    BY <1>1, <2>1, <2>2 DEF RegistrationsOK, Enrolled
  <2>4. q \in Enrolled(n, k, x)
    BY <1>5, <2>1, <2>2, <2>3 DEF Enrolled
  <2> QED
    BY <2>2, <2>3, <2>4
<1>11. LiveOK(n)
  <2> SUFFICES ASSUME NEW h \in n.grants
               PROVE  /\ h.connection \in n.principals
                      /\ GrantTargets(h) \subseteq Current(n)
                      /\ h.slot[1] = "Enrollment" =>
                            \E r \in Enrolled(n, h.connection, h.slot) : h.sources = {r.target}
    BY DEF LiveOK
  <2>1. h.connection \in n.principals /\ GrantTargets(h) \subseteq Current(n)
    BY <1>1, <1>5, <1>6 DEF LiveOK, Approved
  <2>2. ASSUME h.slot[1] = "Enrollment"
        PROVE  \E r \in Enrolled(n, h.connection, h.slot) : h.sources = {r.target}
    <3>1. \E r \in Enrolled(s, h.connection, h.slot) : h.sources = {r.target}
      <4>1. CASE h = g
        BY <2>2, <4>1
      <4>2. CASE h \in s.grants
        BY <1>1, <2>2, <4>2 DEF LiveOK
      <4> QED
        BY <1>6, <4>1, <4>2
    <3>2. PICK r \in Enrolled(s, h.connection, h.slot) : h.sources = {r.target}
      BY <3>1
    <3> QED
      BY <1>10, <3>2
  <2> QED
    BY <2>1, <2>2
<1>12. \A k : k # c => GrantsOf(n, k) = GrantsOf(s, k)
  BY <1>6 DEF GrantsOf
<1>13. PendingOK(n)
  <2> SUFFICES ASSUME NEW p \in n.pending
               PROVE  /\ p.connection \in n.principals
                      /\ p.revisions = n.revisions[p.connection]
                      /\ p.seen = {h.epoch : h \in GrantsOf(n, p.connection)}
                      /\ GrantTargets(p) \subseteq Current(n)
    BY DEF PendingOK
  <2>1. p \in s.pending /\ (p.connection # c \/ p.revisions = n.revisions[p.connection])
    BY DEF Approved
  <2>2. /\ p.connection \in s.principals /\ p.revisions = s.revisions[p.connection]
        /\ p.seen = {h.epoch : h \in GrantsOf(s, p.connection)} /\ GrantTargets(p) \subseteq Current(s)
    BY <1>1, <2>1 DEF PendingOK
  <2>3. p.connection # c
    <3>1. s.revisions[c][slot[1]] \in Nat
      BY <1>2, <1>3
    <3>2. n.revisions[c] # s.revisions[c]
      BY <1>3, <3>1
    <3> QED
      BY <2>1, <2>2, <3>2
  <2>4. p.connection \in Connections
    BY <1>1, <2>2 DEF Shape
  <2> QED
    BY <1>3, <1>5, <1>12, <2>2, <2>3, <2>4 DEF Approved
<1>14. ConsentOK(n)
  <2> SUFFICES ASSUME NEW o \in n.grants, o.slot = Ordinary, o.controls # {}
               PROVE  /\ \A m \in SlotGrants(n, o.connection, Metadata) :
                            /\ n.consent[o.connection] = {<<o.epoch, m.epoch>>}
                            /\ ValidateCrossClosure(o, m.sources)
                      /\ \A r \in {x \in n.registrations : x.connection = o.connection} :
                            \A m \in SlotGrants(n, o.connection, Enrollment(r.id, r.enrollment)) :
                               /\ r.consent = {[ordinary |-> o.epoch, metadata |-> m.epoch,
                                                sinks |-> o.controls]}
                               /\ ValidateCrossClosure(o, m.sources)
    BY DEF ConsentOK
  <2>1. CASE o.connection = c
    <3>1. o \in SlotGrants(n, c, Ordinary)
      BY <2>1 DEF SlotGrants, GrantsOf
    <3> QED
      BY <2>1, <3>1 DEF Covered
  <2>2. CASE o.connection # c
    <3>1. o \in s.grants /\ o.connection \in Connections
      BY <1>1, <1>6, <2>2 DEF GrantsOK
    <3>2. \A x : SlotGrants(n, o.connection, x) = SlotGrants(s, o.connection, x)
      BY <1>12, <2>2 DEF SlotGrants
    <3>3. n.consent[o.connection] = s.consent[o.connection]
      BY <2>2, <3>1 DEF Approved
    <3>4. \A q \in n.registrations : q.connection = o.connection => q \in s.registrations
      BY <1>8, <2>2 DEF Reconsented
    <3> QED
      BY <1>1, <3>1, <3>2, <3>3, <3>4 DEF ConsentOK
  <2> QED
    BY <2>1, <2>2
<1>15. ASSUME NEW k \in Connections, NEW x, Saw(s, k, x) PROVE Saw(n, k, x)
  <2>1. /\ n.revisions[k]["Ordinary"] \in Nat /\ s.revisions[k]["Ordinary"] \in Nat
        /\ x.revision \in Nat /\ x.revision <= s.revisions[k]["Ordinary"]
        /\ x.revision = s.revisions[k]["Ordinary"] => x.seen = {h.epoch : h \in SlotGrants(s, k, Ordinary)}
    BY <1>3, <1>15 DEF Saw, SlotKinds
  <2>2. CASE k = c /\ slot = Ordinary
    <3>1. n.revisions[k]["Ordinary"] = s.revisions[k]["Ordinary"] + 1
      BY <1>2, <1>3, <2>2
    <3>2. x.revision <= n.revisions[k]["Ordinary"] /\ x.revision # n.revisions[k]["Ordinary"]
      BY <2>1, <3>1
    <3> QED
      BY <2>1, <3>2 DEF Saw
  <2>3. CASE k # c \/ slot # Ordinary
    <3>1. n.revisions[k]["Ordinary"] = s.revisions[k]["Ordinary"]
      BY <1>2, <1>3, <2>3 DEF SlotKinds
    <3>2. SlotGrants(n, k, Ordinary) = SlotGrants(s, k, Ordinary)
      BY <1>6, <2>3 DEF SlotGrants, GrantsOf
    <3> QED
      BY <2>1, <3>1, <3>2 DEF Saw
  <2> QED
    BY <2>2, <2>3
<1>16. DecisionsOK(n)
  <2> SUFFICES ASSUME NEW q \in n.registrations
               PROVE  (\A d, e \in q.decision : d = e) /\ (\A d \in q.decision : Saw(n, q.connection, d))
    BY DEF DecisionsOK
  <2>1. PICK r \in s.registrations : q.connection = r.connection /\ q.decision = r.decision
    BY <1>8 DEF Reconsented
  <2>2. r.connection \in Connections
    BY <1>1 DEF RegistrationsOK
  <2> QED
    BY <1>1, <1>15, <2>1, <2>2 DEF DecisionsOK
<1>17. Good(n)
  BY <1>4, <1>5, <1>7, <1>9, <1>11, <1>13, <1>14, <1>16 DEF Good
<1>18. Follows(n, s)
  <2>1. n.minted.registration >= s.minted.registration
    BY <1>1, <1>8 DEF Shape, MintKinds
  <2>2. n.forgotten = s.forgotten
    BY DEF Approved
  <2>3. \A q \in n.registrations : \E r \in s.registrations :
           /\ q.id = r.id /\ q.connection = r.connection
           /\ q.revision = r.revision /\ q.enrollment = r.enrollment
    BY <1>8 DEF Reconsented
  <2> QED
    BY <1>5, <1>15, <2>1, <2>2, <2>3 DEF Follows
<1> QED
  BY <1>17, <1>18

\* The grant Install makes.
NewGrant(s, c, slot, scope, handoffs, lifetime) ==
    [connection |-> c, slot |-> slot, epoch |-> s.minted.grant,
     controls |-> scope.controls, sources |-> scope.sources,
     bindings |-> scope.bindings, invoke |-> scope.invoke, results |-> scope.results,
     handoffs |-> handoffs, expires |-> now + lifetime, usage |-> 0]

\* The broker value Install puts it in: the slot is free.
Cleared(s, c, slot) == RevokeSlot(Mint(s, "grant"), c, slot)

\* Install first takes the slot's old grant, and only that, away.
LEMMA ClearedEffect ==
    ASSUME NEW s, Good(s), NEW c \in s.principals, NEW slot \in Slots
    PROVE  LET f == Cleared(s, c, slot)
           IN  /\ Good(f) /\ Follows(f, s) /\ Current(f) = Current(s)
               /\ f.principals = s.principals
               /\ f.grants = {x \in s.grants : ~(x.connection = c /\ x.slot = slot)}
               /\ \A q \in f.registrations : \E r \in s.registrations :
                     /\ q.id = r.id /\ q.connection = r.connection
                     /\ q.enrollment = r.enrollment /\ q.target = r.target
               /\ \A r \in s.registrations : \E q \in f.registrations : q.id = r.id
<1> DEFINE m == Mint(s, "grant")
           f == Cleared(s, c, slot)
<1>1. Good(m) /\ Follows(m, s) /\ (\A x \in Fields \ {"minted"} : m[x] = s[x])
  BY MintIsGood, MintFollows, MintEffect DEF MintKinds, Good
<1>2. f = RevokeSlots(m, {<<c, slot>>})
  BY DEF Cleared, RevokeSlot
<1> HIDE DEF m, f
<1>3. Good(f) /\ Weaker(f, m) /\ Revoked(f, m, {<<c, slot>>})
  BY <1>1, <1>2, RevokeIsGood, RevokeIsWeaker, RevokeEffect DEF Good
<1>4. m.grants = s.grants /\ m.principals = s.principals /\ m.registrations = s.registrations
  BY <1>1 DEF Fields
<1>5. Follows(f, s)
  BY <1>1, <1>3, WeakerFollows, FollowsChain
<1>6. Current(f) = Current(s)
  BY <1>5, CurrentDependsOnTargets DEF Follows
<1>7. f.principals = s.principals /\ f.grants = {x \in s.grants : ~(x.connection = c /\ x.slot = slot)}
  BY <1>3, <1>4 DEF Revoked
<1>8. \A q \in f.registrations : \E r \in s.registrations :
            /\ q.id = r.id /\ q.connection = r.connection
            /\ q.enrollment = r.enrollment /\ q.target = r.target
  BY <1>3, <1>4 DEF Weaker
<1>9. ASSUME NEW r \in s.registrations PROVE \E q \in f.registrations : q.id = r.id
  <2>1. Forgets(r, {<<c, slot>>}) \in f.registrations
    BY <1>1, <1>3, <1>4, RevokedRegistrations DEF Good
  <2>2. Forgets(r, {<<c, slot>>}).id = r.id
    BY ForgetsEffect DEF Good, RegistrationsOK, RegistrationFields
  <2> QED
    BY <2>1, <2>2
<1> QED
  BY <1>3, <1>5, <1>6, <1>7, <1>8, <1>9 DEF f

\* n is f with the grant g for that scope in the slot of the client.
Installed(n, f, c, slot, scope, handoffs, g) ==
    /\ DOMAIN n = Fields
    /\ \A x \in Fields \ {"usage", "revisions", "grants"} : n[x] = f[x]
    /\ DOMAIN n.usage = Connections
    /\ n.revisions = [f.revisions EXCEPT ![c][slot[1]] = @ + 1]
    /\ n.grants = f.grants \cup {g} /\ DOMAIN g = GrantFields
    /\ g.connection = c /\ g.slot = slot /\ g.epoch = n.minted.grant
    /\ g.controls = scope.controls /\ g.sources = scope.sources /\ g.handoffs = handoffs

\* Install then puts the new grant there.
LEMMA InstallEffect ==
    ASSUME NEW s, Good(s), NEW c \in s.principals, NEW slot \in Slots, NEW scope, NEW handoffs,
           NEW lifetime
    PROVE  Installed(Install(s, c, slot, scope, handoffs, lifetime), Cleared(s, c, slot), c, slot,
                     scope, handoffs,
                     NewGrant(Cleared(s, c, slot), c, slot, scope, handoffs, lifetime))
<1> DEFINE m == Mint(s, "grant")
           f == Cleared(s, c, slot)
           g == NewGrant(f, c, slot, scope, handoffs, lifetime)
           n == Install(s, c, slot, scope, handoffs, lifetime)
<1>1. n = [f EXCEPT
            !.usage[c] = IF GrantsOf(f, c) = {} THEN 0 ELSE @,
            !.revisions[c][slot[1]] = @ + 1,
            !.grants = @ \cup
               {[connection |-> c, slot |-> slot, epoch |-> m.minted.grant,
                 controls |-> scope.controls, sources |-> scope.sources,
                 bindings |-> scope.bindings, invoke |-> scope.invoke, results |-> scope.results,
                 handoffs |-> handoffs, expires |-> now + lifetime, usage |-> 0]}]
  BY DEF Install, Cleared
<1>2. Good(f)
  BY ClearedEffect
<1>3. f.minted = m.minted
  <2>1. f = RevokeSlots(m, {<<c, slot>>}) /\ Good(m)
    BY MintIsGood DEF Cleared, RevokeSlot, MintKinds
  <2> HIDE DEF f, m
  <2>2. Weaker(f, m)
    BY <2>1, RevokeIsWeaker
  <2> QED
    BY <2>2 DEF Weaker
<1> HIDE DEF m, n, f
<1>4. n = [f EXCEPT !.usage[c] = IF GrantsOf(f, c) = {} THEN 0 ELSE @,
                    !.revisions[c][slot[1]] = @ + 1,
                    !.grants = @ \cup {g}]
  BY <1>1, <1>3 DEF NewGrant
<1>5. /\ g.connection = c /\ g.slot = slot /\ g.epoch = f.minted.grant
      /\ g.controls = scope.controls /\ g.sources = scope.sources /\ g.handoffs = handoffs
      /\ DOMAIN g = GrantFields
  BY DEF NewGrant, GrantFields
<1> HIDE DEF g
<1>6. /\ DOMAIN n = Fields
      /\ \A x \in Fields \ {"usage", "revisions", "grants"} : n[x] = f[x]
      /\ n.revisions = [f.revisions EXCEPT ![c][slot[1]] = @ + 1]
      /\ n.grants = f.grants \cup {g}
  BY <1>2, <1>4 DEF Good, Shape, Fields
<1>7. DOMAIN n.usage = Connections
  BY <1>2, <1>4 DEF Good, Shape, Fields
<1>8. n.minted = f.minted
  BY <1>6 DEF Fields
<1> QED
  BY <1>5, <1>6, <1>7, <1>8 DEF Installed, n, g, f

\* Covered does not look at anything else.
LEMMA CoveredAgain ==
    ASSUME NEW n, NEW x, NEW c, n.grants = x.grants, n.consent = x.consent,
           n.registrations = x.registrations, Covered(x, c)
    PROVE  Covered(n, c)
<1>1. \A y : SlotGrants(n, c, y) = SlotGrants(x, c, y)
  BY DEF SlotGrants, GrantsOf
<1> QED
  BY <1>1 DEF Covered

\* A decision on a proposal: expire, install, record the consents (x), drop
\* what was proposed before.
Decides(s, c, slot, scope, handoffs, lifetime, new, x) ==
    /\ s = PollExpiry(b) /\ c \in s.principals /\ slot \in Slots
    /\ GrantTargets(scope) \subseteq Current(s)
    /\ slot[1] = "Enrollment" => /\ scope.controls = {}
                                 /\ \E r \in Enrolled(s, c, slot) : scope.sources = {r.target}
    /\ new = Install(s, c, slot, scope, handoffs, lifetime)
    /\ DOMAIN x = Fields /\ \A i \in Fields \ {"registrations", "consent"} : x[i] = new[i]
    /\ DOMAIN x.consent = Connections /\ \A k \in Connections \ {c} : x.consent[k] = new.consent[k]
    /\ Reconsented(x.registrations, new.registrations, c) /\ Covered(x, c)
    /\ b' = DiscardStaleProposals(x, {c}) /\ Keep

\* A native decision keeps the invariant.
LEMMA DecisionStep ==
    ASSUME BrokerInv, NEW s, NEW c, NEW slot, NEW scope, NEW handoffs, NEW lifetime, NEW new, NEW x,
           Decides(s, c, slot, scope, handoffs, lifetime, new, x)
    PROVE  BrokerInv'
<1>a. /\ s = PollExpiry(b) /\ c \in s.principals /\ slot \in Slots
      /\ GrantTargets(scope) \subseteq Current(s)
      /\ slot[1] = "Enrollment" => /\ scope.controls = {}
                                   /\ \E r \in Enrolled(s, c, slot) : scope.sources = {r.target}
  BY DEF Decides
<1>b. new = Install(s, c, slot, scope, handoffs, lifetime)
  BY DEF Decides
<1>c. /\ DOMAIN x = Fields /\ \A i \in Fields \ {"registrations", "consent"} : x[i] = new[i]
      /\ DOMAIN x.consent = Connections /\ \A k \in Connections \ {c} : x.consent[k] = new.consent[k]
      /\ Reconsented(x.registrations, new.registrations, c) /\ Covered(x, c)
  BY DEF Decides
<1>d. b' = DiscardStaleProposals(x, {c}) /\ Keep
  BY DEF Decides
<1> DEFINE f == Cleared(s, c, slot)
           g == NewGrant(f, c, slot, scope, handoffs, lifetime)
<1>1. Good(b) /\ Good(s) /\ Follows(s, b)
  <2>1. Good(b) /\ Polled(s, b)
    BY <1>a, PollEffect DEF BrokerInv
  <2> QED
    BY <2>1, WeakerFollows DEF Polled
<1>2. /\ Good(f) /\ Follows(f, s) /\ Current(f) = Current(s)
      /\ f.principals = s.principals
      /\ f.grants = {y \in s.grants : ~(y.connection = c /\ y.slot = slot)}
      /\ \A q \in f.registrations : \E r \in s.registrations :
            /\ q.id = r.id /\ q.connection = r.connection
            /\ q.enrollment = r.enrollment /\ q.target = r.target
      /\ \A r \in s.registrations : \E q \in f.registrations : q.id = r.id
  BY <1>1, <1>a, ClearedEffect
<1>e. Installed(new, f, c, slot, scope, handoffs, g)
  BY <1>1, <1>a, <1>b, InstallEffect
<1> HIDE DEF f, g
<1>3. /\ \A i \in Fields \ {"usage", "revisions", "grants"} : new[i] = f[i]
      /\ DOMAIN new.usage = Connections
      /\ new.revisions = [f.revisions EXCEPT ![c][slot[1]] = @ + 1]
      /\ new.grants = f.grants \cup {g}
      /\ g.connection = c /\ g.slot = slot
      /\ g.controls = scope.controls /\ g.sources = scope.sources /\ DOMAIN g = GrantFields
  BY <1>e DEF Installed
<1>4. /\ DOMAIN b' = Fields /\ (\A i \in Fields \ {"pending"} : b'[i] = x[i])
      /\ b'.pending = {p \in x.pending : p.connection \notin {c} \/ p.revisions = x.revisions[p.connection]}
  BY <1>c, <1>d DEF DiscardStaleProposals, Fields
<1>5. /\ b'.principals = f.principals /\ b'.retired = f.retired /\ b'.proposals = f.proposals
      /\ b'.minted = f.minted /\ b'.targets = f.targets /\ b'.forgotten = f.forgotten
      /\ DOMAIN b'.usage = Connections /\ DOMAIN b'.consent = Connections
      /\ b'.grants = f.grants \cup {g} /\ b'.consent = x.consent /\ b'.registrations = x.registrations
      /\ b'.revisions = [f.revisions EXCEPT ![c][slot[1]] = @ + 1]
      /\ x.pending = f.pending /\ b'.revisions = x.revisions
      /\ new.consent = f.consent /\ new.registrations = f.registrations /\ x.grants = b'.grants
  <2>1. /\ new.principals = f.principals /\ new.retired = f.retired /\ new.proposals = f.proposals
        /\ new.minted = f.minted /\ new.targets = f.targets /\ new.forgotten = f.forgotten
        /\ new.pending = f.pending /\ new.consent = f.consent /\ new.registrations = f.registrations
    BY <1>3 DEF Fields
  <2>2. /\ x.principals = new.principals /\ x.retired = new.retired /\ x.proposals = new.proposals
        /\ x.minted = new.minted /\ x.targets = new.targets /\ x.forgotten = new.forgotten
        /\ x.pending = new.pending /\ x.grants = new.grants /\ x.revisions = new.revisions
        /\ x.usage = new.usage
    BY <1>c DEF Fields
  <2>3. /\ b'.principals = x.principals /\ b'.retired = x.retired /\ b'.proposals = x.proposals
        /\ b'.minted = x.minted /\ b'.targets = x.targets /\ b'.forgotten = x.forgotten
        /\ b'.grants = x.grants /\ b'.revisions = x.revisions /\ b'.usage = x.usage
        /\ b'.consent = x.consent /\ b'.registrations = x.registrations
    BY <1>4 DEF Fields
  <2> QED
    BY <1>3, <1>c, <2>1, <2>2, <2>3, Zenon
<1>6. Approved(b', f, c, slot, g)
  <2>1. \A k \in Connections \ {c} : b'.consent[k] = f.consent[k]
    BY <1>5, <1>c
  <2>2. b'.pending = {p \in f.pending : p.connection \notin {c} \/ p.revisions = b'.revisions[p.connection]}
    BY <1>4, <1>5
  <2>3. Reconsented(b'.registrations, f.registrations, c)
    BY <1>5, <1>c
  <2> QED
    BY <1>3, <1>4, <1>5, <2>1, <2>2, <2>3, Zenon DEF Approved
<1>7. Covered(b', c)
  BY <1>5, <1>c, CoveredAgain
<1>8. SlotGrants(f, c, slot) = {} /\ GrantTargets(g) \subseteq Current(f)
  BY <1>2, <1>3, <1>a DEF SlotGrants, GrantsOf, GrantTargets
<1>9. slot[1] = "Enrollment" => g.controls = {} /\ \E r \in Enrolled(f, c, slot) : g.sources = {r.target}
  <2> SUFFICES ASSUME slot[1] = "Enrollment"
               PROVE  g.controls = {} /\ \E r \in Enrolled(f, c, slot) : g.sources = {r.target}
    OBVIOUS
  <2>1. PICK r \in Enrolled(s, c, slot) : scope.sources = {r.target}
    BY <1>a
  <2>2. PICK q \in f.registrations : q.id = r.id
    BY <1>2, <2>1 DEF Enrolled
  <2>3. PICK y \in s.registrations : /\ q.id = y.id /\ q.connection = y.connection
                                     /\ q.enrollment = y.enrollment /\ q.target = y.target
    BY <1>2, <2>2
  <2>4. y = r
    BY <1>1, <2>1, <2>2, <2>3 DEF Good, RegistrationsOK, Enrolled
  <2>5. q \in Enrolled(f, c, slot) /\ q.target = r.target
    BY <1>2, <2>1, <2>2, <2>3, <2>4 DEF Enrolled
  <2> QED
    BY <1>3, <1>a, <2>1, <2>5
<1>10. c \in f.principals
  BY <1>2, <1>a
<1>11. Good(b') /\ Follows(b', f)
  BY <1>2, <1>3, <1>6, <1>7, <1>8, <1>9, <1>10, <1>a, ApprovedIsGood
<1>12. Follows(b', b)
  BY <1>1, <1>2, <1>11, FollowsChain
<1> QED
  BY <1>11, <1>12, <1>d, Moves DEF Keep

\* The slots after Install: the new grant in its own, the others as they were.
LEMMA InstalledSlots ==
    ASSUME NEW s, Good(s), NEW c, c \in s.principals, NEW slot, slot \in Slots, NEW scope,
           NEW handoffs, NEW lifetime, NEW new, new = Install(s, c, slot, scope, handoffs, lifetime)
    PROVE  /\ Good(Cleared(s, c, slot)) /\ DOMAIN new = Fields
           /\ new.registrations = Cleared(s, c, slot).registrations
           /\ new.consent = Cleared(s, c, slot).consent
           /\ \A q \in new.registrations : \E r \in s.registrations :
                 /\ q.id = r.id /\ q.connection = r.connection
                 /\ q.enrollment = r.enrollment /\ q.target = r.target
           /\ \A y : y # slot => /\ SlotGrants(new, c, y) = SlotGrants(s, c, y)
                                 /\ SlotGrants(Cleared(s, c, slot), c, y) = SlotGrants(s, c, y)
           /\ \A g \in SlotGrants(new, c, slot) :
                 /\ g.epoch = new.minted.grant /\ g.controls = scope.controls
                 /\ g.sources = scope.sources /\ g.handoffs = handoffs
<1> DEFINE f == Cleared(s, c, slot)
           g == NewGrant(f, c, slot, scope, handoffs, lifetime)
<1>1. /\ Good(f)
      /\ f.grants = {y \in s.grants : ~(y.connection = c /\ y.slot = slot)}
      /\ \A q \in f.registrations : \E r \in s.registrations :
            /\ q.id = r.id /\ q.connection = r.connection
            /\ q.enrollment = r.enrollment /\ q.target = r.target
  BY ClearedEffect
<1>a. Installed(new, f, c, slot, scope, handoffs, g)
  BY InstallEffect
<1> HIDE DEF f, g
<1>2. /\ DOMAIN new = Fields /\ \A i \in Fields \ {"usage", "revisions", "grants"} : new[i] = f[i]
      /\ new.grants = f.grants \cup {g}
      /\ g.connection = c /\ g.slot = slot /\ g.epoch = new.minted.grant
      /\ g.controls = scope.controls /\ g.sources = scope.sources /\ g.handoffs = handoffs
  BY <1>a DEF Installed
<1>3. new.registrations = f.registrations /\ new.consent = f.consent
  BY <1>2 DEF Fields
<1>4. \A y : y # slot => SlotGrants(new, c, y) = SlotGrants(s, c, y) /\ SlotGrants(f, c, y) = SlotGrants(s, c, y)
  BY <1>1, <1>2 DEF SlotGrants, GrantsOf
<1>5. \A h \in SlotGrants(new, c, slot) : h = g
  BY <1>1, <1>2 DEF SlotGrants, GrantsOf
<1> QED
  BY <1>1, <1>2, <1>3, <1>4, <1>5 DEF f

\* A slot holds one grant.
LEMMA SlotIsSingle ==
    ASSUME NEW s, GrantsOK(s), NEW c, NEW slot, NEW m \in SlotGrants(s, c, slot)
    PROVE  SlotGrants(s, c, slot) = {m}
BY DEF GrantsOK, SlotGrants, GrantsOf

\* The three kinds of slots are told apart.
LEMMA SlotNames ==
    /\ Ordinary \in Slots /\ Metadata \in Slots /\ Ordinary # Metadata
    /\ \A i, e : Enrollment(i, e) # Ordinary /\ Enrollment(i, e) # Metadata
    /\ Ordinary[1] # "Enrollment" /\ Metadata[1] # "Enrollment"
BY DEF Slots, Ordinary, Metadata, Enrollment

\* A proposal that survives poll_expiry is of a connected client.
LEMMA PolledPending ==
    ASSUME BrokerInv, NEW s, s = PollExpiry(b), NEW p \in s.pending
    PROVE  Good(s) /\ p.connection \in s.principals /\ GrantTargets(p) \subseteq Current(s)
<1>1. Good(s)
  BY PollEffect DEF BrokerInv, Polled
<1> QED
  BY <1>1 DEF Good, PendingOK

\* approve_metadata is a decision on the metadata slot that leaves the client covered.
LEMMA ApproveMetadataDecides ==
    ASSUME BrokerInv, NEW p, NEW refs, NEW lifetime, ApproveMetadata(p, refs, lifetime)
    PROVE  \E new, x : Decides(PollExpiry(b), p.connection, Metadata, [NoScope EXCEPT !.sources = refs],
                               {}, lifetime, new, x)
<1> DEFINE s == PollExpiry(b)
           c == p.connection
           ordinary == SlotGrants(s, c, Ordinary)
           scope == [NoScope EXCEPT !.sources = refs]
           new == Install(s, c, Metadata, scope, {}, lifetime)
           f == Cleared(s, c, Metadata)
           cs == {<<o.epoch, new.minted.grant>> : o \in {g \in ordinary : g.controls # {}}}
           x == [new EXCEPT !.consent[c] = cs]
<1>1. /\ p \in s.pending /\ refs \subseteq Current(s) /\ Keep
      /\ \A o \in ordinary : ValidateCrossClosure(o, refs)
      /\ b' = DiscardStaleProposals(x, {c})
  BY DEF ApproveMetadata
<1>2. GrantTargets(scope) \subseteq Current(s) /\ scope.sources = refs
  BY <1>1 DEF GrantTargets, NoScope
<1> HIDE DEF s, scope
<1>3. Good(s) /\ c \in s.principals /\ c \in Connections
  BY <1>1, PolledPending DEF s, Good, Shape
<1> HIDE DEF c
<1>4. /\ Good(f) /\ DOMAIN new = Fields /\ new.registrations = f.registrations /\ new.consent = f.consent
      /\ \A y : y # Metadata => SlotGrants(new, c, y) = SlotGrants(s, c, y) /\ SlotGrants(f, c, y) = SlotGrants(s, c, y)
      /\ \A g \in SlotGrants(new, c, Metadata) :
            g.epoch = new.minted.grant /\ g.sources = scope.sources
  BY <1>3, SlotNames, InstalledSlots
<1>5. new = Install(s, c, Metadata, scope, {}, lifetime)
  OBVIOUS
<1> HIDE DEF f, new, cs
<1>6. /\ DOMAIN x = Fields /\ (\A i \in Fields \ {"registrations", "consent"} : x[i] = new[i])
      /\ x.registrations = new.registrations /\ x.consent = [new.consent EXCEPT ![c] = cs]
      /\ x.grants = new.grants
  BY <1>4 DEF Fields
<1> HIDE DEF x
<1>7. DOMAIN f.consent = Connections /\ (\A r \in f.registrations : DOMAIN r = RegistrationFields)
      /\ (\A q, r \in f.registrations : q.id = r.id => q = r)
  BY <1>4 DEF Good, Shape, RegistrationsOK
<1>8. /\ DOMAIN x.consent = Connections /\ x.consent[c] = cs
      /\ \A k \in Connections \ {c} : x.consent[k] = new.consent[k]
  BY <1>3, <1>4, <1>6, <1>7
<1>9. Reconsented(x.registrations, new.registrations, c)
  BY <1>4, <1>6, <1>7 DEF Reconsented
<1>10. Covered(x, c)
  <2>1. \A y : SlotGrants(x, c, y) = SlotGrants(new, c, y)
    BY <1>6 DEF SlotGrants, GrantsOf
  <2> SUFFICES ASSUME NEW o \in SlotGrants(x, c, Ordinary), o.controls # {}
               PROVE  /\ \A m \in SlotGrants(x, c, Metadata) :
                            x.consent[c] = {<<o.epoch, m.epoch>>} /\ ValidateCrossClosure(o, m.sources)
                      /\ \A q \in {y \in x.registrations : y.connection = c} :
                            \A m \in SlotGrants(x, c, Enrollment(q.id, q.enrollment)) :
                               /\ q.consent = {[ordinary |-> o.epoch, metadata |-> m.epoch,
                                                sinks |-> o.controls]}
                               /\ ValidateCrossClosure(o, m.sources)
    BY DEF Covered
  <2>2. o \in ordinary /\ o \in SlotGrants(f, c, Ordinary)
    BY <1>4, <2>1, SlotNames
  <2>3. ASSUME NEW m \in SlotGrants(x, c, Metadata)
        PROVE  x.consent[c] = {<<o.epoch, m.epoch>>} /\ ValidateCrossClosure(o, m.sources)
    <3>1. m.epoch = new.minted.grant /\ m.sources = refs
      BY <1>2, <1>4, <2>1
    <3>2. ordinary = {o}
      BY <1>3, <2>2, SlotIsSingle DEF Good
    <3>3. cs = {<<o.epoch, m.epoch>>}
      BY <3>1, <3>2 DEF cs
    <3> QED
      BY <1>1, <1>8, <2>2, <3>1, <3>3
  <2>4. ASSUME NEW q \in x.registrations, q.connection = c,
               NEW m \in SlotGrants(x, c, Enrollment(q.id, q.enrollment))
        PROVE  /\ q.consent = {[ordinary |-> o.epoch, metadata |-> m.epoch, sinks |-> o.controls]}
               /\ ValidateCrossClosure(o, m.sources)
    <3>1. q \in f.registrations /\ m \in SlotGrants(f, c, Enrollment(q.id, q.enrollment))
      BY <1>4, <1>6, <2>1, <2>4, SlotNames
    <3>2. o \in f.grants /\ o.slot = Ordinary /\ o.connection = c
      BY <2>2 DEF SlotGrants, GrantsOf
    <3> QED
      BY <1>4, <2>4, <3>1, <3>2 DEF Good, ConsentOK
  <2> QED
    BY <2>3, <2>4
<1>11. Decides(s, c, Metadata, scope, {}, lifetime, new, x)
  BY <1>1, <1>2, <1>3, <1>5, <1>6, <1>8, <1>9, <1>10, SlotNames, Zenon DEF s, Decides
<1> QED
  BY <1>11, Zenon DEF s, c, scope

\* approve_metadata keeps the invariant.
LEMMA ApproveMetadataStep ==
    ASSUME BrokerInv, NEW p, NEW refs, NEW lifetime, ApproveMetadata(p, refs, lifetime)
    PROVE  BrokerInv'
BY ApproveMetadataDecides, DecisionStep, Zenon

\* What a review shows of a registration is its one enrollment grant.
LEMMA EnrollmentSource ==
    ASSUME NEW s, Good(s), NEW c, NEW r \in s.registrations, r.connection = c, r.enrollment # 0,
           NEW m \in SlotGrants(s, c, Enrollment(r.id, r.enrollment))
    PROVE  {y \in EnrollmentMetadataSources(s, c) : y.id = r.id} =
              {[id |-> r.id, enrollment |-> r.enrollment, target |-> r.target, epoch |-> m.epoch]}
<1> DEFINE e(x, g) == [id |-> x.id, enrollment |-> x.enrollment, target |-> x.target, epoch |-> g.epoch]
           S == EnrollmentMetadataSources(s, c)
<1>1. SlotGrants(s, c, Enrollment(r.id, r.enrollment)) = {m}
  BY SlotIsSingle DEF Good
<1>2. e(r, m) \in S
  BY DEF EnrollmentMetadataSources
<1>3. ASSUME NEW y \in S, y.id = r.id PROVE y = e(r, m)
  <2>1. PICK x \in s.registrations : x.connection = c /\ \E g \in SlotGrants(s, c, Enrollment(x.id, x.enrollment)) : y = e(x, g)
    BY DEF EnrollmentMetadataSources
  <2>2. PICK g \in SlotGrants(s, c, Enrollment(x.id, x.enrollment)) : y = e(x, g)
    BY <2>1
  <2>3. x = r
    BY <1>3, <2>1, <2>2 DEF Good, RegistrationsOK
  <2> QED
    BY <1>1, <2>2, <2>3
<1>4. e(r, m).id = r.id
  OBVIOUS
<1> HIDE DEF e, S
<1>5. {y \in S : y.id = r.id} = {e(r, m)}
  BY <1>2, <1>3, <1>4
<1> QED
  BY <1>5 DEF e, S

\* approve is a decision on the ordinary slot that leaves the client covered.
LEMMA ApproveDecides ==
    ASSUME BrokerInv, NEW p, NEW t, NEW handoffs, NEW lifetime, Approve(p, t, handoffs, lifetime)
    PROVE  \E new, x : Decides(PollExpiry(b), p.connection, Ordinary, Resolve(PollExpiry(b), t),
                               handoffs, lifetime, new, x)
<1> DEFINE s       == PollExpiry(b)
           c       == p.connection
           scope   == Resolve(s, t)
           grant   == [controls |-> scope.controls, sources |-> scope.sources, handoffs |-> handoffs]
           meta    == SlotGrants(s, c, Metadata)
           sources == EnrollmentMetadataSources(s, c)
           new     == Install(s, c, Ordinary, scope, handoffs, lifetime)
           f       == Cleared(s, c, Ordinary)
           epoch   == new.minted.grant
           given(r) == {[ordinary |-> epoch, metadata |-> x.epoch, sinks |-> scope.controls] :
                           x \in {y \in sources : y.id = r.id}}
           set(r)  == IF scope.controls = {} \/ r.connection # c THEN r ELSE [r EXCEPT !.consent = given(r)]
           cs      == IF scope.controls = {} THEN {} ELSE {<<epoch, m.epoch>> : m \in meta}
           x       == [new EXCEPT !.registrations = {set(r) : r \in @}, !.consent[c] = cs]
<1>1. /\ p \in s.pending /\ GrantTargets(scope) \subseteq Current(s) /\ Keep
      /\ \A m \in meta : ValidateCrossClosure(grant, m.sources)
      /\ ValidateCrossClosure(grant, {y.target : y \in sources})
  BY DEF Approve
<1>2. b' = DiscardStaleProposals(x, {c})
  BY DEF Approve
<1>3. grant.controls = scope.controls /\ grant.sources = scope.sources /\ grant.handoffs = handoffs
  OBVIOUS
<1> HIDE DEF s, scope, grant
<1>4. Good(s) /\ c \in s.principals /\ c \in Connections
  BY <1>1, PolledPending DEF s, Good, Shape
<1> HIDE DEF c, meta, sources
<1>5. /\ Good(f) /\ DOMAIN new = Fields /\ new.registrations = f.registrations /\ new.consent = f.consent
      /\ \A q \in new.registrations : \E r \in s.registrations :
            /\ q.id = r.id /\ q.connection = r.connection
            /\ q.enrollment = r.enrollment /\ q.target = r.target
      /\ \A y : y # Ordinary => SlotGrants(new, c, y) = SlotGrants(s, c, y) /\ SlotGrants(f, c, y) = SlotGrants(s, c, y)
      /\ \A g \in SlotGrants(new, c, Ordinary) :
            /\ g.epoch = new.minted.grant /\ g.controls = scope.controls
            /\ g.sources = scope.sources /\ g.handoffs = handoffs
  BY <1>4, SlotNames, InstalledSlots
<1>6. new = Install(s, c, Ordinary, scope, handoffs, lifetime)
  OBVIOUS
<1> HIDE DEF f, new
<1>7. /\ DOMAIN f.consent = Connections /\ (\A r \in f.registrations : DOMAIN r = RegistrationFields)
      /\ (\A q, r \in f.registrations : q.id = r.id => q = r)
  BY <1>5 DEF Good, Shape, RegistrationsOK
<1> HIDE DEF given
<1>8. ASSUME NEW r \in f.registrations
      PROVE  /\ DOMAIN set(r) = RegistrationFields /\ set(r).id = r.id
             /\ set(r).connection = r.connection /\ set(r).enrollment = r.enrollment
             /\ set(r).target = r.target /\ set(r).revision = r.revision /\ set(r).decision = r.decision
             /\ r.connection # c => set(r) = r
             /\ scope.controls # {} /\ r.connection = c => set(r).consent = given(r)
  BY <1>7 DEF RegistrationFields
<1> HIDE DEF set, cs, epoch
<1>9. /\ DOMAIN x = Fields /\ (\A i \in Fields \ {"registrations", "consent"} : x[i] = new[i])
      /\ x.registrations = {set(r) : r \in new.registrations} /\ x.consent = [new.consent EXCEPT ![c] = cs]
      /\ x.grants = new.grants
  BY <1>5 DEF Fields
<1> HIDE DEF x
<1>10. /\ DOMAIN x.consent = Connections /\ x.consent[c] = cs
       /\ \A k \in Connections \ {c} : x.consent[k] = new.consent[k]
  BY <1>4, <1>5, <1>7, <1>9
<1>11. Reconsented(x.registrations, new.registrations, c)
  <2>1. \A q \in x.registrations : \E r \in new.registrations :
          /\ DOMAIN q = RegistrationFields
          /\ q.id = r.id /\ q.connection = r.connection /\ q.enrollment = r.enrollment
          /\ q.target = r.target /\ q.revision = r.revision /\ q.decision = r.decision
          /\ r.connection # c => q = r
    BY <1>5, <1>8, <1>9
  <2>2. \A r \in new.registrations : \E q \in x.registrations : q.id = r.id
    BY <1>5, <1>8, <1>9
  <2>3. ASSUME NEW q \in x.registrations, NEW r \in x.registrations, q.id = r.id PROVE q = r
    <3>1. PICK q0 \in f.registrations : q = set(q0)
      BY <1>5, <1>9
    <3>2. PICK r0 \in f.registrations : r = set(r0)
      BY <1>5, <1>9
    <3>3. q0 = r0
      BY <1>7, <1>8, <2>3, <3>1, <3>2
    <3> QED
      BY <3>1, <3>2, <3>3
  <2> QED
    BY <2>1, <2>2, <2>3 DEF Reconsented
<1>12. Covered(x, c)
  <2>1. \A y : SlotGrants(x, c, y) = SlotGrants(new, c, y)
    BY <1>9 DEF SlotGrants, GrantsOf
  <2> SUFFICES ASSUME NEW o \in SlotGrants(x, c, Ordinary), o.controls # {}
               PROVE  /\ \A m \in SlotGrants(x, c, Metadata) :
                            x.consent[c] = {<<o.epoch, m.epoch>>} /\ ValidateCrossClosure(o, m.sources)
                      /\ \A q \in {y \in x.registrations : y.connection = c} :
                            \A m \in SlotGrants(x, c, Enrollment(q.id, q.enrollment)) :
                               /\ q.consent = {[ordinary |-> o.epoch, metadata |-> m.epoch,
                                                sinks |-> o.controls]}
                               /\ ValidateCrossClosure(o, m.sources)
    BY DEF Covered
  <2>2. /\ o.epoch = epoch /\ o.controls = scope.controls /\ o.sources = scope.sources
        /\ o.handoffs = handoffs /\ scope.controls # {}
    BY <1>5, <2>1 DEF epoch
  <2>3. ASSUME NEW m \in SlotGrants(x, c, Metadata)
        PROVE  x.consent[c] = {<<o.epoch, m.epoch>>} /\ ValidateCrossClosure(o, m.sources)
    <3>1. m \in meta
      BY <1>5, <2>1, SlotNames DEF meta
    <3>2. meta = {m}
      BY <1>4, <3>1, SlotIsSingle DEF Good, meta
    <3>3. cs = {<<o.epoch, m.epoch>>}
      BY <2>2, <3>2 DEF cs
    <3>4. ValidateCrossClosure(o, m.sources)
      BY <1>1, <1>3, <2>2, <3>1 DEF ValidateCrossClosure
    <3> QED
      BY <1>10, <3>3, <3>4
  <2>4. ASSUME NEW q \in x.registrations, q.connection = c,
               NEW m \in SlotGrants(x, c, Enrollment(q.id, q.enrollment))
        PROVE  /\ q.consent = {[ordinary |-> o.epoch, metadata |-> m.epoch, sinks |-> o.controls]}
               /\ ValidateCrossClosure(o, m.sources)
    <3>1. PICK q0 \in f.registrations : q = set(q0)
      BY <1>5, <1>9
    <3>2. q0.id = q.id /\ q0.enrollment = q.enrollment /\ q0.connection = c /\ q.consent = given(q0)
      BY <1>8, <2>2, <2>4, <3>1
    <3>3. m \in SlotGrants(s, c, Enrollment(q.id, q.enrollment))
      BY <1>5, <2>1, SlotNames
    <3>4. m \in s.grants /\ m.slot = Enrollment(q.id, q.enrollment) /\ m.connection = c
      BY <3>3 DEF SlotGrants, GrantsOf
    <3>5. PICK r \in s.registrations :
             /\ r.id = q.id /\ r.enrollment = q.enrollment /\ q.enrollment # 0 /\ r.connection = c
             /\ m.sources = {r.target}
      BY <1>4, <3>4, GrantOfRegistration
    <3> DEFINE e == [id |-> r.id, enrollment |-> r.enrollment, target |-> r.target, epoch |-> m.epoch]
    <3>6. {y \in sources : y.id = q.id} = {e}
      BY <1>4, <3>3, <3>5, EnrollmentSource DEF sources
    <3>7. e.epoch = m.epoch /\ e.target = r.target
      OBVIOUS
    <3> HIDE DEF e
    <3>8. given(q0) = {[ordinary |-> o.epoch, metadata |-> m.epoch, sinks |-> o.controls]}
      BY <2>2, <3>2, <3>6, <3>7 DEF given
    <3>9. m.sources \subseteq {y.target : y \in sources}
      BY <3>5, <3>6, <3>7
    <3>10. ValidateCrossClosure(o, m.sources)
      BY <1>1, <1>3, <2>2, <3>9 DEF ValidateCrossClosure, ValidateClosure
    <3> QED
      BY <3>2, <3>8, <3>10
  <2> QED
    BY <2>3, <2>4
<1>13. Decides(s, c, Ordinary, scope, handoffs, lifetime, new, x)
  BY <1>1, <1>2, <1>4, <1>6, <1>9, <1>10, <1>11, <1>12, SlotNames, Zenon DEF s, Decides
<1> QED
  BY <1>13, Zenon DEF s, c, scope

\* approve keeps the invariant.
LEMMA ApproveStep ==
    ASSUME BrokerInv, NEW p, NEW t, NEW handoffs, NEW lifetime, Approve(p, t, handoffs, lifetime)
    PROVE  BrokerInv'
BY ApproveDecides, DecisionStep, Zenon

\* approve_enrollment_metadata_grant is a decision on an enrollment's slot that leaves the client covered.
LEMMA ApproveEnrollmentDecides ==
    ASSUME BrokerInv, NEW p, NEW lifetime, ApproveEnrollmentMetadataGrant(p, lifetime)
    PROVE  \E new, x : Decides(PollExpiry(b), p.connection, p.slot, [NoScope EXCEPT !.sources = p.sources],
                               {}, lifetime, new, x)
<1> DEFINE s == PollExpiry(b)
           c == p.connection
           slot == p.slot
           controls == Controls(s, c)
           ordinary == SlotGrants(s, c, Ordinary)
           scope == [NoScope EXCEPT !.sources = p.sources]
           new == Install(s, c, slot, scope, {}, lifetime)
           f == Cleared(s, c, slot)
           epoch == new.minted.grant
           given == {[ordinary |-> o.epoch, metadata |-> epoch, sinks |-> controls] :
                        o \in {g \in ordinary : g.controls # {}}}
           set(r) == IF r.connection # c \/ Enrollment(r.id, r.enrollment) # slot THEN r
                     ELSE [r EXCEPT !.consent = given]
           x == [new EXCEPT !.registrations = {set(r) : r \in @}]
<1>1. /\ p \in s.pending /\ slot[1] = "Enrollment" /\ Keep
      /\ \E r \in Enrolled(s, c, slot) : p.sources = {r.target}
      /\ \A o \in ordinary : ValidateCrossClosure(o, p.sources)
  BY DEF ApproveEnrollmentMetadataGrant
<1>2. b' = DiscardStaleProposals(x, {c})
  BY DEF ApproveEnrollmentMetadataGrant
<1>3. scope.controls = {} /\ scope.sources = p.sources
  BY DEF NoScope
<1> HIDE DEF s, scope
<1>4. Good(s) /\ c \in s.principals /\ c \in Connections /\ GrantTargets(p) \subseteq Current(s)
  BY <1>1, PolledPending DEF s, Good, Shape
<1>5. GrantTargets(scope) \subseteq Current(s)
  BY <1>3, <1>4 DEF GrantTargets
<1> HIDE DEF c, slot
<1>6. PICK r0 \in Enrolled(s, c, slot) : p.sources = {r0.target}
  BY <1>1
<1>7. slot = Enrollment(r0.id, r0.enrollment) /\ slot \in Slots /\ slot # Ordinary /\ slot # Metadata
  BY <1>4, <1>6, SlotNames DEF Enrolled, Good, RegistrationsOK, Slots
<1>8. /\ Good(f) /\ DOMAIN new = Fields /\ new.registrations = f.registrations /\ new.consent = f.consent
      /\ \A y : y # slot => SlotGrants(new, c, y) = SlotGrants(s, c, y) /\ SlotGrants(f, c, y) = SlotGrants(s, c, y)
      /\ \A g \in SlotGrants(new, c, slot) : g.epoch = new.minted.grant /\ g.sources = scope.sources
  BY <1>4, <1>7, InstalledSlots
<1>9. new = Install(s, c, slot, scope, {}, lifetime)
  OBVIOUS
<1> HIDE DEF f, new, given
<1>10. /\ DOMAIN f.consent = Connections /\ (\A r \in f.registrations : DOMAIN r = RegistrationFields)
       /\ (\A q, r \in f.registrations : q.id = r.id => q = r)
  BY <1>8 DEF Good, Shape, RegistrationsOK
<1>11. ASSUME NEW r \in f.registrations
       PROVE  /\ DOMAIN set(r) = RegistrationFields /\ set(r).id = r.id
              /\ set(r).connection = r.connection /\ set(r).enrollment = r.enrollment
              /\ set(r).target = r.target /\ set(r).revision = r.revision /\ set(r).decision = r.decision
              /\ r.connection # c => set(r) = r
              /\ Enrollment(r.id, r.enrollment) # slot => set(r) = r
              /\ r.connection = c /\ Enrollment(r.id, r.enrollment) = slot => set(r).consent = given
  BY <1>10 DEF RegistrationFields
<1> HIDE DEF set, epoch
<1>12. /\ DOMAIN x = Fields /\ (\A i \in Fields \ {"registrations", "consent"} : x[i] = new[i])
       /\ x.registrations = {set(r) : r \in new.registrations} /\ x.consent = new.consent
       /\ x.grants = new.grants
  BY <1>8 DEF Fields
<1> HIDE DEF x
<1>13. DOMAIN x.consent = Connections /\ (\A k \in Connections \ {c} : x.consent[k] = new.consent[k])
  BY <1>8, <1>10, <1>12
<1>14. Reconsented(x.registrations, new.registrations, c)
  <2>1. \A q \in x.registrations : \E r \in new.registrations :
          /\ DOMAIN q = RegistrationFields
          /\ q.id = r.id /\ q.connection = r.connection /\ q.enrollment = r.enrollment
          /\ q.target = r.target /\ q.revision = r.revision /\ q.decision = r.decision
          /\ r.connection # c => q = r
    BY <1>8, <1>11, <1>12
  <2>2. \A r \in new.registrations : \E q \in x.registrations : q.id = r.id
    BY <1>8, <1>11, <1>12
  <2>3. ASSUME NEW q \in x.registrations, NEW r \in x.registrations, q.id = r.id PROVE q = r
    <3>1. PICK q1 \in f.registrations : q = set(q1)
      BY <1>8, <1>12
    <3>2. PICK r1 \in f.registrations : r = set(r1)
      BY <1>8, <1>12
    <3>3. q1 = r1
      BY <1>10, <1>11, <2>3, <3>1, <3>2
    <3> QED
      BY <3>1, <3>2, <3>3
  <2> QED
    BY <2>1, <2>2, <2>3 DEF Reconsented
<1>15. Covered(x, c)
  <2>1. \A y : SlotGrants(x, c, y) = SlotGrants(new, c, y)
    BY <1>12 DEF SlotGrants, GrantsOf
  <2> SUFFICES ASSUME NEW o \in SlotGrants(x, c, Ordinary), o.controls # {}
               PROVE  /\ \A m \in SlotGrants(x, c, Metadata) :
                            x.consent[c] = {<<o.epoch, m.epoch>>} /\ ValidateCrossClosure(o, m.sources)
                      /\ \A q \in {y \in x.registrations : y.connection = c} :
                            \A m \in SlotGrants(x, c, Enrollment(q.id, q.enrollment)) :
                               /\ q.consent = {[ordinary |-> o.epoch, metadata |-> m.epoch,
                                                sinks |-> o.controls]}
                               /\ ValidateCrossClosure(o, m.sources)
    BY DEF Covered
  <2>2. o \in ordinary /\ o \in SlotGrants(f, c, Ordinary)
    BY <1>7, <1>8, <2>1
  <2>3. o \in f.grants /\ o.slot = Ordinary /\ o.connection = c
    BY <2>2 DEF SlotGrants, GrantsOf
  <2>4. ordinary = {o}
    BY <1>4, <2>2, SlotIsSingle DEF Good
  <2>5. ASSUME NEW m \in SlotGrants(x, c, Metadata)
        PROVE  x.consent[c] = {<<o.epoch, m.epoch>>} /\ ValidateCrossClosure(o, m.sources)
    <3>1. m \in SlotGrants(f, c, Metadata)
      BY <1>7, <1>8, <2>1
    <3> QED
      BY <1>8, <1>12, <2>3, <3>1 DEF Good, ConsentOK
  <2>6. ASSUME NEW q \in x.registrations, q.connection = c,
               NEW m \in SlotGrants(x, c, Enrollment(q.id, q.enrollment))
        PROVE  /\ q.consent = {[ordinary |-> o.epoch, metadata |-> m.epoch, sinks |-> o.controls]}
               /\ ValidateCrossClosure(o, m.sources)
    <3>1. PICK q1 \in f.registrations : q = set(q1)
      BY <1>8, <1>12
    <3>2. q1.id = q.id /\ q1.enrollment = q.enrollment /\ q1.connection = c
      BY <1>11, <2>6, <3>1
    <3>3. CASE Enrollment(q.id, q.enrollment) = slot
      <4>1. m.epoch = epoch /\ m.sources = p.sources
        BY <1>3, <1>8, <2>1, <3>3 DEF epoch
      <4>2. q.consent = given
        BY <1>11, <3>1, <3>2, <3>3
      <4>3. controls = o.controls
        BY <2>4 DEF Controls
      <4>4. given = {[ordinary |-> o.epoch, metadata |-> m.epoch, sinks |-> o.controls]}
        BY <2>4, <4>1, <4>3 DEF given
      <4> QED
        BY <1>1, <2>2, <4>1, <4>2, <4>4
    <3>4. CASE Enrollment(q.id, q.enrollment) # slot
      <4>1. q = q1
        BY <1>11, <3>1, <3>2, <3>4
      <4>2. m \in SlotGrants(f, c, Enrollment(q.id, q.enrollment))
        BY <1>8, <2>1, <3>4
      <4> QED
        BY <1>8, <2>3, <2>6, <4>1, <4>2 DEF Good, ConsentOK
    <3> QED
      BY <3>3, <3>4
  <2> QED
    BY <2>5, <2>6
<1>16. \E r \in Enrolled(s, c, slot) : scope.sources = {r.target}
  BY <1>3, <1>6
<1>17. Decides(s, c, slot, scope, {}, lifetime, new, x)
  BY <1>1, <1>2, <1>3, <1>4, <1>5, <1>7, <1>9, <1>12, <1>13, <1>14, <1>15, <1>16, Zenon DEF s, Decides
<1> QED
  BY <1>17, Zenon DEF s, c, slot, scope

\* approve_enrollment_metadata_grant keeps the invariant.
LEMMA ApproveEnrollmentGrantStep ==
    ASSUME BrokerInv, NEW p, NEW lifetime, ApproveEnrollmentMetadataGrant(p, lifetime)
    PROVE  BrokerInv'
BY ApproveEnrollmentDecides, DecisionStep, Zenon
-----------------------------------------------------------------------------
(* What almost every step leaves alone. *)

\* g lets its client type where h does.
SameControl(g, h) == g.connection = h.connection /\ g.epoch = h.epoch /\ g.controls = h.controls

\* No association is made or replaced between s and n.
SteadyEnrollments(n, s) ==
    \A q \in n.registrations :
        \/ q.id > s.minted.registration
        \/ \E r \in s.registrations : q.id = r.id /\ q.enrollment = r.enrollment

\* Nor does a client come to control anything.
Steady(n, s) ==
    /\ \A g \in n.grants : g.controls = {} \/ \E h \in s.grants : SameControl(g, h)
    /\ SteadyEnrollments(n, s)

\* Steady steps compose.
LEMMA SteadyChain ==
    ASSUME NEW s, NEW m, NEW n, Good(s), Good(m), Good(n), Follows(m, s), Steady(m, s), Steady(n, m)
    PROVE  Steady(n, s)
<1>1. /\ s.minted.registration \in Nat /\ m.minted.registration \in Nat
      /\ m.minted.registration >= s.minted.registration
  BY DEF Good, Shape, MintKinds, Follows
<1>2. \A q \in n.registrations : q.id \in Nat
  BY DEF Good, RegistrationsOK
<1>3. SteadyEnrollments(n, s)
  BY <1>1, <1>2 DEF Steady, SteadyEnrollments
<1>4. \A g \in n.grants : g.controls = {} \/ \E h \in s.grants : SameControl(g, h)
  BY DEF Steady, SameControl
<1> QED
  BY <1>3, <1>4 DEF Steady

\* Fewer grants and registrations are steady.
LEMMA SameIsSteady ==
    ASSUME NEW s, NEW n, n.grants \subseteq s.grants, n.registrations \subseteq s.registrations
    PROVE  Steady(n, s)
BY DEF Steady, SteadyEnrollments, SameControl

\* A revocation is steady.
LEMMA WeakerIsSteady ==
    ASSUME NEW s, NEW n, Weaker(n, s) PROVE Steady(n, s)
BY DEF Weaker, Steady, SteadyEnrollments, SameControl

\* So is minting an id.
LEMMA MintIsSteady ==
    ASSUME NEW s, Good(s), NEW kind \in MintKinds PROVE Steady(Mint(s, kind), s)
<1>1. Mint(s, kind).grants = s.grants /\ Mint(s, kind).registrations = s.registrations
  BY MintEffect DEF Good, Fields
<1> QED
  BY <1>1, SameIsSteady

\* n spares what s lets a client view: the client stays, the references stay
\* current, and a grant of metadata stays until its time has run out.
Spares(n, s) ==
    /\ s.principals \subseteq n.principals /\ Current(s) \subseteq Current(n)
    /\ \A g \in s.grants :
          \/ g.slot = Ordinary \/ now >= g.expires
          \/ \E h \in n.grants : /\ h.connection = g.connection /\ h.slot = g.slot
                                 /\ h.epoch = g.epoch /\ h.expires = g.expires

\* What is spared twice is spared.
LEMMA SparesChain ==
    ASSUME NEW s, NEW m, NEW n, Spares(m, s), Spares(n, m) PROVE Spares(n, s)
<1>1. ASSUME NEW g \in s.grants, g.slot # Ordinary, ~(now >= g.expires)
      PROVE  \E h \in n.grants : /\ h.connection = g.connection /\ h.slot = g.slot
                                 /\ h.epoch = g.epoch /\ h.expires = g.expires
  <2>1. PICK k \in m.grants : /\ k.connection = g.connection /\ k.slot = g.slot
                              /\ k.epoch = g.epoch /\ k.expires = g.expires
    BY <1>1 DEF Spares
  <2> QED
    BY <1>1, <2>1 DEF Spares
<1> QED
  BY <1>1 DEF Spares

\* A step that leaves clients, grants and references alone spares them.
LEMMA SameIsSpared ==
    ASSUME NEW s, NEW n, n.principals = s.principals, n.grants = s.grants, SameReferences(n, s)
    PROVE  Spares(n, s)
<1>1. Current(n) = Current(s)
  BY CurrentDependsOnTargets
<1> QED
  BY <1>1 DEF Spares

\* So does a revocation of ordinary grants and of those whose time has run out.
LEMMA RevokedIsSpared ==
    ASSUME NEW s, Good(s), NEW slots,
           \A g \in s.grants : <<g.connection, g.slot>> \in slots => g.slot = Ordinary \/ now >= g.expires
    PROVE  Spares(RevokeSlots(s, slots), s)
<1> DEFINE n == RevokeSlots(s, slots)
<1>1. Revoked(n, s, slots) /\ SameTargets(n, s)
  BY RevokeEffect DEF Good
<1> HIDE DEF n
<1>2. Current(n) = Current(s)
  BY <1>1, CurrentDependsOnTargets DEF SameTargets
<1>3. n.principals = s.principals /\ n.grants = {g \in s.grants : <<g.connection, g.slot>> \notin slots}
  BY <1>1 DEF Revoked
<1>4. Spares(n, s)
  BY <1>2, <1>3 DEF Spares
<1> QED
  BY <1>4 DEF n

\* n is a good successor of s in which nobody gained control or an association,
\* or lost more than time and the user's takeover cost him.
Safe(n, s) == Good(n) /\ Follows(n, s) /\ Steady(n, s) /\ Spares(n, s)

\* Safe steps compose.
LEMMA SafeChain ==
    ASSUME NEW s, NEW m, NEW n, Good(s), Safe(m, s), Safe(n, m) PROVE Safe(n, s)
<1>1. Good(m) /\ Good(n) /\ Follows(m, s) /\ Follows(n, m) /\ Steady(m, s) /\ Steady(n, m)
  BY DEF Safe
<1>2. Follows(n, s)
  BY <1>1, FollowsChain
<1>3. Steady(n, s)
  BY <1>1, SteadyChain
<1>4. Spares(n, s)
  BY SparesChain DEF Safe
<1> QED
  BY <1>1, <1>2, <1>3, <1>4 DEF Safe

\* Minting an id is safe.
LEMMA MintIsSafe ==
    ASSUME NEW s, Good(s), NEW kind \in MintKinds PROVE Safe(Mint(s, kind), s)
<1> DEFINE n == Mint(s, kind)
<1>1. Good(n) /\ Follows(n, s) /\ Steady(n, s)
  BY MintIsGood, MintFollows, MintIsSteady
<1>2. n.principals = s.principals /\ n.grants = s.grants
  BY MintEffect DEF Good, Fields
<1> HIDE DEF n
<1>3. Spares(n, s)
  BY <1>1, <1>2, SameIsSpared DEF Follows
<1> QED
  BY <1>1, <1>3 DEF Safe, n

\* cut is safe.
LEMMA CutIsSafe ==
    ASSUME NEW s, Good(s), NEW ids, NEW state PROVE Safe(Cut(s, ids, state), s)
<1> DEFINE n == Cut(s, ids, state)
<1>1. Good(n) /\ Weaker(n, s)
  BY CutIsGood, CutIsWeaker
<1>2. SameAuthority(n, s) /\ SameTargets(n, s)
  BY CutEffect DEF Good
<1> HIDE DEF n
<1>3. Spares(n, s)
  BY <1>2, SameIsSpared DEF SameAuthority, SameTargets
<1>4. Safe(n, s)
  BY <1>1, <1>3, WeakerFollows, WeakerIsSteady DEF Safe
<1> QED
  BY <1>4 DEF n

\* poll_expiry is safe.
LEMMA PollIsSafe ==
    ASSUME NEW s, Good(s) PROVE Safe(PollExpiry(s), s)
<1> DEFINE timely == [s EXCEPT !.pending = {p \in @ : now < p.expires}]
           ids == {r \in DOMAIN s.runs : s.runs[r].state = "Running" /\ now >= s.runs[r].deadline}
           ended == Cut(timely, ids, "TimedOut")
           slots == {<<g.connection, g.slot>> : g \in {x \in s.grants : now >= x.expires}}
           n == RevokeSlots(ended, slots)
<1>1. n = PollExpiry(s) /\ Good(n) /\ Weaker(n, s)
  BY PollEffect DEF Polled, PollExpiry
<1>2. Good(timely)
  <2>1. {p \in s.pending : now < p.expires} \subseteq s.pending
    OBVIOUS
  <2> QED
    BY <2>1, FewerProposals
<1>3. timely.principals = s.principals /\ timely.grants = s.grants /\ timely.targets = s.targets
  BY DEF Good, Shape, Fields
<1> HIDE DEF timely, ids
<1>4. Spares(timely, s)
  BY <1>3 DEF Spares, Current
<1>5. Safe(ended, timely)
  BY <1>2, CutIsSafe
<1>6. ended.grants = s.grants
  BY <1>2, <1>3, CutEffect DEF Good, SameAuthority
<1> HIDE DEF ended
<1>7. ASSUME NEW g \in ended.grants, <<g.connection, g.slot>> \in slots PROVE now >= g.expires
  <2>1. PICK h \in s.grants : now >= h.expires /\ <<g.connection, g.slot>> = <<h.connection, h.slot>>
    BY <1>7
  <2> QED
    BY <1>6, <2>1 DEF Good, GrantsOK
<1> HIDE DEF slots
<1>8. Spares(n, ended)
  BY <1>5, <1>7, RevokedIsSpared DEF Safe
<1> HIDE DEF n
<1>9. Spares(n, s)
  BY <1>4, <1>5, <1>8, SparesChain DEF Safe
<1> QED
  BY <1>1, <1>9, WeakerFollows, WeakerIsSteady DEF Safe

\* A method that is a chain of safe operators keeps the whole invariant.
LEMMA SafeMoves ==
    ASSUME BrokerInv, Safe(b', b), Keep PROVE BrokerInv' /\ Steady(b', b) /\ Spares(b', b)
BY Moves DEF Safe, Keep

-----------------------------------------------------------------------------
(* Runs. *)

\* The same grant, the operations it has been charged for aside.
SameGrant(g, h) ==
    /\ DOMAIN g = GrantFields
    /\ g.connection = h.connection /\ g.slot = h.slot /\ g.epoch = h.epoch
    /\ g.controls = h.controls /\ g.sources = h.sources /\ g.handoffs = h.handoffs
    /\ g.expires = h.expires

\* n is s with some work done: accounts, runs, requests, receipts and leases.
Worked(n, s) ==
    /\ DOMAIN n = Fields
    /\ n.principals = s.principals /\ n.retired = s.retired
    /\ n.revisions = s.revisions /\ n.consent = s.consent /\ n.proposals = s.proposals
    /\ n.registrations = s.registrations /\ n.pending = s.pending
    /\ n.forgotten = s.forgotten /\ DOMAIN n.usage = DOMAIN s.usage
    /\ n.minted \in [MintKinds -> Nat] /\ n.minted.registration = s.minted.registration
    /\ SameReferences(n, s)
    /\ IsFiniteSet(n.grants)
    /\ \A g \in n.grants : \E h \in s.grants : SameGrant(g, h)
    /\ \A h \in s.grants : \E g \in n.grants : SameGrant(g, h)
    /\ \A g, h \in n.grants : g.connection = h.connection /\ g.slot = h.slot => g = h

\* Work done under grants is safe: it changes accounts, not authority.
LEMMA WorkedIsSafe ==
    ASSUME NEW s, NEW n, Good(s), Worked(n, s)
    PROVE  Safe(n, s)
<1>1. Current(n) = Current(s)
  BY CurrentDependsOnTargets DEF Worked
<1>2. Shape(n)
  BY DEF Good, Shape, Worked
<1>3. TargetsOK(n)
  BY DEF Good, TargetsOK, Worked, SameReferences
<1>4. GrantsOK(n)
  BY DEF Good, GrantsOK, Worked, SameGrant
<1>5. RegistrationsOK(n)
  BY DEF Good, RegistrationsOK, Worked
<1>6. LiveOK(n)
  <2> SUFFICES ASSUME NEW g \in n.grants
               PROVE  /\ g.connection \in n.principals /\ GrantTargets(g) \subseteq Current(n)
                      /\ g.slot[1] = "Enrollment" =>
                            \E r \in Enrolled(n, g.connection, g.slot) : g.sources = {r.target}
    BY DEF LiveOK
  <2>1. PICK h \in s.grants : SameGrant(g, h)
    BY DEF Worked
  <2>2. /\ h.connection \in s.principals /\ GrantTargets(h) \subseteq Current(s)
        /\ h.slot[1] = "Enrollment" => \E r \in Enrolled(s, h.connection, h.slot) : h.sources = {r.target}
    BY DEF Good, LiveOK
  <2>3. Enrolled(n, h.connection, h.slot) = Enrolled(s, h.connection, h.slot) /\ n.principals = s.principals
    BY <1>1 DEF Enrolled, Worked
  <2> QED
    BY <1>1, <2>1, <2>2, <2>3 DEF SameGrant, GrantTargets
<1>e. ASSUME NEW c
      PROVE  /\ {g.epoch : g \in GrantsOf(n, c)} = {g.epoch : g \in GrantsOf(s, c)}
             /\ {g.epoch : g \in SlotGrants(n, c, Ordinary)} = {g.epoch : g \in SlotGrants(s, c, Ordinary)}
  BY DEF Worked, SameGrant, GrantsOf, SlotGrants
<1>7. PendingOK(n)
  <2> SUFFICES ASSUME NEW p \in n.pending
               PROVE  /\ p.connection \in n.principals
                      /\ p.revisions = n.revisions[p.connection]
                      /\ p.seen = {g.epoch : g \in GrantsOf(n, p.connection)}
                      /\ GrantTargets(p) \subseteq Current(n)
    BY DEF PendingOK
  <2>1. n.pending = s.pending /\ n.principals = s.principals /\ n.revisions = s.revisions
    BY DEF Worked
  <2>2. /\ p.connection \in s.principals
        /\ p.revisions = s.revisions[p.connection]
        /\ p.seen = {g.epoch : g \in GrantsOf(s, p.connection)}
        /\ GrantTargets(p) \subseteq Current(s)
    BY <2>1 DEF Good, PendingOK
  <2>3. {g.epoch : g \in GrantsOf(n, p.connection)} = {g.epoch : g \in GrantsOf(s, p.connection)}
    BY <1>e
  <2> QED
    BY <1>1, <2>1, <2>2, <2>3
<1>8. ConsentOK(n)
  <2> SUFFICES ASSUME NEW o \in n.grants, o.slot = Ordinary, o.controls # {}
               PROVE  /\ \A m \in SlotGrants(n, o.connection, Metadata) :
                            /\ n.consent[o.connection] = {<<o.epoch, m.epoch>>}
                            /\ ValidateCrossClosure(o, m.sources)
                      /\ \A r \in {x \in n.registrations : x.connection = o.connection} :
                            \A m \in SlotGrants(n, o.connection, Enrollment(r.id, r.enrollment)) :
                                /\ r.consent = {[ordinary |-> o.epoch, metadata |-> m.epoch, sinks |-> o.controls]}
                                /\ ValidateCrossClosure(o, m.sources)
    BY DEF ConsentOK
  <2>1. PICK h \in s.grants : SameGrant(o, h)
    BY DEF Worked
  <2>2. h.slot = Ordinary /\ h.controls # {} /\ h.connection = o.connection /\ h.epoch = o.epoch
        /\ h.controls = o.controls
    BY <2>1 DEF SameGrant
  <2>3. \A x : ValidateCrossClosure(o, x) <=> ValidateCrossClosure(h, x)
    BY <2>1 DEF SameGrant, ValidateCrossClosure
  <2>4. ASSUME NEW slot, NEW m \in SlotGrants(n, o.connection, slot)
        PROVE  \E k \in SlotGrants(s, h.connection, slot) : m.epoch = k.epoch /\ m.sources = k.sources
    BY <2>2 DEF SlotGrants, GrantsOf, Worked, SameGrant
  <2>5. /\ \A m \in SlotGrants(s, h.connection, Metadata) :
              s.consent[h.connection] = {<<h.epoch, m.epoch>>} /\ ValidateCrossClosure(h, m.sources)
        /\ \A r \in {x \in s.registrations : x.connection = h.connection} :
              \A m \in SlotGrants(s, h.connection, Enrollment(r.id, r.enrollment)) :
                  /\ r.consent = {[ordinary |-> h.epoch, metadata |-> m.epoch, sinks |-> h.controls]}
                  /\ ValidateCrossClosure(h, m.sources)
    BY <2>2 DEF Good, ConsentOK
  <2>6. n.consent = s.consent /\ n.registrations = s.registrations
    BY DEF Worked
  <2>7. ASSUME NEW m \in SlotGrants(n, o.connection, Metadata)
        PROVE  n.consent[o.connection] = {<<o.epoch, m.epoch>>} /\ ValidateCrossClosure(o, m.sources)
    BY <2>2, <2>3, <2>4, <2>5, <2>6
  <2>8. ASSUME NEW r \in {x \in n.registrations : x.connection = o.connection},
               NEW m \in SlotGrants(n, o.connection, Enrollment(r.id, r.enrollment))
        PROVE  /\ r.consent = {[ordinary |-> o.epoch, metadata |-> m.epoch, sinks |-> o.controls]}
               /\ ValidateCrossClosure(o, m.sources)
    BY <2>2, <2>3, <2>4, <2>5, <2>6
  <2> QED
    BY <2>7, <2>8
<1>9. ASSUME NEW c, NEW x PROVE Saw(s, c, x) <=> Saw(n, c, x)
  <2>1. {g.epoch : g \in SlotGrants(n, c, Ordinary)} = {g.epoch : g \in SlotGrants(s, c, Ordinary)}
    BY <1>e
  <2>2. n.revisions = s.revisions
    BY DEF Worked
  <2> QED
    BY <2>1, <2>2 DEF Saw
<1>10. DecisionsOK(n)
  BY <1>9 DEF Good, DecisionsOK, Worked
<1>11. Good(n)
  BY <1>2, <1>3, <1>4, <1>5, <1>6, <1>7, <1>8, <1>10 DEF Good
<1>12. n.minted.registration >= s.minted.registration
  BY DEF Good, Shape, MintKinds, Worked
<1>13. Follows(n, s)
  BY <1>9, <1>12 DEF Worked, Follows
<1>14. Steady(n, s)
  BY DEF Worked, SameGrant, Steady, SteadyEnrollments, SameControl
<1>15. Spares(n, s)
  BY <1>1 DEF Worked, SameGrant, Spares
<1> QED
  BY <1>11, <1>13, <1>14, <1>15 DEF Safe

\* Charging an operation does the same for the authority as not charging it.
LEMMA ChargeIsSafe ==
    ASSUME NEW s, Good(s), NEW c, NEW slot, NEW lineage
    PROVE  Safe(Charge(s, c, slot, lineage), s)
<1> DEFINE n == Charge(s, c, slot, lineage)
           f(g) == IF g.connection = c /\ g.slot = slot THEN Charged(g) ELSE g
<1>1. DOMAIN s = Fields /\ (\A g \in s.grants : DOMAIN g = GrantFields) /\ IsFiniteSet(s.grants)
  BY DEF Good, Shape, GrantsOK
<1>2. /\ DOMAIN n = Fields /\ n.principals = s.principals /\ n.retired = s.retired
      /\ n.revisions = s.revisions /\ n.consent = s.consent /\ n.proposals = s.proposals
      /\ n.registrations = s.registrations /\ n.pending = s.pending
      /\ n.forgotten = s.forgotten /\ DOMAIN n.usage = DOMAIN s.usage
      /\ n.minted = s.minted /\ n.targets = s.targets
  BY <1>1 DEF Charge, Fields
<1>3. n.grants = {f(g) : g \in s.grants}
  BY <1>1 DEF Charge, Fields
<1>4. \A g \in s.grants : SameGrant(f(g), g)
  BY <1>1 DEF SameGrant, GrantFields, Charged
<1> HIDE DEF n, f
<1>5. IsFiniteSet(n.grants)
  <2> DEFINE F == [g \in s.grants |-> f(g)]
  <2>1. F \in Surjection(s.grants, n.grants)
    BY <1>3 DEF Surjection
  <2> HIDE DEF F
  <2> QED
    BY <1>1, <2>1, FS_Surjection
<1>6. \A g, h \in n.grants : g.connection = h.connection /\ g.slot = h.slot => g = h
  BY <1>3, <1>4 DEF SameGrant, Good, GrantsOK
<1>7. SameReferences(n, s)
  BY <1>2 DEF SameReferences, Good, TargetsOK
<1>8. n.minted \in [MintKinds -> Nat] /\ n.minted.registration = s.minted.registration
  BY <1>2 DEF Good, Shape
<1>9. Worked(n, s)
  BY <1>2, <1>3, <1>4, <1>5, <1>6, <1>7, <1>8 DEF Worked
<1> QED
  BY <1>9, WorkedIsSafe DEF n

\* n differs from s in runs, requests and receipts at most.
OnlyWork(n, s) ==
    DOMAIN n = Fields /\ \A f \in Fields \ {"runs", "requests", "starts"} : n[f] = s[f]

\* So is work that is charged to nobody.
LEMMA OnlyWorkIsSafe ==
    ASSUME NEW s, NEW n, Good(s), OnlyWork(n, s)
    PROVE  Safe(n, s)
<1>1. /\ DOMAIN n = Fields /\ n.principals = s.principals /\ n.retired = s.retired
      /\ n.revisions = s.revisions /\ n.consent = s.consent /\ n.proposals = s.proposals
      /\ n.registrations = s.registrations /\ n.pending = s.pending
      /\ n.forgotten = s.forgotten /\ DOMAIN n.usage = DOMAIN s.usage
      /\ n.minted = s.minted /\ n.targets = s.targets /\ n.grants = s.grants
  BY DEF OnlyWork, Fields
<1>2. SameReferences(n, s)
  BY <1>1 DEF SameReferences, Good, TargetsOK
<1>3. Worked(n, s)
  BY <1>1, <1>2 DEF Worked, SameGrant, Good, Shape, GrantsOK
<1> QED
  BY <1>3, WorkedIsSafe

\* A method that starts with poll_expiry.
LEMMA PolledMoves ==
    ASSUME BrokerInv, NEW s, s = PollExpiry(b), Safe(b', s), Keep PROVE BrokerInv' /\ Steady(b', b) /\ Spares(b', b)
<1>1. Good(b) /\ Safe(s, b)
  BY PollIsSafe DEF BrokerInv
<1> QED
  BY <1>1, SafeChain, SafeMoves

\* A run method begins with a poll, which leaves a good broker.
LEMMA PolledIsGood ==
    ASSUME BrokerInv PROVE Good(PollExpiry(b))
BY PollIsSafe DEF BrokerInv, Safe

-----------------------------------------------------------------------------
(* Every method keeps the invariant: runs, leases and requests. *)

\* The admission of a run is safe.
LEMMA AdmittedIsSafe ==
    ASSUME NEW s, Good(s), NEW c, NEW slot, NEW parent, NEW spec
    PROVE  Safe(Admitted(s, c, slot, parent, spec), s)
<1> DEFINE paid == Charge(s, c, slot, UNION {Lineage(s, p) : p \in parent})
           m == Mint(paid, "run")
           n == Admitted(s, c, slot, parent, spec)
<1>1. Safe(paid, s)
  BY ChargeIsSafe
<1> HIDE DEF paid
<1>2. Safe(m, paid)
  BY <1>1, MintIsSafe DEF MintKinds, Safe
<1>3. PICK runs : n = [m EXCEPT !.runs = runs]
  BY DEF Admitted, paid
<1> HIDE DEF m, n
<1>4. Good(m) /\ OnlyWork(n, m)
  BY <1>2, <1>3 DEF OnlyWork, Good, Shape, Fields, Safe
<1>5. Safe(n, m)
  BY <1>4, OnlyWorkIsSafe
<1>6. Safe(n, s)
  BY <1>1, <1>2, <1>5, SafeChain
<1> QED
  BY <1>6 DEF n

\* admit_run keeps the invariant and gives no control.
LEMMA AdmitStep ==
    ASSUME BrokerInv, NEW c, NEW slot, NEW parent, NEW spec, AdmitRun(c, slot, parent, spec)
    PROVE  BrokerInv' /\ Steady(b', b) /\ Spares(b', b)
<1> DEFINE s == PollExpiry(b)
<1>1. b' = Admitted(s, c, slot, parent, spec) /\ Keep
  BY DEF AdmitRun
<1>2. Good(s)
  BY PolledIsGood
<1> HIDE DEF s
<1>3. Safe(b', s)
  BY <1>1, <1>2, AdmittedIsSafe
<1> QED
  BY <1>1, <1>3, PolledMoves DEF s

\* A retried start_workflow keeps the invariant and gives no control.
LEMMA RetryStep ==
    ASSUME BrokerInv, NEW c, NEW context, NEW key, NEW spec, RetryStart(c, context, key, spec)
    PROVE  BrokerInv' /\ Steady(b', b) /\ Spares(b', b)
<1> DEFINE s == PollExpiry(b)
           paid == Charge(s, c, Ordinary, Lineage(s, context))
<1>1. PICK x : b' = [paid EXCEPT !.runs[context].started = {[key |-> key, run |-> x.run]}]
  BY DEF RetryStart
<1>2. Good(s) /\ Keep
  BY PolledIsGood DEF RetryStart
<1> HIDE DEF s
<1>3. Safe(paid, s)
  BY <1>2, ChargeIsSafe
<1> HIDE DEF paid
<1>4. Good(paid) /\ OnlyWork(b', paid)
  BY <1>1, <1>3 DEF OnlyWork, Good, Shape, Fields, Safe
<1>5. Safe(b', s)
  BY <1>2, <1>3, <1>4, OnlyWorkIsSafe, SafeChain
<1> QED
  BY <1>2, <1>5, PolledMoves DEF s

\* A first start_workflow keeps the invariant and gives no control, admitted or not.
LEMMA StartStep ==
    ASSUME BrokerInv, NEW c, NEW context, NEW key, NEW spec, StartWorkflow(c, context, key, spec)
    PROVE  BrokerInv' /\ Steady(b', b) /\ Spares(b', b)
<1> DEFINE s == PollExpiry(b)
           paid == Charge(s, c, Ordinary, Lineage(s, context))
           run == Admitted(paid, c, Ordinary, {}, spec)
           id == run.minted.run
<1>1. \/ b' = paid
      \/ b' = [run EXCEPT
                 !.runs[id].sources = @ \cup s.runs[context].sources,
                 !.runs[id].controls = @ \cup s.runs[context].controls,
                 !.runs[context].started = {[key |-> key, run |-> id]},
                 !.starts = @ \cup {[connection |-> c, key |-> key, spec |-> spec,
                                     epoch |-> s.runs[context].epoch, run |-> id]}]
  BY DEF StartWorkflow
<1>2. Good(s) /\ Keep
  BY PolledIsGood DEF StartWorkflow
<1> HIDE DEF s
<1>3. Safe(paid, s)
  BY <1>2, ChargeIsSafe
<1> HIDE DEF paid
<1>4. Safe(run, paid)
  BY <1>3, AdmittedIsSafe DEF Safe
<1> HIDE DEF run, id
<1>5. Safe(b', s)
  <2>1. CASE b' = paid
    BY <1>3, <2>1
  <2>2. CASE b' # paid
    <3>1. Good(run) /\ OnlyWork(b', run)
      BY <1>1, <1>4, <2>2 DEF OnlyWork, Good, Shape, Fields, Safe
    <3>2. Safe(b', run)
      BY <3>1, OnlyWorkIsSafe
    <3>3. Safe(run, s)
      BY <1>2, <1>3, <1>4, SafeChain
    <3> QED
      BY <1>2, <3>2, <3>3, SafeChain
  <2> QED
    BY <2>1, <2>2
<1> QED
  BY <1>2, <1>5, PolledMoves DEF s

\* A cut after the leading poll_expiry.
LEMMA PolledCut ==
    ASSUME BrokerInv, NEW s, s = PollExpiry(b), NEW ids, NEW state, b' = Cut(s, ids, state), Keep
    PROVE  BrokerInv' /\ Steady(b', b) /\ Spares(b', b)
<1>1. Safe(b', s)
  BY PolledIsGood, CutIsSafe
<1> QED
  BY <1>1, PolledMoves

\* cancel_start keeps the invariant and gives no control.
LEMMA CancelStartStep ==
    ASSUME BrokerInv, NEW c, NEW key, CancelStart(c, key) PROVE BrokerInv' /\ Steady(b', b) /\ Spares(b', b)
<1>1. PICK ids : b' = Cut(PollExpiry(b), ids, "Cancelled") /\ Keep
  BY DEF CancelStart
<1> QED
  BY <1>1, PolledCut

\* status keeps the invariant and gives no control.
LEMMA StatusStep ==
    ASSUME BrokerInv, NEW c, NEW id, Status(c, id) PROVE BrokerInv' /\ Steady(b', b) /\ Spares(b', b)
<1> DEFINE s == PollExpiry(b)
<1>1. b' = Charge(s, c, Ordinary, {}) /\ Keep /\ Good(s)
  BY PolledIsGood DEF Status
<1> HIDE DEF s
<1>2. Safe(b', s)
  BY <1>1, ChargeIsSafe
<1> QED
  BY <1>1, <1>2, PolledMoves DEF s

\* Steps that change runs, requests and receipts only.
LEMMA OnlyWorkMoves ==
    ASSUME BrokerInv, OnlyWork(b', b), Keep PROVE BrokerInv' /\ Steady(b', b) /\ Spares(b', b)
<1>1. Safe(b', b)
  BY OnlyWorkIsSafe DEF BrokerInv
<1> QED
  BY <1>1, SafeMoves

\* forget_run keeps the invariant and gives no control.
LEMMA ForgetRunStep ==
    ASSUME BrokerInv, NEW c, NEW id, ForgetRun(c, id) PROVE BrokerInv' /\ Steady(b', b) /\ Spares(b', b)
<1>1. PICK runs : b' = [b EXCEPT !.runs = runs]
  BY DEF ForgetRun
<1>2. OnlyWork(b', b) /\ Keep
  BY <1>1 DEF BrokerInv, Good, Shape, OnlyWork, Fields, ForgetRun
<1> QED
  BY <1>2, OnlyWorkMoves

\* commit_control keeps the invariant and gives no control.
LEMMA CommitControlStep ==
    ASSUME BrokerInv, NEW q, CommitControl(q) PROVE BrokerInv' /\ Steady(b', b) /\ Spares(b', b)
<1>1. PICK requests, runs : b' = [b EXCEPT !.requests = requests, !.runs = runs]
  BY DEF CommitControl
<1>2. OnlyWork(b', b) /\ Keep
  BY <1>1 DEF BrokerInv, Good, Shape, OnlyWork, Fields, CommitControl
<1> QED
  BY <1>2, OnlyWorkMoves

\* settle_request keeps the invariant and gives no control.
LEMMA SettleStep ==
    ASSUME BrokerInv, NEW q, SettleRequest(q) PROVE BrokerInv' /\ Steady(b', b) /\ Spares(b', b)
<1>1. OnlyWork(b', b) /\ Keep
  BY DEF BrokerInv, Good, Shape, OnlyWork, Fields, SettleRequest
<1> QED
  BY <1>1, OnlyWorkMoves

\* prepare_lease keeps the invariant: its token is neither a candidate nor a review.
LEMMA PrepareLeaseStep ==
    ASSUME BrokerInv, NEW id, NEW ref, PrepareLease(id, ref) PROVE BrokerInv' /\ Steady(b', b) /\ Spares(b', b)
<1> DEFINE t == [kind |-> "lease", connection |-> b.runs[id].connection, run |-> id, ref |-> ref,
                 epoch |-> b.targets[ref.session].epoch]
<1>1. b' = b /\ now' = now /\ closed' = closed
  BY DEF PrepareLease
<1>2. tokens' = tokens \cup {t} /\ t.kind = "lease"
  BY DEF PrepareLease
<1> HIDE DEF t
<1>3. TokensOK(b, tokens \cup {t})
  BY <1>2 DEF BrokerInv, TokensOK
<1>4. BrokerInv'
  BY <1>1, <1>2, <1>3 DEF BrokerInv
<1>5. Spares(b, b)
  BY DEF Spares
<1> QED
  BY <1>1, <1>4, <1>5, SameIsSteady

\* commit_lease keeps the invariant and gives no control.
LEMMA CommitLeaseStep ==
    ASSUME BrokerInv, NEW t, CommitLease(t) PROVE BrokerInv' /\ Steady(b', b) /\ Spares(b', b)
<1> DEFINE m == Mint(b, "ownership")
           x == t.ref.session
<1>1. /\ Good(b) /\ Keep /\ t.ref \in Current(b)
      /\ b' = [m EXCEPT !.targets[x].epoch = m.minted.ownership,
                        !.targets[x].writer = {[run |-> t.run, epoch |-> m.minted.ownership]}]
  BY DEF BrokerInv, CommitLease
<1>2. Safe(m, b)
  BY <1>1, MintIsSafe DEF MintKinds
<1>3. Good(m)
  BY <1>2 DEF Safe
<1> HIDE DEF m
<1>4. /\ DOMAIN b' = Fields
      /\ b'.targets = [m.targets EXCEPT ![x].epoch = m.minted.ownership,
                                        ![x].writer = {[run |-> t.run, epoch |-> m.minted.ownership]}]
      /\ SameAuthority(b', m)
  BY <1>1, <1>3 DEF Good, Shape, Fields, SameAuthority
<1>5. \A y \in DOMAIN m.targets : DOMAIN m.targets[y] = TargetFields
  BY <1>3 DEF Good, TargetsOK
<1>6. SameReferences(b', m)
  BY <1>4, <1>5, SMTT(30) DEF SameReferences, TargetFields
<1>7. b'.grants = m.grants /\ b'.registrations = m.registrations /\ b'.principals = m.principals
  BY <1>4 DEF SameAuthority
<1>9. Good(b') /\ Follows(b', m) /\ Steady(b', m)
  BY <1>3, <1>4, <1>6, <1>7, SameFollows, SameIsSteady
<1>8. Safe(b', m)
  BY <1>6, <1>7, <1>9, SameIsSpared DEF Safe
<1> QED
  BY <1>1, <1>2, <1>8, SafeChain, SafeMoves

\* prepare_request keeps the invariant and gives no control.
LEMMA PrepareRequestStep ==
    ASSUME BrokerInv, NEW id, NEW q, PrepareRequest(id, q) PROVE BrokerInv' /\ Steady(b', b) /\ Spares(b', b)
<1> DEFINE s == PollExpiry(b)
           paid == Charge(s, s.runs[id].connection, s.runs[id].slot, Lineage(s, id))
           m == Mint(paid, "request")
<1>1. PICK requests, prepared :
         b' = [m EXCEPT !.requests = requests, !.runs[id].prepared = prepared]
  <2>1. b' = [m EXCEPT
                !.requests = m.requests \cup
                    {[id |-> m.minted.request, run |-> id, operation |-> q.operation,
                      ref |-> q.ref, lease |-> q.lease, committed |-> FALSE]},
                !.runs[id].prepared = m.runs[id].prepared \/ s.runs[id].kind = "DirectInput"]
    BY DEF PrepareRequest
  <2> QED
    BY <2>1
<1>2. Good(s) /\ Keep
  BY PolledIsGood DEF PrepareRequest
<1> HIDE DEF s
<1>3. Safe(paid, s)
  BY <1>2, ChargeIsSafe
<1> HIDE DEF paid
<1>4. Safe(m, paid)
  BY <1>3, MintIsSafe DEF MintKinds, Safe
<1> HIDE DEF m
<1>5. Good(m) /\ OnlyWork(b', m)
  BY <1>1, <1>4 DEF OnlyWork, Good, Shape, Fields, Safe
<1>6. Safe(b', m)
  BY <1>5, OnlyWorkIsSafe
<1>7. Safe(m, s)
  BY <1>2, <1>3, <1>4, SafeChain
<1>8. Safe(b', s)
  BY <1>2, <1>6, <1>7, SafeChain
<1> QED
  BY <1>2, <1>8, PolledMoves DEF s

\* complete keeps the invariant and gives no control.
LEMMA CompleteStep ==
    ASSUME BrokerInv, NEW id, NEW bad, Complete(id, bad) PROVE BrokerInv' /\ Steady(b', b) /\ Spares(b', b)
<1> DEFINE s == PollExpiry(b)
<1>1. b' = Completed(s, id, bad) /\ Keep
  BY DEF Complete
<1>2. PICK state : Completed(s, id, bad) = Cut(s, {id}, state)
  BY DEF Completed
<1> QED
  BY <1>1, <1>2, PolledCut

\* complete_with_result keeps the invariant and gives no control.
LEMMA CompleteWithResultStep ==
    ASSUME BrokerInv, NEW q, CompleteWithResult(q) PROVE BrokerInv' /\ Steady(b', b) /\ Spares(b', b)
<1> DEFINE a == [b EXCEPT !.requests = @ \ {q}]
           s == PollExpiry(a)
<1>1. Good(b) /\ Keep /\ b' \in {s, Completed(s, q.run, FALSE)}
  BY DEF BrokerInv, CompleteWithResult
<1>2. Safe(a, b)
  <2>1. OnlyWork(a, b)
    BY <1>1 DEF OnlyWork, Good, Shape, Fields
  <2> QED
    BY <1>1, <2>1, OnlyWorkIsSafe
<1>3. Good(a)
  BY <1>2 DEF Safe
<1> HIDE DEF a
<1>4. Safe(s, b)
  BY <1>1, <1>2, <1>3, PollIsSafe, SafeChain
<1>5. PICK state : Completed(s, q.run, FALSE) = Cut(s, {q.run}, state)
  BY DEF Completed
<1> HIDE DEF s
<1>6. Safe(Cut(s, {q.run}, state), s)
  BY <1>4, CutIsSafe DEF Safe
<1>7. Safe(Cut(s, {q.run}, state), b)
  BY <1>1, <1>4, <1>6, SafeChain
<1>8. Safe(b', b)
  BY <1>1, <1>4, <1>5, <1>7
<1> QED
  BY <1>1, <1>8, SafeMoves

\* cancel_run keeps the invariant and gives no control.
LEMMA CancelRunStep ==
    ASSUME BrokerInv, NEW c, NEW id, CancelRun(c, id) PROVE BrokerInv' /\ Steady(b', b) /\ Spares(b', b)
<1> DEFINE s == PollExpiry(b)
<1>1. PICK ids : b' = Cut(Cut(s, ids, "Cancelled"), {id}, "Cancelled") /\ Keep
  BY DEF CancelRun
<1> DEFINE m == Cut(s, ids, "Cancelled")
<1>2. Good(s)
  BY PolledIsGood
<1> HIDE DEF s
<1>3. Safe(m, s)
  BY <1>2, CutIsSafe
<1>4. b' = Cut(m, {id}, "Cancelled")
  BY <1>1
<1> HIDE DEF m
<1>5. Safe(b', m)
  BY <1>3, <1>4, CutIsSafe DEF Safe
<1>6. Safe(b', s)
  BY <1>2, <1>3, <1>5, SafeChain
<1> QED
  BY <1>1, <1>6, PolledMoves DEF s

-----------------------------------------------------------------------------
(* Which authority methods leave control and associations alone. *)

\* A decision on a proposal gives the control it decides on, and no more.
LEMMA DecisionEffect ==
    ASSUME BrokerInv, NEW s, NEW c, NEW slot, NEW scope, NEW handoffs, NEW lifetime, NEW new, NEW x,
           Decides(s, c, slot, scope, handoffs, lifetime, new, x)
    PROVE  /\ SteadyEnrollments(b', b)
           /\ \A g \in b'.grants : \/ \E h \in b.grants : SameControl(g, h)
                                   \/ g.connection = c /\ g.controls = scope.controls
<1> DEFINE f == Cleared(s, c, slot)
           g == NewGrant(f, c, slot, scope, handoffs, lifetime)
<1>1. /\ s = PollExpiry(b) /\ c \in s.principals /\ slot \in Slots
      /\ new = Install(s, c, slot, scope, handoffs, lifetime)
  BY DEF Decides
<1>2. /\ DOMAIN x = Fields /\ (\A i \in Fields \ {"registrations", "consent"} : x[i] = new[i])
      /\ Reconsented(x.registrations, new.registrations, c)
      /\ b' = DiscardStaleProposals(x, {c})
  BY DEF Decides
<1>3. Good(b) /\ Safe(s, b)
  BY <1>1, PollIsSafe DEF BrokerInv
<1>4. Good(s)
  BY <1>3 DEF Safe
<1>5. /\ f.grants = {y \in s.grants : ~(y.connection = c /\ y.slot = slot)}
      /\ \A q \in f.registrations : \E r \in s.registrations : q.id = r.id /\ q.enrollment = r.enrollment
  BY <1>1, <1>4, ClearedEffect
<1>6. Installed(new, f, c, slot, scope, handoffs, g)
  BY <1>1, <1>4, InstallEffect
<1> HIDE DEF f, g
<1>7. /\ new.registrations = f.registrations /\ new.grants = f.grants \cup {g}
      /\ g.connection = c /\ g.controls = scope.controls
  BY <1>6 DEF Installed, Fields
<1>8. b'.grants = new.grants /\ b'.registrations = x.registrations
  <2>1. b'.grants = x.grants /\ b'.registrations = x.registrations
    BY <1>2 DEF DiscardStaleProposals, Fields
  <2>2. x.grants = new.grants
    BY <1>2 DEF Fields
  <2> QED
    BY <2>1, <2>2
<1>9. \A q \in b'.registrations : \E r \in s.registrations : q.id = r.id /\ q.enrollment = r.enrollment
  BY <1>2, <1>5, <1>7, <1>8 DEF Reconsented
<1>10. Weaker(s, b)
  BY <1>1, <1>3, PollEffect DEF Polled
<1>11. SteadyEnrollments(b', b)
  BY <1>9, <1>10 DEF SteadyEnrollments, Weaker
<1>12. \A y \in b'.grants : y = g \/ y \in b.grants
  BY <1>5, <1>7, <1>8, <1>10 DEF Weaker
<1> QED
  BY <1>7, <1>11, <1>12 DEF SameControl

\* A decision without controls.
LEMMA DecisionIsSteady ==
    ASSUME BrokerInv, NEW s, NEW c, NEW slot, NEW scope, NEW handoffs, NEW lifetime, NEW new, NEW x,
           Decides(s, c, slot, scope, handoffs, lifetime, new, x), scope.controls = {}
    PROVE  Steady(b', b)
BY DecisionEffect DEF Steady

\* A decision on metadata gives no control.
LEMMA ViewingDecisions ==
    ASSUME BrokerInv, NEW p, NEW lifetime,
           \/ \E refs : ApproveMetadata(p, refs, lifetime)
           \/ ApproveEnrollmentMetadataGrant(p, lifetime)
    PROVE  Steady(b', b)
<1>1. ASSUME NEW refs PROVE [NoScope EXCEPT !.sources = refs].controls = {}
  BY DEF NoScope
<1>2. ASSUME NEW refs, ApproveMetadata(p, refs, lifetime) PROVE Steady(b', b)
  <2> DEFINE scope == [NoScope EXCEPT !.sources = refs]
  <2>1. PICK new, x : Decides(PollExpiry(b), p.connection, Metadata, scope, {}, lifetime, new, x)
    BY <1>2, ApproveMetadataDecides, Zenon
  <2>2. scope.controls = {}
    BY <1>1
  <2> HIDE DEF scope
  <2> QED
    BY <2>1, <2>2, DecisionIsSteady
<1>3. ASSUME ApproveEnrollmentMetadataGrant(p, lifetime) PROVE Steady(b', b)
  <2> DEFINE scope == [NoScope EXCEPT !.sources = p.sources]
  <2>1. PICK new, x : Decides(PollExpiry(b), p.connection, p.slot, scope, {}, lifetime, new, x)
    BY <1>3, ApproveEnrollmentDecides, Zenon
  <2>2. scope.controls = {}
    BY <1>1
  <2> HIDE DEF scope
  <2> QED
    BY <2>1, <2>2, DecisionIsSteady
<1> QED
  BY <1>2, <1>3

\* After the leading poll_expiry.
LEMMA PolledIsSteady ==
    ASSUME BrokerInv, b'.grants = PollExpiry(b).grants, b'.registrations = PollExpiry(b).registrations
    PROVE  Steady(b', b)
<1>1. Steady(PollExpiry(b), b)
  BY PollIsSafe DEF BrokerInv, Safe
<1> QED
  BY <1>1 DEF Steady, SteadyEnrollments

\* Neither do proposals and their rejection.
LEMMA ProposalsAreSteady ==
    ASSUME BrokerInv, NEW c,
           \/ \E t : RequestApproval(c, t)
           \/ \E refs : RequestMetadataApproval(c, refs)
           \/ \E r : RequestEnrollmentMetadataApproval(r)
    PROVE  Steady(b', b)
<1> DEFINE s == PollExpiry(b)
<1>1. PICK k, p : b' = RequestPending(s, k, p)
  BY DEF RequestApproval, RequestMetadataApproval, RequestEnrollmentMetadataApproval
<1>2. Good(s)
  BY PolledIsGood
<1> HIDE DEF s
<1> DEFINE m == Mint(s, "approval")
<1>3. DOMAIN m = Fields /\ m.grants = s.grants /\ m.registrations = s.registrations
  BY <1>2, MintEffect DEF Good, Shape, Fields, MintKinds
<1>4. b' = [m EXCEPT !.pending = @ \cup {p}, !.proposals[k] = @ + 1]
  BY <1>1 DEF RequestPending
<1> HIDE DEF m
<1>5. b'.grants = s.grants /\ b'.registrations = s.registrations
  BY <1>3, <1>4 DEF Fields
<1> QED
  BY <1>5, PolledIsSteady DEF s

\* A registration that keeps its association is steady.
LEMMA UpdateIsSteady ==
    ASSUME NEW s, DOMAIN s = Fields, NEW old \in s.registrations, NEW new, new.id = old.id,
           new.enrollment = old.enrollment
    PROVE  Steady(Update(s, old, new), s)
<1> DEFINE n == Update(s, old, new)
<1>1. n.grants = s.grants /\ n.registrations = (s.registrations \ {old}) \cup {new}
  BY DEF Update, Fields
<1> HIDE DEF n
<1>2. Steady(n, s)
  BY <1>1 DEF Steady, SteadyEnrollments, SameControl
<1> QED
  BY <1>2 DEF n

\* The end of a review, or of its decision, leaves associations alone.
LEMMA RegistrationsAreSteady ==
    ASSUME BrokerInv, NEW r \in b.registrations,
           \/ CancelEnrollmentMetadataReview(r) \/ RevokeEnrollmentMetadataDecision(r)
    PROVE  Steady(b', b)
<1>1. DOMAIN b = Fields /\ DOMAIN r = RegistrationFields
  BY DEF BrokerInv, Good, Shape, RegistrationsOK
<1>2. PICK new : new.id = r.id /\ new.enrollment = r.enrollment /\ b' = Update(b, r, new)
  <2>1. CASE CancelEnrollmentMetadataReview(r)
    <3> DEFINE new == [r EXCEPT !.review = 0]
    <3>1. new.id = r.id /\ new.enrollment = r.enrollment
      BY <1>1 DEF RegistrationFields
    <3>2. b' = Update(b, r, new)
      BY <2>1 DEF CancelEnrollmentMetadataReview
    <3> QED
      BY <3>1, <3>2
  <2>2. CASE RevokeEnrollmentMetadataDecision(r)
    <3> DEFINE new == [r EXCEPT !.review = 0, !.decision = {}]
    <3>1. new.id = r.id /\ new.enrollment = r.enrollment
      BY <1>1 DEF RegistrationFields
    <3>2. b' = Update(b, r, new)
      BY <2>2 DEF RevokeEnrollmentMetadataDecision
    <3> QED
      BY <3>1, <3>2
  <2> QED
    BY <2>1, <2>2
<1> QED
  BY <1>1, <1>2, UpdateIsSteady

\* Minting an id leaves grants and registrations alone.
LEMMA MintKeeps ==
    ASSUME NEW s, Good(s), NEW kind \in MintKinds
    PROVE  /\ DOMAIN Mint(s, kind) = Fields
           /\ Mint(s, kind).grants = s.grants /\ Mint(s, kind).registrations = s.registrations
BY MintEffect DEF Good, Shape, Fields

\* A new registration has a new id.
LEMMA RegisteringIsSteady ==
    ASSUME BrokerInv, NEW c, NEW local, RegisterControllerSession(c, local)
    PROVE  Steady(b', b)
<1> DEFINE m == Mint(b, "registration")
           id == m.minted.registration
           new == [connection |-> c, local |-> local, id |-> id, revision |-> id, enrollment |-> 0,
                   target |-> NoRef, review |-> 0, decision |-> {}, consent |-> {}]
<1>1. Good(b) /\ b' = [m EXCEPT !.registrations = @ \cup {new}] /\ new.id = id
  BY DEF BrokerInv, RegisterControllerSession
<1>2. DOMAIN m = Fields /\ m.grants = b.grants /\ m.registrations = b.registrations
  BY <1>1, MintKeeps DEF MintKinds
<1>3. id > b.minted.registration
  BY <1>1, MintEffect DEF Good, Shape, MintKinds
<1> HIDE DEF m, new, id
<1>4. b'.grants = b.grants /\ b'.registrations = b.registrations \cup {new}
  BY <1>1, <1>2 DEF Fields
<1> QED
  BY <1>1, <1>3, <1>4 DEF Steady, SteadyEnrollments, SameControl

\* A candidate is not yet an association.
LEMMA PreparingIsSteady ==
    ASSUME BrokerInv, NEW r \in b.registrations, NEW ref, PrepareControllerEnrollment(r, ref)
    PROVE  Steady(b', b)
<1> DEFINE m == Mint(b, "registration")
           new == [r EXCEPT !.revision = m.minted.registration]
<1>1. Good(b) /\ b' = Update(m, r, new)
  BY DEF BrokerInv, PrepareControllerEnrollment
<1>2. DOMAIN m = Fields /\ m.grants = b.grants /\ m.registrations = b.registrations
  BY <1>1, MintKeeps DEF MintKinds
<1>3. new.id = r.id /\ new.enrollment = r.enrollment
  BY <1>1 DEF Good, RegistrationsOK, RegistrationFields
<1> HIDE DEF m, new
<1>4. b'.grants = b.grants /\ b'.registrations = (b.registrations \ {r}) \cup {new}
  BY <1>1, <1>2 DEF Update, Fields
<1> QED
  BY <1>3, <1>4 DEF Steady, SteadyEnrollments, SameControl

\* The registration that poll_expiry leaves of one.
LEMMA PolledRegistration ==
    ASSUME BrokerInv, NEW r \in b.registrations, NEW old,
           old = CHOOSE x \in PollExpiry(b).registrations : x.id = r.id
    PROVE  /\ old \in PollExpiry(b).registrations /\ old.id = r.id
           /\ DOMAIN old = RegistrationFields
<1>1. Polled(PollExpiry(b), b)
  BY PollEffect DEF BrokerInv
<1>2. \E x \in PollExpiry(b).registrations : x.id = r.id
  BY <1>1 DEF Polled
<1>3. Good(PollExpiry(b))
  BY <1>1 DEF Polled
<1> QED
  BY <1>2, <1>3 DEF Good, RegistrationsOK

\* One registration changes after poll_expiry, its association aside.
LEMMA PolledUpdate ==
    ASSUME BrokerInv, NEW s, s = PollExpiry(b), NEW old \in s.registrations, NEW new,
           new.id = old.id, new.enrollment = old.enrollment,
           b'.grants = s.grants, b'.registrations = (s.registrations \ {old}) \cup {new}
    PROVE  Steady(b', b)
<1>1. Steady(s, b)
  BY PollIsSafe DEF BrokerInv, Safe
<1> QED
  BY <1>1 DEF Steady, SteadyEnrollments

\* A review of metadata leaves associations alone.
LEMMA ReviewingIsSteady ==
    ASSUME BrokerInv, NEW r \in b.registrations, PrepareEnrollmentMetadataReview(r)
    PROVE  Steady(b', b)
<1> DEFINE p == PollExpiry(b)
           m == Mint(p, "registration")
           old == CHOOSE x \in p.registrations : x.id = r.id
           new == [old EXCEPT !.review = m.minted.registration]
<1>1. b' = Update(m, old, new) /\ Good(p)
  BY PolledIsGood DEF PrepareEnrollmentMetadataReview
<1>2. old \in p.registrations /\ DOMAIN old = RegistrationFields
  BY PolledRegistration
<1>3. DOMAIN m = Fields /\ m.grants = p.grants /\ m.registrations = p.registrations
  BY <1>1, MintKeeps DEF MintKinds
<1> HIDE DEF m, old
<1>4. new.id = old.id /\ new.enrollment = old.enrollment
  BY <1>2 DEF RegistrationFields
<1> HIDE DEF new, p
<1>5. b'.grants = p.grants /\ b'.registrations = (p.registrations \ {old}) \cup {new}
  BY <1>1, <1>3 DEF Update, Fields
<1> QED
  BY <1>2, <1>4, <1>5, PolledUpdate DEF p

\* So does the decision on one.
LEMMA DecidingIsSteady ==
    ASSUME BrokerInv, NEW t, NEW lifetime, ApproveEnrollmentMetadataReview(t, lifetime)
    PROVE  Steady(b', b)
<1> DEFINE s == PollExpiry(b)
<1>1. PICK r \in s.registrations :
         b' = Update(s, r, [r EXCEPT !.review = 0,
                                     !.decision = {[enrollment |-> r.enrollment,
                                                    revision |-> t.revision,
                                                    expires |-> now + lifetime,
                                                    seen |-> t.seen]}])
  BY DEF ApproveEnrollmentMetadataReview
<1>2. Good(s)
  BY PolledIsGood
<1> DEFINE new == [r EXCEPT !.review = 0, !.decision = {[enrollment |-> r.enrollment,
                                                          revision |-> t.revision,
                                                          expires |-> now + lifetime,
                                                          seen |-> t.seen]}]
<1>3. b' = Update(s, r, new)
  BY <1>1
<1> HIDE DEF s
<1>4. new.id = r.id /\ new.enrollment = r.enrollment
  BY <1>2 DEF Good, RegistrationsOK, RegistrationFields
<1> HIDE DEF new
<1>5. b'.grants = s.grants /\ b'.registrations = (s.registrations \ {r}) \cup {new}
  BY <1>2, <1>3 DEF Update, Fields, Good, Shape
<1> QED
  BY <1>4, <1>5, PolledUpdate DEF s

\* n has the grants and at most the registrations of m, a weaker s.
LEMMA FewerIsSteady ==
    ASSUME NEW s, NEW m, NEW n, Weaker(m, s), n.grants = m.grants, n.registrations \subseteq m.registrations
    PROVE  Steady(n, s)
<1>1. Steady(m, s)
  BY WeakerIsSteady
<1> QED
  BY <1>1 DEF Steady, SteadyEnrollments

\* An association may end with its registration.
LEMMA UnregisteringIsSteady ==
    ASSUME BrokerInv, NEW r, UnregisterControllerSession(r) \/ RevokeAll PROVE Steady(b', b)
<1>1. Good(b)
  BY DEF BrokerInv
<1>2. CASE UnregisterControllerSession(r)
  <2> DEFINE cut == RevokeSlots(b, EnrollmentSlots(b, {r}))
  <2>1. b' = [cut EXCEPT !.registrations = {x \in @ : x.id # r.id}]
    BY <1>2 DEF UnregisterControllerSession
  <2>2. Good(cut) /\ Weaker(cut, b)
    BY <1>1, RevokeIsGood, RevokeIsWeaker
  <2> HIDE DEF cut
  <2>3. b'.grants = cut.grants /\ b'.registrations \subseteq cut.registrations
    BY <2>1, <2>2 DEF Good, Shape, Fields
  <2> QED
    BY <2>2, <2>3, FewerIsSteady
<1>3. CASE RevokeAll
  <2> DEFINE slots == {<<c, slot>> : c \in b.principals, slot \in {Ordinary, Metadata}}
                         \cup EnrollmentSlots(b, b.registrations)
             cut == RevokeSlots(b, slots)
  <2>1. b' = [cut EXCEPT !.registrations = {}, !.pending = {}]
    BY <1>3 DEF RevokeAll
  <2> HIDE DEF slots
  <2>2. Good(cut) /\ Weaker(cut, b) /\ b' = [cut EXCEPT !.registrations = {}, !.pending = {}]
    BY <1>1, <2>1, RevokeIsGood, RevokeIsWeaker
  <2> HIDE DEF cut
  <2>3. b'.grants = cut.grants /\ b'.registrations \subseteq cut.registrations
    BY <2>2 DEF Good, Shape, Fields
  <2> QED
    BY <2>2, <2>3, FewerIsSteady
<1> QED
  BY <1>2, <1>3

\* Connections come and go without giving control.
LEMMA ConnectionsAreSteady ==
    ASSUME BrokerInv, NEW c \in Connections,
           \/ AcceptConnection(c) \/ Disconnect(c)
           \/ RevokeOrdinary(c) \/ RevokeMetadata(c) \/ RevokeConnection(c)
    PROVE  Steady(b', b)
<1>1. Good(b) /\ DOMAIN b = Fields
  BY DEF BrokerInv, Good, Shape
<1>2. CASE AcceptConnection(c)
  <2>1. b'.grants = b.grants /\ b'.registrations = b.registrations
    BY <1>1, <1>2 DEF AcceptConnection, Fields
  <2> QED
    BY <2>1, SameIsSteady
<1>3. CASE Disconnect(c)
  BY <1>1, <1>3, DisconnectEffect, WeakerIsSteady DEF Disconnect
<1>4. CASE RevokeOrdinary(c) \/ RevokeMetadata(c)
  BY <1>1, <1>4, RevokeIsWeaker, WeakerIsSteady DEF RevokeOrdinary, RevokeMetadata, RevokeSlot
<1>5. CASE RevokeConnection(c)
  BY <1>1, <1>5, ClientEffect, WeakerIsSteady DEF RevokeConnection
<1> QED
  BY <1>2, <1>3, <1>4, <1>5

\* Targets come and go without giving control.
LEMMA TargetsAreSteady ==
    ASSUME BrokerInv, NEW x,
           \/ \E g : AttachTarget(x, g)
           \/ ForgetClosedTarget(x)
           \/ CloseTarget(x) \/ HumanTakeover(x)
    PROVE  Steady(b', b)
<1> DEFINE m == Mint(b, "ownership")
<1>1. Good(b) /\ DOMAIN b = Fields
  BY DEF BrokerInv, Good, Shape
<1>2. Good(m) /\ Safe(m, b)
  BY <1>1, MintIsSafe DEF MintKinds, Safe
<1> HIDE DEF m
<1>3. ASSUME NEW s, Good(s), Weaker(s, m) \/ s = m, b'.grants = s.grants, b'.registrations = s.registrations
      PROVE  Steady(b', b)
  <2>1. Steady(s, m)
    BY <1>3, WeakerIsSteady, SameIsSteady
  <2>2. Steady(s, b)
    BY <1>1, <1>2, <1>3, <2>1, SteadyChain DEF Safe
  <2> QED
    BY <1>3, <2>2 DEF Steady, SteadyEnrollments
<1>4. ASSUME NEW g, AttachTarget(x, g) PROVE Steady(b', b)
  <2> DEFINE old == IF x \in DOMAIN b.targets THEN {Ref(x, b.targets[x].generation)} ELSE {}
             s == IF old = {} THEN m ELSE InvalidateTarget(m, Ref(x, b.targets[x].generation))
  <2>1. PICK targets : b' = [s EXCEPT !.targets = targets]
    BY <1>4 DEF AttachTarget, m
  <2>2. Good(s) /\ (Weaker(s, m) \/ s = m)
    BY <1>2, InvalidateEffect
  <2> HIDE DEF s
  <2>3. b'.grants = s.grants /\ b'.registrations = s.registrations
    BY <2>1, <2>2 DEF Good, Shape, Fields
  <2> QED
    BY <1>3, <2>2, <2>3
<1>5. CASE ForgetClosedTarget(x)
  <2>1. PICK targets, mark : b' = [b EXCEPT !.targets = targets, !.forgotten = mark]
    BY <1>5 DEF ForgetClosedTarget
  <2>2. b'.grants = b.grants /\ b'.registrations = b.registrations
    BY <1>1, <2>1 DEF Fields
  <2> QED
    BY <2>2, SameIsSteady
<1>6. CASE CloseTarget(x)
  <2> DEFINE s == InvalidateTarget(b, x)
  <2>1. b' = [s EXCEPT !.targets[x.session].active = FALSE, !.targets[x.session].writer = {}]
    BY <1>6 DEF CloseTarget
  <2>2. Good(s) /\ Weaker(s, b)
    BY <1>1, InvalidateEffect
  <2> HIDE DEF s
  <2>3. b'.grants = s.grants /\ b'.registrations = s.registrations
    BY <2>1, <2>2 DEF Good, Shape, Fields
  <2> QED
    BY <2>2, <2>3, FewerIsSteady
<1>7. CASE HumanTakeover(x)
  <2>1. PICK slots : b' = [RevokeSlots(m, slots) EXCEPT !.targets[x.session].epoch = m.minted.ownership,
                                                       !.targets[x.session].writer = {}]
    BY <1>7 DEF HumanTakeover, m
  <2> DEFINE s == RevokeSlots(m, slots)
  <2>2. Good(s) /\ Weaker(s, m)
    BY <1>2, RevokeIsGood, RevokeIsWeaker
  <2>3. b' = [s EXCEPT !.targets[x.session].epoch = m.minted.ownership,
                       !.targets[x.session].writer = {}]
    BY <2>1
  <2> HIDE DEF s
  <2>4. b'.grants = s.grants /\ b'.registrations = s.registrations
    BY <2>2, <2>3 DEF Good, Shape, Fields
  <2> QED
    BY <1>3, <2>2, <2>4
<1> QED
  BY <1>4, <1>5, <1>6, <1>7

\* The remaining ones.
LEMMA OthersAreSteady ==
    ASSUME BrokerInv,
           \/ \E p : RejectApproval(p) \/ \E sinks : PrepareOrdinaryEnrollmentReview(p, sinks)
           \/ \E r : RevokeEnrollmentMetadataGrant(r)
           \/ PollExpiryStep \/ Tick
    PROVE  Steady(b', b)
<1>1. Good(b) /\ DOMAIN b = Fields
  BY DEF BrokerInv, Good, Shape
<1>2. ASSUME NEW p, RejectApproval(p) PROVE Steady(b', b)
  <2>1. b'.grants = b.grants /\ b'.registrations = b.registrations
    BY <1>1, <1>2 DEF RejectApproval, Fields
  <2> QED
    BY <2>1, SameIsSteady
<1>3. ASSUME NEW p, NEW sinks, PrepareOrdinaryEnrollmentReview(p, sinks) PROVE Steady(b', b)
  BY <1>3, SameIsSteady DEF PrepareOrdinaryEnrollmentReview
<1>4. ASSUME NEW r, RevokeEnrollmentMetadataGrant(r) PROVE Steady(b', b)
  BY <1>1, <1>4, RevokeIsWeaker, WeakerIsSteady DEF RevokeEnrollmentMetadataGrant, RevokeSlot
<1>5. CASE PollExpiryStep
  BY <1>5, PolledIsSteady DEF PollExpiryStep
<1>6. CASE Tick
  BY <1>6, SameIsSteady DEF Tick
<1> QED
  BY <1>2, <1>3, <1>4, <1>5, <1>6

\* Only the decision on a proposal for control gives control, and only the
\* decision on a candidate makes an association.
LEMMA GrantStepIsSteady ==
    ASSUME BrokerInv, GrantStep,
           \A p \in b.pending, l \in Lifetimes, t \in GrantRequests : \A h \in Handoffs(p, t) :
               ~Approve(p, t, h, l),
           \A r \in b.registrations, t \in tokens : ~ApproveControllerEnrollment(r, t)
    PROVE  Steady(b', b)
<1>1. ASSUME NEW c \in Connections,
             \/ AcceptConnection(c) \/ Disconnect(c)
             \/ RevokeOrdinary(c) \/ RevokeMetadata(c) \/ RevokeConnection(c)
             \/ \E t \in GrantRequests : RequestApproval(c, t)
             \/ \E refs \in SUBSET Current(b) : RequestMetadataApproval(c, refs)
             \/ \E local \in Locals : RegisterControllerSession(c, local)
      PROVE  Steady(b', b)
  BY <1>1, ConnectionsAreSteady, ProposalsAreSteady, RegisteringIsSteady
<1>2. ASSUME NEW x \in Sessions, NEW g \in 1 .. MaxGeneration, AttachTarget(x, g) PROVE Steady(b', b)
  BY <1>2, TargetsAreSteady
<1>3. ASSUME NEW x \in Sessions, ForgetClosedTarget(x) PROVE Steady(b', b)
  BY <1>3, TargetsAreSteady
<1>4. ASSUME NEW ref \in Current(b), CloseTarget(ref) \/ HumanTakeover(ref) PROVE Steady(b', b)
  BY <1>4, TargetsAreSteady
<1>5. ASSUME NEW p \in b.pending,
             \/ RejectApproval(p)
             \/ \E sinks \in SUBSET p.controls : PrepareOrdinaryEnrollmentReview(p, sinks)
             \/ \E l \in Lifetimes :
                   \/ \E t \in GrantRequests : \E h \in Handoffs(p, t) : Approve(p, t, h, l)
                   \/ \E refs \in SUBSET p.sources : ApproveMetadata(p, refs, l)
                   \/ ApproveEnrollmentMetadataGrant(p, l)
      PROVE  Steady(b', b)
  <2>1. CASE RejectApproval(p) \/ \E sinks \in SUBSET p.controls : PrepareOrdinaryEnrollmentReview(p, sinks)
    BY <2>1, OthersAreSteady
  <2>2. ASSUME NEW l \in Lifetimes, (\E refs \in SUBSET p.sources : ApproveMetadata(p, refs, l))
                                       \/ ApproveEnrollmentMetadataGrant(p, l)
        PROVE  Steady(b', b)
    BY <2>2, ViewingDecisions
  <2> QED
    BY <1>5, <2>1, <2>2
<1>6. ASSUME NEW r \in b.registrations,
             \/ \E ref \in Current(b) \cup closed : PrepareControllerEnrollment(r, ref)
             \/ \E t \in tokens : ApproveControllerEnrollment(r, t)
             \/ UnregisterControllerSession(r)
             \/ RequestEnrollmentMetadataApproval(r)
             \/ PrepareEnrollmentMetadataReview(r) \/ CancelEnrollmentMetadataReview(r)
             \/ RevokeEnrollmentMetadataDecision(r) \/ RevokeEnrollmentMetadataGrant(r)
      PROVE  Steady(b', b)
  <2>1. CASE \E ref \in Current(b) \cup closed : PrepareControllerEnrollment(r, ref)
    BY <2>1, PreparingIsSteady
  <2>2. CASE UnregisterControllerSession(r)
    BY <2>2, UnregisteringIsSteady
  <2>3. CASE RequestEnrollmentMetadataApproval(r)
    BY <2>3, ProposalsAreSteady
  <2>4. CASE PrepareEnrollmentMetadataReview(r)
    BY <2>4, ReviewingIsSteady
  <2>5. CASE CancelEnrollmentMetadataReview(r) \/ RevokeEnrollmentMetadataDecision(r)
    BY <2>5, RegistrationsAreSteady
  <2>6. CASE RevokeEnrollmentMetadataGrant(r)
    BY <2>6, OthersAreSteady
  <2> QED
    BY <1>6, <2>1, <2>2, <2>3, <2>4, <2>5, <2>6
<1>7. ASSUME NEW t \in tokens, NEW l \in Lifetimes, ApproveEnrollmentMetadataReview(t, l) PROVE Steady(b', b)
  BY <1>7, DecidingIsSteady
<1>8. CASE RevokeAll \/ PollExpiryStep \/ Tick
  BY <1>8, UnregisteringIsSteady, OthersAreSteady
<1> QED
  BY <1>1, <1>2, <1>3, <1>4, <1>5, <1>6, <1>7, <1>8 DEF GrantStep, GuardedGrantStep, FreeGrantStep

-----------------------------------------------------------------------------
(* The theorems. *)

\* The invariant holds of the empty broker.
LEMMA BrokerStarts == GrantInit => BrokerInv
<1> SUFFICES ASSUME GrantInit PROVE BrokerInv
  OBVIOUS
<1>1. b = EmptyBroker /\ now = 0 /\ tokens = {} /\ closed = {}
  BY DEF GrantInit
<1>2. /\ DOMAIN b = Fields /\ b.principals = {} /\ b.retired = {} /\ b.grants = {} /\ b.registrations = {}
      /\ b.pending = {} /\ b.forgotten = 0 /\ DOMAIN b.targets = {}
  BY <1>1 DEF EmptyBroker, Fields
<1>3. /\ b.revisions = [c \in Connections |-> [k \in SlotKinds |-> 0]]
      /\ b.consent = [c \in Connections |-> {}]
      /\ b.usage = [c \in Connections |-> 0]
      /\ b.proposals = [c \in Connections |-> 0]
      /\ b.minted = [approval |-> 0, grant |-> 0, ownership |-> 0, registration |-> 0, run |-> 0, request |-> 0]
  BY <1>1 DEF EmptyBroker
<1>4. b.minted \in [MintKinds -> Nat]
  BY <1>3 DEF MintKinds
<1>5. Shape(b)
  BY <1>2, <1>3, <1>4, GrantAssumption DEF Shape
<1>6. TargetsOK(b)
  BY <1>2, GrantAssumption DEF TargetsOK
<1>7. GrantsOK(b)
  BY <1>2, FS_EmptySet DEF GrantsOK
<1>8. RegistrationsOK(b) /\ LiveOK(b) /\ PendingOK(b) /\ ConsentOK(b) /\ DecisionsOK(b)
  BY <1>2 DEF RegistrationsOK, LiveOK, PendingOK, ConsentOK, DecisionsOK
<1>9. ClosedOK(b, closed) /\ TokensOK(b, tokens)
  BY <1>1 DEF ClosedOK, TokensOK
<1>10. now \in 0 .. MaxTime
  BY <1>1, BrokerAssumption
<1> QED
  BY <1>5, <1>6, <1>7, <1>8, <1>9, <1>10 DEF BrokerInv, Good

\* The authority methods, one by one.
LEMMA GrantStepKeeps ==
    ASSUME BrokerInv, GrantStep PROVE BrokerInv'
<1>1. ASSUME NEW c \in Connections,
             \/ AcceptConnection(c) \/ Disconnect(c)
             \/ RevokeOrdinary(c) \/ RevokeMetadata(c) \/ RevokeConnection(c)
             \/ \E t \in GrantRequests : RequestApproval(c, t)
             \/ \E refs \in SUBSET Current(b) : RequestMetadataApproval(c, refs)
             \/ \E local \in Locals : RegisterControllerSession(c, local)
      PROVE  BrokerInv'
  <2>1. CASE RevokeOrdinary(c) \/ RevokeMetadata(c)
    BY <2>1, RevokeStep DEF RevokeOrdinary, RevokeMetadata, RevokeSlot
  <2>2. CASE RevokeConnection(c)
    BY <2>2, RevokeConnectionStep
  <2>3. CASE AcceptConnection(c)
    BY <2>3, AcceptStep
  <2>4. CASE Disconnect(c)
    BY <2>4, DisconnectStep
  <2>5. CASE \E t \in GrantRequests : RequestApproval(c, t)
    BY <2>5, RequestApprovalStep
  <2>6. CASE \E refs \in SUBSET Current(b) : RequestMetadataApproval(c, refs)
    BY <2>6, RequestMetadataStep
  <2>7. CASE \E local \in Locals : RegisterControllerSession(c, local)
    BY <2>7, RegisterStep
  <2> QED
    BY <1>1, <2>1, <2>2, <2>3, <2>4, <2>5, <2>6, <2>7
<1>2. ASSUME NEW x \in Sessions, NEW g \in 1 .. MaxGeneration, AttachTarget(x, g) PROVE BrokerInv'
  BY <1>2, AttachStep
<1>3. ASSUME NEW x \in Sessions, ForgetClosedTarget(x) PROVE BrokerInv'
  BY <1>3, ForgetStep
<1>4. ASSUME NEW ref \in Current(b), CloseTarget(ref) \/ HumanTakeover(ref) PROVE BrokerInv'
  BY <1>4, CloseStep, TakeoverStep
<1>5. ASSUME NEW p \in b.pending,
             \/ RejectApproval(p)
             \/ \E sinks \in SUBSET p.controls : PrepareOrdinaryEnrollmentReview(p, sinks)
             \/ \E l \in Lifetimes :
                   \/ \E t \in GrantRequests : \E h \in Handoffs(p, t) : Approve(p, t, h, l)
                   \/ \E refs \in SUBSET p.sources : ApproveMetadata(p, refs, l)
                   \/ ApproveEnrollmentMetadataGrant(p, l)
      PROVE  BrokerInv'
  <2>1. CASE RejectApproval(p)
    BY <2>1, RejectStep
  <2>2. CASE \E sinks \in SUBSET p.controls : PrepareOrdinaryEnrollmentReview(p, sinks)
    BY <2>2, PrepareOrdinaryStep
  <2>3. ASSUME NEW l \in Lifetimes, NEW t \in GrantRequests, NEW h \in Handoffs(p, t), Approve(p, t, h, l)
        PROVE  BrokerInv'
    BY <2>3, ApproveStep
  <2>4. ASSUME NEW l \in Lifetimes, NEW refs \in SUBSET p.sources, ApproveMetadata(p, refs, l)
        PROVE  BrokerInv'
    BY <2>4, ApproveMetadataStep
  <2>5. ASSUME NEW l \in Lifetimes, ApproveEnrollmentMetadataGrant(p, l) PROVE BrokerInv'
    BY <2>5, ApproveEnrollmentGrantStep
  <2> QED
    BY <1>5, <2>1, <2>2, <2>3, <2>4, <2>5
<1>6. ASSUME NEW r \in b.registrations,
             \/ \E ref \in Current(b) \cup closed : PrepareControllerEnrollment(r, ref)
             \/ \E t \in tokens : ApproveControllerEnrollment(r, t)
             \/ UnregisterControllerSession(r)
             \/ RequestEnrollmentMetadataApproval(r)
             \/ PrepareEnrollmentMetadataReview(r) \/ CancelEnrollmentMetadataReview(r)
             \/ RevokeEnrollmentMetadataDecision(r) \/ RevokeEnrollmentMetadataGrant(r)
      PROVE  BrokerInv'
  <2>1. CASE \E ref \in Current(b) \cup closed : PrepareControllerEnrollment(r, ref)
    BY <2>1, PrepareEnrollmentStep
  <2>2. CASE \E t \in tokens : ApproveControllerEnrollment(r, t)
    BY <2>2, ApproveEnrollmentStep
  <2>3. CASE UnregisterControllerSession(r)
    BY <2>3, UnregisterStep
  <2>4. CASE RequestEnrollmentMetadataApproval(r)
    BY <2>4, RequestEnrollmentStep
  <2>5. CASE PrepareEnrollmentMetadataReview(r)
    BY <2>5, PrepareReviewStep
  <2>6. CASE CancelEnrollmentMetadataReview(r)
    BY <2>6, CancelReviewStep
  <2>7. CASE RevokeEnrollmentMetadataDecision(r)
    BY <2>7, RevokeDecisionStep
  <2>8. CASE RevokeEnrollmentMetadataGrant(r)
    BY <2>8, RevokeStep DEF RevokeEnrollmentMetadataGrant, RevokeSlot
  <2> QED
    BY <1>6, <2>1, <2>2, <2>3, <2>4, <2>5, <2>6, <2>7, <2>8
<1>7. ASSUME NEW t \in tokens, NEW l \in Lifetimes, ApproveEnrollmentMetadataReview(t, l) PROVE BrokerInv'
  BY <1>7, ApproveReviewStep
<1>8. CASE RevokeAll \/ PollExpiryStep \/ Tick
  BY <1>8, RevokeAllStep, PollExpiryMoves, TickStep
<1> QED
  BY <1>1, <1>2, <1>3, <1>4, <1>5, <1>6, <1>7, <1>8 DEF GrantStep, GuardedGrantStep, FreeGrantStep

\* The methods on authority that take no guard spare what clients may view.
LEMMA FreeGrantStepSpares ==
    ASSUME BrokerInv, FreeGrantStep PROVE Spares(b', b)
<1>0. Good(b) /\ DOMAIN b = Fields
  BY DEF BrokerInv, Good, Shape
<1>1. ASSUME NEW c, AcceptConnection(c) PROVE Spares(b', b)
  <2>1. b' = [b EXCEPT !.principals = @ \cup {c}]
    BY <1>1 DEF AcceptConnection
  <2>2. b'.principals = b.principals \cup {c} /\ b'.grants = b.grants /\ b'.targets = b.targets
    BY <1>0, <2>1 DEF Fields
  <2> QED
    BY <2>2 DEF Spares, Current
<1>2. ASSUME NEW c, \/ \E t : RequestApproval(c, t)
                    \/ \E refs : RequestMetadataApproval(c, refs)
      PROVE  Spares(b', b)
  <2> DEFINE s == PollExpiry(b)
             m == Mint(s, "approval")
  <2>1. PICK k, p : b' = [m EXCEPT !.pending = @ \cup {p}, !.proposals[k] = @ + 1]
    BY <1>2 DEF RequestApproval, RequestMetadataApproval, RequestPending
  <2>2. Safe(s, b)
    BY <1>0, PollIsSafe
  <2> HIDE DEF s
  <2>3. Safe(m, s)
    BY <2>2, MintIsSafe DEF Safe, MintKinds
  <2> HIDE DEF m
  <2>4. b'.principals = m.principals /\ b'.grants = m.grants /\ b'.targets = m.targets
    BY <2>1, <2>3 DEF Safe, Good, Shape, Fields
  <2>5. Spares(b', m)
    BY <2>4 DEF Spares, Current
  <2> QED
    BY <2>2, <2>3, <2>5, SparesChain DEF Safe
<1>3. ASSUME NEW x, ForgetClosedTarget(x) PROVE Spares(b', b)
  <2>1. PICK mark : b' = [b EXCEPT !.targets = [y \in DOMAIN b.targets \ {x} |-> b.targets[y]],
                                   !.forgotten = mark]
    BY <1>3 DEF ForgetClosedTarget
  <2>2. /\ b'.principals = b.principals /\ b'.grants = b.grants
        /\ b'.targets = [y \in DOMAIN b.targets \ {x} |-> b.targets[y]]
    BY <1>0, <2>1 DEF Fields
  <2>3. ~b.targets[x].active
    BY <1>3 DEF ForgetClosedTarget
  <2>4. ASSUME NEW y \in DOMAIN b.targets, b.targets[y].active
        PROVE  y \in DOMAIN b'.targets /\ b'.targets[y] = b.targets[y]
    <3>1. y # x
      BY <2>3, <2>4, Zenon
    <3> QED
      BY <2>2, <3>1
  <2>5. Current(b) \subseteq Current(b')
    <3> SUFFICES ASSUME NEW ref \in Current(b) PROVE ref \in Current(b')
      OBVIOUS
    <3>1. PICK y \in DOMAIN b.targets : b.targets[y].active /\ ref = Ref(y, b.targets[y].generation)
      BY Zenon DEF Current
    <3>2. y \in DOMAIN b'.targets /\ b'.targets[y] = b.targets[y]
      BY <2>4, <3>1
    <3>3. b'.targets[y].active
      BY <3>1, <3>2, Zenon
    <3> QED
      BY <3>1, <3>2, <3>3, Zenon DEF Current
  <2> QED
    BY <2>2, <2>5 DEF Spares
<1>4. ASSUME NEW ref, HumanTakeover(ref) PROVE Spares(b', b)
  <2> DEFINE m == Mint(b, "ownership")
             slots == {<<g.connection, Ordinary>> :
                          g \in {g \in b.grants : g.slot = Ordinary /\ ref \in g.controls}}
             r == RevokeSlots(m, slots)
  <2>1. b' = [r EXCEPT !.targets[ref.session].epoch = m.minted.ownership,
                       !.targets[ref.session].writer = {}]
    BY <1>4 DEF HumanTakeover
  <2>2. Safe(m, b)
    BY <1>0, MintIsSafe DEF MintKinds
  <2> HIDE DEF m
  <2>3. ASSUME NEW g \in m.grants, <<g.connection, g.slot>> \in slots PROVE g.slot = Ordinary
    BY <2>3
  <2> HIDE DEF slots
  <2>4. Good(r) /\ Spares(r, m)
    BY <2>2, <2>3, RevokeIsGood, RevokedIsSpared DEF Safe
  <2> HIDE DEF r
  <2>5. /\ b'.principals = r.principals /\ b'.grants = r.grants
        /\ b'.targets = [r.targets EXCEPT ![ref.session].epoch = m.minted.ownership,
                                          ![ref.session].writer = {}]
    BY <2>1, <2>4 DEF Good, Shape, Fields
  <2>6. \A x \in DOMAIN r.targets : DOMAIN r.targets[x] = TargetFields
    BY <2>4 DEF Good, TargetsOK
  <2>7. SameReferences(b', r)
    BY <2>5, <2>6, SMTT(30) DEF SameReferences, TargetFields
  <2>8. Spares(b', r)
    BY <2>5, <2>7, SameIsSpared
  <2> QED
    BY <2>2, <2>4, <2>8, SparesChain DEF Safe
<1>5. ASSUME NEW p, RejectApproval(p) PROVE Spares(b', b)
  <2>1. b'.principals = b.principals /\ b'.grants = b.grants /\ b'.targets = b.targets
    BY <1>0, <1>5 DEF RejectApproval, Fields
  <2> QED
    BY <2>1 DEF Spares, Current
<1>6. CASE PollExpiryStep \/ Tick
  <2>1. CASE b' = b
    BY <2>1 DEF Spares
  <2>2. CASE b' = PollExpiry(b)
    BY <1>0, <2>2, PollIsSafe DEF Safe
  <2> QED
    BY <1>6, <2>1, <2>2 DEF PollExpiryStep, Tick
<1> QED
  BY <1>1, <1>2, <1>3, <1>4, <1>5, <1>6, Zenon DEF FreeGrantStep

\* The methods of runs, one by one.
LEMMA RunStepKeeps ==
    ASSUME BrokerInv, RunStep PROVE BrokerInv' /\ Steady(b', b) /\ Spares(b', b)
<1>1. ASSUME NEW c \in Connections, NEW spec \in RunSpecs,
             \/ \E parent \in {{}} \cup {{r} : r \in DOMAIN b.runs} : AdmitRun(c, Ordinary, parent, spec)
             \/ \E slot \in {g.slot : g \in b.grants} \ {Ordinary} : AdmitRun(c, slot, {}, spec)
             \/ \E id \in DOMAIN b.runs, key \in Keys :
                   StartWorkflow(c, id, key, spec) \/ RetryStart(c, id, key, spec)
      PROVE  BrokerInv' /\ Steady(b', b) /\ Spares(b', b)
  <2>1. ASSUME NEW slot, NEW parent, AdmitRun(c, slot, parent, spec) PROVE BrokerInv' /\ Steady(b', b) /\ Spares(b', b)
    BY <2>1, AdmitStep
  <2>2. ASSUME NEW id, NEW key, StartWorkflow(c, id, key, spec) PROVE BrokerInv' /\ Steady(b', b) /\ Spares(b', b)
    BY <2>2, StartStep
  <2>3. ASSUME NEW id, NEW key, RetryStart(c, id, key, spec) PROVE BrokerInv' /\ Steady(b', b) /\ Spares(b', b)
    BY <2>3, RetryStep
  <2> QED
    BY <1>1, <2>1, <2>2, <2>3, Zenon
<1>2. ASSUME NEW c \in Connections, NEW key \in Keys, CancelStart(c, key) PROVE BrokerInv' /\ Steady(b', b) /\ Spares(b', b)
  BY <1>2, CancelStartStep
<1>3. ASSUME NEW c \in Connections, NEW id, Status(c, id) \/ ForgetRun(c, id) \/ CancelRun(c, id)
      PROVE  BrokerInv' /\ Steady(b', b) /\ Spares(b', b)
  BY <1>3, StatusStep, ForgetRunStep, CancelRunStep
<1>4. ASSUME NEW id, NEW ref, PrepareLease(id, ref) PROVE BrokerInv' /\ Steady(b', b) /\ Spares(b', b)
  BY <1>4, PrepareLeaseStep
<1>5. ASSUME NEW id, NEW q, PrepareRequest(id, q) PROVE BrokerInv' /\ Steady(b', b) /\ Spares(b', b)
  BY <1>5, PrepareRequestStep
<1>6. ASSUME NEW id, NEW bad, Complete(id, bad) PROVE BrokerInv' /\ Steady(b', b) /\ Spares(b', b)
  BY <1>6, CompleteStep
<1>7. ASSUME NEW t, CommitLease(t) PROVE BrokerInv' /\ Steady(b', b) /\ Spares(b', b)
  BY <1>7, CommitLeaseStep
<1>8. ASSUME NEW q, CommitControl(q) \/ SettleRequest(q) \/ CompleteWithResult(q) PROVE BrokerInv' /\ Steady(b', b) /\ Spares(b', b)
  BY <1>8, CommitControlStep, SettleStep, CompleteWithResultStep
<1> QED
  BY <1>1, <1>2, <1>3, <1>4, <1>5, <1>6, <1>7, <1>8, Zenon DEF RunStep, GuardedRunStep, FreeRunStep

\* A stuttering step keeps the invariant.
LEMMA StutterKeeps == BrokerInv /\ UNCHANGED grantVars => BrokerInv'
BY DEF BrokerInv, grantVars

\* The inductive invariant of the broker's authority holds whatever the
\* clients, the user and the application do, runs included.
THEOREM BrokerInvariant == RunsSpec => []BrokerInv
<1>1. BrokerInv /\ [GrantStep \/ RunStep]_grantVars => BrokerInv'
  BY GrantStepKeeps, RunStepKeeps, StutterKeeps
<1> QED
  BY <1>1, BrokerStarts, PTL DEF RunsSpec

\* GrantInv: no authority names what is gone, neither a client, nor an
\* attachment that was replaced, closed or forgotten, nor an association that
\* was renewed, and a reference that has been closed never becomes current
\* again (attach_target, close_target, forget_closed_target, disconnect).
THEOREM AuthorityNamesLiveThings == RunsSpec => []GrantInv
<1>1. BrokerInv => GrantInv
  <2> SUFFICES ASSUME BrokerInv PROVE GrantInv
    OBVIOUS
  <2>1. /\ now \in 0 .. MaxTime /\ Shape(b) /\ TargetsOK(b) /\ GrantsOK(b) /\ RegistrationsOK(b) /\ LiveOK(b)
        /\ ClosedOK(b, closed)
    BY DEF BrokerInv, Good
  <2>2. GrantsNameLiveThings
    BY <2>1 DEF GrantsNameLiveThings, LiveOK
  <2>3. NoReferenceRecurs
    BY <2>1, ClosedIsNotCurrent DEF NoReferenceRecurs
  <2>4. Current(b) \subseteq Refs /\ closed \subseteq Refs
    BY <2>1, CurrentRefs DEF ClosedOK
  <2>5. GrantTypeOK
    BY <2>1, <2>4 DEF GrantTypeOK, Shape, TargetsOK, GrantsOK, RegistrationsOK
  <2> QED
    BY <2>2, <2>3, <2>5 DEF GrantInv
<1> QED
  BY <1>1, BrokerInvariant, PTL

\* PendingIsCurrent: what the user is asked to approve was asked against the
\* grants the client holds at this moment (request_pending,
\* discard_stale_proposals).
THEOREM ProposalsAreCurrent == RunsSpec => []PendingIsCurrent
<1>1. BrokerInv => PendingIsCurrent
  BY DEF BrokerInv, Good, PendingOK, PendingIsCurrent
<1> QED
  BY <1>1, BrokerInvariant, PTL

\* LiveGrantsAreConsented: a client that may type and read metadata holds a
\* consent to exactly the two grants it has, whichever was decided first and
\* whatever was revoked between (approve, approve_metadata,
\* approve_enrollment_metadata_grant, revoke_slot).
THEOREM GrantsAreConsentedTogether == RunsSpec => []LiveGrantsAreConsented
<1>1. BrokerInv => LiveGrantsAreConsented
  <2> SUFFICES ASSUME BrokerInv, NEW c \in Connections, NEW o \in SlotGrants(b, c, Ordinary), o.controls # {}
               PROVE  /\ \A m \in SlotGrants(b, c, Metadata) :
                            b.consent[c] = {<<o.epoch, m.epoch>>} /\ ValidateCrossClosure(o, m.sources)
                      /\ \A r \in {x \in b.registrations : x.connection = c} :
                            \A m \in SlotGrants(b, c, Enrollment(r.id, r.enrollment)) :
                                /\ r.consent = {[ordinary |-> o.epoch, metadata |-> m.epoch, sinks |-> o.controls]}
                                /\ ValidateCrossClosure(o, m.sources)
    BY DEF LiveGrantsAreConsented
  <2>1. o \in b.grants /\ o.connection = c /\ o.slot = Ordinary
    BY DEF SlotGrants, GrantsOf
  <2>2. ConsentOK(b)
    BY DEF BrokerInv, Good
  <2> QED
    BY <2>1, <2>2 DEF ConsentOK
<1> QED
  BY <1>1, BrokerInvariant, PTL

\* StandingDecisionSawTheGrant: comparing the revision number is enough for a
\* recorded decision to be about the ordinary grant its review showed
\* (check_enrollment_metadata_decision).
THEOREM DecisionsSawTheGrant == RunsSpec => []StandingDecisionSawTheGrant
<1>1. BrokerInv => StandingDecisionSawTheGrant
  <2> SUFFICES ASSUME BrokerInv, NEW r \in b.registrations, DecisionStands(r), NEW d \in r.decision
               PROVE  d.seen = {g.epoch : g \in SlotGrants(b, r.connection, Ordinary)}
    BY DEF StandingDecisionSawTheGrant
  <2>1. PICK e \in r.decision : e.revision = b.revisions[r.connection]["Ordinary"]
    BY DEF DecisionStands
  <2>2. d = e /\ Saw(b, r.connection, d)
    BY DEF BrokerInv, Good, DecisionsOK
  <2> QED
    BY <2>1, <2>2 DEF Saw
<1> QED
  BY <1>1, BrokerInvariant, PTL

\* The decision on the newest candidate, and nothing else, makes its association.
LEMMA NewestCandidateMakes ==
    ASSUME BrokerInv, NEW r0 \in b.registrations, NEW t \in tokens, ApproveControllerEnrollment(r0, t),
           NEW r \in b.registrations, NEW q \in b'.registrations, r.id = q.id, r.enrollment # q.enrollment
    PROVE  /\ t.kind = "enroll" /\ t.id = r.id /\ t.target = q.target
           /\ t.revision > r.enrollment
           /\ \A u \in tokens : (u.kind = "enroll" /\ u.id = r.id) => u.revision <= t.revision
<1> DEFINE m == Mint(b, "registration")
           cut == RevokeSlots(m, EnrollmentSlots(m, {r0}))
           old == CHOOSE x \in cut.registrations : x.id = r0.id
           new == [old EXCEPT !.revision = m.minted.registration, !.enrollment = m.minted.registration,
                              !.target = t.target, !.review = 0, !.decision = {}]
<1>1. /\ Good(b) /\ TokensOK(b, tokens) /\ b' = Update(cut, old, new)
      /\ t.kind = "enroll" /\ t.id = r0.id /\ r0.revision = t.revision
  BY DEF BrokerInv, ApproveControllerEnrollment, CandidateIsCurrent
<1>2. Good(m) /\ m.registrations = b.registrations
  BY <1>1, MintIsGood, MintKeeps DEF MintKinds
<1>a. r0 \in m.registrations
  BY <1>2
<1> HIDE DEF m
<1>3. Good(cut) /\ Weaker(cut, m) /\ \E y \in cut.registrations : y.id = r0.id
  <2>1. /\ Good(cut) /\ Weaker(cut, m)
        /\ \E y \in cut.registrations : y.id = r0.id
        /\ \A y \in cut.registrations : y.id = r0.id =>
              y.connection = r0.connection /\ y.enrollment = r0.enrollment /\ y.revision = r0.revision
        /\ \A g \in cut.grants : \A e : g.slot # Enrollment(r0.id, e)
    BY <1>2, <1>a, CutEnrollment, SMTT(30)
  <2> QED
    BY <2>1
<1> HIDE DEF cut
<1>4. old \in cut.registrations /\ old.id = r0.id
  BY <1>3
<1> HIDE DEF old
<1>5. new.id = r0.id /\ new.target = t.target
  BY <1>3, <1>4 DEF Good, RegistrationsOK, RegistrationFields
<1> HIDE DEF new
<1>6. b'.registrations = (cut.registrations \ {old}) \cup {new}
  BY <1>1, <1>3 DEF Update, Good, Shape, Fields
<1>7. q = new
  <2> SUFFICES ASSUME q \in cut.registrations PROVE FALSE
    BY <1>6
  <2>1. PICK y \in b.registrations : y.id = q.id /\ y.enrollment = q.enrollment
    BY <1>2, <1>3 DEF Weaker
  <2>2. y = r
    BY <1>1, <2>1 DEF Good, RegistrationsOK
  <2> QED
    BY <2>1, <2>2
<1>8. r = r0
  BY <1>1, <1>5, <1>7 DEF Good, RegistrationsOK
<1>9. \A u \in tokens : u.kind = "enroll" => CandidateOK(b, u)
  BY <1>1 DEF TokensOK
<1>10. t.revision = r.revision /\ r.enrollment < r.revision /\ r.enrollment \in Nat /\ r.revision \in Nat
  BY <1>1, <1>8, <1>9 DEF CandidateOK, Good, RegistrationsOK
<1>11. ASSUME NEW u \in tokens, u.kind = "enroll", u.id = r.id PROVE u.revision <= t.revision
  BY <1>9, <1>10, <1>11 DEF CandidateOK
<1> QED
  BY <1>1, <1>5, <1>7, <1>8, <1>10, <1>11

\* Where no association is made, none differs.
LEMMA SteadyAssociations ==
    ASSUME BrokerInv, SteadyEnrollments(b', b), NEW r \in b.registrations, NEW q \in b'.registrations,
           r.id = q.id
    PROVE  r.enrollment = q.enrollment
<1>1. RegistrationsOK(b) /\ b.minted.registration \in Nat
  BY DEF BrokerInv, Good, Shape, MintKinds
<1>2. r.id \in Nat /\ r.id <= b.minted.registration
  BY <1>1 DEF RegistrationsOK
<1>3. PICK y \in b.registrations : q.id = y.id /\ q.enrollment = y.enrollment
  BY <1>1, <1>2 DEF SteadyEnrollments
<1> QED
  BY <1>1, <1>3 DEF RegistrationsOK

\* NewestCandidateWins: an older review of an enrollment, or the same one
\* answered twice, never makes or replaces an association
\* (prepare_controller_enrollment, approve_controller_enrollment).
THEOREM LateReviewsChangeNothing == RunsSpec => NewestCandidateWins
<1> DEFINE A == \A r \in b.registrations, q \in b'.registrations :
                   (r.id = q.id /\ r.enrollment # q.enrollment) =>
                       \E t \in tokens :
                           /\ t.kind = "enroll" /\ t.id = r.id /\ t.target = q.target
                           /\ t.revision > r.enrollment
                           /\ \A u \in tokens : (u.kind = "enroll" /\ u.id = r.id) => u.revision <= t.revision
<1>1. ASSUME BrokerInv, SteadyEnrollments(b', b) PROVE A
  BY <1>1, SteadyAssociations
<1>2. ASSUME BrokerInv, NEW r0 \in b.registrations, NEW t0 \in tokens, ApproveControllerEnrollment(r0, t0)
      PROVE  A
  BY <1>2, NewestCandidateMakes
<1>3. ASSUME BrokerInv, NEW p, NEW l, NEW t, NEW h, Approve(p, t, h, l) PROVE A
  <2>1. SteadyEnrollments(b', b)
    BY <1>3, ApproveDecides, DecisionEffect, Zenon
  <2> QED
    BY <1>1, <1>3, <2>1
<1>4. ASSUME BrokerInv, GrantStep PROVE A
  <2>1. CASE Steady(b', b)
    BY <1>1, <1>4, <2>1 DEF Steady
  <2>2. CASE ~Steady(b', b)
    BY <1>2, <1>3, <1>4, <2>2, GrantStepIsSteady
  <2> QED
    BY <2>1, <2>2
<1>5. ASSUME BrokerInv, RunStep PROVE A
  BY <1>1, <1>5, RunStepKeeps DEF Steady
<1>6. BrokerInv /\ [GrantStep \/ RunStep]_grantVars => [A]_grantVars
  BY <1>4, <1>5
<1> QED
  BY <1>6, BrokerInvariant, PTL DEF RunsSpec, NewestCandidateWins

\* The control the user gives is of targets whose owner is the one reviewed.
LEMMA ApprovalFollowsReview ==
    ASSUME BrokerInv, NEW p, NEW t, NEW h, NEW l, Approve(p, t, h, l),
           NEW ref \in Resolve(PollExpiry(b), t).controls
    PROVE  /\ p \in b.pending
           /\ \E o \in p.ownership : o.ref = ref /\ o.epoch = b.targets[ref.session].epoch
<1> DEFINE s == PollExpiry(b)
           o == [ref |-> ref, epoch |-> s.targets[ref.session].epoch,
                 writer |-> s.targets[ref.session].writer]
<1>1. /\ p \in s.pending
      /\ OwnershipSnapshot(s, Resolve(s, t).controls) \subseteq p.ownership
  BY DEF Approve
<1>2. Good(b) /\ Good(s) /\ Weaker(s, b)
  BY PollEffect DEF BrokerInv, Polled
<1>3. o \in p.ownership
  BY <1>1 DEF OwnershipSnapshot
<1>4. ref \in Current(s)
  BY DEF Resolve
<1> HIDE DEF s
<1>5. ref.session \in DOMAIN s.targets
  BY <1>2, <1>4, CurrentRefs DEF Good
<1>6. s.targets[ref.session].epoch = b.targets[ref.session].epoch
  BY <1>2, <1>5 DEF Weaker, SameTargets, SameReferences
<1>7. o.ref = ref /\ o.epoch = b.targets[ref.session].epoch
  BY <1>6
<1> QED
  BY <1>1, <1>2, <1>3, <1>7 DEF Weaker

\* ControlFollowsReview: a decision that comes back after a takeover, a new
\* attachment or a lease gives no control of that target (approve compares the
\* ownership the proposal froze).
THEOREM ControlWasReviewed == RunsSpec => ControlFollowsReview
<1> DEFINE A == \A g \in b'.grants : \A ref \in g.controls :
                   \/ \E h \in b.grants : h.connection = g.connection /\ h.epoch = g.epoch /\ ref \in h.controls
                   \/ \E p \in b.pending : \E o \in p.ownership :
                         /\ p.connection = g.connection
                         /\ o.ref = ref /\ o.epoch = b.targets[ref.session].epoch
<1>1. ASSUME Steady(b', b) PROVE A
  <2> SUFFICES ASSUME NEW g \in b'.grants, NEW ref \in g.controls
               PROVE  \E h \in b.grants : h.connection = g.connection /\ h.epoch = g.epoch /\ ref \in h.controls
    OBVIOUS
  <2>1. PICK h \in b.grants : SameControl(g, h)
    BY <1>1 DEF Steady
  <2> QED
    BY <2>1 DEF SameControl
<1>2. ASSUME BrokerInv, NEW p, NEW l, NEW t, NEW h, Approve(p, t, h, l) PROVE A
  <2> SUFFICES ASSUME NEW g \in b'.grants, NEW ref \in g.controls
               PROVE  \/ \E k \in b.grants : k.connection = g.connection /\ k.epoch = g.epoch /\ ref \in k.controls
                      \/ \E q \in b.pending : \E o \in q.ownership :
                            /\ q.connection = g.connection
                            /\ o.ref = ref /\ o.epoch = b.targets[ref.session].epoch
    OBVIOUS
  <2>1. \/ \E k \in b.grants : SameControl(g, k)
        \/ g.connection = p.connection /\ g.controls = Resolve(PollExpiry(b), t).controls
    <3>1. PICK new, x : Decides(PollExpiry(b), p.connection, Ordinary, Resolve(PollExpiry(b), t), h, l, new, x)
      BY <1>2, ApproveDecides, Zenon
    <3>2. \A k \in b'.grants :
             \/ \E y \in b.grants : SameControl(k, y)
             \/ k.connection = p.connection /\ k.controls = Resolve(PollExpiry(b), t).controls
      BY <1>2, <3>1, DecisionEffect, ZenonT(40)
    <3> QED
      BY <3>2, Zenon
  <2>2. CASE \E k \in b.grants : SameControl(g, k)
    BY <2>2 DEF SameControl
  <2>3. CASE g.connection = p.connection /\ g.controls = Resolve(PollExpiry(b), t).controls
    BY <1>2, <2>3, ApprovalFollowsReview
  <2> QED
    BY <2>1, <2>2, <2>3
<1>3. ASSUME BrokerInv, NEW r \in b.registrations, NEW t, ApproveControllerEnrollment(r, t) PROVE A
  <2> DEFINE m == Mint(b, "registration")
             cut == RevokeSlots(m, EnrollmentSlots(m, {r}))
  <2>1. PICK old, new : b' = Update(cut, old, new)
    BY <1>3 DEF ApproveControllerEnrollment
  <2>2. Good(m) /\ m.grants = b.grants
    BY <1>3, MintIsGood, MintKeeps DEF MintKinds, BrokerInv
  <2> HIDE DEF m
  <2>3. Good(cut) /\ Weaker(cut, m)
    BY <2>2, RevokeIsGood, RevokeIsWeaker
  <2> HIDE DEF cut
  <2>4. b'.grants = cut.grants
    BY <2>1, <2>3 DEF Update, Good, Shape, Fields
  <2>5. b'.grants \subseteq b.grants
    BY <2>2, <2>3, <2>4 DEF Weaker
  <2> QED
    BY <2>5
<1>4. ASSUME BrokerInv, GrantStep PROVE A
  <2>1. CASE Steady(b', b)
    BY <1>1, <2>1
  <2>2. CASE ~Steady(b', b)
    BY <1>2, <1>3, <1>4, <2>2, GrantStepIsSteady
  <2> QED
    BY <2>1, <2>2
<1>5. ASSUME BrokerInv, RunStep PROVE A
  BY <1>1, <1>5, RunStepKeeps
<1>6. BrokerInv /\ [GrantStep \/ RunStep]_grantVars => [A]_grantVars
  BY <1>4, <1>5
<1> QED
  BY <1>6, BrokerInvariant, PTL DEF RunsSpec, ControlFollowsReview
=============================================================================
