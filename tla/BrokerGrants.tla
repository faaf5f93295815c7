---------------------------- MODULE BrokerGrants ----------------------------
(***************************************************************************)
(* The broker's authority: connections, targets, proposals and the native  *)
(* decisions that turn them into grants, controller registrations with     *)
(* their enrollments, revocation, expiry and human takeover.               *)
(*                                                                         *)
(* A native decision takes a while: the application freezes what the user  *)
(* is shown (a token), the user decides, and the decision comes back after *)
(* any number of other broker calls.  tokens holds every token handed out; *)
(* a token is never taken away, so a decision may arrive at any time.      *)
(***************************************************************************)
EXTENDS Broker

CONSTANTS
    Locals,                \* local ids a client may register
    MaxGeneration,         \* last attachment generation the application uses
    GrantRequests,         \* scopes a client may ask for, over session numbers
    PendingPerConnection,  \* proposals a connection may have pending (2)
    ProposalsPerConnection,\* proposals in a connection's lifetime (8)
    Registrations,         \* Limits::controller_registrations_per_connection
    MaxRegistrationMints,  \* bound on registration, enrollment and review ids
    MaxOwnershipMints      \* bound on attachments, takeovers and leases

ASSUME GrantAssumption ==
    MaxGeneration \in Nat /\ ProposalsPerConnection \in Nat

VARIABLES tokens,   \* what the application has frozen for native decisions
          closed    \* history: the references that have stopped being current

grantVars == <<b, now, tokens, closed>>

\* The same step for the broker alone.
Keep == UNCHANGED <<now, tokens, closed>>

-----------------------------------------------------------------------------
(* Connections and targets. *)

AcceptConnection(c) ==
    /\ c \notin b.principals \cup b.retired
    /\ b' = [b EXCEPT !.principals = @ \cup {c}]
    /\ Keep

\* disconnect of a broker value; BrokerRuns calls it too.
Disconnected(s, c) ==
    LET cut == Revoke(s, c)
    IN  [cut EXCEPT !.principals = @ \ {c},
                    !.retired = @ \cup {c},
                    !.registrations = {r \in @ : r.connection # c},
                    !.runs = [r \in {x \in DOMAIN @ : @[x].connection # c} |-> @[r]],
                    !.starts = {x \in @ : x.connection # c}]

Disconnect(c) ==
    /\ c \in b.principals
    /\ b' = Disconnected(b, c)
    /\ Keep

\* Generations strictly increase, across forgetting too.
AttachTarget(x, generation) ==
    LET s == Mint(b, "ownership")
        old == IF x \in DOMAIN b.targets THEN {Ref(x, b.targets[x].generation)} ELSE {}
        base == IF old = {} THEN s ELSE InvalidateTarget(s, Ref(x, b.targets[x].generation))
        fresh == [generation |-> generation, active |-> TRUE,
                  epoch |-> s.minted.ownership, writer |-> {}]
    IN  /\ b.minted.ownership < MaxOwnershipMints
        /\ IF old # {} THEN generation > b.targets[x].generation
                       ELSE generation > b.forgotten
        /\ b' = [base EXCEPT !.targets = [y \in DOMAIN @ \cup {x} |->
                                              IF y = x THEN fresh ELSE @[y]]]
        /\ closed' = closed \cup old
        /\ UNCHANGED <<now, tokens>>

CloseTarget(ref) ==
    /\ ref \in Current(b)
    /\ b' = [InvalidateTarget(b, ref) EXCEPT !.targets[ref.session].active = FALSE,
                                             !.targets[ref.session].writer = {}]
    /\ closed' = closed \cup {ref}
    /\ UNCHANGED <<now, tokens>>

\* The slot is freed; the high-water mark remembers the generation.
ForgetClosedTarget(x) ==
    /\ x \in DOMAIN b.targets /\ ~b.targets[x].active
    /\ b' = [b EXCEPT !.targets = [y \in DOMAIN @ \ {x} |-> @[y]],
                      !.forgotten = IF @ > b.targets[x].generation
                                    THEN @ ELSE b.targets[x].generation]
    /\ Keep

\* The human types: control of the target ends everywhere first.
HumanTakeover(ref) ==
    /\ ref \in Current(b) /\ b.minted.ownership < MaxOwnershipMints
    /\ LET s == Mint(b, "ownership")
           holders == {g \in b.grants : g.slot = Ordinary /\ ref \in g.controls}
       IN  b' = [RevokeSlots(s, {<<g.connection, Ordinary>> : g \in holders})
                   EXCEPT !.targets[ref.session].epoch = s.minted.ownership,
                          !.targets[ref.session].writer = {}]
    /\ Keep

-----------------------------------------------------------------------------
(* Proposals. *)

\* A requested scope, over the references current at the moment of asking.
Resolve(s, t) ==
    [controls |-> {r \in Current(s) : r.session \in t.controls},
     sources  |-> {r \in Current(s) : r.session \in t.sources},
     bindings |-> t.bindings, invoke |-> t.invoke, results |-> t.results]

NoScope == [controls |-> {}, sources |-> {}, bindings |-> {}, invoke |-> FALSE, results |-> FALSE]

SubsetOf(small, large) ==
    /\ small.controls \subseteq large.controls
    /\ small.sources \subseteq large.sources
    /\ small.bindings \subseteq large.bindings
    /\ small.invoke => large.invoke
    /\ small.results => large.results

\* A proposal within the quotas.  seen is history: the grants the client held.
Pending(s, c, slot, scope, snapshot) ==
    [id |-> s.minted.approval + 1, connection |-> c, slot |-> slot,
     controls |-> scope.controls, sources |-> scope.sources, bindings |-> scope.bindings,
     invoke |-> scope.invoke, results |-> scope.results,
     expires |-> now + GrantLifetime, ownership |-> snapshot,
     revisions |-> s.revisions[c],
     seen |-> {g.epoch : g \in GrantsOf(s, c)}]

MayPropose(s, c) ==
    /\ c \in s.principals
    /\ Cardinality({p \in s.pending : p.connection = c}) < PendingPerConnection
    /\ s.proposals[c] < ProposalsPerConnection

RequestPending(s, c, p) ==
    [Mint(s, "approval") EXCEPT !.pending = @ \cup {p}, !.proposals[c] = @ + 1]

RequestApproval(c, t) ==
    LET s == PollExpiry(b)
        scope == Resolve(s, t)
    IN  /\ MayPropose(s, c)
        /\ t.controls \cup t.sources \subseteq {r.session : r \in Current(s)}
        /\ t.bindings # {}
        /\ b' = RequestPending(s, c, Pending(s, c, Ordinary, scope,
                                             OwnershipSnapshot(s, scope.controls)))
        /\ Keep

RequestMetadataApproval(c, refs) ==
    LET s == PollExpiry(b)
    IN  /\ MayPropose(s, c)
        /\ refs # {} /\ refs \subseteq Current(s)
        /\ b' = RequestPending(s, c, Pending(s, c, Metadata, [NoScope EXCEPT !.sources = refs],
                                             OwnershipSnapshot(s, Controls(s, c))))
        /\ Keep

\* The proposal returned is also the token of the native decision.
RequestEnrollmentMetadataApproval(r) ==
    LET s == PollExpiry(b)
        p == Pending(s, r.connection, Enrollment(r.id, r.enrollment),
                     [NoScope EXCEPT !.sources = {r.target}],
                     OwnershipSnapshot(s, Controls(s, r.connection)))
    IN  /\ r.enrollment # 0 /\ r.target \in Current(s)
        /\ MayPropose(s, r.connection)
        /\ b' = RequestPending(s, r.connection, p)
        /\ tokens' = tokens \cup
              {[kind |-> "grant", id |-> p.id, controls |-> Controls(s, r.connection),
                control |-> {g.epoch : g \in {x \in SlotGrants(s, r.connection, Ordinary) :
                                                 x.controls # {}}}]}
        /\ UNCHANGED <<now, closed>>

RejectApproval(p) ==
    /\ b' = [b EXCEPT !.pending = @ \ {p}]
    /\ Keep

-----------------------------------------------------------------------------
(* Native decisions on proposals. *)

\* Replace the slot's grant; a client without any grant starts a new allowance.
Install(s, c, slot, scope, handoffs, lifetime) ==
    LET m == Mint(s, "grant")
        cleared == RevokeSlot(m, c, slot)
    IN  [cleared EXCEPT
          !.usage[c] = IF GrantsOf(cleared, c) = {} THEN 0 ELSE @,
          !.revisions[c][slot[1]] = @ + 1,
          !.grants = @ \cup
             {[connection |-> c, slot |-> slot, epoch |-> m.minted.grant,
               controls |-> scope.controls, sources |-> scope.sources,
               bindings |-> scope.bindings, invoke |-> scope.invoke, results |-> scope.results,
               handoffs |-> handoffs, expires |-> now + lifetime, usage |-> 0]}]

\* Mutant of EnrollmentMetadataSources: an ordinary decision ignores the
\* enrollment grants.
EnrollmentMetadataSources_None(s, c) == {}

\* The enrollment grants of a connection, as a native review shows them.
EnrollmentMetadataSources(s, c) ==
    UNION {{[id |-> r.id, enrollment |-> r.enrollment, target |-> r.target, epoch |-> g.epoch] :
               g \in SlotGrants(s, c, Enrollment(r.id, r.enrollment))} :
           r \in {x \in s.registrations : x.connection = c /\ x.enrollment # 0}}

PrepareOrdinaryEnrollmentReview(p, sinks) ==
    /\ p.slot = Ordinary
    /\ sinks \subseteq p.controls
    /\ now < p.expires /\ p.revisions = b.revisions[p.connection]
    /\ \A g \in GrantsOf(b, p.connection) : g.slot[1] = "Enrollment" => now < g.expires
    /\ tokens' = tokens \cup
          {[kind |-> "ordinary", id |-> p.id, revisions |-> p.revisions,
            epoch |-> {g.epoch : g \in SlotGrants(b, p.connection, Ordinary)},
            sources |-> EnrollmentMetadataSources(b, p.connection), sinks |-> sinks]}
    /\ UNCHANGED <<b, now, closed>>

\* The review the decision carries is of exactly what holds now; a decision
\* without one is good only where no enrollment metadata reaches a sink.
ReviewedEnrollments(s, p, scope) ==
    \/ \E t \in tokens :
          /\ t.kind = "ordinary" /\ t.id = p.id
          /\ t.revisions = p.revisions
          /\ t.epoch = {g.epoch : g \in SlotGrants(s, p.connection, Ordinary)}
          /\ t.sources = EnrollmentMetadataSources(s, p.connection)
          /\ t.sinks = scope.controls
    \/ scope.controls = {} \/ EnrollmentMetadataSources(s, p.connection) = {}

Approve(p, t, handoffs, lifetime) ==
    LET s       == PollExpiry(b)
        c       == p.connection
        scope   == Resolve(s, t)
        grant   == [controls |-> scope.controls, sources |-> scope.sources, handoffs |-> handoffs]
        meta    == SlotGrants(s, c, Metadata)
        sources == EnrollmentMetadataSources(s, c)
        new     == Install(s, c, Ordinary, scope, handoffs, lifetime)
        epoch   == new.minted.grant
    IN  /\ p \in s.pending /\ p.slot = Ordinary
        /\ SubsetOf(scope, p) /\ scope.bindings # {}
        /\ p.revisions = s.revisions[c]
        /\ GrantTargets(scope) \subseteq Current(s)
        /\ OwnershipSnapshot(s, scope.controls) \subseteq p.ownership
        /\ ValidateClosure(scope.sources, scope.controls, handoffs)
        /\ \A m \in meta : m.sources \subseteq Current(s) /\ ValidateCrossClosure(grant, m.sources)
        /\ ReviewedEnrollments(s, p, scope)
        /\ ValidateCrossClosure(grant, {x.target : x \in sources})
        /\ b' = DiscardStaleProposals(
                  [new EXCEPT
                    !.registrations = {IF scope.controls = {} \/ r.connection # c THEN r
                                       ELSE [r EXCEPT !.consent =
                                               {[ordinary |-> epoch, metadata |-> x.epoch,
                                                 sinks |-> scope.controls] :
                                                    x \in {y \in sources : y.id = r.id}}] : r \in @},
                    !.consent[c] = IF scope.controls = {} THEN {}
                                   ELSE {<<epoch, m.epoch>> : m \in meta}], {c})
        /\ Keep

\* The user acknowledges the metadata at every control sink of the client.
ApproveMetadata(p, refs, lifetime) ==
    LET s == PollExpiry(b)
        c == p.connection
        ordinary == SlotGrants(s, c, Ordinary)
        new == Install(s, c, Metadata, [NoScope EXCEPT !.sources = refs], {}, lifetime)
    IN  /\ p \in s.pending /\ p.slot = Metadata
        /\ refs # {} /\ refs \subseteq p.sources /\ refs \subseteq Current(s)
        /\ p.revisions = s.revisions[c]
        /\ p.ownership = OwnershipSnapshot(s, Controls(s, c))
        /\ \A o \in ordinary : ValidateCrossClosure(o, refs)
        /\ b' = DiscardStaleProposals(
                  [new EXCEPT !.consent[c] =
                      {<<o.epoch, new.minted.grant>> : o \in {g \in ordinary : g.controls # {}}}], {c})
        /\ Keep

ApproveEnrollmentMetadataGrant(p, lifetime) ==
    LET s == PollExpiry(b)
        c == p.connection
        controls == Controls(s, c)
        ordinary == SlotGrants(s, c, Ordinary)
        new == Install(s, c, p.slot, [NoScope EXCEPT !.sources = p.sources], {}, lifetime)
    IN  /\ p \in s.pending /\ p.slot[1] = "Enrollment"
        /\ p.revisions = s.revisions[c]
        /\ \E r \in Enrolled(s, c, p.slot) : p.sources = {r.target}
        /\ \E t \in tokens :
              /\ t.kind = "grant" /\ t.id = p.id
              /\ t.controls = controls
              /\ t.control = {g.epoch : g \in {x \in ordinary : x.controls # {}}}
        /\ p.ownership = OwnershipSnapshot(s, controls)
        /\ \A o \in ordinary : ValidateCrossClosure(o, p.sources)
        /\ b' = DiscardStaleProposals(
                  [new EXCEPT !.registrations =
                      {IF r.connection # c \/ Enrollment(r.id, r.enrollment) # p.slot THEN r
                       ELSE [r EXCEPT !.consent =
                               {[ordinary |-> o.epoch, metadata |-> new.minted.grant,
                                 sinks |-> controls] : o \in {g \in ordinary : g.controls # {}}}]
                       : r \in @}], {c})
        /\ Keep

-----------------------------------------------------------------------------
(* Controller registrations and enrollments. *)

NoRef == [session |-> "none", generation |-> 0]

MayMint == b.minted.registration < MaxRegistrationMints

\* Replace one registration by another.
Update(s, old, new) == [s EXCEPT !.registrations = (@ \ {old}) \cup {new}]

\* Registering the same bytes again returns the existing id.
RegisterControllerSession(c, local) ==
    LET s == Mint(b, "registration")
        mine == {r \in b.registrations : r.connection = c}
    IN  /\ c \in b.principals /\ MayMint
        /\ \A r \in mine : r.local # local
        /\ Cardinality(mine) < Registrations
        /\ b' = [s EXCEPT !.registrations = @ \cup
                    {[connection |-> c, local |-> local, id |-> s.minted.registration,
                      revision |-> s.minted.registration, enrollment |-> 0, target |-> NoRef,
                      review |-> 0, decision |-> {}, consent |-> {}]}]
        /\ Keep

\* A new candidate supersedes the older ones, even when its target is stale.
PrepareControllerEnrollment(r, ref) ==
    LET s == Mint(b, "registration")
        revision == s.minted.registration
    IN  /\ MayMint
        /\ b' = Update(s, r, [r EXCEPT !.revision = revision])
        /\ tokens' = IF ref \in Current(b)
                     THEN tokens \cup {[kind |-> "enroll", id |-> r.id, connection |-> r.connection,
                                        target |-> ref, revision |-> revision]}
                     ELSE tokens
        /\ UNCHANGED <<now, closed>>

\* Mutant of CandidateIsCurrent: an older candidate is accepted.
CandidateIsCurrent_AnyRevision(r, t) ==
    /\ t.kind = "enroll" /\ t.id = r.id /\ t.connection = r.connection
    /\ t.target \in Current(b)

\* The candidate is the newest of its registration and its target is attached.
CandidateIsCurrent(r, t) ==
    /\ t.kind = "enroll" /\ t.id = r.id /\ t.connection = r.connection
    /\ r.revision = t.revision
    /\ t.target \in Current(b)

ApproveControllerEnrollment(r, t) ==
    LET s == Mint(b, "registration")
        cut == RevokeSlots(s, EnrollmentSlots(s, {r}))
        old == CHOOSE x \in cut.registrations : x.id = r.id
    IN  /\ MayMint /\ CandidateIsCurrent(r, t)
        /\ b' = Update(cut, old, [old EXCEPT !.revision = s.minted.registration,
                                             !.enrollment = s.minted.registration,
                                             !.target = t.target,
                                             !.review = 0, !.decision = {}])
        /\ Keep

UnregisterControllerSession(r) ==
    LET cut == RevokeSlots(b, EnrollmentSlots(b, {r}))
    IN  /\ b' = [cut EXCEPT !.registrations = {x \in @ : x.id # r.id}]
        /\ Keep

\* A review freezes the enrollment and the client's control closure.  seen is
\* history: the ordinary grant the user was shown.
PrepareEnrollmentMetadataReview(r) ==
    LET p == PollExpiry(b)
        s == Mint(p, "registration")
        current == CHOOSE x \in p.registrations : x.id = r.id
        controls == Controls(p, r.connection)
    IN  /\ MayMint
        /\ r.enrollment # 0 /\ r.target \in Current(p)
        /\ b' = Update(s, current, [current EXCEPT !.review = s.minted.registration])
        /\ tokens' = tokens \cup
              {[kind |-> "review", id |-> r.id, connection |-> r.connection,
                enrollment |-> r.enrollment, target |-> r.target,
                review |-> s.minted.registration,
                revision |-> p.revisions[r.connection]["Ordinary"],
                ownership |-> OwnershipSnapshot(p, controls), expires |-> now + GrantLifetime,
                seen |-> {g.epoch : g \in SlotGrants(p, r.connection, Ordinary)}]}
        /\ UNCHANGED <<now, closed>>

CancelEnrollmentMetadataReview(r) ==
    /\ r.review # 0
    /\ b' = Update(b, r, [r EXCEPT !.review = 0])
    /\ Keep

ApproveEnrollmentMetadataReview(t, lifetime) ==
    LET s == PollExpiry(b)
        c == t.connection
        controls == {o.ref : o \in t.ownership}
    IN  /\ t.kind = "review" /\ now < t.expires
        /\ \E r \in s.registrations :
              /\ r.id = t.id /\ r.enrollment = t.enrollment /\ r.target = t.target
              /\ r.target \in Current(s)
              /\ r.review = t.review
              /\ s.revisions[c]["Ordinary"] = t.revision
              /\ controls \subseteq Current(s)
              /\ OwnershipSnapshot(s, controls) = t.ownership
              /\ \A o \in SlotGrants(s, c, Ordinary) : ValidateCrossClosure(o, {t.target})
              /\ b' = Update(s, r, [r EXCEPT !.review = 0,
                                             !.decision = {[enrollment |-> r.enrollment,
                                                            revision |-> t.revision,
                                                            expires |-> now + lifetime,
                                                            seen |-> t.seen]}])
        /\ Keep

RevokeEnrollmentMetadataDecision(r) ==
    /\ r.review # 0 \/ r.decision # {}
    /\ b' = Update(b, r, [r EXCEPT !.review = 0, !.decision = {}])
    /\ Keep

\* Mutant of DecisionStands: the revision of the ordinary slot is not compared.
DecisionStands_AnyRevision(r) ==
    /\ r.enrollment # 0 /\ r.target \in Current(b)
    /\ \E d \in r.decision : d.enrollment = r.enrollment /\ now < d.expires
    /\ \A g \in SlotGrants(b, r.connection, Ordinary) : now < g.expires

\* check_enrollment_metadata_decision: the decision still stands.
DecisionStands(r) ==
    /\ r.enrollment # 0 /\ r.target \in Current(b)
    /\ \E d \in r.decision :
          /\ d.enrollment = r.enrollment
          /\ d.revision = b.revisions[r.connection]["Ordinary"]
          /\ now < d.expires
    /\ \A g \in SlotGrants(b, r.connection, Ordinary) : now < g.expires

-----------------------------------------------------------------------------
(* Revocation, expiry and time. *)

RevokeOrdinary(c) == c \in b.principals /\ b' = RevokeSlot(b, c, Ordinary) /\ Keep
RevokeMetadata(c) == c \in b.principals /\ b' = RevokeSlot(b, c, Metadata) /\ Keep
RevokeConnection(c) == c \in b.principals /\ b' = Revoke(b, c) /\ Keep

RevokeEnrollmentMetadataGrant(r) ==
    /\ r.enrollment # 0 /\ r.target \in Current(b)
    /\ b' = RevokeSlot(b, r.connection, Enrollment(r.id, r.enrollment))
    /\ Keep

\* Lock, suspend or loss of privacy: every client loses everything at once.
RevokeAll ==
    LET slots == {<<c, slot>> : c \in b.principals, slot \in {Ordinary, Metadata}}
                    \cup EnrollmentSlots(b, b.registrations)
    IN  /\ b' = [RevokeSlots(b, slots) EXCEPT !.registrations = {}, !.pending = {}]
        /\ Keep

PollExpiryStep == b' = PollExpiry(b) /\ Keep

Tick == now < MaxTime /\ now' = now + 1 /\ UNCHANGED <<b, tokens, closed>>

GrantInit == b = EmptyBroker /\ now = 0 /\ tokens = {} /\ closed = {}

Lifetimes == 1 .. GrantLifetime

\* The sources the user lets flow to the sinks: none, or all that were asked.
Handoffs(p, t) == IF t.controls = {} THEN {{}} ELSE {{}, p.sources}

\* The calls that take the admission guard: whatever withdraws or replaces
\* authority from outside, and every native decision.
GuardedGrantStep ==
    \/ \E c \in Connections :
          \/ Disconnect(c) \/ RevokeOrdinary(c) \/ RevokeMetadata(c) \/ RevokeConnection(c)
          \/ \E local \in Locals : RegisterControllerSession(c, local)
    \/ \E x \in Sessions : \E g \in 1 .. MaxGeneration : AttachTarget(x, g)
    \/ \E ref \in Current(b) : CloseTarget(ref)
    \/ \E p \in b.pending :
          \/ \E sinks \in SUBSET p.controls : PrepareOrdinaryEnrollmentReview(p, sinks)
          \/ \E l \in Lifetimes :
                \/ \E t \in GrantRequests : \E h \in Handoffs(p, t) : Approve(p, t, h, l)
                \/ \E refs \in SUBSET p.sources : ApproveMetadata(p, refs, l)
                \/ ApproveEnrollmentMetadataGrant(p, l)
    \/ \E r \in b.registrations :
          \/ \E ref \in Current(b) \cup closed : PrepareControllerEnrollment(r, ref)
          \/ \E t \in tokens : ApproveControllerEnrollment(r, t)
          \/ UnregisterControllerSession(r)
          \/ RequestEnrollmentMetadataApproval(r)
          \/ PrepareEnrollmentMetadataReview(r) \/ CancelEnrollmentMetadataReview(r)
          \/ RevokeEnrollmentMetadataDecision(r) \/ RevokeEnrollmentMetadataGrant(r)
    \/ \E t \in tokens, l \in Lifetimes : ApproveEnrollmentMetadataReview(t, l)
    \/ RevokeAll

\* The calls without one, human_takeover and poll_expiry among them, and time.
FreeGrantStep ==
    \/ \E c \in Connections :
          \/ AcceptConnection(c)
          \/ \E t \in GrantRequests : RequestApproval(c, t)
          \/ \E refs \in SUBSET Current(b) : RequestMetadataApproval(c, refs)
    \/ \E x \in Sessions : ForgetClosedTarget(x)
    \/ \E ref \in Current(b) : HumanTakeover(ref)
    \/ \E p \in b.pending : RejectApproval(p)
    \/ PollExpiryStep \/ Tick

GrantStep == GuardedGrantStep \/ FreeGrantStep

GrantSpec == GrantInit /\ [][GrantStep]_grantVars

-----------------------------------------------------------------------------
(* Properties. *)

Refs == [session : Sessions, generation : 1 .. MaxGeneration]

\* Types of the broker's authority state.
GrantTypeOK ==
    /\ now \in 0 .. MaxTime
    /\ b.principals \subseteq Connections /\ b.retired \subseteq Connections
    /\ DOMAIN b.targets \subseteq Sessions
    /\ b.forgotten \in 0 .. MaxGeneration
    /\ Current(b) \subseteq Refs /\ closed \subseteq Refs
    /\ \A c \in Connections : b.proposals[c] \in 0 .. ProposalsPerConnection
    /\ \A g, h \in b.grants : (g.connection = h.connection /\ g.slot = h.slot) => g = h
    /\ \A r, q \in b.registrations : r.id = q.id => r = q

\* A proposal that can still be approved was made against the authority its
\* client holds now: no grant of the client came, went or was replaced since,
\* and every target it names is still attached.  request_pending records the
\* revisions; every path that changes a grant has to move them or drop the
\* proposal, or the user would decide on a stale picture.
PendingIsCurrent ==
    \A p \in b.pending :
        /\ p.connection \in b.principals
        /\ p.seen = {g.epoch : g \in GrantsOf(b, p.connection)}
        /\ GrantTargets(p) \subseteq Current(b)

\* Whatever order the decisions came in, a client that can type into a target
\* and read metadata of another holds a consent to exactly that pair of grants,
\* and the sources may flow to the sinks: validate_live_cross_closure never
\* finds a live pair that nobody agreed to.
LiveGrantsAreConsented ==
    \A c \in Connections : \A o \in SlotGrants(b, c, Ordinary) : o.controls # {} =>
        /\ \A m \in SlotGrants(b, c, Metadata) :
              b.consent[c] = {<<o.epoch, m.epoch>>} /\ ValidateCrossClosure(o, m.sources)
        /\ \A r \in {x \in b.registrations : x.connection = c} :
              \A m \in SlotGrants(b, c, Enrollment(r.id, r.enrollment)) :
                  /\ r.consent = {[ordinary |-> o.epoch, metadata |-> m.epoch, sinks |-> o.controls]}
                  /\ ValidateCrossClosure(o, m.sources)

\* A grant never outlives what it was given for: its connection is open, its
\* targets are attached, and an enrollment's grant covers the target of an
\* association that still exists under the same ids.
GrantsNameLiveThings ==
    \A g \in b.grants :
        /\ g.connection \in b.principals
        /\ GrantTargets(g) \subseteq Current(b)
        /\ g.slot[1] = "Enrollment" =>
              \E r \in Enrolled(b, g.connection, g.slot) : g.sources = {r.target}

\* A reference that has stopped being current never becomes current again,
\* through reattachment, closing or forgetting the tombstone (attach_target,
\* forget_closed_target).
NoReferenceRecurs == Current(b) \cap closed = {}

\* Types, and that authority never names what is gone: neither a grant, nor, by
\* a number that is used again, a reference.
GrantInv == GrantTypeOK /\ GrantsNameLiveThings /\ NoReferenceRecurs

\* A decision recorded for an enrollment stands only while the ordinary grant
\* is the one its review showed (check_enrollment_metadata_decision compares
\* a revision number, not the grant).
StandingDecisionSawTheGrant ==
    \A r \in b.registrations :
        DecisionStands(r) =>
            \A d \in r.decision : d.seen = {g.epoch : g \in SlotGrants(b, r.connection, Ordinary)}

\* Control of a target is granted only if no takeover, attachment or lease has
\* changed its owner between the proposal and the decision: a client that may
\* type into it under a grant it did not have before was reviewed for it.
ControlFollowsReview ==
    [][\A g \in b'.grants : \A ref \in g.controls :
          \/ \E h \in b.grants : h.connection = g.connection /\ h.epoch = g.epoch /\ ref \in h.controls
          \/ \E p \in b.pending : \E o \in p.ownership :
                /\ p.connection = g.connection
                /\ o.ref = ref /\ o.epoch = b.targets[ref.session].epoch]_grantVars

\* An association is only ever made by the decision on the newest candidate of
\* its registration, one that was shown after the association it replaces: an
\* older review that comes back late, or comes back twice, changes nothing.
NewestCandidateWins ==
    [][\A r \in b.registrations, q \in b'.registrations :
          (r.id = q.id /\ r.enrollment # q.enrollment) =>
              \E t \in tokens :
                  /\ t.kind = "enroll" /\ t.id = r.id /\ t.target = q.target
                  /\ t.revision > r.enrollment
                  /\ \A u \in tokens : (u.kind = "enroll" /\ u.id = r.id) => u.revision <= t.revision]_grantVars
=============================================================================
