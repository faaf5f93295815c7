------------------------------- MODULE Broker -------------------------------
(***************************************************************************)
(* State and internal steps of the automation broker, the single-threaded  *)
(* kernel that decides what a paired client may see and type.              *)
(*                                                                         *)
(* The application's controller thread owns one Broker value, so a public  *)
(* method is one atomic step.  Most methods chain several internal ones    *)
(* (expire, revoke, cut, charge); those are operators from one broker      *)
(* record to the next, and BrokerGrants and BrokerRuns chain them as the   *)
(* methods do.  A method that returns an error after its leading           *)
(* poll_expiry changes nothing else, so a refused call is the same step as *)
(* BrokerGrants!PollExpiryStep; the refusals that do leave a mark have     *)
(* actions of their own.                                                   *)
(*                                                                         *)
(* Identifiers are minted per kind rather than from the one u64 counter    *)
(* mint() increments: two kinds are never compared.  A Rust Option is a    *)
(* set of at most one element, and a Rust map is a set of records or a     *)
(* function on the present keys.                                           *)
(***************************************************************************)
EXTENDS Naturals, FiniteSets

CONSTANTS
    Connections,    \* the identities accept_connection may hand out
    Sessions,       \* session numbers a target may have
    MaxTime,        \* last instant of the model's clock
    GrantLifetime,  \* MAX_GRANT_LIFETIME
    Budget,         \* operations of Budget::default()
    GlobalBudget    \* Limits::global_operations

ASSUME BrokerAssumption ==
    /\ MaxTime \in Nat /\ GrantLifetime \in Nat /\ Budget \in Nat /\ GlobalBudget \in Nat
    /\ Connections # {} /\ Sessions # {}

VARIABLES b,    \* the Broker value
          now   \* Instant::now()

-----------------------------------------------------------------------------
\* The slot a grant, proposal or run belongs to.
Ordinary == <<"Ordinary", 0, 0>>
Metadata == <<"Metadata", 0, 0>>
Enrollment(registration, enrollment) == <<"Enrollment", registration, enrollment>>
SlotKinds == {"Ordinary", "Metadata", "Enrollment"}

\* A fresh broker: no client, no target, no authority.
EmptyBroker ==
    [principals    |-> {},    \* the connected clients
     retired       |-> {},    \* connection identities used up
     grants        |-> {},    \* Grant and MetadataGrant values, with their slot
     revisions     |-> [c \in Connections |-> [k \in SlotKinds |-> 0]],
     consent       |-> [c \in Connections |-> {}],   \* cross_consent
     usage         |-> [c \in Connections |-> 0],    \* Principal::usage
     proposals     |-> [c \in Connections |-> 0],    \* approvals_requested
     registrations |-> {},
     pending       |-> {},
     targets       |-> <<>>,  \* session number -> Target
     forgotten     |-> 0,     \* forgotten_generation
     runs          |-> <<>>,  \* run id -> Run
     requests      |-> {},
     starts        |-> {},
     global        |-> 0,
     undelivered   |-> {},    \* run ids whose delivery flag is false
     detached      |-> {},    \* run ids whose descendant_delivery flag is false
     minted        |-> [approval |-> 0, grant |-> 0, ownership |-> 0,
                        registration |-> 0, run |-> 0, request |-> 0]]

\* One more identifier of the given kind.
Mint(s, kind) == [s EXCEPT !.minted[kind] = @ + 1]

-----------------------------------------------------------------------------
(* Targets. *)

Ref(session, generation) == [session |-> session, generation |-> generation]

\* The references that name the active attachment of their session.
Current(s) == {Ref(x, s.targets[x].generation) :
                  x \in {y \in DOMAIN s.targets : s.targets[y].active}}

GrantTargets(g) == g.sources \cup g.controls

\* Mutant of OwnershipSnapshot: the attachment is frozen in place of the
\* ownership epoch.
OwnershipSnapshot_Generation(s, controls) ==
    {[ref |-> r, epoch |-> r.generation, writer |-> s.targets[r.session].writer] : r \in controls}

\* What a review of control over these targets freezes about their ownership.
OwnershipSnapshot(s, controls) ==
    {[ref    |-> r,
      epoch  |-> s.targets[r.session].epoch,
      writer |-> s.targets[r.session].writer] : r \in controls}

-----------------------------------------------------------------------------
(* Grants. *)

GrantsOf(s, c) == {g \in s.grants : g.connection = c}
SlotGrants(s, c, slot) == {g \in GrantsOf(s, c) : g.slot = slot}
Controls(s, c) == UNION {g.controls : g \in SlotGrants(s, c, Ordinary)}

\* The registration a slot of kind Enrollment belongs to, while associated.
Enrolled(s, c, slot) ==
    {r \in s.registrations :
        /\ r.connection = c
        /\ r.enrollment # 0
        /\ slot = Enrollment(r.id, r.enrollment)
        /\ r.target \in Current(s)}

\* The slot's grant if it may be used now.
SlotGrant(s, c, slot) ==
    {g \in SlotGrants(s, c, slot) :
        /\ now < g.expires
        /\ slot[1] = "Enrollment" =>
              \E r \in Enrolled(s, c, slot) : g.sources = {r.target}}

\* Every sink has been approved for every source that may reach it.
ValidateClosure(sources, controls, handoffs) ==
    controls # {} => sources \subseteq handoffs

ValidateCrossClosure(g, metadata) ==
    /\ g.controls # {} => metadata \subseteq g.sources
    /\ ValidateClosure(metadata, g.controls, g.handoffs)

\* The grants that are live together were consented to together.
ValidateLiveCrossClosure(s, c) ==
    \A o \in SlotGrant(s, c, Ordinary) :
        /\ \A m \in {g \in SlotGrants(s, c, Metadata) : now < g.expires} :
              o.controls # {} =>
                  /\ s.consent[c] = {<<o.epoch, m.epoch>>}
                  /\ m.sources \subseteq Current(s)
                  /\ ValidateCrossClosure(o, m.sources)
        /\ \A r \in {x \in s.registrations : x.connection = c /\ x.enrollment # 0} :
              \A m \in SlotGrants(s, c, Enrollment(r.id, r.enrollment)) :
                  now < m.expires =>
                      /\ r.target \in Current(s)
                      /\ o.controls # {} =>
                            r.consent = {[ordinary |-> o.epoch, metadata |-> m.epoch,
                                          sinks |-> o.controls]}
                      /\ ValidateCrossClosure(o, {r.target})

-----------------------------------------------------------------------------
(* Cuts. *)

Parents(s, id) == IF id \in DOMAIN s.runs THEN s.runs[id].parent ELSE {}
Ancestors(s, id) ==
    LET one == Parents(s, id)
        two == UNION {Parents(s, p) : p \in one}
    IN  one \cup two \cup UNION {Parents(s, p) : p \in two}
\* Mutant of Lineage: a run is charged and checked without its ancestors.
Lineage_Self(s, id) == {id}

Lineage(s, id) == {id} \cup Ancestors(s, id)
\* Mutant of Descendants: a cut leaves the runs below.
Descendants_Self(s, ids) == ids \cap DOMAIN s.runs

Descendants(s, ids) == {r \in DOMAIN s.runs : Lineage(s, r) \cap ids # {}}

\* Mutant of Closed: a cut rewrites how a run ended.
Closed_Always(run, state) == [run EXCEPT !.state = state]

\* A run that had already ended keeps the state it ended in.
Closed(run, state) == IF run.state = "Running" THEN [run EXCEPT !.state = state] ELSE run

\* A target without the leases of these runs.
Released(target, runs) == [target EXCEPT !.writer = {w \in @ : w.run \notin runs}]

\* Close the runs with everything below them: their requests and leases go,
\* and what they sent stops being deliverable.  cut is called per run in the order of the
\* ids, so a run below another of the set is closed as its descendant.
Cut(s, ids, state) ==
    LET affected == Descendants(s, ids)
        below    == {r \in affected : Ancestors(s, r) \cap ids # {}}
        final(r) == IF r \in below THEN "Cancelled" ELSE state
    IN  [s EXCEPT
          !.requests    = {q \in @ : q.run \notin affected},
          !.targets     = [x \in DOMAIN @ |-> Released(@[x], affected)],
          !.detached    = @ \cup affected,
          !.undelivered = @ \cup {r \in affected : final(r) # "Completed"},
          !.runs        = [r \in DOMAIN @ |->
                              IF r \in affected THEN Closed(@[r], final(r)) ELSE @[r]]]

\* Mutant of DiscardStaleProposals: proposals outlive a change of the grants.
DiscardStaleProposals_Never(s, clients) == s

\* A proposal made before any of its connection's slots changed is void.
DiscardStaleProposals(s, clients) ==
    [s EXCEPT !.pending = {p \in @ : \/ p.connection \notin clients
                                     \/ p.revisions = s.revisions[p.connection]}]

\* The grants of these <<connection, slot>> pairs, how many of them are of the
\* connection and kind, and whether the registration's consent rested on one.
Removed(s, slots) == {g \in s.grants : <<g.connection, g.slot>> \in slots}
Bump(s, slots, c, k) == Cardinality({g \in Removed(s, slots) : g.connection = c /\ g.slot[1] = k})
Unconsented(r, slots) ==
    \/ <<r.connection, Ordinary>> \in slots
    \/ <<r.connection, Enrollment(r.id, r.enrollment)>> \in slots

\* Take away these grants and all that rests on them, runs aside.
Dropped(s, slots) ==
    [s EXCEPT
      !.grants    = @ \ Removed(s, slots),
      !.revisions = [c \in Connections |-> [k \in SlotKinds |-> @[c][k] + Bump(s, slots, c, k)]],
      !.consent   = [c \in Connections |->
                        IF Bump(s, slots, c, "Ordinary") + Bump(s, slots, c, "Metadata") > 0
                        THEN {} ELSE @[c]],
      !.registrations = {IF Unconsented(r, slots) THEN [r EXCEPT !.consent = {}] ELSE r : r \in @},
      !.pending   = {p \in @ : <<p.connection, p.slot>> \notin slots}]

\* revoke_slot handles one pair; its callers loop over several, and the order
\* does not matter.
RevokeSlots(s, slots) ==
    LET fresh == DiscardStaleProposals(Dropped(s, slots), {x[1] : x \in slots})
    IN  Cut(fresh,
            {r \in DOMAIN fresh.runs :
                /\ fresh.runs[r].state = "Running"
                /\ <<fresh.runs[r].connection, fresh.runs[r].slot>> \in slots},
            "Interrupted")

RevokeSlot(s, c, slot) == RevokeSlots(s, {<<c, slot>>})

\* Mutant of EnrollmentSlots: enrollment grants are left out of the
\* revocations.
EnrollmentSlots_None(s, regs) == {}

EnrollmentSlots(s, regs) ==
    {<<r.connection, Enrollment(r.id, r.enrollment)>> : r \in {x \in regs : x.enrollment # 0}}

\* What has reached its deadline ends: proposals, then runs, then grants.
PollExpiry(s) ==
    LET timely == [s EXCEPT !.pending = {p \in @ : now < p.expires}]
        ended  == Cut(timely, {r \in DOMAIN s.runs : /\ s.runs[r].state = "Running"
                                                     /\ now >= s.runs[r].deadline}, "TimedOut")
    IN  RevokeSlots(ended, {<<g.connection, g.slot>> : g \in {x \in s.grants : now >= x.expires}})

\* The attachment is gone: everything that names it goes with it.
InvalidateTarget(s, ref) ==
    LET bound  == {r \in s.registrations : r.enrollment # 0 /\ r.target = ref}
        lapsed == RevokeSlots(s, EnrollmentSlots(s, bound))
        loose  == [lapsed EXCEPT !.registrations = {r \in @ : r.enrollment = 0 \/ r.target # ref}]
        freed  == RevokeSlots(loose,
                      {<<g.connection, g.slot>> :
                          g \in {x \in loose.grants : /\ x.slot \in {Ordinary, Metadata}
                                                      /\ ref \in GrantTargets(x)}})
    IN  [freed EXCEPT !.pending = {p \in @ : ref \notin GrantTargets(p)}]

\* Everything a connection holds or has asked for.
Revoke(s, c) ==
    LET mine == {r \in s.registrations : r.connection = c}
        cut  == RevokeSlots(s, {<<c, Ordinary>>, <<c, Metadata>>} \cup EnrollmentSlots(s, mine))
    IN  [cut EXCEPT
          !.registrations = {IF r.connection = c THEN [r EXCEPT !.review = 0, !.decision = {}]
                             ELSE r : r \in @},
          !.pending       = {p \in @ : p.connection # c}]
=============================================================================
