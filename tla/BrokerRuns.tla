----------------------------- MODULE BrokerRuns -----------------------------
(***************************************************************************)
(* The broker's work: runs admitted under a grant, their budgets, idempo-  *)
(* tent workflow starts, writer leases, host requests, and what ends a run.*)
(*                                                                         *)
(* A run's scope is over session numbers in RunSpecs and over references   *)
(* once admitted.  Budgets count operations; the disclosed bytes are       *)
(* charged by the same statements and are left out.  Discover and observe  *)
(* scopes are one set of sources.  Of a binding the kind and the target    *)
(* are kept; the digests and the size of what it runs or types are not.    *)
(***************************************************************************)
EXTENDS BrokerGrants, FiniteSetsExt

CONSTANTS
    RunSpecs,        \* the specs a client may start; bindings is {kind}, target
                     \* the one session a DirectInput is for
    Keys,            \* StartKey values
    RetainedRuns,    \* Limits::retained_runs
    ActiveRuns,      \* runs of one kind a connection may have active (2 or 4)
    ActiveWorkflows, \* workflows active in all (4)
    RequestsPerRun   \* unsettled requests a run may have (16)

\* A ConnectionId has 24 bytes, so there are finitely many.
ASSUME RunAssumption ==
    /\ IsFiniteSet(Connections)
    /\ \A spec \in RunSpecs : spec.deadline \in Nat

Operations == {"Discover", "Observe", "Control", "Result"}

IsWorkflow(x) == x.kind = "Workflow"

-----------------------------------------------------------------------------
(* Checks and charges. *)

\* Mutant of RunIsLive: a run that has ended passes.
RunIsLive_AnyState(s, c, id) ==
    /\ id \in DOMAIN s.runs /\ s.runs[id].connection = c
    /\ \E g \in SlotGrant(s, c, s.runs[id].slot) : g.epoch = s.runs[id].epoch

\* check_run of one run, its ancestors aside.
RunIsLive(s, c, id) ==
    /\ id \in DOMAIN s.runs
    /\ LET run == s.runs[id]
       IN  /\ run.connection = c
           /\ run.state = "Running" /\ now < run.deadline
           /\ run.sources \cup run.controls \subseteq Current(s)
           /\ \E g \in SlotGrant(s, c, run.slot) :
                 /\ g.epoch = run.epoch
                 /\ ValidateClosure(run.sources, run.controls, g.handoffs)

CheckRun(s, c, id) ==
    /\ \A r \in Lineage(s, id) : RunIsLive(s, c, r)
    /\ ValidateLiveCrossClosure(s, c)

\* One operation fits every account it is charged to.
Fits(s, c, slot, lineage) ==
    /\ s.global < GlobalBudget /\ s.usage[c] < Budget
    /\ \E g \in SlotGrant(s, c, slot) : g.usage < Budget
    /\ \A r \in lineage : /\ CheckRun(s, c, r)
                          /\ s.runs[r].slot = slot
                          /\ s.runs[r].usage < s.runs[r].budget

Charged(account) == [account EXCEPT !.usage = @ + 1]

Charge(s, c, slot, lineage) ==
    [s EXCEPT
      !.global = @ + 1,
      !.usage[c] = @ + 1,
      !.grants = {IF g.connection = c /\ g.slot = slot THEN Charged(g) ELSE g : g \in @},
      !.runs = [r \in DOMAIN @ |->
                  IF r \in lineage THEN Charged(@[r]) ELSE @[r]]]

-----------------------------------------------------------------------------
(* Admission. *)

\* The scope of a spec lies within what the grant or the parent allows.
Within(scope, spec, outer) ==
    /\ scope.controls \subseteq outer.controls
    /\ scope.sources \subseteq outer.sources
    /\ spec.invoke => outer.invoke
    /\ spec.results => outer.results

ActiveOf(s, spec) ==
    {r \in DOMAIN s.runs : s.runs[r].state = "Running" /\ IsWorkflow(s.runs[r]) = IsWorkflow(spec)}

\* admit_in_slot refuses nothing here: s has been polled.
MayAdmit(s, c, slot, parent, spec) ==
    LET scope == Resolve(s, spec)
    IN  /\ c \in s.principals
        /\ spec.controls \cup spec.sources \subseteq {r.session : r \in Current(s)}
        /\ ValidateLiveCrossClosure(s, c)
        /\ spec.kind = "DirectInput" => \E x \in spec.controls : spec.target = {x}
        /\ \E g \in SlotGrant(s, c, slot) :
              /\ IF slot = Ordinary
                 THEN Within(scope, spec, g) /\ spec.kind \in g.bindings
                 ELSE /\ parent = {} /\ spec.kind = "Discovery"
                      /\ scope.sources # {} /\ scope.sources \subseteq g.sources
                      /\ scope.controls = {} /\ ~spec.invoke /\ ~spec.results
              /\ spec.deadline > now /\ spec.deadline <= g.expires
              /\ spec.budget \in 1 .. Budget
              /\ IsWorkflow(spec) => slot = Ordinary /\ g.invoke
              /\ ValidateClosure(scope.sources \cup UNION {s.runs[p].sources : p \in parent},
                                 scope.controls \cup UNION {s.runs[p].controls : p \in parent},
                                 g.handoffs)
        /\ Cardinality(DOMAIN s.runs) < RetainedRuns
        /\ Cardinality({r \in ActiveOf(s, spec) : s.runs[r].connection = c}) < ActiveRuns
        /\ IsWorkflow(spec) => Cardinality(ActiveOf(s, spec)) < ActiveWorkflows
        /\ \A p \in parent :
              /\ CheckRun(s, c, p)
              /\ s.runs[p].slot = slot
              /\ IsWorkflow(spec) /\ IsWorkflow(s.runs[p])
              /\ s.runs[p].scope.invoke
              /\ Within(scope, spec, s.runs[p].scope)
              /\ spec.deadline <= s.runs[p].deadline
              /\ spec.budget <= s.runs[p].budget
              /\ Cardinality(Lineage(s, p)) <= 2
        /\ Fits(s, c, slot, UNION {Lineage(s, p) : p \in parent})

\* The run and the frozen sets of what may flow where under it.
Admitted(s, c, slot, parent, spec) ==
    LET charged == Mint(Charge(s, c, slot, UNION {Lineage(s, p) : p \in parent}), "run")
        scope == Resolve(s, spec)
        run == [connection |-> c, slot |-> slot, parent |-> parent, kind |-> spec.kind,
                epoch |-> CHOOSE e \in {g.epoch : g \in SlotGrants(s, c, slot)} : TRUE,
                scope |-> scope, target |-> {r \in Current(s) : r.session \in spec.target},
                sources |-> scope.sources \cup UNION {s.runs[p].sources : p \in parent},
                controls |-> scope.controls \cup UNION {s.runs[p].controls : p \in parent},
                deadline |-> spec.deadline, budget |-> spec.budget, usage |-> 1,
                state |-> "Running", started |-> {}, prepared |-> FALSE, effects |-> 0]
    IN  [charged EXCEPT !.runs = [r \in DOMAIN @ \cup {charged.minted.run} |->
                                     IF r = charged.minted.run THEN run ELSE @[r]]]

AdmitRun(c, slot, parent, spec) ==
    LET s == PollExpiry(b)
    IN  /\ MayAdmit(s, c, slot, parent, spec)
        /\ b' = Admitted(s, c, slot, parent, spec)
        /\ Keep

-----------------------------------------------------------------------------
(* Connection-owned workflow starts. *)

\* The receipt of an earlier start under this key.
Receipt(s, c, key) == {x \in s.starts : x.connection = c /\ x.key = key}

MayStart(s, c, context, key, spec) ==
    /\ CheckRun(s, c, context)
    /\ s.runs[context].slot = Ordinary /\ s.runs[context].kind = "WorkflowStart"
    /\ s.runs[context].scope.invoke
    /\ Within(Resolve(s, spec), spec, s.runs[context].scope)
    /\ IsWorkflow(spec)
    /\ \A x \in s.runs[context].started : x.key = key
    /\ Fits(s, c, Ordinary, Lineage(s, context))

\* A retry is charged again and returns the run the first call admitted.
RetryStart(c, context, key, spec) ==
    LET s == PollExpiry(b)
    IN  /\ MayStart(s, c, context, key, spec)
        /\ \E x \in Receipt(s, c, key) :
              /\ x.epoch = s.runs[context].epoch /\ x.spec = spec
              /\ b' = [Charge(s, c, Ordinary, Lineage(s, context)) EXCEPT
                         !.runs[context].started = {[key |-> key, run |-> x.run]}]
        /\ Keep

\* A first start: the context is charged, then the workflow is admitted as a
\* root of its own.  When that is refused, the charge to the context stays.
StartWorkflow(c, context, key, spec) ==
    LET s    == PollExpiry(b)
        paid == Charge(s, c, Ordinary, Lineage(s, context))
        run  == Admitted(paid, c, Ordinary, {}, spec)
        id   == run.minted.run
    IN  /\ MayStart(s, c, context, key, spec)
        /\ Receipt(s, c, key) = {}
        /\ b' = IF ~MayAdmit(paid, c, Ordinary, {}, spec) THEN paid
                ELSE [run EXCEPT
                        !.runs[id].sources = @ \cup s.runs[context].sources,
                        !.runs[id].controls = @ \cup s.runs[context].controls,
                        !.runs[context].started = {[key |-> key, run |-> id]},
                        !.starts = @ \cup {[connection |-> c, key |-> key, spec |-> spec,
                                            epoch |-> s.runs[context].epoch, run |-> id]}]
        /\ Keep

CancelStart(c, key) ==
    LET s == PollExpiry(b)
    IN  /\ \E x \in Receipt(s, c, key) :
              /\ \E g \in SlotGrant(s, c, Ordinary) : g.epoch = x.epoch
              /\ b' = Cut(s, {x.run}, "Cancelled")
        /\ Keep

\* Reading a status costs an operation of the grant, none of the run.
Status(c, id) ==
    LET s == PollExpiry(b)
    IN  /\ id \in DOMAIN s.runs /\ s.runs[id].connection = c /\ s.runs[id].slot = Ordinary
        /\ \E g \in SlotGrant(s, c, Ordinary) : g.epoch = s.runs[id].epoch /\ g.results
        /\ Fits(s, c, Ordinary, {})
        /\ b' = Charge(s, c, Ordinary, {})
        /\ Keep

\* Mutant of ForgetRun: a run is forgotten while a start key stands for it.
ForgetRun_Receipted(c, id) ==
    /\ id \in DOMAIN b.runs /\ b.runs[id].connection = c /\ b.runs[id].state # "Running"
    /\ \A r \in DOMAIN b.runs : id \notin b.runs[r].parent
    /\ b' = [b EXCEPT !.runs = [r \in DOMAIN @ \ {id} |-> @[r]]]
    /\ Keep

\* Only a settled leaf without a receipt is forgotten; no account is refunded.
ForgetRun(c, id) ==
    /\ id \in DOMAIN b.runs /\ b.runs[id].connection = c
    /\ b.runs[id].state # "Running"
    /\ \A r \in DOMAIN b.runs : id \notin b.runs[r].parent
    /\ \A x \in b.starts : x.run # id
    /\ b' = [b EXCEPT !.runs = [r \in DOMAIN @ \ {id} |-> @[r]]]
    /\ Keep

-----------------------------------------------------------------------------
(* Leases. *)

CheckLeaseTarget(run, ref) ==
    /\ run.kind \in {"Workflow", "DirectInput"}
    /\ run.kind = "DirectInput" => run.target = {ref} /\ ~run.prepared
    /\ ref \in run.scope.controls

\* The transition freezes the ownership epoch the controller has seen.
PrepareLease(id, ref) ==
    LET c == b.runs[id].connection
    IN  /\ CheckRun(b, c, id) /\ CheckLeaseTarget(b.runs[id], ref)
        /\ ref \in Current(b) /\ b.targets[ref.session].writer = {}
        /\ tokens' = tokens \cup {[kind |-> "lease", connection |-> c, run |-> id, ref |-> ref,
                                   epoch |-> b.targets[ref.session].epoch]}
        /\ UNCHANGED <<b, now, closed>>

CommitLease(t) ==
    LET s == Mint(b, "ownership")
        epoch == s.minted.ownership
    IN  /\ t.kind = "lease" /\ b.minted.ownership < MaxOwnershipMints
        /\ CheckRun(b, t.connection, t.run) /\ CheckLeaseTarget(b.runs[t.run], t.ref)
        /\ t.ref \in Current(b)
        /\ b.targets[t.ref.session].epoch = t.epoch
        /\ b.targets[t.ref.session].writer = {}
        /\ b' = [s EXCEPT !.targets[t.ref.session].epoch = epoch,
                          !.targets[t.ref.session].writer = {[run |-> t.run, epoch |-> epoch]}]
        /\ Keep

-----------------------------------------------------------------------------
(* Host requests. *)

\* The operation a run may ask for; a control names the lease it was given.
CheckOperation(s, id, q) ==
    LET run == s.runs[id]
    IN  /\ \/ IsWorkflow(run)
           \/ run.kind = "Discovery" /\ q.operation = "Discover"
           \/ run.kind = "Observation" /\ q.operation = "Observe"
           \/ run.kind = "DirectInput" /\ q.operation = "Control"
        /\ q.operation = "Observe" => q.ref \in run.scope.sources \cap Current(s)
        /\ q.operation = "Result" => run.scope.results
        /\ q.operation = "Control" =>
              /\ q.ref \in run.scope.controls \cap Current(s)
              /\ run.kind = "DirectInput" => run.target = {q.ref}
              /\ s.targets[q.ref.session].writer = {[run |-> id, epoch |-> q.lease]}
              /\ s.targets[q.ref.session].epoch = q.lease

\* The requests a client may name: with the lease the target has now, if any.
RequestsFor(s, id) ==
    {[operation |-> o, ref |-> NoRef, lease |-> 0] : o \in {"Discover", "Result"}} \cup
    {[operation |-> "Observe", ref |-> r, lease |-> 0] : r \in s.runs[id].scope.sources} \cup
    {[operation |-> "Control", ref |-> r, lease |-> s.targets[r.session].epoch] :
        r \in s.runs[id].scope.controls \cap Current(s)}

PrepareRequest(id, q) ==
    LET s == PollExpiry(b)
        run == s.runs[id]
        paid == Mint(Charge(s, run.connection, run.slot, Lineage(s, id)), "request")
    IN  /\ CheckRun(s, run.connection, id)
        /\ ~(run.kind = "DirectInput" /\ run.prepared)
        /\ CheckOperation(s, id, q)
        /\ Cardinality({x \in s.requests : x.run = id}) < RequestsPerRun
        /\ Fits(s, run.connection, run.slot, Lineage(s, id))
        /\ b' = [paid EXCEPT
                   !.requests = @ \cup {[id |-> paid.minted.request, run |-> id,
                                         operation |-> q.operation, ref |-> q.ref,
                                         lease |-> q.lease, committed |-> FALSE]},
                   !.runs[id].prepared = @ \/ run.kind = "DirectInput"]
        /\ Keep

CheckRequest(s, q) ==
    /\ CheckRun(s, s.runs[q.run].connection, q.run)
    /\ CheckOperation(s, q.run, q)

Effected(run) == [run EXCEPT !.effects = @ + 1]

\* Queue admission of the exact input; every ancestor is told.
CommitControl(q) ==
    /\ q.operation = "Control" /\ ~q.committed
    /\ CheckRequest(b, q)
    /\ b' = [b EXCEPT !.requests = (@ \ {q}) \cup {[q EXCEPT !.committed = TRUE]},
                      !.runs = [r \in DOMAIN @ |->
                                  IF r \in Lineage(b, q.run) THEN Effected(@[r]) ELSE @[r]]]
    /\ Keep

SettleRequest(q) ==
    /\ b' = [b EXCEPT !.requests = @ \ {q}]
    /\ Keep

-----------------------------------------------------------------------------
(* The end of a run. *)

\* Work left open below a returning run makes it fail; either way it is cut.
Completed(s, id, failed) ==
    LET tree == Descendants(s, {id})
        open == \/ \E q \in s.requests : q.run \in tree
                \/ \E r \in tree \ {id} : s.runs[r].state = "Running"
    IN  Cut(s, {id}, IF open \/ failed THEN "Failed" ELSE "Completed")

Complete(id, failed) ==
    LET s == PollExpiry(b)
    IN  /\ CheckRun(s, s.runs[id].connection, id)
        /\ b' = Completed(s, id, failed)
        /\ Keep

\* The result request is consumed first; the call then completes the run.
CompleteWithResult(q) ==
    LET s == PollExpiry([b EXCEPT !.requests = @ \ {q}])
    IN  /\ q.operation = "Result" /\ ~q.committed
        /\ CheckRequest(b, q)
        /\ b' = IF CheckRun(s, s.runs[q.run].connection, q.run) THEN Completed(s, q.run, FALSE) ELSE s
        /\ Keep

\* Mutant of CancelRun: the workflow a call started is left running.
CancelRun_ContextOnly(c, id) ==
    LET s == PollExpiry(b)
    IN  /\ id \in DOMAIN s.runs /\ CheckRun(s, c, id)
        /\ b' = Cut(s, {id}, "Cancelled")
        /\ Keep

\* Cancelling a start context takes the workflow with it, even when the
\* context itself had already returned.
CancelRun(c, id) ==
    LET s == PollExpiry(b)
        workflows == {x.run : x \in s.runs[id].started}
    IN  /\ id \in DOMAIN s.runs /\ s.runs[id].connection = c
        /\ \E g \in SlotGrant(s, c, s.runs[id].slot) : g.epoch = s.runs[id].epoch
        /\ workflows # {} \/ CheckRun(s, c, id)
        /\ b' = Cut(Cut(s, workflows, "Cancelled"), {id}, "Cancelled")
        /\ Keep

\* cancel_run is the only call on runs that takes the admission guard.
GuardedRunStep == \E c \in Connections, id \in DOMAIN b.runs : CancelRun(c, id)

FreeRunStep ==
    \/ \E c \in Connections :
          \/ \E spec \in RunSpecs :
                \/ \E parent \in {{}} \cup {{r} : r \in DOMAIN b.runs} :
                      AdmitRun(c, Ordinary, parent, spec)
                \/ \E slot \in {g.slot : g \in b.grants} \ {Ordinary} : AdmitRun(c, slot, {}, spec)
                \/ \E id \in DOMAIN b.runs, key \in Keys :
                      StartWorkflow(c, id, key, spec) \/ RetryStart(c, id, key, spec)
          \/ \E key \in Keys : CancelStart(c, key)
          \/ \E id \in DOMAIN b.runs : Status(c, id) \/ ForgetRun(c, id)
    \/ \E id \in DOMAIN b.runs :
          \/ \E ref \in b.runs[id].scope.controls : PrepareLease(id, ref)
          \/ \E q \in RequestsFor(b, id) : PrepareRequest(id, q)
          \/ \E failed \in BOOLEAN : Complete(id, failed)
    \/ \E t \in tokens : CommitLease(t)
    \/ \E q \in b.requests : CommitControl(q) \/ SettleRequest(q) \/ CompleteWithResult(q)

RunStep == GuardedRunStep \/ FreeRunStep

RunsSpec == GrantInit /\ [][GrantStep \/ RunStep]_grantVars

-----------------------------------------------------------------------------
(* Properties. *)

RunStates == {"Running", "Completed", "Failed", "Cancelled", "Interrupted", "TimedOut"}

\* Types of runs, requests and receipts.
RunTypeOK ==
    /\ \A r \in DOMAIN b.runs : /\ b.runs[r].state \in RunStates
                                 /\ Cardinality(b.runs[r].parent) <= 1
                                 /\ b.runs[r].usage \in 1 .. b.runs[r].budget
    /\ \A q \in b.requests : q.run \in DOMAIN b.runs /\ q.operation \in Operations
    /\ b.global \in 0 .. GlobalBudget

\* A run that is still running has everything it was admitted under: its
\* connection, the very grant, the attachment of every target it may touch,
\* and running ancestors.  No sequence of revocations, closures, expiries and
\* completions leaves a run behind (cut, revoke_slot, invalidate_target).
RunningIsAuthorized ==
    \A r \in DOMAIN b.runs : b.runs[r].state = "Running" =>
        LET run == b.runs[r]
        IN  /\ run.connection \in b.principals
            /\ \E g \in SlotGrants(b, run.connection, run.slot) :
                  /\ g.epoch = run.epoch /\ run.deadline <= g.expires
                  /\ run.sources \subseteq g.sources /\ run.controls \subseteq g.controls
            /\ run.sources \cup run.controls \subseteq Current(b)
            /\ \A a \in Ancestors(b, r) : a \in DOMAIN b.runs /\ b.runs[a].state = "Running"

\* What is open belongs to a running run: no request can be settled for, and no
\* lease held by, a run that has ended, and a lease carries the target's epoch.
OpenWorkHasRunningOwner ==
    /\ \A q \in b.requests : b.runs[q.run].state = "Running"
    /\ \A x \in DOMAIN b.targets : \A w \in b.targets[x].writer :
          /\ w.run \in DOMAIN b.runs /\ b.runs[w.run].state = "Running"
          /\ Ref(x, b.targets[x].generation) \in b.runs[w.run].scope.controls
          /\ w.epoch = b.targets[x].epoch

\* Types, and the owners of open work.
RunInv == RunTypeOK /\ OpenWorkHasRunningOwner

\* Every account covers the accounts below it: a run its children, a grant its
\* runs, a client its grants, the application its clients.  Forgetting runs,
\* retrying starts or replacing grants never leaves an account below what was
\* spent under it (charge, approve).
BudgetsNest ==
    LET uses == [r \in DOMAIN b.runs |-> b.runs[r].usage]
        costs == [g \in b.grants |-> g.usage]
    IN  /\ \A r \in DOMAIN b.runs :
              SumFunctionOnSet(uses, {x \in DOMAIN b.runs : r \in b.runs[x].parent}) < b.runs[r].usage
        /\ \A g \in b.grants :
              SumFunctionOnSet(uses, {x \in DOMAIN b.runs : /\ b.runs[x].connection = g.connection
                                                            /\ b.runs[x].slot = g.slot
                                                            /\ b.runs[x].epoch = g.epoch
                                                            /\ b.runs[x].parent = {}}) <= g.usage
        /\ \A c \in Connections : SumFunctionOnSet(costs, GrantsOf(b, c)) <= b.usage[c]
        /\ SumFunctionOnSet(b.usage, Connections) <= b.global

\* Cancelling the call that started a workflow stops the workflow, also when
\* the call had been answered before (cancel_run).
CancelledStartStops ==
    \A r \in DOMAIN b.runs : b.runs[r].state = "Cancelled" =>
        \A x \in b.runs[r].started : b.runs[x.run].state # "Running"

\* How a run ended is decided once: a later cut of its tree, a second
\* completion or a late cancellation does not rewrite it (cut).
OutcomeIsFinal ==
    [][\A r \in DOMAIN b.runs \cap DOMAIN b'.runs :
          b.runs[r].state # "Running" => b'.runs[r].state = b.runs[r].state]_grantVars

\* A start key stands for one run as long as the client is connected: the
\* receipt stays, its run is not forgotten, and no second one is made for it
\* (start_workflow, forget_run).
StartsOnce ==
    [][/\ \A x \in b.starts : x.connection \in b'.principals =>
              x \in b'.starts /\ x.run \in DOMAIN b'.runs
       /\ \A x, y \in b'.starts : (x.connection = y.connection /\ x.key = y.key) => x = y]_grantVars
=============================================================================
