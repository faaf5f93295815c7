---------------------------- MODULE MCBrokerRuns ----------------------------
(* One client and one session.  The exploration starts from five states the *)
(* broker reaches from its own Init, each with a grant and some of the      *)
(* allowance spent: a call before and after it starts a workflow, a         *)
(* workflow inside another, plain input, and an enrolled target's metadata. *)
EXTENDS BrokerRuns
CONSTANTS c1, s1

r1 == Ref(s1, 1)

\* A spec of each kind, with the scope that kind uses; plain input goes to s1.
RunSpec(kind, controls, sources, full, budget) ==
    [kind |-> kind, bindings |-> {kind}, controls |-> controls, sources |-> sources,
     target |-> {x \in controls : kind = "DirectInput"},
     invoke |-> full, results |-> full, deadline |-> 1, budget |-> budget]

MCRunSpecs ==
    {RunSpec("Workflow", {s1}, {}, TRUE, 3), RunSpec("WorkflowStart", {s1}, {}, TRUE, 3),
     RunSpec("Discovery", {}, {s1}, FALSE, 2), RunSpec("DirectInput", {s1}, {}, FALSE, 2)}

\* The broker once the client holds one grant, has spent some operations on
\* runs that are over and forgotten, and has used up its registration ids.
Granted(slot, controls, sources, bindings, spent) ==
    [EmptyBroker EXCEPT
        !.principals = {c1},
        !.targets = [x \in {s1} |-> [generation |-> 1, active |-> TRUE, epoch |-> 1, writer |-> {}]],
        !.minted.ownership = 1, !.minted.approval = 1, !.minted.grant = 1, !.minted.run = spent,
        !.minted.registration = 2,
        !.proposals[c1] = 1,
        !.revisions[c1][slot[1]] = 1,
        !.usage[c1] = spent, !.global = spent,
        !.undelivered = {}, !.detached = 1 .. spent,
        !.grants = {[connection |-> c1, slot |-> slot, epoch |-> 1,
                     controls |-> controls, sources |-> sources, bindings |-> bindings,
                     invoke |-> "Workflow" \in bindings, results |-> "Workflow" \in bindings,
                     handoffs |-> {}, expires |-> 1, usage |-> spent]}]

Workflows == Granted(Ordinary, {r1}, {}, {"Workflow", "WorkflowStart"}, 0)

OfKind(kind) == CHOOSE x \in MCRunSpecs : x.kind = kind
Receipted(s) == [s EXCEPT !.runs[1].started = {[key |-> "k1", run |-> 2]},
                          !.starts = {[connection |-> c1, key |-> "k1", run |-> 2, epoch |-> 1,
                                       spec |-> OfKind("Workflow")]}]

Call     == Admitted(Workflows, c1, Ordinary, {}, OfKind("WorkflowStart"))
Workflow == Admitted(Workflows, c1, Ordinary, {}, OfKind("Workflow"))

\* Before and after the call has started its workflow, and with a workflow
\* that runs another; a status query has been charged where Charge is last.
Calling == Charge(Call, c1, Ordinary, {})
Called  == Receipted(Admitted(Charge(Call, c1, Ordinary, {1}), c1, Ordinary, {}, OfKind("Workflow")))
Nested  == Charge(Admitted(Workflow, c1, Ordinary, {1}, OfKind("Workflow")), c1, Ordinary, {})
Typing  == Granted(Ordinary, {r1}, {}, {"DirectInput"}, 2)
Viewing(spent) ==
           [Granted(Enrollment(1, 2), {}, {r1}, {}, spent) EXCEPT
              !.registrations = {[connection |-> c1, local |-> "l1", id |-> 1, revision |-> 2,
                                  enrollment |-> 2, target |-> r1,
                                  review |-> 0, decision |-> {}, consent |-> {}]}]

\* A client that has lost its grants and cannot ask for more is not followed.
\* Its runs have ended by then; what it may still do, forget them, settle, be
\* taken over or disconnect, is covered by the theorems and not by this run.
MCSpec ==
    /\ now = 0 /\ tokens = {} /\ closed = {}
    /\ b \in {Calling, Called, Nested, Typing, Viewing(1)}
    /\ [][b.grants # {} /\ (GrantStep \/ RunStep)]_grantVars
=============================================================================
