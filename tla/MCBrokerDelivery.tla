-------------------------- MODULE MCBrokerDelivery --------------------------
(* One client and one session, from two states the broker reaches from its  *)
(* own Init: the client has connected and may ask to be paired, or it holds *)
(* the grant for the metadata of the target it has enrolled.                *)
EXTENDS BrokerDelivery, MCBrokerRuns

MCRequests == {[controls |-> {}, sources |-> {s1}, bindings |-> {"Discovery"},
                invoke |-> FALSE, results |-> FALSE]}

MCReadSpecs == {RunSpec("Discovery", {}, {s1}, FALSE, 3)}

\* Connected, the target attached, nothing asked for.
Asking == [EmptyBroker EXCEPT
             !.principals = {c1},
             !.targets = [x \in {s1} |-> [generation |-> 1, active |-> TRUE, epoch |-> 1, writer |-> {}]],
             !.minted.ownership = 1, !.minted.registration = 2]

DeliveryStart ==
    /\ now = 0 /\ tokens = {} /\ closed = {}
    /\ b \in {Asking, Viewing(0)}
    /\ DeliveryInit

DeliverySpec == DeliveryStart /\ [][Next]_vars
=============================================================================
