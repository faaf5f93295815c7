--------------------------- MODULE MCBrokerGrants ---------------------------
(* One client and one session.  The exploration starts once the session is  *)
(* attached, with no client, one, or one that has enrolled a registration:  *)
(* states that the broker reaches from its own start.                       *)
EXTENDS BrokerGrants
CONSTANTS c1, s1
MCRequests ==
    {[controls |-> {s1}, sources |-> {s1}, bindings |-> {"Workflow"},
      invoke |-> FALSE, results |-> FALSE],
     [controls |-> {}, sources |-> {s1}, bindings |-> {"Workflow"},
      invoke |-> FALSE, results |-> FALSE]}

\* The client has used up some registration ids and some proposals.
AttachedWith(mints, proposals) ==
    [EmptyBroker EXCEPT
        !.principals = {c1},
        !.targets = [x \in {s1} |-> [generation |-> 1, active |-> TRUE, epoch |-> 1, writer |-> {}]],
        !.minted.ownership = 1,
        !.minted.registration = mints,
        !.minted.approval = proposals,
        !.proposals[c1] = proposals]

EnrolledWith(mints, proposals) ==
    [AttachedWith(mints, proposals) EXCEPT
        !.registrations = {[connection |-> c1, local |-> "l1", id |-> 1, revision |-> mints,
                            enrollment |-> mints, target |-> Ref(s1, 1),
                            review |-> 0, decision |-> {}, consent |-> {}]}]

\* Earlier clients have used up the registration and ownership ids; a new one
\* is about to connect.
Deserted == [AttachedWith(6, 0) EXCEPT !.principals = {}, !.minted.ownership = 2,
                                       !.targets[s1].epoch = 2]

MCInit ==
    /\ b \in {EnrolledWith(5, 1), EnrolledWith(4, 2), EnrolledWith(3, 3), AttachedWith(3, 2), Deserted}
    /\ now = 0 /\ tokens = {} /\ closed = {}
MCSpec == MCInit /\ [][GrantStep]_grantVars
=============================================================================
