----------------------------- MODULE MCLocalPty -----------------------------
(* Model constants of LocalPty for TLC. *)
EXTENDS LocalPty, TLC

CONSTANTS c1, c2

OneCaller == {c1}
TwoCallers == {c1, c2}

\* Every pair of calls of two threads, up to which of them makes which; two
\* calls of try_shutdown differ from try_shutdown and shutdown in the wait only.
Alone == (c1 :> Modes)
Together == (c1 :> {"shutdown", "drop"}) @@ (c2 :> {"shutdown", "try_shutdown"})

\* A client that obeys SIGTERM, for the races that need no more.
Plain == {[hangup |-> FALSE, stubborn |-> FALSE, reads |-> TRUE]}
\* The two kinds of child that a stop is sure to end, if they go on reading.
Reading == Plain \cup {[hangup |-> TRUE, stubborn |-> TRUE, reads |-> TRUE]}
\* Any client that is asked to hang up and ignores the polite signals.
Stubborn == [hangup : {TRUE}, stubborn : {TRUE}, reads : BOOLEAN]
=============================================================================
