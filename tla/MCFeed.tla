------------------------------- MODULE MCFeed -------------------------------
(* Feed.tla on a small instance. *)
EXTENDS Feed, TLC

CONSTANTS ann, bill, nobody     \* two users, and a stream with no key
CONSTANTS hers                  \* a connection

MCViewerOf == hers :> ann

\* Fills of one user's and of the other's, and what only the stream carries.
Streams ==
    [streams |-> TRUE, commands |-> {<<{ann}>>, <<{bill}, {ann}>>}, cap |-> 0, caps |-> {}]

\* The backend alone, with an outbox too small for what one step commits.
Backend ==
    [streams |-> FALSE, commands |-> {<<{ann}>>, <<{ann}, {bill}, {ann}>>}, cap |-> 2,
     caps |-> {1, 3}]

MCFlows == {Streams, Backend}
=============================================================================
