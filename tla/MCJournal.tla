----------------------------- MODULE MCJournal ------------------------------
(* Journal.tla on small instances: two keyed commands and the engine's step. *)
EXTENDS Journal

CONSTANTS c1, c2, k1, k2

MCCommands == {c1, c2}
MCKeyOf == (c1 :> k1) @@ (c2 :> k2)

\* What the code recovers from: a process killed at any point, a machine that
\* loses power at any point, a truncation the file system refuses.
MCEnvironments == {{"kill", "truncate"}, {"power", "truncate"}}

\* With appends refused as well.
MCFailures == {{"kill", "append"}, {"power", "append", "truncate"}}

\* One failure, or one pair, each for the runs that show what it does.
KillAndPower == {{"kill", "power"}}
TornFault == {{"kill", "torn"}}
AppendFault == {{"kill", "append"}}
=============================================================================
