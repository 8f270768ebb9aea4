----------------------------- MODULE DurableLog -----------------------------
(***************************************************************************)
(* What the persistence of crates/fehu-economy promises, and nothing of    *)
(* how: there is one sequence of committed commands; an acknowledged       *)
(* command is in it and stays in it; a command carrying an idempotency key *)
(* is committed once; a failure may only take back a suffix that nobody    *)
(* was told about.                                                         *)
(***************************************************************************)
EXTENDS Naturals, SequencesExt

CONSTANTS
    Commands,   \* what a client may ask for
    Step,       \* the engine's own command, which nobody is told about
    KeyOf,      \* the Idempotency-Key each command carries
    NoKey

VARIABLES
    log,        \* the commands that have happened, in order
    acked       \* the commands a client has been told of

Used(k) == \E c \in ToSet(log) : c # Step /\ KeyOf[c] = k

Init == log = <<>> /\ acked = {}

Commit(c) ==
    /\ c # Step => KeyOf[c] = NoKey \/ ~Used(KeyOf[c])
    /\ log' = Append(log, c)
    /\ UNCHANGED acked

Ack(c) ==
    /\ c \in ToSet(log)
    /\ acked' = acked \cup {c}
    /\ UNCHANGED log

Lose ==
    /\ \E n \in 0 .. Len(log) :
         /\ acked \subseteq ToSet(SubSeq(log, 1, n))
         /\ log' = SubSeq(log, 1, n)
    /\ UNCHANGED acked

Next ==
    \/ \E c \in Commands \cup {Step} : Commit(c)
    \/ \E c \in Commands : Ack(c)
    \/ Lose

Spec == Init /\ [][Next]_<<log, acked>>
=============================================================================
