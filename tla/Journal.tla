------------------------------ MODULE Journal -------------------------------
(***************************************************************************)
(* Persistence of crates/fehu-economy: the command journal, the snapshot   *)
(* it follows, the idempotency index and the outbox of facts, from the     *)
(* live path (Market::run_command) through a snapshot and the truncation   *)
(* that follows it to a crash and the restart that replays.                *)
(*                                                                         *)
(* The market actor runs one job at a time, so a command, the capture of a *)
(* snapshot and a truncation are each one step; writing a snapshot file is *)
(* another task and interleaves with them.  The market itself is the       *)
(* sequence of commands applied to it: applying is deterministic, so two   *)
(* markets are equal exactly when their sequences are.  A command the      *)
(* market refuses changes nothing and is a stuttering step.                *)
(***************************************************************************)
EXTENDS Naturals, Sequences, SequencesExt, FiniteSets

CONSTANTS
    Commands,       \* client commands: one value is one request and its key
    Step,           \* Command::Step, the engine's; it is not flushed
    KeyOf,          \* the Idempotency-Key of each command
    NoKey,
    LogCap,         \* capacity of the idempotency index
    Writers,        \* the tasks that write snapshots
    Consumed,       \* a consumer reads the outbox
    SavedBefore,    \* a snapshot exists when the model starts
    Environments,   \* each the set of failures one environment has
    None,
    MaxSteps,       \* bound: engine steps in one history
    MaxRepeats,     \* bound: how often an unkeyed command is applied
    MaxCrashes,     \* bound: crashes
    MaxSaves        \* bound: snapshots begun

\* "kill": the process is killed, and restarted over the same file system;
\* "power": the machine stops, and unflushed lines are lost; "torn": either
\* may leave part of a line; "append", "truncate": the file system refuses.
FaultKinds == {"kill", "power", "torn", "append", "truncate"}

ASSUME JournalAssumption ==
    /\ Step \notin Commands /\ None \notin Commands
    /\ LogCap \in Nat \ {0}
    /\ Writers \subseteq {"autosave", "final"}
    /\ SavedBefore \in BOOLEAN /\ Consumed \in BOOLEAN
    /\ Environments \subseteq SUBSET FaultKinds
    /\ MaxSteps \in Nat /\ MaxRepeats \in Nat
    /\ MaxCrashes \in Nat /\ MaxSaves \in Nat

\* What is not there is no snapshot.
ASSUME NoneAssumption ==
    None \notin [world : Seq(Commands \cup {Step}), seq : Nat, index : Seq(Commands),
                 outbox : Seq(Commands \cup {Step})]

VARIABLES
    up,         \* the process serves
    stopping,   \* graceful shutdown has begun: no client is served
    world,      \* memory: the commands applied, in order
    seq,        \* memory: Journal::seq
    index,      \* memory: the idempotency index, oldest first
    outbox,     \* memory: the facts, the n-th numbered n
    broken,     \* memory: Journal::broken
    pending,    \* memory: Journal::pending
    replies,    \* memory: responses on their way to a client
    writer,     \* each snapshot writer: [pc, save]
    file,       \* disk: the lines of the journal
    synced,     \* disk: how many of them are flushed
    tmp,        \* disk: the temporary snapshot file
    snap,       \* disk: the state file
    acked,      \* the commands whose response a client has
    read,       \* the facts a consumer has read, in order of their numbers
    crashes, saves,
    faults      \* the environment of this history

memory == <<up, stopping, world, seq, index, outbox, broken, pending,
            replies, writer>>
disk == <<file, synced, tmp, snap>>
vars == <<memory, disk, acked, read, crashes, saves, faults>>

Entry(n, c) == [seq |-> n, cmd |-> c]

-----------------------------------------------------------------------------
(* The idempotency index (CommandLog) and the facts *)

\* First-in first-out, bounded; a key already there is left alone.
Record(log, c) ==
    IF \/ c = Step
       \/ KeyOf[c] = NoKey
       \/ \E d \in ToSet(log) : KeyOf[d] = KeyOf[c]
    THEN log
    ELSE LET longer == Append(log, c)
         IN  IF Len(longer) > LogCap THEN Tail(longer) ELSE longer

Recorded(c) == {d \in ToSet(index) : KeyOf[d] = KeyOf[c]}

\* Every command publishes one fact, itself, under the next number.
CommitFacts(facts, c) == Append(facts, c)

-----------------------------------------------------------------------------
(* The journal file *)

\* A line ends with its newline, or is still open: the next append goes on
\* where the file ends.  A line of two entries is not an entry.
Line(ok, e, ended) == [ok |-> ok, entry |-> e, ended |-> ended]

OpenEnd(f) == f # <<>> /\ ~Last(f).ended

WriteLine(f, e, whole, ended) ==
    IF OpenEnd(f) THEN Append(Front(f), Line(FALSE, e, ended))
    ELSE Append(f, Line(whole, e, ended))

AppendLine(f, e) == WriteLine(f, e, TRUE, TRUE)

\* What an append that does not finish leaves behind.
PartialAppend(f, e) ==
    {f, AppendLine(f, e)} \cup
    IF "torn" \in faults
    THEN {WriteLine(f, e, FALSE, FALSE), WriteLine(f, e, TRUE, FALSE)} ELSE {}

\* A malformed last line is dropped; anywhere else the file is refused.
Readable(f) == \A i \in 1 .. Len(f) - 1 : f[i].ok

Entries(f) ==
    LET whole == IF f # <<>> /\ ~Last(f).ok THEN Len(f) - 1 ELSE Len(f)
    IN  SubSeq([i \in DOMAIN f |-> f[i].entry], 1, whole)

\* Mutant of After: the entry the snapshot ends with is replayed too.
AfterInclusive(entries, n) == SelectSeq(entries, LAMBDA e : e.seq >= n)

\* Those past n: the entries are in the order of their numbers.
After(entries, n) ==
    LET before == Cardinality({i \in DOMAIN entries : entries[i].seq <= n})
    IN  SubSeq(entries, before + 1, Len(entries))

-----------------------------------------------------------------------------
(* The snapshot and what a start makes of the disk *)

\* The index once the commands were recorded one after the other.
Remembered(log, cmds) ==
    LET recorded[n \in 0 .. Len(cmds)] ==
            IF n = 0 THEN log ELSE Record(recorded[n - 1], cmds[n])
    IN  recorded[Len(cmds)]

CommandsOf(entries) == [i \in DOMAIN entries |-> entries[i].cmd]

EmptySave == [world |-> <<>>, seq |-> 0, index |-> <<>>, outbox |-> <<>>]

Save == [world |-> world, seq |-> seq, index |-> index, outbox |-> outbox]

\* Mutants of Resume: replay forgets the index, or the facts.
ResumeUnindexed(save, entries) ==
    LET cmds == CommandsOf(entries)
    IN  [world |-> save.world \o cmds,
         seq |-> IF entries = <<>> THEN save.seq ELSE Last(entries).seq,
         index |-> save.index,
         outbox |-> save.outbox \o cmds]

ResumeSilently(save, entries) ==
    LET cmds == CommandsOf(entries)
    IN  [world |-> save.world \o cmds,
         seq |-> IF entries = <<>> THEN save.seq ELSE Last(entries).seq,
         index |-> Remembered(save.index, cmds),
         outbox |-> save.outbox]

\* Replaying entries onto a restored market: each is applied, recorded and
\* published as it was the first time, and carries the sequence forward.
Resume(save, entries) ==
    LET cmds == CommandsOf(entries)
    IN  [world |-> save.world \o cmds,
         seq |-> IF entries = <<>> THEN save.seq ELSE Last(entries).seq,
         index |-> Remembered(save.index, cmds),
         outbox |-> save.outbox \o cmds]

\* What the next start would serve; with no snapshot it warms up afresh.
Recoverable ==
    IF snap = None THEN EmptySave
    ELSE IF Readable(file) THEN Resume(snap, After(Entries(file), snap.seq))
    ELSE EmptySave

\* Its history.
RecoverableWorld ==
    IF snap = None THEN <<>>
    ELSE IF Readable(file) THEN snap.world \o CommandsOf(After(Entries(file), snap.seq))
    ELSE <<>>

Idle == [pc |-> "idle", save |-> None]

Init ==
    /\ up = TRUE /\ stopping = FALSE
    /\ world = <<>> /\ seq = 0 /\ index = <<>> /\ outbox = <<>>
    /\ broken = FALSE /\ pending = <<>> /\ replies = {}
    /\ writer = [w \in Writers |-> Idle]
    /\ file = <<>> /\ synced = 0 /\ tmp = None
    /\ snap = IF SavedBefore THEN EmptySave ELSE None
    /\ acked = {} /\ read = <<>> /\ crashes = 0 /\ saves = 0
    /\ faults \in Environments

-----------------------------------------------------------------------------
(* Running a command *)

Count(c) == Cardinality({i \in DOMAIN world : world[i] = c})

\* Past the broken check and the idempotency lookup: this one is applied.
MayApply(c) ==
    /\ up /\ ~broken
    /\ IF c = Step THEN Count(Step) < MaxSteps
       ELSE /\ ~stopping
            /\ Recorded(c) = {} \/ KeyOf[c] = NoKey
            /\ Count(c) < MaxRepeats

Apply(c) ==
    /\ world' = Append(world, c)
    /\ seq' = seq + 1

\* Mutant of RunCommand: nothing is flushed before it is answered.
RunCommandUnflushed(c) ==
    /\ MayApply(c)
    /\ Apply(c)
    /\ file' = AppendLine(file, Entry(seq + 1, c))
    /\ pending' = Append(pending, Entry(seq + 1, c))
    /\ outbox' = CommitFacts(outbox, c)
    /\ index' = Record(index, c)
    /\ replies' = IF c = Step THEN replies ELSE replies \cup {c}
    /\ UNCHANGED <<up, stopping, broken, writer, synced, tmp, snap, acked, read,
                   crashes, saves, faults>>

\* Applied, written down (flushed unless it is a step), and only then put in
\* the outbox and the index and answered.
RunCommand(c) ==
    /\ MayApply(c)
    /\ Apply(c)
    /\ file' = AppendLine(file, Entry(seq + 1, c))
    /\ synced' = IF c = Step THEN synced ELSE Len(file')
    /\ pending' = Append(pending, Entry(seq + 1, c))
    /\ outbox' = CommitFacts(outbox, c)
    /\ index' = Record(index, c)
    /\ replies' = IF c = Step THEN replies ELSE replies \cup {c}
    /\ UNCHANGED <<up, stopping, broken, writer, tmp, snap, acked, read,
                   crashes, saves, faults>>

\* The append fails: the change stays in memory, its facts are discarded, the
\* journal takes nothing more, and the client gets an error.
RunCommandFails(c) ==
    /\ "append" \in faults
    /\ MayApply(c)
    /\ Apply(c)
    /\ file' \in PartialAppend(file, Entry(seq + 1, c))
    /\ broken' = TRUE
    /\ UNCHANGED <<up, stopping, index, outbox, pending, replies, writer,
                   synced, tmp, snap, acked, read, crashes, saves, faults>>

\* Mutant of ReplayAnswer: a recorded key is always a conflict.
ReplayConflict(c) ==
    /\ up /\ ~broken /\ ~stopping
    /\ c \in Recorded(c)
    /\ UNCHANGED vars

\* A retry: the recorded answer, and nothing is applied.  (The same key with
\* another payload is refused.)
ReplayAnswer(c) ==
    /\ up /\ ~broken /\ ~stopping
    /\ c \in Recorded(c)
    /\ c \notin replies \cup acked
    /\ replies' = replies \cup {c}
    /\ UNCHANGED <<up, stopping, world, seq, index, outbox, broken, pending,
                   writer, disk, acked, read, crashes, saves, faults>>

Answer(c) ==
    /\ up /\ c \in replies
    /\ replies' = replies \ {c}
    /\ acked' = acked \cup {c}
    /\ UNCHANGED <<up, stopping, world, seq, index, outbox, broken, pending,
                   writer, disk, read, crashes, saves, faults>>

\* The consumer reads on from its cursor, out of the market's memory:
\* whatever is there, flushed or not.
ReadOutbox ==
    /\ Consumed /\ up
    /\ Len(read) < Len(outbox)
    /\ read' = read \o SubSeq(outbox, Len(read) + 1, Len(outbox))
    /\ UNCHANGED <<memory, disk, acked, crashes, saves, faults>>

-----------------------------------------------------------------------------
(* Snapshots: save::write, by the autosave task or the final save of main *)

\* One job of the market; neither it nor the writer asks whether the journal
\* is broken.
TakeSave(w) ==
    /\ up /\ writer[w].pc = "idle" /\ saves < MaxSaves
    /\ w = "final" => stopping
    /\ writer' = [writer EXCEPT ![w] = [pc |-> "taken", save |-> Save]]
    /\ saves' = saves + 1
    /\ UNCHANGED <<up, stopping, world, seq, index, outbox, broken, pending,
                   replies, disk, acked, read, crashes, faults>>

\* Created, written and flushed; every writer uses the same temporary file.
WriteTmp(w) ==
    /\ writer[w].pc = "taken"
    /\ tmp' = writer[w].save
    /\ writer' = [writer EXCEPT ![w].pc = "written"]
    /\ UNCHANGED <<up, stopping, world, seq, index, outbox, broken, pending,
                   replies, file, synced, snap, acked, read, crashes, saves,
                   faults>>

\* With no file to rename the write is given up.
RenameTmp(w) ==
    /\ writer[w].pc = "written"
    /\ IF tmp = None
       THEN /\ writer' = [writer EXCEPT ![w] = Idle]
            /\ UNCHANGED <<tmp, snap>>
       ELSE /\ snap' = tmp /\ tmp' = None
            /\ writer' = [writer EXCEPT ![w].pc = "renamed"]
    /\ UNCHANGED <<up, stopping, world, seq, index, outbox, broken, pending,
                   replies, file, synced, acked, read, crashes, saves, faults>>

\* Mutant of TruncateJournal: the flushed length is not reset.
TruncateStale(w) ==
    /\ up /\ writer[w].pc = "renamed"
    /\ pending' = After(pending, writer[w].save.seq)
    /\ file' = [i \in DOMAIN pending' |-> Line(TRUE, pending'[i], TRUE)]
    /\ writer' = [writer EXCEPT ![w] = Idle]
    /\ UNCHANGED <<up, stopping, world, seq, index, outbox, broken, replies,
                   synced, tmp, snap, acked, read, crashes, saves, faults>>

\* Another job of the market: the journal is rewritten, through a rename, from
\* the entries still in memory that the snapshot does not have.
TruncateJournal(w) ==
    /\ up /\ writer[w].pc = "renamed"
    /\ pending' = After(pending, writer[w].save.seq)
    /\ \/ /\ file' = [i \in DOMAIN pending' |-> Line(TRUE, pending'[i], TRUE)]
          /\ synced' = Len(file')
       \/ /\ "truncate" \in faults
          /\ UNCHANGED <<file, synced>>
    /\ writer' = [writer EXCEPT ![w] = Idle]
    /\ UNCHANGED <<up, stopping, world, seq, index, outbox, broken, replies,
                   tmp, snap, acked, read, crashes, saves, faults>>

-----------------------------------------------------------------------------
(* Stopping, crashing, starting *)

\* Graceful shutdown: clients are no longer served; main then saves once more.
Shutdown ==
    /\ up /\ ~stopping /\ "final" \in Writers
    /\ replies = {}
    /\ stopping' = TRUE
    /\ UNCHANGED <<up, world, seq, index, outbox, broken, pending, replies,
                   writer, disk, acked, read, crashes, saves, faults>>

\* What is left of a process that is gone.
ForgetMemory ==
    /\ up' = FALSE /\ stopping' = FALSE
    /\ world' = <<>> /\ seq' = 0 /\ index' = <<>> /\ outbox' = <<>>
    /\ broken' = FALSE /\ pending' = <<>> /\ replies' = {}
    /\ writer' = [w \in Writers |-> Idle]
    /\ UNCHANGED <<tmp, snap, acked, read, saves, faults>>

\* The process is killed between two steps, or in the middle of an append.
Kill ==
    /\ "kill" \in faults
    /\ up /\ crashes < MaxCrashes
    /\ ForgetMemory
    /\ crashes' = crashes + 1
    /\ \/ UNCHANGED file
       \/ \E c \in Commands \cup {Step} :
            /\ MayApply(c)
            /\ file' \in PartialAppend(file, Entry(seq + 1, c))
    /\ UNCHANGED synced

\* The machine loses power: lines that were not flushed are gone from some
\* point on, the first of them perhaps half written; what is left is on disk.
PowerLoss ==
    /\ "power" \in faults
    /\ up /\ crashes < MaxCrashes
    /\ ForgetMemory
    /\ crashes' = crashes + 1
    /\ \E n \in synced .. Len(file) :
         \/ file' = SubSeq(file, 1, n)
         \/ /\ "torn" \in faults /\ n < Len(file)
            /\ file' = WriteLine(SubSeq(file, 1, n), file[n + 1].entry,
                                 FALSE, FALSE)
    /\ synced' = Len(file')

\* main: with a snapshot the journal is read, replayed onto it and appended
\* to where it ends; without one the journal is deleted.  An unreadable
\* journal stops the start.
Start ==
    /\ ~up
    /\ snap # None => Readable(file)
    /\ LET market == Recoverable IN
         /\ world' = market.world /\ seq' = market.seq
         /\ index' = market.index /\ outbox' = market.outbox
    /\ IF snap = None THEN file' = <<>> /\ synced' = 0
       ELSE UNCHANGED <<file, synced>>
    /\ up' = TRUE
    /\ UNCHANGED <<stopping, broken, pending, replies, writer, tmp, snap,
                   acked, read, crashes, saves, faults>>

-----------------------------------------------------------------------------
Next ==
    \/ \E c \in Commands \cup {Step} : RunCommand(c) \/ RunCommandFails(c)
    \/ \E c \in Commands : ReplayAnswer(c) \/ Answer(c)
    \/ ReadOutbox
    \/ \E w \in Writers : TakeSave(w) \/ WriteTmp(w) \/ RenameTmp(w)
                            \/ TruncateJournal(w)
    \/ Shutdown \/ Kill \/ PowerLoss \/ Start

\* The market actor answers every job it is sent, a client retries until it
\* has an answer, and the operator restarts a server that stopped.
Fairness ==
    /\ WF_vars(Start)
    /\ \A c \in Commands : WF_vars(RunCommand(c) \/ ReplayAnswer(c))
                             /\ WF_vars(Answer(c))

Spec == Init /\ [][Next]_vars /\ Fairness
-----------------------------------------------------------------------------
(* Properties *)

TypeOK ==
    /\ up \in BOOLEAN /\ stopping \in BOOLEAN /\ broken \in BOOLEAN
    /\ world \in Seq(Commands \cup {Step})
    /\ outbox \in Seq(Commands \cup {Step})
    /\ index \in Seq(Commands) /\ Len(index) <= LogCap
    /\ seq \in Nat /\ synced \in 0 .. Len(file)
    /\ \A i \in DOMAIN file : file[i].ok => file[i].ended \/ i = Len(file)
    /\ \A w \in Writers :
         writer[w].pc \in {"idle", "taken", "written", "renamed"}
    /\ replies \subseteq Commands /\ acked \subseteq Commands

\* "Nothing this server has acknowledged is lost, whatever stops it": at
\* every instant, in the middle of a snapshot or a truncation too, the disk
\* holds every command whose response a client has.
AckedSurvives == acked \subseteq ToSet(Recoverable.world)

\* Two applications of one idempotency key never stand in one history, over
\* retries, lost responses, snapshots between the two, and restarts.
AppliedOnce ==
    \A i, j \in DOMAIN world :
        i # j /\ world[i] # Step /\ world[j] # Step
          => KeyOf[world[i]] = NoKey \/ KeyOf[world[i]] # KeyOf[world[j]]

\* The world a restart would serve is the world being served, in all four
\* parts: the market, the sequence, the idempotency index and the numbering
\* of the facts; whatever of it is in the snapshot and whatever in the file.
MemoryIsRecoverable == up /\ ~broken => Save = Recoverable

\* A consumer's cursor means what it meant before a restart: a fact it has
\* read is still the fact of that number.  Only for commands flushed before
\* their facts could be read; an engine step is not.
FlushedFactsStand ==
    LET facts == Recoverable.outbox
    IN  \A n \in DOMAIN read :
          read[n] # Step => n <= Len(facts) /\ facts[n] = read[n]

\* Every request is answered in the end, by its first run or by a retry,
\* whatever crashes come between.
RequestsAnswered ==
    \A k \in {KeyOf[c] : c \in Commands} \ {NoKey} :
        <>(\E c \in acked : KeyOf[c] = k)

\* The disk, read as a restart would read it, is a durable log.
Durable == INSTANCE DurableLog WITH log <- RecoverableWorld
ImplementsDurableLog == Durable!Spec
=============================================================================
