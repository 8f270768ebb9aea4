-------------------------------- MODULE Feed --------------------------------
(***************************************************************************)
(* The two ways out of the market.  The stream numbers every message and   *)
(* shows it to whoever may see it, best effort, with a bounded buffer to   *)
(* resume from (StreamLog and Stream in market.rs, the route in api.rs).   *)
(* The outbox keeps the facts of committed commands until the game backend *)
(* says it has acted on them (outbox.rs, announce and commit_facts in      *)
(* market.rs).  The clients and the backend are the environment: they lose *)
(* their connections, crash, and send acknowledgements late and twice.     *)
(*                                                                         *)
(* What a crash of the server does to the outbox's numbers is Journal.tla; *)
(* here a restart keeps the outbox and may change its cap.  Who owns an    *)
(* account never changes, so a message's audience is part of the message.  *)
(***************************************************************************)
EXTENDS Integers, Sequences, SequencesExt, FiniteSets, FiniteSetsExt

CONSTANTS
    Users, Nobody,          \* who may hold a stream; a stream without a key
    Clients, ViewerOf,      \* the connections' owners, and whose key each has
    FEHU_STREAM_REPLAY,     \* messages the replay buffer keeps
    CHANNEL,                \* messages the broadcast channel keeps
    PAGE,                   \* facts one read may return
    Resumes,                \* how a client tracks its place: see Greeted
    Flows,                  \* what a behaviour consists of
    MaxMessages, MaxFacts, MaxDrops, MaxCrashes, MaxRestarts    \* bounds

ASSUME FeedAssumption ==
    /\ Nobody \notin Users /\ ViewerOf \in [Clients -> Users \cup {Nobody}]
    /\ {FEHU_STREAM_REPLAY, MaxMessages, MaxFacts, MaxDrops, MaxCrashes, MaxRestarts} \subseteq Nat
    /\ {CHANNEL, PAGE} \subseteq Nat \ {0}
    /\ Resumes \in {"at_message", "at_hello"}

\* Whoever takes part in a behaviour sends messages with an audience, and sets
\* the outbox a cap.
ASSUME FlowsAssumption ==
    \A f \in Flows :
        /\ f.streams \in BOOLEAN
        /\ f.commands \subseteq Seq(SUBSET (Users \cup {Nobody}))
        /\ {f.cap} \cup f.caps \subseteq Nat

VARIABLES
    published,  \* every message's audience, in the order of their numbers
    mailbox,    \* messages on their way to the stream's actor
    clients,
    outbox,
    backend,    \* the game backend that reads the outbox
    drops,      \* connections lost so far
    flow        \* an element of Flows, the same throughout a behaviour

vars == <<published, mailbox, clients, outbox, backend, drops, flow>>
streamVars == <<published, mailbox, clients, drops>>
outboxVars == <<outbox, backend>>

None == -1

-----------------------------------------------------------------------------
(* The stream *)

Everyone == Users \cup {Nobody}

Seq1 == Len(published)      \* the last number given

\* StreamLog::recent: the oldest number the replay buffer still holds, or the
\* next one.
OldestSeq == Max({1, Seq1 - FEHU_STREAM_REPLAY + 1})

\* Audience::admits
Admits(seq, client) == ViewerOf[client] \in published[seq]

\* Mutant of Gapped: one message too generous.
GappedLate(since) == since # None /\ since + 2 < OldestSeq

Gapped(since) == since # None /\ since + 1 < OldestSeq

Replay(since) ==
    IF since = None THEN <<>>
    ELSE LET first == Max({OldestSeq, since + 1})
         IN  [i \in 1 .. Seq1 - first + 1 |-> first + i - 1]

\* Whether the channel still holds the next message this connection is due.
Overrun(k) == k.pos <= Seq1 - CHANNEL

\* What the client does with its hello: a first one, and one that says there
\* is a gap, start its view afresh (it loads the snapshots).  Later ones move
\* its place only in a client that takes every `seq` it is sent for its own.
Greeted(k, since) ==
    LET place == IF since = None \/ Resumes = "at_hello" THEN Seq1 ELSE since
        fresh == since = None \/ Gapped(since)
        start == IF since = None THEN Seq1 ELSE OldestSeq - 1
    IN  [k EXCEPT !.open = TRUE, !.pos = Seq1 + 1, !.replay = Replay(since),
                  !.seq = IF Gapped(since) /\ Resumes = "at_message" THEN start ELSE place,
                  !.from = IF fresh THEN start ELSE @,
                  !.seen = IF fresh THEN <<>> ELSE @]

\* One message shown, or passed over because it is somebody else's.
Shown(k, client, seq) ==
    IF Admits(seq, client) THEN [k EXCEPT !.seq = seq, !.seen = Append(@, seq)] ELSE k

Connect(client) ==
    /\ flow.streams /\ ~clients[client].open
    /\ clients' = [clients EXCEPT ![client] = Greeted(@, @.seq)]
    /\ UNCHANGED <<published, mailbox, drops, outboxVars, flow>>

\* What was missed first, then the live feed, which ends when it overran.
Deliver(client) ==
    LET k == clients[client]
        missed == [k EXCEPT !.replay = Tail(@)]
        live   == [k EXCEPT !.pos = @ + 1]
    IN  /\ k.open
        /\ \/ /\ k.replay # <<>>
              /\ clients' = [clients EXCEPT ![client] = Shown(missed, client, Head(k.replay))]
           \/ /\ k.replay = <<>> /\ k.pos <= Seq1 /\ ~Overrun(k)
              /\ clients' = [clients EXCEPT ![client] = Shown(live, client, k.pos)]
           \/ /\ k.replay = <<>> /\ Overrun(k)
              /\ clients' = [clients EXCEPT ![client].open = FALSE]
        /\ UNCHANGED <<published, mailbox, drops, outboxVars, flow>>

\* The connection is lost with whatever was on its way.
Drop(client) ==
    /\ clients[client].open /\ drops < MaxDrops
    /\ clients' = [clients EXCEPT ![client].open = FALSE]
    /\ drops' = drops + 1
    /\ UNCHANGED <<published, mailbox, outboxVars, flow>>

\* StreamLog::publish, a job of the stream's own actor.
Publish ==
    /\ mailbox # <<>>
    /\ published' = Append(published, Head(mailbox))
    /\ mailbox' = Tail(mailbox)
    /\ UNCHANGED <<clients, drops, outboxVars, flow>>

-----------------------------------------------------------------------------
(* The outbox *)

Latest(o) == o.next_seq - 1
Oldest(o) == IF o.entries = <<>> THEN 0 ELSE Head(o.entries)

\* Mutant of Evicted: room is made only for the next fact.
EvictedOne(o) ==
    IF Len(o.entries) <= o.cap THEN o ELSE [o EXCEPT !.entries = Tail(@)]

Evicted(o) ==
    LET over == Max({Len(o.entries) - o.cap, 0})
        gone == {i \in 1 .. over : o.entries[i] > o.cursor}
    IN  [o EXCEPT !.entries = SubSeq(@, over + 1, Len(@)),
                  !.dropped = @ + Cardinality(gone)]

\* Outbox::commit, and nothing when it is switched off.
Commit(o, facts) ==
    IF o.cap = 0 THEN o
    ELSE Evicted([o EXCEPT !.entries = @ \o [i \in 1 .. facts |-> o.next_seq + i - 1],
                           !.next_seq = @ + facts])

Ack(o, through) == [o EXCEPT !.cursor = Max({@, Min({through, Latest(o)})})]

\* Mutant of GapAfter: a page that starts one late is taken for whole.
GapAfterLate(o, after) == after + 1 < Oldest(o) - 1

GapAfter(o, after) ==
    after < Oldest(o) - 1 \/ (o.entries = <<>> /\ after < Latest(o))

\* Mutant of Page: a page with nothing in it keeps the reader at the cursor.
PageAtCursor(o, after) ==
    LET events == SelectSeq(o.entries, LAMBDA s : s > after /\ s <= after + PAGE)
    IN  [after |-> after, events |-> events, gap |-> GapAfter(o, after),
         next |-> IF events = <<>> THEN after ELSE Last(events)]

\* Outbox::page: what a read from `after` returns.  The entries are in the
\* order of their numbers, so those read already come first.
Page(o, after) ==
    LET read == Cardinality({i \in DOMAIN o.entries : o.entries[i] <= after})
        events == SubSeq(o.entries, read + 1, Min({read + PAGE, Len(o.entries)}))
    IN  [after |-> after, events |-> events, gap |-> GapAfter(o, after),
         next |-> IF events = <<>> THEN after ELSE Last(events)]

\* A command: what it announces goes to the stream at once, and to the outbox
\* when it is journaled.  One refused half-way has announced all the same.
Command ==
    \E facts \in flow.commands, accepted \in BOOLEAN :
        /\ Seq1 + Len(mailbox) + Len(facts) <= MaxMessages
        /\ Latest(outbox) + Len(facts) <= MaxFacts
        /\ mailbox' = IF flow.streams THEN mailbox \o facts ELSE mailbox
        /\ outbox' = IF accepted THEN Commit(outbox, Len(facts)) ELSE outbox
        /\ UNCHANGED <<published, clients, drops, backend, flow>>

\* A tick is for everyone and goes to the stream alone.
Tick ==
    /\ flow.streams /\ Seq1 + Len(mailbox) < MaxMessages
    /\ mailbox' = Append(mailbox, Everyone)
    /\ UNCHANGED <<published, clients, drops, outboxVars, flow>>

-----------------------------------------------------------------------------
(* The game backend *)

NoPage == [after |-> 0, events |-> <<>>, gap |-> FALSE, next |-> 0]

\* A backend with no place of its own reads from the cursor.
Read ==
    /\ backend.page = NoPage
    /\ LET page == Page(outbox, IF backend.place = None THEN outbox.cursor ELSE backend.place)
       IN  /\ page.events # <<>> \/ page.gap
           /\ backend' = [backend EXCEPT !.page = page]
    /\ UNCHANGED <<outbox, streamVars, flow>>

\* It acts on the page; told of a gap, it knows what it will never see.
Process ==
    LET page == backend.page
        unseen == IF page.gap
                  THEN page.after + 1 .. (IF page.events = <<>> THEN page.after
                                          ELSE Head(page.events) - 1)
                  ELSE {}
    IN  /\ page # NoPage
        /\ backend' = [backend EXCEPT !.page = NoPage, !.place = page.next,
                                      !.processed = @ \cup Range(page.events),
                                      !.told = @ \cup unseen]
        /\ UNCHANGED <<outbox, streamVars, flow>>

SendAck ==
    /\ backend.place # None
    /\ backend' = [backend EXCEPT !.acks = @ \cup {backend.place}]
    /\ UNCHANGED <<outbox, streamVars, flow>>

\* Acknowledgements arrive in any order and as often as they like.
AckOutbox(through) ==
    /\ through \in backend.acks
    /\ outbox' = Ack(outbox, through)
    /\ UNCHANGED <<backend, streamVars, flow>>

\* The backend forgets its place and what it had read and not acted on.
Crash ==
    /\ ~flow.streams /\ backend.crashes < MaxCrashes
    /\ backend' = [backend EXCEPT !.page = NoPage, !.place = None, !.crashes = @ + 1]
    /\ UNCHANGED <<outbox, streamVars, flow>>

\* Outbox::set_cap on the outbox a restart brings back.
Restart ==
    \E cap \in flow.caps :
        /\ outbox.restarts < MaxRestarts
        /\ outbox' = Evicted([outbox EXCEPT !.cap = cap, !.restarts = @ + 1])
        /\ UNCHANGED <<backend, streamVars, flow>>

-----------------------------------------------------------------------------

Init ==
    /\ flow \in Flows
    /\ published = <<>> /\ mailbox = <<>> /\ drops = 0
    /\ clients = [c \in Clients |-> [open |-> FALSE, seq |-> None, pos |-> 1, replay |-> <<>>,
                                     from |-> 0, seen |-> <<>>]]
    /\ outbox = [entries |-> <<>>, next_seq |-> 1, cursor |-> 0, dropped |-> 0,
                 cap |-> flow.cap, restarts |-> 0]
    /\ backend = [page |-> NoPage, place |-> None, processed |-> {}, told |-> {},
                  acks |-> {}, crashes |-> 0]

Next ==
    \/ Command \/ Tick \/ Publish
    \/ \E c \in Clients : Connect(c)
    \/ \E c \in Clients : Deliver(c)
    \/ \E c \in Clients : Drop(c)
    \/ Read \/ Process \/ SendAck \/ Crash \/ Restart
    \/ \E through \in 0 .. MaxFacts : AckOutbox(through)

Spec == Init /\ [][Next]_vars

\* The backend keeps reading, acting and acknowledging, and a request it
\* keeps sending arrives.
BackendFairness ==
    /\ WF_vars(Read) /\ WF_vars(Process) /\ WF_vars(SendAck)
    /\ \A through \in 0 .. MaxFacts : WF_vars(AckOutbox(through))

FairSpec == Spec /\ BackendFairness

-----------------------------------------------------------------------------
(* Properties *)

TypeOK ==
    /\ published \in Seq(SUBSET Everyone) /\ mailbox \in Seq(SUBSET Everyone)
    /\ \A c \in Clients :
         LET k == clients[c] IN
         /\ k.open \in BOOLEAN /\ k.seq \in {None} \cup 0 .. Seq1 /\ k.pos \in 1 .. Seq1 + 1
         /\ Range(k.replay) \subseteq 1 .. k.pos - 1 /\ Len(k.replay) <= FEHU_STREAM_REPLAY
         /\ Range(k.seen) \subseteq 1 .. Seq1
    /\ outbox.entries = [i \in 1 .. Len(outbox.entries) |->
                           Latest(outbox) - Len(outbox.entries) + i]
    /\ Len(outbox.entries) <= outbox.cap
    /\ outbox.cursor \in 0 .. Latest(outbox) /\ outbox.dropped \in 0 .. Latest(outbox)
    /\ backend.place \in {None} \cup 0 .. Latest(outbox)

\* "Every message is either in `replay` or arrives on `rx`, exactly once, in
\* order" (Stream::subscribe), and "a gap ends this connection" (the route):
\* across lost connections, overruns and resumptions, a client that resumes
\* from where it got to has been shown, in order and once, every message it
\* may see between where its view begins and where it asks to go on, and none
\* that is somebody else's, unless a hello told it to begin again.
StreamUnbroken ==
    \A c \in Clients :
        LET k == clients[c] IN
        ~k.open /\ k.seq # None =>
            /\ \A i, j \in DOMAIN k.seen : i < j => k.seen[i] < k.seen[j]
            /\ Range(k.seen) = {s \in k.from + 1 .. k.seq : Admits(s, c)}

\* "At-least-once, so a backend that dies between reading and acting sees
\* them again rather than never" (read_outbox): every fact up to the cursor
\* was acted on or reported missing to the backend, and every fact the
\* outbox no longer holds was acted on or counted as dropped.
NothingLostSilently ==
    LET kept == Range(outbox.entries) IN
    /\ \A s \in 1 .. outbox.cursor : s \in backend.processed \cup backend.told
    /\ Cardinality((1 .. Latest(outbox)) \ (kept \cup backend.processed)) <= outbox.dropped

\* A backend that keeps reading and acknowledging gets to the end of the
\* log, through its own crashes, evictions and restarts with another cap.
FactsAreAcknowledged ==
    \A s \in 1 .. MaxFacts : (Latest(outbox) >= s) ~> (outbox.cursor >= s)
=============================================================================
