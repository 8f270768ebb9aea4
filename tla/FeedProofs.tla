----------------------------- MODULE FeedProofs -----------------------------
(***************************************************************************)
(* Theorems of Feed.tla: neither way out loses anything without saying so, *)
(* for any flow of commands, any cap, page size and buffer, and any number *)
(* of clients, lost connections, crashes, restarts and acknowledgements.   *)
(*                                                                         *)
(* The two parts share the steps of the market and nothing else.  Of the   *)
(* outbox: everything up to any number the backend may ever acknowledge    *)
(* was acted on or reported missing (BackendInv).  Of the stream: between  *)
(* a client's place and the next message its connection shows it, there is *)
(* none it may see (Viewed).                                               *)
(***************************************************************************)
EXTENDS Feed, FiniteSetTheorems, SequenceTheorems, TLAPS

\* The facts that are no longer in the outbox: the oldest ones.
Gone(o) == Latest(o) - Len(o.entries)

OutboxType ==
    [entries : Seq(Nat), next_seq : Nat \ {0}, cursor : Nat, dropped : Nat,
     cap : Nat, restarts : Nat]

\* The outbox holds the latest facts without a gap (commit appends at
\* the end, evict takes from the front).
Numbered(o) ==
    /\ Len(o.entries) <= Latest(o)
    /\ \A i \in 1 .. Len(o.entries) : o.entries[i] = Gone(o) + i

\* The cursor never passes the log (Outbox::ack caps it), and no more is
\* counted as dropped than has gone.
Counted(o) == o.cursor <= Latest(o) /\ o.dropped <= Gone(o)

\* What the server keeps of the facts, within its cap.
OutboxInv ==
    /\ outbox \in OutboxType
    /\ Numbered(outbox) /\ Counted(outbox)
    /\ Len(outbox.entries) <= outbox.cap

PageType == [after : Nat, events : Seq(Nat), gap : BOOLEAN, next : Nat]

BackendType ==
    [page : PageType, place : Nat \cup {None}, processed : SUBSET Nat,
     told : SUBSET Nat, acks : SUBSET Nat, crashes : Nat]

\* The number a page goes on from.
Before(p) == p.next - Len(p.events)

\* What a page that was read says of the facts, for as long as it is on
\* its way: they are numbered without a gap, and what it passes over is
\* gone from the outbox and said to be (the `gap` of Outbox::page).
PageOK(p, o) ==
    /\ p.after <= Before(p) /\ p.next <= Latest(o)
    /\ \A i \in 1 .. Len(p.events) : p.events[i] = Before(p) + i
    /\ ~p.gap \/ p.events = <<>> => Before(p) = p.after
    /\ p.gap /\ p.events # <<>> => Before(p) <= Gone(o)

\* The backend acted on every fact up to n, or was told it will not see
\* it.
Dealt(n, b) == 1 .. n \subseteq b.processed \cup b.told

\* The facts that have gone and that the backend did not act on.
Lost(o, b) == (1 .. Gone(o)) \ b.processed

\* What makes NothingLostSilently inductive: the cursor is only one of
\* the places everything before which was dealt with.  The others are
\* where the backend stands, the page it has in hand, and each
\* acknowledgement that is still on its way.
BackendInv ==
    /\ backend \in BackendType
    /\ PageOK(backend.page, outbox) /\ Dealt(backend.page.after, backend)
    /\ Dealt(outbox.cursor, backend)
    /\ backend.place # None => backend.place <= Latest(outbox) /\ Dealt(backend.place, backend)
    /\ \A a \in backend.acks : Dealt(a, backend)
    /\ backend.told \subseteq 0 .. Gone(outbox)
    /\ Cardinality(Lost(outbox, backend)) <= outbox.dropped

ClientType ==
    [open : BOOLEAN, seq : Nat \cup {None}, pos : Nat \ {0}, replay : Seq(Nat),
     from : Nat, seen : Seq(Nat)]

\* A connection's place among n messages.
Placed(k, n) ==
    /\ k.seq # None => k.seq <= n
    /\ k.pos <= n + 1
    /\ Len(k.replay) <= FEHU_STREAM_REPLAY
    /\ \A i \in 1 .. Len(k.replay) : k.replay[i] \in 1 .. k.pos - 1
    /\ \A i \in 1 .. Len(k.seen) : k.seen[i] \in 1 .. n

StreamInv ==
    /\ published \in Seq(SUBSET Everyone) /\ mailbox \in Seq(SUBSET Everyone)
    /\ clients \in [Clients -> ClientType]
    /\ \A c \in Clients : Placed(clients[c], Seq1)
    /\ drops \in Nat

\* The inductive invariant of both ways out.
FeedInv == flow \in Flows /\ OutboxInv /\ BackendInv /\ StreamInv

\* The number of the next message this connection shows its client: the
\* first of the replay, or of the live feed (Stream::subscribe hands
\* over one where the other begins).
Coming(k) == k.pos - Len(k.replay)

\* A client's view is whole up to its place, and between its place and
\* what is coming there is nothing it may see: only so is a place that
\* counts shown messages alone one to resume from.
Viewed(k, c) ==
    /\ \A i, j \in 1 .. Len(k.seen) : i < j => k.seen[i] < k.seen[j]
    /\ k.seq # None =>
         /\ k.from <= k.seq
         /\ Range(k.seen) = {s \in k.from + 1 .. k.seq : Admits(s, c)}
    /\ k.open =>
         /\ k.seq # None /\ k.seq < Coming(k)
         /\ \A i \in 1 .. Len(k.replay) : k.replay[i] = Coming(k) + i - 1
         /\ \A s \in k.seq + 1 .. Coming(k) - 1 : ~Admits(s, c)

ViewInv == \A c \in Clients : Viewed(clients[c], c)

-----------------------------------------------------------------------------

\* The greater of two numbers.
LEMMA MaxOfTwo ==
  ASSUME NEW a \in Int, NEW b \in Int
  PROVE  Max({a, b}) = IF a >= b THEN a ELSE b
BY DEF Max

\* The lesser of two numbers.
LEMMA MinOfTwo ==
  ASSUME NEW a \in Int, NEW b \in Int
  PROVE  Min({a, b}) = IF a <= b THEN a ELSE b
BY DEF Min

\* Eviction counts positions; they are as many as the numbers past the
\* cursor that it takes away.
LEMMA CountPast ==
  ASSUME NEW g \in Nat, NEW over \in Nat, NEW cur \in Nat
  PROVE  LET here == {i \in 1 .. over : g + i > cur}
             there == {s \in g + 1 .. g + over : s > cur}
         IN  Cardinality(here) = Cardinality(there) /\ Cardinality(here) \in 0 .. over
<1> DEFINE low == IF cur >= g THEN cur - g + 1 ELSE 1
<1>1. low \in Nat /\ low >= 1 /\ (low = 1 \/ low = cur - g + 1) /\ low >= cur - g + 1
  OBVIOUS
<1> HIDE DEF low
<1>2. {i \in 1 .. over : g + i > cur} = low .. over
  BY <1>1
<1>3. {s \in g + 1 .. g + over : s > cur} = g + low .. g + over
  BY <1>1
<1>4. Cardinality(low .. over) = IF low > over THEN 0 ELSE over - low + 1
  BY <1>1, FS_Interval
<1>5. Cardinality(g + low .. g + over) = IF g + low > g + over THEN 0 ELSE (g + over) - (g + low) + 1
  BY <1>1, FS_Interval
<1>6. Cardinality(low .. over) = Cardinality(g + low .. g + over)
  BY <1>1, <1>4, <1>5
<1>7. Cardinality(low .. over) \in 0 .. over
  BY <1>1, <1>4
<1> QED BY <1>2, <1>3, <1>6, <1>7

\* How many of the facts a reader at `after` has seen already.
LEMMA CountRead ==
  ASSUME NEW g \in Nat, NEW n \in Nat, NEW after \in Nat, after <= g + n
  PROVE  Cardinality({i \in 1 .. n : g + i <= after}) = IF after >= g THEN after - g ELSE 0
<1> DEFINE top == IF after >= g THEN after - g ELSE 0
<1>1. top \in Nat /\ top <= n /\ (after >= g => top = after - g) /\ (after < g => top = 0)
  OBVIOUS
<1> HIDE DEF top
<1>2. {i \in 1 .. n : g + i <= after} = 1 .. top
  BY <1>1
<1>4. Cardinality(1 .. top) = top
  BY <1>1, FS_Interval
<1> QED BY <1>1, <1>2, <1>4 DEF top

\* A part of a sequence, element by element.
LEMMA PartIs ==
  ASSUME NEW S, NEW s \in Seq(S), NEW a \in Nat, NEW b \in Nat, a <= b, b <= Len(s)
  PROVE  /\ SubSeq(s, a + 1, b) \in Seq(S) /\ Len(SubSeq(s, a + 1, b)) = b - a
         /\ \A i \in 1 .. b - a : SubSeq(s, a + 1, b)[i] = s[a + i]
<1>1. a + 1 \in 1 .. Len(s) + 1 /\ b \in a + 1 - 1 .. Len(s)
  OBVIOUS
<1>2. CASE a + 1 <= b
  <2>1. ASSUME NEW i \in 1 .. b - a PROVE SubSeq(s, a + 1, b)[i] = s[a + i]
     BY <1>2
  <2> QED BY <1>2, <2>1
<1>3. CASE a + 1 > b
  <2>1. SubSeq(s, a + 1, b) = <<>> BY <1>3, SubSeqEmpty
  <2> QED BY <1>3, <2>1
<1> QED BY <1>2, <1>3

\* Outbox::evict keeps the facts numbered, brings them within the cap,
\* and counts as dropped exactly those that go before they were
\* acknowledged.
LEMMA EvictedIs ==
  ASSUME NEW o \in OutboxType, Numbered(o), Counted(o)
  PROVE  /\ Evicted(o) \in OutboxType
         /\ Numbered(Evicted(o)) /\ Counted(Evicted(o))
         /\ Len(Evicted(o).entries) <= o.cap
         /\ Evicted(o).cap = o.cap /\ Evicted(o).next_seq = o.next_seq
         /\ Evicted(o).cursor = o.cursor
         /\ Gone(o) <= Gone(Evicted(o))
         /\ Evicted(o).dropped =
              o.dropped + Cardinality({s \in Gone(o) + 1 .. Gone(Evicted(o)) : s > o.cursor})
<1> DEFINE n == Len(o.entries)
           over == Max({n - o.cap, 0})
           gone == {i \in 1 .. over : o.entries[i] > o.cursor}
           rest == SubSeq(o.entries, over + 1, n)
           e == [o EXCEPT !.entries = rest, !.dropped = @ + Cardinality(gone)]
           g == Gone(o)
<1>0. o.entries \in Seq(Nat) /\ n \in Nat /\ o.cap \in Nat /\ o.cursor \in Nat /\ o.dropped \in Nat
      /\ o.next_seq \in Nat \ {0} /\ o.restarts \in Nat
  BY DEF OutboxType
<1>1. Latest(o) = o.next_seq - 1 /\ Latest(o) \in Nat /\ g = Latest(o) - n /\ g \in Nat
  BY <1>0 DEF Latest, Gone, Numbered
<1>2. Evicted(o) = e
  BY DEF Evicted
<1>3. n - o.cap \in Int /\ 0 \in Int
  BY <1>0
<1>4. over = IF n - o.cap >= 0 THEN n - o.cap ELSE 0
  BY <1>3, MaxOfTwo
<1>5. over \in Nat /\ over <= n /\ n - over <= o.cap
  BY <1>0, <1>4
<1> HIDE DEF over
<1>6. rest \in Seq(Nat) /\ Len(rest) = n - over /\ \A i \in 1 .. n - over : rest[i] = o.entries[over + i]
  <2> DEFINE m == Len(o.entries)
  <2>1. m \in Nat /\ over <= m /\ m <= Len(o.entries)
    BY <1>0, <1>5
  <2> HIDE DEF m
  <2>2. /\ SubSeq(o.entries, over + 1, m) \in Seq(Nat) /\ Len(SubSeq(o.entries, over + 1, m)) = m - over
        /\ \A i \in 1 .. m - over : SubSeq(o.entries, over + 1, m)[i] = o.entries[over + i]
    BY <1>0, <1>5, <2>1, PartIs
  <2> QED BY <2>2 DEF m
<1>7. \A i \in 1 .. n : o.entries[i] = g + i
  BY DEF Numbered
<1> HIDE DEF g
<1>8. gone = {i \in 1 .. over : g + i > o.cursor}
  BY <1>0, <1>5, <1>7
<1> DEFINE there == {s \in g + 1 .. g + over : s > o.cursor}
<1>9. Cardinality(gone) = Cardinality(there) /\ Cardinality(gone) \in 0 .. over
  <2> HIDE DEF gone
  <2>1. LET here == {i \in 1 .. over : g + i > o.cursor}
        IN  Cardinality(here) = Cardinality(there) /\ Cardinality(here) \in 0 .. over
    BY <1>0, <1>1, <1>5, CountPast
  <2> QED BY <2>1, <1>8
<1> HIDE DEF gone, rest, there, n
<1>10. Cardinality(gone) \in Nat /\ Cardinality(gone) <= over
  BY <1>9, <1>5
<1>11. /\ e \in OutboxType
       /\ e.entries = rest /\ e.cap = o.cap /\ e.next_seq = o.next_seq /\ e.cursor = o.cursor
       /\ e.dropped = o.dropped + Cardinality(gone)
  <2>1. o.dropped + Cardinality(gone) \in Nat
    BY <1>0, <1>10
  <2> QED BY <1>0, <1>6, <2>1 DEF OutboxType
<1> HIDE DEF e
<1>12. Latest(e) = Latest(o) /\ Gone(e) = g + over
  BY <1>0, <1>1, <1>5, <1>6, <1>11 DEF Gone, Latest
<1>13. Numbered(e)
  <2>1. Len(e.entries) <= Latest(e)
    BY <1>0, <1>1, <1>5, <1>6, <1>11, <1>12
  <2>2. ASSUME NEW i \in 1 .. Len(e.entries)
        PROVE  e.entries[i] = Gone(e) + i
    <3>1. i \in 1 .. n - over /\ over + i \in 1 .. n
      BY <1>0, <1>5, <1>6, <1>11
    <3>2. e.entries[i] = g + (over + i)
      BY <3>1, <1>6, <1>7, <1>11
    <3> QED BY <3>1, <3>2, <1>0, <1>1, <1>5, <1>12
  <2> QED BY <2>1, <2>2 DEF Numbered
<1>14. Counted(e)
  <2>1. o.cursor <= Latest(o) /\ o.dropped <= g
    BY DEF Counted, g
  <2>2. e.cursor = o.cursor /\ e.dropped = o.dropped + Cardinality(gone)
    BY <1>11
  <2>3. o.dropped + Cardinality(gone) <= g + over
    <3> DEFINE c == Cardinality(gone)
               d == o.dropped
    <3>1. c \in Nat /\ c <= over /\ over \in Nat /\ d \in Nat /\ g \in Nat /\ d <= g
      BY <2>1, <1>0, <1>1, <1>5, <1>10
    <3> HIDE DEF c, d
    <3>2. d + c <= g + over
      BY <3>1
    <3> QED BY <3>2 DEF c, d
  <2> QED BY <2>1, <2>2, <2>3, <1>12 DEF Counted
<1>15. there = {s \in Gone(o) + 1 .. Gone(e) : s > o.cursor}
  BY <1>12 DEF there, g
<1>16. Len(e.entries) <= o.cap /\ Gone(o) <= Gone(e)
  <2>1. Len(e.entries) <= o.cap
    BY <1>0, <1>5, <1>6, <1>11
  <2>2. g <= g + over
    BY <1>1, <1>5
  <2> QED BY <2>1, <2>2, <1>12 DEF g
<1> QED BY <1>2, <1>9, <1>11, <1>13, <1>14, <1>15, <1>16

\* So does Outbox::commit, which adds facts under the next numbers
\* first; with the cap at 0 it does nothing.
LEMMA CommitIs ==
  ASSUME NEW o \in OutboxType, Numbered(o), Counted(o), Len(o.entries) <= o.cap, NEW n \in Nat
  PROVE  /\ Commit(o, n) \in OutboxType
         /\ Numbered(Commit(o, n)) /\ Counted(Commit(o, n))
         /\ Len(Commit(o, n).entries) <= Commit(o, n).cap
         /\ Latest(o) <= Latest(Commit(o, n))
         /\ Commit(o, n).cursor = o.cursor
         /\ Gone(o) <= Gone(Commit(o, n))
         /\ Commit(o, n).dropped =
              o.dropped + Cardinality({s \in Gone(o) + 1 .. Gone(Commit(o, n)) : s > o.cursor})
<1> DEFINE len == Len(o.entries)
           g == Gone(o)
<1>0. o.entries \in Seq(Nat) /\ len \in Nat /\ o.cap \in Nat /\ o.cursor \in Nat
      /\ o.dropped \in Nat /\ o.next_seq \in Nat \ {0} /\ o.restarts \in Nat
  BY DEF OutboxType
<1>1. Latest(o) = o.next_seq - 1 /\ Latest(o) \in Nat /\ g = Latest(o) - len /\ g \in Nat
  BY <1>0 DEF Latest, Gone, Numbered
<1>2. CASE o.cap = 0
  <2>1. {s \in Gone(o) + 1 .. Gone(o) : s > o.cursor} = {}
    BY <1>0, <1>1
  <2>2. Cardinality({s \in Gone(o) + 1 .. Gone(o) : s > o.cursor}) = 0
    BY <2>1, FS_EmptySet
  <2>3. Commit(o, n) = o
    BY <1>2 DEF Commit
  <2> QED BY <1>0, <1>1, <2>2, <2>3
<1>3. CASE o.cap # 0
  <2> DEFINE more == [i \in 1 .. n |-> o.next_seq + i - 1]
             all == o.entries \o more
             p == [o EXCEPT !.entries = all, !.next_seq = @ + n]
  <2>1. more \in Seq(Nat) /\ Len(more) = n /\ \A i \in 1 .. n : more[i] = o.next_seq + i - 1
    BY <1>0
  <2>4. Commit(o, n) = Evicted(p)
    BY <1>3 DEF Commit
  <2> HIDE DEF more
  <2>2. /\ all \in Seq(Nat) /\ Len(all) = len + n
        /\ \A i \in 1 .. len + n : all[i] = IF i <= len THEN o.entries[i] ELSE more[i - len]
    BY <1>0, <2>1, ConcatProperties
  <2> HIDE DEF all, len
  <2>3. /\ p \in OutboxType /\ p.entries = all /\ p.next_seq = o.next_seq + n
        /\ p.cap = o.cap /\ p.cursor = o.cursor /\ p.dropped = o.dropped
    <3>1. o.next_seq + n \in Nat \ {0}
      BY <1>0
    <3> QED BY <1>0, <2>2, <3>1 DEF OutboxType
  <2> HIDE DEF p
  <2>5. Latest(p) = Latest(o) + n /\ Gone(p) = g
    BY <2>3, <2>2, <1>0, <1>1 DEF Latest, Gone
  <2>6. Numbered(p)
    <3>1. Len(p.entries) <= Latest(p)
      BY <2>3, <2>2, <2>5, <1>0, <1>1 DEF Numbered
    <3>2. ASSUME NEW i \in 1 .. Len(p.entries)
          PROVE  p.entries[i] = g + i
      <4>0. i \in Nat /\ i >= 1 /\ i <= len + n /\ i \in 1 .. len + n
        BY <1>0, <2>2, <2>3
      <4>1. CASE i <= len
        <5>1. o.entries[i] = g + i
          BY <4>0, <4>1, <1>0 DEF Numbered, len
        <5> QED BY <4>0, <4>1, <5>1, <2>2, <2>3
      <4>2. CASE i > len
        <5>1. i - len \in 1 .. n
          BY <4>0, <4>2, <1>0
        <5>2. p.entries[i] = o.next_seq + (i - len) - 1
          BY <4>0, <4>2, <5>1, <1>0, <2>1, <2>2, <2>3
        <5> QED BY <5>2, <4>0, <1>0, <1>1
      <4> QED BY <4>0, <4>1, <4>2, <1>0
    <3> QED BY <3>1, <3>2, <2>5 DEF Numbered
  <2>7. Counted(p)
    BY <2>3, <2>5, <1>0, <1>1 DEF Counted
  <2>8. Evicted(p).next_seq = p.next_seq
    BY <2>3, <2>6, <2>7, EvictedIs
  <2>9. Latest(o) <= Latest(Evicted(p))
    BY <2>5, <2>8, <1>1 DEF Latest
  <2>10. Gone(p) = Gone(o)
    BY <2>5
  <2> HIDE DEF g
  <2> QED BY <2>3, <2>4, <2>6, <2>7, <2>9, <2>10, EvictedIs
<1> QED BY <1>2, <1>3

\* Outbox::page passes over nothing without saying so: it goes on from
\* where its reader stands, or says that there is a gap.
LEMMA PageIs ==
  ASSUME NEW o \in OutboxType, Numbered(o), NEW after \in Nat, after <= Latest(o)
  PROVE  /\ Page(o, after) \in PageType
         /\ PageOK(Page(o, after), o) /\ Page(o, after).after = after
<1> DEFINE n == Len(o.entries)
           g == Gone(o)
           read == Cardinality({i \in DOMAIN o.entries : o.entries[i] <= after})
           last == Min({read + PAGE, n})
           events == SubSeq(o.entries, read + 1, last)
           next == IF events = <<>> THEN after ELSE Last(events)
           p == [after |-> after, events |-> events, gap |-> GapAfter(o, after), next |-> next]
<1>0. o.entries \in Seq(Nat) /\ n \in Nat /\ o.next_seq \in Nat \ {0} /\ PAGE \in Nat /\ PAGE >= 1
  BY FeedAssumption DEF OutboxType
<1>1. Latest(o) = g + n /\ Latest(o) \in Nat /\ g \in Nat
  BY <1>0 DEF Latest, Gone, Numbered
<1>2. \A i \in 1 .. n : o.entries[i] = g + i
  BY DEF Numbered
<1>3. Page(o, after) = p
  BY DEF Page
<1>14. n > 0 => Oldest(o) = g + 1
  BY <1>0, <1>2 DEF Oldest
<1>a. n = 0 => o.entries = <<>>
  BY <1>0
<1>b. n > 0 => o.entries # <<>>
  BY <1>0
<1>c. GapAfter(o, after) <=> (after < Oldest(o) - 1 \/ (o.entries = <<>> /\ after < Latest(o)))
  BY DEF GapAfter
<1>d. GapAfter(o, after) \in BOOLEAN
  BY DEF GapAfter
<1> HIDE DEF g
<1>4. {i \in DOMAIN o.entries : o.entries[i] <= after} = {i \in 1 .. n : g + i <= after}
  BY <1>0, <1>2
<1>5. read = IF after >= g THEN after - g ELSE 0
  <2>1. after <= g + n
    BY <1>1
  <2> HIDE DEF n, read
  <2>2. Cardinality({i \in 1 .. n : g + i <= after}) = IF after >= g THEN after - g ELSE 0
    BY <1>0, <1>1, <2>1, CountRead
  <2>3. read = Cardinality({i \in 1 .. n : g + i <= after})
    BY <1>4 DEF read
  <2> QED BY <2>2, <2>3
<1>6. read \in Nat /\ read <= n
  BY <1>0, <1>1, <1>5
<1> HIDE DEF read
<1>7. last = IF read + PAGE <= n THEN read + PAGE ELSE n
  <2>1. read + PAGE \in Int /\ n \in Int
    BY <1>0, <1>6
  <2> QED BY <2>1, MinOfTwo
<1>8. last \in Nat /\ read <= last /\ last <= n /\ (n > read => last > read)
  BY <1>0, <1>6, <1>7
<1> HIDE DEF last
<1>9. events \in Seq(Nat) /\ Len(events) = last - read
      /\ \A i \in 1 .. last - read : events[i] = o.entries[read + i]
  BY <1>0, <1>6, <1>8, PartIs
<1>10. ASSUME NEW i \in 1 .. last - read
       PROVE  events[i] = g + read + i
  <2>1. read + i \in 1 .. n /\ i \in Nat
    BY <1>0, <1>6, <1>8
  <2> QED BY <2>1, <1>1, <1>2, <1>6, <1>9
<1> HIDE DEF events, n
<1>11. Len(events) \in Nat /\ (events = <<>> <=> Len(events) = 0)
  BY <1>9
<1>12. CASE Len(events) = 0
  <2>1. next = after /\ events = <<>>
    BY <1>11, <1>12
  <2>2. p.after = after /\ p.events = events /\ p.next = after /\ p.gap = GapAfter(o, after)
    BY <2>1
  <2>3. p \in PageType
    BY <2>1, <1>d DEF PageType
  <2> HIDE DEF p, next
  <2>4. Before(p) = after
    BY <2>2, <1>12 DEF Before
  <2>5. PageOK(p, o)
    BY <2>1, <2>2, <2>4, <1>12 DEF PageOK
  <2> QED BY <2>2, <2>3, <2>5, <1>3
<1>13. CASE Len(events) # 0
  <2>0. Len(events) >= 1 /\ last > read /\ n > 0 /\ events # <<>>
    BY <1>0, <1>6, <1>8, <1>9, <1>11, <1>13
  <2>1. next = g + last
    <3>1. next = events[Len(events)]
      BY <2>0 DEF Last
    <3>2. Len(events) \in 1 .. last - read
      BY <1>9, <1>11, <1>6, <1>8, <2>0
    <3> HIDE DEF next
    <3> QED BY <3>1, <3>2, <1>1, <1>6, <1>8, <1>9, <1>10
  <2>2. p.after = after /\ p.events = events /\ p.next = next /\ p.gap = GapAfter(o, after)
    OBVIOUS
  <2>3. next \in Nat
    BY <2>1, <1>1, <1>8
  <2> HIDE DEF next
  <2>4. p \in PageType
    BY <2>3, <1>d, <1>9 DEF PageType
  <2> HIDE DEF p
  <2>5. Before(p) = g + read
    BY <2>1, <2>2, <1>1, <1>6, <1>8, <1>9 DEF Before
  <2>6. Oldest(o) = g + 1 /\ o.entries # <<>>
    BY <2>0, <1>14, <1>b
  <2>7. GapAfter(o, after) <=> after < g
    BY <2>6, <1>c, <1>1
  <2>8. p.after <= Before(p)
    BY <2>2, <2>5, <1>5, <1>1
  <2>9. p.next <= Latest(o)
    BY <2>1, <2>2, <1>1, <1>8, <1>0
  <2>10. \A i \in 1 .. Len(p.events) : p.events[i] = Before(p) + i
    BY <2>2, <2>5, <1>9, <1>10
  <2>11. ~p.gap \/ p.events = <<>> => Before(p) = p.after
    BY <2>0, <2>2, <2>5, <2>7, <1>5, <1>1
  <2>12. p.gap /\ p.events # <<>> => Before(p) <= Gone(o)
    BY <2>2, <2>5, <2>7, <1>5, <1>1 DEF g
  <2> QED BY <2>2, <2>4, <2>8, <2>9, <2>10, <2>11, <2>12, <1>3 DEF PageOK
<1> QED BY <1>12, <1>13

\* Numbers up to n that are not in a set can be counted.
LEMMA CountedUpTo ==
  ASSUME NEW n \in Nat, NEW P
  PROVE  IsFiniteSet((1 .. n) \ P) /\ Cardinality((1 .. n) \ P) \in Nat
<1>1. IsFiniteSet(1 .. n)
  BY FS_Interval
<1> DEFINE A == (1 .. n) \ P
<1>2. A \in SUBSET (1 .. n)
  OBVIOUS
<1> HIDE DEF A
<1>3. IsFiniteSet(A) /\ Cardinality(A) \in Nat
  BY <1>1, <1>2, FS_Subset, FS_CardinalityType
<1> QED BY <1>3 DEF A

\* What is lost grows by no more than what goes without being acted on.
LEMMA LostShrinks ==
  ASSUME NEW n \in Nat, NEW m \in Nat, n <= m, NEW P, NEW Q, P \subseteq Q,
         NEW X, IsFiniteSet(X), \A s \in n + 1 .. m : s \in Q \/ s \in X
  PROVE  Cardinality((1 .. m) \ Q) <= Cardinality((1 .. n) \ P) + Cardinality(X)
<1> DEFINE A == (1 .. n) \ P
           B == (1 .. m) \ Q
<1>1. IsFiniteSet(A) /\ Cardinality(A) \in Nat
  BY CountedUpTo
<1>2. IsFiniteSet(A \cup X) /\ Cardinality(A \cup X) = Cardinality(A) + Cardinality(X) - Cardinality(A \cap X)
  BY <1>1, FS_Union
<1>3. Cardinality(A \cap X) \in Nat /\ Cardinality(X) \in Nat /\ Cardinality(A \cup X) \in Nat
  BY <1>1, <1>2, FS_Intersection, FS_CardinalityType
<1>4. B \subseteq A \cup X
  <2> SUFFICES ASSUME NEW s \in B PROVE s \in A \cup X
    OBVIOUS
  <2>1. CASE s <= n
    BY <2>1
  <2>2. CASE ~(s <= n)
    BY <2>2
  <2> QED BY <2>1, <2>2
<1>5. Cardinality(B) <= Cardinality(A \cup X) /\ Cardinality(B) \in Nat
  BY <1>2, <1>4, FS_Subset, FS_CardinalityType
<1> HIDE DEF A, B
<1>6. Cardinality(B) <= Cardinality(A) + Cardinality(X)
  BY <1>1, <1>2, <1>3, <1>5
<1> QED BY <1>6 DEF A, B

\* A backend with no page in hand.
LEMMA NothingRead ==
  ASSUME NEW o, Latest(o) \in Nat PROVE NoPage \in PageType /\ PageOK(NoPage, o)
<1>1. NoPage.after = 0 /\ NoPage.events = <<>> /\ NoPage.next = 0 /\ NoPage.gap = FALSE
  BY DEF NoPage
<1>2. Len(NoPage.events) = 0
  BY <1>1
<1>3. Before(NoPage) = 0
  <2>1. Before(NoPage) = 0 - 0
    BY <1>1, <1>2 DEF Before
  <2> QED BY <2>1
<1>4. NoPage \in PageType
  BY DEF NoPage, PageType
<1> QED BY <1>1, <1>2, <1>3, <1>4 DEF PageOK

\* What the types say of an outbox, field by field.
LEMMA OutboxFacts ==
  ASSUME NEW o \in OutboxType, Numbered(o)
  PROVE  /\ o.entries \in Seq(Nat) /\ Len(o.entries) \in Nat /\ o.cap \in Nat
         /\ o.cursor \in Nat /\ o.dropped \in Nat /\ o.next_seq \in Nat \ {0} /\ o.restarts \in Nat
         /\ Latest(o) \in Nat /\ Latest(o) = o.next_seq - 1
         /\ Gone(o) \in Nat /\ Gone(o) + Len(o.entries) = Latest(o)
  BY DEF OutboxType, Latest, Gone, Numbered

\* An outbox that evicts keeps the invariant: every fact it takes that
\* the backend did not act on is past the cursor, so it is counted.
LEMMA StepOutbox ==
  ASSUME OutboxInv, BackendInv, NEW o \in OutboxType, Numbered(o), Counted(o),
         Len(o.entries) <= o.cap, Latest(outbox) <= Latest(o), Gone(outbox) <= Gone(o),
         o.cursor = outbox.cursor,
         o.dropped = outbox.dropped +
           Cardinality({s \in Gone(outbox) + 1 .. Gone(o) : s > outbox.cursor}),
         outbox' = o, UNCHANGED backend
  PROVE  OutboxInv' /\ BackendInv'
<1>1. OutboxInv'
  BY DEF OutboxInv, Numbered, Counted, Latest, Gone
<1>2. /\ Gone(outbox) \in Nat /\ Gone(o) \in Nat /\ Latest(outbox) \in Nat /\ Latest(o) \in Nat
      /\ outbox.cursor \in Nat /\ outbox.dropped \in Nat
  BY OutboxFacts DEF OutboxInv
<1>3. backend \in BackendType
  BY DEF BackendInv
<1>4. backend.page \in PageType /\ backend.processed \subseteq Nat /\ backend.told \subseteq Nat
  BY <1>3 DEF BackendType
<1>5. PageOK(backend.page, o)
  <2>1. backend.page.next \in Nat /\ Len(backend.page.events) \in Nat /\ Before(backend.page) \in Int
    BY <1>4 DEF PageType, Before
  <2> QED BY <1>2, <2>1 DEF PageOK, BackendInv
<1>6. backend.place # None => backend.place <= Latest(o) /\ Dealt(backend.place, backend)
  BY <1>2, <1>3 DEF BackendInv, BackendType
<1>7. backend.told \subseteq 0 .. Gone(o)
  BY <1>2 DEF BackendInv
<1> DEFINE X == {s \in Gone(outbox) + 1 .. Gone(o) : s > outbox.cursor}
<1>8. IsFiniteSet(X) /\ Cardinality(X) \in Nat
  <2>1. IsFiniteSet(Gone(outbox) + 1 .. Gone(o))
    BY <1>2, FS_Interval
  <2> QED BY <2>1, FS_Subset, FS_CardinalityType
<1>9. \A s \in Gone(outbox) + 1 .. Gone(o) : s \in backend.processed \/ s \in X
  <2> SUFFICES ASSUME NEW s \in Gone(outbox) + 1 .. Gone(o), s \notin X
               PROVE  s \in backend.processed
    OBVIOUS
  <2>1. s \in 1 .. outbox.cursor
    BY <1>2
  <2>2. s \notin 0 .. Gone(outbox)
    BY <1>2
  <2> QED BY <2>1, <2>2 DEF BackendInv, Dealt
<1>10. Cardinality(Lost(o, backend)) <= o.dropped
  <2> HIDE DEF X
  <2>1. Cardinality((1 .. Gone(o)) \ backend.processed)
          <= Cardinality((1 .. Gone(outbox)) \ backend.processed) + Cardinality(X)
    BY <1>2, <1>8, <1>9, LostShrinks
  <2>2. Cardinality((1 .. Gone(outbox)) \ backend.processed) <= outbox.dropped
    BY DEF BackendInv, Lost
  <2>3. \A n \in Nat : Cardinality((1 .. n) \ backend.processed) \in Nat
    BY CountedUpTo
  <2>4. o.dropped = outbox.dropped + Cardinality(X)
    BY DEF X
  <2>5. Cardinality((1 .. Gone(o)) \ backend.processed) <= o.dropped
    <3> DEFINE after == Cardinality((1 .. Gone(o)) \ backend.processed)
               before == Cardinality((1 .. Gone(outbox)) \ backend.processed)
               more == Cardinality(X)
    <3>1. after \in Nat /\ before \in Nat /\ more \in Nat
      BY <1>2, <1>8, <2>3
    <3>2. after <= before + more /\ before <= outbox.dropped /\ o.dropped = outbox.dropped + more
      BY <2>1, <2>2, <2>4
    <3> HIDE DEF after, before, more
    <3>3. after <= o.dropped
      BY <3>1, <3>2, <1>2
    <3> QED BY <3>3 DEF after
  <2> QED BY <2>5 DEF Lost
<1>11. BackendInv'
  <2>1. Dealt(backend.page.after, backend) /\ Dealt(o.cursor, backend)
        /\ (\A a \in backend.acks : Dealt(a, backend))
    BY DEF BackendInv
  <2>2. /\ backend \in BackendType /\ PageOK(backend.page, o)
        /\ Dealt(backend.page.after, backend) /\ Dealt(o.cursor, backend)
        /\ (backend.place # None => backend.place <= Latest(o) /\ Dealt(backend.place, backend))
        /\ (\A a \in backend.acks : Dealt(a, backend))
        /\ backend.told \subseteq 0 .. Gone(o)
        /\ Cardinality(Lost(o, backend)) <= o.dropped
    BY <1>3, <1>5, <1>6, <1>7, <1>10, <2>1
  <2>3. backend' = backend /\ outbox' = o
    OBVIOUS
  <2> QED BY <2>2, <2>3 DEF BackendInv, PageOK, Dealt, Lost, Latest, Gone, Before
<1> QED BY <1>1, <1>11

\* A command's facts are committed when it is journaled (commit_facts in
\* market.rs).
LEMMA CommandFeed ==
  ASSUME FeedInv, Command PROVE OutboxInv' /\ BackendInv'
<1>1. PICK facts \in flow.commands, accepted \in BOOLEAN :
        /\ outbox' = IF accepted THEN Commit(outbox, Len(facts)) ELSE outbox
        /\ UNCHANGED backend
  BY DEF Command
<1>2. Len(facts) \in Nat
  BY FlowsAssumption DEF FeedInv
<1> DEFINE o == Commit(outbox, Len(facts))
<1>3. CASE ~accepted
  <2>1. UNCHANGED <<outbox, backend>>
    BY <1>1, <1>3
  <2> QED BY <2>1 DEF FeedInv, OutboxInv, BackendInv, PageOK, Dealt, Lost, Latest, Gone, Before,
                      Numbered, Counted
<1>4. CASE accepted
  <2>1. /\ o \in OutboxType
        /\ Numbered(o) /\ Counted(o)
        /\ Len(o.entries) <= o.cap
        /\ Latest(outbox) <= Latest(o)
        /\ o.cursor = outbox.cursor
        /\ Gone(outbox) <= Gone(o)
        /\ o.dropped =
             outbox.dropped + Cardinality({s \in Gone(outbox) + 1 .. Gone(o) : s > outbox.cursor})
    BY <1>2, CommitIs DEF FeedInv, OutboxInv
  <2>2. outbox' = o /\ UNCHANGED backend
    BY <1>1, <1>4
  <2> HIDE DEF o
  <2> QED BY <2>1, <2>2, StepOutbox DEF FeedInv
<1> QED BY <1>3, <1>4

\* A restart with another cap (Outbox::set_cap) evicts at once.
LEMMA RestartFeed ==
  ASSUME FeedInv, Restart PROVE OutboxInv' /\ BackendInv'
<1>1. PICK cap \in flow.caps :
        /\ outbox' = Evicted([outbox EXCEPT !.cap = cap, !.restarts = @ + 1])
        /\ UNCHANGED backend
  BY DEF Restart
<1> DEFINE p == [outbox EXCEPT !.cap = cap, !.restarts = @ + 1]
           o == Evicted(p)
<1>2. cap \in Nat
  BY FlowsAssumption DEF FeedInv
<1>3. outbox \in OutboxType /\ Numbered(outbox) /\ Counted(outbox)
  BY DEF FeedInv, OutboxInv
<1>4. p \in OutboxType /\ p.entries = outbox.entries /\ p.next_seq = outbox.next_seq
      /\ p.cursor = outbox.cursor /\ p.dropped = outbox.dropped /\ p.cap = cap
  <2>1. outbox.restarts + 1 \in Nat
    BY <1>3, OutboxFacts
  <2> QED BY <1>2, <1>3, <2>1 DEF OutboxType
<1> HIDE DEF p
<1>5. Latest(p) = Latest(outbox) /\ Gone(p) = Gone(outbox)
  BY <1>4 DEF Latest, Gone
<1>6. Numbered(p) /\ Counted(p)
  BY <1>3, <1>4, <1>5 DEF Numbered, Counted
<1>7. /\ o \in OutboxType
      /\ Numbered(o) /\ Counted(o)
      /\ Len(o.entries) <= p.cap
      /\ o.cap = p.cap /\ o.next_seq = p.next_seq /\ o.cursor = p.cursor
      /\ Gone(p) <= Gone(o)
      /\ o.dropped = p.dropped + Cardinality({s \in Gone(p) + 1 .. Gone(o) : s > p.cursor})
  BY <1>4, <1>6, EvictedIs
<1> HIDE DEF o
<1>8. Latest(o) = Latest(outbox) /\ Latest(o) \in Nat
  BY <1>3, <1>4, <1>7, OutboxFacts DEF Latest
<1>9. Latest(outbox) <= Latest(o)
  BY <1>8
<1>10. outbox' = o /\ UNCHANGED backend
  BY <1>1 DEF o, p
<1>11. /\ o.dropped = outbox.dropped +
             Cardinality({s \in Gone(outbox) + 1 .. Gone(o) : s > outbox.cursor})
       /\ Gone(outbox) <= Gone(o) /\ o.cursor = outbox.cursor /\ Len(o.entries) <= o.cap
  BY <1>4, <1>5, <1>7
<1> QED BY <1>7, <1>9, <1>10, <1>11, StepOutbox DEF FeedInv

\* An acknowledgement, however late and however often it arrives, moves
\* the cursor only over facts that were dealt with.
LEMMA AckFeed ==
  ASSUME FeedInv, NEW through \in Nat, AckOutbox(through) PROVE OutboxInv' /\ BackendInv'
<1> DEFINE o == Ack(outbox, through)
<1>1. outbox' = o /\ UNCHANGED backend /\ through \in backend.acks
  BY DEF AckOutbox
<1>2. outbox \in OutboxType /\ Numbered(outbox) /\ Counted(outbox)
      /\ Len(outbox.entries) <= outbox.cap
  BY DEF FeedInv, OutboxInv
<1>3. Latest(outbox) \in Nat /\ outbox.cursor \in Nat /\ outbox.cursor <= Latest(outbox)
  BY <1>2, OutboxFacts DEF Counted
<1> DEFINE low == Min({through, Latest(outbox)})
           new == Max({outbox.cursor, low})
<1>4. low \in Nat /\ low <= through /\ low <= Latest(outbox)
  <2>1. low = IF through <= Latest(outbox) THEN through ELSE Latest(outbox)
    BY <1>3, MinOfTwo
  <2> QED BY <1>3, <2>1
<1>5. new \in Nat /\ new <= Latest(outbox) /\ (new = outbox.cursor \/ new = low)
  <2> HIDE DEF low
  <2>1. new = IF outbox.cursor >= low THEN outbox.cursor ELSE low
    BY <1>3, <1>4, MaxOfTwo
  <2> QED BY <1>3, <1>4, <2>1
<1>6. o = [outbox EXCEPT !.cursor = new]
  BY DEF Ack
<1> HIDE DEF o, new, low
<1>7. o \in OutboxType /\ o.entries = outbox.entries /\ o.next_seq = outbox.next_seq
      /\ o.cursor = new /\ o.dropped = outbox.dropped /\ o.cap = outbox.cap
  BY <1>2, <1>5, <1>6 DEF OutboxType
<1>8. Latest(o) = Latest(outbox) /\ Gone(o) = Gone(outbox)
  BY <1>7 DEF Latest, Gone
<1>9. Numbered(o) /\ Counted(o)
  BY <1>2, <1>5, <1>7, <1>8 DEF Numbered, Counted
<1>10. OutboxInv'
  <2>1. o \in OutboxType /\ Numbered(o) /\ Counted(o) /\ Len(o.entries) <= o.cap
    BY <1>2, <1>7, <1>9
  <2> QED BY <1>1, <2>1 DEF OutboxInv, Numbered, Counted, Latest, Gone
<1>11. Dealt(o.cursor, backend)
  <2>1. Dealt(through, backend) /\ Dealt(outbox.cursor, backend)
    BY <1>1 DEF FeedInv, BackendInv
  <2>2. 1 .. low \subseteq 1 .. through
    BY <1>4
  <2> QED BY <1>5, <1>7, <2>1, <2>2 DEF Dealt
<1>12. BackendInv'
  <2>1. /\ backend \in BackendType /\ PageOK(backend.page, outbox)
        /\ Dealt(backend.page.after, backend)
        /\ (backend.place # None => backend.place <= Latest(outbox) /\ Dealt(backend.place, backend))
        /\ (\A a \in backend.acks : Dealt(a, backend))
        /\ backend.told \subseteq 0 .. Gone(outbox)
        /\ Cardinality(Lost(outbox, backend)) <= outbox.dropped
    BY DEF FeedInv, BackendInv
  <2>2. PageOK(backend.page, o) /\ Lost(o, backend) = Lost(outbox, backend)
    BY <1>8, <2>1 DEF PageOK, Lost
  <2>3. /\ backend \in BackendType /\ PageOK(backend.page, o)
        /\ Dealt(backend.page.after, backend) /\ Dealt(o.cursor, backend)
        /\ (backend.place # None => backend.place <= Latest(o) /\ Dealt(backend.place, backend))
        /\ (\A a \in backend.acks : Dealt(a, backend))
        /\ backend.told \subseteq 0 .. Gone(o)
        /\ Cardinality(Lost(o, backend)) <= o.dropped
    BY <2>1, <2>2, <1>7, <1>8, <1>11
  <2> QED BY <1>1, <2>3 DEF BackendInv, PageOK, Dealt, Lost, Latest, Gone, Before
<1> QED BY <1>10, <1>12

\* An outbox nothing happens to stays in order.
LEMMA OutboxStays ==
  ASSUME OutboxInv, UNCHANGED outbox PROVE OutboxInv'
BY DEF OutboxInv, Numbered, Counted, Latest, Gone

\* BackendInv for a backend as it will be.
BackendOK(b) ==
    /\ b \in BackendType
    /\ PageOK(b.page, outbox) /\ Dealt(b.page.after, b)
    /\ Dealt(outbox.cursor, b)
    /\ b.place # None => b.place <= Latest(outbox) /\ Dealt(b.place, b)
    /\ \A a \in b.acks : Dealt(a, b)
    /\ b.told \subseteq 0 .. Gone(outbox)
    /\ Cardinality(Lost(outbox, b)) <= outbox.dropped

\* A step of the backend alone.
LEMMA StepBackend ==
  ASSUME OutboxInv, NEW b, BackendOK(b), backend' = b, UNCHANGED outbox
  PROVE  OutboxInv' /\ BackendInv'
<1>1. OutboxInv'
  BY OutboxStays
<1>2. BackendInv'
  BY DEF BackendOK, BackendInv, PageOK, Dealt, Lost, Latest, Gone, Before
<1> QED BY <1>1, <1>2

\* A page read is right for as long as it is in hand: what goes
\* meanwhile is not in it to be lost.
LEMMA ReadFeed ==
  ASSUME FeedInv, Read PROVE OutboxInv' /\ BackendInv'
<1> DEFINE after == IF backend.place = None THEN outbox.cursor ELSE backend.place
           b == [backend EXCEPT !.page = Page(outbox, after)]
<1>1. backend' = b /\ UNCHANGED outbox
  BY DEF Read
<1>2. outbox \in OutboxType /\ Numbered(outbox) /\ Counted(outbox) /\ BackendInv /\ backend \in BackendType
  BY DEF FeedInv, OutboxInv, BackendInv
<1>3. after \in Nat /\ after <= Latest(outbox) /\ Dealt(after, backend)
  BY <1>2, OutboxFacts DEF BackendInv, BackendType, Counted
<1> HIDE DEF after
<1>4. /\ Page(outbox, after) \in PageType
      /\ PageOK(Page(outbox, after), outbox) /\ Page(outbox, after).after = after
  BY <1>2, <1>3, PageIs
<1>5. /\ b \in BackendType /\ b.page = Page(outbox, after) /\ b.place = backend.place
      /\ b.processed = backend.processed /\ b.told = backend.told /\ b.acks = backend.acks
  BY <1>2, <1>4 DEF BackendType
<1> HIDE DEF b
<1>6. \A n : Dealt(n, backend) => Dealt(n, b)
  BY <1>5 DEF Dealt
<1>7. Lost(outbox, b) = Lost(outbox, backend)
  BY <1>5 DEF Lost
<1>8. BackendOK(b)
  BY <1>2, <1>3, <1>4, <1>5, <1>6, <1>7 DEF BackendOK, BackendInv
<1> QED BY <1>1, <1>8, StepBackend DEF FeedInv

\* Acting on a page leaves everything up to its end dealt with: the
\* facts in it, and those it said are missing.
LEMMA ProcessFeed ==
  ASSUME FeedInv, Process PROVE OutboxInv' /\ BackendInv'
<1> DEFINE page == backend.page
           unseen == IF page.gap
                     THEN page.after + 1 .. (IF page.events = <<>> THEN page.after
                                             ELSE Head(page.events) - 1)
                     ELSE {}
           b == [backend EXCEPT !.page = NoPage, !.place = page.next,
                                !.processed = @ \cup Range(page.events),
                                !.told = @ \cup unseen]
<1>1. backend' = b /\ UNCHANGED outbox
  BY DEF Process
<1>2. outbox \in OutboxType /\ Numbered(outbox) /\ Counted(outbox) /\ BackendInv /\ backend \in BackendType
  BY DEF FeedInv, OutboxInv, BackendInv
<1>3. /\ page \in PageType /\ backend.processed \subseteq Nat /\ backend.told \subseteq Nat
      /\ backend.acks \subseteq Nat /\ backend.crashes \in Nat
      /\ backend.place \in Nat \cup {None}
  BY <1>2 DEF BackendType
<1>4. /\ page.after \in Nat /\ page.events \in Seq(Nat) /\ page.gap \in BOOLEAN /\ page.next \in Nat
      /\ Len(page.events) \in Nat
  BY <1>3 DEF PageType
<1>5. PageOK(page, outbox) /\ Dealt(page.after, backend)
  BY <1>2 DEF BackendInv
<1> DEFINE first == Before(page)
<1>6. first \in Nat /\ page.after <= first /\ page.next <= Latest(outbox)
      /\ first + Len(page.events) = page.next
  <2>1. page.after <= first /\ page.next <= Latest(outbox) /\ first = page.next - Len(page.events)
    BY <1>5 DEF PageOK, Before
  <2> HIDE DEF first, page
  <2> QED BY <2>1, <1>4
<1> HIDE DEF page
<1>7. \A i \in 1 .. Len(page.events) : page.events[i] = first + i
  BY <1>5 DEF PageOK
<1>8. \A s \in first + 1 .. page.next : s \in Range(page.events)
  <2> SUFFICES ASSUME NEW s \in first + 1 .. page.next PROVE s \in Range(page.events)
    OBVIOUS
  <2> HIDE DEF first
  <2>1. s - first \in 1 .. Len(page.events) /\ first + (s - first) = s
    BY <1>4, <1>6
  <2>2. s - first \in DOMAIN page.events
    BY <2>1, <1>4
  <2> QED BY <2>1, <2>2, <1>7 DEF Range
<1>9. Range(page.events) \subseteq Nat
  BY <1>4 DEF Range
<1>12. \A s \in page.after + 1 .. first : s \in unseen
  <2>1. CASE page.events = <<>>
    <3>1. first = page.after
      BY <1>4, <1>5, <1>6, <2>1 DEF PageOK
    <3> HIDE DEF first
    <3> QED BY <3>1, <1>4
  <2>2. CASE page.events # <<>>
    <3>1. Head(page.events) = first + 1
      BY <1>4, <1>7, <2>2
    <3>2. CASE page.gap
      BY <1>4, <1>6, <2>2, <3>1, <3>2
    <3>3. CASE ~page.gap
      <4>1. first = page.after
        BY <1>5, <2>2, <3>3 DEF PageOK
      <4> HIDE DEF first
      <4> QED BY <4>1, <1>4
    <3> QED BY <3>2, <3>3
  <2> QED BY <2>1, <2>2
<1>13. unseen \subseteq 0 .. Gone(outbox)
  <2>g. Gone(outbox) \in Nat
    BY <1>2, OutboxFacts
  <2>1. CASE page.events = <<>>
    <3>1. page.after + 1 .. page.after = {}
      BY <1>4
    <3> QED BY <2>1, <3>1
  <2>2. CASE page.events # <<>>
    <3>1. Head(page.events) = first + 1
      BY <1>4, <1>7, <2>2
    <3>2. CASE page.gap
      <4>1. first <= Gone(outbox)
        BY <1>5, <2>2, <3>2 DEF PageOK
      <4> HIDE DEF first
      <4> QED BY <2>g, <4>1, <1>4, <1>6, <2>2, <3>1, <3>2
    <3>3. CASE ~page.gap
      BY <3>3
    <3> QED BY <3>2, <3>3
  <2> QED BY <2>1, <2>2
<1> HIDE DEF unseen, first
<1>14. unseen \subseteq Nat
  <2>1. 0 .. Gone(outbox) \subseteq Nat
    BY <1>2, OutboxFacts
  <2> QED BY <1>13, <2>1
<1>15. NoPage \in PageType
  BY DEF NoPage, PageType
<1>16. /\ b \in BackendType /\ b.page = NoPage /\ b.place = page.next
       /\ b.processed = backend.processed \cup Range(page.events)
       /\ b.told = backend.told \cup unseen /\ b.acks = backend.acks
  BY <1>2, <1>3, <1>4, <1>9, <1>14, <1>15 DEF BackendType
<1> HIDE DEF b
<1>17. \A n : Dealt(n, backend) => Dealt(n, b)
  BY <1>16 DEF Dealt
<1>18. Dealt(page.next, b)
  <2> SUFFICES ASSUME NEW s \in 1 .. page.next PROVE s \in b.processed \cup b.told
    BY DEF Dealt
  <2>1. CASE s <= page.after
    <3>1. s \in 1 .. page.after
      BY <2>1, <1>4
    <3> QED BY <3>1, <1>5, <1>17 DEF Dealt
  <2>2. CASE s > page.after /\ s <= first
    <3>1. s \in page.after + 1 .. first
      BY <2>2, <1>4, <1>6
    <3> QED BY <3>1, <1>12, <1>16
  <2>3. CASE s > first
    <3>1. s \in first + 1 .. page.next
      BY <2>3, <1>4, <1>6
    <3> QED BY <3>1, <1>8, <1>16
  <2> QED BY <2>1, <2>2, <2>3, <1>4, <1>6
<1>19. PageOK(NoPage, outbox) /\ Dealt(NoPage.after, b)
  <2>1. Latest(outbox) \in Nat
    BY <1>2, OutboxFacts
  <2>2. Dealt(NoPage.after, b)
    BY DEF NoPage, Dealt
  <2> QED BY <2>1, <2>2, NothingRead
<1>20. Cardinality(Lost(outbox, b)) <= outbox.dropped
  <2>1. Lost(outbox, b) \subseteq Lost(outbox, backend)
    BY <1>16 DEF Lost
  <2>2. IsFiniteSet(Lost(outbox, backend))
    <3>1. IsFiniteSet(1 .. Gone(outbox))
      BY <1>2, OutboxFacts, FS_Interval
    <3> QED BY <3>1, FS_Subset DEF Lost
  <2>3. /\ Cardinality(Lost(outbox, b)) <= Cardinality(Lost(outbox, backend))
        /\ Cardinality(Lost(outbox, b)) \in Nat /\ Cardinality(Lost(outbox, backend)) \in Nat
    BY <2>1, <2>2, FS_Subset, FS_CardinalityType
  <2>4. Cardinality(Lost(outbox, backend)) <= outbox.dropped /\ outbox.dropped \in Nat
    BY <1>2, OutboxFacts DEF BackendInv
  <2> QED BY <2>3, <2>4
<1>21. BackendOK(b)
  BY <1>2, <1>6, <1>13, <1>16, <1>17, <1>18, <1>19, <1>20 DEF BackendOK, BackendInv
<1> QED BY <1>1, <1>21, StepBackend DEF FeedInv

\* The backend acknowledges where it stands.
LEMMA SendAckFeed ==
  ASSUME FeedInv, SendAck PROVE OutboxInv' /\ BackendInv'
<1> DEFINE b == [backend EXCEPT !.acks = @ \cup {backend.place}]
<1>1. backend' = b /\ UNCHANGED outbox /\ backend.place # None
  BY DEF SendAck
<1>2. BackendInv /\ backend \in BackendType
  BY DEF FeedInv, BackendInv
<1>3. /\ b \in BackendType /\ b.page = backend.page /\ b.place = backend.place
      /\ b.processed = backend.processed /\ b.told = backend.told
      /\ b.acks = backend.acks \cup {backend.place}
  BY <1>1, <1>2 DEF BackendType
<1> HIDE DEF b
<1>4. \A n : Dealt(n, backend) => Dealt(n, b)
  BY <1>3 DEF Dealt
<1>5. Lost(outbox, b) = Lost(outbox, backend)
  BY <1>3 DEF Lost
<1>6. BackendOK(b)
  BY <1>1, <1>2, <1>3, <1>4, <1>5 DEF BackendOK, BackendInv
<1> QED BY <1>1, <1>6, StepBackend DEF FeedInv

\* A backend that crashes forgets its place, and begins again from the
\* cursor.
LEMMA CrashFeed ==
  ASSUME FeedInv, Crash PROVE OutboxInv' /\ BackendInv'
<1> DEFINE b == [backend EXCEPT !.page = NoPage, !.place = None, !.crashes = @ + 1]
<1>1. backend' = b /\ UNCHANGED outbox
  BY DEF Crash
<1>2. BackendInv /\ backend \in BackendType
  BY DEF FeedInv, BackendInv
<1>a. outbox \in OutboxType /\ Numbered(outbox)
  BY DEF FeedInv, OutboxInv
<1>b. NoPage \in PageType
  BY DEF NoPage, PageType
<1>3. /\ b \in BackendType /\ b.page = NoPage /\ b.place = None
      /\ b.processed = backend.processed /\ b.told = backend.told
      /\ b.acks = backend.acks
  <2>1. backend.crashes + 1 \in Nat
    BY <1>2 DEF BackendType
  <2> QED BY <1>2, <1>b, <2>1 DEF BackendType
<1> HIDE DEF b
<1>4. \A n : Dealt(n, backend) => Dealt(n, b)
  BY <1>3 DEF Dealt
<1>5. Lost(outbox, b) = Lost(outbox, backend)
  BY <1>3 DEF Lost
<1>6. PageOK(NoPage, outbox) /\ Dealt(NoPage.after, b)
  <2>1. Latest(outbox) \in Nat
    BY <1>a, OutboxFacts
  <2>2. Dealt(NoPage.after, b)
    BY DEF NoPage, Dealt
  <2> QED BY <2>1, <2>2, NothingRead
<1>7. BackendOK(b)
  BY <1>1, <1>2, <1>3, <1>4, <1>5, <1>6 DEF BackendOK, BackendInv
<1> QED BY <1>1, <1>7, StepBackend DEF FeedInv

\* What happens to the stream leaves the outbox and its backend alone.
LEMMA OutboxFrame ==
  ASSUME OutboxInv, BackendInv, UNCHANGED outboxVars
  PROVE  OutboxInv' /\ BackendInv'
BY DEF outboxVars, OutboxInv, BackendInv, PageOK, Dealt, Lost, Latest, Gone, Before, Numbered, Counted

-----------------------------------------------------------------------------

\* The oldest message the replay buffer holds (StreamLog::recent).
LEMMA OldestIs ==
  ASSUME StreamInv
  PROVE  /\ Seq1 \in Nat /\ OldestSeq \in Nat /\ OldestSeq >= 1 /\ OldestSeq <= Seq1 + 1
         /\ Seq1 - OldestSeq + 1 <= FEHU_STREAM_REPLAY
         /\ FEHU_STREAM_REPLAY \in Nat
<1>1. Seq1 \in Nat /\ FEHU_STREAM_REPLAY \in Nat
  BY FeedAssumption DEF StreamInv, Seq1
<1>2. 1 \in Int /\ Seq1 - FEHU_STREAM_REPLAY + 1 \in Int
  BY <1>1
<1> DEFINE t == Seq1 - FEHU_STREAM_REPLAY + 1
<1>3. OldestSeq = IF 1 >= t THEN 1 ELSE t
  <2>1. OldestSeq = Max({1, t})
    BY DEF OldestSeq
  <2>2. t \in Int
    BY <1>2
  <2> HIDE DEF t
  <2> QED BY <2>1, <2>2, MaxOfTwo
<1> HIDE DEF Seq1, OldestSeq
<1> QED BY <1>1, <1>3

\* A resumption is given every message from its place on, or from the
\* oldest kept.
LEMMA ReplayIs ==
  ASSUME StreamInv, NEW since \in Nat, since <= Seq1
  PROVE  LET first == IF OldestSeq >= since + 1 THEN OldestSeq ELSE since + 1
         IN  /\ Replay(since) \in Seq(Nat) /\ Len(Replay(since)) = Seq1 - first + 1
             /\ \A i \in 1 .. Len(Replay(since)) : Replay(since)[i] = first + i - 1
             /\ first \in Nat /\ first >= 1 /\ first <= Seq1 + 1
             /\ Seq1 - first + 1 <= FEHU_STREAM_REPLAY
<1> DEFINE first == IF OldestSeq >= since + 1 THEN OldestSeq ELSE since + 1
<1>1. /\ Seq1 \in Nat /\ OldestSeq \in Nat /\ OldestSeq >= 1 /\ OldestSeq <= Seq1 + 1
      /\ Seq1 - OldestSeq + 1 <= FEHU_STREAM_REPLAY /\ FEHU_STREAM_REPLAY \in Nat
  BY OldestIs
<1> HIDE DEF Seq1, OldestSeq
<1>2. since # None
  BY DEF None
<1>3. Max({OldestSeq, since + 1}) = first
  <2> DEFINE t == since + 1
  <2>1. t \in Int /\ OldestSeq \in Int
    BY <1>1
  <2>2. first = IF OldestSeq >= t THEN OldestSeq ELSE t
    OBVIOUS
  <2>3. Max({OldestSeq, since + 1}) = Max({OldestSeq, t})
    OBVIOUS
  <2> HIDE DEF t, first
  <2> QED BY <2>1, <2>2, <2>3, MaxOfTwo
<1>4. first \in Nat /\ first >= 1 /\ first <= Seq1 + 1 /\ Seq1 - first + 1 <= FEHU_STREAM_REPLAY
  BY <1>1
<1> HIDE DEF first
<1>5. Replay(since) = [i \in 1 .. Seq1 - first + 1 |-> first + i - 1]
  BY <1>2, <1>3 DEF Replay
<1> DEFINE n == Seq1 - first + 1
<1>6. n \in Nat /\ n = Seq1 - first + 1
  BY <1>1, <1>4
<1> HIDE DEF n
<1>7. Replay(since) = [i \in 1 .. n |-> first + i - 1]
  BY <1>5, <1>6
<1>8. \A i \in 1 .. n : first + i - 1 \in Nat
  BY <1>4, <1>6
<1>9. Replay(since) \in Seq(Nat) /\ Len(Replay(since)) = n
      /\ \A i \in 1 .. n : Replay(since)[i] = first + i - 1
  BY <1>6, <1>7, <1>8
<1> QED BY <1>4, <1>6, <1>9 DEF first

\* A client that was greeted has a place no later than the latest message.
LEMMA GreetedTyped ==
  ASSUME StreamInv, NEW k \in ClientType, Placed(k, Seq1)
  PROVE  Greeted(k, k.seq) \in ClientType /\ Placed(Greeted(k, k.seq), Seq1)
<1> DEFINE since == k.seq
           place == IF since = None \/ Resumes = "at_hello" THEN Seq1 ELSE since
           fresh == since = None \/ Gapped(since)
           start == IF since = None THEN Seq1 ELSE OldestSeq - 1
           seq == IF Gapped(since) /\ Resumes = "at_message" THEN start ELSE place
           from == IF fresh THEN start ELSE k.from
           seen == IF fresh THEN <<>> ELSE k.seen
           g == [k EXCEPT !.open = TRUE, !.pos = Seq1 + 1, !.replay = Replay(since),
                          !.seq = seq, !.from = from, !.seen = seen]
<1>1. Greeted(k, k.seq) = g
  BY DEF Greeted
<1>2. /\ k.open \in BOOLEAN /\ k.seq \in Nat \cup {None} /\ k.pos \in Nat /\ k.replay \in Seq(Nat)
      /\ k.from \in Nat /\ k.seen \in Seq(Nat)
  BY DEF ClientType
<1>3. /\ Seq1 \in Nat /\ OldestSeq \in Nat /\ OldestSeq >= 1 /\ OldestSeq <= Seq1 + 1
      /\ Seq1 - OldestSeq + 1 <= FEHU_STREAM_REPLAY /\ FEHU_STREAM_REPLAY \in Nat
  BY OldestIs
<1>4. since # None => since <= Seq1
  BY DEF Placed
<1>5. /\ Replay(since) \in Seq(Nat) /\ Len(Replay(since)) <= FEHU_STREAM_REPLAY
      /\ \A i \in 1 .. Len(Replay(since)) : Replay(since)[i] \in 1 .. Seq1
  <2>1. CASE since = None
    <3>1. Replay(since) = <<>>
      BY <2>1 DEF Replay
    <3> QED BY <3>1, <1>3
  <2>2. CASE since # None
    <3> DEFINE first == IF OldestSeq >= since + 1 THEN OldestSeq ELSE since + 1
    <3>1. /\ Replay(since) \in Seq(Nat) /\ Len(Replay(since)) = Seq1 - first + 1
          /\ \A i \in 1 .. Len(Replay(since)) : Replay(since)[i] = first + i - 1
          /\ first \in Nat /\ first >= 1 /\ first <= Seq1 + 1
          /\ Seq1 - first + 1 <= FEHU_STREAM_REPLAY
      BY <1>2, <1>4, <2>2, ReplayIs
    <3> HIDE DEF first, since, Seq1
    <3> QED BY <3>1, <1>3
  <2> QED BY <2>1, <2>2
<1> HIDE DEF Seq1, OldestSeq
<1>6. start \in Nat /\ start <= Seq1
  BY <1>3
<1>7. place \in Nat /\ place <= Seq1
  BY <1>2, <1>3, <1>4
<1>8. seq \in Nat /\ seq <= Seq1
  BY <1>6, <1>7
<1>9. from \in Nat
  BY <1>2, <1>6
<1>10. seen \in Seq(Nat) /\ \A i \in 1 .. Len(seen) : seen[i] \in 1 .. Seq1
  <2>1. \A i \in 1 .. Len(k.seen) : k.seen[i] \in 1 .. Seq1
    BY DEF Placed
  <2>2. CASE fresh
    BY <2>2
  <2>3. CASE ~fresh
    BY <1>2, <2>1, <2>3
  <2> QED BY <2>2, <2>3
<1> HIDE DEF seq, from, seen
<1>11. /\ g \in ClientType /\ g.seq = seq /\ g.pos = Seq1 + 1 /\ g.replay = Replay(since)
       /\ g.seen = seen
  <2>1. Seq1 + 1 \in Nat \ {0}
    BY <1>3
  <2> QED BY <1>2, <1>5, <1>8, <1>9, <1>10, <2>1 DEF ClientType
<1> HIDE DEF g
<1>12. Placed(g, Seq1)
  <2>1. Seq1 + 1 - 1 = Seq1 /\ Seq1 + 1 <= Seq1 + 1
    BY <1>3
  <2>2. g.pos - 1 = Seq1 /\ g.pos <= Seq1 + 1 /\ g.seq <= Seq1
    <3>1. g.pos = Seq1 + 1 /\ g.seq = seq
      BY <1>11
    <3> HIDE DEF since
    <3> QED BY <3>1, <1>3, <1>8
  <2>3. Len(g.replay) <= FEHU_STREAM_REPLAY /\ \A i \in 1 .. Len(g.replay) : g.replay[i] \in 1 .. Seq1
    BY <1>5, <1>11
  <2>4. \A i \in 1 .. Len(g.seen) : g.seen[i] \in 1 .. Seq1
    BY <1>10, <1>11
  <2> QED BY <2>2, <2>3, <2>4 DEF Placed
<1> QED BY <1>1, <1>11, <1>12

\* So has one that was shown a message.
LEMMA ShownTyped ==
  ASSUME NEW n \in Nat, NEW k \in ClientType, Placed(k, n), NEW c, NEW s \in 1 .. n
  PROVE  Shown(k, c, s) \in ClientType /\ Placed(Shown(k, c, s), n)
<1>1. CASE ~Admits(s, c)
  BY <1>1 DEF Shown
<1>2. CASE Admits(s, c)
  <2> DEFINE seen == Append(k.seen, s)
             e == [k EXCEPT !.seq = s, !.seen = seen]
  <2>1. Shown(k, c, s) = e
    BY <1>2 DEF Shown
  <2>2. k.seen \in Seq(Nat) /\ Len(k.seen) \in Nat /\ s \in Nat
    BY DEF ClientType
  <2>3. seen \in Seq(Nat) /\ Len(seen) = Len(k.seen) + 1
        /\ \A i \in 1 .. Len(k.seen) + 1 : seen[i] = IF i <= Len(k.seen) THEN k.seen[i] ELSE s
    BY <2>2
  <2> HIDE DEF seen
  <2>4. /\ e \in ClientType /\ e.seq = s /\ e.pos = k.pos /\ e.replay = k.replay /\ e.seen = seen
    BY <2>2, <2>3 DEF ClientType
  <2> HIDE DEF e
  <2>5. \A i \in 1 .. Len(seen) : seen[i] \in 1 .. n
    <3>1. \A i \in 1 .. Len(k.seen) : k.seen[i] \in 1 .. n
      BY DEF Placed
    <3>2. ASSUME NEW i \in 1 .. Len(seen) PROVE seen[i] \in 1 .. n
      <4>1. i \in 1 .. Len(k.seen) + 1 /\ (i <= Len(k.seen) => i \in 1 .. Len(k.seen))
        BY <2>2, <2>3
      <4> QED BY <4>1, <3>1, <2>3
    <3> QED BY <3>2
  <2>6. Placed(e, n)
    BY <2>4, <2>5 DEF Placed
  <2> QED BY <2>1, <2>4, <2>6
<1> QED BY <1>1, <1>2

\* A step of one connection keeps the types.
LEMMA StepClient ==
  ASSUME StreamInv, NEW c \in Clients, NEW k \in ClientType, Placed(k, Seq1),
         clients' = [clients EXCEPT ![c] = k], UNCHANGED <<published, mailbox>>, drops' \in Nat
  PROVE  StreamInv'
<1>1. clients' \in [Clients -> ClientType]
  BY DEF StreamInv
<1>2. Seq1' = Seq1 /\ Everyone' = Everyone
  BY DEF Seq1, Everyone
<1>3. ASSUME NEW d \in Clients PROVE Placed(clients'[d], Seq1)
  <2>1. CASE d = c
    BY <2>1 DEF StreamInv
  <2>2. CASE d # c
    BY <2>2 DEF StreamInv
  <2> QED BY <2>1, <2>2
<1> QED BY <1>1, <1>2, <1>3 DEF StreamInv, Placed

\* Connecting keeps every place in its type.
LEMMA ConnectStream ==
  ASSUME StreamInv, NEW c \in Clients, Connect(c) PROVE StreamInv'
<1>1. clients[c] \in ClientType /\ Placed(clients[c], Seq1)
  BY DEF StreamInv
<1>2. clients' = [clients EXCEPT ![c] = Greeted(clients[c], clients[c].seq)]
      /\ UNCHANGED <<published, mailbox, drops>>
  BY DEF Connect
<1>3. drops' \in Nat
  BY <1>2 DEF StreamInv
<1> QED BY <1>1, <1>2, <1>3, GreetedTyped, StepClient

\* So does a delivery, from the replay or live.
LEMMA DeliverStream ==
  ASSUME StreamInv, NEW c \in Clients, Deliver(c) PROVE StreamInv'
<1> DEFINE k == clients[c]
           missed == [k EXCEPT !.replay = Tail(@)]
           live   == [k EXCEPT !.pos = @ + 1]
           shut   == [k EXCEPT !.open = FALSE]
<1>1. k \in ClientType /\ Placed(k, Seq1) /\ Seq1 \in Nat
  BY DEF StreamInv, Seq1
<1>2. UNCHANGED <<published, mailbox, drops>> /\ drops' \in Nat
  BY DEF Deliver, StreamInv
<1>3. /\ k.open \in BOOLEAN /\ k.seq \in Nat \cup {None} /\ k.pos \in Nat \ {0} /\ k.replay \in Seq(Nat)
      /\ k.from \in Nat /\ k.seen \in Seq(Nat)
  BY <1>1 DEF ClientType
<1>4. CASE k.replay # <<>> /\ clients' = [clients EXCEPT ![c] = Shown(missed, c, Head(k.replay))]
  <2>1. Tail(k.replay) \in Seq(Nat) /\ Len(Tail(k.replay)) = Len(k.replay) - 1
        /\ \A i \in 1 .. Len(k.replay) - 1 : Tail(k.replay)[i] = k.replay[i + 1]
    BY <1>3, <1>4, HeadTailProperties
  <2>2. Len(k.replay) \in Nat /\ Len(k.replay) >= 1 /\ Head(k.replay) = k.replay[1]
    BY <1>3, <1>4
  <2>3. \A i \in 1 .. Len(k.replay) : k.replay[i] \in 1 .. k.pos - 1
    BY <1>1 DEF Placed
  <2>4. Head(k.replay) \in 1 .. Seq1
    <3>1. k.pos <= Seq1 + 1
      BY <1>1 DEF Placed
    <3> QED BY <2>2, <2>3, <3>1, <1>1, <1>3
  <2>5. missed \in ClientType /\ missed.replay = Tail(k.replay) /\ missed.pos = k.pos
        /\ missed.seq = k.seq /\ missed.seen = k.seen
    BY <1>1, <1>3, <2>1 DEF ClientType
  <2> HIDE DEF missed
  <2>6. Placed(missed, Seq1)
    <3>1. Len(missed.replay) <= FEHU_STREAM_REPLAY
      <4>1. FEHU_STREAM_REPLAY \in Nat
        BY FeedAssumption
      <4> QED BY <4>1, <1>1, <2>1, <2>2, <2>5 DEF Placed
    <3>2. \A i \in 1 .. Len(missed.replay) : missed.replay[i] \in 1 .. missed.pos - 1
      <4> SUFFICES ASSUME NEW i \in 1 .. Len(k.replay) - 1
                   PROVE  Tail(k.replay)[i] \in 1 .. k.pos - 1
        BY <2>1, <2>5
      <4>1. i + 1 \in 1 .. Len(k.replay)
        BY <2>2
      <4> QED BY <4>1, <2>1, <2>3
    <3> QED BY <3>1, <3>2, <1>1, <2>5 DEF Placed
  <2> QED BY <1>1, <1>2, <1>4, <2>4, <2>5, <2>6, ShownTyped, StepClient
<1>5. CASE /\ k.replay = <<>> /\ k.pos <= Seq1
           /\ clients' = [clients EXCEPT ![c] = Shown(live, c, k.pos)]
  <2>1. live \in ClientType /\ live.replay = k.replay /\ live.pos = k.pos + 1
        /\ live.seq = k.seq /\ live.seen = k.seen
    <3>1. k.pos + 1 \in Nat \ {0}
      BY <1>3
    <3> QED BY <1>1, <1>3, <3>1 DEF ClientType
  <2> HIDE DEF live
  <2>2. Len(live.replay) = 0
    BY <1>5, <2>1
  <2>3. live.pos <= Seq1 + 1
    BY <1>1, <1>3, <1>5, <2>1
  <2>4. Placed(live, Seq1)
    <3>1. FEHU_STREAM_REPLAY \in Nat
      BY FeedAssumption
    <3> QED BY <3>1, <1>1, <2>1, <2>2, <2>3 DEF Placed
  <2>5. k.pos \in 1 .. Seq1
    BY <1>1, <1>3, <1>5
  <2> QED BY <1>1, <1>2, <1>5, <2>1, <2>4, <2>5, ShownTyped, StepClient
<1>6. CASE clients' = [clients EXCEPT ![c].open = FALSE]
  <2>1. clients' = [clients EXCEPT ![c] = shut]
    BY <1>6
  <2>2. shut \in ClientType /\ shut.replay = k.replay /\ shut.pos = k.pos
        /\ shut.seq = k.seq /\ shut.seen = k.seen
    BY <1>1, <1>3 DEF ClientType
  <2> HIDE DEF shut
  <2>3. Placed(shut, Seq1)
    BY <1>1, <2>2 DEF Placed
  <2> QED BY <1>1, <1>2, <2>1, <2>2, <2>3, StepClient
<1> QED BY <1>4, <1>5, <1>6 DEF Deliver

\* A lost connection keeps its client's place.
LEMMA DropStream ==
  ASSUME StreamInv, NEW c \in Clients, Drop(c) PROVE StreamInv'
<1> DEFINE k == clients[c]
           shut   == [k EXCEPT !.open = FALSE]
<1>1. k \in ClientType /\ Placed(k, Seq1)
  BY DEF StreamInv
<1>2. UNCHANGED <<published, mailbox>> /\ drops' \in Nat /\ clients' = [clients EXCEPT ![c] = shut]
  BY DEF Drop, StreamInv
<1>3. shut \in ClientType /\ shut.replay = k.replay /\ shut.pos = k.pos
        /\ shut.seq = k.seq /\ shut.seen = k.seen
  BY <1>1 DEF ClientType
<1> HIDE DEF shut
<1>4. Placed(shut, Seq1)
  BY <1>1, <1>3 DEF Placed
<1> QED BY <1>1, <1>2, <1>3, <1>4, StepClient

\* Publishing a message leaves every connection's place where it was.
LEMMA PublishStream ==
  ASSUME StreamInv, Publish PROVE StreamInv'
<1>1. /\ mailbox # <<>> /\ published' = Append(published, Head(mailbox)) /\ mailbox' = Tail(mailbox)
      /\ UNCHANGED <<clients, drops>>
  BY DEF Publish
<1>2. published' \in Seq(SUBSET Everyone) /\ mailbox' \in Seq(SUBSET Everyone)
      /\ Len(published') = Len(published) + 1 /\ Len(published) \in Nat
  BY <1>1 DEF StreamInv
<1>3. Seq1' = Seq1 + 1 /\ Seq1 \in Nat
  BY <1>2 DEF Seq1
<1>4. ASSUME NEW c \in Clients PROVE Placed(clients[c], Seq1 + 1)
  <2>1. clients[c] \in ClientType /\ Placed(clients[c], Seq1)
    BY DEF StreamInv
  <2>2. clients[c].seq \in Nat \cup {None} /\ clients[c].pos \in Nat
    BY <2>1 DEF ClientType
  <2> HIDE DEF Seq1
  <2> QED BY <2>1, <2>2, <1>3 DEF Placed
<1>5. \A c \in Clients : Placed(clients'[c], Seq1')
  BY <1>1, <1>3, <1>4
<1> QED BY <1>1, <1>2, <1>5 DEF StreamInv, Everyone, Placed

\* What waits for the stream actor has no place in a client's view yet.
LEMMA MailboxStream ==
  ASSUME StreamInv, mailbox' \in Seq(SUBSET Everyone), UNCHANGED <<published, clients, drops>>
  PROVE  StreamInv'
BY DEF StreamInv, Everyone, Placed, Seq1

-----------------------------------------------------------------------------

\* What there is to show for an open connection's view.
LEMMA ViewOf ==
  ASSUME NEW k, NEW c, k.seq # None, k.from <= k.seq, k.seq < Coming(k),
         \A i, j \in 1 .. Len(k.seen) : i < j => k.seen[i] < k.seen[j],
         Range(k.seen) = {s \in k.from + 1 .. k.seq : Admits(s, c)},
         \A i \in 1 .. Len(k.replay) : k.replay[i] = Coming(k) + i - 1,
         \A s \in k.seq + 1 .. Coming(k) - 1 : ~Admits(s, c)
  PROVE  Viewed(k, c)
BY Zenon DEF Viewed

\* A hello that says there is no gap goes on from the client's place,
\* and the replay begins right there; one that says there is a gap
\* begins the view afresh at the oldest message kept
\* (Stream::subscribe).
LEMMA GreetedViewed ==
  ASSUME StreamInv, Resumes = "at_message", NEW c \in Clients, NEW k \in ClientType,
         Placed(k, Seq1), Viewed(k, c)
  PROVE  Viewed(Greeted(k, k.seq), c)
<1> DEFINE g == Greeted(k, k.seq)
           since == k.seq
<1> SUFFICES Viewed(g, c)
  OBVIOUS
<1>1. /\ k.open \in BOOLEAN /\ k.seq \in Nat \cup {None} /\ k.pos \in Nat /\ k.replay \in Seq(Nat)
      /\ k.from \in Nat /\ k.seen \in Seq(Nat)
  BY DEF ClientType
<1>2. /\ Seq1 \in Nat /\ OldestSeq \in Nat /\ OldestSeq >= 1 /\ OldestSeq <= Seq1 + 1
  BY OldestIs
<1>3. since # None => since <= Seq1 /\ since \in Nat
  BY <1>1 DEF Placed
<1>4. /\ g.open = TRUE /\ g.pos = Seq1 + 1 /\ g.replay = Replay(since)
      /\ g.seq = (IF Gapped(since) /\ Resumes = "at_message"
                  THEN (IF since = None THEN Seq1 ELSE OldestSeq - 1)
                  ELSE IF since = None \/ Resumes = "at_hello" THEN Seq1 ELSE since)
      /\ g.from = (IF since = None \/ Gapped(since)
                   THEN (IF since = None THEN Seq1 ELSE OldestSeq - 1) ELSE k.from)
      /\ g.seen = (IF since = None \/ Gapped(since) THEN <<>> ELSE k.seen)
  BY DEF Greeted, ClientType
<1> HIDE DEF g, Seq1, OldestSeq
<1>5. Gapped(since) <=> since # None /\ since + 1 < OldestSeq
  BY DEF Gapped
<1> DEFINE e == <<>>
<1>6. Range(e) = {} /\ \A i, j \in 1 .. Len(e) : i < j => e[i] < e[j]
  BY DEF Range
<1>7. CASE since = None
  <2>1. Replay(since) = <<>>
    BY <1>7 DEF Replay
  <2>2. g.seq = Seq1 /\ g.from = Seq1 /\ g.seen = e /\ g.replay = <<>>
    BY <1>4, <1>5, <1>7, <2>1
  <2>3. Coming(g) = Seq1 + 1
    BY <1>2, <1>4, <2>2 DEF Coming
  <2>4. Seq1 # None /\ Len(g.replay) = 0
    BY <1>2, <2>2 DEF None
  <2>5. {s \in Seq1 + 1 .. Seq1 : Admits(s, c)} = {}
    BY <1>2
  <2>6. Seq1 + 1 .. Coming(g) - 1 = {}
    BY <1>2, <2>3
  <2> HIDE DEF e
  <2>7. g.seq # None /\ g.from <= g.seq /\ g.seq < Coming(g)
    BY <1>2, <2>2, <2>3, <2>4
  <2>8. /\ \A i, j \in 1 .. Len(g.seen) : i < j => g.seen[i] < g.seen[j]
        /\ Range(g.seen) = {s \in g.from + 1 .. g.seq : Admits(s, c)}
    BY <1>6, <2>2, <2>5
  <2>9. /\ \A i \in 1 .. Len(g.replay) : g.replay[i] = Coming(g) + i - 1
        /\ \A s \in g.seq + 1 .. Coming(g) - 1 : ~Admits(s, c)
    BY <2>2, <2>4, <2>6
  <2> QED BY <2>7, <2>8, <2>9, ViewOf
<1>8. CASE since # None
  <2> DEFINE first == IF OldestSeq >= since + 1 THEN OldestSeq ELSE since + 1
  <2>1. /\ Replay(since) \in Seq(Nat) /\ Len(Replay(since)) = Seq1 - first + 1
        /\ \A i \in 1 .. Len(Replay(since)) : Replay(since)[i] = first + i - 1
        /\ first \in Nat /\ first >= 1 /\ first <= Seq1 + 1
    BY <1>3, <1>8, ReplayIs
  <2>2. Gapped(since) => first = OldestSeq
    BY <1>2, <1>3, <1>5, <1>8
  <2>3. ~Gapped(since) => first = since + 1
    BY <1>2, <1>3, <1>5, <1>8
  <2> HIDE DEF first, since
  <2>4. Coming(g) = first
    BY <1>2, <1>4, <2>1 DEF Coming
  <2>5. \A i \in 1 .. Len(g.replay) : g.replay[i] = Coming(g) + i - 1
    BY <1>4, <2>1, <2>4
  <2>6. CASE Gapped(since)
    <3>1. g.seq = OldestSeq - 1 /\ g.from = OldestSeq - 1 /\ g.seen = e
      BY <1>4, <1>8, <2>6
    <3>2. OldestSeq - 1 # None /\ OldestSeq - 1 < OldestSeq /\ OldestSeq - 1 <= OldestSeq - 1
      BY <1>2 DEF None
    <3>3. {s \in (OldestSeq - 1) + 1 .. OldestSeq - 1 : Admits(s, c)} = {}
      BY <1>2
    <3>4. (OldestSeq - 1) + 1 .. OldestSeq - 1 = {}
      BY <1>2
    <3>5. Coming(g) = OldestSeq
      BY <2>2, <2>4, <2>6
    <3> HIDE DEF e
    <3>6. g.seq # None /\ g.from <= g.seq /\ g.seq < Coming(g)
      BY <3>1, <3>2, <3>5
    <3>7. /\ \A i, j \in 1 .. Len(g.seen) : i < j => g.seen[i] < g.seen[j]
          /\ Range(g.seen) = {s \in g.from + 1 .. g.seq : Admits(s, c)}
      BY <1>6, <3>1, <3>3
    <3>8. \A s \in g.seq + 1 .. Coming(g) - 1 : ~Admits(s, c)
      BY <3>1, <3>4, <3>5
    <3> QED BY <2>5, <3>6, <3>7, <3>8, ViewOf
  <2>7. CASE ~Gapped(since)
    <3>1. g.seq = since /\ g.from = k.from /\ g.seen = k.seen
      BY <1>4, <1>8, <2>7
    <3>2. Coming(g) = since + 1 /\ since < since + 1
      BY <1>3, <1>8, <2>3, <2>4, <2>7
    <3>3. since + 1 .. Coming(g) - 1 = {}
      BY <1>3, <1>8, <3>2
    <3>4. /\ \A i, j \in 1 .. Len(k.seen) : i < j => k.seen[i] < k.seen[j]
          /\ k.from <= since
          /\ Range(k.seen) = {s \in k.from + 1 .. since : Admits(s, c)}
      BY <1>8 DEF Viewed, since
    <3>5. g.seq # None /\ g.from <= g.seq /\ g.seq < Coming(g)
      BY <1>8, <3>1, <3>2, <3>4
    <3>6. /\ \A i, j \in 1 .. Len(g.seen) : i < j => g.seen[i] < g.seen[j]
          /\ Range(g.seen) = {s \in g.from + 1 .. g.seq : Admits(s, c)}
      BY <3>1, <3>4
    <3>7. \A s \in g.seq + 1 .. Coming(g) - 1 : ~Admits(s, c)
      BY <3>1, <3>3
    <3> QED BY <2>5, <3>5, <3>6, <3>7, ViewOf
  <2> QED BY <2>6, <2>7
<1> QED BY <1>7, <1>8

\* Showing the next message, or passing it over because its audience
\* does not admit the client, leaves the view whole.
LEMMA ShownViewed ==
  ASSUME NEW c, NEW e \in ClientType, NEW s \in Nat, e.open, e.seq # None, e.seq < s,
         e.from <= e.seq, \A i, j \in 1 .. Len(e.seen) : i < j => e.seen[i] < e.seen[j],
         Range(e.seen) = {t \in e.from + 1 .. e.seq : Admits(t, c)},
         \A i \in 1 .. Len(e.replay) : e.replay[i] = Coming(e) + i - 1,
         Coming(e) = s + 1, \A t \in e.seq + 1 .. s - 1 : ~Admits(t, c)
  PROVE  Viewed(Shown(e, c, s), c)
<1>1. e.seq \in Nat /\ e.from \in Nat /\ e.seen \in Seq(Nat) /\ Len(e.seen) \in Nat
  BY DEF ClientType
<1>2. CASE ~Admits(s, c)
  <2>1. Shown(e, c, s) = e
    BY <1>2 DEF Shown
  <2>2. \A t \in e.seq + 1 .. Coming(e) - 1 : ~Admits(t, c)
    <3> SUFFICES ASSUME NEW t \in e.seq + 1 .. s PROVE ~Admits(t, c)
      OBVIOUS
    <3>1. CASE t = s
      BY <3>1, <1>2
    <3>2. CASE t # s
      BY <3>2, <1>1
    <3> QED BY <3>1, <3>2
  <2>3. e.seq < Coming(e)
    BY <1>1
  <2> QED BY <2>1, <2>2, <2>3 DEF Viewed
<1>3. CASE Admits(s, c)
  <2> DEFINE seen == Append(e.seen, s)
             n == Len(e.seen)
             k == [e EXCEPT !.seq = s, !.seen = seen]
  <2>1. Shown(e, c, s) = k
    BY <1>3 DEF Shown
  <2>2. seen \in Seq(Nat) /\ Len(seen) = n + 1
        /\ \A i \in 1 .. n + 1 : seen[i] = IF i <= n THEN e.seen[i] ELSE s
    BY <1>1
  <2>3. Range(seen) = Range(e.seen) \cup {s}
    <3>0. DOMAIN e.seen = 1 .. n /\ DOMAIN seen = 1 .. n + 1
      BY <1>1, <2>2
    <3>1. Range(e.seen) = {e.seen[i] : i \in 1 .. n} /\ Range(seen) = {seen[i] : i \in 1 .. n + 1}
      BY <3>0, Zenon DEF Range
    <3>2. n + 1 \in 1 .. n + 1 /\ seen[n + 1] = s
      BY <1>1, <2>2
    <3>3. \A i \in 1 .. n : i \in 1 .. n + 1 /\ seen[i] = e.seen[i]
      BY <1>1, <2>2
    <3>4. \A i \in 1 .. n + 1 : i \in 1 .. n \/ i = n + 1
      BY <1>1
    <3> HIDE DEF seen, n
    <3> QED BY <3>1, <3>2, <3>3, <3>4
  <2>4. \A i \in 1 .. n : e.seen[i] <= e.seq
    <3> SUFFICES ASSUME NEW i \in 1 .. n PROVE e.seen[i] <= e.seq
      OBVIOUS
    <3>1. e.seen[i] \in Range(e.seen)
      BY <1>1 DEF Range
    <3> QED BY <3>1, <1>1
  <2>5. \A i, j \in 1 .. Len(seen) : i < j => seen[i] < seen[j]
    <3> SUFFICES ASSUME NEW i \in 1 .. n + 1, NEW j \in 1 .. n + 1, i < j
                 PROVE  seen[i] < seen[j]
      BY <2>2
    <3> HIDE DEF seen
    <3>1. i \in 1 .. n /\ seen[i] = e.seen[i]
      BY <1>1, <2>2
    <3>2. CASE j <= n
      <4>1. j \in 1 .. n /\ seen[j] = e.seen[j]
        BY <1>1, <2>2, <3>2
      <4> QED BY <3>1, <4>1
    <3>3. CASE j > n
      <4>1. seen[j] = s
        BY <1>1, <2>2, <3>3
      <4>2. e.seen[i] \in Nat /\ e.seen[i] <= e.seq
        BY <1>1, <2>4, <3>1
      <4> QED BY <1>1, <3>1, <4>1, <4>2
    <3> QED BY <3>2, <3>3, <1>1
  <2>6. /\ k.open /\ k.seq = s /\ k.from = e.from /\ k.seen = seen /\ k.replay = e.replay
        /\ k.pos = e.pos
    BY DEF ClientType
  <2> HIDE DEF seen, k, n
  <2>7. Range(k.seen) = {t \in k.from + 1 .. k.seq : Admits(t, c)}
    <3>1. ASSUME NEW t \in e.from + 1 .. s, Admits(t, c), t # s PROVE t \in e.from + 1 .. e.seq
      BY <1>1, <3>1
    <3>2. s \in e.from + 1 .. s /\ \A t \in e.from + 1 .. e.seq : t \in e.from + 1 .. s
      BY <1>1
    <3> QED BY <1>3, <2>3, <2>6, <3>1, <3>2
  <2>8. Coming(k) = s + 1 /\ k.seq < Coming(k) /\ k.from <= k.seq /\ k.seq # None
    <3>1. Coming(k) = Coming(e)
      BY <2>6 DEF Coming
    <3> QED BY <1>1, <2>6, <3>1 DEF None
  <2>9. k.seq + 1 .. Coming(k) - 1 = {}
    BY <2>6, <2>8
  <2>10. \A i \in 1 .. Len(k.replay) : k.replay[i] = Coming(k) + i - 1
    BY <2>6, <2>8
  <2> QED BY <2>1, <2>5, <2>6, <2>7, <2>8, <2>9, <2>10 DEF Viewed
<1> QED BY <1>2, <1>3

\* One client's view does not depend on another's connection.
LEMMA StepView ==
  ASSUME StreamInv, ViewInv, NEW c \in Clients, NEW k, Viewed(k, c),
         clients' = [clients EXCEPT ![c] = k], UNCHANGED published
  PROVE  ViewInv'
<1>1. ASSUME NEW d \in Clients PROVE Viewed(clients'[d], d)
  <2>1. CASE d = c
    BY <2>1 DEF StreamInv
  <2>2. CASE d # c
    BY <2>2 DEF StreamInv, ViewInv
  <2> QED BY <2>1, <2>2
<1> QED BY <1>1 DEF ViewInv, Viewed, Admits, Coming

\* A connection, the first or a later one, leaves the view whole.
LEMMA ConnectView ==
  ASSUME Resumes = "at_message", StreamInv, ViewInv, NEW c \in Clients, Connect(c) PROVE ViewInv'
<1>1. clients[c] \in ClientType /\ Placed(clients[c], Seq1) /\ Viewed(clients[c], c)
  BY DEF StreamInv, ViewInv
<1>2. clients' = [clients EXCEPT ![c] = Greeted(clients[c], clients[c].seq)]
      /\ UNCHANGED published
  BY DEF Connect
<1> QED BY <1>1, <1>2, GreetedViewed, StepView

\* So does each message delivered, and an overrun that ends the
\* connection: what the channel dropped was never passed over.
LEMMA DeliverView ==
  ASSUME StreamInv, ViewInv, NEW c \in Clients, Deliver(c) PROVE ViewInv'
<1> DEFINE k == clients[c]
           missed == [k EXCEPT !.replay = Tail(@)]
           live   == [k EXCEPT !.pos = @ + 1]
           shut   == [k EXCEPT !.open = FALSE]
           s == Coming(k)
<1>1. k \in ClientType /\ Placed(k, Seq1) /\ Viewed(k, c) /\ k.open /\ UNCHANGED published
  BY DEF StreamInv, ViewInv, Deliver
<1>3. /\ k.open \in BOOLEAN /\ k.seq \in Nat \cup {None} /\ k.pos \in Nat \ {0} /\ k.replay \in Seq(Nat)
      /\ k.from \in Nat /\ k.seen \in Seq(Nat) /\ Len(k.replay) \in Nat
  BY <1>1 DEF ClientType
<1>4. /\ k.seq # None /\ k.seq < s /\ k.from <= k.seq /\ k.seq \in Nat
      /\ \A i, j \in 1 .. Len(k.seen) : i < j => k.seen[i] < k.seen[j]
      /\ Range(k.seen) = {t \in k.from + 1 .. k.seq : Admits(t, c)}
      /\ \A i \in 1 .. Len(k.replay) : k.replay[i] = s + i - 1
      /\ \A t \in k.seq + 1 .. s - 1 : ~Admits(t, c)
  BY <1>1, <1>3 DEF Viewed
<1>5. s = k.pos - Len(k.replay) /\ s \in Nat
  BY <1>3, <1>4 DEF Coming
<1> HIDE DEF s
<1>6. CASE k.replay # <<>> /\ clients' = [clients EXCEPT ![c] = Shown(missed, c, Head(k.replay))]
  <2>1. Tail(k.replay) \in Seq(Nat) /\ Len(Tail(k.replay)) = Len(k.replay) - 1
        /\ \A i \in 1 .. Len(k.replay) - 1 : Tail(k.replay)[i] = k.replay[i + 1]
    BY <1>3, <1>6, HeadTailProperties
  <2>2. Len(k.replay) >= 1 /\ Head(k.replay) = k.replay[1]
    BY <1>3, <1>6
  <2>3. Head(k.replay) = s
    <3>1. 1 \in 1 .. Len(k.replay)
      BY <1>3, <2>2
    <3> QED BY <1>4, <1>5, <2>2, <3>1
  <2>4. missed \in ClientType /\ missed.replay = Tail(k.replay) /\ missed.pos = k.pos
        /\ missed.seq = k.seq /\ missed.seen = k.seen /\ missed.from = k.from /\ missed.open = k.open
    BY <1>1, <1>3, <2>1 DEF ClientType
  <2> HIDE DEF missed
  <2>5. Coming(missed) = s + 1
    BY <1>3, <1>5, <2>1, <2>4 DEF Coming
  <2>6. \A i \in 1 .. Len(missed.replay) : missed.replay[i] = Coming(missed) + i - 1
    <3> SUFFICES ASSUME NEW i \in 1 .. Len(k.replay) - 1
                 PROVE  Tail(k.replay)[i] = (s + 1) + i - 1
      BY <2>1, <2>4, <2>5
    <3>1. i + 1 \in 1 .. Len(k.replay)
      BY <1>3
    <3>2. k.replay[i + 1] = s + (i + 1) - 1
      BY <1>4, <3>1
    <3> QED BY <2>1, <3>2, <1>5
  <2> HIDE DEF k
  <2>7. Viewed(Shown(missed, c, s), c)
    BY <1>1, <1>4, <1>5, <2>4, <2>5, <2>6, ShownViewed
  <2> QED BY <1>1, <1>6, <2>3, <2>7, StepView
<1>7. CASE /\ k.replay = <<>> /\ clients' = [clients EXCEPT ![c] = Shown(live, c, k.pos)]
  <2>1. live \in ClientType /\ live.replay = k.replay /\ live.pos = k.pos + 1
        /\ live.seq = k.seq /\ live.seen = k.seen /\ live.from = k.from /\ live.open = k.open
    <3>1. k.pos + 1 \in Nat \ {0}
      BY <1>3
    <3> QED BY <1>1, <1>3, <3>1 DEF ClientType
  <2> HIDE DEF live
  <2>2. Len(live.replay) = 0 /\ Len(k.replay) = 0
    BY <1>7, <2>1
  <2>3. s = k.pos
    BY <1>3, <1>5, <2>2
  <2>4. Coming(live) = s + 1
    BY <1>3, <2>1, <2>2, <2>3 DEF Coming
  <2>5. \A i \in 1 .. Len(live.replay) : live.replay[i] = Coming(live) + i - 1
    BY <2>2
  <2> HIDE DEF k
  <2>7. Viewed(Shown(live, c, s), c)
    BY <1>1, <1>4, <1>5, <2>1, <2>4, <2>5, ShownViewed
  <2> QED BY <1>1, <1>7, <2>3, <2>7, StepView
<1>8. CASE clients' = [clients EXCEPT ![c].open = FALSE]
  <2>1. clients' = [clients EXCEPT ![c] = shut]
    BY <1>8
  <2>2. shut.seq = k.seq /\ shut.seen = k.seen /\ shut.from = k.from /\ ~shut.open
    BY <1>1 DEF ClientType
  <2> HIDE DEF shut, k
  <2>3. Viewed(shut, c)
    BY <1>4, <2>2 DEF Viewed
  <2> QED BY <1>1, <2>1, <2>3, StepView
<1> QED BY <1>6, <1>7, <1>8 DEF Deliver

\* A connection lost with messages on its way leaves the place at the
\* last one shown.
LEMMA DropView ==
  ASSUME StreamInv, ViewInv, NEW c \in Clients, Drop(c) PROVE ViewInv'
<1> DEFINE k == clients[c]
           shut   == [k EXCEPT !.open = FALSE]
<1>1. k \in ClientType /\ Viewed(k, c) /\ UNCHANGED published
      /\ clients' = [clients EXCEPT ![c] = shut]
  BY DEF StreamInv, ViewInv, Drop
<1>2. shut.seq = k.seq /\ shut.seen = k.seen /\ shut.from = k.from /\ ~shut.open
  BY <1>1 DEF ClientType
<1> HIDE DEF shut, k
<1>3. Viewed(shut, c)
  BY <1>1, <1>2 DEF Viewed
<1> QED BY <1>1, <1>3, StepView

\* A new message is past every place.
LEMMA PublishView ==
  ASSUME StreamInv, ViewInv, Publish PROVE ViewInv'
<1>1. /\ mailbox # <<>> /\ published' = Append(published, Head(mailbox)) /\ clients' = clients
  BY DEF Publish
<1>2. Len(published) \in Nat /\ \A s \in 1 .. Len(published) : published'[s] = published[s]
  BY <1>1 DEF StreamInv
<1>3. ASSUME NEW c \in Clients PROVE Viewed(clients[c], c)'
  <2> DEFINE k == clients[c]
  <2>1. k \in ClientType /\ Placed(k, Seq1) /\ Viewed(k, c) /\ clients'[c] = k
    BY <1>1 DEF StreamInv, ViewInv
  <2>2. /\ k.seq \in Nat \cup {None} /\ k.pos \in Nat \ {0} /\ k.replay \in Seq(Nat)
        /\ k.from \in Nat /\ k.seen \in Seq(Nat) /\ Len(k.replay) \in Nat
    BY <2>1 DEF ClientType
  <2>3. \A s \in 1 .. Seq1 : Admits(s, c)' <=> Admits(s, c)
    BY <1>2 DEF Seq1, Admits
  <2>4. k.seq # None => k.seq <= Seq1 /\ k.seq \in Nat
    BY <2>1, <2>2 DEF Placed
  <2>5. k.pos <= Seq1 + 1 /\ Coming(k) - 1 <= Seq1 /\ Coming(k) \in Int /\ Seq1 \in Nat
    <3>1. Seq1 \in Nat
      BY <1>2 DEF Seq1
    <3> HIDE DEF Seq1, k
    <3> QED BY <2>1, <2>2, <3>1 DEF Placed, Coming
  <2> HIDE DEF Seq1, k
  <2>6. k.seq # None => {s \in k.from + 1 .. k.seq : Admits(s, c)'} = {s \in k.from + 1 .. k.seq : Admits(s, c)}
    <3> SUFFICES ASSUME k.seq # None, NEW s \in k.from + 1 .. k.seq
                 PROVE  Admits(s, c)' <=> Admits(s, c)
      OBVIOUS
    <3>1. s \in 1 .. Seq1
      BY <2>2, <2>4, <2>5
    <3> QED BY <3>1, <2>3
  <2>7. k.seq # None => \A s \in k.seq + 1 .. Coming(k) - 1 : Admits(s, c)' <=> Admits(s, c)
    <3> SUFFICES ASSUME k.seq # None, NEW s \in k.seq + 1 .. Coming(k) - 1
                 PROVE  Admits(s, c)' <=> Admits(s, c)
      OBVIOUS
    <3>1. s \in 1 .. Seq1
      BY <2>2, <2>4, <2>5
    <3> QED BY <3>1, <2>3
  <2>8. /\ \A i, j \in 1 .. Len(k.seen) : i < j => k.seen[i] < k.seen[j]
        /\ k.seq # None =>
             /\ k.from <= k.seq
             /\ Range(k.seen) = {s \in k.from + 1 .. k.seq : Admits(s, c)'}
        /\ k.open =>
             /\ k.seq # None /\ k.seq < Coming(k)
             /\ \A i \in 1 .. Len(k.replay) : k.replay[i] = Coming(k) + i - 1
             /\ \A s \in k.seq + 1 .. Coming(k) - 1 : ~Admits(s, c)'
    BY <2>1, <2>6, <2>7 DEF Viewed
  <2>9. clients[c]' = k
    BY <2>1
  <2> QED BY <2>8, <2>9 DEF Viewed, Coming
<1> QED BY <1>3 DEF ViewInv

-----------------------------------------------------------------------------

\* A new market has published nothing and committed nothing.
LEMMA InitFeed ==
  ASSUME Init PROVE FeedInv /\ ViewInv
<1>1. flow \in Flows /\ flow.cap \in Nat
  BY FlowsAssumption DEF Init
<1>2. /\ outbox \in OutboxType /\ Latest(outbox) = 0 /\ Gone(outbox) = 0 /\ outbox.entries = <<>>
      /\ outbox.cursor = 0 /\ outbox.dropped = 0 /\ Len(outbox.entries) = 0
  BY <1>1 DEF Init, OutboxType, Latest, Gone
<1>3. OutboxInv
  <2>1. outbox.cap \in Nat
    BY <1>2 DEF OutboxType
  <2> QED BY <1>2, <2>1 DEF OutboxInv, Numbered, Counted
<1>4. NoPage \in PageType /\ Before(NoPage) = 0 /\ NoPage.after = 0 /\ NoPage.next = 0
      /\ NoPage.events = <<>> /\ Len(NoPage.events) = 0
  BY DEF NoPage, PageType, Before
<1>5. /\ backend \in BackendType /\ backend.page = NoPage /\ backend.place = None
      /\ backend.processed = {} /\ backend.told = {} /\ backend.acks = {}
  BY <1>4 DEF Init, BackendType
<1>6. PageOK(NoPage, outbox)
  BY <1>2, <1>4 DEF PageOK
<1>7. Dealt(0, backend)
  BY DEF Dealt
<1>8. Lost(outbox, backend) = {}
  BY <1>2 DEF Lost
<1>9. Cardinality(Lost(outbox, backend)) = 0
  BY <1>8, FS_EmptySet
<1>10. BackendInv
  BY <1>2, <1>4, <1>5, <1>6, <1>7, <1>9 DEF BackendInv
<1>11. published = <<>> /\ mailbox = <<>> /\ Seq1 = 0 /\ drops = 0
  BY DEF Init, Seq1
<1>12. ASSUME NEW c \in Clients
       PROVE  /\ clients[c] \in ClientType /\ Placed(clients[c], Seq1)
              /\ Viewed(clients[c], c)
  <2> DEFINE k == clients[c]
  <2>1. k = [open |-> FALSE, seq |-> None, pos |-> 1, replay |-> <<>>, from |-> 0, seen |-> <<>>]
    BY DEF Init
  <2>2. k \in ClientType /\ ~k.open /\ k.seq = None /\ k.pos = 1 /\ k.replay = <<>> /\ k.seen = <<>>
        /\ Len(k.replay) = 0 /\ Len(k.seen) = 0
    BY <2>1 DEF ClientType
  <2> HIDE DEF k
  <2>3. FEHU_STREAM_REPLAY \in Nat
    BY FeedAssumption
  <2>4. Placed(k, 0)
    BY <2>2, <2>3 DEF Placed
  <2>5. Viewed(k, c)
    BY <2>2 DEF Viewed
  <2> QED BY <1>11, <2>2, <2>4, <2>5 DEF k
<1>13. clients \in [Clients -> ClientType]
  BY <1>12 DEF Init
<1>14. StreamInv
  BY <1>11, <1>12, <1>13 DEF StreamInv
<1>15. ViewInv
  BY <1>12 DEF ViewInv
<1> QED BY <1>1, <1>3, <1>10, <1>14, <1>15 DEF FeedInv

\* What a command announces has an audience (announce in market.rs).
LEMMA CommandStream ==
  ASSUME FeedInv, Command PROVE StreamInv'
<1>1. PICK facts \in flow.commands :
        /\ mailbox' = IF flow.streams THEN mailbox \o facts ELSE mailbox
        /\ UNCHANGED <<published, clients, drops>>
  BY DEF Command
<1>2. facts \in Seq(SUBSET Everyone)
  BY FlowsAssumption DEF FeedInv, Everyone
<1>3. mailbox' \in Seq(SUBSET Everyone)
  BY <1>1, <1>2 DEF FeedInv, StreamInv
<1> QED BY <1>1, <1>3, MailboxStream DEF FeedInv

\* An engine step's message waits like any other.
LEMMA TickStream ==
  ASSUME FeedInv, Tick PROVE StreamInv'
<1>1. mailbox' = Append(mailbox, Everyone) /\ UNCHANGED <<published, clients, drops>>
  BY DEF Tick
<1>2. mailbox' \in Seq(SUBSET Everyone)
  BY <1>1 DEF FeedInv, StreamInv
<1> QED BY <1>1, <1>2, MailboxStream DEF FeedInv

\* What happens to the outbox leaves the stream alone.
LEMMA StreamFrame ==
  ASSUME StreamInv, UNCHANGED streamVars PROVE StreamInv'
BY DEF streamVars, StreamInv, Everyone, Placed, Seq1

\* What a client has seen stands while nothing is published or shown.
LEMMA ViewFrame ==
  ASSUME ViewInv, UNCHANGED <<published, clients>> PROVE ViewInv'
BY DEF ViewInv, Viewed, Admits, Coming

\* Every step of the market, the clients and the backend keeps the
\* inductive invariant.
LEMMA NextFeed ==
  ASSUME FeedInv, [Next]_vars PROVE FeedInv'
<1>1. flow' \in Flows
  BY DEF FeedInv, Next, vars, Command, Tick, Publish, Connect, Deliver, Drop, Read, Process,
         SendAck, Crash, Restart, AckOutbox
<1>2. OutboxInv /\ BackendInv /\ StreamInv
  BY DEF FeedInv
<1>3. CASE Command
  BY <1>1, <1>3, CommandFeed, CommandStream DEF FeedInv
<1>4. CASE Tick
  <2>1. UNCHANGED outboxVars
    BY <1>4 DEF Tick
  <2> QED BY <1>1, <1>2, <1>4, <2>1, OutboxFrame, TickStream DEF FeedInv
<1>5. CASE Publish
  <2>1. UNCHANGED outboxVars
    BY <1>5 DEF Publish
  <2> QED BY <1>1, <1>2, <1>5, <2>1, OutboxFrame, PublishStream DEF FeedInv
<1>6. ASSUME NEW c \in Clients, Connect(c) PROVE FeedInv'
  <2>1. UNCHANGED outboxVars
    BY <1>6 DEF Connect
  <2> QED BY <1>1, <1>2, <1>6, <2>1, OutboxFrame, ConnectStream DEF FeedInv
<1>7. ASSUME NEW c \in Clients, Deliver(c) PROVE FeedInv'
  <2>1. UNCHANGED outboxVars
    BY <1>7 DEF Deliver
  <2> QED BY <1>1, <1>2, <1>7, <2>1, OutboxFrame, DeliverStream DEF FeedInv
<1>8. ASSUME NEW c \in Clients, Drop(c) PROVE FeedInv'
  <2>1. UNCHANGED outboxVars
    BY <1>8 DEF Drop
  <2> QED BY <1>1, <1>2, <1>8, <2>1, OutboxFrame, DropStream DEF FeedInv
<1>9. ASSUME \/ Read \/ Process \/ SendAck \/ Crash \/ Restart
             \/ \E through \in 0 .. MaxFacts : AckOutbox(through)
      PROVE  FeedInv'
  <2>1. UNCHANGED streamVars
    BY <1>9 DEF Read, Process, SendAck, Crash, Restart, AckOutbox
  <2>2. OutboxInv' /\ BackendInv'
    <3>1. 0 .. MaxFacts \subseteq Nat
      BY FeedAssumption
    <3> QED BY <1>9, <3>1, ReadFeed, ProcessFeed, SendAckFeed, CrashFeed, RestartFeed, AckFeed
  <2> QED BY <1>1, <1>2, <2>1, <2>2, StreamFrame DEF FeedInv
<1>10. CASE UNCHANGED vars
  <2>1. UNCHANGED streamVars /\ UNCHANGED outboxVars
    BY <1>10 DEF vars, streamVars, outboxVars
  <2> QED BY <1>1, <1>2, <2>1, StreamFrame, OutboxFrame DEF FeedInv
<1> QED BY <1>3, <1>4, <1>5, <1>6, <1>7, <1>8, <1>9, <1>10 DEF Next

\* And every client's view, if clients take a message's number for their
\* place, and not their hello's.
LEMMA NextView ==
  ASSUME Resumes = "at_message", FeedInv, ViewInv, [Next]_vars PROVE ViewInv'
<1>2. StreamInv
  BY DEF FeedInv
<1>3. CASE Publish
  BY <1>2, <1>3, PublishView
<1>4. ASSUME NEW c \in Clients, Connect(c) PROVE ViewInv'
  BY <1>2, <1>4, ConnectView
<1>5. ASSUME NEW c \in Clients, Deliver(c) PROVE ViewInv'
  BY <1>2, <1>5, DeliverView
<1>6. ASSUME NEW c \in Clients, Drop(c) PROVE ViewInv'
  BY <1>2, <1>6, DropView
<1>7. ASSUME \/ Command \/ Tick \/ Read \/ Process \/ SendAck \/ Crash \/ Restart
             \/ (\E through \in 0 .. MaxFacts : AckOutbox(through))
             \/ UNCHANGED vars
      PROVE  ViewInv'
  <2>1. UNCHANGED <<published, clients>>
    BY <1>7 DEF Command, Tick, Read, Process, SendAck, Crash, Restart, AckOutbox, vars, streamVars
  <2> QED BY <2>1, ViewFrame
<1> QED BY <1>3, <1>4, <1>5, <1>6, <1>7 DEF Next

\* The invariant holds in every reachable state, for any flow of
\* commands, any cap, page and buffer, and any number of clients,
\* crashes and restarts.
THEOREM FeedInvariant == Spec => []FeedInv
<1>1. Init => FeedInv
  BY InitFeed
<1>2. FeedInv /\ [Next]_vars => FeedInv'
  BY NextFeed
<1> QED BY <1>1, <1>2, PTL DEF Spec

\* The types, the outbox's numbering and its cap, and every connection's
\* place, in every reachable state (outbox.rs; StreamLog in market.rs).
THEOREM FeedTypes == Spec => []TypeOK
<1>1. ASSUME FeedInv PROVE TypeOK
  <2>1. published \in Seq(SUBSET Everyone) /\ mailbox \in Seq(SUBSET Everyone)
    BY <1>1 DEF FeedInv, StreamInv
  <2>2. ASSUME NEW c \in Clients
        PROVE  LET k == clients[c] IN
               /\ k.open \in BOOLEAN /\ k.seq \in {None} \cup 0 .. Seq1 /\ k.pos \in 1 .. Seq1 + 1
               /\ Range(k.replay) \subseteq 1 .. k.pos - 1 /\ Len(k.replay) <= FEHU_STREAM_REPLAY
               /\ Range(k.seen) \subseteq 1 .. Seq1
    <3> DEFINE k == clients[c]
    <3>1. k \in ClientType /\ Placed(k, Seq1) /\ Seq1 \in Nat
      BY <1>1 DEF FeedInv, StreamInv, Seq1
    <3> HIDE DEF Seq1, k
    <3>2. /\ k.open \in BOOLEAN /\ k.seq \in Nat \cup {None} /\ k.pos \in Nat \ {0}
          /\ k.replay \in Seq(Nat) /\ k.seen \in Seq(Nat)
      BY <3>1 DEF ClientType
    <3>3. k.seq \in {None} \cup 0 .. Seq1 /\ k.pos \in 1 .. Seq1 + 1
      BY <3>1, <3>2 DEF Placed
    <3>4. Range(k.replay) \subseteq 1 .. k.pos - 1 /\ Range(k.seen) \subseteq 1 .. Seq1
      BY <3>1, <3>2 DEF Placed, Range
    <3> QED BY <3>1, <3>2, <3>3, <3>4 DEF Placed, k
  <2>3. outbox \in OutboxType /\ Numbered(outbox) /\ Counted(outbox)
        /\ Len(outbox.entries) <= outbox.cap
    BY <1>1 DEF FeedInv, OutboxInv
  <2>4. /\ outbox.entries \in Seq(Nat) /\ Len(outbox.entries) \in Nat
        /\ outbox.cursor \in Nat /\ outbox.dropped \in Nat /\ Latest(outbox) \in Nat
        /\ Gone(outbox) \in Nat /\ Gone(outbox) + Len(outbox.entries) = Latest(outbox)
    BY <2>3, OutboxFacts
  <2>5. outbox.entries = [i \in 1 .. Len(outbox.entries) |->
                            Latest(outbox) - Len(outbox.entries) + i]
    <3>1. \A i \in 1 .. Len(outbox.entries) :
            outbox.entries[i] = Latest(outbox) - Len(outbox.entries) + i
      BY <2>3 DEF Numbered, Gone
    <3>2. outbox.entries = [i \in 1 .. Len(outbox.entries) |-> outbox.entries[i]]
      BY <2>4
    <3> QED BY <3>1, <3>2, Zenon
  <2>6. outbox.cursor \in 0 .. Latest(outbox) /\ outbox.dropped \in 0 .. Latest(outbox)
    BY <2>3, <2>4 DEF Counted
  <2>7. backend.place \in {None} \cup 0 .. Latest(outbox)
    <3>1. backend.place \in Nat \cup {None}
      BY <1>1 DEF FeedInv, BackendInv, BackendType
    <3>2. backend.place # None => backend.place <= Latest(outbox)
      BY <1>1 DEF FeedInv, BackendInv
    <3> QED BY <2>4, <3>1, <3>2
  <2> QED BY <2>1, <2>2, <2>3, <2>5, <2>6, <2>7 DEF TypeOK
<1> QED BY <1>1, FeedInvariant, PTL

\* At-least-once (read_outbox): whatever order acknowledgements arrive
\* in, and through evictions, crashes of the backend and restarts with
\* another cap, the cursor passes no fact that was neither acted on nor
\* reported missing, and whatever is gone and was not acted on is
\* counted as dropped.
THEOREM NothingIsLost == Spec => []NothingLostSilently
<1>1. ASSUME FeedInv PROVE NothingLostSilently
  <2>1. outbox \in OutboxType /\ Numbered(outbox)
    BY <1>1 DEF FeedInv, OutboxInv
  <2>2. /\ outbox.entries \in Seq(Nat) /\ Len(outbox.entries) \in Nat
        /\ Latest(outbox) \in Nat /\ outbox.dropped \in Nat
        /\ Gone(outbox) \in Nat /\ Gone(outbox) + Len(outbox.entries) = Latest(outbox)
    BY <2>1, OutboxFacts
  <2> DEFINE kept == Range(outbox.entries)
             missed == (1 .. Latest(outbox)) \ (kept \cup backend.processed)
  <2>3. \A s \in Gone(outbox) + 1 .. Latest(outbox) : s \in kept
    <3> SUFFICES ASSUME NEW s \in Gone(outbox) + 1 .. Latest(outbox) PROVE s \in kept
      OBVIOUS
    <3>1. s - Gone(outbox) \in 1 .. Len(outbox.entries) /\ Gone(outbox) + (s - Gone(outbox)) = s
      BY <2>2
    <3>2. s - Gone(outbox) \in DOMAIN outbox.entries
      BY <2>2, <3>1
    <3> QED BY <2>1, <3>1, <3>2 DEF Numbered, Range
  <2>4. missed \subseteq Lost(outbox, backend)
    <3> SUFFICES ASSUME NEW s \in missed PROVE s \in Lost(outbox, backend)
      OBVIOUS
    <3>1. s \in 1 .. Latest(outbox) /\ s \notin Gone(outbox) + 1 .. Latest(outbox)
      BY <2>3
    <3> QED BY <2>2, <3>1 DEF Lost
  <2>5. IsFiniteSet(Lost(outbox, backend))
    <3>1. IsFiniteSet(1 .. Gone(outbox))
      BY <2>2, FS_Interval
    <3> QED BY <3>1, FS_Subset DEF Lost
  <2>6. /\ Cardinality(missed) <= Cardinality(Lost(outbox, backend))
        /\ Cardinality(missed) \in Nat /\ Cardinality(Lost(outbox, backend)) \in Nat
    BY <2>4, <2>5, FS_Subset, FS_CardinalityType
  <2>7. Cardinality(Lost(outbox, backend)) <= outbox.dropped
    BY <1>1 DEF FeedInv, BackendInv
  <2>8. \A s \in 1 .. outbox.cursor : s \in backend.processed \cup backend.told
    BY <1>1 DEF FeedInv, BackendInv, Dealt
  <2>9. Cardinality(missed) <= outbox.dropped
    BY <2>2, <2>6, <2>7
  <2> QED BY <2>8, <2>9 DEF NothingLostSilently
<1> QED BY <1>1, FeedInvariant, PTL

\* "Every message is either in `replay` or arrives on `rx`, exactly
\* once, in order" (Stream::subscribe): across lost connections,
\* overruns and resumptions, a client that resumes from the last message
\* it was shown has seen every message it may see since its view began,
\* once and in order, and nobody else's.
THEOREM StreamsNeverBreak ==
  ASSUME Resumes = "at_message" PROVE Spec => []StreamUnbroken
<1>1. Init => FeedInv /\ ViewInv
  BY InitFeed
<1>2. FeedInv /\ ViewInv /\ [Next]_vars => FeedInv' /\ ViewInv'
  BY NextFeed, NextView
<1>3. ASSUME FeedInv, ViewInv PROVE StreamUnbroken
  <2> SUFFICES ASSUME NEW c \in Clients, ~clients[c].open, clients[c].seq # None
               PROVE  /\ \A i, j \in DOMAIN clients[c].seen :
                           i < j => clients[c].seen[i] < clients[c].seen[j]
                      /\ Range(clients[c].seen) =
                           {s \in clients[c].from + 1 .. clients[c].seq : Admits(s, c)}
    BY DEF StreamUnbroken
  <2>1. Viewed(clients[c], c) /\ clients[c] \in ClientType
    BY <1>3 DEF FeedInv, StreamInv, ViewInv
  <2>2. clients[c].seen \in Seq(Nat)
    BY <2>1 DEF ClientType
  <2>3. DOMAIN clients[c].seen = 1 .. Len(clients[c].seen)
    BY <2>2
  <2> QED BY <2>1, <2>3 DEF Viewed
<1> QED BY <1>1, <1>2, <1>3, PTL DEF Spec
=============================================================================
