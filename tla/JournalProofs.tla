---------------------------- MODULE JournalProofs ----------------------------
(***************************************************************************)
(* Theorems of Journal.tla: nothing acknowledged is lost, no key runs      *)
(* twice, a restart serves the market that was being served, and the whole *)
(* implements the durable log of DurableLog.tla, for any commands and keys *)
(* and any number of saves, truncations, crashes and restarts.             *)
(*                                                                         *)
(* The properties speak of the snapshot and the file as they are.  To be   *)
(* inductive they must be said of every snapshot a later start might begin *)
(* with (Bases), of every length the file may come out of a failure with   *)
(* (Floor), and of the entries in memory a truncation would write back     *)
(* (SafeInv): a command is promised only once all of these have it.        *)
(***************************************************************************)
EXTENDS Journal, Sums, SequenceTheorems

-----------------------------------------------------------------------------
(* The parts of a market and of its disk *)

\* Every command, and what the journal and a snapshot hold of them.
Asked == Commands \cup {Step}

EntryType == [seq : Nat, cmd : Asked]

\* A line of a file in which no line was torn.
LineType == [ok : {TRUE}, entry : EntryType, ended : {TRUE}]

SaveRecord == [world : Seq(Asked), seq : Nat, index : Seq(Commands), outbox : Seq(Asked)]

\* A snapshot: its index is bounded and has only commands of its own.
SaveType ==
  {s \in SaveRecord : Len(s.index) <= LogCap /\ ToSet(s.index) \subseteq ToSet(s.world)}

\* Entries are in the order of their numbers.
Ascending(es) == \A i, j \in 1 .. Len(es) : i < j => es[i].seq < es[j].seq

\* What a start makes of a snapshot b and a journal es.
From(b, es) == Resume(b, After(es, b.seq))

\* One more entry on top.
More(m, e) ==
  [world |-> Append(m.world, e.cmd), seq |-> e.seq, index |-> Record(m.index, e.cmd),
   outbox |-> Append(m.outbox, e.cmd)]

\* The facts that were told, except an engine step's, are still the
\* facts of their numbers.
Keeps(facts, told) ==
  \A n \in 1 .. Len(told) : told[n] # Step => n \in 1 .. Len(facts) /\ facts[n] = told[n]

\* A market m has the commands cs, and the facts in a and b.
Holds(m, cs, a, b) == cs \subseteq ToSet(m.world) /\ Keeps(m.outbox, a) /\ Keeps(m.outbox, b)

-----------------------------------------------------------------------------
(* Sequences, and the entries past a number *)

\* A part of a sequence, element by element.
LEMMA PartIs ==
  ASSUME NEW S, NEW s \in Seq(S), NEW a \in Nat, NEW b \in Nat, a <= b, b <= Len(s)
  PROVE  /\ SubSeq(s, a + 1, b) \in Seq(S) /\ Len(SubSeq(s, a + 1, b)) = b - a
         /\ \A i \in 1 .. b - a : SubSeq(s, a + 1, b)[i] = s[a + i]
<1>1. a + 1 \in 1 .. Len(s) + 1 /\ b \in a + 1 - 1 .. Len(s)
  OBVIOUS
<1>2. CASE a + 1 <= b
  <2>1. ASSUME NEW i \in 1 .. b - a PROVE SubSeq(s, a + 1, b)[i] = s[a + i]
     BY <1>2
  <2> QED BY <1>2, <2>1
<1>3. CASE a + 1 > b
  <2>1. SubSeq(s, a + 1, b) = <<>> BY <1>3, SubSeqEmpty
  <2> QED BY <1>3, <2>1
<1> QED BY <1>2, <1>3

\* Two sequences with the same elements in the same places are one.
LEMMA SameSeq ==
  ASSUME NEW S, NEW s \in Seq(S), NEW T, NEW t \in Seq(T), Len(s) = Len(t),
         \A i \in 1 .. Len(s) : s[i] = t[i]
  PROVE  s = t
OBVIOUS

\* What appending makes of a sequence, of its elements and of the first
\* of one.
LEMMA MoreIs ==
  ASSUME NEW S, NEW s \in Seq(S), NEW x \in S
  PROVE  /\ Append(s, x) \in Seq(S) /\ Len(Append(s, x)) = Len(s) + 1 /\ Len(s) \in Nat
         /\ \A i \in 1 .. Len(s) : Append(s, x)[i] = s[i]
         /\ Append(s, x)[Len(s) + 1] = x
         /\ \A i \in 1 .. Len(s) + 1 : i \in 1 .. Len(s) \/ i = Len(s) + 1
OBVIOUS

\* Appending adds one element to the set of them.
LEMMA MoreSet ==
  ASSUME NEW S, NEW s \in Seq(S), NEW x \in S
  PROVE  ToSet(Append(s, x)) = ToSet(s) \cup {x}
<1> DEFINE t == Append(s, x)
           n == Len(s)
<1>1. n \in Nat /\ DOMAIN s = 1 .. n /\ DOMAIN t = 1 .. n + 1
  OBVIOUS
<1>2. /\ \A i \in 1 .. n : t[i] = s[i]
      /\ t[n + 1] = x
      /\ \A i \in 1 .. n + 1 : i \in 1 .. n \/ i = n + 1
      /\ \A i \in 1 .. n : i \in 1 .. n + 1
      /\ n + 1 \in 1 .. n + 1
  BY MoreIs
<1>3. ToSet(s) = {s[i] : i \in 1 .. n} /\ ToSet(t) = {t[i] : i \in 1 .. n + 1}
  BY <1>1, Zenon DEF ToSet
<1> HIDE DEF t, n
<1>4. {t[i] : i \in 1 .. n + 1} = {s[i] : i \in 1 .. n} \cup {x}
  BY <1>2
<1> QED BY <1>3, <1>4 DEF t, n

\* The tail has nothing that was not there.
LEMMA TailSet ==
  ASSUME NEW S, NEW s \in Seq(S), s # <<>>
  PROVE  Tail(s) \in Seq(S) /\ Len(Tail(s)) = Len(s) - 1 /\ ToSet(Tail(s)) \subseteq ToSet(s)
<1>1. Tail(s) \in Seq(S) /\ Len(Tail(s)) = Len(s) - 1 /\ \A i \in 1 .. Len(s) - 1 : Tail(s)[i] = s[i + 1]
  OBVIOUS
<1>2. \A i \in 1 .. Len(s) - 1 : i + 1 \in 1 .. Len(s)
  OBVIOUS
<1>3. DOMAIN s = 1 .. Len(s) /\ DOMAIN Tail(s) = 1 .. Len(s) - 1
  BY <1>1
<1> QED BY <1>1, <1>2, <1>3 DEF ToSet

\* Each entry of a journal has a number and a command.
LEMMA EntryIs ==
  ASSUME NEW es \in Seq(EntryType), NEW i \in 1 .. Len(es)
  PROVE  es[i] \in EntryType /\ es[i].seq \in Nat /\ es[i].cmd \in Asked
<1>1. es[i] \in EntryType
  OBVIOUS
<1> QED BY <1>1 DEF EntryType

\* A number splits ascending entries in two.
LEMMA SplitAt ==
  ASSUME NEW es \in Seq(EntryType), Ascending(es), NEW n \in Nat
  PROVE  \E k \in 0 .. Len(es) : \A i \in 1 .. Len(es) : es[i].seq <= n <=> i <= k
<1> DEFINE len == Len(es)
           T == {i \in 1 .. len + 1 : i = len + 1 \/ es[i].seq > n}
<1>0. len \in Nat /\ \A i \in 1 .. len : es[i].seq \in Nat
  BY EntryIs
<1>1. T \in SUBSET Nat /\ len + 1 \in T
  BY <1>0
<1>2. PICK m \in T : \A i \in T : m <= i
  BY <1>1, NatWF
<1> DEFINE k == m - 1
<1>3. m \in 1 .. len + 1 /\ k \in 0 .. len /\ k \in Nat /\ m = k + 1
  BY <1>0, <1>2
<1>4. ASSUME NEW i \in 1 .. len
      PROVE  es[i].seq <= n <=> i <= k
  <2>1. CASE i < m
    <3>1. i \notin T
      BY <2>1, <1>2, <1>3
    <3>2. es[i].seq <= n
      BY <3>1, <1>0
    <3> QED BY <2>1, <3>2, <1>3
  <2>2. CASE i = m
    <3>1. es[m].seq > n
      BY <2>2, <1>0, <1>2
    <3> QED BY <2>2, <3>1, <1>0, <1>3
  <2>3. CASE i > m
    <3>1. m \in 1 .. len /\ es[m].seq > n
      BY <2>3, <1>0, <1>2, <1>3
    <3>2. es[m].seq < es[i].seq
      BY <3>1, <2>3 DEF Ascending
    <3> QED BY <2>3, <3>1, <3>2, <1>0, <1>3
  <2> QED BY <2>1, <2>2, <2>3, <1>0, <1>3
<1> HIDE DEF k
<1> QED BY <1>3, <1>4

\* What After counts is where the entries past n begin.
LEMMA AfterAt ==
  ASSUME NEW es \in Seq(EntryType), NEW n \in Nat, NEW k \in 0 .. Len(es),
         \A i \in 1 .. Len(es) : es[i].seq <= n <=> i <= k
  PROVE  /\ After(es, n) = SubSeq(es, k + 1, Len(es))
         /\ After(es, n) \in Seq(EntryType) /\ Len(After(es, n)) = Len(es) - k
         /\ \A i \in 1 .. Len(es) - k : After(es, n)[i] = es[k + i]
<1> DEFINE len == Len(es)
<1>0. len \in Nat /\ DOMAIN es = 1 .. len /\ k \in Nat /\ k <= len
  OBVIOUS
<1>1. {i \in DOMAIN es : es[i].seq <= n} = 1 .. k
  BY <1>0
<1>2. Cardinality(1 .. k) = k
  BY <1>0, FS_Interval
<1>3. After(es, n) = SubSeq(es, k + 1, len)
  BY <1>1, <1>2 DEF After
<1> HIDE DEF len
<1>4. /\ SubSeq(es, k + 1, len) \in Seq(EntryType) /\ Len(SubSeq(es, k + 1, len)) = len - k
      /\ \A i \in 1 .. len - k : SubSeq(es, k + 1, len)[i] = es[k + i]
  <2>1. len <= Len(es)
    BY <1>0 DEF len
  <2> QED BY <1>0, <2>1, PartIs
<1> QED BY <1>3, <1>4 DEF len

\* The entries past n, and nothing but them (the skip of apply in
\* journal.rs).
LEMMA AfterIs ==
  ASSUME NEW es \in Seq(EntryType), Ascending(es), NEW n \in Nat
  PROVE  /\ After(es, n) \in Seq(EntryType) /\ Ascending(After(es, n))
         /\ Len(After(es, n)) \in 0 .. Len(es)
         /\ \A i \in 1 .. Len(After(es, n)) : After(es, n)[i].seq > n
         /\ \A i \in 1 .. Len(After(es, n)) : \E j \in 1 .. Len(es) : After(es, n)[i] = es[j]
         /\ After(es, n) # <<>> => Last(After(es, n)) = Last(es) /\ es # <<>>
         /\ After(es, n) = <<>> => \A i \in 1 .. Len(es) : es[i].seq <= n
<1>1. PICK k \in 0 .. Len(es) : \A i \in 1 .. Len(es) : es[i].seq <= n <=> i <= k
  BY SplitAt
<1> DEFINE len == Len(es)
           A == After(es, n)
<1>2. A \in Seq(EntryType) /\ Len(A) = len - k /\ \A i \in 1 .. len - k : A[i] = es[k + i]
  BY <1>1, AfterAt
<1>3. len \in Nat /\ k \in Nat /\ k <= len /\ \A i \in 1 .. len - k : k + i \in 1 .. len
  BY <1>1
<1> HIDE DEF A, len
<1>4. Ascending(A)
  <2>1. ASSUME NEW i \in 1 .. len - k, NEW j \in 1 .. len - k, i < j
        PROVE  A[i].seq < A[j].seq
    <3>1. es[k + i].seq < es[k + j].seq
      BY <2>1, <1>3 DEF Ascending, len
    <3> QED BY <3>1, <1>2
  <2> QED BY <1>2, <2>1 DEF Ascending
<1>5. ASSUME NEW i \in 1 .. Len(A) PROVE A[i].seq > n /\ \E j \in 1 .. Len(es) : A[i] = es[j]
  <2>1. k + i \in 1 .. len /\ A[i] = es[k + i] /\ ~(k + i <= k)
    BY <1>2, <1>3
  <2>2. ~(es[k + i].seq <= n) /\ es[k + i].seq \in Nat
    BY <2>1, <1>1, EntryIs DEF len
  <2> QED BY <2>1, <2>2 DEF len
<1>6. ASSUME A # <<>> PROVE Last(A) = Last(es) /\ es # <<>>
  <2>1. len - k \in 1 .. len - k /\ k + (len - k) = len
    BY <1>2, <1>3, <1>6
  <2>2. A[len - k] = es[len]
    BY <2>1, <1>2
  <2>3. Last(A) = A[len - k] /\ Last(es) = es[len]
    BY <1>2 DEF Last, len
  <2>4. len # 0
    BY <2>1, <1>3
  <2> QED BY <2>2, <2>3, <2>4 DEF len
<1>7. ASSUME A = <<>> PROVE \A i \in 1 .. Len(es) : es[i].seq <= n
  <2>1. k = len
    BY <1>2, <1>3, <1>7
  <2> QED BY <2>1, <1>1 DEF len
<1>8. Len(A) \in 0 .. Len(es)
  BY <1>2, <1>3 DEF len
<1> QED BY <1>2, <1>4, <1>5, <1>6, <1>7, <1>8 DEF A

\* A new entry is past any number below its own.
LEMMA AfterMore ==
  ASSUME NEW es \in Seq(EntryType), Ascending(es), NEW n \in Nat, NEW e \in EntryType, e.seq > n
  PROVE  After(Append(es, e), n) = Append(After(es, n), e)
<1> DEFINE len == Len(es)
           fs == Append(es, e)
<1>1. PICK k \in 0 .. Len(es) : \A i \in 1 .. Len(es) : es[i].seq <= n <=> i <= k
  BY SplitAt
<1>2. /\ After(es, n) \in Seq(EntryType) /\ Len(After(es, n)) = len - k
      /\ \A i \in 1 .. len - k : After(es, n)[i] = es[k + i]
  BY <1>1, AfterAt
<1>3. /\ fs \in Seq(EntryType) /\ Len(fs) = len + 1 /\ len \in Nat
      /\ \A i \in 1 .. len : fs[i] = es[i]
      /\ fs[len + 1] = e
      /\ \A i \in 1 .. len + 1 : i \in 1 .. len \/ i = len + 1
  BY MoreIs
<1>4. k \in Nat /\ k <= len /\ e.seq \in Nat
  BY <1>1 DEF EntryType
<1> HIDE DEF fs
<1>5. \A i \in 1 .. Len(fs) : fs[i].seq <= n <=> i <= k
  <2> SUFFICES ASSUME NEW i \in 1 .. len + 1 PROVE fs[i].seq <= n <=> i <= k
    BY <1>3
  <2>1. CASE i \in 1 .. len
    BY <2>1, <1>1, <1>3
  <2>2. CASE i = len + 1
    BY <2>2, <1>3, <1>4
  <2> QED BY <2>1, <2>2, <1>3
<1>6. k \in 0 .. Len(fs)
  BY <1>3, <1>4
<1>7. /\ After(fs, n) \in Seq(EntryType) /\ Len(After(fs, n)) = (len + 1) - k
      /\ \A i \in 1 .. (len + 1) - k : After(fs, n)[i] = fs[k + i]
  <2>1. /\ After(fs, n) \in Seq(EntryType) /\ Len(After(fs, n)) = Len(fs) - k
        /\ \A i \in 1 .. Len(fs) - k : After(fs, n)[i] = fs[k + i]
    BY <1>3, <1>5, <1>6, AfterAt
  <2> QED BY <2>1, <1>3
<1> DEFINE B == Append(After(es, n), e)
<1>8. /\ B \in Seq(EntryType) /\ Len(B) = (len - k) + 1
      /\ \A i \in 1 .. len - k : B[i] = After(es, n)[i]
      /\ B[(len - k) + 1] = e
      /\ \A i \in 1 .. (len - k) + 1 : i \in 1 .. len - k \/ i = (len - k) + 1
  BY <1>2, MoreIs
<1> HIDE DEF B, len
<1>9. ASSUME NEW i \in 1 .. (len - k) + 1 PROVE After(fs, n)[i] = B[i]
  <2>0. i \in 1 .. (len + 1) - k
    BY <1>3, <1>4
  <2>1. CASE i \in 1 .. len - k
    <3>1. k + i \in 1 .. len
      BY <2>1, <1>3, <1>4
    <3> QED BY <2>0, <2>1, <3>1, <1>2, <1>3, <1>7, <1>8
  <2>2. CASE i = (len - k) + 1
    <3>1. k + i = len + 1
      BY <2>2, <1>3, <1>4
    <3> QED BY <2>0, <2>2, <3>1, <1>3, <1>7, <1>8
  <2> QED BY <2>1, <2>2, <1>8
<1>10. Len(After(fs, n)) = Len(B)
  BY <1>3, <1>4, <1>7, <1>8
<1>11. After(fs, n) = B
  BY <1>7, <1>8, <1>9, <1>10, SameSeq
<1> QED BY <1>11 DEF fs, B

\* Nothing is past a number that no entry exceeds.
LEMMA AfterNone ==
  ASSUME NEW es \in Seq(EntryType), NEW n \in Nat, \A i \in 1 .. Len(es) : es[i].seq <= n
  PROVE  After(es, n) = <<>>
<1>1. Len(es) \in 0 .. Len(es) /\ \A i \in 1 .. Len(es) : es[i].seq <= n <=> i <= Len(es)
  OBVIOUS
<1>2. After(es, n) \in Seq(EntryType) /\ Len(After(es, n)) = Len(es) - Len(es)
  BY <1>1, AfterAt
<1>3. Len(es) - Len(es) = 0
  OBVIOUS
<1> QED BY <1>2, <1>3

\* Everything is past a number below all of them.
LEMMA AfterAll ==
  ASSUME NEW es \in Seq(EntryType), NEW n \in Nat, \A i \in 1 .. Len(es) : es[i].seq > n
  PROVE  After(es, n) = es
<1>1. \A i \in 1 .. Len(es) : es[i].seq \in Nat
  BY EntryIs
<1>2. 0 \in 0 .. Len(es) /\ \A i \in 1 .. Len(es) : es[i].seq <= n <=> i <= 0
  BY <1>1
<1>3. /\ After(es, n) \in Seq(EntryType) /\ Len(After(es, n)) = Len(es) - 0
      /\ \A i \in 1 .. Len(es) - 0 : After(es, n)[i] = es[0 + i]
  BY <1>2, AfterAt
<1>4. Len(After(es, n)) = Len(es) /\ \A i \in 1 .. Len(After(es, n)) : After(es, n)[i] = es[i]
  BY <1>3
<1> QED BY <1>3, <1>4, SameSeq

-----------------------------------------------------------------------------
(* The idempotency index after a replay *)

\* The recursion of Remembered, and its solutions.
RecordStep(f, log, cmds, n) == IF n = 0 THEN log ELSE Record(f[n - 1], cmds[n])

Records(f, log, cmds, len) == f = [n \in 0 .. len |-> RecordStep(f, log, cmds, n)]

\* It has a solution.
LEMMA RecordsExist ==
  ASSUME NEW log, NEW cmds, NEW len \in Nat
  PROVE  \E f : Records(f, log, cmds, len)
<1> DEFINE T == {n \in Nat : \E f : Records(f, log, cmds, n)}
<1>1. 0 \in T
  <2> DEFINE f == [n \in 0 .. 0 |-> log]
  <2>1. \A n \in 0 .. 0 : RecordStep(f, log, cmds, n) = log
    BY DEF RecordStep
  <2>2. Records(f, log, cmds, 0)
    BY <2>1 DEF Records
  <2> HIDE DEF f
  <2> QED BY <2>2
<1>2. ASSUME NEW n \in T
      PROVE  n + 1 \in T
  <2>1. n \in Nat
    OBVIOUS
  <2>2. PICK f : Records(f, log, cmds, n)
    OBVIOUS
  <2> DEFINE g == [i \in 0 .. n + 1 |-> IF i = n + 1 THEN Record(f[n], cmds[n + 1]) ELSE f[i]]
  <2>3. \A i \in 0 .. n : g[i] = f[i] /\ f[i] = RecordStep(f, log, cmds, i)
    BY <2>1, <2>2 DEF Records
  <2>4. g[n + 1] = Record(f[n], cmds[n + 1])
    BY <2>1
  <2>5. g = [i \in 0 .. n + 1 |-> g[i]]
    OBVIOUS
  <2> HIDE DEF g
  <2>6. ASSUME NEW i \in 0 .. n + 1
        PROVE  g[i] = RecordStep(g, log, cmds, i)
    <3>1. CASE i = 0
      BY <3>1, <2>1, <2>3 DEF RecordStep
    <3>2. CASE i # 0 /\ i <= n
      <4>1. i \in 0 .. n /\ i - 1 \in 0 .. n
        BY <3>2, <2>1
      <4> QED BY <4>1, <3>2, <2>3 DEF RecordStep
    <3>3. CASE i = n + 1
      <4>1. n \in 0 .. n /\ i - 1 = n /\ i # 0
        BY <3>3, <2>1
      <4> QED BY <4>1, <3>3, <2>3, <2>4 DEF RecordStep
    <3> QED BY <3>1, <3>2, <3>3, <2>1
  <2>7. g = [i \in 0 .. n + 1 |-> RecordStep(g, log, cmds, i)]
    <3>1. [i \in 0 .. n + 1 |-> g[i]] = [i \in 0 .. n + 1 |-> RecordStep(g, log, cmds, i)]
      BY <2>6
    <3> QED BY <2>5, <3>1, Zenon
  <2>8. Records(g, log, cmds, n + 1) /\ n + 1 \in Nat
    BY <2>1, <2>7 DEF Records
  <2> QED BY <2>8
<1>3. T = Nat
  <2>1. T \in SUBSET Nat
    OBVIOUS
  <2> HIDE DEF T
  <2> QED BY <1>1, <1>2, <2>1, SetInduction
<1> QED BY <1>3

\* Two solutions agree where the commands do.
LEMMA RecordsAgree ==
  ASSUME NEW log, NEW cmds, NEW more, NEW n \in Nat, NEW m \in Nat, n <= m,
         \A i \in 1 .. n : cmds[i] = more[i]
  PROVE  \A f, g : Records(f, log, cmds, n) /\ Records(g, log, more, m) => f[n] = g[n]
<1> SUFFICES ASSUME NEW f, Records(f, log, cmds, n), NEW g, Records(g, log, more, m)
             PROVE  f[n] = g[n]
  OBVIOUS
<1> DEFINE T == {i \in Nat : i <= n => f[i] = g[i]}
<1>0. /\ \A i \in 0 .. n : f[i] = RecordStep(f, log, cmds, i)
      /\ \A i \in 0 .. n : g[i] = RecordStep(g, log, more, i)
  <2>1. \A i \in 0 .. n : i \in 0 .. m
    OBVIOUS
  <2> QED BY <2>1 DEF Records
<1>1. 0 \in T
  BY <1>0 DEF RecordStep
<1>2. ASSUME NEW i \in T
      PROVE  i + 1 \in T
  <2> SUFFICES ASSUME i + 1 <= n PROVE f[i + 1] = g[i + 1]
    OBVIOUS
  <2>1. i + 1 \in 0 .. n /\ i + 1 \in 1 .. n /\ i + 1 # 0 /\ (i + 1) - 1 = i /\ i <= n
    OBVIOUS
  <2>2. f[i] = g[i]
    BY <2>1
  <2> QED BY <2>1, <2>2, <1>0 DEF RecordStep
<1>3. T = Nat
  <2>1. T \in SUBSET Nat
    OBVIOUS
  <2> HIDE DEF T
  <2> QED BY <1>1, <1>2, <2>1, SetInduction
<1> QED BY <1>3

\* The index after a replay is what the solution gives.
LEMMA RememberedIs ==
  ASSUME NEW log, NEW cmds, Len(cmds) \in Nat
  PROVE  \E f : Records(f, log, cmds, Len(cmds)) /\ Remembered(log, cmds) = f[Len(cmds)]
<1> DEFINE len == Len(cmds)
           f == CHOOSE f : f = [n \in 0 .. len |-> IF n = 0 THEN log ELSE Record(f[n - 1], cmds[n])]
<1>1. Remembered(log, cmds) = f[len]
  BY DEF Remembered
<1>2. \E g : g = [n \in 0 .. len |-> IF n = 0 THEN log ELSE Record(g[n - 1], cmds[n])]
  <2>1. PICK g : Records(g, log, cmds, len)
    BY RecordsExist
  <2> QED BY <2>1, Zenon DEF Records, RecordStep
<1>3. f = [n \in 0 .. len |-> IF n = 0 THEN log ELSE Record(f[n - 1], cmds[n])]
  BY <1>2
<1>4. Records(f, log, cmds, len)
  BY <1>3 DEF Records, RecordStep
<1> HIDE DEF f
<1> QED BY <1>1, <1>4

\* A replay of nothing leaves the index.
LEMMA RememberedNone ==
  ASSUME NEW log
  PROVE  Remembered(log, <<>>) = log
<1>1. Len(<<>>) = 0
  OBVIOUS
<1>2. PICK f : Records(f, log, <<>>, 0) /\ Remembered(log, <<>>) = f[0]
  BY <1>1, RememberedIs
<1> QED BY <1>2 DEF Records, RecordStep

\* A replay records its commands one after the other.
LEMMA RememberedMore ==
  ASSUME NEW log, NEW S, NEW cmds \in Seq(S), NEW x \in S
  PROVE  Remembered(log, Append(cmds, x)) = Record(Remembered(log, cmds), x)
<1> DEFINE len == Len(cmds)
           more == Append(cmds, x)
<1>1. len \in Nat /\ Len(more) = len + 1 /\ more[len + 1] = x /\ \A i \in 1 .. len : cmds[i] = more[i]
  OBVIOUS
<1> HIDE DEF more
<1>2. PICK f : Records(f, log, cmds, len) /\ Remembered(log, cmds) = f[len]
  BY <1>1, RememberedIs
<1>3. PICK g : Records(g, log, more, len + 1) /\ Remembered(log, more) = g[len + 1]
  BY <1>1, RememberedIs
<1> HIDE DEF len
<1>4. f[len] = g[len]
  <2>0. len + 1 \in Nat /\ len <= len + 1 /\ len \in Nat /\ \A i \in 1 .. len : cmds[i] = more[i]
    BY <1>1
  <2>1. \A p, q : Records(p, log, cmds, len) /\ Records(q, log, more, len + 1) => p[len] = q[len]
    BY <2>0, RecordsAgree
  <2> QED BY <2>1, <1>2, <1>3
<1>5. g[len + 1] = Record(g[len], more[len + 1])
  <2>1. len + 1 \in 0 .. len + 1 /\ (len + 1) - 1 = len /\ len + 1 # 0
    BY <1>1
  <2>2. g[len + 1] = RecordStep(g, log, more, len + 1)
    BY <1>3, <2>1 DEF Records
  <2> QED BY <2>1, <2>2 DEF RecordStep
<1> QED BY <1>1, <1>2, <1>3, <1>4, <1>5 DEF more

\* Recording keeps the index within its cap (CommandLog::record).
LEMMA RecordIs ==
  ASSUME NEW log \in Seq(Commands), Len(log) <= LogCap, NEW c \in Asked
  PROVE  /\ Record(log, c) \in Seq(Commands) /\ Len(Record(log, c)) <= LogCap
         /\ ToSet(Record(log, c)) \subseteq ToSet(log) \cup {c}
<1>0. LogCap \in Nat \ {0}
  BY JournalAssumption
<1>1. CASE c = Step \/ KeyOf[c] = NoKey \/ \E d \in ToSet(log) : KeyOf[d] = KeyOf[c]
  BY <1>1 DEF Record
<1>2. CASE ~(c = Step \/ KeyOf[c] = NoKey \/ \E d \in ToSet(log) : KeyOf[d] = KeyOf[c])
  <2> DEFINE longer == Append(log, c)
  <2>1. c \in Commands
    BY <1>2 DEF Asked
  <2>2. longer \in Seq(Commands) /\ Len(longer) = Len(log) + 1 /\ Len(log) \in Nat /\ longer # <<>>
    BY <2>1
  <2>3. ToSet(longer) = ToSet(log) \cup {c}
    BY <2>1, MoreSet
  <2> HIDE DEF longer
  <2>4. /\ Tail(longer) \in Seq(Commands) /\ Len(Tail(longer)) = Len(longer) - 1
        /\ ToSet(Tail(longer)) \subseteq ToSet(longer)
    BY <2>2, TailSet
  <2>5. Record(log, c) = IF Len(longer) > LogCap THEN Tail(longer) ELSE longer
    BY <1>2, Zenon DEF Record, longer
  <2>6. CASE Len(longer) > LogCap
    BY <2>6, <2>2, <2>3, <2>4, <2>5
  <2>7. CASE ~(Len(longer) > LogCap)
    BY <2>7, <2>2, <2>3, <2>5, <1>0
  <2> QED BY <2>6, <2>7
<1> QED BY <1>1, <1>2

\* So does a replay, which takes in nothing but what it replays.
LEMMA RememberedType ==
  ASSUME NEW log \in Seq(Commands), Len(log) <= LogCap, NEW cmds \in Seq(Asked)
  PROVE  /\ Remembered(log, cmds) \in Seq(Commands) /\ Len(Remembered(log, cmds)) <= LogCap
         /\ ToSet(Remembered(log, cmds)) \subseteq ToSet(log) \cup ToSet(cmds)
<1> DEFINE len == Len(cmds)
<1>1. len \in Nat /\ \A i \in 1 .. len : cmds[i] \in Asked /\ cmds[i] \in ToSet(cmds)
  BY DEF ToSet
<1>2. PICK f : Records(f, log, cmds, len) /\ Remembered(log, cmds) = f[len]
  BY <1>1, RememberedIs
<1> HIDE DEF len
<1> DEFINE Fine(r) == r \in Seq(Commands) /\ Len(r) <= LogCap /\ ToSet(r) \subseteq ToSet(log) \cup ToSet(cmds)
           T == {i \in Nat : i <= len => Fine(f[i])}
<1>3. \A i \in 0 .. len : f[i] = RecordStep(f, log, cmds, i)
  BY <1>2 DEF Records
<1>4. 0 \in T
  <2>1. f[0] = log
    BY <1>1, <1>3 DEF RecordStep
  <2> QED BY <2>1
<1>5. ASSUME NEW i \in T
      PROVE  i + 1 \in T
  <2> SUFFICES ASSUME i + 1 <= len PROVE Fine(f[i + 1])
    OBVIOUS
  <2>1. i + 1 \in 0 .. len /\ i + 1 \in 1 .. len /\ i + 1 # 0 /\ (i + 1) - 1 = i /\ i <= len
    BY <1>1
  <2>2. Fine(f[i])
    BY <2>1
  <2>3. f[i + 1] = Record(f[i], cmds[i + 1])
    BY <2>1, <1>3 DEF RecordStep
  <2>4. Fine(Record(f[i], cmds[i + 1]))
    <3>1. cmds[i + 1] \in Asked /\ cmds[i + 1] \in ToSet(cmds)
      BY <2>1, <1>1
    <3>2. /\ Record(f[i], cmds[i + 1]) \in Seq(Commands) /\ Len(Record(f[i], cmds[i + 1])) <= LogCap
          /\ ToSet(Record(f[i], cmds[i + 1])) \subseteq ToSet(f[i]) \cup {cmds[i + 1]}
      BY <2>2, <3>1, RecordIs
    <3> QED BY <2>2, <3>1, <3>2
  <2> HIDE DEF Fine
  <2> QED BY <2>3, <2>4
<1>6. T = Nat
  <2>1. T \in SUBSET Nat
    OBVIOUS
  <2> HIDE DEF T
  <2> QED BY <1>4, <1>5, <2>1, SetInduction
<1>7. len \in T /\ len <= len
  BY <1>1, <1>6
<1> QED BY <1>2, <1>7

-----------------------------------------------------------------------------
(* The journal file *)

\* The beginning of a sequence, of entries and of one longer.
LEMMA PrefixIs ==
  ASSUME NEW S, NEW s \in Seq(S), NEW n \in 0 .. Len(s)
  PROVE  /\ SubSeq(s, 1, n) \in Seq(S) /\ Len(SubSeq(s, 1, n)) = n
         /\ \A i \in 1 .. n : SubSeq(s, 1, n)[i] = s[i]
<1>1. 0 \in Nat /\ n \in Nat /\ 0 <= n /\ n <= Len(s) /\ 0 + 1 = 1 /\ n - 0 = n
  OBVIOUS
<1>2. /\ SubSeq(s, 0 + 1, n) \in Seq(S) /\ Len(SubSeq(s, 0 + 1, n)) = n - 0
      /\ \A i \in 1 .. n - 0 : SubSeq(s, 0 + 1, n)[i] = s[0 + i]
  BY <1>1, PartIs
<1>3. \A i \in 1 .. n : 0 + i = i
  OBVIOUS
<1> QED BY <1>1, <1>2, <1>3

\* The whole of a sequence is a part of it.
LEMMA PrefixAll ==
  ASSUME NEW S, NEW s \in Seq(S)
  PROVE  SubSeq(s, 1, Len(s)) = s
BY SubSeqFull

\* A part of what was there is the same part after an append.
LEMMA PrefixOfMore ==
  ASSUME NEW S, NEW s \in Seq(S), NEW x \in S, NEW n \in 0 .. Len(s)
  PROVE  SubSeq(Append(s, x), 1, n) = SubSeq(s, 1, n)
<1> DEFINE t == Append(s, x)
<1>1. t \in Seq(S) /\ n \in 0 .. Len(t) /\ \A i \in 1 .. n : t[i] = s[i]
  OBVIOUS
<1> HIDE DEF t
<1>2. /\ SubSeq(t, 1, n) \in Seq(S) /\ Len(SubSeq(t, 1, n)) = n
      /\ \A i \in 1 .. n : SubSeq(t, 1, n)[i] = t[i]
  BY <1>1, PrefixIs
<1>3. /\ SubSeq(s, 1, n) \in Seq(S) /\ Len(SubSeq(s, 1, n)) = n
      /\ \A i \in 1 .. n : SubSeq(s, 1, n)[i] = s[i]
  BY PrefixIs
<1>4. SubSeq(t, 1, n) = SubSeq(s, 1, n)
  BY <1>1, <1>2, <1>3, SameSeq
<1> QED BY <1>4 DEF t

\* The beginning of a journal in order is in order.
LEMMA PrefixAscending ==
  ASSUME NEW es \in Seq(EntryType), Ascending(es), NEW n \in 0 .. Len(es)
  PROVE  SubSeq(es, 1, n) \in Seq(EntryType) /\ Ascending(SubSeq(es, 1, n))
<1>1. /\ SubSeq(es, 1, n) \in Seq(EntryType) /\ Len(SubSeq(es, 1, n)) = n
      /\ \A i \in 1 .. n : SubSeq(es, 1, n)[i] = es[i]
  BY PrefixIs
<1>2. \A i \in 1 .. n : i \in 1 .. Len(es)
  OBVIOUS
<1>3. ASSUME NEW i \in 1 .. n, NEW j \in 1 .. n, i < j
      PROVE  SubSeq(es, 1, n)[i].seq < SubSeq(es, 1, n)[j].seq
  <2>1. es[i].seq < es[j].seq
    BY <1>2, <1>3 DEF Ascending
  <2> QED BY <1>1, <2>1
<1> QED BY <1>1, <1>3 DEF Ascending

\* A journal in order is so with a later entry at its end.
LEMMA MoreAscending ==
  ASSUME NEW es \in Seq(EntryType), Ascending(es), NEW e \in EntryType,
         \A i \in 1 .. Len(es) : es[i].seq < e.seq
  PROVE  Append(es, e) \in Seq(EntryType) /\ Ascending(Append(es, e))
<1> DEFINE fs == Append(es, e)
           len == Len(es)
<1>1. /\ fs \in Seq(EntryType) /\ Len(fs) = len + 1 /\ len \in Nat
      /\ \A i \in 1 .. len : fs[i] = es[i]
      /\ fs[len + 1] = e
      /\ \A i \in 1 .. len + 1 : i \in 1 .. len \/ i = len + 1
  BY MoreIs
<1> HIDE DEF fs
<1>2. ASSUME NEW i \in 1 .. len + 1, NEW j \in 1 .. len + 1, i < j
      PROVE  fs[i].seq < fs[j].seq
  <2>1. i \in 1 .. len
    BY <1>1, <1>2
  <2>2. CASE j \in 1 .. len
    <3>1. es[i].seq < es[j].seq
      BY <2>1, <2>2, <1>2 DEF Ascending
    <3> QED BY <3>1, <2>1, <2>2, <1>1
  <2>3. CASE j = len + 1
    BY <2>1, <2>3, <1>1
  <2> QED BY <2>2, <2>3, <1>1
<1>3. Ascending(fs)
  BY <1>1, <1>2 DEF Ascending
<1> QED BY <1>1, <1>3 DEF fs

\* A line of a file in which none was torn is a whole entry.
LEMMA LineIs ==
  ASSUME NEW f \in Seq(LineType), NEW i \in 1 .. Len(f)
  PROVE  /\ f[i] \in LineType /\ f[i].ok = TRUE /\ f[i].ended = TRUE /\ f[i].entry \in EntryType
         /\ f[i] = Line(TRUE, f[i].entry, TRUE)
<1>1. f[i] \in LineType
  OBVIOUS
<1> QED BY <1>1 DEF LineType, Line

\* A file in which no line was torn is read in full.
LEMMA EntriesAre ==
  ASSUME NEW f \in Seq(LineType)
  PROVE  /\ Readable(f) /\ ~OpenEnd(f)
         /\ Entries(f) \in Seq(EntryType) /\ Len(Entries(f)) = Len(f)
         /\ \A i \in 1 .. Len(f) : Entries(f)[i] = f[i].entry
<1> DEFINE len == Len(f)
           es == [i \in DOMAIN f |-> f[i].entry]
<1>1. len \in Nat /\ DOMAIN f = 1 .. len
  OBVIOUS
<1>2. \A i \in 1 .. len : f[i].ok = TRUE /\ f[i].ended = TRUE /\ f[i].entry \in EntryType
  BY LineIs
<1>3. Readable(f)
  BY <1>1, <1>2 DEF Readable
<1>4. f # <<>> => Last(f).ok = TRUE /\ Last(f).ended = TRUE
  <2> SUFFICES ASSUME f # <<>> PROVE len \in 1 .. len
    BY <1>2 DEF Last
  <2> QED OBVIOUS
<1>5. ~OpenEnd(f)
  BY <1>4 DEF OpenEnd
<1>6. Entries(f) = SubSeq(es, 1, len)
  BY <1>4 DEF Entries
<1>7. es \in Seq(EntryType) /\ Len(es) = len /\ \A i \in 1 .. len : es[i] = f[i].entry
  <2>1. es = [i \in 1 .. len |-> f[i].entry]
    BY <1>1
  <2>2. es \in [1 .. len -> EntryType]
    BY <2>1, <1>2
  <2> HIDE DEF len
  <2> QED BY <2>1, <2>2, <1>1
<1> HIDE DEF es
<1>8. SubSeq(es, 1, len) = es
  BY <1>7, PrefixAll
<1> QED BY <1>3, <1>5, <1>6, <1>7, <1>8

\* An append adds its entry to what is read.
LEMMA AppendLineIs ==
  ASSUME NEW f \in Seq(LineType), NEW e \in EntryType
  PROVE  /\ AppendLine(f, e) \in Seq(LineType) /\ Len(AppendLine(f, e)) = Len(f) + 1
         /\ Entries(AppendLine(f, e)) = Append(Entries(f), e)
<1> DEFINE l == Line(TRUE, e, TRUE)
           g == Append(f, l)
           len == Len(f)
<1>1. AppendLine(f, e) = g
  BY EntriesAre DEF AppendLine, WriteLine
<1>2. l \in LineType /\ l.entry = e
  BY DEF Line, LineType
<1> HIDE DEF l
<1>3. /\ g \in Seq(LineType) /\ Len(g) = len + 1 /\ len \in Nat
      /\ \A i \in 1 .. len : g[i] = f[i]
      /\ g[len + 1] = l
      /\ \A i \in 1 .. len + 1 : i \in 1 .. len \/ i = len + 1
  BY <1>2, MoreIs
<1> HIDE DEF g
<1>4. /\ Entries(g) \in Seq(EntryType) /\ Len(Entries(g)) = len + 1
      /\ \A i \in 1 .. len + 1 : Entries(g)[i] = g[i].entry
  BY <1>3, EntriesAre
<1>5. /\ Entries(f) \in Seq(EntryType) /\ Len(Entries(f)) = len
      /\ \A i \in 1 .. len : Entries(f)[i] = f[i].entry
  BY EntriesAre
<1> DEFINE more == Append(Entries(f), e)
<1>6. /\ more \in Seq(EntryType) /\ Len(more) = len + 1
      /\ \A i \in 1 .. len : more[i] = Entries(f)[i]
      /\ more[len + 1] = e
  BY <1>5, MoreIs
<1> HIDE DEF more, len
<1>7. \A i \in 1 .. len + 1 : Entries(g)[i] = more[i]
  <2> SUFFICES ASSUME NEW i \in 1 .. len + 1 PROVE Entries(g)[i] = more[i]
    OBVIOUS
  <2>1. CASE i \in 1 .. len
    BY <2>1, <1>3, <1>4, <1>5, <1>6
  <2>2. CASE i = len + 1
    BY <2>2, <1>2, <1>3, <1>4, <1>6
  <2> QED BY <2>1, <2>2, <1>3
<1>8. Entries(g) = more
  BY <1>4, <1>6, <1>7, SameSeq
<1> QED BY <1>1, <1>3, <1>8 DEF more, len

\* What is read of a file that lost its end is the beginning of it.
LEMMA PrefixLines ==
  ASSUME NEW f \in Seq(LineType), NEW n \in 0 .. Len(f)
  PROVE  /\ SubSeq(f, 1, n) \in Seq(LineType) /\ Len(SubSeq(f, 1, n)) = n
         /\ Entries(SubSeq(f, 1, n)) = SubSeq(Entries(f), 1, n)
<1> DEFINE g == SubSeq(f, 1, n)
<1>1. g \in Seq(LineType) /\ Len(g) = n /\ \A i \in 1 .. n : g[i] = f[i]
  BY PrefixIs
<1>2. \A i \in 1 .. n : i \in 1 .. Len(f)
  OBVIOUS
<1> HIDE DEF g
<1>3. /\ Entries(g) \in Seq(EntryType) /\ Len(Entries(g)) = n
      /\ \A i \in 1 .. n : Entries(g)[i] = g[i].entry
  BY <1>1, EntriesAre
<1>4. /\ Entries(f) \in Seq(EntryType) /\ Len(Entries(f)) = Len(f)
      /\ \A i \in 1 .. Len(f) : Entries(f)[i] = f[i].entry
  BY EntriesAre
<1>5. /\ SubSeq(Entries(f), 1, n) \in Seq(EntryType) /\ Len(SubSeq(Entries(f), 1, n)) = n
      /\ \A i \in 1 .. n : SubSeq(Entries(f), 1, n)[i] = Entries(f)[i]
  BY <1>4, PrefixIs
<1>6. Entries(g) = SubSeq(Entries(f), 1, n)
  BY <1>1, <1>2, <1>3, <1>4, <1>5, SameSeq
<1> QED BY <1>1, <1>6 DEF g

\* The file a truncation writes.
Rewritten(es) == [i \in DOMAIN es |-> Line(TRUE, es[i], TRUE)]

\* What is read of it is what it was made of.
LEMMA RewrittenIs ==
  ASSUME NEW es \in Seq(EntryType)
  PROVE  Rewritten(es) \in Seq(LineType) /\ Len(Rewritten(es)) = Len(es) /\ Entries(Rewritten(es)) = es
<1> DEFINE len == Len(es)
           f == Rewritten(es)
<1>1. len \in Nat /\ DOMAIN es = 1 .. len /\ \A i \in 1 .. len : es[i] \in EntryType
  OBVIOUS
<1>2. \A i \in 1 .. len : Line(TRUE, es[i], TRUE) \in LineType /\ Line(TRUE, es[i], TRUE).entry = es[i]
  BY <1>1 DEF Line, LineType
<1>3. f = [i \in 1 .. len |-> Line(TRUE, es[i], TRUE)]
  BY <1>1 DEF Rewritten
<1> HIDE DEF len, f
<1>4. f \in [1 .. len -> LineType]
  BY <1>2, <1>3
<1>5. f \in Seq(LineType) /\ Len(f) = len
  <2>1. len \in Nat /\ DOMAIN f = 1 .. len
    BY <1>1, <1>3
  <2>2. f \in Seq(LineType)
    BY <2>1, <1>4
  <2> QED BY <2>1, <2>2
<1>6. \A i \in 1 .. len : f[i].entry = es[i]
  BY <1>2, <1>3
<1>7. /\ Entries(f) \in Seq(EntryType) /\ Len(Entries(f)) = len
      /\ \A i \in 1 .. len : Entries(f)[i] = f[i].entry
  BY <1>5, EntriesAre
<1>8. Entries(f) = es
  BY <1>6, <1>7, SameSeq DEF len
<1> QED BY <1>5, <1>8 DEF len, f

-----------------------------------------------------------------------------
(* A start from a snapshot and a journal *)

\* The set of a sequence's elements, one by one.
LEMMA SetOf ==
  ASSUME NEW S, NEW s \in Seq(S)
  PROVE  /\ DOMAIN s = 1 .. Len(s) /\ Len(s) \in Nat
         /\ \A x : x \in ToSet(s) => \E i \in 1 .. Len(s) : x = s[i]
         /\ \A i \in 1 .. Len(s) : s[i] \in ToSet(s)
         /\ ToSet(s) \subseteq S
<1>1. DOMAIN s = 1 .. Len(s) /\ Len(s) \in Nat /\ \A i \in 1 .. Len(s) : s[i] \in S
  OBVIOUS
<1> QED BY <1>1 DEF ToSet

\* The commands of a journal's entries, one by one.
LEMMA CommandsAre ==
  ASSUME NEW es \in Seq(EntryType)
  PROVE  /\ CommandsOf(es) \in Seq(Asked) /\ Len(CommandsOf(es)) = Len(es)
         /\ \A i \in 1 .. Len(es) : CommandsOf(es)[i] = es[i].cmd
<1> DEFINE len == Len(es)
<1>1. len \in Nat /\ DOMAIN es = 1 .. len /\ \A i \in 1 .. len : es[i].cmd \in Asked
  BY EntryIs
<1>2. CommandsOf(es) = [i \in 1 .. len |-> es[i].cmd]
  BY <1>1 DEF CommandsOf
<1> HIDE DEF len
<1>3. CommandsOf(es) \in [1 .. len -> Asked]
  BY <1>1, <1>2
<1>4. CommandsOf(es) \in Seq(Asked) /\ Len(CommandsOf(es)) = len
  BY <1>1, <1>2, <1>3
<1> QED BY <1>2, <1>4 DEF len

\* The commands of one more entry.
LEMMA CommandsMore ==
  ASSUME NEW es \in Seq(EntryType), NEW e \in EntryType
  PROVE  CommandsOf(Append(es, e)) = Append(CommandsOf(es), e.cmd)
<1> DEFINE fs == Append(es, e)
           cs == CommandsOf(es)
           len == Len(es)
           more == Append(cs, e.cmd)
<1>1. /\ fs \in Seq(EntryType) /\ Len(fs) = len + 1 /\ len \in Nat
      /\ \A i \in 1 .. len : fs[i] = es[i]
      /\ fs[len + 1] = e
      /\ \A i \in 1 .. len + 1 : i \in 1 .. len \/ i = len + 1
  BY MoreIs
<1>2. cs \in Seq(Asked) /\ Len(cs) = len /\ \A i \in 1 .. len : cs[i] = es[i].cmd
  BY CommandsAre
<1>3. e.cmd \in Asked
  BY DEF EntryType
<1> HIDE DEF fs, cs
<1>4. /\ more \in Seq(Asked) /\ Len(more) = len + 1
      /\ \A i \in 1 .. len : more[i] = cs[i]
      /\ more[len + 1] = e.cmd
  BY <1>2, <1>3, MoreIs
<1>5. CommandsOf(fs) \in Seq(Asked) /\ Len(CommandsOf(fs)) = len + 1
      /\ \A i \in 1 .. len + 1 : CommandsOf(fs)[i] = fs[i].cmd
  BY <1>1, CommandsAre
<1> HIDE DEF more, len
<1>6. ASSUME NEW i \in 1 .. len + 1 PROVE CommandsOf(fs)[i] = more[i]
  <2>1. CASE i \in 1 .. len
    BY <2>1, <1>1, <1>2, <1>4, <1>5
  <2>2. CASE i = len + 1
    BY <2>2, <1>1, <1>4, <1>5
  <2> QED BY <2>1, <2>2, <1>1
<1>7. CommandsOf(fs) = more
  BY <1>4, <1>5, <1>6, SameSeq
<1> QED BY <1>7 DEF fs, cs, more

\* Appending to a concatenation appends to its second part.
LEMMA ConcatMore ==
  ASSUME NEW S, NEW s \in Seq(S), NEW t \in Seq(S), NEW x \in S
  PROVE  s \o Append(t, x) = Append(s \o t, x)
OBVIOUS

\* A concatenation has what its parts have.
LEMMA ConcatSet ==
  ASSUME NEW S, NEW s \in Seq(S), NEW t \in Seq(S)
  PROVE  s \o t \in Seq(S) /\ ToSet(s) \cup ToSet(t) \subseteq ToSet(s \o t)
<1> DEFINE u == s \o t
           n == Len(s)
           m == Len(t)
<1>1. /\ u \in Seq(S) /\ Len(u) = n + m /\ n \in Nat /\ m \in Nat
      /\ \A i \in 1 .. n + m : u[i] = IF i <= n THEN s[i] ELSE t[i - n]
  BY ConcatProperties
<1> HIDE DEF u
<1>2. /\ \A x : x \in ToSet(s) => \E i \in 1 .. n : x = s[i]
      /\ \A x : x \in ToSet(t) => \E i \in 1 .. m : x = t[i]
      /\ \A i \in 1 .. n + m : u[i] \in ToSet(u)
  <2>1. \A i \in 1 .. Len(u) : u[i] \in ToSet(u)
    BY <1>1, SetOf
  <2>2. \A x : x \in ToSet(s) => \E i \in 1 .. n : x = s[i]
    BY SetOf
  <2>3. \A x : x \in ToSet(t) => \E i \in 1 .. m : x = t[i]
    BY SetOf
  <2> QED BY <2>1, <2>2, <2>3, <1>1
<1> HIDE DEF n, m
<1>3. ASSUME NEW x \in ToSet(s) PROVE x \in ToSet(u)
  <2>1. PICK i \in 1 .. n : x = s[i]
    BY <1>2
  <2>2. i \in 1 .. n + m /\ i <= n
    BY <1>1
  <2> QED BY <2>1, <2>2, <1>1, <1>2
<1>4. ASSUME NEW x \in ToSet(t) PROVE x \in ToSet(u)
  <2>1. PICK i \in 1 .. m : x = t[i]
    BY <1>2
  <2>2. n + i \in 1 .. n + m /\ ~(n + i <= n) /\ (n + i) - n = i
    BY <1>1
  <2>3. u[n + i] = t[i]
    BY <2>2, <1>1
  <2> QED BY <2>1, <2>2, <2>3, <1>2
<1> QED BY <1>1, <1>3, <1>4 DEF u

\* What the type says of a snapshot; one is not None.
LEMMA SaveIs ==
  ASSUME NEW b \in SaveType
  PROVE  /\ b \in SaveRecord
         /\ b.world \in Seq(Asked) /\ b.seq \in Nat /\ b.index \in Seq(Commands)
         /\ b.outbox \in Seq(Asked) /\ Len(b.index) <= LogCap
         /\ ToSet(b.index) \subseteq ToSet(b.world)
         /\ b = [world |-> b.world, seq |-> b.seq, index |-> b.index, outbox |-> b.outbox]
         /\ b # None
<1>1. b \in SaveRecord /\ Len(b.index) <= LogCap /\ ToSet(b.index) \subseteq ToSet(b.world)
  BY DEF SaveType
<1>2. b # None
  BY <1>1, NoneAssumption DEF SaveRecord, Asked
<1> QED BY <1>1, <1>2 DEF SaveRecord

\* A replay ends in a market that could be saved.
LEMMA ResumeType ==
  ASSUME NEW b \in SaveType, NEW es \in Seq(EntryType)
  PROVE  Resume(b, es) \in SaveType
<1> DEFINE cs == CommandsOf(es)
           m == Resume(b, es)
<1>1. /\ b.world \in Seq(Asked) /\ b.seq \in Nat /\ b.index \in Seq(Commands)
      /\ b.outbox \in Seq(Asked) /\ Len(b.index) <= LogCap
      /\ ToSet(b.index) \subseteq ToSet(b.world)
  BY SaveIs
<1>2. cs \in Seq(Asked)
  BY CommandsAre
<1>3. /\ m.world = b.world \o cs /\ m.outbox = b.outbox \o cs
      /\ m.index = Remembered(b.index, cs)
      /\ m.seq = (IF es = <<>> THEN b.seq ELSE Last(es).seq)
      /\ m = [world |-> m.world, seq |-> m.seq, index |-> m.index, outbox |-> m.outbox]
  BY DEF Resume
<1> HIDE DEF m, cs
<1>4. b.world \o cs \in Seq(Asked) /\ b.outbox \o cs \in Seq(Asked)
      /\ ToSet(b.world) \cup ToSet(cs) \subseteq ToSet(b.world \o cs)
  BY <1>1, <1>2, ConcatSet
<1>5. /\ m.index \in Seq(Commands) /\ Len(m.index) <= LogCap
      /\ ToSet(m.index) \subseteq ToSet(b.index) \cup ToSet(cs)
  BY <1>1, <1>2, <1>3, RememberedType
<1>6. m.seq \in Nat
  <2>1. CASE es = <<>>
    BY <2>1, <1>1, <1>3
  <2>2. CASE es # <<>>
    <3>1. Len(es) \in 1 .. Len(es)
      BY <2>2
    <3>2. Last(es).seq \in Nat
      BY <3>1, EntryIs DEF Last
    <3> QED BY <2>2, <3>2, <1>3
  <2> QED BY <2>1, <2>2
<1>7. m \in SaveRecord
  <2>1. m.world \in Seq(Asked) /\ m.outbox \in Seq(Asked)
    BY <1>3, <1>4
  <2>2. [world |-> m.world, seq |-> m.seq, index |-> m.index, outbox |-> m.outbox] \in SaveRecord
    BY <2>1, <1>5, <1>6 DEF SaveRecord
  <2> QED BY <2>2, <1>3
<1>8. ToSet(m.index) \subseteq ToSet(m.world)
  BY <1>1, <1>3, <1>4, <1>5
<1> QED BY <1>5, <1>7, <1>8 DEF SaveType, m

\* With nothing to replay the market is the snapshot.
LEMMA ResumeNone ==
  ASSUME NEW b \in SaveType
  PROVE  Resume(b, <<>>) = b
<1>1. /\ b.world \in Seq(Asked) /\ b.outbox \in Seq(Asked)
      /\ b = [world |-> b.world, seq |-> b.seq, index |-> b.index, outbox |-> b.outbox]
  BY SaveIs
<1>2. CommandsOf(<<>>) = <<>>
  <2>1. CommandsOf(<<>>) \in Seq(Asked) /\ Len(CommandsOf(<<>>)) = 0
    <3>1. <<>> \in Seq(EntryType) /\ Len(<<>>) = 0
      OBVIOUS
    <3> QED BY <3>1, CommandsAre
  <2> QED BY <2>1
<1>3. b.world \o <<>> = b.world /\ b.outbox \o <<>> = b.outbox
  BY <1>1, ConcatEmptySeq
<1>4. Remembered(b.index, <<>>) = b.index
  BY RememberedNone
<1>5. Resume(b, <<>>) = [world |-> b.world \o CommandsOf(<<>>),
                         seq |-> b.seq,
                         index |-> Remembered(b.index, CommandsOf(<<>>)),
                         outbox |-> b.outbox \o CommandsOf(<<>>)]
  BY DEF Resume
<1> QED BY <1>1, <1>2, <1>3, <1>4, <1>5

\* An entry replayed last is an entry on top: replay does what running
\* the command did.
LEMMA ResumeMore ==
  ASSUME NEW b \in SaveType, NEW es \in Seq(EntryType), NEW e \in EntryType
  PROVE  Resume(b, Append(es, e)) = More(Resume(b, es), e)
<1> DEFINE cs == CommandsOf(es)
           fs == Append(es, e)
<1>1. /\ b.world \in Seq(Asked) /\ b.outbox \in Seq(Asked) /\ e.cmd \in Asked
  BY SaveIs DEF EntryType
<1>2. cs \in Seq(Asked)
  BY CommandsAre
<1>3. CommandsOf(fs) = Append(cs, e.cmd)
  BY CommandsMore
<1>4. fs # <<>> /\ Last(fs) = e
  BY DEF Last
<1>5. /\ Resume(b, es).world = b.world \o cs
      /\ Resume(b, es).index = Remembered(b.index, cs)
      /\ Resume(b, es).outbox = b.outbox \o cs
  BY DEF Resume
<1>6. Resume(b, fs) = [world |-> b.world \o CommandsOf(fs),
                       seq |-> IF fs = <<>> THEN b.seq ELSE Last(fs).seq,
                       index |-> Remembered(b.index, CommandsOf(fs)),
                       outbox |-> b.outbox \o CommandsOf(fs)]
  BY DEF Resume
<1> HIDE DEF cs, fs
<1>7. /\ b.world \o Append(cs, e.cmd) = Append(b.world \o cs, e.cmd)
      /\ b.outbox \o Append(cs, e.cmd) = Append(b.outbox \o cs, e.cmd)
  <2>1. \A s \in Seq(Asked) : s \o Append(cs, e.cmd) = Append(s \o cs, e.cmd)
    BY <1>1, <1>2, ConcatMore
  <2> QED BY <1>1, <2>1
<1>8. Remembered(b.index, Append(cs, e.cmd)) = Record(Remembered(b.index, cs), e.cmd)
  BY <1>1, <1>2, RememberedMore
<1>9. Resume(b, fs) = More(Resume(b, es), e)
  BY <1>3, <1>4, <1>5, <1>6, <1>7, <1>8 DEF More
<1> QED BY <1>9 DEF fs

\* A start makes a market that may be saved again.
LEMMA FromType ==
  ASSUME NEW b \in SaveType, NEW es \in Seq(EntryType), Ascending(es)
  PROVE  From(b, es) \in SaveType
<1>1. b.seq \in Nat
  BY SaveIs
<1>2. After(es, b.seq) \in Seq(EntryType)
  BY <1>1, AfterIs
<1> QED BY <1>2, ResumeType DEF From

\* A start from one more entry is one more command on what a start had.
LEMMA FromMore ==
  ASSUME NEW b \in SaveType, NEW es \in Seq(EntryType), Ascending(es),
         NEW e \in EntryType, e.seq > b.seq
  PROVE  From(b, Append(es, e)) = More(From(b, es), e)
<1>1. b.seq \in Nat
  BY SaveIs
<1>2. After(es, b.seq) \in Seq(EntryType)
  BY <1>1, AfterIs
<1>3. After(Append(es, e), b.seq) = Append(After(es, b.seq), e)
  BY <1>1, AfterMore
<1>4. Resume(b, Append(After(es, b.seq), e)) = More(Resume(b, After(es, b.seq)), e)
  BY <1>2, ResumeMore
<1> QED BY <1>3, <1>4 DEF From

\* A snapshot that has every entry already is not added to.
LEMMA FromAllBefore ==
  ASSUME NEW b \in SaveType, NEW es \in Seq(EntryType),
         \A i \in 1 .. Len(es) : es[i].seq <= b.seq
  PROVE  From(b, es) = b
<1>1. b.seq \in Nat
  BY SaveIs
<1>2. After(es, b.seq) = <<>>
  BY <1>1, AfterNone
<1> QED BY <1>2, ResumeNone DEF From

\* One more command takes nothing back.
LEMMA HoldsMore ==
  ASSUME NEW m \in SaveType, NEW e \in EntryType, NEW cs,
         NEW a \in Seq(Asked), NEW b \in Seq(Asked), Holds(m, cs, a, b)
  PROVE  Holds(More(m, e), cs, a, b)
<1> DEFINE facts == Append(m.outbox, e.cmd)
<1>1. m.world \in Seq(Asked) /\ m.outbox \in Seq(Asked) /\ e.cmd \in Asked
  BY SaveIs DEF EntryType
<1>2. More(m, e).world = Append(m.world, e.cmd) /\ More(m, e).outbox = facts
  BY DEF More
<1>3. ToSet(m.world) \subseteq ToSet(Append(m.world, e.cmd))
  BY <1>1, MoreSet
<1>4. /\ facts \in Seq(Asked) /\ Len(facts) = Len(m.outbox) + 1 /\ Len(m.outbox) \in Nat
      /\ \A i \in 1 .. Len(m.outbox) : facts[i] = m.outbox[i] /\ i \in 1 .. Len(facts)
  BY <1>1
<1> HIDE DEF facts
<1>5. Keeps(facts, a) /\ Keeps(facts, b)
  BY <1>4 DEF Keeps, Holds
<1> QED BY <1>2, <1>3, <1>5 DEF Holds

-----------------------------------------------------------------------------
(* What the file covers, whatever is lost of it *)

\* Whatever is left of the file f from its line lo on, what a start
\* makes of the snapshot b and the file has the commands cs and the
\* facts in a and o.
Covers(f, lo, b, cs, a, o) ==
  \A n \in lo .. Len(f) : Holds(From(b, SubSeq(Entries(f), 1, n)), cs, a, o)

\* A file with one more line, read in full and in part.
LEMMA GrownIs ==
  ASSUME NEW f \in Seq(LineType), Ascending(Entries(f)), NEW e \in EntryType,
         \A i \in 1 .. Len(Entries(f)) : Entries(f)[i].seq < e.seq
  PROVE  LET g == AppendLine(f, e) IN
         /\ g \in Seq(LineType) /\ Len(g) = Len(f) + 1 /\ Entries(g) = Append(Entries(f), e)
         /\ Ascending(Entries(g))
         /\ \A i \in 1 .. Len(Entries(g)) : Entries(g)[i].seq <= e.seq
         /\ \A n \in 0 .. Len(f) : SubSeq(Entries(g), 1, n) = SubSeq(Entries(f), 1, n)
         /\ SubSeq(Entries(g), 1, Len(g)) = Entries(g)
<1> DEFINE g == AppendLine(f, e)
           es == Entries(f)
           fs == Entries(g)
<1>1. g \in Seq(LineType) /\ Len(g) = Len(f) + 1 /\ fs = Append(es, e)
  BY AppendLineIs
<1>2. es \in Seq(EntryType) /\ Len(es) = Len(f)
  BY EntriesAre
<1>3. fs \in Seq(EntryType) /\ Len(fs) = Len(g)
  BY <1>1, EntriesAre
<1> HIDE DEF g, es, fs
<1>4. Ascending(fs)
  BY <1>1, <1>2, MoreAscending DEF es
<1>5. \A n \in 0 .. Len(f) : SubSeq(fs, 1, n) = SubSeq(es, 1, n)
  BY <1>1, <1>2, PrefixOfMore
<1>6. SubSeq(fs, 1, Len(g)) = fs
  BY <1>3, PrefixAll
<1>7. \A i \in 1 .. Len(fs) : fs[i].seq <= e.seq
  <2>1. /\ Len(fs) = Len(es) + 1 /\ Len(es) \in Nat
        /\ \A i \in 1 .. Len(es) : fs[i] = es[i]
        /\ fs[Len(es) + 1] = e
        /\ \A i \in 1 .. Len(es) + 1 : i \in 1 .. Len(es) \/ i = Len(es) + 1
    BY <1>1, <1>2, MoreIs
  <2>2. e.seq \in Nat /\ \A i \in 1 .. Len(es) : es[i].seq \in Nat /\ es[i].seq < e.seq
    BY <1>2, EntryIs DEF EntryType, es
  <2> QED BY <2>1, <2>2
<1> QED BY <1>1, <1>4, <1>5, <1>6, <1>7 DEF g, es, fs

\* A file that covered covers with one more line.
LEMMA CoversGrown ==
  ASSUME NEW f \in Seq(LineType), Ascending(Entries(f)), NEW e \in EntryType,
         \A i \in 1 .. Len(Entries(f)) : Entries(f)[i].seq < e.seq,
         NEW b \in SaveType, b.seq < e.seq, NEW cs,
         NEW a \in Seq(Asked), NEW o \in Seq(Asked),
         NEW lo \in 0 .. Len(f), Covers(f, lo, b, cs, a, o)
  PROVE  /\ Covers(AppendLine(f, e), lo, b, cs, a, o)
         /\ From(b, Entries(AppendLine(f, e))) = More(From(b, Entries(f)), e)
<1> DEFINE g == AppendLine(f, e)
           es == Entries(f)
           fs == Entries(g)
           len == Len(f)
<1>1. /\ g \in Seq(LineType) /\ Len(g) = len + 1 /\ fs = Append(es, e)
      /\ \A n \in 0 .. len : SubSeq(fs, 1, n) = SubSeq(es, 1, n)
      /\ SubSeq(fs, 1, Len(g)) = fs
  BY GrownIs
<1>2. es \in Seq(EntryType) /\ Len(es) = len /\ Ascending(es) /\ SubSeq(es, 1, len) = es
  BY EntriesAre, PrefixAll
<1>3. b.seq \in Nat /\ e.seq \in Nat /\ len \in Nat
  BY SaveIs DEF EntryType
<1>4. \A n \in lo .. len : Holds(From(b, SubSeq(es, 1, n)), cs, a, o)
  BY DEF Covers
<1> HIDE DEF g, es, fs, len
<1>5. From(b, fs) = More(From(b, es), e)
  BY <1>1, <1>2, <1>3, FromMore
<1>6. Holds(From(b, fs), cs, a, o)
  <2>1. From(b, es) \in SaveType
    BY <1>2, FromType
  <2>2. Holds(From(b, es), cs, a, o)
    <3>1. len \in lo .. len
      BY <1>3 DEF len
    <3> QED BY <3>1, <1>2, <1>4
  <2> QED BY <2>1, <2>2, <1>5, HoldsMore
<1>7. ASSUME NEW n \in lo .. Len(g)
      PROVE  Holds(From(b, SubSeq(fs, 1, n)), cs, a, o)
  <2>1. CASE n <= len
    <3>1. n \in lo .. len /\ n \in 0 .. len
      BY <2>1, <1>1, <1>3 DEF len
    <3> QED BY <3>1, <1>1, <1>4
  <2>2. CASE n > len
    <3>1. n = Len(g)
      BY <2>2, <1>1, <1>3
    <3> QED BY <3>1, <1>1, <1>6
  <2> QED BY <2>1, <2>2, <1>1, <1>3
<1> QED BY <1>5, <1>7 DEF Covers, g, es, fs

\* It covers less that is said, from a later line on.
LEMMA CoversLess ==
  ASSUME NEW f \in Seq(LineType), NEW b, NEW cs, NEW ds, NEW a, NEW o, NEW p, NEW q,
         NEW lo \in Nat, NEW hi \in Nat, lo <= hi, Covers(f, lo, b, cs, a, o), ds \subseteq cs,
         \A facts : Keeps(facts, a) /\ Keeps(facts, o) => Keeps(facts, p) /\ Keeps(facts, q)
  PROVE  Covers(f, hi, b, ds, p, q)
<1>1. \A n \in hi .. Len(f) : n \in lo .. Len(f)
  OBVIOUS
<1>2. \A m : Holds(m, cs, a, o) => Holds(m, ds, p, q)
  BY DEF Holds
<1> QED BY <1>1, <1>2 DEF Covers

\* What the whole file covers.
LEMMA CoversWhole ==
  ASSUME NEW f \in Seq(LineType), NEW b, NEW cs, NEW a, NEW o,
         NEW lo \in 0 .. Len(f)
  PROVE  /\ Covers(f, lo, b, cs, a, o) => Holds(From(b, Entries(f)), cs, a, o)
         /\ Holds(From(b, Entries(f)), cs, a, o) => Covers(f, Len(f), b, cs, a, o)
<1>1. Entries(f) \in Seq(EntryType) /\ Len(Entries(f)) = Len(f) /\ Len(f) \in Nat
  BY EntriesAre
<1>2. SubSeq(Entries(f), 1, Len(f)) = Entries(f)
  BY <1>1, PrefixAll
<1>3. Len(f) \in lo .. Len(f) /\ \A n \in Len(f) .. Len(f) : n = Len(f)
  BY <1>1
<1> QED BY <1>2, <1>3 DEF Covers

\* A snapshot that has every entry covers by itself.
LEMMA CoversAll ==
  ASSUME NEW f \in Seq(LineType), NEW b \in SaveType, NEW lo \in 0 .. Len(f),
         \A i \in 1 .. Len(Entries(f)) : Entries(f)[i].seq <= b.seq,
         NEW cs, NEW a, NEW o, Holds(b, cs, a, o)
  PROVE  Covers(f, lo, b, cs, a, o) /\ From(b, Entries(f)) = b
<1> DEFINE es == Entries(f)
<1>1. es \in Seq(EntryType) /\ Len(es) = Len(f)
  BY EntriesAre
<1>2. From(b, es) = b
  BY <1>1, FromAllBefore
<1>3. ASSUME NEW n \in lo .. Len(f) PROVE From(b, SubSeq(es, 1, n)) = b
  <2>1. n \in 0 .. Len(es) /\ \A i \in 1 .. n : i \in 1 .. Len(es)
    BY <1>1
  <2>2. SubSeq(es, 1, n) \in Seq(EntryType) /\ Len(SubSeq(es, 1, n)) = n
        /\ \A i \in 1 .. n : SubSeq(es, 1, n)[i] = es[i]
    BY <1>1, <2>1, PrefixIs
  <2>3. \A i \in 1 .. Len(SubSeq(es, 1, n)) : SubSeq(es, 1, n)[i].seq <= b.seq
    BY <2>1, <2>2
  <2> HIDE DEF es
  <2> QED BY <2>2, <2>3, FromAllBefore
<1> QED BY <1>2, <1>3 DEF Covers

\* What is left of the entries past a snapshot is what is past the
\* snapshot: all a truncation needs to keep.
LEMMA AfterTwice ==
  ASSUME NEW es \in Seq(EntryType), Ascending(es), NEW b \in SaveType
  PROVE  /\ After(es, b.seq) \in Seq(EntryType) /\ Ascending(After(es, b.seq))
         /\ From(b, After(es, b.seq)) = From(b, es)
<1> DEFINE rest == After(es, b.seq)
<1>0. b.seq \in Nat
  BY SaveIs
<1>1. rest \in Seq(EntryType) /\ Ascending(rest) /\ \A i \in 1 .. Len(rest) : rest[i].seq > b.seq
  BY <1>0, AfterIs
<1> HIDE DEF rest
<1>2. After(rest, b.seq) = rest
  BY <1>0, <1>1, AfterAll
<1> QED BY <1>1, <1>2 DEF From, rest

\* A reader that has read on to the end has been told the facts that
\* were there.
LEMMA KeepsRead ==
  ASSUME NEW a \in Seq(Asked), NEW o \in Seq(Asked), Len(a) < Len(o), NEW facts,
         Keeps(facts, a), Keeps(facts, o)
  PROVE  Keeps(facts, a \o SubSeq(o, Len(a) + 1, Len(o)))
<1> DEFINE n == Len(a)
           m == Len(o)
           t == SubSeq(o, n + 1, m)
           u == a \o t
<1>1. n \in Nat /\ m \in Nat /\ n <= m /\ m <= Len(o)
  OBVIOUS
<1>2. t \in Seq(Asked) /\ Len(t) = m - n /\ \A i \in 1 .. m - n : t[i] = o[n + i]
  BY <1>1, PartIs
<1> HIDE DEF t
<1>3. /\ u \in Seq(Asked) /\ Len(u) = n + (m - n)
      /\ \A i \in 1 .. n + (m - n) : u[i] = IF i <= n THEN a[i] ELSE t[i - n]
  BY <1>2, ConcatProperties
<1>4. /\ \A i \in 1 .. n : a[i] # Step => i \in 1 .. Len(facts) /\ facts[i] = a[i]
      /\ \A i \in 1 .. m : o[i] # Step => i \in 1 .. Len(facts) /\ facts[i] = o[i]
  BY DEF Keeps
<1> HIDE DEF n, m, u
<1>5. ASSUME NEW i \in 1 .. Len(u), u[i] # Step PROVE i \in 1 .. Len(facts) /\ facts[i] = u[i]
  <2>0. i \in 1 .. n + (m - n) /\ i \in 1 .. m
    BY <1>1, <1>3
  <2>1. CASE i <= n
    <3>1. i \in 1 .. n /\ u[i] = a[i]
      BY <2>0, <2>1, <1>1, <1>3
    <3> QED BY <3>1, <1>4, <1>5
  <2>2. CASE ~(i <= n)
    <3>1. i - n \in 1 .. m - n /\ n + (i - n) = i
      BY <2>0, <2>2, <1>1
    <3>2. u[i] = o[i]
      BY <2>0, <2>2, <3>1, <1>2, <1>3
    <3> QED BY <2>0, <3>2, <1>4, <1>5
  <2> QED BY <2>1, <2>2
<1>6. Keeps(facts, u)
  BY <1>5 DEF Keeps
<1> QED BY <1>6 DEF u, t, n, m

\* An engine step's fact is no promise; a market keeps its own facts.
LEMMA KeepsMore ==
  ASSUME NEW o \in Seq(Asked), NEW x \in Asked, NEW facts, Keeps(facts, o)
  PROVE  /\ x = Step => Keeps(facts, Append(o, x))
         /\ Keeps(o, o) /\ Keeps(Append(o, x), Append(o, x))
<1> DEFINE u == Append(o, x)
           n == Len(o)
<1>1. /\ u \in Seq(Asked) /\ Len(u) = n + 1 /\ n \in Nat
      /\ \A i \in 1 .. n : u[i] = o[i]
      /\ u[n + 1] = x
      /\ \A i \in 1 .. n + 1 : i \in 1 .. n \/ i = n + 1
  BY MoreIs
<1>2. \A i \in 1 .. n : o[i] # Step => i \in 1 .. Len(facts) /\ facts[i] = o[i]
  BY DEF Keeps
<1> HIDE DEF u, n
<1>3. x = Step => \A i \in 1 .. n + 1 : u[i] # Step => i \in 1 .. Len(facts) /\ facts[i] = u[i]
  BY <1>1, <1>2
<1>4. x = Step => Keeps(facts, u)
  BY <1>1, <1>3 DEF Keeps
<1>5. Keeps(o, o) /\ Keeps(u, u)
  BY DEF Keeps
<1> QED BY <1>4, <1>5 DEF u

\* A fact added takes no other's number.
LEMMA KeepsGrown ==
  ASSUME NEW facts \in Seq(Asked), NEW x \in Asked, NEW a, Keeps(facts, a)
  PROVE  Keeps(Append(facts, x), a)
<1> DEFINE u == Append(facts, x)
<1>1. \A i \in 1 .. Len(facts) : u[i] = facts[i] /\ i \in 1 .. Len(u)
  OBVIOUS
<1> HIDE DEF u
<1>2. Keeps(u, a)
  BY <1>1 DEF Keeps
<1> QED BY <1>2 DEF u

-----------------------------------------------------------------------------
(* The inductive invariant *)

\* The environments the journal is for, and one writer of snapshots: a
\* snapshot exists from the start, no write is torn, no history has
\* killed processes and lost power both, and main's final save does not
\* overlap the autosave's.
Covered ==
  /\ SavedBefore
  /\ \A v, w \in Writers : v = w
  /\ \A e \in Environments : "torn" \notin e /\ ~({"kill", "power"} \subseteq e)

\* The saves under way.
InFlight == {w \in Writers : writer[w].pc # "idle"}

\* What a later start, or the truncation of a save under way, may start
\* from.
Bases == {snap} \cup {writer[w].save : w \in InFlight}

\* The shortest the file may come out of a failure.
Floor == IF "power" \in faults THEN synced ELSE Len(file)

\* What somebody was told, or may be told next.
Promised == acked \cup replies \cup ToSet(index)

TypeInv ==
  /\ up \in BOOLEAN /\ stopping \in BOOLEAN /\ broken \in BOOLEAN
  /\ Save \in SaveType
  /\ pending \in Seq(EntryType) /\ file \in Seq(LineType) /\ synced \in 0 .. Len(file)
  /\ snap \in SaveType
  /\ writer \in [Writers -> [pc : {"idle", "taken", "written", "renamed"},
                             save : SaveType \cup {None}]]
  /\ \A w \in InFlight : writer[w].save \in SaveType
  /\ acked \subseteq Commands /\ replies \subseteq Commands /\ read \in Seq(Asked)
  /\ faults \in Environments

\* Numbers ascend and none is ahead of the market's.
NumInv ==
  /\ Ascending(Entries(file)) /\ Ascending(pending)
  /\ up => /\ \A b \in Bases : b.seq <= seq
           /\ \A i \in 1 .. Len(Entries(file)) : Entries(file)[i].seq <= seq
           /\ \A i \in 1 .. Len(pending) : pending[i].seq <= seq

\* From the snapshot on disk, from every save under way, with any lines
\* past the flushed ones lost, a start has everything that was promised
\* and every fact that was read; so have the entries a truncation would
\* keep, and memory.
SafeInv ==
  /\ \A b \in Bases : Covers(file, Floor, b, Promised, read, outbox)
  /\ \A w \in InFlight : Holds(From(writer[w].save, pending), Promised, read, outbox)
  /\ up => Holds(Save, Promised, read, outbox)

\* As long as every append succeeded, all of those starts make exactly
\* the market in memory.
SameInv ==
  up /\ ~broken => /\ \A b \in Bases : From(b, Entries(file)) = Save
                   /\ \A w \in InFlight : From(writer[w].save, pending) = Save

\* A save that is written is the temporary file, one that is renamed is
\* the snapshot; what is down has nothing in memory.
WriterInv ==
  /\ \A w \in Writers : /\ writer[w].pc = "written" => tmp = writer[w].save
                        /\ writer[w].pc = "renamed" => snap = writer[w].save
  /\ ~up => /\ ~broken /\ pending = <<>> /\ replies = {} /\ InFlight = {}
            /\ Floor = Len(file)

\* The inductive invariant of the journal.
IInv == TypeInv /\ NumInv /\ SafeInv /\ SameInv /\ WriterInv

\* What the types say of the disk and of memory.
LEMMA Basics ==
  ASSUME TypeInv
  PROVE  /\ Entries(file) \in Seq(EntryType) /\ Len(Entries(file)) = Len(file)
         /\ Len(file) \in Nat /\ synced \in Nat /\ synced <= Len(file)
         /\ Floor \in 0 .. Len(file)
         /\ \A b \in Bases : b \in SaveType /\ b.seq \in Nat
         /\ \A w \in InFlight : writer[w].save \in Bases /\ w \in Writers
         /\ snap \in Bases
         /\ world \in Seq(Asked) /\ seq \in Nat /\ index \in Seq(Commands)
         /\ outbox \in Seq(Asked) /\ Len(index) <= LogCap
         /\ ToSet(index) \subseteq ToSet(world)
         /\ Save.world = world /\ Save.seq = seq /\ Save.index = index /\ Save.outbox = outbox
<1>1. Entries(file) \in Seq(EntryType) /\ Len(Entries(file)) = Len(file)
  BY EntriesAre DEF TypeInv
<1>2. Len(file) \in Nat /\ synced \in 0 .. Len(file)
  BY DEF TypeInv
<1>3. Floor \in 0 .. Len(file)
  BY <1>2 DEF Floor
<1>4. \A b \in Bases : b \in SaveType
  BY DEF Bases, TypeInv
<1>5. \A b \in Bases : b.seq \in Nat
  BY <1>4, SaveIs
<1>6. Save.world = world /\ Save.seq = seq /\ Save.index = index /\ Save.outbox = outbox
  BY DEF Save
<1>7. /\ world \in Seq(Asked) /\ seq \in Nat /\ index \in Seq(Commands)
      /\ outbox \in Seq(Asked) /\ Len(index) <= LogCap
      /\ ToSet(index) \subseteq ToSet(world)
  <2>1. Save \in SaveType
    BY DEF TypeInv
  <2> QED BY <2>1, <1>6, SaveIs
<1> QED BY <1>1, <1>2, <1>3, <1>4, <1>5, <1>6, <1>7 DEF Bases, InFlight

\* Memory after one command is a market of its own.
LEMMA MemoryIs ==
  ASSUME NEW w \in Seq(Asked), NEW n \in Nat, NEW i \in Seq(Commands), NEW o \in Seq(Asked),
         Len(i) <= LogCap, ToSet(i) \subseteq ToSet(w)
  PROVE  [world |-> w, seq |-> n, index |-> i, outbox |-> o] \in SaveType
BY DEF SaveType, SaveRecord

\* The entry of the next command is past all the others.
LEMMA NextEntry ==
  ASSUME TypeInv, NumInv, up, NEW c \in Asked
  PROVE  LET e == Entry(seq + 1, c) IN
         /\ e \in EntryType /\ e.seq = seq + 1 /\ e.cmd = c
         /\ \A i \in 1 .. Len(Entries(file)) : Entries(file)[i].seq < e.seq
         /\ \A i \in 1 .. Len(pending) : pending[i].seq < e.seq
         /\ \A b \in Bases : b.seq < e.seq
<1>1. seq \in Nat /\ \A b \in Bases : b.seq \in Nat
  BY Basics
<1>2. /\ \A i \in 1 .. Len(Entries(file)) : Entries(file)[i].seq \in Nat
      /\ \A i \in 1 .. Len(pending) : pending[i].seq \in Nat
  BY Basics, EntryIs DEF TypeInv
<1>3. Entry(seq + 1, c) \in EntryType /\ Entry(seq + 1, c).seq = seq + 1 /\ Entry(seq + 1, c).cmd = c
  BY <1>1 DEF Entry, EntryType
<1> QED BY <1>1, <1>2, <1>3 DEF NumInv

-----------------------------------------------------------------------------
(* Commands and answers *)

\* A command that is applied, written and flushed before it is answered
\* keeps the invariant: what it promises is covered by the file with its
\* line, and a step, which is not flushed, promises nothing
\* (Market::run_command).
LEMMA RunCommandInv ==
  ASSUME Covered, IInv, NEW c \in Asked, RunCommand(c)
  PROVE  IInv'
<1> USE DEF IInv
<1> DEFINE e == Entry(seq + 1, c)
<1>1. /\ up /\ ~broken
      /\ world' = Append(world, c) /\ seq' = seq + 1
      /\ file' = AppendLine(file, e)
      /\ synced' = IF c = Step THEN synced ELSE Len(file')
      /\ pending' = Append(pending, e)
      /\ outbox' = Append(outbox, c)
      /\ index' = Record(index, c)
      /\ replies' = IF c = Step THEN replies ELSE replies \cup {c}
      /\ up' = up /\ stopping' = stopping /\ broken' = broken /\ writer' = writer /\ tmp' = tmp
      /\ snap' = snap /\ acked' = acked /\ read' = read /\ faults' = faults
  BY DEF RunCommand, MayApply, Apply, CommitFacts
<1>2. /\ Entries(file) \in Seq(EntryType) /\ Len(Entries(file)) = Len(file)
      /\ Len(file) \in Nat /\ synced \in Nat /\ synced <= Len(file)
      /\ Floor \in 0 .. Len(file)
      /\ \A b \in Bases : b \in SaveType /\ b.seq \in Nat
      /\ \A w \in InFlight : writer[w].save \in Bases /\ w \in Writers
      /\ snap \in Bases
      /\ world \in Seq(Asked) /\ seq \in Nat /\ index \in Seq(Commands)
      /\ outbox \in Seq(Asked) /\ Len(index) <= LogCap
      /\ ToSet(index) \subseteq ToSet(world)
      /\ Save.world = world /\ Save.seq = seq /\ Save.index = index /\ Save.outbox = outbox
  BY Basics
<1>3. /\ e \in EntryType /\ e.seq = seq + 1 /\ e.cmd = c
      /\ \A i \in 1 .. Len(Entries(file)) : Entries(file)[i].seq < e.seq
      /\ \A i \in 1 .. Len(pending) : pending[i].seq < e.seq
      /\ \A b \in Bases : b.seq < e.seq
  BY <1>1, NextEntry
<1> HIDE DEF e
<1>4. InFlight' = InFlight /\ Bases' = Bases
  BY <1>1 DEF InFlight, Bases
<1>5. /\ file' \in Seq(LineType) /\ Len(file') = Len(file) + 1
      /\ Entries(file') = Append(Entries(file), e)
      /\ Ascending(Entries(file'))
      /\ \A i \in 1 .. Len(Entries(file')) : Entries(file')[i].seq <= e.seq
      /\ \A n \in 0 .. Len(file) : SubSeq(Entries(file'), 1, n) = SubSeq(Entries(file), 1, n)
      /\ SubSeq(Entries(file'), 1, Len(file')) = Entries(file')
  <2>1. file \in Seq(LineType) /\ Ascending(Entries(file))
    BY DEF TypeInv, NumInv
  <2> QED BY <2>1, <1>1, <1>3, GrownIs
<1>6. Save' = More(Save, e)
  <2>1. Save' = [world |-> world', seq |-> seq', index |-> index', outbox |-> outbox']
    BY DEF Save
  <2> QED BY <2>1, <1>1, <1>2, <1>3 DEF More
<1>7. /\ index' \in Seq(Commands) /\ Len(index') <= LogCap
      /\ ToSet(index') \subseteq ToSet(index) \cup {c}
      /\ c = Step => index' = index
  <2>1. c = Step => Record(index, c) = index
    BY DEF Record
  <2> QED BY <2>1, <1>1, <1>2, RecordIs
<1>8. world' \in Seq(Asked) /\ ToSet(world') = ToSet(world) \cup {c} /\ outbox' \in Seq(Asked)
  BY <1>1, <1>2, MoreSet
<1>9. Promised' \subseteq Promised \cup {c} /\ (c = Step => Promised' = Promised)
  BY <1>1, <1>7 DEF Promised
<1>10. TypeInv'
  <2>1. Save' \in SaveType
    <3>1. [world |-> world', seq |-> seq', index |-> index', outbox |-> outbox'] \in SaveType
      <4>1. seq' \in Nat /\ ToSet(index') \subseteq ToSet(world')
        BY <1>1, <1>2, <1>7, <1>8
      <4> QED BY <4>1, <1>7, <1>8, MemoryIs
    <3> QED BY <3>1 DEF Save
  <2>2. pending' \in Seq(EntryType)
    BY <1>1, <1>3 DEF TypeInv
  <2>3. synced' \in 0 .. Len(file')
    BY <1>1, <1>2, <1>5
  <2>4. replies' \subseteq Commands
    BY <1>1 DEF TypeInv, Asked
  <2> QED BY <2>1, <2>2, <2>3, <2>4, <1>1, <1>4, <1>5 DEF TypeInv
<1>11. NumInv'
  <2>1. Ascending(pending') /\ pending' \in Seq(EntryType)
    BY <1>1, <1>3, MoreAscending DEF NumInv, TypeInv
  <2>2. \A b \in Bases' : b.seq <= seq'
    BY <1>1, <1>2, <1>3, <1>4
  <2>3. \A i \in 1 .. Len(pending') : pending'[i].seq <= seq'
    <3>1. /\ Len(pending') = Len(pending) + 1 /\ Len(pending) \in Nat
          /\ \A i \in 1 .. Len(pending) : pending'[i] = pending[i] /\ pending[i].seq \in Nat
          /\ pending'[Len(pending) + 1] = e
          /\ \A i \in 1 .. Len(pending) + 1 : i \in 1 .. Len(pending) \/ i = Len(pending) + 1
      BY <1>1, <1>3, MoreIs, EntryIs DEF TypeInv
    <3> QED BY <3>1, <1>1, <1>2, <1>3
  <2>4. \A i \in 1 .. Len(Entries(file')) : Entries(file')[i].seq <= seq'
    BY <1>1, <1>3, <1>5
  <2> QED BY <2>1, <2>2, <2>3, <2>4, <1>5 DEF NumInv
<1>12. Holds(Save', Promised', read', outbox')
  <2>1. Holds(Save, Promised, read, outbox)
    BY <1>1 DEF SafeInv
  <2>2. Save'.world = world' /\ Save'.outbox = outbox'
    BY DEF Save
  <2>3. Promised' \subseteq ToSet(world')
    BY <2>1, <1>2, <1>8, <1>9 DEF Holds
  <2>4. Keeps(outbox', read')
    BY <2>1, <1>1, <1>2, KeepsGrown DEF Holds
  <2>5. Keeps(outbox', outbox')
    BY DEF Keeps
  <2> QED BY <2>2, <2>3, <2>4, <2>5 DEF Holds
<1>13. ASSUME NEW b \in Bases
       PROVE  From(b, Entries(file')) = Save'
  <2>1. From(b, Entries(file)) = Save
    BY <1>1, <1>13 DEF SameInv
  <2>2. From(b, Append(Entries(file), e)) = More(From(b, Entries(file)), e)
    <3>1. Ascending(Entries(file)) /\ e.seq > b.seq /\ b \in SaveType
      BY <1>2, <1>3 DEF NumInv
    <3> QED BY <3>1, <1>2, <1>3, FromMore
  <2> QED BY <2>1, <2>2, <1>5, <1>6
<1>14. ASSUME NEW w \in InFlight
       PROVE  From(writer[w].save, pending') = Save'
  <2>1. From(writer[w].save, pending) = Save
    BY <1>1, <1>14 DEF SameInv
  <2>2. From(writer[w].save, Append(pending, e)) = More(From(writer[w].save, pending), e)
    <3>1. writer[w].save \in SaveType /\ e.seq > writer[w].save.seq
      BY <1>2, <1>3
    <3>2. pending \in Seq(EntryType) /\ Ascending(pending)
      BY DEF TypeInv, NumInv
    <3> HIDE DEF IInv
    <3> QED BY <3>1, <3>2, <1>3, FromMore
  <2> QED BY <2>1, <2>2, <1>1, <1>6
<1>15. ASSUME NEW b \in Bases
       PROVE  Covers(file', Floor', b, Promised', read', outbox')
  <2>1. Holds(From(b, Entries(file')), Promised', read', outbox')
    BY <1>12, <1>13
  <2>2. CASE Floor' = Len(file')
    <3>1. Covers(file', Len(file'), b, Promised', read', outbox')
      <4>1. Len(file') \in 0 .. Len(file')
        BY <1>2, <1>5
      <4> QED BY <4>1, <2>1, <1>5, CoversWhole
    <3> QED BY <2>2, <3>1
  <2>3. CASE Floor' # Len(file')
    <3>1. c = Step /\ Floor' = Floor
      BY <2>3, <1>1 DEF Floor
    <3>2. Covers(file, Floor, b, Promised, read, outbox)
      BY <1>15 DEF SafeInv
    <3>3. Covers(file', Floor, b, Promised, read, outbox)
      <4>1. /\ b \in SaveType /\ b.seq < e.seq
            /\ file \in Seq(LineType) /\ Ascending(Entries(file)) /\ read \in Seq(Asked)
        BY <1>2, <1>3 DEF TypeInv, NumInv
      <4> HIDE DEF IInv
      <4>2. Covers(AppendLine(file, e), Floor, b, Promised, read, outbox)
        BY <4>1, <3>2, <1>2, <1>3, CoversGrown
      <4> QED BY <4>2, <1>1
    <3>4. \A facts : Keeps(facts, read) /\ Keeps(facts, outbox)
                       => Keeps(facts, read) /\ Keeps(facts, outbox')
      BY <3>1, <1>1, <1>2, KeepsMore
    <3>5. Floor \in Nat /\ Floor <= Floor /\ Promised \subseteq Promised
      BY <1>2
    <3>6. Covers(file', Floor, b, Promised, read, outbox')
      BY <3>3, <3>4, <3>5, <1>5, CoversLess
    <3> QED BY <3>1, <3>6, <1>1, <1>9
  <2> QED BY <2>2, <2>3
<1>16. SafeInv' /\ SameInv'
  <2>1. \A w \in InFlight' : From(writer'[w].save, pending') = Save'
    BY <1>1, <1>4, <1>14
  <2>2. \A b \in Bases' : Covers(file', Floor', b, Promised', read', outbox') /\ From(b, Entries(file')) = Save'
    BY <1>4, <1>13, <1>15
  <2> QED BY <2>1, <2>2, <1>12 DEF SafeInv, SameInv
<1>17. WriterInv'
  BY <1>1 DEF WriterInv
<1> QED BY <1>10, <1>11, <1>16, <1>17

\* An append that is refused promises nothing either, with its line in
\* the file or not.
LEMMA RunCommandFailsInv ==
  ASSUME Covered, IInv, NEW c \in Asked, RunCommandFails(c)
  PROVE  IInv'
<1> USE DEF IInv
<1> DEFINE e == Entry(seq + 1, c)
<1>0. "torn" \notin faults
  BY DEF Covered, TypeInv
<1>1. /\ up /\ ~broken
      /\ world' = Append(world, c) /\ seq' = seq + 1
      /\ file' = file \/ file' = AppendLine(file, e)
      /\ broken' = TRUE
      /\ synced' = synced /\ pending' = pending /\ outbox' = outbox /\ index' = index
      /\ replies' = replies
      /\ up' = up /\ stopping' = stopping /\ writer' = writer /\ tmp' = tmp
      /\ snap' = snap /\ acked' = acked /\ read' = read /\ faults' = faults
  BY <1>0 DEF RunCommandFails, MayApply, Apply, PartialAppend
<1>2. /\ Entries(file) \in Seq(EntryType) /\ Len(Entries(file)) = Len(file)
      /\ Len(file) \in Nat /\ synced \in Nat /\ synced <= Len(file)
      /\ Floor \in 0 .. Len(file)
      /\ \A b \in Bases : b \in SaveType /\ b.seq \in Nat
      /\ world \in Seq(Asked) /\ seq \in Nat /\ index \in Seq(Commands)
      /\ outbox \in Seq(Asked) /\ Len(index) <= LogCap
      /\ ToSet(index) \subseteq ToSet(world)
      /\ Save.world = world /\ Save.seq = seq /\ Save.index = index /\ Save.outbox = outbox
  BY Basics
<1>3. /\ e \in EntryType /\ e.seq = seq + 1 /\ e.cmd = c
      /\ \A i \in 1 .. Len(Entries(file)) : Entries(file)[i].seq < e.seq
      /\ \A i \in 1 .. Len(pending) : pending[i].seq < e.seq
      /\ \A b \in Bases : b.seq < e.seq
  BY <1>1, NextEntry
<1>3a. /\ \A i \in 1 .. Len(Entries(file)) : Entries(file)[i].seq \in Nat
       /\ \A i \in 1 .. Len(pending) : pending[i].seq \in Nat
  BY <1>2, EntryIs DEF TypeInv
<1> HIDE DEF e
<1>4. InFlight' = InFlight /\ Bases' = Bases /\ Promised' = Promised
  BY <1>1 DEF InFlight, Bases, Promised
<1>5. /\ AppendLine(file, e) \in Seq(LineType) /\ Len(AppendLine(file, e)) = Len(file) + 1
      /\ Ascending(Entries(AppendLine(file, e)))
      /\ \A i \in 1 .. Len(Entries(AppendLine(file, e))) : Entries(AppendLine(file, e))[i].seq <= e.seq
  <2>1. file \in Seq(LineType) /\ Ascending(Entries(file))
    BY DEF TypeInv, NumInv
  <2> QED BY <2>1, <1>3, GrownIs
<1>6. /\ file' \in Seq(LineType) /\ Len(file') \in Nat /\ Len(file) <= Len(file')
      /\ Ascending(Entries(file'))
      /\ \A i \in 1 .. Len(Entries(file')) : Entries(file')[i].seq <= seq + 1
  <2>1. CASE file' = file
    <3>1. file \in Seq(LineType) /\ Ascending(Entries(file))
      BY DEF TypeInv, NumInv
    <3>2. \A i \in 1 .. Len(Entries(file)) : Entries(file)[i].seq <= seq + 1
      <4> SUFFICES ASSUME NEW i \in 1 .. Len(Entries(file))
                   PROVE  Entries(file)[i].seq <= seq + 1
        OBVIOUS
      <4>1. Entries(file)[i].seq \in Nat /\ Entries(file)[i].seq < e.seq /\ e.seq = seq + 1 /\ seq \in Nat
        BY <1>2, <1>3, <1>3a
      <4> QED BY <4>1
    <3>3. Len(file) <= Len(file) /\ Len(file) \in Nat
      BY <1>2
    <3> QED BY <2>1, <3>1, <3>2, <3>3
  <2>2. CASE file' = AppendLine(file, e)
    <3> DEFINE g == AppendLine(file, e)
    <3> HIDE DEF g
    <3>1. g \in Seq(LineType) /\ Len(g) = Len(file) + 1 /\ Ascending(Entries(g))
      BY <1>5 DEF g
    <3>2. \A i \in 1 .. Len(Entries(g)) : Entries(g)[i].seq <= seq + 1
      BY <1>3, <1>5 DEF g
    <3>3. Len(g) \in Nat /\ Len(file) <= Len(g)
      BY <3>1, <1>2
    <3>4. file' = g
      BY <2>2 DEF g
    <3> QED BY <3>1, <3>2, <3>3, <3>4
  <2> QED BY <2>1, <2>2, <1>1
<1>7. world' \in Seq(Asked) /\ ToSet(world') = ToSet(world) \cup {c}
  BY <1>1, <1>2, MoreSet
<1>8. TypeInv'
  <2>1. Save' \in SaveType
    <3>1. [world |-> world', seq |-> seq', index |-> index', outbox |-> outbox'] \in SaveType
      <4>1. seq' \in Nat /\ ToSet(index') \subseteq ToSet(world')
        BY <1>1, <1>2, <1>7
      <4> QED BY <4>1, <1>1, <1>2, <1>7, MemoryIs
    <3> QED BY <3>1 DEF Save
  <2>2. synced' \in 0 .. Len(file')
    BY <1>1, <1>2, <1>6
  <2> QED BY <2>1, <2>2, <1>1, <1>4, <1>6 DEF TypeInv
<1>9. NumInv'
  <2>1. \A b \in Bases' : b.seq <= seq'
    BY <1>1, <1>2, <1>3, <1>4
  <2>2. \A i \in 1 .. Len(pending') : pending'[i].seq <= seq'
    BY <1>1, <1>2, <1>3, <1>3a
  <2> QED BY <2>1, <2>2, <1>1, <1>6 DEF NumInv
<1>10. ASSUME NEW b \in Bases
       PROVE  Covers(file', Floor', b, Promised', read', outbox')
  <2>1. Covers(file, Floor, b, Promised, read, outbox)
    BY <1>10 DEF SafeInv
  <2>2. Covers(file', Floor, b, Promised, read, outbox)
    <3>1. CASE file' = file
      BY <2>1, <3>1
    <3>2. CASE file' = AppendLine(file, e)
      <4>1. /\ b \in SaveType /\ b.seq < e.seq
            /\ file \in Seq(LineType) /\ Ascending(Entries(file)) /\ read \in Seq(Asked)
        BY <1>2, <1>3, <1>10 DEF TypeInv, NumInv
      <4> HIDE DEF IInv
      <4>2. Covers(AppendLine(file, e), Floor, b, Promised, read, outbox)
        BY <2>1, <4>1, <1>2, <1>3, CoversGrown
      <4> QED BY <4>2, <3>2
    <3> QED BY <3>1, <3>2, <1>1
  <2>3. Floor \in Nat /\ Floor' \in Nat /\ Floor <= Floor'
    BY <1>1, <1>2, <1>6 DEF Floor
  <2>4. Covers(file', Floor', b, Promised, read, outbox)
    <3>1. Promised \subseteq Promised
      OBVIOUS
    <3> QED BY <2>2, <2>3, <3>1, <1>6, CoversLess
  <2> QED BY <2>4, <1>1, <1>4
<1>11. Holds(Save', Promised', read', outbox')
  <2>1. Holds(Save, Promised, read, outbox)
    BY <1>1 DEF SafeInv
  <2>2. Save'.world = world' /\ Save'.outbox = outbox'
    BY DEF Save
  <2> QED BY <2>1, <2>2, <1>1, <1>2, <1>4, <1>7 DEF Holds
<1>12. \A w \in InFlight' : Holds(From(writer'[w].save, pending'), Promised', read', outbox')
  BY <1>1, <1>4 DEF SafeInv
<1>13. SafeInv' /\ SameInv'
  BY <1>1, <1>4, <1>10, <1>11, <1>12 DEF SafeInv, SameInv
<1>14. WriterInv'
  BY <1>1 DEF WriterInv
<1> QED BY <1>8, <1>9, <1>13, <1>14

\* A step that leaves memory, the disk and the writers alone, but for
\* what was told to whom.
LEMMA ToldInv ==
  ASSUME IInv,
         UNCHANGED <<up, broken, world, seq, index, outbox, pending, writer, file, synced, tmp,
                     snap, faults>>,
         stopping' \in BOOLEAN, acked' \subseteq Commands, replies' \subseteq Commands,
         ~up => replies' = {}, read' \in Seq(Asked), Promised' \subseteq Promised,
         \A facts : Keeps(facts, read) /\ Keeps(facts, outbox) => Keeps(facts, read')
  PROVE  IInv'
<1> USE DEF IInv
<1>1. /\ InFlight' = InFlight /\ Bases' = Bases /\ Floor' = Floor /\ Save' = Save
      /\ outbox' = outbox /\ file' = file /\ pending' = pending /\ writer' = writer /\ up' = up
      /\ broken' = broken /\ snap' = snap /\ tmp' = tmp /\ seq' = seq
  BY DEF InFlight, Bases, Floor, Save
<1>2. \A m : Holds(m, Promised, read, outbox) => Holds(m, Promised', read', outbox')
  BY <1>1 DEF Holds
<1>3. TypeInv'
  BY <1>1 DEF TypeInv
<1>4. NumInv'
  BY <1>1 DEF NumInv
<1>5. SafeInv'
  BY <1>1, <1>2 DEF SafeInv, Covers
<1>6. SameInv'
  BY <1>1 DEF SameInv
<1>7. WriterInv'
  BY <1>1 DEF WriterInv
<1> QED BY <1>3, <1>4, <1>5, <1>6, <1>7

\* A recorded answer promises what the index has.
LEMMA ReplayAnswerInv ==
  ASSUME IInv, NEW c \in Commands, ReplayAnswer(c)
  PROVE  IInv'
<1>1. /\ UNCHANGED <<up, broken, world, seq, index, outbox, pending, writer, file, synced, tmp,
                     snap, faults>>
      /\ stopping' = stopping /\ acked' = acked /\ replies' = replies \cup {c} /\ read' = read
      /\ up /\ c \in ToSet(index)
  BY DEF ReplayAnswer, Recorded, disk
<1>2. Promised' \subseteq Promised
  BY <1>1 DEF Promised
<1>3. /\ stopping' \in BOOLEAN /\ acked' \subseteq Commands /\ replies' \subseteq Commands
      /\ read' \in Seq(Asked)
  BY <1>1 DEF IInv, TypeInv
<1> QED BY <1>1, <1>2, <1>3, ToldInv

\* A response tells what was promised already.
LEMMA AnswerInv ==
  ASSUME IInv, NEW c \in Commands, Answer(c)
  PROVE  IInv'
<1>1. /\ UNCHANGED <<up, broken, world, seq, index, outbox, pending, writer, file, synced, tmp,
                     snap, faults>>
      /\ stopping' = stopping /\ acked' = acked \cup {c} /\ replies' = replies \ {c} /\ read' = read
      /\ up /\ c \in replies
  BY DEF Answer, disk
<1>2. Promised' \subseteq Promised
  BY <1>1 DEF Promised
<1>3. /\ stopping' \in BOOLEAN /\ acked' \subseteq Commands /\ replies' \subseteq Commands
      /\ read' \in Seq(Asked)
  BY <1>1 DEF IInv, TypeInv
<1> QED BY <1>1, <1>2, <1>3, ToldInv

\* What a consumer reads is what the market's memory keeps.
LEMMA ReadOutboxInv ==
  ASSUME IInv, ReadOutbox
  PROVE  IInv'
<1> DEFINE rest == SubSeq(outbox, Len(read) + 1, Len(outbox))
<1>1. /\ UNCHANGED <<up, broken, world, seq, index, outbox, pending, writer, file, synced, tmp,
                     snap, faults>>
      /\ stopping' = stopping /\ acked' = acked /\ replies' = replies /\ up
      /\ read' = read \o rest /\ Len(read) < Len(outbox)
  BY DEF ReadOutbox, memory, disk
<1>2. read \in Seq(Asked) /\ outbox \in Seq(Asked)
  BY Basics DEF IInv, TypeInv
<1>3. rest \in Seq(Asked)
  <2>1. Len(read) \in Nat /\ Len(outbox) \in Nat /\ Len(read) <= Len(outbox)
    BY <1>1, <1>2
  <2> QED BY <2>1, <1>2, PartIs
<1>4. read' \in Seq(Asked)
  <2> HIDE DEF rest
  <2> QED BY <1>1, <1>2, <1>3, ConcatProperties
<1>5. \A facts : Keeps(facts, read) /\ Keeps(facts, outbox) => Keeps(facts, read')
  BY <1>1, <1>2, KeepsRead
<1>6. Promised' \subseteq Promised
  BY <1>1 DEF Promised
<1>7. stopping' \in BOOLEAN /\ acked' \subseteq Commands /\ replies' \subseteq Commands
  BY <1>1 DEF IInv, TypeInv
<1> HIDE DEF rest
<1> QED BY <1>1, <1>4, <1>5, <1>6, <1>7, ToldInv

\* Stopping to accept requests changes neither memory nor disk.
LEMMA ShutdownInv ==
  ASSUME IInv, Shutdown
  PROVE  IInv'
<1>1. /\ UNCHANGED <<up, broken, world, seq, index, outbox, pending, writer, file, synced, tmp,
                     snap, faults>>
      /\ stopping' = TRUE /\ acked' = acked /\ replies' = replies /\ read' = read /\ up
  BY DEF Shutdown, disk
<1>2. Promised' \subseteq Promised
  BY <1>1 DEF Promised
<1>3. /\ stopping' \in BOOLEAN /\ acked' \subseteq Commands /\ replies' \subseteq Commands
      /\ read' \in Seq(Asked)
  BY <1>1 DEF IInv, TypeInv
<1> QED BY <1>1, <1>2, <1>3, ToldInv

-----------------------------------------------------------------------------
(* Snapshots and truncations *)

\* A step of a snapshot writer that leaves memory and the journal alone
\* starts from what was there already, or from memory.
LEMMA SavingInv ==
  ASSUME IInv,
         UNCHANGED <<up, stopping, world, seq, index, outbox, broken, pending, replies, file,
                     synced, acked, read, faults>>,
         writer' \in [Writers -> [pc : {"idle", "taken", "written", "renamed"},
                                  save : SaveType \cup {None}]],
         snap' \in Bases,
         \A w \in InFlight' : \/ w \in InFlight /\ writer'[w].save = writer[w].save
                              \/ up /\ writer'[w].save = Save
  PROVE  TypeInv' /\ NumInv' /\ SafeInv' /\ SameInv'
<1> USE DEF IInv
<1>1. /\ Entries(file) \in Seq(EntryType) /\ Len(Entries(file)) = Len(file)
      /\ Floor \in 0 .. Len(file)
      /\ \A b \in Bases : b \in SaveType /\ b.seq \in Nat
      /\ \A w \in InFlight : writer[w].save \in Bases /\ w \in Writers
      /\ seq \in Nat /\ Save.seq = seq /\ Save \in SaveType
      /\ file \in Seq(LineType) /\ pending \in Seq(EntryType)
  BY Basics DEF TypeInv
<1>2. Floor' = Floor /\ Save' = Save /\ Promised' = Promised
  BY DEF Floor, Save, Promised
<1>3. \A b \in Bases' : b \in Bases \/ (up /\ b = Save)
  <2> SUFFICES ASSUME NEW b \in Bases' PROVE b \in Bases \/ (up /\ b = Save)
    OBVIOUS
  <2>1. CASE b = snap'
    BY <2>1
  <2>2. CASE \E w \in InFlight' : b = writer'[w].save
    BY <2>2, <1>1
  <2> QED BY <2>1, <2>2 DEF Bases
<1>4. TypeInv'
  <2>1. \A w \in InFlight' : writer'[w].save \in SaveType
    BY <1>1
  <2>2. snap' \in SaveType
    BY <1>1
  <2> QED BY <2>1, <2>2, <1>2 DEF TypeInv
<1>5. NumInv'
  <2>1. up => \A b \in Bases' : b.seq <= seq
    BY <1>1, <1>3 DEF NumInv
  <2> QED BY <2>1 DEF NumInv
<1>6. ASSUME up
      PROVE  /\ Covers(file, Floor, Save, Promised, read, outbox) /\ From(Save, Entries(file)) = Save
             /\ Holds(From(Save, pending), Promised, read, outbox) /\ From(Save, pending) = Save
  <2>1. Holds(Save, Promised, read, outbox)
    BY <1>6 DEF SafeInv
  <2>2. /\ \A i \in 1 .. Len(Entries(file)) : Entries(file)[i].seq <= Save.seq
        /\ \A i \in 1 .. Len(pending) : pending[i].seq <= Save.seq
    BY <1>1, <1>6 DEF NumInv
  <2>3. Covers(file, Floor, Save, Promised, read, outbox) /\ From(Save, Entries(file)) = Save
    BY <2>1, <2>2, <1>1, CoversAll
  <2>4. From(Save, pending) = Save
    BY <2>2, <1>1, FromAllBefore
  <2> QED BY <2>1, <2>3, <2>4
<1>7. SafeInv'
  <2>1. \A b \in Bases' : Covers(file, Floor, b, Promised, read, outbox)
    BY <1>3, <1>6 DEF SafeInv
  <2>2. \A w \in InFlight' : Holds(From(writer'[w].save, pending), Promised, read, outbox)
    BY <1>6 DEF SafeInv
  <2>3. up => Holds(Save, Promised, read, outbox)
    BY DEF SafeInv
  <2> QED BY <2>1, <2>2, <2>3, <1>2 DEF SafeInv
<1>8. SameInv'
  <2> SUFFICES ASSUME up, ~broken
               PROVE  /\ \A b \in Bases' : From(b, Entries(file)) = Save
                      /\ \A w \in InFlight' : From(writer'[w].save, pending) = Save
    BY <1>2 DEF SameInv
  <2>1. /\ \A b \in Bases : From(b, Entries(file)) = Save
        /\ \A w \in InFlight : From(writer[w].save, pending) = Save
    BY DEF SameInv
  <2> QED BY <2>1, <1>3, <1>6
<1> QED BY <1>4, <1>5, <1>7, <1>8

\* A captured snapshot is the market as it is, and what is pending is
\* past it.
LEMMA TakeSaveInv ==
  ASSUME Covered, IInv, NEW w \in Writers, TakeSave(w)
  PROVE  IInv'
<1>1. /\ UNCHANGED <<up, stopping, world, seq, index, outbox, broken, pending, replies, file,
                     synced, acked, read, faults>>
      /\ tmp' = tmp /\ snap' = snap /\ up
      /\ writer' = [writer EXCEPT ![w] = [pc |-> "taken", save |-> Save]]
  BY DEF TakeSave, disk
<1>2. /\ writer \in [Writers -> [pc : {"idle", "taken", "written", "renamed"},
                                 save : SaveType \cup {None}]]
      /\ Save \in SaveType
  BY DEF IInv, TypeInv
<1>3. /\ writer'[w] = [pc |-> "taken", save |-> Save]
      /\ \A v \in Writers : v = w
  BY <1>1, <1>2 DEF Covered
<1>4. writer' \in [Writers -> [pc : {"idle", "taken", "written", "renamed"},
                               save : SaveType \cup {None}]]
  BY <1>1, <1>2
<1>5. \A v \in InFlight' : writer'[v].save = Save
  BY <1>3 DEF InFlight
<1>6. TypeInv' /\ NumInv' /\ SafeInv' /\ SameInv'
  <2>1. snap' \in Bases
    BY <1>1 DEF Bases
  <2> QED BY <2>1, <1>1, <1>4, <1>5, SavingInv
<1>7. WriterInv'
  BY <1>1, <1>3 DEF WriterInv
<1> QED BY <1>6, <1>7 DEF IInv

\* Writing the temporary file leaves what a start reads.
LEMMA WriteTmpInv ==
  ASSUME Covered, IInv, NEW w \in Writers, WriteTmp(w)
  PROVE  IInv'
<1>1. /\ UNCHANGED <<up, stopping, world, seq, index, outbox, broken, pending, replies, file,
                     synced, acked, read, faults>>
      /\ tmp' = writer[w].save /\ snap' = snap /\ writer[w].pc = "taken"
      /\ writer' = [writer EXCEPT ![w].pc = "written"]
  BY DEF WriteTmp
<1>2. writer \in [Writers -> [pc : {"idle", "taken", "written", "renamed"},
                              save : SaveType \cup {None}]]
  BY DEF IInv, TypeInv
<1>3. /\ writer'[w].pc = "written" /\ writer'[w].save = writer[w].save
      /\ \A v \in Writers : v = w
      /\ w \in InFlight
  BY <1>1, <1>2 DEF Covered, InFlight
<1>4. writer' \in [Writers -> [pc : {"idle", "taken", "written", "renamed"},
                               save : SaveType \cup {None}]]
  BY <1>1, <1>2
<1>5. \A v \in InFlight' : v \in InFlight /\ writer'[v].save = writer[v].save
  BY <1>3 DEF InFlight
<1>6. TypeInv' /\ NumInv' /\ SafeInv' /\ SameInv'
  <2>1. snap' \in Bases
    BY <1>1 DEF Bases
  <2> QED BY <2>1, <1>1, <1>4, <1>5, SavingInv
<1>7. up
  BY <1>3 DEF IInv, WriterInv
<1>8. WriterInv'
  BY <1>1, <1>3, <1>7 DEF WriterInv
<1> QED BY <1>6, <1>8 DEF IInv

\* The rename replaces one base by another: before it and after it, the
\* file covers.
LEMMA RenameTmpInv ==
  ASSUME Covered, IInv, NEW w \in Writers, RenameTmp(w)
  PROVE  IInv'
<1>2. writer \in [Writers -> [pc : {"idle", "taken", "written", "renamed"},
                              save : SaveType \cup {None}]]
  BY DEF IInv, TypeInv
<1>0. writer[w].pc = "written" /\ w \in InFlight /\ tmp = writer[w].save /\ tmp \in SaveType /\ tmp # None
  <2>1. writer[w].pc = "written" /\ w \in InFlight
    BY DEF RenameTmp, InFlight
  <2>2. tmp = writer[w].save /\ writer[w].save \in SaveType
    BY <2>1 DEF IInv, WriterInv, TypeInv
  <2> QED BY <2>1, <2>2, SaveIs
<1>1. /\ UNCHANGED <<up, stopping, world, seq, index, outbox, broken, pending, replies, file,
                     synced, acked, read, faults>>
      /\ snap' = tmp /\ tmp' = None
      /\ writer' = [writer EXCEPT ![w].pc = "renamed"]
  BY <1>0 DEF RenameTmp
<1>3. /\ writer'[w].pc = "renamed" /\ writer'[w].save = writer[w].save
      /\ \A v \in Writers : v = w
  BY <1>1, <1>2 DEF Covered
<1>4. writer' \in [Writers -> [pc : {"idle", "taken", "written", "renamed"},
                               save : SaveType \cup {None}]]
  BY <1>1, <1>2
<1>5. \A v \in InFlight' : v \in InFlight /\ writer'[v].save = writer[v].save
  BY <1>0, <1>3 DEF InFlight
<1>6. TypeInv' /\ NumInv' /\ SafeInv' /\ SameInv'
  <2>1. snap' \in Bases
    BY <1>0, <1>1 DEF Bases
  <2> QED BY <2>1, <1>1, <1>4, <1>5, SavingInv
<1>7. up
  BY <1>0 DEF IInv, WriterInv
<1>8. WriterInv'
  BY <1>0, <1>1, <1>3, <1>7 DEF WriterInv
<1> QED BY <1>6, <1>8 DEF IInv

\* The truncation: what is pending past the snapshot is all the file
\* needs, and a truncation that is refused leaves a file that covers
\* too.
LEMMA TruncateJournalInv ==
  ASSUME Covered, IInv, NEW w \in Writers, TruncateJournal(w)
  PROVE  IInv'
<1> DEFINE b == writer[w].save
           rest == After(pending, b.seq)
<1>0. /\ up /\ writer[w].pc = "renamed" /\ w \in InFlight /\ snap = b
      /\ pending' = rest
      /\ \/ file' = Rewritten(rest) /\ synced' = Len(file')
         \/ UNCHANGED <<file, synced>>
      /\ writer' = [writer EXCEPT ![w] = Idle]
      /\ UNCHANGED <<up, stopping, world, seq, index, outbox, broken, replies, tmp, snap, acked,
                     read, faults>>
  BY DEF TruncateJournal, InFlight, IInv, WriterInv, Rewritten
<1>1. /\ Entries(file) \in Seq(EntryType) /\ Len(Entries(file)) = Len(file)
      /\ Len(file) \in Nat /\ Floor \in 0 .. Len(file)
      /\ \A c \in Bases : c \in SaveType /\ c.seq \in Nat
      /\ b \in Bases /\ b \in SaveType /\ b.seq \in Nat
      /\ seq \in Nat
  BY <1>0, Basics DEF IInv
<1>2. pending \in Seq(EntryType) /\ Ascending(pending)
  BY DEF IInv, TypeInv, NumInv
<1>3. /\ rest \in Seq(EntryType) /\ Ascending(rest)
      /\ From(b, rest) = From(b, pending)
      /\ \A i \in 1 .. Len(rest) : \E j \in 1 .. Len(pending) : rest[i] = pending[j]
  <2>1. \A i \in 1 .. Len(rest) : \E j \in 1 .. Len(pending) : rest[i] = pending[j]
    BY <1>1, <1>2, AfterIs
  <2> QED BY <2>1, <1>1, <1>2, AfterTwice
<1>4. /\ Holds(From(b, pending), Promised, read, outbox)
      /\ ~broken => From(b, pending) = Save
      /\ Covers(file, Floor, b, Promised, read, outbox)
      /\ ~broken => From(b, Entries(file)) = Save
      /\ \A i \in 1 .. Len(Entries(file)) : Entries(file)[i].seq <= seq
      /\ \A i \in 1 .. Len(pending) : pending[i].seq <= seq
      /\ b.seq <= seq
  BY <1>0, <1>1 DEF IInv, SafeInv, SameInv, NumInv
<1>5. /\ Rewritten(rest) \in Seq(LineType) /\ Len(Rewritten(rest)) = Len(rest)
      /\ Entries(Rewritten(rest)) = rest
  BY <1>3, RewrittenIs
<1>6. \A i \in 1 .. Len(rest) : rest[i].seq <= seq
  BY <1>3, <1>4
<1> HIDE DEF rest, b
<1>7. /\ writer \in [Writers -> [pc : {"idle", "taken", "written", "renamed"},
                                 save : SaveType \cup {None}]]
      /\ \A v \in Writers : v = w
  BY DEF IInv, TypeInv, Covered
<1>8. /\ writer' \in [Writers -> [pc : {"idle", "taken", "written", "renamed"},
                                  save : SaveType \cup {None}]]
      /\ writer'[w] = Idle /\ writer'[w].pc = "idle"
  BY <1>0, <1>7 DEF Idle
<1>9. InFlight' = {} /\ Bases' = {b}
  <2>1. InFlight' = {}
    BY <1>7, <1>8 DEF InFlight
  <2> QED BY <2>1, <1>0 DEF Bases
<1>10. Save' = Save /\ Promised' = Promised
  BY <1>0 DEF Save, Promised
<1>11. /\ file' \in Seq(LineType) /\ synced' \in 0 .. Len(file') /\ Ascending(Entries(file'))
       /\ \A i \in 1 .. Len(Entries(file')) : Entries(file')[i].seq <= seq
       /\ Covers(file', Floor', b, Promised, read, outbox)
       /\ ~broken => From(b, Entries(file')) = Save
  <2>1. CASE file' = Rewritten(rest) /\ synced' = Len(file')
    <3>1. /\ file' \in Seq(LineType) /\ Entries(file') = rest /\ Len(file') = Len(rest)
      BY <2>1, <1>5
    <3>2. Len(file') \in Nat /\ synced' \in 0 .. Len(file')
      BY <2>1, <3>1, <1>3
    <3>3. Floor' = Len(file')
      BY <2>1 DEF Floor
    <3>4. Holds(From(b, Entries(file')), Promised, read, outbox)
      BY <3>1, <1>3, <1>4
    <3>5. Covers(file', Len(file'), b, Promised, read, outbox)
      <4>1. Len(file') \in 0 .. Len(file')
        BY <3>2
      <4> QED BY <4>1, <3>1, <3>4, CoversWhole
    <3> QED BY <3>1, <3>2, <3>3, <3>5, <1>3, <1>4, <1>6
  <2>2. CASE UNCHANGED <<file, synced>>
    <3>1. Floor' = Floor
      BY <2>2, <1>0 DEF Floor
    <3>2. file \in Seq(LineType) /\ synced \in 0 .. Len(file) /\ Ascending(Entries(file))
      BY DEF IInv, TypeInv, NumInv
    <3> QED BY <2>2, <3>1, <3>2, <1>4
  <2> QED BY <2>1, <2>2, <1>0
<1>12. TypeInv'
  <2>1. /\ Save \in SaveType /\ snap \in SaveType
        /\ up \in BOOLEAN /\ stopping \in BOOLEAN /\ broken \in BOOLEAN
        /\ acked \subseteq Commands /\ replies \subseteq Commands /\ read \in Seq(Asked)
        /\ faults \in Environments
    BY DEF IInv, TypeInv
  <2> QED BY <2>1, <1>0, <1>3, <1>8, <1>9, <1>10, <1>11 DEF TypeInv
<1>13. NumInv'
  BY <1>0, <1>3, <1>4, <1>6, <1>9, <1>11 DEF NumInv
<1>14. SafeInv'
  <2>1. Holds(Save, Promised, read, outbox)
    BY <1>0 DEF IInv, SafeInv
  <2> QED BY <2>1, <1>0, <1>9, <1>10, <1>11 DEF SafeInv
<1>15. SameInv'
  BY <1>0, <1>9, <1>10, <1>11 DEF SameInv
<1>16. WriterInv'
  BY <1>0, <1>7, <1>8 DEF WriterInv
<1> QED BY <1>12, <1>13, <1>14, <1>15, <1>16 DEF IInv

-----------------------------------------------------------------------------
(* Crashes and starts *)

\* A market nothing has happened in is a snapshot.
LEMMA EmptySaveIs ==
  /\ EmptySave \in SaveType
  /\ EmptySave = [world |-> <<>>, seq |-> 0, index |-> <<>>, outbox |-> <<>>]
<1>1. /\ <<>> \in Seq(Asked) /\ <<>> \in Seq(Commands) /\ Len(<<>>) = 0 /\ 0 \in Nat
      /\ LogCap \in Nat
  BY JournalAssumption
<1>2. Len(<<>>) <= LogCap
  BY <1>1
<1>3. ToSet(<<>>) \subseteq ToSet(<<>>)
  OBVIOUS
<1> QED BY <1>1, <1>2, <1>3, MemoryIs DEF EmptySave

\* A process is gone, and the disk still covers what was promised.
LEMMA GoneInv ==
  ASSUME IInv, ForgetMemory,
         file' \in Seq(LineType), synced' \in 0 .. Len(file'), Ascending(Entries(file')),
         Floor' = Len(file'), Covers(file', Len(file'), snap, Promised, read, outbox)
  PROVE  IInv'
<1>1. /\ up' = FALSE /\ stopping' = FALSE
      /\ world' = <<>> /\ seq' = 0 /\ index' = <<>> /\ outbox' = <<>>
      /\ broken' = FALSE /\ pending' = <<>> /\ replies' = {}
      /\ writer' = [w \in Writers |-> Idle]
      /\ tmp' = tmp /\ snap' = snap /\ acked' = acked /\ read' = read /\ faults' = faults
  BY DEF ForgetMemory
<1>2. InFlight' = {} /\ Bases' = {snap}
  <2>1. InFlight' = {}
    BY <1>1 DEF InFlight, Idle
  <2> QED BY <2>1, <1>1 DEF Bases
<1>3. Save' \in SaveType
  <2>1. Save' = EmptySave
    BY <1>1 DEF Save, EmptySave
  <2> QED BY <2>1, EmptySaveIs
<1>4. pending' \in Seq(EntryType) /\ Ascending(pending')
  BY <1>1 DEF Ascending
<1>5. writer' \in [Writers -> [pc : {"idle", "taken", "written", "renamed"},
                               save : SaveType \cup {None}]]
  BY <1>1 DEF Idle
<1>6. TypeInv'
  <2>1. /\ snap \in SaveType /\ acked \subseteq Commands /\ read \in Seq(Asked)
        /\ faults \in Environments
    BY DEF IInv, TypeInv
  <2>2. up' \in BOOLEAN /\ stopping' \in BOOLEAN /\ broken' \in BOOLEAN /\ replies' \subseteq Commands
    BY <1>1
  <2>3. \A w \in InFlight' : writer'[w].save \in SaveType
    BY <1>2
  <2>4. snap' \in SaveType /\ acked' \subseteq Commands /\ read' \in Seq(Asked) /\ faults' \in Environments
    BY <2>1, <1>1
  <2> QED BY <2>2, <2>3, <2>4, <1>3, <1>4, <1>5 DEF TypeInv
<1>7. NumInv'
  BY <1>1, <1>4 DEF NumInv
<1>8. SafeInv'
  <2>1. Promised' \subseteq Promised
    <3>1. ToSet(index') = {}
      BY <1>1 DEF ToSet
    <3> QED BY <3>1, <1>1 DEF Promised
  <2>2. \A facts : Keeps(facts, read) /\ Keeps(facts, outbox)
                     => Keeps(facts, read) /\ Keeps(facts, <<>>)
    BY DEF Keeps
  <2>3. Len(file') \in Nat
    OBVIOUS
  <2>4. Len(file') <= Len(file')
    BY <2>3
  <2>5. Covers(file', Len(file'), snap, Promised', read, <<>>)
    BY <2>1, <2>2, <2>3, <2>4, CoversLess
  <2> QED BY <2>5, <1>1, <1>2 DEF SafeInv
<1>9. SameInv' /\ WriterInv'
  BY <1>1, <1>2 DEF SameInv, WriterInv, Idle
<1> QED BY <1>6, <1>7, <1>8, <1>9 DEF IInv

\* Killed in an environment that does not lose power, in the middle of
\* an append or not: no line that was there is lost.
LEMMA KillInv ==
  ASSUME Covered, IInv, Kill
  PROVE  IInv'
<1>0. "torn" \notin faults /\ "power" \notin faults
  BY DEF Covered, IInv, TypeInv, Kill
<1>1. /\ up /\ ForgetMemory /\ faults' = faults /\ synced' = synced
      /\ \/ file' = file
         \/ \E c \in Asked : file' = AppendLine(file, Entry(seq + 1, c))
  BY <1>0 DEF Kill, ForgetMemory, PartialAppend, Asked
<1>2. /\ Len(file) \in Nat /\ synced \in Nat /\ synced <= Len(file) /\ Floor = Len(file)
      /\ Floor' = Len(file')
      /\ snap \in Bases /\ snap \in SaveType /\ outbox \in Seq(Asked)
  BY <1>0, <1>1, Basics DEF Floor, IInv
<1>3. /\ file \in Seq(LineType) /\ Ascending(Entries(file)) /\ read \in Seq(Asked)
      /\ Covers(file, Len(file), snap, Promised, read, outbox)
  BY <1>2 DEF IInv, TypeInv, NumInv, SafeInv
<1>4. /\ file' \in Seq(LineType) /\ synced' \in 0 .. Len(file') /\ Ascending(Entries(file'))
      /\ Covers(file', Len(file'), snap, Promised, read, outbox)
  <2>1. CASE file' = file
    BY <2>1, <1>1, <1>2, <1>3
  <2>2. CASE \E c \in Asked : file' = AppendLine(file, Entry(seq + 1, c))
    <3>1. PICK c \in Asked : file' = AppendLine(file, Entry(seq + 1, c))
      BY <2>2
    <3> DEFINE e == Entry(seq + 1, c)
               g == AppendLine(file, e)
    <3>2. /\ e \in EntryType
          /\ \A i \in 1 .. Len(Entries(file)) : Entries(file)[i].seq < e.seq
          /\ snap.seq < e.seq
      BY <1>1, <1>2, NextEntry DEF IInv
    <3> HIDE DEF e
    <3>3. g \in Seq(LineType) /\ Len(g) = Len(file) + 1 /\ Ascending(Entries(g))
      BY <1>3, <3>2, GrownIs
    <3>4. Covers(g, Len(file), snap, Promised, read, outbox)
      <4>1. Len(file) \in 0 .. Len(file)
        BY <1>2
      <4> QED BY <4>1, <1>2, <1>3, <3>2, CoversGrown
    <3>5. file' = g
      BY <3>1 DEF e
    <3> HIDE DEF g
    <3>6. Len(g) \in Nat /\ Len(file) <= Len(g) /\ synced' \in 0 .. Len(g)
      BY <3>3, <1>1, <1>2
    <3>7. Covers(g, Len(g), snap, Promised, read, outbox)
      BY <3>3, <3>4, <3>6, <1>2, CoversLess
    <3> QED BY <3>3, <3>5, <3>6, <3>7
  <2> QED BY <2>1, <2>2, <1>1
<1> QED BY <1>1, <1>2, <1>4, GoneInv

\* The machine loses power: what is flushed is left, and covers it all.
LEMMA PowerLossInv ==
  ASSUME Covered, IInv, PowerLoss
  PROVE  IInv'
<1>0. "torn" \notin faults /\ "power" \in faults
  BY DEF Covered, IInv, TypeInv, PowerLoss
<1>1. /\ ForgetMemory /\ synced' = Len(file')
      /\ \E n \in synced .. Len(file) : file' = SubSeq(file, 1, n)
  BY <1>0 DEF PowerLoss
<1>2. PICK n \in synced .. Len(file) : file' = SubSeq(file, 1, n)
  BY <1>1
<1>3. /\ Len(file) \in Nat /\ synced \in Nat /\ Floor = synced /\ snap \in Bases
      /\ n \in 0 .. Len(file) /\ n \in Floor .. Len(file)
  BY <1>0, Basics DEF Floor, IInv
<1>4. /\ file \in Seq(LineType) /\ Ascending(Entries(file))
      /\ Covers(file, Floor, snap, Promised, read, outbox)
      /\ Entries(file) \in Seq(EntryType) /\ Len(Entries(file)) = Len(file)
  BY <1>3, Basics DEF IInv, TypeInv, NumInv, SafeInv
<1>5. /\ file' \in Seq(LineType) /\ Len(file') = n /\ Entries(file') = SubSeq(Entries(file), 1, n)
  BY <1>2, <1>3, <1>4, PrefixLines
<1>6. Ascending(Entries(file'))
  BY <1>3, <1>4, <1>5, PrefixAscending
<1>7. Holds(From(snap, Entries(file')), Promised, read, outbox)
  BY <1>3, <1>4, <1>5 DEF Covers
<1>8. Covers(file', Len(file'), snap, Promised, read, outbox)
  <2>1. Len(file') \in 0 .. Len(file')
    BY <1>3, <1>5
  <2> QED BY <2>1, <1>5, <1>7, CoversWhole
<1>9. synced' \in 0 .. Len(file') /\ Floor' = Len(file')
  BY <1>1, <1>3, <1>5 DEF Floor
<1> QED BY <1>1, <1>5, <1>6, <1>8, <1>9, GoneInv

\* A start serves what the disk holds.
LEMMA RecoverableIs ==
  ASSUME TypeInv
  PROVE  /\ Recoverable = From(snap, Entries(file))
         /\ RecoverableWorld = From(snap, Entries(file)).world
<1>1. snap # None
  BY SaveIs DEF TypeInv
<1>2. Readable(file)
  BY EntriesAre DEF TypeInv
<1> QED BY <1>1, <1>2 DEF Recoverable, RecoverableWorld, From, Resume

\* A start puts in memory what the disk covers.
LEMMA StartInv ==
  ASSUME Covered, IInv, Start
  PROVE  IInv'
<1> DEFINE m == From(snap, Entries(file))
<1>0. /\ snap \in SaveType /\ snap # None /\ file \in Seq(LineType)
      /\ Entries(file) \in Seq(EntryType) /\ Ascending(Entries(file)) /\ Len(file) \in Nat
      /\ Floor \in 0 .. Len(file) /\ snap.seq \in Nat
  <2>1. snap \in SaveType /\ file \in Seq(LineType) /\ Ascending(Entries(file))
    BY DEF IInv, TypeInv, NumInv
  <2> QED BY <2>1, Basics, SaveIs DEF IInv
<1>1. /\ ~up /\ up' = TRUE
      /\ world' = m.world /\ seq' = m.seq /\ index' = m.index /\ outbox' = m.outbox
      /\ UNCHANGED <<file, synced, stopping, broken, pending, replies, writer, tmp, snap, acked,
                     read, faults>>
  BY <1>0, RecoverableIs DEF Start, IInv
<1>2. ~broken /\ pending = <<>> /\ replies = {} /\ InFlight = {} /\ Floor = Len(file)
  BY <1>1 DEF IInv, WriterInv
<1>3. m \in SaveType
  BY <1>0, FromType
<1>4. /\ m = [world |-> m.world, seq |-> m.seq, index |-> m.index, outbox |-> m.outbox]
      /\ m.world \in Seq(Asked) /\ m.outbox \in Seq(Asked) /\ m.seq \in Nat
      /\ ToSet(m.index) \subseteq ToSet(m.world)
  BY <1>3, SaveIs
<1>5. snap.seq <= m.seq /\ \A i \in 1 .. Len(Entries(file)) : Entries(file)[i].seq <= m.seq
  <2> DEFINE es == Entries(file)
             rest == After(es, snap.seq)
  <2>1. /\ rest \in Seq(EntryType)
        /\ \A i \in 1 .. Len(rest) : rest[i].seq > snap.seq
        /\ rest # <<>> => Last(rest) = Last(es) /\ es # <<>>
        /\ rest = <<>> => \A i \in 1 .. Len(es) : es[i].seq <= snap.seq
    BY <1>0, AfterIs
  <2>2. m.seq = (IF rest = <<>> THEN snap.seq ELSE Last(rest).seq)
    BY DEF From, Resume
  <2> HIDE DEF rest, es, m
  <2>3. CASE rest = <<>>
    BY <2>1, <2>2, <2>3, <1>0 DEF es
  <2>4. CASE rest # <<>>
    <3>1. Len(rest) \in 1 .. Len(rest) /\ Len(rest) \in Nat
      BY <2>1, <2>4
    <3>2. Last(rest).seq > snap.seq
      BY <3>1, <2>1 DEF Last
    <3>3. m.seq = Last(es).seq /\ es # <<>>
      BY <2>1, <2>2, <2>4
    <3>4. Len(es) \in 1 .. Len(es) /\ es \in Seq(EntryType) /\ Ascending(es)
      BY <3>3, <1>0 DEF es
    <3>5. Last(es) = es[Len(es)] /\ es[Len(es)].seq \in Nat
      BY <3>4, EntryIs DEF Last
    <3>6. ASSUME NEW i \in 1 .. Len(es) PROVE es[i].seq <= Last(es).seq
      <4>1. es[i].seq \in Nat
        BY <3>4, EntryIs
      <4>2. CASE i < Len(es)
        <5>1. es[i].seq < es[Len(es)].seq
          BY <4>2, <3>4 DEF Ascending
        <5> QED BY <5>1, <4>1, <3>5
      <4>3. CASE ~(i < Len(es))
        <5>1. i = Len(es)
          BY <4>3, <3>4
        <5> QED BY <5>1, <3>5
      <4> QED BY <4>2, <4>3
    <3>7. snap.seq <= m.seq
      BY <3>2, <3>3, <3>5, <2>2, <2>4, <1>0, <1>4
    <3> QED BY <3>3, <3>6, <3>7 DEF es
  <2> QED BY <2>3, <2>4
<1>6. Holds(m, Promised, read, outbox)
  <2>1. Covers(file, Floor, snap, Promised, read, outbox)
    BY DEF IInv, SafeInv, Bases
  <2> QED BY <2>1, <1>0, CoversWhole
<1> HIDE DEF m
<1>7. Save' = m
  <2>1. Save' = [world |-> m.world, seq |-> m.seq, index |-> m.index, outbox |-> m.outbox]
    BY <1>1 DEF Save
  <2> QED BY <2>1, <1>4
<1>8. InFlight' = {} /\ Bases' = {snap} /\ Floor' = Len(file)
  <2>1. InFlight' = {}
    BY <1>1, <1>2 DEF InFlight
  <2> QED BY <2>1, <1>1, <1>2 DEF Bases, Floor
<1>9. TypeInv'
  <2>1. /\ stopping \in BOOLEAN /\ broken \in BOOLEAN /\ pending \in Seq(EntryType)
        /\ synced \in 0 .. Len(file) /\ acked \subseteq Commands /\ replies \subseteq Commands
        /\ read \in Seq(Asked) /\ faults \in Environments
        /\ writer \in [Writers -> [pc : {"idle", "taken", "written", "renamed"},
                                   save : SaveType \cup {None}]]
    BY DEF IInv, TypeInv
  <2> QED BY <2>1, <1>0, <1>1, <1>3, <1>7, <1>8 DEF TypeInv
<1>10. NumInv'
  <2>1. Ascending(pending)
    BY DEF IInv, NumInv
  <2>2. \A i \in 1 .. Len(pending) : pending[i].seq <= seq'
    BY <1>2
  <2> QED BY <2>1, <2>2, <1>0, <1>1, <1>5, <1>8 DEF NumInv
<1>11. Holds(m, Promised', read', outbox')
  <2>1. Promised' \subseteq ToSet(m.world)
    BY <1>1, <1>2, <1>4, <1>6 DEF Promised, Holds
  <2>2. Keeps(m.outbox, outbox')
    BY <1>1 DEF Keeps
  <2>3. Keeps(m.outbox, read')
    BY <1>1, <1>6 DEF Holds
  <2> QED BY <2>1, <2>2, <2>3 DEF Holds
<1>12. SafeInv'
  <2>1. Covers(file, Len(file), snap, Promised', read', outbox')
    <3>1. Len(file) \in 0 .. Len(file)
      BY <1>0
    <3> QED BY <3>1, <1>0, <1>11, CoversWhole DEF m
  <2> QED BY <2>1, <1>1, <1>7, <1>8, <1>11 DEF SafeInv
<1>13. SameInv'
  BY <1>1, <1>7, <1>8 DEF SameInv, m
<1>14. WriterInv'
  BY <1>1, <1>2 DEF IInv, WriterInv, InFlight
<1> QED BY <1>9, <1>10, <1>12, <1>13, <1>14 DEF IInv

-----------------------------------------------------------------------------
(* The invariant, and what it says *)

\* A server just started over an empty journal.
LEMMA InitInv ==
  ASSUME Covered, Init
  PROVE  IInv
<1>1. /\ up = TRUE /\ stopping = FALSE
      /\ world = <<>> /\ seq = 0 /\ index = <<>> /\ outbox = <<>>
      /\ broken = FALSE /\ pending = <<>> /\ replies = {}
      /\ writer = [w \in Writers |-> Idle]
      /\ file = <<>> /\ synced = 0 /\ tmp = None
      /\ snap = EmptySave
      /\ acked = {} /\ read = <<>> /\ faults \in Environments
  BY DEF Init, Covered
<1>2. Save = EmptySave /\ EmptySave \in SaveType /\ EmptySave.seq = 0
  BY <1>1, EmptySaveIs DEF Save, EmptySave
<1>3. InFlight = {} /\ Bases = {EmptySave}
  <2>1. InFlight = {}
    BY <1>1 DEF InFlight, Idle
  <2> QED BY <2>1, <1>1 DEF Bases
<1>4. /\ file \in Seq(LineType) /\ Len(file) = 0 /\ pending \in Seq(EntryType) /\ read \in Seq(Asked)
      /\ Len(pending) = 0
  BY <1>1
<1>5. Entries(file) \in Seq(EntryType) /\ Len(Entries(file)) = 0
  BY <1>4, EntriesAre
<1>6. TypeInv
  <2>1. writer \in [Writers -> [pc : {"idle", "taken", "written", "renamed"},
                                save : SaveType \cup {None}]]
    BY <1>1 DEF Idle
  <2>2. synced \in 0 .. Len(file)
    BY <1>1, <1>4
  <2> QED BY <2>1, <2>2, <1>1, <1>2, <1>3, <1>4 DEF TypeInv
<1>7. NumInv
  <2>1. Ascending(Entries(file)) /\ Ascending(pending)
    BY <1>4, <1>5 DEF Ascending
  <2>2. \A b \in Bases : b.seq <= seq
    BY <1>1, <1>2, <1>3
  <2> QED BY <2>1, <2>2, <1>4, <1>5 DEF NumInv
<1>8. Holds(EmptySave, Promised, read, outbox)
  <2>1. Promised = {}
    BY <1>1 DEF Promised, ToSet
  <2>2. \A facts : Keeps(facts, <<>>)
    BY DEF Keeps
  <2> QED BY <2>1, <2>2, <1>1 DEF Holds
<1>9. Floor \in 0 .. Len(file) /\ \A i \in 1 .. Len(Entries(file)) : Entries(file)[i].seq <= EmptySave.seq
  BY <1>1, <1>4, <1>5 DEF Floor
<1>10. /\ Covers(file, Floor, EmptySave, Promised, read, outbox)
       /\ From(EmptySave, Entries(file)) = EmptySave
  BY <1>2, <1>4, <1>8, <1>9, CoversAll
<1>11. SafeInv /\ SameInv
  BY <1>2, <1>3, <1>8, <1>10 DEF SafeInv, SameInv
<1>12. WriterInv
  BY <1>1 DEF WriterInv, Idle
<1> QED BY <1>6, <1>7, <1>11, <1>12 DEF IInv

\* Every step keeps the invariant.
LEMMA StepInv ==
  ASSUME Covered, IInv, [Next]_vars
  PROVE  IInv'
<1>1. ASSUME NEW c \in Commands \cup {Step}, RunCommand(c) PROVE IInv'
  BY <1>1, RunCommandInv DEF Asked
<1>2. ASSUME NEW c \in Commands \cup {Step}, RunCommandFails(c) PROVE IInv'
  BY <1>2, RunCommandFailsInv DEF Asked
<1>3. ASSUME NEW c \in Commands, ReplayAnswer(c) PROVE IInv'
  BY <1>3, ReplayAnswerInv
<1>4. ASSUME NEW c \in Commands, Answer(c) PROVE IInv'
  BY <1>4, AnswerInv
<1>5. CASE ReadOutbox
  BY <1>5, ReadOutboxInv
<1>6. ASSUME NEW w \in Writers, TakeSave(w) PROVE IInv'
  BY <1>6, TakeSaveInv
<1>7. ASSUME NEW w \in Writers, WriteTmp(w) PROVE IInv'
  BY <1>7, WriteTmpInv
<1>8. ASSUME NEW w \in Writers, RenameTmp(w) PROVE IInv'
  BY <1>8, RenameTmpInv
<1>9. ASSUME NEW w \in Writers, TruncateJournal(w) PROVE IInv'
  BY <1>9, TruncateJournalInv
<1>10. CASE Shutdown
  BY <1>10, ShutdownInv
<1>11. CASE Kill
  BY <1>11, KillInv
<1>12. CASE PowerLoss
  BY <1>12, PowerLossInv
<1>13. CASE Start
  BY <1>13, StartInv
<1>14. CASE UNCHANGED vars
  <2>1. /\ UNCHANGED <<up, broken, world, seq, index, outbox, pending, writer, file, synced, tmp,
                       snap, faults>>
        /\ stopping' = stopping /\ acked' = acked /\ replies' = replies /\ read' = read
    BY <1>14 DEF vars, memory, disk
  <2>2. Promised' \subseteq Promised
    BY <2>1 DEF Promised
  <2>3. /\ stopping' \in BOOLEAN /\ acked' \subseteq Commands /\ replies' \subseteq Commands
        /\ read' \in Seq(Asked) /\ (~up => replies' = {})
    BY <2>1 DEF IInv, TypeInv, WriterInv
  <2> QED BY <2>1, <2>2, <2>3, ToldInv
<1> QED BY <1>1, <1>2, <1>3, <1>4, <1>5, <1>6, <1>7, <1>8, <1>9, <1>10, <1>11, <1>12, <1>13, <1>14
        DEF Next

\* It says the properties.
LEMMA InvImplies ==
  ASSUME IInv
  PROVE  TypeOK /\ AckedSurvives /\ MemoryIsRecoverable /\ FlushedFactsStand
<1>1. /\ Recoverable = From(snap, Entries(file)) /\ snap \in Bases
      /\ file \in Seq(LineType) /\ Floor \in 0 .. Len(file)
  BY RecoverableIs, Basics DEF IInv, TypeInv
<1>2. Holds(Recoverable, Promised, read, outbox)
  <2>1. Covers(file, Floor, snap, Promised, read, outbox)
    BY <1>1 DEF IInv, SafeInv
  <2> QED BY <2>1, <1>1, CoversWhole
<1>3. TypeOK
  <2>1. /\ world \in Seq(Asked) /\ outbox \in Seq(Asked) /\ index \in Seq(Commands)
        /\ Len(index) <= LogCap /\ seq \in Nat
    BY Basics DEF IInv
  <2>2. \A i \in DOMAIN file : file[i].ok => file[i].ended \/ i = Len(file)
    <3>1. DOMAIN file = 1 .. Len(file)
      BY <1>1
    <3> QED BY <3>1, <1>1, LineIs
  <2>3. /\ up \in BOOLEAN /\ stopping \in BOOLEAN /\ broken \in BOOLEAN
        /\ synced \in 0 .. Len(file) /\ replies \subseteq Commands /\ acked \subseteq Commands
        /\ writer \in [Writers -> [pc : {"idle", "taken", "written", "renamed"},
                                   save : SaveType \cup {None}]]
    BY DEF IInv, TypeInv
  <2> QED BY <2>1, <2>2, <2>3 DEF TypeOK, Asked
<1>4. AckedSurvives
  BY <1>2 DEF AckedSurvives, Holds, Promised
<1>5. MemoryIsRecoverable
  BY <1>1 DEF MemoryIsRecoverable, IInv, SameInv
<1>6. FlushedFactsStand
  <2>1. DOMAIN read = 1 .. Len(read)
    BY DEF IInv, TypeInv
  <2>2. \A n \in 1 .. Len(read) : read[n] # Step
           => n \in 1 .. Len(Recoverable.outbox) /\ Recoverable.outbox[n] = read[n]
    BY <1>2 DEF Holds, Keeps
  <2>3. Len(Recoverable.outbox) \in Nat
    <3>1. Recoverable \in SaveType
      <4>1. snap \in SaveType /\ Entries(file) \in Seq(EntryType) /\ Ascending(Entries(file))
        BY Basics DEF IInv, TypeInv, NumInv
      <4> QED BY <4>1, <1>1, FromType
    <3>2. Recoverable.outbox \in Seq(Asked)
      BY <3>1, SaveIs
    <3> QED BY <3>2
  <2> HIDE DEF Recoverable
  <2>4. \A n \in 1 .. Len(Recoverable.outbox) : n <= Len(Recoverable.outbox)
    BY <2>3
  <2> QED BY <2>1, <2>2, <2>4 DEF FlushedFactsStand
<1> QED BY <1>3, <1>4, <1>5, <1>6

\* The invariant holds in every reachable state, for every set of
\* commands and keys, every capacity of the index and any number of
\* crashes, restarts, saves and steps.
THEOREM JournalInvariant ==
  ASSUME Covered
  PROVE  Spec => []IInv
<1>1. Init => IInv
  BY InitInv
<1>2. IInv /\ [Next]_vars => IInv'
  BY StepInv
<1> QED BY <1>1, <1>2, PTL DEF Spec

\* The types, in every reachable state.
THEOREM JournalTypes ==
  ASSUME Covered
  PROVE  Spec => []TypeOK
<1>1. IInv => TypeOK
  BY InvImplies
<1>2. Spec => []IInv
  BY JournalInvariant
<1> QED BY <1>1, <1>2, PTL

\* Nothing that was acknowledged is lost: at every instant, in the
\* middle of a save or a truncation too, the disk holds every command
\* whose response a client has.
THEOREM AckedStays ==
  ASSUME Covered
  PROVE  Spec => []AckedSurvives
<1>1. IInv => AckedSurvives
  BY InvImplies
<1>2. Spec => []IInv
  BY JournalInvariant
<1> QED BY <1>1, <1>2, PTL

\* As long as every append succeeded, a restart would serve the market
\* being served, its number, its idempotency index and its facts
\* included.
THEOREM RestartServesTheSame ==
  ASSUME Covered
  PROVE  Spec => []MemoryIsRecoverable
<1>1. IInv => MemoryIsRecoverable
  BY InvImplies
<1>2. Spec => []IInv
  BY JournalInvariant
<1> QED BY <1>1, <1>2, PTL

\* A fact a consumer has read, if its command was flushed, is the fact
\* of that number after every restart too.
THEOREM FactsStand ==
  ASSUME Covered
  PROVE  Spec => []FlushedFactsStand
<1>1. IInv => FlushedFactsStand
  BY InvImplies
<1>2. Spec => []IInv
  BY JournalInvariant
<1> QED BY <1>1, <1>2, PTL

-----------------------------------------------------------------------------
(* The index has every key *)

\* For a key to be refused a second run, no append may be refused and
\* the idempotency index must have room for every key.
NoRefusedAppends == \A e \in Environments : "append" \notin e

Keys == {KeyOf[c] : c \in Commands} \ {NoKey}

Remembers == IsFiniteSet(Keys) /\ Cardinality(Keys) <= LogCap

KeysApart(log) ==
  /\ \A i \in 1 .. Len(log) : KeyOf[log[i]] # NoKey
  /\ \A i, j \in 1 .. Len(log) : i # j => KeyOf[log[i]] # KeyOf[log[j]]

KeysIn(cmds, log) ==
  \A c \in ToSet(cmds) :
    c # Step /\ KeyOf[c] # NoKey => \E d \in ToSet(log) : KeyOf[d] = KeyOf[c]

\* The index has every key that was used, once.
Indexed(m) == KeysApart(m.index) /\ KeysIn(m.world, m.index)

\* With room for every key, a new one finds room.
LEMMA RoomForKey ==
  ASSUME Remembers, NEW log \in Seq(Commands), KeysApart(log), NEW c \in Commands,
         KeyOf[c] # NoKey, \A d \in ToSet(log) : KeyOf[d] # KeyOf[c]
  PROVE  /\ KeysApart(Append(log, c)) /\ Len(Append(log, c)) <= LogCap
<1> DEFINE longer == Append(log, c)
           len == Len(log)
           f == [i \in 1 .. len + 1 |-> KeyOf[longer[i]]]
<1>1. /\ longer \in Seq(Commands) /\ Len(longer) = len + 1 /\ len \in Nat
      /\ \A i \in 1 .. len : longer[i] = log[i]
      /\ longer[len + 1] = c
      /\ \A i \in 1 .. len + 1 : i \in 1 .. len \/ i = len + 1
  BY MoreIs
<1>2. \A i \in 1 .. len : log[i] \in ToSet(log)
  BY SetOf
<1>3. \A i \in 1 .. len + 1 : longer[i] \in Commands
  BY <1>1
<1> HIDE DEF longer
<1>4. \A i \in 1 .. len + 1 : KeyOf[longer[i]] # NoKey
  BY <1>1 DEF KeysApart
<1>5. ASSUME NEW i \in 1 .. len + 1, NEW j \in 1 .. len + 1, i # j
      PROVE  KeyOf[longer[i]] # KeyOf[longer[j]]
  <2>1. CASE i \in 1 .. len /\ j \in 1 .. len
    BY <2>1, <1>1, <1>5 DEF KeysApart
  <2>2. CASE i \in 1 .. len /\ j = len + 1
    BY <2>2, <1>1, <1>2
  <2>3. CASE i = len + 1 /\ j \in 1 .. len
    BY <2>3, <1>1, <1>2
  <2> QED BY <2>1, <2>2, <2>3, <1>1, <1>5
<1>6. KeysApart(longer)
  BY <1>1, <1>4, <1>5 DEF KeysApart
<1>7. f \in [1 .. len + 1 -> Keys]
  BY <1>3, <1>4 DEF Keys
<1>8. \A i, j \in 1 .. len + 1 : f[i] = f[j] => i = j
  BY <1>5
<1>9. f \in Injection(1 .. len + 1, Keys)
  <2>1. DOMAIN f = 1 .. len + 1
    OBVIOUS
  <2> HIDE DEF f
  <2> QED BY <1>7, <1>8, <2>1 DEF Injection, IsInjective
<1>10. Cardinality(1 .. len + 1) <= Cardinality(Keys)
  <2> HIDE DEF f
  <2> QED BY <1>9, FS_Injection DEF Remembers
<1>11. Cardinality(1 .. len + 1) = len + 1
  <2>1. 1 \in Int /\ len + 1 \in Int /\ 1 <= len + 1
    BY <1>1
  <2>2. Cardinality(1 .. len + 1) = (len + 1) - 1 + 1
    BY <2>1, FS_Interval
  <2> QED BY <2>2, <1>1
<1>12. Cardinality(Keys) \in Nat /\ Cardinality(Keys) <= LogCap /\ LogCap \in Nat
  BY FS_CardinalityType, JournalAssumption DEF Remembers
<1>13. len + 1 <= LogCap
  BY <1>1, <1>10, <1>11, <1>12
<1> QED BY <1>1, <1>6, <1>13 DEF longer

\* No key is forgotten when a command is recorded.
LEMMA IndexedMore ==
  ASSUME Remembers, NEW m \in SaveType, Indexed(m), NEW e \in EntryType
  PROVE  Indexed(More(m, e))
<1> DEFINE c == e.cmd
           log == m.index
<1>1. /\ m.world \in Seq(Asked) /\ log \in Seq(Commands) /\ Len(log) <= LogCap /\ c \in Asked
  BY SaveIs DEF EntryType
<1>2. More(m, e).world = Append(m.world, c) /\ More(m, e).index = Record(log, c)
  BY DEF More
<1>3. KeysApart(log) /\ KeysIn(m.world, log)
  BY DEF Indexed
<1>4. ToSet(Append(m.world, c)) = ToSet(m.world) \cup {c}
  BY <1>1, MoreSet
<1> HIDE DEF c, log
<1>5. /\ KeysApart(Record(log, c)) /\ ToSet(log) \subseteq ToSet(Record(log, c))
      /\ c # Step /\ KeyOf[c] # NoKey => \E d \in ToSet(Record(log, c)) : KeyOf[d] = KeyOf[c]
  <2>1. CASE c = Step \/ KeyOf[c] = NoKey \/ \E d \in ToSet(log) : KeyOf[d] = KeyOf[c]
    <3>1. Record(log, c) = log
      BY <2>1 DEF Record
    <3> QED BY <2>1, <3>1, <1>3
  <2>2. CASE ~(c = Step \/ KeyOf[c] = NoKey \/ \E d \in ToSet(log) : KeyOf[d] = KeyOf[c])
    <3> DEFINE longer == Append(log, c)
    <3>1. c \in Commands
      BY <2>2, <1>1 DEF Asked
    <3>2. KeysApart(longer) /\ Len(longer) <= LogCap
      BY <2>2, <3>1, <1>1, <1>3, RoomForKey
    <3>3. ToSet(longer) = ToSet(log) \cup {c}
      BY <3>1, <1>1, MoreSet
    <3>4. longer \in Seq(Commands)
      BY <3>1, <1>1
    <3> HIDE DEF longer
    <3>5. Record(log, c) = IF Len(longer) > LogCap THEN Tail(longer) ELSE longer
      BY <2>2, Zenon DEF Record, longer
    <3>6. ~(Len(longer) > LogCap)
      <4>1. Len(longer) \in Nat /\ LogCap \in Nat
        BY <3>4, JournalAssumption
      <4> QED BY <4>1, <3>2
    <3>7. Record(log, c) = longer
      BY <3>5, <3>6
    <3> QED BY <3>2, <3>3, <3>7
  <2> QED BY <2>1, <2>2
<1>6. KeysIn(Append(m.world, c), Record(log, c))
  BY <1>3, <1>4, <1>5 DEF KeysIn
<1> QED BY <1>2, <1>5, <1>6 DEF Indexed, c, log

\* A beginning that is longer by one.
LEMMA OneMore ==
  ASSUME NEW S, NEW s \in Seq(S), NEW n \in Nat, n + 1 <= Len(s)
  PROVE  SubSeq(s, 1, n + 1) = Append(SubSeq(s, 1, n), s[n + 1])
<1> DEFINE t == SubSeq(s, 1, n)
           u == SubSeq(s, 1, n + 1)
           v == Append(t, s[n + 1])
<1>0. n \in 0 .. Len(s) /\ n + 1 \in 0 .. Len(s) /\ n + 1 \in 1 .. Len(s) /\ s[n + 1] \in S
  OBVIOUS
<1>1. t \in Seq(S) /\ Len(t) = n /\ \A i \in 1 .. n : t[i] = s[i]
  BY <1>0, PrefixIs
<1>2. u \in Seq(S) /\ Len(u) = n + 1 /\ \A i \in 1 .. n + 1 : u[i] = s[i]
  BY <1>0, PrefixIs
<1> HIDE DEF t, u
<1>3. /\ v \in Seq(S) /\ Len(v) = n + 1
      /\ \A i \in 1 .. n : v[i] = t[i]
      /\ v[n + 1] = s[n + 1]
      /\ \A i \in 1 .. n + 1 : i \in 1 .. n \/ i = n + 1
  BY <1>0, <1>1, MoreIs
<1> HIDE DEF v
<1>4. \A i \in 1 .. n + 1 : u[i] = v[i]
  BY <1>1, <1>2, <1>3
<1>5. u = v
  BY <1>2, <1>3, <1>4, SameSeq
<1> QED BY <1>5 DEF t, u, v

\* Nor in a replay of any length.
LEMMA IndexedResume ==
  ASSUME Remembers, NEW b \in SaveType, Indexed(b), NEW es \in Seq(EntryType)
  PROVE  Indexed(Resume(b, es))
<1> DEFINE len == Len(es)
           T == {n \in Nat : n <= len => Indexed(Resume(b, SubSeq(es, 1, n)))}
<1>0. len \in Nat
  OBVIOUS
<1>1. 0 \in T
  <2>1. SubSeq(es, 1, 0) = <<>>
    BY SubSeqEmpty
  <2>2. Resume(b, SubSeq(es, 1, 0)) = b
    BY <2>1, ResumeNone
  <2> QED BY <2>2
<1>2. ASSUME NEW n \in T
      PROVE  n + 1 \in T
  <2> SUFFICES ASSUME n + 1 <= len PROVE Indexed(Resume(b, SubSeq(es, 1, n + 1)))
    OBVIOUS
  <2>1. n \in 0 .. len /\ n + 1 \in 1 .. Len(es) /\ n \in Nat
    BY <1>0
  <2> DEFINE fs == SubSeq(es, 1, n)
  <2>2. Indexed(Resume(b, fs))
    BY <2>1
  <2>3. fs \in Seq(EntryType) /\ es[n + 1] \in EntryType
    BY <2>1, PrefixIs
  <2>4. SubSeq(es, 1, n + 1) = Append(fs, es[n + 1])
    BY <2>1, OneMore
  <2> HIDE DEF fs
  <2>5. Resume(b, Append(fs, es[n + 1])) = More(Resume(b, fs), es[n + 1]) /\ Resume(b, fs) \in SaveType
    BY <2>3, ResumeMore, ResumeType
  <2>6. Indexed(More(Resume(b, fs), es[n + 1]))
    BY <2>2, <2>3, <2>5, IndexedMore
  <2> QED BY <2>4, <2>5, <2>6
<1>3. T = Nat
  <2>1. T \in SUBSET Nat
    OBVIOUS
  <2> HIDE DEF T
  <2> QED BY <1>1, <1>2, <2>1, SetInduction
<1>4. Indexed(Resume(b, SubSeq(es, 1, len)))
  <2>1. len \in T /\ len <= len
    BY <1>0, <1>3
  <2> QED BY <2>1
<1>5. SubSeq(es, 1, len) = es
  BY PrefixAll
<1> QED BY <1>4, <1>5

\* What is past a snapshot in the beginning of a file is the beginning
\* of what is past it.
LEMMA AfterPrefix ==
  ASSUME NEW es \in Seq(EntryType), Ascending(es), NEW s \in Nat, NEW n \in 0 .. Len(es)
  PROVE  \E k \in 0 .. Len(After(es, s)) : After(SubSeq(es, 1, n), s) = SubSeq(After(es, s), 1, k)
<1> DEFINE len == Len(es)
           A == After(es, s)
           fs == SubSeq(es, 1, n)
           B == After(fs, s)
<1>1. PICK k \in 0 .. Len(es) : \A i \in 1 .. Len(es) : es[i].seq <= s <=> i <= k
  BY SplitAt
<1>2. A \in Seq(EntryType) /\ Len(A) = len - k /\ \A i \in 1 .. len - k : A[i] = es[k + i]
  BY <1>1, AfterAt
<1>3. fs \in Seq(EntryType) /\ Len(fs) = n /\ \A i \in 1 .. n : fs[i] = es[i]
  BY PrefixIs
<1>4. len \in Nat /\ n \in Nat /\ n <= len /\ k \in Nat /\ k <= len /\ \A i \in 1 .. n : i \in 1 .. len
  BY <1>1
<1> HIDE DEF A, fs
<1>5. CASE n <= k
  <2>1. \A i \in 1 .. Len(fs) : fs[i].seq <= s
    BY <1>1, <1>3, <1>4, <1>5
  <2>2. B = <<>>
    BY <1>3, <2>1, AfterNone
  <2>3. SubSeq(A, 1, 0) = <<>> /\ 0 \in 0 .. Len(A)
    BY <1>2, SubSeqEmpty
  <2> QED BY <2>2, <2>3 DEF A, fs
<1>6. CASE k < n
  <2>1. k \in 0 .. Len(fs) /\ \A i \in 1 .. Len(fs) : fs[i].seq <= s <=> i <= k
    BY <1>1, <1>3, <1>4, <1>6
  <2>2. B \in Seq(EntryType) /\ Len(B) = n - k /\ \A i \in 1 .. n - k : B[i] = fs[k + i]
    <3>1. /\ B \in Seq(EntryType) /\ Len(B) = Len(fs) - k
          /\ \A i \in 1 .. Len(fs) - k : B[i] = fs[k + i]
      BY <2>1, <1>3, AfterAt
    <3> QED BY <3>1, <1>3
  <2> HIDE DEF B, len
  <2>3. n - k \in 0 .. Len(A)
    BY <1>2, <1>4, <1>6
  <2>4. /\ SubSeq(A, 1, n - k) \in Seq(EntryType) /\ Len(SubSeq(A, 1, n - k)) = n - k
        /\ \A i \in 1 .. n - k : SubSeq(A, 1, n - k)[i] = A[i]
    BY <1>2, <2>3, PrefixIs
  <2>5. \A i \in 1 .. n - k : i \in 1 .. len - k /\ k + i \in 1 .. n
    BY <1>4, <1>6
  <2>6. \A i \in 1 .. n - k : B[i] = SubSeq(A, 1, n - k)[i]
    BY <1>2, <1>3, <2>2, <2>4, <2>5
  <2>7. B = SubSeq(A, 1, n - k)
    BY <2>2, <2>4, <2>6, SameSeq
  <2> QED BY <2>3, <2>7 DEF A, B, fs
<1> QED BY <1>4, <1>5, <1>6

\* The commands of a journal's beginning.
LEMMA CommandsPrefix ==
  ASSUME NEW es \in Seq(EntryType), NEW k \in 0 .. Len(es)
  PROVE  CommandsOf(SubSeq(es, 1, k)) = SubSeq(CommandsOf(es), 1, k)
<1> DEFINE fs == SubSeq(es, 1, k)
           cs == CommandsOf(es)
<1>1. fs \in Seq(EntryType) /\ Len(fs) = k /\ \A i \in 1 .. k : fs[i] = es[i]
  BY PrefixIs
<1>2. cs \in Seq(Asked) /\ Len(cs) = Len(es) /\ \A i \in 1 .. Len(es) : cs[i] = es[i].cmd
  BY CommandsAre
<1> HIDE DEF fs, cs
<1>3. CommandsOf(fs) \in Seq(Asked) /\ Len(CommandsOf(fs)) = k
      /\ \A i \in 1 .. k : CommandsOf(fs)[i] = fs[i].cmd
  BY <1>1, CommandsAre
<1>4. SubSeq(cs, 1, k) \in Seq(Asked) /\ Len(SubSeq(cs, 1, k)) = k
      /\ \A i \in 1 .. k : SubSeq(cs, 1, k)[i] = cs[i]
  BY <1>2, PrefixIs
<1>5. \A i \in 1 .. k : i \in 1 .. Len(es)
  OBVIOUS
<1>6. CommandsOf(fs) = SubSeq(cs, 1, k)
  BY <1>1, <1>2, <1>3, <1>4, <1>5, SameSeq
<1> QED BY <1>6 DEF fs, cs

\* The beginning of a concatenation that has all of its first part.
LEMMA ConcatPrefix ==
  ASSUME NEW S, NEW s \in Seq(S), NEW t \in Seq(S), NEW k \in 0 .. Len(t)
  PROVE  /\ Len(s) + k \in 0 .. Len(s \o t)
         /\ s \o SubSeq(t, 1, k) = SubSeq(s \o t, 1, Len(s) + k)
<1> DEFINE n == Len(s)
           m == Len(t)
           p == SubSeq(t, 1, k)
           u == s \o t
           v == s \o p
<1>1. p \in Seq(S) /\ Len(p) = k /\ \A i \in 1 .. k : p[i] = t[i]
  BY PrefixIs
<1>2. /\ u \in Seq(S) /\ Len(u) = n + m /\ n \in Nat /\ m \in Nat /\ k \in Nat /\ k <= m
      /\ \A i \in 1 .. n + m : u[i] = IF i <= n THEN s[i] ELSE t[i - n]
  BY ConcatProperties
<1> HIDE DEF p, u
<1>3. /\ v \in Seq(S) /\ Len(v) = n + k
      /\ \A i \in 1 .. n + k : v[i] = IF i <= n THEN s[i] ELSE p[i - n]
  BY <1>1, ConcatProperties
<1> HIDE DEF v, n, m
<1>4. n + k \in 0 .. Len(u)
  BY <1>2
<1>5. /\ SubSeq(u, 1, n + k) \in Seq(S) /\ Len(SubSeq(u, 1, n + k)) = n + k
      /\ \A i \in 1 .. n + k : SubSeq(u, 1, n + k)[i] = u[i]
  BY <1>2, <1>4, PrefixIs
<1>6. ASSUME NEW i \in 1 .. n + k PROVE v[i] = SubSeq(u, 1, n + k)[i]
  <2>1. i \in 1 .. n + m
    BY <1>2
  <2>2. CASE i <= n
    BY <2>1, <2>2, <1>2, <1>3, <1>5
  <2>3. CASE ~(i <= n)
    <3>1. i - n \in 1 .. k
      BY <2>3, <1>2
    <3> QED BY <2>1, <2>3, <3>1, <1>1, <1>2, <1>3, <1>5
  <2> QED BY <2>2, <2>3
<1>7. v = SubSeq(u, 1, n + k)
  BY <1>3, <1>5, <1>6, SameSeq
<1> QED BY <1>4, <1>7 DEF p, u, v, n

\* What is left of the history when the end of the file is lost is the
\* beginning of it.
LEMMA WorldPrefix ==
  ASSUME NEW b \in SaveType, NEW es \in Seq(EntryType), Ascending(es), NEW n \in 0 .. Len(es)
  PROVE  \E k \in 0 .. Len(From(b, es).world) :
           From(b, SubSeq(es, 1, n)).world = SubSeq(From(b, es).world, 1, k)
<1> DEFINE A == After(es, b.seq)
           cs == CommandsOf(A)
<1>1. b.seq \in Nat /\ b.world \in Seq(Asked)
  BY SaveIs
<1>2. A \in Seq(EntryType)
  BY <1>1, AfterIs
<1>3. PICK k \in 0 .. Len(A) : After(SubSeq(es, 1, n), b.seq) = SubSeq(A, 1, k)
  BY <1>1, AfterPrefix
<1>4. From(b, es).world = b.world \o cs
  BY DEF From, Resume
<1>5. From(b, SubSeq(es, 1, n)).world = b.world \o CommandsOf(SubSeq(A, 1, k))
  <2>1. From(b, SubSeq(es, 1, n)).world = b.world \o CommandsOf(After(SubSeq(es, 1, n), b.seq))
    BY DEF From, Resume
  <2> QED BY <2>1, <1>3
<1> HIDE DEF A
<1>6. CommandsOf(SubSeq(A, 1, k)) = SubSeq(cs, 1, k) /\ cs \in Seq(Asked) /\ Len(cs) = Len(A)
  BY <1>2, CommandsPrefix, CommandsAre
<1> HIDE DEF cs
<1>7. k \in 0 .. Len(cs)
  BY <1>6
<1>8. /\ Len(b.world) + k \in 0 .. Len(b.world \o cs)
      /\ b.world \o SubSeq(cs, 1, k) = SubSeq(b.world \o cs, 1, Len(b.world) + k)
  BY <1>1, <1>6, <1>7, ConcatPrefix
<1> QED BY <1>4, <1>5, <1>6, <1>8

\* The strengthening the refinement needs: every snapshot has the keys
\* of its history, and so has memory.
KeyInv ==
  /\ ~broken
  /\ \A b \in Bases : Indexed(b)
  /\ up => Indexed(Save)

\* An empty index is complete for a market nothing has happened in.
LEMMA InitKeys ==
  ASSUME Covered, Init
  PROVE  KeyInv
<1>1. /\ world = <<>> /\ seq = 0 /\ index = <<>> /\ outbox = <<>> /\ broken = FALSE
      /\ writer = [w \in Writers |-> Idle] /\ snap = EmptySave
  BY DEF Init, Covered
<1>2. InFlight = {} /\ Bases = {EmptySave}
  <2>1. InFlight = {}
    BY <1>1 DEF InFlight, Idle
  <2> QED BY <2>1, <1>1 DEF Bases
<1>3. Save = EmptySave
  BY <1>1 DEF Save, EmptySave
<1>4. Indexed(EmptySave)
  <2>1. EmptySave.index = <<>> /\ EmptySave.world = <<>> /\ ToSet(<<>>) = {} /\ Len(<<>>) = 0
    BY DEF EmptySave, ToSet
  <2> QED BY <2>1 DEF Indexed, KeysApart, KeysIn
<1> QED BY <1>1, <1>2, <1>3, <1>4 DEF KeyInv

\* A step after which a later start has the same to start from, or the
\* market's memory as well.
LEMMA SameKeys ==
  ASSUME KeyInv, broken' = broken, Save' = Save, up' => up,
         \A b \in Bases' : b \in Bases \/ (up /\ b = Save)
  PROVE  KeyInv'
BY DEF KeyInv

\* Every step keeps the index complete.
LEMMA KeyStep ==
  ASSUME Covered, NoRefusedAppends, Remembers, IInv, KeyInv, [Next]_vars
  PROVE  KeyInv'
<1>0. /\ faults \in Environments /\ "append" \notin faults
      /\ writer \in [Writers -> [pc : {"idle", "taken", "written", "renamed"},
                                 save : SaveType \cup {None}]]
      /\ Save \in SaveType
  BY DEF IInv, TypeInv, NoRefusedAppends
<1>1. ASSUME NEW c \in Asked, RunCommand(c) PROVE KeyInv'
  <2> DEFINE e == Entry(seq + 1, c)
  <2>1. /\ up /\ world' = Append(world, c) /\ seq' = seq + 1 /\ index' = Record(index, c)
        /\ outbox' = Append(outbox, c)
        /\ UNCHANGED <<up, broken, writer, snap>>
    BY <1>1 DEF RunCommand, MayApply, Apply, CommitFacts
  <2>2. e \in EntryType /\ e.cmd = c /\ e.seq = seq + 1
    BY <2>1, NextEntry DEF IInv
  <2> HIDE DEF e
  <2>3. Save' = More(Save, e)
    <3>1. Save' = [world |-> world', seq |-> seq', index |-> index', outbox |-> outbox']
      BY DEF Save
    <3>2. Save.world = world /\ Save.index = index /\ Save.outbox = outbox
      BY DEF Save
    <3> QED BY <3>1, <3>2, <2>1, <2>2 DEF More
  <2>4. Indexed(Save')
    BY <2>1, <2>2, <2>3, <1>0, IndexedMore DEF KeyInv
  <2>5. Bases' = Bases
    BY <2>1 DEF Bases, InFlight
  <2> QED BY <2>1, <2>4, <2>5 DEF KeyInv
<1>2. ASSUME NEW c \in Asked, RunCommandFails(c) PROVE KeyInv'
  BY <1>0, <1>2 DEF RunCommandFails
<1>3. CASE UNCHANGED <<up, broken, world, seq, index, outbox, writer, snap>>
  <2>1. Bases' = Bases /\ Save' = Save
    BY <1>3 DEF Bases, InFlight, Save
  <2> QED BY <2>1, <1>3, SameKeys
<1>4. ASSUME NEW w \in Writers, TakeSave(w) \/ WriteTmp(w) \/ RenameTmp(w) \/ TruncateJournal(w)
      PROVE  KeyInv'
  <2>1. UNCHANGED <<up, broken, world, seq, index, outbox>>
    BY <1>4 DEF TakeSave, WriteTmp, RenameTmp, TruncateJournal
  <2>2. Save' = Save
    BY <2>1 DEF Save
  <2>3. \A v \in Writers : v = w
    BY DEF Covered
  <2>4. \A b \in Bases' : b = snap' \/ (w \in InFlight' /\ b = writer'[w].save)
    BY <2>3 DEF Bases, InFlight
  <2>5. CASE TakeSave(w)
    <3>1. up /\ snap' = snap /\ writer' = [writer EXCEPT ![w] = [pc |-> "taken", save |-> Save]]
      BY <2>5 DEF TakeSave, disk
    <3>2. writer'[w].save = Save
      BY <3>1, <1>0
    <3>3. \A b \in Bases' : b \in Bases \/ (up /\ b = Save)
      BY <2>4, <3>1, <3>2 DEF Bases
    <3> QED BY <2>1, <2>2, <3>3, SameKeys
  <2>6. CASE WriteTmp(w)
    <3>1. snap' = snap /\ writer' = [writer EXCEPT ![w].pc = "written"] /\ w \in InFlight
      BY <2>6 DEF WriteTmp, InFlight
    <3>2. writer'[w].save = writer[w].save
      BY <3>1, <1>0
    <3>3. \A b \in Bases' : b \in Bases \/ (up /\ b = Save)
      BY <2>4, <3>1, <3>2 DEF Bases
    <3> QED BY <2>1, <2>2, <3>3, SameKeys
  <2>7. CASE RenameTmp(w)
    <3>1. w \in InFlight /\ tmp = writer[w].save /\ tmp # None
      <4>1. writer[w].pc = "written" /\ w \in InFlight
        BY <2>7 DEF RenameTmp, InFlight
      <4>2. tmp = writer[w].save /\ writer[w].save \in SaveType
        BY <4>1 DEF IInv, WriterInv, TypeInv
      <4> QED BY <4>1, <4>2, SaveIs
    <3>2. snap' = writer[w].save /\ writer' = [writer EXCEPT ![w].pc = "renamed"]
      BY <2>7, <3>1 DEF RenameTmp
    <3>3. writer'[w].save = writer[w].save
      BY <3>2, <1>0
    <3>4. \A b \in Bases' : b \in Bases \/ (up /\ b = Save)
      BY <2>4, <3>1, <3>2, <3>3 DEF Bases
    <3> QED BY <2>1, <2>2, <3>4, SameKeys
  <2>8. CASE TruncateJournal(w)
    <3>1. snap' = snap /\ writer' = [writer EXCEPT ![w] = Idle]
      BY <2>8 DEF TruncateJournal
    <3>2. w \notin InFlight'
      BY <3>1, <1>0 DEF InFlight, Idle
    <3>3. \A b \in Bases' : b \in Bases \/ (up /\ b = Save)
      BY <2>4, <3>1, <3>2 DEF Bases
    <3> QED BY <2>1, <2>2, <3>3, SameKeys
  <2> QED BY <1>4, <2>5, <2>6, <2>7, <2>8
<1>5. CASE Kill \/ PowerLoss
  <2>1. up' = FALSE /\ broken' = FALSE /\ writer' = [w \in Writers |-> Idle] /\ snap' = snap
    BY <1>5 DEF Kill, PowerLoss, ForgetMemory
  <2>2. Bases' = {snap} /\ snap \in Bases
    BY <2>1 DEF Bases, InFlight, Idle
  <2> QED BY <2>1, <2>2 DEF KeyInv
<1>6. CASE Start
  <2> DEFINE m == From(snap, Entries(file))
  <2>1. /\ up' = TRUE /\ UNCHANGED <<broken, writer, snap>>
        /\ world' = m.world /\ seq' = m.seq /\ index' = m.index /\ outbox' = m.outbox
    BY <1>6, RecoverableIs DEF Start, IInv
  <2>2. /\ snap \in SaveType /\ snap.seq \in Nat /\ snap \in Bases
        /\ Entries(file) \in Seq(EntryType) /\ Ascending(Entries(file))
    BY Basics DEF IInv, NumInv
  <2>3. m \in SaveType /\ Indexed(m)
    <3>1. After(Entries(file), snap.seq) \in Seq(EntryType)
      BY <2>2, AfterIs
    <3>2. Indexed(snap)
      BY <2>2 DEF KeyInv
    <3> QED BY <2>2, <3>1, <3>2, IndexedResume, ResumeType DEF From
  <2>4. m = [world |-> m.world, seq |-> m.seq, index |-> m.index, outbox |-> m.outbox]
    BY <2>3, SaveIs
  <2> HIDE DEF m
  <2>5. Save' = m
    <3>1. Save' = [world |-> m.world, seq |-> m.seq, index |-> m.index, outbox |-> m.outbox]
      BY <2>1 DEF Save
    <3> QED BY <3>1, <2>4
  <2>6. Bases' = Bases
    BY <2>1 DEF Bases, InFlight
  <2> QED BY <2>1, <2>3, <2>5, <2>6 DEF KeyInv
<1>7. ASSUME NEW c \in Commands, ReplayAnswer(c) \/ Answer(c) PROVE KeyInv'
  BY <1>3, <1>7 DEF ReplayAnswer, Answer, disk
<1>8. CASE ReadOutbox \/ Shutdown \/ UNCHANGED vars
  BY <1>3, <1>8 DEF ReadOutbox, Shutdown, vars, memory, disk
<1> QED BY <1>1, <1>2, <1>4, <1>5, <1>6, <1>7, <1>8 DEF Next, Asked

-----------------------------------------------------------------------------
(* The journal implements the durable log *)

\* The next state's history.
LEMMA NextHistory ==
  ASSUME TypeInv'
  PROVE  RecoverableWorld' = From(snap', Entries(file')).world
<1>1. snap' # None
  BY SaveIs DEF TypeInv
<1>2. Readable(file')
  BY EntriesAre DEF TypeInv
<1> QED BY <1>1, <1>2 DEF RecoverableWorld, From, Resume

\* While the server is up, its history is the market's.
LEMMA LiveHistory ==
  /\ IInv /\ ~broken /\ up => RecoverableWorld = world
  /\ IInv' /\ ~broken' /\ up' => RecoverableWorld' = world'
<1>1. ASSUME IInv, ~broken, up PROVE RecoverableWorld = world
  <2>1. From(snap, Entries(file)) = Save
    BY <1>1 DEF IInv, SameInv, Bases
  <2> QED BY <1>1, <2>1, RecoverableIs DEF IInv, Save
<1>2. ASSUME IInv', ~broken', up' PROVE RecoverableWorld' = world'
  <2>1. From(snap', Entries(file')) = Save'
    BY <1>2 DEF IInv, SameInv, Bases
  <2> QED BY <1>2, <2>1, NextHistory DEF IInv, Save
<1> QED BY <1>1, <1>2

\* The durable log's sets of elements are the journal's.
LEMMA SameToSet == \A s : Durable!ToSet(s) = ToSet(s)
BY DEF Durable!ToSet, ToSet

\* A command that may be applied is one the durable log may commit.
LEMMA MayCommit ==
  ASSUME IInv, KeyInv, NEW c \in Asked, MayApply(c),
         RecoverableWorld' = Append(RecoverableWorld, c), acked' = acked
  PROVE  Durable!Commit(c)
<1>1. up /\ ~broken /\ (c # Step => Recorded(c) = {} \/ KeyOf[c] = NoKey)
  BY DEF MayApply
<1>2. RecoverableWorld = world
  BY <1>1, LiveHistory
<1>3. KeysIn(world, index)
  BY <1>1 DEF KeyInv, Indexed, Save
<1>4. c # Step => KeyOf[c] = NoKey \/ ~Durable!Used(KeyOf[c])
  <2> SUFFICES ASSUME c # Step, KeyOf[c] # NoKey, NEW d \in ToSet(world), d # Step, KeyOf[d] = KeyOf[c]
               PROVE  FALSE
    BY <1>2, SameToSet DEF Durable!Used
  <2>1. PICK x \in ToSet(index) : KeyOf[x] = KeyOf[d]
    BY <1>3 DEF KeysIn
  <2>2. x \in Recorded(c)
    BY <2>1 DEF Recorded
  <2> QED BY <2>2, <1>1
<1> QED BY <1>4 DEF Durable!Commit

\* Running a command commits it, and so does a kill that leaves its line
\* behind; a response acknowledges; power lost loses an end nobody was
\* told of; nothing else shows in the durable log.
LEMMA StepRefines ==
  ASSUME Covered, NoRefusedAppends, Remembers, IInv, IInv', KeyInv, KeyInv', [Next]_vars
  PROVE  [Durable!Next]_<<RecoverableWorld, acked>>
<1> DEFINE log == RecoverableWorld
<1>0. /\ faults \in Environments /\ "append" \notin faults /\ "torn" \notin faults
      /\ ~broken /\ ~broken'
  BY DEF IInv, TypeInv, NoRefusedAppends, Covered, KeyInv
<1>1. ASSUME NEW c \in Asked, RunCommand(c) PROVE Durable!Commit(c)
  <2>1. MayApply(c) /\ world' = Append(world, c) /\ up /\ up' /\ acked' = acked
    BY <1>1 DEF RunCommand, Apply, MayApply
  <2>2. RecoverableWorld' = Append(RecoverableWorld, c)
    BY <2>1, <1>0, LiveHistory
  <2> QED BY <2>1, <2>2, MayCommit
<1>2. ASSUME NEW c \in Asked, RunCommandFails(c) PROVE FALSE
  BY <1>0, <1>2 DEF RunCommandFails
<1>3. CASE UNCHANGED <<file, snap, acked>>
  BY <1>3 DEF RecoverableWorld
<1>4. ASSUME NEW c \in Commands, ReplayAnswer(c) PROVE UNCHANGED <<RecoverableWorld, acked>>
  BY <1>3, <1>4 DEF ReplayAnswer, disk, RecoverableWorld
<1>5. ASSUME NEW c \in Commands, Answer(c) PROVE Durable!Ack(c)
  <2>1. c \in replies /\ acked' = acked \cup {c} /\ UNCHANGED <<file, snap>>
    BY <1>5 DEF Answer, disk
  <2>2. UNCHANGED RecoverableWorld
    BY <2>1 DEF RecoverableWorld
  <2>3. c \in ToSet(RecoverableWorld)
    <3>1. Holds(From(snap, Entries(file)), Promised, read, outbox)
      <4>1. /\ file \in Seq(LineType) /\ Floor \in 0 .. Len(file)
            /\ Covers(file, Floor, snap, Promised, read, outbox)
        BY Basics DEF IInv, TypeInv, SafeInv
      <4> QED BY <4>1, CoversWhole
    <3> QED BY <3>1, <2>1, RecoverableIs DEF Holds, Promised, IInv
  <2> QED BY <2>1, <2>2, <2>3, SameToSet DEF Durable!Ack
<1>6. CASE ReadOutbox \/ Shutdown \/ UNCHANGED vars
  BY <1>6 DEF ReadOutbox, Shutdown, vars, disk, RecoverableWorld
<1>7. ASSUME NEW w \in Writers, TakeSave(w) \/ WriteTmp(w) \/ RenameTmp(w) \/ TruncateJournal(w)
      PROVE  UNCHANGED <<RecoverableWorld, acked>>
  <2>1. CASE TakeSave(w)
    BY <2>1 DEF TakeSave, disk, RecoverableWorld
  <2>2. CASE WriteTmp(w)
    BY <2>2 DEF WriteTmp, RecoverableWorld
  <2>3. CASE RenameTmp(w) \/ TruncateJournal(w)
    <3>1. UNCHANGED <<up, world, acked>>
      BY <2>3 DEF RenameTmp, TruncateJournal
    <3>2. up
      BY <2>3 DEF RenameTmp, TruncateJournal, IInv, WriterInv, InFlight
    <3> QED BY <3>1, <3>2, <1>0, LiveHistory
  <2> QED BY <1>7, <2>1, <2>2, <2>3
<1>8. ASSUME Kill PROVE UNCHANGED <<RecoverableWorld, acked>> \/ \E c \in Asked : Durable!Commit(c)
  <2>1. /\ up /\ snap' = snap /\ acked' = acked
        /\ \/ file' = file
           \/ \E c \in Asked : MayApply(c) /\ file' = AppendLine(file, Entry(seq + 1, c))
    BY <1>0, <1>8 DEF Kill, ForgetMemory, PartialAppend, Asked
  <2>2. CASE file' = file
    BY <2>1, <2>2 DEF RecoverableWorld
  <2>3. CASE \E c \in Asked : MayApply(c) /\ file' = AppendLine(file, Entry(seq + 1, c))
    <3>1. PICK c \in Asked : MayApply(c) /\ file' = AppendLine(file, Entry(seq + 1, c))
      BY <2>3
    <3> DEFINE e == Entry(seq + 1, c)
               es == Entries(file)
    <3>2. /\ e \in EntryType /\ e.cmd = c /\ snap.seq < e.seq /\ e.seq \in Nat
          /\ snap \in SaveType /\ snap.seq \in Nat
          /\ file \in Seq(LineType) /\ es \in Seq(EntryType) /\ Ascending(es)
      <4>1. /\ snap \in Bases /\ snap \in SaveType /\ snap.seq \in Nat
            /\ file \in Seq(LineType) /\ es \in Seq(EntryType) /\ Ascending(es)
        BY Basics DEF IInv, TypeInv, NumInv
      <4>2. e \in EntryType /\ e.cmd = c /\ snap.seq < e.seq
        BY <2>1, <4>1, NextEntry DEF IInv
      <4> QED BY <4>1, <4>2 DEF EntryType
    <3> HIDE DEF e
    <3>3. Entries(file') = Append(es, e)
      BY <3>1, <3>2, AppendLineIs DEF e
    <3> HIDE DEF es
    <3>4. From(snap, Append(es, e)) = More(From(snap, es), e)
      <4>1. e.seq > snap.seq
        BY <3>2
      <4> QED BY <3>2, <4>1, FromMore
    <3>5. RecoverableWorld' = Append(RecoverableWorld, c)
      <4>1. RecoverableWorld' = More(From(snap, es), e).world
        BY <2>1, <3>3, <3>4, NextHistory DEF IInv
      <4>2. RecoverableWorld = From(snap, es).world
        BY RecoverableIs DEF IInv, es
      <4> QED BY <4>1, <4>2, <3>2 DEF More
    <3>6. Durable!Commit(c)
      BY <2>1, <3>1, <3>5, MayCommit
    <3> QED BY <3>6
  <2> QED BY <2>1, <2>2, <2>3
<1>9. ASSUME PowerLoss PROVE Durable!Lose
  <2>1. /\ snap' = snap /\ acked' = acked
        /\ \E n \in synced .. Len(file) : file' = SubSeq(file, 1, n)
    BY <1>0, <1>9 DEF PowerLoss, ForgetMemory
  <2>2. PICK n \in synced .. Len(file) : file' = SubSeq(file, 1, n)
    BY <2>1
  <2>3. /\ snap \in SaveType /\ file \in Seq(LineType)
        /\ Entries(file) \in Seq(EntryType) /\ Ascending(Entries(file))
        /\ Len(Entries(file)) = Len(file) /\ n \in 0 .. Len(file)
    <3>1. synced \in Nat /\ Len(file) \in Nat
      BY Basics DEF IInv
    <3> QED BY <3>1, Basics DEF IInv, TypeInv, NumInv
  <2>4. Entries(file') = SubSeq(Entries(file), 1, n)
    BY <2>2, <2>3, PrefixLines
  <2>5. PICK k \in 0 .. Len(From(snap, Entries(file)).world) :
          From(snap, SubSeq(Entries(file), 1, n)).world = SubSeq(From(snap, Entries(file)).world, 1, k)
    BY <2>3, WorldPrefix
  <2>6. RecoverableWorld' = SubSeq(RecoverableWorld, 1, k) /\ k \in 0 .. Len(RecoverableWorld)
    BY <2>1, <2>4, <2>5, NextHistory, RecoverableIs DEF IInv
  <2>7. acked \subseteq ToSet(RecoverableWorld')
    <3>1. /\ file' \in Seq(LineType) /\ Floor' \in 0 .. Len(file')
          /\ Covers(file', Floor', snap', Promised', read', outbox')
      <4>1. file' \in Seq(LineType) /\ synced' \in 0 .. Len(file')
        BY DEF IInv, TypeInv
      <4>2. Floor' \in 0 .. Len(file')
        BY <4>1 DEF Floor
      <4> QED BY <4>1, <4>2 DEF IInv, SafeInv, Bases
    <3>2. Holds(From(snap', Entries(file')), Promised', read', outbox')
      BY <3>1, CoversWhole
    <3> QED BY <3>2, <2>1, NextHistory DEF Holds, Promised, IInv
  <2> QED BY <2>1, <2>6, <2>7, SameToSet DEF Durable!Lose
<1>10. ASSUME Start PROVE UNCHANGED <<RecoverableWorld, acked>>
  <2>1. UNCHANGED <<file, snap, acked>>
    <3>1. snap # None
      BY SaveIs DEF IInv, TypeInv
    <3> QED BY <3>1, <1>10 DEF Start
  <2> QED BY <2>1 DEF RecoverableWorld
<1> QED BY <1>1, <1>2, <1>4, <1>5, <1>6, <1>7, <1>8, <1>9, <1>10 DEF Next, Durable!Next, Asked

\* The journal implements the durable log (DurableLog.tla), at every
\* step of saves, truncations, crashes and restarts.
THEOREM JournalIsDurable ==
  ASSUME Covered, NoRefusedAppends, Remembers
  PROVE  Spec => ImplementsDurableLog
<1>1. Init => IInv /\ KeyInv
  BY InitInv, InitKeys
<1>2. IInv /\ KeyInv /\ [Next]_vars => IInv' /\ KeyInv'
  BY StepInv, KeyStep
<1>3. Init => Durable!Init
  <2> SUFFICES ASSUME Init PROVE Durable!Init
    OBVIOUS
  <2>1. IInv /\ KeyInv /\ up /\ world = <<>> /\ acked = {}
    BY <1>1 DEF Init
  <2>2. RecoverableWorld = world
    BY <2>1, LiveHistory DEF KeyInv
  <2> QED BY <2>1, <2>2 DEF Durable!Init
<1>4. IInv /\ KeyInv /\ IInv' /\ KeyInv' /\ [Next]_vars => [Durable!Next]_<<RecoverableWorld, acked>>
  BY StepRefines
<1> QED BY <1>1, <1>2, <1>3, <1>4, PTL DEF Spec, ImplementsDurableLog, Durable!Spec

-----------------------------------------------------------------------------
(* No key runs twice *)

\* No two commands of one key.
Once(cmds) ==
  \A i, j \in 1 .. Len(cmds) :
    i # j /\ cmds[i] # Step /\ cmds[j] # Step
      => KeyOf[cmds[i]] = NoKey \/ KeyOf[cmds[i]] # KeyOf[cmds[j]]

OnceInv == Once(RecoverableWorld) /\ (~up => world = <<>>)

\* What a restart would read is a sequence of commands.
LEMMA HistoryType ==
  ASSUME IInv
  PROVE  RecoverableWorld \in Seq(Asked)
<1>1. /\ snap \in SaveType /\ Entries(file) \in Seq(EntryType) /\ Ascending(Entries(file))
  BY Basics DEF IInv, TypeInv, NumInv
<1>2. From(snap, Entries(file)) \in SaveType
  BY <1>1, FromType
<1> QED BY <1>2, SaveIs, RecoverableIs DEF IInv

\* A command whose key is new is one that has not run.
LEMMA OnceMore ==
  ASSUME NEW s \in Seq(Asked), Once(s), NEW c \in Asked,
         c # Step => KeyOf[c] = NoKey \/ \A d \in ToSet(s) : d # Step => KeyOf[d] # KeyOf[c]
  PROVE  Once(Append(s, c))
<1> DEFINE t == Append(s, c)
           len == Len(s)
<1>1. /\ t \in Seq(Asked) /\ Len(t) = len + 1 /\ len \in Nat
      /\ \A i \in 1 .. len : t[i] = s[i]
      /\ t[len + 1] = c
      /\ \A i \in 1 .. len + 1 : i \in 1 .. len \/ i = len + 1
  BY MoreIs
<1>2. \A i \in 1 .. len : s[i] \in ToSet(s)
  BY SetOf
<1> HIDE DEF t
<1>3. ASSUME NEW i \in 1 .. len + 1, NEW j \in 1 .. len + 1, i # j, t[i] # Step, t[j] # Step
      PROVE  KeyOf[t[i]] = NoKey \/ KeyOf[t[i]] # KeyOf[t[j]]
  <2>1. CASE i \in 1 .. len /\ j \in 1 .. len
    BY <2>1, <1>1, <1>3 DEF Once
  <2>2. CASE i \in 1 .. len /\ j = len + 1
    BY <2>2, <1>1, <1>2, <1>3
  <2>3. CASE i = len + 1 /\ j \in 1 .. len
    BY <2>3, <1>1, <1>2, <1>3
  <2> QED BY <2>1, <2>2, <2>3, <1>1, <1>3
<1>4. Once(t)
  BY <1>1, <1>3 DEF Once
<1> QED BY <1>4 DEF t

\* What is left of a history that ran nothing twice.
LEMMA OnceLess ==
  ASSUME NEW s \in Seq(Asked), Once(s), NEW n \in 0 .. Len(s)
  PROVE  Once(SubSeq(s, 1, n))
<1>1. /\ Len(SubSeq(s, 1, n)) = n /\ \A i \in 1 .. n : SubSeq(s, 1, n)[i] = s[i]
  BY PrefixIs
<1>2. \A i \in 1 .. n : i \in 1 .. Len(s)
  OBVIOUS
<1> QED BY <1>1, <1>2 DEF Once

\* The durable log commits no key twice.
LEMMA OnceStep ==
  ASSUME IInv, OnceInv, [Next]_vars, [Durable!Next]_<<RecoverableWorld, acked>>
  PROVE  OnceInv'
<1>1. RecoverableWorld \in Seq(Asked) /\ Once(RecoverableWorld)
  BY HistoryType DEF OnceInv
<1>2. ASSUME NEW c \in Asked, Durable!Commit(c) PROVE Once(RecoverableWorld')
  <2>1. /\ RecoverableWorld' = Append(RecoverableWorld, c)
        /\ c # Step => KeyOf[c] = NoKey \/ \A d \in ToSet(RecoverableWorld) : d # Step => KeyOf[d] # KeyOf[c]
    BY <1>2, SameToSet DEF Durable!Commit, Durable!Used
  <2> QED BY <2>1, <1>1, OnceMore
<1>3. ASSUME NEW c \in Commands, Durable!Ack(c) PROVE Once(RecoverableWorld')
  BY <1>1, <1>3 DEF Durable!Ack
<1>4. ASSUME Durable!Lose PROVE Once(RecoverableWorld')
  <2>1. \E n \in 0 .. Len(RecoverableWorld) : RecoverableWorld' = SubSeq(RecoverableWorld, 1, n)
    BY <1>4 DEF Durable!Lose
  <2> QED BY <2>1, <1>1, OnceLess
<1>5. Once(RecoverableWorld')
  BY <1>1, <1>2, <1>3, <1>4 DEF Durable!Next, Asked
<1>6. ~up' => world' = <<>>
  <2>1. ASSUME NEW c \in Commands \cup {Step}, RunCommand(c) \/ RunCommandFails(c)
        PROVE  up'
    BY <2>1 DEF RunCommand, RunCommandFails, MayApply
  <2>2. ASSUME NEW c \in Commands, ReplayAnswer(c) \/ Answer(c) PROVE UNCHANGED <<up, world>>
    BY <2>2 DEF ReplayAnswer, Answer
  <2>3. CASE ReadOutbox \/ Shutdown \/ UNCHANGED vars
    BY <2>3 DEF ReadOutbox, Shutdown, vars, memory, OnceInv
  <2>4. ASSUME NEW w \in Writers, TakeSave(w) \/ WriteTmp(w) \/ RenameTmp(w) \/ TruncateJournal(w)
        PROVE  UNCHANGED <<up, world>>
    BY <2>4 DEF TakeSave, WriteTmp, RenameTmp, TruncateJournal
  <2>5. CASE Kill \/ PowerLoss
    BY <2>5 DEF Kill, PowerLoss, ForgetMemory
  <2>6. CASE Start
    BY <2>6 DEF Start
  <2> QED BY <2>1, <2>2, <2>3, <2>4, <2>5, <2>6 DEF Next, OnceInv
<1> QED BY <1>5, <1>6 DEF OnceInv

\* Two applications of one idempotency key never stand in one history,
\* over retries, lost responses, snapshots between the two, and
\* restarts.
THEOREM NothingRunsTwice ==
  ASSUME Covered, NoRefusedAppends, Remembers
  PROVE  Spec => []AppliedOnce
<1>1. Init => IInv /\ KeyInv
  BY InitInv, InitKeys
<1>2. IInv /\ KeyInv /\ [Next]_vars => IInv' /\ KeyInv'
  BY StepInv, KeyStep
<1>3. Init => OnceInv
  <2> SUFFICES ASSUME Init PROVE OnceInv
    OBVIOUS
  <2>1. IInv /\ KeyInv /\ up /\ world = <<>>
    BY <1>1 DEF Init
  <2>2. RecoverableWorld = <<>>
    BY <2>1, LiveHistory DEF KeyInv
  <2> QED BY <2>1, <2>2 DEF OnceInv, Once
<1>4. IInv /\ KeyInv /\ IInv' /\ KeyInv' /\ OnceInv /\ [Next]_vars => OnceInv'
  BY StepRefines, OnceStep
<1>5. IInv /\ KeyInv /\ OnceInv => AppliedOnce
  <2> SUFFICES ASSUME IInv, KeyInv, OnceInv PROVE AppliedOnce
    OBVIOUS
  <2>1. Once(world)
    <3>1. CASE up
      BY <3>1, LiveHistory DEF OnceInv, KeyInv
    <3>2. CASE ~up
      <4>1. Len(<<>>) = 0
        OBVIOUS
      <4> QED BY <3>2, <4>1 DEF OnceInv, Once
    <3> QED BY <3>1, <3>2
  <2>2. DOMAIN world = 1 .. Len(world)
    BY Basics DEF IInv
  <2> QED BY <2>1, <2>2 DEF AppliedOnce, Once
<1> QED BY <1>1, <1>2, <1>3, <1>4, <1>5, PTL DEF Spec
=============================================================================
