------------------------------- MODULE Limits -------------------------------
(***************************************************************************)
(* The rate limiter of limit.rs as operators on its state: a token bucket  *)
(* for each credential seen lately and one for everybody else.  A token is *)
(* what one unit of time earns, so a bucket's fraction of a token is left  *)
(* out; a rate of no burst is a limiter switched off.                      *)
(***************************************************************************)
EXTENDS Integers, FiniteSets

CONSTANT MAX_BUCKETS        \* buckets kept before the full ones are swept

ASSUME LimitsAssumption == MAX_BUCKETS \in Nat

NoClient == [kind |-> "None", id |-> 0]    \* a request whose key speaks for nobody

FullBucket(burst, at) == [tokens |-> burst, at |-> at]

NewLimiter(burst) ==
    [clients |-> [c \in {} |-> FullBucket(burst, 0)], anonymous |-> FullBucket(burst, 0)]

\* The time a request read may be older than the bucket's: it earns nothing,
\* and the bucket's time goes back with it.
Refill(b, burst, at) ==
    LET tokens == IF at > b.at THEN b.tokens + at - b.at ELSE b.tokens
    IN  [tokens |-> IF tokens < burst THEN tokens ELSE burst, at |-> at]

\* Mutant of Swept: any bucket goes that could not be emptied by one request.
SweptRich(clients, burst, at) ==
    LET kept == {c \in DOMAIN clients : Refill(clients[c], burst, at).tokens < 1}
    IN  [c \in kept |-> Refill(clients[c], burst, at)]

\* "Only full buckets go: a client mid-burst keeps its place".
Swept(clients, burst, at) ==
    LET kept == {c \in DOMAIN clients : Refill(clients[c], burst, at).tokens < burst}
    IN  [c \in kept |-> Refill(clients[c], burst, at)]

\* The buckets once `who` has one, if there is room for it.
Tracking(clients, burst, who, at) ==
    LET room == IF Cardinality(DOMAIN clients) < MAX_BUCKETS THEN clients
                ELSE Swept(clients, burst, at)
    IN  IF who = NoClient \/ who \in DOMAIN clients THEN clients
        ELSE IF Cardinality(DOMAIN room) < MAX_BUCKETS
        THEN [c \in DOMAIN room \cup {who} |->
                IF c = who THEN FullBucket(burst, at) ELSE room[c]]
        ELSE room

\* The rest of Limiter::take, from the buckets as tracked: the limiter
\* afterwards, whether the request may go on, and whether it spent an
\* allowance of its own.
Take(l, clients, burst, who, at) ==
    LET own   == who \in DOMAIN clients
        b     == Refill(IF own THEN clients[who] ELSE l.anonymous, burst, at)
        spent == IF b.tokens >= 1 THEN [b EXCEPT !.tokens = @ - 1] ELSE b
    IN  IF burst = 0 THEN [limiter |-> l, allowed |-> TRUE, own |-> FALSE]
        ELSE [limiter |-> IF own THEN [l EXCEPT !.clients = [clients EXCEPT ![who] = spent]]
                          ELSE [l EXCEPT !.clients = clients, !.anonymous = spent],
              allowed |-> b.tokens >= 1,
              own |-> own]
=============================================================================
