-------------------------------- MODULE Book --------------------------------
(***************************************************************************)
(* The price-time book of crates/fehu/src/book.rs, as operators on a book  *)
(* value [orders, next_id, next_seq].  `orders` is the set of everything   *)
(* that rests: a level's queue is its orders by `seq`, which the code      *)
(* keeps equal to their places in the level's VecDeque.                    *)
(***************************************************************************)
EXTENDS Integers, Sequences, FiniteSets, FiniteSetsExt, SequencesExt

CONSTANTS
    Traders,            \* the traders who may own orders
    MAX_PRICE_CENTS,
    MAX_ORDER_QTY,
    TICK_CENTS,         \* MarketRules: the price grid ...
    LOT                 \* ... and the lot

ASSUME BookAssumption ==
    /\ {MAX_PRICE_CENTS, MAX_ORDER_QTY, TICK_CENTS, LOT} \subseteq Nat \ {0}
    /\ "Synthetic" \notin Traders

Side  == {"Buy", "Sell"}
Owner == Traders \cup {"Synthetic"}
Opposite(side) == IF side = "Buy" THEN "Sell" ELSE "Buy"

NoLimit   == 0          \* Option::None where a limit price is optional
NoDisplay == 0          \* and where a display quantity is

RestingType == [id : Nat, owner : Owner, side : Side, price : Nat, qty : Nat,
                remaining : Nat, hidden : Nat, display : Nat, seq : Nat]

EmptyBook == [orders |-> {}, next_id |-> 1, next_seq |-> 1]

Outstanding(o) == o.remaining + o.hidden

OrdersOf(book, owner) == {o \in book.orders : o.owner = owner}

AllowsPrice(price) == price % TICK_CENTS = 0
AllowsQty(qty)     == qty % LOT = 0

\* What every order must satisfy, whoever sends it.
Validate(order) ==
    /\ order.qty \in 1 .. MAX_ORDER_QTY
    /\ AllowsQty(order.qty)
    /\ order.kind = "Limit" => /\ order.price \in 1 .. MAX_PRICE_CENTS
                               /\ AllowsPrice(order.price)

ValidDisplay(order, display) ==
    /\ display \in 1 .. order.qty
    /\ AllowsQty(display)
    /\ order.tif = "Gtc" /\ order.kind = "Limit"

-----------------------------------------------------------------------------
(* Matching *)

Crosses(side, price, limit) ==
    \/ limit = NoLimit
    \/ IF side = "Buy" THEN price <= limit ELSE price >= limit

\* What a `side` order with `limit` may trade with.
Makers(orders, side, limit) ==
    {o \in orders : o.side = Opposite(side) /\ Crosses(side, o.price, limit)}

\* Price, then time.
Ahead(o, p) ==
    \/ o.price # p.price /\ (o.side = "Sell" <=> o.price < p.price)
    \/ o.price = p.price /\ o.seq < p.seq

First(S) == CHOOSE o \in S : \A p \in S \ {o} : Ahead(o, p)

\* What is left of a maker that has just traded q of what it shows: an
\* iceberg shows its next slice and goes to the back of its queue for it.
Kept(o, q, seq) ==
    IF q < o.remaining THEN {[o EXCEPT !.remaining = @ - q]}
    ELSE IF o.hidden = 0 THEN {}
    ELSE LET slice == Min({o.hidden, Max({o.display, 1})})
         IN  {[o EXCEPT !.remaining = slice, !.hidden = @ - slice, !.seq = seq]}

Refreshes(o, q) == q = o.remaining /\ o.hidden > 0

\* The incoming order trades with o, the best of what it may trade with.
TradeWith(m, taker, o) ==
    LET q == Min({m.left, o.remaining})
    IN  [orders |-> (m.orders \ {o}) \cup Kept(o, q, m.seq),
         seq    |-> IF Refreshes(o, q) THEN m.seq + 1 ELSE m.seq,
         left   |-> m.left - q,
         trades |-> Append(m.trades,
                      [price |-> o.price, qty |-> q, side |-> taker.side,
                       taker |-> taker.owner, taker_order |-> taker.id,
                       maker |-> o.owner, maker_order |-> o.id])]

\* One pass of the loop of match_incoming, on the state the loop carries.
MatchFirst(m, taker, limit) ==
    LET makers == Makers(m.orders, taker.side, limit) IN
    IF m.left = 0 \/ makers = {} THEN m ELSE TradeWith(m, taker, First(makers))

\* Every pass trades at least one unit, so qty passes are enough.
MatchIncoming(orders, seq, taker, limit, qty) ==
    FoldLeft(LAMBDA m, i : MatchFirst(m, taker, limit),
             [orders |-> orders, seq |-> seq, left |-> qty, trades |-> <<>>],
             [i \in 1 .. qty |-> i])

\* What the order would execute against what the book shows.
Preview(book, side, qty, limit) ==
    MatchIncoming({[o EXCEPT !.hidden = 0] : o \in book.orders}, book.next_seq,
                  [side |-> side, owner |-> "Synthetic", id |-> 0], limit, qty)

Notional(trades) ==
    FoldLeft(LAMBDA cents, t : cents + t.price * t.qty, 0, trades)

Available(book, side, limit) ==
    MapThenSumSet(LAMBDA o : o.remaining, Makers(book.orders, side, limit))

-----------------------------------------------------------------------------
(* Operations *)

Placement(book, id, trades, remaining, status) ==
    [book |-> book, id |-> id, trades |-> trades, remaining |-> remaining,
     status |-> status]

LimitOf(order) == IF order.kind = "Market" THEN NoLimit ELSE order.price

\* What rests of an order after the match m: an iceberg shows one slice.
Remainder(id, order, display, m) ==
    LET shown == IF display = NoDisplay THEN m.left ELSE Min({display, m.left})
    IN  [id |-> id, owner |-> order.owner, side |-> order.side,
         price |-> order.price, qty |-> order.qty, remaining |-> shown,
         hidden |-> m.left - shown, display |-> display, seq |-> m.seq]

\* Rest or drop what the match m left of the order.
Settle(id, order, display, m) ==
    LET after(orders, seq) ==
            [orders |-> orders, next_id |-> id + 1, next_seq |-> seq]
    IN  IF m.left > 0 /\ order.kind = "Limit" /\ order.tif = "Gtc"
        THEN Placement(after(m.orders \cup {Remainder(id, order, display, m)},
                             m.seq + 1), id, m.trades, m.left, "Resting")
        ELSE Placement(after(m.orders, m.seq), id, m.trades, m.left,
                       IF m.left = 0 THEN "Filled" ELSE "Cancelled")

\* Match, then rest or drop what is left.  `order` has been validated.
SubmitToBook(book, order, display) ==
    IF order.tif = "Fok" /\ Available(book, order.side, LimitOf(order)) < order.qty
    THEN Placement([book EXCEPT !.next_id = @ + 1], book.next_id, <<>>, order.qty,
                   "Cancelled")
    ELSE Settle(book.next_id, order, display,
           MatchIncoming(book.orders, book.next_seq,
             [side |-> order.side, owner |-> order.owner, id |-> book.next_id],
             LimitOf(order), order.qty))

\* Cancel one order, or every order of an owner: `gone` is a set of orders.
Withdraw(book, gone) == [book EXCEPT !.orders = @ \ gone]

AdvanceOrderId(book, minimum) == [book EXCEPT !.next_id = Max({@, minimum})]

-----------------------------------------------------------------------------
(* What validate_state asks of a book read back from a save *)

Uncrossed(book) ==
    \A bid, ask \in book.orders :
        bid.side = "Buy" /\ ask.side = "Sell" => bid.price < ask.price

QueuesValid(book) ==
    /\ \A o, p \in book.orders : o # p => o.id # p.id /\ o.seq # p.seq
    /\ \A o \in book.orders :
         /\ o.remaining > 0 /\ Outstanding(o) <= o.qty
         /\ o.id < book.next_id /\ o.seq < book.next_seq
         /\ IF o.display = NoDisplay THEN o.hidden = 0 ELSE o.remaining <= o.display
=============================================================================
