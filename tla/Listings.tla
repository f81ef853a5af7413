------------------------------ MODULE Listings ------------------------------
(***************************************************************************)
(* Reading the orders page by page: OrdersService.list and listForBuyer    *)
(* over findPage of the two order repositories, beside the order store     *)
(* that places and settles orders meanwhile.                               *)
(*                                                                         *)
(* One client walks through the pages of a listing.  Each page is one      *)
(* request, and no request knows of another; within a request the page and *)
(* its total are read in several commands, in an order that depends on the *)
(* store.  The client is not part of this repository: it stops either at   *)
(* the first page that is not full or at the totalPages of the last one.   *)
(***************************************************************************)
EXTENDS OrderStore, SequencesExt

CONSTANTS
    Limit,      \* the page size of the walk (1..100)
    Filters     \* bound: the listings that are walked

\* A customer lists their own orders; the admin lists all, or those of a status.
Filter == [buyer : Buyer, status : {Null}] \cup [buyer : {Null}, status : OrderStatus \cup {Null}]

ASSUME ListingsAssumption ==
    /\ Limit \in Nat \ {0}
    /\ Filters \subseteq Filter

VARIABLES
    recency,    \* ids of the placed orders by creation time and id, newest first
    walk        \* the client's walk, and the page being read for it

listingVars == <<vars, recency, walk>>

\* The ids that are in the set kept, in the order they come in.  (SelectSeq, with a
\* function that the proofs can reason about.)
Select(ids, kept) ==
    LET prefix[n \in 0..Len(ids)] ==
            IF n = 0 THEN <<>>
            ELSE IF ids[n] \in kept THEN Append(prefix[n - 1], ids[n]) ELSE prefix[n - 1]
    IN  prefix[Len(ids)]

OfBuyer(filter)  == {o \in ToSet(recency) : filter.buyer \in {Null, orders[o].buyerId}}
InStatus(filter) == {o \in ToSet(recency) : filter.status \in {Null, orders[o].status}}

\* The sorted set (Redis) or the rows with that buyer (PostgreSQL).
Index(filter) == Select(recency, OfBuyer(filter))

Matching(filter) == Select(recency, OfBuyer(filter) \cap InStatus(filter))

\* skip is (page - 1) * limit, and take is limit.
PageOf(ids, page) ==
    SubSeq(ids, (page - 1) * Limit + 1, IF page * Limit < Len(ids) THEN page * Limit ELSE Len(ids))

TotalPages(total) == (total + Limit - 1) \div Limit

-----------------------------------------------------------------------------

\* No walk has begun.
NoWalk == [at |-> "none"]

\* The client opens the first page; unseen is what the listing holds by then.
StartWalk ==
    /\ walk.at \in {"none", "done"}
    /\ \E store \in {"redis", "postgres"}, filter \in Filters :
          walk' = [at |-> "page", store |-> store, filter |-> filter, page |-> 1,
                   unseen |-> ToSet(Matching(filter)), ids |-> <<>>, found |-> <<>>, total |-> 0]
    /\ UNCHANGED <<vars, recency>>

\* The page is answered, and the client asks for the next one or stops.
Answer(items, total) ==
    LET unseen == walk.unseen \ ToSet(items)
        short  == Len(items) < Limit
        last   == walk.page >= TotalPages(total)
        Stop(reason) == walk' = [at |-> "done", store |-> walk.store, filter |-> walk.filter,
                                 unseen |-> unseen, stop |-> reason]
    IN  \/ short /\ Stop("short page")
        \/ last /\ Stop("totalPages")
        \/ /\ ~ (short /\ last)
           /\ walk' = [walk EXCEPT !.at = "page", !.page = @ + 1, !.unseen = unseen,
                                   !.ids = <<>>, !.found = <<>>, !.total = 0]

\* Redis, no status: ZCARD, and then ZREVRANGE of the page.  An order in the
\* index has a hash: they are written by one script and never deleted.
CountIndex ==
    /\ walk.at = "page" /\ walk.store = "redis" /\ walk.filter.status = Null
    /\ walk' = [walk EXCEPT !.at = "range", !.total = Len(Index(walk.filter))]
    /\ UNCHANGED <<vars, recency>>

ReadRange ==
    /\ walk.at = "range"
    /\ Answer(PageOf(Index(walk.filter), walk.page), walk.total)
    /\ UNCHANGED <<vars, recency>>

\* Bug: the page is cut before the orders are filtered.
ReadIndexPage ==
    /\ walk.at = "page" /\ walk.store = "redis" /\ walk.filter.status # Null
    /\ walk' = [walk EXCEPT !.at = "load", !.ids = PageOf(Index(walk.filter), walk.page)]
    /\ UNCHANGED <<vars, recency>>

\* Redis, by status: ZREVRANGE of the whole index, and one HGETALL for each
\* order in it; the filter and the cut are made on what these found.
ReadIndex ==
    /\ walk.at = "page" /\ walk.store = "redis" /\ walk.filter.status # Null
    /\ walk' = [walk EXCEPT !.at = "load", !.ids = Index(walk.filter)]
    /\ UNCHANGED <<vars, recency>>

LoadOrder ==
    /\ walk.at = "load" /\ walk.ids # <<>>
    /\ walk' = [walk EXCEPT !.ids = Tail(@),
                            !.found = IF Head(walk.ids) \in InStatus(walk.filter)
                                      THEN Append(@, Head(walk.ids)) ELSE @]
    /\ UNCHANGED <<vars, recency>>

FilterLoaded ==
    /\ walk.at = "load" /\ walk.ids = <<>>
    /\ Answer(PageOf(walk.found, walk.page), Len(walk.found))
    /\ UNCHANGED <<vars, recency>>

\* PostgreSQL: findAndCount, as TypeORM executes it when a relation is joined:
\* it selects the ids of the page, the rows of these ids that still match, and
\* the count.
SelectIds ==
    /\ walk.at = "page" /\ walk.store = "postgres"
    /\ walk' = [walk EXCEPT !.at = "ids", !.ids = PageOf(Matching(walk.filter), walk.page)]
    /\ UNCHANGED <<vars, recency>>

SelectRows ==
    /\ walk.at = "ids"
    /\ walk' = [walk EXCEPT !.at = "rows", !.ids = <<>>,
                            !.found = Select(walk.ids, InStatus(walk.filter))]
    /\ UNCHANGED <<vars, recency>>

CountRows ==
    /\ walk.at = "rows"
    /\ Answer(walk.found, Len(Matching(walk.filter)))
    /\ UNCHANGED <<vars, recency>>

-----------------------------------------------------------------------------

ListingsInit ==
    /\ Init
    /\ recency = <<>>
    /\ walk = NoWalk

\* A new order is filed by the clock of the replica or the start of the
\* transaction that placed it, so it need not be the first in the listing.
Place(o) ==
    /\ \E draft \in OrderDraft : PlaceOrder(o, draft)
    /\ \E k \in 1..(Len(recency) + 1) : recency' = InsertAt(recency, k, o)
    /\ UNCHANGED walk

OtherThanPlace ==
    \/ \E o \in OrderId : FailPayment(o) \/ \E h \in Hash : ConfirmPayment(o, h)
    \/ \E a \in Article : DeleteArticle(a) \/ \E quantity \in Quantity : SaveArticle(a, quantity)

Read ==
    \/ CountIndex \/ ReadRange
    \/ ReadIndex \/ LoadOrder \/ FilterLoaded
    \/ SelectIds \/ SelectRows \/ CountRows

ListingsNext ==
    \/ \E o \in OrderId : Place(o)
    \/ OtherThanPlace /\ UNCHANGED <<recency, walk>>
    \/ StartWalk
    \/ Read

ListingsSpec == ListingsInit /\ [][ListingsNext]_listingVars

-----------------------------------------------------------------------------

\* Walking through the pages shows every order the listing held when the walk
\* began, whatever is placed, paid or failed between two pages or between the
\* reads of one: a page never moves towards the beginning.  Two walks are
\* excepted.  The unpaid orders leave their listing when they are settled, and
\* draw those behind them to an earlier page; and the totalPages of a Redis
\* index is older than its page, so it may fall short of it.
NothingSkipped ==
    walk.at = "done" /\ walk.filter.status # "PENDING"
    /\ ~ (walk.store = "redis" /\ walk.filter.status = Null /\ walk.stop = "totalPages")
        => walk.unseen = {}
=============================================================================
