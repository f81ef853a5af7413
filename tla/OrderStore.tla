----------------------------- MODULE OrderStore -----------------------------
(***************************************************************************)
(* What the order store promises to the services above it, whichever       *)
(* database the shop is deployed with (order.repository.ts): each of       *)
(* placeOrder, failPayment and confirmPayment is one indivisible step that *)
(* either does all of its work or none of it.                              *)
(*                                                                         *)
(* The catalogue shares the stock with the orders and is written behind    *)
(* the store's back by the admin, so its writes are here too, as loosely   *)
(* as the article repository allows: any quantity, at any time.            *)
(*                                                                         *)
(* RedisShop and PostgresShop are shown to implement this specification.   *)
(***************************************************************************)
EXTENDS ShopTypes

VARIABLES
    stock,      \* pieces on the shelf; its domain is the articles there are
    orders      \* the order of each id, or NoOrder

vars == <<stock, orders>>

Init ==
    /\ stock \in UNION {[S -> Quantity] : S \in SUBSET Article}
    /\ orders = [o \in OrderId |-> NoOrder]

-----------------------------------------------------------------------------

\* Bug: the existence of the article is checked and the quantity is not.
AvailableUnchecked(items) == \A i \in DOMAIN items : items[i].articleId \in DOMAIN stock

\* Every line can be served from the shelf.
Available(items) ==
    \A i \in DOMAIN items : /\ items[i].articleId \in DOMAIN stock
                            /\ stock[items[i].articleId] >= items[i].quantity

\* Takes every line off the shelf, or is not possible: the check and the
\* decrement are one step.
Reserve(items) ==
    /\ Available(items)
    /\ stock' = [a \in DOMAIN stock |-> stock[a] - Pieces(items, a)]

\* Writes the order under a fresh id and reserves every line's stock.
PlaceOrder(o, draft) ==
    /\ orders[o] = NoOrder
    /\ orders' = [orders EXCEPT ![o] = Pending(draft)]
    /\ Reserve(draft.items)

\* Bug: the status changes and the pieces stay held.
FailPaymentKeepingStock(o) ==
    /\ orders[o].status = "PENDING"
    /\ orders' = [orders EXCEPT ![o].status = "FAILED"]
    /\ UNCHANGED stock

\* Moves a PENDING order to FAILED and puts its pieces back, except those of
\* articles deleted meanwhile.
FailPayment(o) ==
    /\ orders[o].status = "PENDING"
    /\ stock' = [a \in DOMAIN stock |-> stock[a] + Pieces(orders[o].items, a)]
    /\ orders' = [orders EXCEPT ![o].status = "FAILED"]

\* Bug: no claim on the hash is checked.
HashFreeUnchecked(h) == h # Null

\* The order that a transaction hash has settled keeps it for itself.
HashFree(h) == \A p \in OrderId : orders[p].status = "PAID" => orders[p].transactionHash # h

\* Bug: the store trusts the caller to have checked the status.
ConfirmPaymentUnguarded(o, h) ==
    /\ orders[o].status \in {"PENDING", "FAILED"}
    /\ HashFree(h)
    /\ orders' = [orders EXCEPT ![o].status = "PAID", ![o].transactionHash = h]
    /\ UNCHANGED stock

\* Moves a PENDING order to PAID and records the transaction that paid it.
ConfirmPayment(o, h) ==
    /\ orders[o].status = "PENDING"
    /\ HashFree(h)
    /\ orders' = [orders EXCEPT ![o].status = "PAID", ![o].transactionHash = h]
    /\ UNCHANGED stock

\* Bug: deleting an article deletes the orders that hold it half-way.
DeleteArticleWithOrders(a) ==
    /\ stock' = [x \in DOMAIN stock \ {a} |-> stock[x]]
    /\ orders' = [o \in OrderId |->
                    IF orders[o].status = "PENDING" /\ Pieces(orders[o].items, a) > 0
                    THEN [orders[o] EXCEPT !.status = "CANCELLED"]
                    ELSE orders[o]]

\* The admin creates an article or sets how many pieces of it there are.
SaveArticle(a, quantity) ==
    /\ stock' = [x \in DOMAIN stock \cup {a} |-> IF x = a THEN quantity ELSE stock[x]]
    /\ UNCHANGED orders

DeleteArticle(a) ==
    /\ stock' = [x \in DOMAIN stock \ {a} |-> stock[x]]
    /\ UNCHANGED orders

Next ==
    \/ \E o \in OrderId :
          \/ \E draft \in OrderDraft : PlaceOrder(o, draft)
          \/ FailPayment(o)
          \/ \E h \in Hash : ConfirmPayment(o, h)
    \/ \E a \in Article :
          \/ \E quantity \in Quantity : SaveArticle(a, quantity)
          \/ DeleteArticle(a)

Spec == Init /\ [][Next]_vars

-----------------------------------------------------------------------------

\* Types: the stock is a whole number of pieces of each article there is, and
\* each id has an order of the declared shape or none.
TypeOK ==
    /\ DOMAIN stock \subseteq Article
    /\ stock \in [DOMAIN stock -> Int]
    /\ orders \in [OrderId -> Order \cup {NoOrder}]

\* The shop never sells a piece it does not have: no sequence of checkouts,
\* releases and catalogue writes takes an article below zero.
StockNeverNegative == \A a \in DOMAIN stock : stock[a] >= 0

\* One transfer settles one order: two paid orders never carry the same
\* transaction hash, and only a paid order carries one at all.
OneHashOneOrder ==
    \A o, p \in OrderId :
        /\ orders[o].status \in {"PENDING", "FAILED"} => orders[o].transactionHash = Null
        /\ orders[o].status = "PAID" =>
              /\ orders[o].transactionHash # Null
              /\ orders[p].status = "PAID" /\ p # o =>
                    orders[p].transactionHash # orders[o].transactionHash

\* Every change of an order moves exactly the pieces it accounts for: what the
\* order takes comes off the shelf, what it gives back goes on it, once, and no
\* other article and no other order is touched by the same step.
PiecesFollowOrders ==
    [][\A o \in OrderId :
          orders'[o] # orders[o] =>
              /\ DOMAIN stock' = DOMAIN stock
              /\ \A a \in DOMAIN stock :
                    stock'[a] + Taken(orders'[o], a) = stock[a] + Taken(orders[o], a)
              /\ \A p \in OrderId \ {o} : orders'[p] = orders[p]]_vars

\* Paid and failed are final, and until then only the status and the hash of an
\* order ever change: who bought what, for how much, payable to which address
\* is what checkout wrote.
OrdersSettleOnce ==
    [][\A o \in OrderId :
          /\ orders[o].status \in {"PAID", "FAILED"} => orders'[o] = orders[o]
          /\ orders[o].status = "PENDING" =>
                /\ orders'[o].status \in OrderStatus
                /\ Terms(orders'[o]) = Terms(orders[o])]_vars
=============================================================================
