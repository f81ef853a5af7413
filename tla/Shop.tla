-------------------------------- MODULE Shop --------------------------------
(***************************************************************************)
(* What both deployments of the shop have: articles and orders in a        *)
(* database, and what is promised of them whichever database it is.        *)
(* RedisShop and PostgresShop extend this module with the steps that their *)
(* database executes.                                                      *)
(***************************************************************************)
EXTENDS ShopServices, FiniteSetsExt

CONSTANT Shelf      \* pieces an article may have on the shelf: Nat, or a bound

ASSUME ShopAssumption == Shelf \subseteq Nat

VARIABLES
    article,    \* the articles there are, by id
    minted,     \* article ids given out so far (randomUUID never repeats)
    order       \* the order of each id, or NoOrder

shopVars == <<req, wallet, receipt, article, minted, order>>

\* A number that is not there reads as 0.
ReadNumber(value) == IF value = Null THEN 0 ELSE value

\* An article as findById and findByIds return it.
ReadArticle(a) == [price       |-> ReadNumber(article[a].price),
                   description |-> article[a].description,
                   quantity    |-> ReadNumber(article[a].quantity)]

\* Bug: the order only has to exist.
Exists(o) == order[o] # NoOrder

\* The guard of both payment results.
AwaitsPayment(o) == order[o].status = "PENDING"

\* Bug: a failed order is written down as cancelled.
OrderCancelled(o) == [order EXCEPT ![o].status = "CANCELLED"]

\* What the two results write into an order.
OrderFailed(o)  == [order EXCEPT ![o].status = "FAILED"]
OrderPaid(o, h) == [order EXCEPT ![o].status = "PAID", ![o].transactionHash = h]

\* What lines cost at the prices copied onto them.
PriceOf(items) ==
    SumFunction([i \in DOMAIN items |-> items[i].unitPrice * items[i].quantity])

\* Whatever a basket adds up to is an amount of money.
ASSUME MoneyAssumption == \A items \in {<<>>} \cup LinesOf(OrderItem) : PriceOf(items) \in Money

-----------------------------------------------------------------------------
(* Steps that only read. *)

\* confirmPayment reads the order.
FindOrder(r) ==
    /\ req[r].pc = "find"
    /\ Goto(r, AfterFind(req[r], order[req[r].order]))
    /\ UNCHANGED <<wallet, receipt, article, minted, order>>

\* The stores read the order they have changed, to return it.
RereadOrder(r) ==
    /\ req[r].pc = "reread"
    /\ Goto(r, AfterReread(req[r], order[req[r].order]))
    /\ UNCHANGED <<wallet, receipt, article, minted, order>>

\* update reads the article, and merges the request into what it has read.
ReadForUpdate(r) ==
    /\ req[r].pc = "update"
    /\ LET a == req[r].article
       IN  Goto(r, IF a \in DOMAIN article
                   THEN [pc |-> "save", article |-> a, patch |-> req[r].patch,
                         data |-> Merge(ReadArticle(a), req[r].patch)]
                   ELSE Answer(404))
    /\ UNCHANGED <<wallet, receipt, article, minted, order>>

-----------------------------------------------------------------------------

\* Any articles, no order yet.
ShopInit ==
    /\ ServicesInit
    /\ \E S \in SUBSET Article :
          /\ article \in [S -> NewArticle]
          /\ minted = S
    /\ order = [o \in OrderId |-> NoOrder]

\* Bound: a request that will need a fresh id only arrives while there is one
\* for it and for every other such request in progress.
AtWork(pcs) == Cardinality({r \in Request : req[r].pc \in pcs})

IdsLeft ==
    /\ AtWork({"lookup", "place", "resend", "reserve"})'
          <= Cardinality({o \in OrderId : order[o] = NoOrder})
    /\ AtWork({"create"})' <= Cardinality(Article \ minted)

\* Clients, the admin, the chain and the machines.
Environment ==
    /\ \/ \E r \in Request : Receive(r) /\ IdsLeft
       \/ \E r \in Request : Crash(r)
       \/ \E t \in Tx : Mine(t)
       \/ Reconfigure
    /\ UNCHANGED <<article, minted, order>>

ShopTypeOK ==
    /\ ServicesTypeOK
    /\ DOMAIN article \subseteq minted /\ minted \subseteq Article
    /\ article \in [DOMAIN article -> ArticleData]
    /\ order \in [OrderId -> Order \cup {NoOrder}]

-----------------------------------------------------------------------------
(* Properties. *)

\* The contract of the stores, seen through the database.
Store == INSTANCE OrderStore WITH
            stock    <- [a \in DOMAIN article |-> ReadArticle(a).quantity],
            orders   <- order,
            Quantity <- Shelf

\* The deployment implements the order store: seen from outside its scripts or
\* transactions, every step of every interleaving is one indivisible operation
\* of the contract or none.
ImplementsOrderStore == Store!Spec

\* No article is ever oversold.
NeverOversold == Store!StockNeverNegative

\* One transaction hash is on one order at most, and on a paid one.
HashesSettleOnce == Store!OneHashOneOrder

\* A settled order never changes, and until then only its status and hash do.
OrdersSettleOnce == Store!OrdersSettleOnce

\* The pieces of an article that all orders together keep off the shelf.
TakenInAll(a) == SumFunction([o \in OrderId |-> Taken(order[o], a)])

\* The admin's write reaches the catalogue: no order and no other request moves.
CatalogueWrite ==
    /\ order' = order
    /\ \E r \in Request :
          /\ req[r].pc \in {"create", "recreate", "save", "write", "insert", "remove"}
          /\ \A s \in Request \ {r} : req'[s] = req[s]

\* Pieces are neither made nor lost: unless the admin writes, no step of any
\* request changes what an article has on the shelf and in orders together,
\* nor which articles there are.
PiecesConserved ==
    [][CatalogueWrite \/
          /\ DOMAIN article' = DOMAIN article
          /\ \A a \in DOMAIN article :
                ReadArticle(a).quantity' + TakenInAll(a)' = ReadArticle(a).quantity + TakenInAll(a)]_shopVars

\* No step of a request makes pieces, also where some are lost: pieces whose
\* article comes back after the release has passed it over (PostgreSQL), or that
\* a script takes again when it runs again (Redis).  (The first disjunct follows
\* from the last; it spares TLC the sums.)
PiecesNeverMade ==
    [][\/ UNCHANGED <<article, order>>
       \/ CatalogueWrite
       \/ /\ DOMAIN article' = DOMAIN article
          /\ \A a \in DOMAIN article :
                ReadArticle(a).quantity' + TakenInAll(a)' <= ReadArticle(a).quantity + TakenInAll(a)]_shopVars

\* A paid order really was paid: the transaction on it went through on the
\* chain, to the address copied onto the order at checkout, for at least what
\* its lines cost, whatever the admin did to the wallet and to the catalogue
\* between any two steps of the checkout and of the payment.
PaidIsPaid ==
    \A o \in OrderId : order[o].status = "PAID" =>
        LET t == TxOf[order[o].transactionHash]
        IN  /\ receipt[t] = "settled"
            /\ TxTo[t] = order[o].walletAddress
            /\ TxValue[t] >= PriceOf(order[o].items)

\* The answers to payment results are true and stay true: a customer told that
\* the order is paid by a transaction, or an integration told that the stock is
\* released, is never contradicted by the store later.
AnswersStayTrue ==
    \A r \in Request :
        /\ req[r].pc = "confirmed" =>
              /\ order[req[r].order].status = "PAID"
              /\ order[req[r].order].transactionHash = req[r].hash
        /\ req[r].pc = "released" => order[req[r].order].status = "FAILED"

\* Only the customer who placed an order pays it, and by a request that the
\* chain has vouched for.
OnlyTheBuyerPays ==
    [][\A o \in OrderId :
          order[o].status = "PENDING" /\ order'[o].status = "PAID" =>
              \E r \in Request :
                  /\ req[r].pc = "settle" /\ req[r].order = o
                  /\ req[r].hash = order'[o].transactionHash
                  /\ req[r].buyer = order[o].buyerId
                  /\ Valid(order'[o].transactionHash, order[o].walletAddress,
                           order[o].total)]_shopVars

\* Every request ends: no interleaving leaves one waiting for another.
EveryRequestEnds == \A r \in Request : ~Free(r) ~> Free(r)

-----------------------------------------------------------------------------
(* What documentation and comments say of the program, and the code does   *)
(* not do.                                                                 *)

\* order.repository.ts: one transfer cannot settle two baskets.
OneTransferOneOrder ==
    \A o, p \in OrderId :
        /\ order[o].status = "PAID" /\ order[p].status = "PAID"
        /\ TxOf[order[o].transactionHash] = TxOf[order[p].transactionHash]
        => o = p

\* order.repository.ts: placeOrder reserves every line's stock and writes the
\* order, or does neither.
ReservesOnce == PiecesConserved

=============================================================================
