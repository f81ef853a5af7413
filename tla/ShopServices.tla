---------------------------- MODULE ShopServices ----------------------------
(***************************************************************************)
(* The services of the shop: OrdersService (checkout, confirmPayment,      *)
(* markPaymentFailed) and ArticlesService (create, update, remove).        *)
(*                                                                         *)
(* A service keeps nothing between requests.  Everything it knows about a  *)
(* request in progress is the local state of one async function, kept here *)
(* as req[r]: a record whose pc names the await the function is at and     *)
(* whose other fields are the locals that are still used after it.  Any    *)
(* number of requests are in progress at once, in one process or in many   *)
(* replicas; between two awaits nothing else runs, so that stretch is one  *)
(* step.                                                                   *)
(*                                                                         *)
(* This module holds what is independent of the database: the arrival of   *)
(* requests, what a service does with the answer of a store (the operators *)
(* After...), the configured wallet and the blockchain.  RedisShop adds    *)
(* the steps that execute in a database.                                   *)
(***************************************************************************)
EXTENDS ShopTypes, FiniteSets

CONSTANTS
    Request,        \* slots for requests in progress: bounds the concurrency
    Kinds,          \* bound: the kinds of request that clients send
    Description,    \* descriptions an article may have
    Patches,        \* bound: the PATCH bodies the admin sends
    Tx,             \* transactions on the chain
    TxOf,           \* the transaction that a spelling of a hash denotes
    TxTo,           \* the shop address a transaction pays; Null for any other
    TxValue,        \* the amount it pays
    Absent          \* undefined: a field the PATCH body does not mention

\* An article as a service holds it, its name left out.
ArticleData == [price       : UnitPrice \cup {Null},
                description : Description \cup {Null},
                quantity    : Int \cup {Null}]

\* A new article as the admin enters it.
NewArticle == [price       : Price,
               description : Description \cup {Null},
               quantity    : Quantity]

\* A PATCH body: every field is optional, and an optional field may be null.
Patch == [price       : Price \cup {Null, Absent},
          description : Description \cup {Null, Absent},
          quantity    : Quantity \cup {Null, Absent}]

ASSUME ServicesAssumption ==
    /\ Kinds \subseteq {"checkout", "confirm", "release", "create", "update", "remove"}
    /\ Patches \subseteq Patch
    /\ TxOf \in [Hash -> Tx]
    /\ TxTo \in [Tx -> Wallet \cup {Null}]
    /\ TxValue \in [Tx -> Nat]
    /\ Null \notin Description \cup Int
    /\ Absent \notin Description \cup Int \cup {Null}

VARIABLES
    req,        \* the local state of each request
    wallet,     \* the configured WALLET_ADDRESS, or Null
    receipt     \* what the chain says of each transaction

-----------------------------------------------------------------------------
(* The points a request can be at. *)

CheckoutAt == [pc : {"lookup"}, buyer : Buyer, basket : Basket,
               items : {<<>>} \cup LinesOf(OrderItem), total : Money]
PlaceAt    == [pc : {"place"}, buyer : Buyer, items : Items, total : Money]
FindAt     == [pc : {"find"}, order : OrderId, buyer : Buyer, hash : Hash]
VerifyAt   == [pc : {"verify"}, order : OrderId, buyer : Buyer, hash : Hash,
               walletAddress : Wallet, total : Money]
SettleAt   == [pc : {"settle"}, order : OrderId, buyer : Buyer, hash : Hash]
ReleaseAt  == [pc : {"release"}, order : OrderId]
RereadAt   == [pc : {"reread"}, order : OrderId, hash : Hash \cup {Null}]
CreateAt   == [pc : {"create"}, data : NewArticle]
RecreateAt == [pc : {"recreate"}, article : Article, data : NewArticle]
UpdateAt   == [pc : {"update"}, article : Article, patch : Patch]
SaveAt     == [pc : {"save"}, article : Article, patch : Patch, data : ArticleData]
RemoveAt   == [pc : {"remove"}, article : Article]

\* Answers, and no request at all.  The answers to a payment result name what
\* they are about; of the others only the HTTP status is kept.
Answered  == [pc : {"answered"}, status : {200, 201, 204, 400, 404, 409, 500}]
SoldOut   == [pc : {"soldout"}, article : Article]
Rejected  == [pc : {"rejected"}, order : OrderId]
Confirmed == [pc : {"confirmed"}, order : OrderId, hash : Hash]
Released  == [pc : {"released"}, order : OrderId]
Idle      == [pc |-> "idle"]

Over == {Idle} \cup Answered \cup SoldOut \cup Rejected \cup Confirmed \cup Released

RequestState ==
    CheckoutAt \cup PlaceAt \cup FindAt \cup VerifyAt \cup SettleAt
    \cup ReleaseAt \cup RereadAt \cup CreateAt \cup RecreateAt \cup UpdateAt \cup SaveAt
    \cup RemoveAt \cup Over

\* Nothing of the request is left to do.
Free(r) == req[r].pc \in {"idle", "answered", "soldout", "rejected", "confirmed", "released"}

Answer(status) == [pc |-> "answered", status |-> status]

Goto(r, next) == req' = [req EXCEPT ![r] = next]

-----------------------------------------------------------------------------
(* Requests arrive.  The buyer is the authenticated user; an order id in a *)
(* request is whatever the client says, so it need not exist.              *)

ReceiveCheckout(r) ==
    /\ "checkout" \in Kinds /\ Free(r)
    /\ \E buyer \in Buyer, basket \in Basket :
          Goto(r, [pc |-> "lookup", buyer |-> buyer, basket |-> basket,
                   items |-> <<>>, total |-> 0])

ReceiveConfirm(r) ==
    /\ "confirm" \in Kinds /\ Free(r)
    /\ \E o \in OrderId, buyer \in Buyer, h \in Hash :
          Goto(r, [pc |-> "find", order |-> o, buyer |-> buyer, hash |-> h])

\* markPaymentFailed has no route: its caller is the payment integration.
ReceiveRelease(r) ==
    /\ "release" \in Kinds /\ Free(r)
    /\ \E o \in OrderId : Goto(r, [pc |-> "release", order |-> o])

ReceiveCreate(r) ==
    /\ "create" \in Kinds /\ Free(r)
    /\ \E data \in NewArticle : Goto(r, [pc |-> "create", data |-> data])

ReceiveUpdate(r) ==
    /\ "update" \in Kinds /\ Free(r)
    /\ \E a \in Article, patch \in Patches :
          Goto(r, [pc |-> "update", article |-> a, patch |-> patch])

ReceiveRemove(r) ==
    /\ "remove" \in Kinds /\ Free(r)
    /\ \E a \in Article : Goto(r, [pc |-> "remove", article |-> a])

Receive(r) ==
    /\ \/ ReceiveCheckout(r)
       \/ ReceiveConfirm(r)
       \/ ReceiveRelease(r)
       \/ ReceiveCreate(r)
       \/ ReceiveUpdate(r)
       \/ ReceiveRemove(r)
    /\ UNCHANGED <<wallet, receipt>>

\* The process that serves the request dies, or its connection to the client
\* or the database does for good: the rest of the function never runs.
Crash(r) ==
    /\ ~Free(r)
    /\ Goto(r, Idle)
    /\ UNCHANGED <<wallet, receipt>>

-----------------------------------------------------------------------------
(* What the services do with the answers of the store. *)

\* checkout: an article asked for twice is a bad request.
RejectDuplicates(r) ==
    /\ req[r].pc = "lookup"
    /\ ~Distinct(req[r].basket)
    /\ Goto(r, Answer(400))
    /\ UNCHANGED <<wallet, receipt>>

\* checkout: the line whose article is read next.
NextLine(q) == q.basket[Len(q.items) + 1]

\* checkout: the next line is priced.  The total is in cents, where toMoney's
\* rounding of the float sum lands on the exact sum.
Priced(q, price) ==
    LET line  == NextLine(q)
        items == Append(q.items, [articleId |-> line.articleId,
                                  unitPrice |-> price,
                                  quantity  |-> line.quantity])
        total == q.total + price * line.quantity
    IN  IF Len(items) = Len(q.basket)
        THEN [pc |-> "place", buyer |-> q.buyer, items |-> items, total |-> total]
        ELSE [q EXCEPT !.items = items, !.total = total]

\* checkout: what is handed to the store.
DraftOf(q) == [buyerId |-> q.buyer, items |-> q.items, total |-> q.total,
               walletAddress |-> wallet]

\* Bug: any customer may pay any order.
MayPayAny(q, found) == found # NoOrder \/ q.buyer \notin Buyer

\* confirmPayment: an order of another buyer is as good as none.
MayPay(q, found) == found # NoOrder /\ found.buyerId = q.buyer

\* Bug: the address is read again when the order is paid.
PayableToConfigured(found) == IF found = NoOrder THEN Null ELSE wallet

\* The address that was copied onto the order at checkout.
PayableTo(found) == found.walletAddress

\* confirmPayment: the order was read, and is checked before the chain is.
AfterFind(q, found) ==
    IF ~MayPay(q, found) THEN Answer(404)
    ELSE IF found.status # "PENDING" \/ found.walletAddress = Null THEN Answer(409)
    ELSE [pc |-> "verify", order |-> q.order, buyer |-> q.buyer, hash |-> q.hash,
          walletAddress |-> PayableTo(found), total |-> found.total]

\* confirmPayment and markPaymentFailed: the store has refused.
Refusal(reason) == IF reason = "not-found" THEN Answer(404) ELSE Answer(409)

\* Both re-read the order they have just changed to return it.
AfterReread(q, found) ==
    IF found = NoOrder THEN Answer(404)
    ELSE IF q.hash = Null THEN [pc |-> "released", order |-> q.order]
    ELSE [pc |-> "confirmed", order |-> q.order, hash |-> q.hash]

\* update: only the fields of the body that are not undefined are assigned.
Merge(data, patch) ==
    [f \in DOMAIN data |-> IF patch[f] = Absent THEN data[f] ELSE patch[f]]

-----------------------------------------------------------------------------
(* The verifier, as confirmPayment sees it: one answer, given at the       *)
(* moment of the last question it asks the chain.  "open" is every state   *)
(* in which the answer is still to come: unknown, not mined, too few       *)
(* confirmations.                                                          *)

\* Bug: any transfer to the shop will do, whatever its amount.
ValidWhateverAmount(h, walletAddress, total) ==
    /\ receipt[TxOf[h]] = "settled"
    /\ TxTo[TxOf[h]] = walletAddress
    /\ total \in Money

Valid(h, walletAddress, total) ==
    /\ receipt[TxOf[h]] = "settled"
    /\ TxTo[TxOf[h]] = walletAddress
    /\ TxValue[TxOf[h]] >= total

VerifyAccepts(r) ==
    /\ req[r].pc = "verify"
    /\ Valid(req[r].hash, req[r].walletAddress, req[r].total)
    /\ Goto(r, [pc |-> "settle", order |-> req[r].order, buyer |-> req[r].buyer,
                hash |-> req[r].hash])
    /\ UNCHANGED <<wallet, receipt>>

VerifyRejects(r) ==
    /\ req[r].pc = "verify"
    /\ ~Valid(req[r].hash, req[r].walletAddress, req[r].total)
    /\ Goto(r, [pc |-> "rejected", order |-> req[r].order])
    /\ UNCHANGED <<wallet, receipt>>

\* The node does not answer in time, or answers with an error.
ChainUnavailable(r) ==
    /\ req[r].pc = "verify"
    /\ Goto(r, Answer(500))
    /\ UNCHANGED <<wallet, receipt>>

ServiceStep(r) ==
    \/ RejectDuplicates(r)
    \/ VerifyAccepts(r)
    \/ VerifyRejects(r)
    \/ ChainUnavailable(r)

\* The chain settles a transaction, one way or the other, for good.
Mine(t) ==
    /\ receipt[t] = "open"
    /\ \E outcome \in {"settled", "reverted"} : receipt' = [receipt EXCEPT ![t] = outcome]
    /\ UNCHANGED <<req, wallet>>

\* The shop is redeployed with another WALLET_ADDRESS, replica by replica:
\* requests in progress go on.
Reconfigure ==
    /\ \E w \in (Wallet \cup {Null}) \ {wallet} : wallet' = w
    /\ UNCHANGED <<req, receipt>>

ServicesInit ==
    /\ req = [r \in Request |-> Idle]
    /\ wallet \in Wallet \cup {Null}
    /\ receipt = [t \in Tx |-> "open"]

ServicesTypeOK ==
    /\ wallet \in Wallet \cup {Null}
    /\ receipt \in [Tx -> {"open", "settled", "reverted"}]
=============================================================================
