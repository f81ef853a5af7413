------------------------------ MODULE RedisShop ------------------------------
(***************************************************************************)
(* The shop deployed with `database: redis`: the services above one Redis  *)
(* server, at the granularity of what the server executes without          *)
(* interleaving other clients' commands: a command, a MULTI/EXEC block or  *)
(* a Lua script.                                                           *)
(*                                                                         *)
(* Keys that hold nothing do not exist: the article hashes are a function  *)
(* on the ids that have one, an order hash that does not exist reads as    *)
(* NoOrder, a claim key that is not set as Null.                           *)
(***************************************************************************)
EXTENDS Shop

CONSTANT Resends    \* does the client re-send a command whose reply was lost?

ASSUME RedisAssumption == Resends \in BOOLEAN /\ Null \notin OrderId

\* article holds the article:<id> hashes and order the order:<id> hashes.
VARIABLES
    articleIndex,   \* sorted set of article ids
    orderIndex,     \* sorted set of order ids
    buyerIndex,     \* one sorted set of order ids for each buyer
    claim           \* payment:<hash> keys: the order a hash has settled

indexVars   == <<articleIndex, orderIndex, buyerIndex, claim>>
articleVars == <<article, articleIndex, minted>>
orderVars   == <<order, orderIndex, buyerIndex, claim>>
envVars     == <<wallet, receipt>>
vars        == <<shopVars, indexVars>>

\* The reply to a command arrives; or the connection drops before it does, and the
\* client keeps the command, to send it again as often as it takes.
Replied(r, next, again) == Goto(r, next) \/ (Resends /\ Goto(r, again))

-----------------------------------------------------------------------------
(* The catalogue: RedisArticleRepository. *)

\* HSET of the fields of an article.  hashFields leaves a null field out, so
\* what the hash already has in it stays.
HSetArticle(a, data) ==
    LET old == IF a \in DOMAIN article THEN article[a] ELSE [f \in DOMAIN data |-> Null]
        new == [f \in DOMAIN data |-> IF data[f] = Null THEN old[f] ELSE data[f]]
    IN  [x \in DOMAIN article \cup {a} |-> IF x = a THEN new ELSE article[x]]

\* HINCRBY of the quantity of every article, by its change.  A field that is
\* not there counts as 0.
HIncrArticles(change) ==
    [a \in DOMAIN article |->
        IF change[a] = 0 THEN article[a]
        ELSE [article[a] EXCEPT !.quantity = ReadNumber(@) + change[a]]]

\* save of a new article: MULTI HSET, ZADD under a fresh id.
CreateArticle(r) ==
    /\ req[r].pc = "create"
    /\ \E a \in Article \ minted :
          /\ article' = HSetArticle(a, req[r].data)
          /\ articleIndex' = articleIndex \cup {a}
          /\ minted' = minted \cup {a}
          /\ Replied(r, Answer(201), [pc |-> "recreate", article |-> a, data |-> req[r].data])
    /\ UNCHANGED <<envVars, orderVars>>

\* The block runs again, with the id and the fields it had.
ResendCreateArticle(r) ==
    /\ req[r].pc = "recreate"
    /\ article' = HSetArticle(req[r].article, req[r].data)
    /\ articleIndex' = articleIndex \cup {req[r].article}
    /\ Replied(r, Answer(201), req[r])
    /\ UNCHANGED <<envVars, minted, orderVars>>

\* save of an article that has an id: HSET alone, whatever is there by now.
SaveArticle(r) ==
    /\ req[r].pc = "save"
    /\ article' = HSetArticle(req[r].article, req[r].data)
    /\ Replied(r, Answer(200), req[r])
    /\ UNCHANGED <<envVars, articleIndex, minted, orderVars>>

\* Bug: the id is left in the index.
RemoveArticleKeepingIndex(r) ==
    /\ req[r].pc = "remove"
    /\ LET a == req[r].article
       IN  /\ article' = [x \in DOMAIN article \ {a} |-> article[x]]
           /\ Goto(r, Answer(IF a \in DOMAIN article THEN 204 ELSE 404))
    /\ UNCHANGED <<envVars, articleIndex, minted, orderVars>>

\* deleteById: MULTI DEL, ZREM; the count of DEL decides the answer.
RemoveArticle(r) ==
    /\ req[r].pc = "remove"
    /\ LET a == req[r].article
       IN  /\ article' = [x \in DOMAIN article \ {a} |-> article[x]]
           /\ articleIndex' = articleIndex \ {a}
           /\ Replied(r, Answer(IF a \in DOMAIN article THEN 204 ELSE 404), req[r])
    /\ UNCHANGED <<envVars, minted, orderVars>>

-----------------------------------------------------------------------------
(* Checkout: findByIds, then PLACE_ORDER. *)

\* Bug: a missing article is read again until it is there.
LookUpRetrying(r) ==
    /\ req[r].pc = "lookup"
    /\ Distinct(req[r].basket)
    /\ LET a == NextLine(req[r]).articleId
       IN  a \in DOMAIN article /\ Goto(r, Priced(req[r], ReadArticle(a).price))
    /\ UNCHANGED <<envVars, articleVars, orderVars>>

\* findByIds is a pipeline of HGETALLs, and other clients' commands run between
\* them.  A missing article is a 404 once all are read.
LookUp(r) ==
    /\ req[r].pc = "lookup"
    /\ Distinct(req[r].basket)
    /\ LET a == NextLine(req[r]).articleId
       IN  Goto(r, IF a \in DOMAIN article THEN Priced(req[r], ReadArticle(a).price)
                                           ELSE Answer(404))
    /\ UNCHANGED <<envVars, articleVars, orderVars>>

\* Bug: one piece too many is sold.
ShortOffByOne(line) ==
    \/ line.articleId \notin DOMAIN article
    \/ article[line.articleId].quantity = Null
    \/ article[line.articleId].quantity + 1 < line.quantity

\* Bug: an article that is gone does not stop the order.
ShortOnlyIfListed(line) ==
    /\ line.articleId \in DOMAIN article
    /\ article[line.articleId].quantity < line.quantity

\* A line that stops the order: the article is gone, or has too few pieces.
Short(line) ==
    \/ line.articleId \notin DOMAIN article
    \/ article[line.articleId].quantity = Null
    \/ article[line.articleId].quantity < line.quantity

\* HSET of the fields of a new order.  On the hash of an order that is already
\* there it would leave the fields it does not name.
HSetOrder(old, draft) ==
    IF old = NoOrder THEN Pending(draft)
    ELSE [Pending(draft) EXCEPT !.transactionHash = old.transactionHash]

\* ZADD of a new order to its buyer's listing.
ListedFor(buyer, id) == [buyerIndex EXCEPT ![buyer] = @ \cup {id}]

\* Bug: the lines before the first short one are taken before it is seen.
PLACE_ORDER_OnePass(id, draft) ==
    LET short == {i \in DOMAIN draft.items : Short(draft.items[i])}
        taken == SelectSeq(draft.items, LAMBDA line : ~Short(line))
    IN  IF short # {}
        THEN /\ article' = HIncrArticles([a \in Article |-> -Pieces(taken, a)])
             /\ UNCHANGED <<order, orderIndex, buyerIndex>>
        ELSE /\ article' = HIncrArticles([a \in Article |-> -Pieces(draft.items, a)])
             /\ order' = [order EXCEPT ![id] = HSetOrder(@, draft)]
             /\ orderIndex' = orderIndex \cup {id}
             /\ buyerIndex' = ListedFor(draft.buyerId, id)

\* The script that places the order: every line is checked before any is taken.
PLACE_ORDER(id, draft) ==
    IF \E i \in DOMAIN draft.items : Short(draft.items[i])
    THEN UNCHANGED <<article, order, orderIndex, buyerIndex>>
    ELSE /\ article' = HIncrArticles([a \in Article |-> -Pieces(draft.items, a)])
         /\ order' = [order EXCEPT ![id] = HSetOrder(@, draft)]
         /\ orderIndex' = orderIndex \cup {id}
         /\ buyerIndex' = ListedFor(draft.buyerId, id)

\* The answer: created, or the first line that is short.
PlaceAnswer(draft) ==
    LET short == {i \in DOMAIN draft.items : Short(draft.items[i])}
    IN  IF short = {} THEN Answer(201)
        ELSE [pc |-> "soldout", article |-> draft.items[Min(short)].articleId]

\* A request whose script may run again: its arguments are all it is.
ResendAt == [pc : {"resend"}, id : OrderId, draft : OrderDraft]

\* Ids no order has and no request is about to use.
FreshId ==
    {o \in OrderId : order[o] = NoOrder /\ \A r \in Request :
                        req[r].pc = "resend" => req[r].id # o}

\* placeOrder: the wallet address is read and the order gets its id; then the
\* script runs.
PlaceOrder(r) ==
    /\ req[r].pc = "place"
    /\ \E id \in FreshId :
          LET draft == DraftOf(req[r])
          IN  /\ PLACE_ORDER(id, draft)
              /\ Replied(r, PlaceAnswer(draft), [pc |-> "resend", id |-> id, draft |-> draft])
    /\ UNCHANGED <<envVars, articleIndex, minted, claim>>

\* Reconnected: the same command with the same arguments runs again.
ResendPlaceOrder(r) ==
    /\ req[r].pc = "resend"
    /\ PLACE_ORDER(req[r].id, req[r].draft)
    /\ Replied(r, PlaceAnswer(req[r].draft), req[r])
    /\ UNCHANGED <<envVars, articleIndex, minted, claim>>

-----------------------------------------------------------------------------
(* Payment results: findById, CONFIRM_PAYMENT and FAIL_PAYMENT. *)

\* The claim key is taken with SET NX; it may be this order's already.
CanClaim(o, h) == claim[h] \in {Null, o}

\* Bug: the claim is taken before the status is checked.
CONFIRM_PAYMENT_ClaimFirst(o, h) ==
    /\ claim' = [claim EXCEPT ![h] = IF CanClaim(o, h) /\ order[o] # NoOrder THEN o ELSE @]
    /\ order' = IF AwaitsPayment(o) /\ CanClaim(o, h)
                THEN OrderPaid(o, h)
                ELSE order

\* The script that confirms a payment.
CONFIRM_PAYMENT(o, h) ==
    IF AwaitsPayment(o) /\ CanClaim(o, h)
    THEN /\ claim' = [claim EXCEPT ![h] = o]
         /\ order' = OrderPaid(o, h)
    ELSE UNCHANGED <<claim, order>>

ConfirmRefusal(o) ==
    IF order[o] = NoOrder THEN "not-found"
    ELSE IF order[o].status # "PENDING" THEN "not-pending" ELSE "hash-used"

ConfirmPayment(r) ==
    /\ req[r].pc = "settle"
    /\ LET o == req[r].order
           h == req[r].hash
       IN  /\ CONFIRM_PAYMENT(o, h)
           /\ Replied(r, IF AwaitsPayment(o) /\ CanClaim(o, h)
                         THEN [pc |-> "reread", order |-> o, hash |-> h]
                         ELSE Refusal(ConfirmRefusal(o)), req[r])
    /\ UNCHANGED <<envVars, articleVars, orderIndex, buyerIndex>>

\* Bug: HINCRBY without EXISTS brings a deleted article back.
FAIL_PAYMENT_NoExists(o) ==
    IF AwaitsPayment(o)
    THEN /\ order' = OrderFailed(o)
         /\ article' = [a \in DOMAIN article \cup
                            {order[o].items[i].articleId : i \in DOMAIN order[o].items} |->
                IF a \in DOMAIN article
                THEN [article[a] EXCEPT !.quantity =
                                    ReadNumber(@) + Pieces(order[o].items, a)]
                ELSE [price |-> Null, description |-> Null,
                      quantity |-> Pieces(order[o].items, a)]]
    ELSE UNCHANGED <<order, article>>

\* The script that fails a payment: pieces of articles that no longer exist are
\* not put back.
FAIL_PAYMENT(o) ==
    IF AwaitsPayment(o)
    THEN /\ order' = OrderFailed(o)
         /\ article' = HIncrArticles([a \in Article |-> Pieces(order[o].items, a)])
    ELSE UNCHANGED <<order, article>>

FailRefusal(o) == IF order[o] = NoOrder THEN "not-found" ELSE "not-pending"

FailPayment(r) ==
    /\ req[r].pc = "release"
    /\ LET o == req[r].order
       IN  /\ FAIL_PAYMENT(o)
           /\ Replied(r, IF AwaitsPayment(o)
                         THEN [pc |-> "reread", order |-> o, hash |-> Null]
                         ELSE Refusal(FailRefusal(o)), req[r])
    /\ UNCHANGED <<envVars, articleIndex, minted, orderIndex, buyerIndex, claim>>

-----------------------------------------------------------------------------

Init ==
    /\ ShopInit
    /\ articleIndex = DOMAIN article
    /\ orderIndex = {}
    /\ buyerIndex = [b \in Buyer |-> {}]
    /\ claim = [h \in Hash |-> Null]

\* What the shop's processes do of their own accord.
ServerStep(r) ==
    \/ ServiceStep(r) /\ UNCHANGED <<articleVars, orderVars>>
    \/ CreateArticle(r)
    \/ ReadForUpdate(r) /\ UNCHANGED indexVars
    \/ ResendCreateArticle(r)
    \/ SaveArticle(r)
    \/ RemoveArticle(r)
    \/ LookUp(r)
    \/ PlaceOrder(r)
    \/ ResendPlaceOrder(r)
    \/ FindOrder(r) /\ UNCHANGED indexVars
    \/ ConfirmPayment(r)
    \/ FailPayment(r)
    \/ RereadOrder(r) /\ UNCHANGED indexVars

Next ==
    \/ \E r \in Request : ServerStep(r)
    \/ Environment /\ UNCHANGED indexVars

Spec == Init /\ [][Next]_vars

\* The event loop and Redis keep running: a request that is not lost to a crash
\* gets its next step.  Nothing is promised of clients, the admin or the chain.
FairSpec == Spec /\ \A r \in Request : WF_vars(ServerStep(r))

-----------------------------------------------------------------------------
(* Properties. *)

\* Types of the requests, the chain and every key.
TypeOK ==
    /\ ShopTypeOK
    /\ req \in [Request -> RequestState \cup ResendAt]
    /\ articleIndex \subseteq minted
    /\ orderIndex \subseteq OrderId
    /\ buyerIndex \in [Buyer -> SUBSET OrderId]
    /\ claim \in [Hash -> OrderId \cup {Null}]

\* The indexes agree with the hashes after every command: every listed article
\* exists, and an order is in the shop's listing and in that of its buyer, and
\* in no other, from the moment it exists.
IndexesAgree ==
    /\ articleIndex \subseteq DOMAIN article
    /\ orderIndex = {o \in OrderId : order[o] # NoOrder}
    /\ \A b \in Buyer : buyerIndex[b] = {o \in orderIndex : order[o].buyerId = b}

\* A claim key is on a hash exactly when the order it names was paid by it: no
\* claim is taken and then abandoned, and no order is paid without one.
ClaimsMatchOrders ==
    \A h \in Hash, o \in OrderId :
        claim[h] = o <=> order[o].status = "PAID" /\ order[o].transactionHash = h

-----------------------------------------------------------------------------
(* What a comment says of the program, and the code does not do. *)

\* update-article.dto.ts: an absent field means "leave it as it is".
PatchLeavesStock ==
    [][\A r \in Request :
          /\ req[r].pc = "save" /\ req'[r].pc = "answered"
          /\ req[r].patch.quantity = Absent
          /\ req[r].article \in DOMAIN article
          => article'[req[r].article].quantity = article[req[r].article].quantity]_vars

=============================================================================
