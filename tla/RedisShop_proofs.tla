--------------------------- MODULE RedisShop_proofs ---------------------------
(***************************************************************************)
(* Proofs about the shop on Redis, for any sets of articles, orders,       *)
(* buyers, hashes, transactions and requests.                              *)
(*                                                                         *)
(* IInv is inductive whether or not the client re-sends scripts: types,    *)
(* prices, indexes, and what each request relies on between two of its     *)
(* commands.  OnceInv holds besides when it does not, and is what makes    *)
(* the shop implement the contract of the stores.                          *)
(***************************************************************************)
EXTENDS RedisShop, Shop_proofs

\* A script that may run again has the arguments of a checkout, and only its own
\* first run can have placed an order under its id.
ResendSound(r) ==
    req[r].pc = "resend" =>
        /\ req[r].draft.total = PriceOf(req[r].draft.items)
        /\ order[req[r].id] # NoOrder => Terms(order[req[r].id]) = Terms(req[r].draft)
        /\ \A s \in Request \ {r} : req[s].pc = "resend" => req[s].id # req[r].id

IInv ==
    /\ TypeOK
    /\ ShopSound
    /\ IndexesAgree
    /\ \A r \in Request : ResendSound(r)

OnceInv ==
    /\ \A r \in Request : req[r].pc # "resend"
    /\ \A r \in Request : RereadSound(r)
    /\ ClaimsMatchOrders
    /\ AnswersStayTrue

-----------------------------------------------------------------------------
(* Requests. *)

LEMMA AtResend ==
    ASSUME NEW q \in RequestState \cup ResendAt
    PROVE  /\ q.pc = "resend" => q \in ResendAt
           /\ q.pc # "resend" => q \in RequestState
BY DEF ResendAt, RequestState, CheckoutAt, PlaceAt, FindAt, VerifyAt, SettleAt, ReleaseAt,
       RereadAt, CreateAt, RecreateAt, UpdateAt, SaveAt, RemoveAt, Over, Answered, SoldOut, Rejected,
       Confirmed, Released, Idle

LEMMA NotResending ==
    ASSUME NEW q \in RequestState
    PROVE  q.pc # "resend"
BY DEF RequestState, CheckoutAt, PlaceAt, FindAt, VerifyAt, SettleAt, ReleaseAt,
       RereadAt, CreateAt, RecreateAt, UpdateAt, SaveAt, RemoveAt, Over, Answered, SoldOut, Rejected,
       Confirmed, Released, Idle

\* A request goes on, and the step brings no order into being under an id that
\* another request may use again.
LEMMA RequestMoves ==
    ASSUME IInv, NEW r \in Request, NEW next, Goto(r, next), SoundMove(r), Kept,
           \A s \in Request \ {r} : req[s].pc = "resend" /\ order[req[s].id] = NoOrder
                                        => order'[req[s].id] = NoOrder
    PROVE  /\ req' \in [Request -> RequestState \cup ResendAt]
           /\ (\A s \in Request : RequestSound(s))'
           /\ (\A s \in Request : ResendSound(s))'
<1>1. /\ req \in [Request -> RequestState \cup ResendAt]
      /\ req'[r] = next /\ next \in RequestState
      /\ \A s \in Request \ {r} : req'[s] = req[s]
  BY GotoRequest DEF IInv, TypeOK, SoundMove
<1>2. req' \in [Request -> RequestState \cup ResendAt]
  BY <1>1, GotoRequest
<1>3. (\A s \in Request : RequestSound(s))'
  <2>1. \A s \in Request : req[s].pc \in Relying => req[s] \in RequestState
    BY <1>1, AtResend DEF Relying
  <2>2. \A s \in Request : RequestSound(s)
    BY DEF IInv, ShopSound
  <2>3. \A s \in Request : req'[s] = req[s] \/ RequestSound(s)'
    BY <1>1 DEF SoundMove
  <2> QED
    BY <2>1, <2>2, <2>3, RequestsStaySound
<1>4. ASSUME NEW s \in Request, req'[s].pc = "resend"
      PROVE  ResendSound(s)'
  <2>1. s # r /\ req'[s] = req[s]
    BY <1>1, <1>4, NotResending
  <2>2. req[s] \in ResendAt
    BY <1>1, <1>4, <2>1, AtResend
  <2>3. req[s].id \in OrderId
    BY <2>2 DEF ResendAt
  <2>4. ResendSound(s)
    BY DEF IInv
  <2>5. order'[req[s].id] # NoOrder => Terms(order'[req[s].id]) = Terms(req[s].draft)
    BY <1>4, <2>1, <2>3, <2>4 DEF ResendSound, Kept, OrdersKept
  <2>6. \A t \in Request \ {s} : req'[t].pc = "resend" => t # r /\ req'[t] = req[t]
    BY <1>1, NotResending
  <2> QED
    BY <1>4, <2>1, <2>4, <2>5, <2>6 DEF ResendSound
<1>5. (\A s \in Request : ResendSound(s))'
  BY <1>4 DEF ResendSound
<1> QED
  BY <1>2, <1>3, <1>5

\* A step that changes nothing but where one request is.
LEMMA OnlyRequestMoves ==
    ASSUME IInv, NEW r \in Request, NEW next, Goto(r, next), SoundMove(r),
           UNCHANGED <<envVars, articleVars, orderVars>>
    PROVE  IInv'
<1>1. order \in [OrderId -> Order \cup {NoOrder}] /\ OrdersSound /\ PaidIsPaid
  BY DEF IInv, TypeOK, ShopTypeOK, ShopSound
<1>2. UNCHANGED <<wallet, receipt, article, articleIndex, minted, order, orderIndex,
                  buyerIndex, claim>>
  BY DEF envVars, articleVars, orderVars
<1>3. OrdersKept /\ OrdersSound' /\ PaidIsPaid'
  BY <1>1, <1>2, OrdersUntouched
<1>4. Kept
  BY <1>2, <1>3 DEF Kept
<1>5. /\ req' \in [Request -> RequestState \cup ResendAt]
      /\ (\A s \in Request : RequestSound(s))'
      /\ (\A s \in Request : ResendSound(s))'
  BY <1>2, <1>4, RequestMoves
<1>6. TypeOK'
  BY <1>2, <1>5 DEF IInv, TypeOK, ShopTypeOK, ServicesTypeOK
<1>7. CatalogueSound' /\ IndexesAgree'
  BY <1>2 DEF IInv, ShopSound, CatalogueSound, IndexesAgree
<1> QED
  BY <1>3, <1>5, <1>6, <1>7 DEF IInv, ShopSound

-----------------------------------------------------------------------------
(* The commands on article hashes. *)

\* hashes is article with the hash of a written, and well formed.
WrittenAt(a, hashes) ==
    /\ hashes \in [DOMAIN article \cup {a} -> ArticleData]
    /\ hashes[a].quantity \in Nat \cup {Null}
    /\ \A x \in DOMAIN article \ {a} : hashes[x] = article[x]

LEMMA HSetArticleType ==
    ASSUME article \in [DOMAIN article -> ArticleData], CatalogueSound,
           NEW a, NEW data \in ArticleData, data.quantity \in Nat \cup {Null}
    PROVE  WrittenAt(a, HSetArticle(a, data))
<1> DEFINE old == IF a \in DOMAIN article THEN article[a] ELSE [f \in DOMAIN data |-> Null]
           new == [f \in DOMAIN data |-> IF data[f] = Null THEN old[f] ELSE data[f]]
<1>1. DOMAIN data = {"price", "description", "quantity"}
  BY DEF ArticleData
<1>2. /\ old.price \in UnitPrice \cup {Null}
      /\ old.description \in Description \cup {Null}
      /\ old.quantity \in Nat \cup {Null}
  BY <1>1 DEF ArticleData, CatalogueSound
<1>3. new = [price |-> new.price, description |-> new.description, quantity |-> new.quantity]
  BY <1>1
<1>4. /\ new.price \in UnitPrice \cup {Null}
      /\ new.description \in Description \cup {Null}
      /\ new.quantity \in Nat \cup {Null}
  BY <1>1, <1>2 DEF ArticleData
<1> HIDE DEF new
<1>5. new \in ArticleData
  BY <1>3, <1>4 DEF ArticleData
<1>6. HSetArticle(a, data) = [x \in DOMAIN article \cup {a} |-> IF x = a THEN new ELSE article[x]]
  BY DEF HSetArticle, new
<1> QED
  BY <1>4, <1>5, <1>6 DEF WrittenAt

\* HINCRBY adds the change to what is read, for every article there is.
LEMMA HIncrArticlesType ==
    ASSUME article \in [DOMAIN article -> ArticleData], CatalogueSound, NEW change,
           \A a \in DOMAIN article : /\ change[a] \in Int
                                     /\ ReadArticle(a).quantity + change[a] >= 0,
           article' = HIncrArticles(change)
    PROVE  /\ DOMAIN article' = DOMAIN article
           /\ article' \in [DOMAIN article -> ArticleData]
           /\ CatalogueSound'
           /\ \A a \in DOMAIN article :
                 ReadArticle(a).quantity' = ReadArticle(a).quantity + change[a]
<1>1. DOMAIN article' = DOMAIN article
  BY DEF HIncrArticles
<1>2. ASSUME NEW a \in DOMAIN article
      PROVE  /\ article'[a] \in ArticleData
             /\ article'[a].quantity \in Nat \cup {Null}
             /\ ReadArticle(a).quantity' = ReadArticle(a).quantity + change[a]
  <2>1. ReadArticle(a).quantity \in Nat /\ ReadArticle(a).quantity = ReadNumber(article[a].quantity)
    BY ReadArticleType DEF ReadArticle
  <2>2. article[a] \in ArticleData /\ article[a].quantity \in Nat \cup {Null}
    BY DEF CatalogueSound
  <2>3. CASE change[a] = 0
    <3>1. article'[a] = article[a]
      BY <2>3 DEF HIncrArticles
    <3>2. ReadArticle(a).quantity' = ReadArticle(a).quantity
      BY <3>1 DEF ReadArticle, ReadNumber
    <3> QED
      BY <2>1, <2>2, <2>3, <3>1, <3>2
  <2>4. CASE change[a] # 0
    <3> DEFINE n == ReadNumber(article[a].quantity) + change[a]
    <3>1. n \in Nat
      BY <2>1
    <3>2. article'[a] = [article[a] EXCEPT !.quantity = n]
      BY <2>4 DEF HIncrArticles
    <3> HIDE DEF n
    <3>3. article'[a] \in ArticleData /\ article'[a].quantity = n
      BY <2>2, <3>1, <3>2 DEF ArticleData
    <3>4. n # Null
      BY <3>1, ServicesAssumption
    <3>5. ReadArticle(a).quantity' = n
      BY <3>3, <3>4 DEF ReadArticle, ReadNumber
    <3> QED
      BY <2>1, <3>1, <3>3, <3>5 DEF n
  <2> QED
    BY <2>3, <2>4
<1>3. article' = [a \in DOMAIN article |-> article'[a]]
  BY DEF HIncrArticles
<1>4. article' \in [DOMAIN article -> ArticleData]
  BY <1>2, <1>3
<1>5. CatalogueSound'
  BY <1>1, <1>2 DEF CatalogueSound
<1> QED
  BY <1>1, <1>2, <1>4, <1>5

-----------------------------------------------------------------------------
(* The script that places an order. *)

\* The first of a basket's lines that are short is one of them.
LEMMA FirstOf ==
    ASSUME NEW S, IsFiniteSet(S), S \subseteq Int, S # {}
    PROVE  Min(S) \in S
<1> DEFINE upto(x) == {y \in S : y <= x}
           B == {upto(x) : x \in S}
<1>1. B \in SUBSET SUBSET S /\ B # {}
  OBVIOUS
<1>2. PICK T \in B : \A U \in SUBSET T : U # T => U \notin B
  <2> HIDE DEF B
  <2> QED
    BY <1>1, SmallestSubset
<1>3. PICK x \in S : T = upto(x)
  OBVIOUS
<1>4. ASSUME NEW y \in S, y < x
      PROVE  FALSE
  <2>0. \A z \in S : z <= y => z <= x
    BY <1>4
  <2>1. upto(y) \in SUBSET T
    BY <1>3, <2>0
  <2>2. x \in T /\ x \notin upto(y)
    BY <1>3, <1>4
  <2>3. upto(y) # T
    BY <2>2
  <2>4. upto(y) \in B
    OBVIOUS
  <2> QED
    BY <1>2, <2>1, <2>3, <2>4
<1>5. \A y \in S : x <= y
  BY <1>4
<1> QED
  BY <1>5 DEF Min

LEMMA PlaceAnswerType ==
    ASSUME NEW draft \in OrderDraft
    PROVE  /\ PlaceAnswer(draft) \in RequestState
           /\ PlaceAnswer(draft).pc \notin Relying
<1> DEFINE short == {i \in DOMAIN draft.items : Short(draft.items[i])}
<1>1. CASE short = {}
  <2>1. PlaceAnswer(draft) = Answer(201)
    BY <1>1 DEF PlaceAnswer
  <2> QED
    BY <2>1, AnswerType DEF Relying
<1>2. CASE short # {}
  <2> DEFINE answer == [pc |-> "soldout", article |-> draft.items[Min(short)].articleId]
  <2>1. draft.items \in LinesOf(OrderItem)
    BY DEF OrderDraft, Items
  <2>2. draft.items \in Seq(OrderItem)
    BY <2>1, LinesLength
  <2>3. DOMAIN draft.items = 1..Len(draft.items) /\ Len(draft.items) \in Nat
    BY <2>2
  <2>4. IsFiniteSet(DOMAIN draft.items)
    BY <2>3, FS_Interval
  <2>5. short \subseteq DOMAIN draft.items /\ short \subseteq Int
    BY <2>3
  <2>6. IsFiniteSet(short)
    BY <2>4, <2>5, FS_Subset
  <2> HIDE DEF short
  <2>7. Min(short) \in short
    BY <1>2, <2>5, <2>6, FirstOf
  <2>8. draft.items[Min(short)] \in OrderItem
    BY <2>2, <2>5, <2>7
  <2>9. PlaceAnswer(draft) = answer
    BY <1>2 DEF PlaceAnswer, short
  <2>10. answer \in SoldOut
    BY <2>8 DEF SoldOut, OrderItem
  <2> QED
    BY <2>9, <2>10 DEF SoldOut, Over, RequestState, Relying
<1> QED
  BY <1>1, <1>2

\* What a script may count on: types, prices and indexes.
Keys ==
    /\ article \in [DOMAIN article -> ArticleData]
    /\ DOMAIN article \subseteq Article
    /\ order \in [OrderId -> Order \cup {NoOrder}]
    /\ buyerIndex \in [Buyer -> SUBSET OrderId]
    /\ CatalogueSound /\ OrdersSound /\ PaidIsPaid
    /\ IndexesAgree

LEMMA InvKeys == IInv => Keys
BY DEF IInv, TypeOK, ShopTypeOK, ShopSound, Keys

\* Lines that are not short can be taken off the shelf.
LEMMA NotShort ==
    ASSUME article \in [DOMAIN article -> ArticleData], CatalogueSound,
           NEW items \in Items, \A i \in DOMAIN items : ~Short(items[i])
    PROVE  /\ \A i \in DOMAIN items :
                  /\ items[i].articleId \in DOMAIN article
                  /\ ReadArticle(items[i].articleId).quantity >= items[i].quantity
           /\ \A a \in DOMAIN article :
                  /\ Pieces(items, a) \in Nat
                  /\ ReadArticle(a).quantity - Pieces(items, a) >= 0
<1>1. ASSUME NEW i \in DOMAIN items
      PROVE  /\ items[i].articleId \in DOMAIN article
             /\ ReadArticle(items[i].articleId).quantity >= items[i].quantity
  <2>1. items[i] \in OrderItem
    BY DEF Items, LinesOf
  <2>2. items[i].quantity \in Nat
    BY <2>1, TypesAssumption DEF OrderItem
  <2>3. /\ items[i].articleId \in DOMAIN article
        /\ article[items[i].articleId].quantity # Null
        /\ ~ (article[items[i].articleId].quantity < items[i].quantity)
    BY DEF Short
  <2>4. article[items[i].articleId].quantity \in Nat
    BY <2>3 DEF CatalogueSound
  <2> QED
    BY <2>2, <2>3, <2>4 DEF ReadArticle, ReadNumber
<1>2. ASSUME NEW a \in DOMAIN article
      PROVE  /\ Pieces(items, a) \in Nat
             /\ ReadArticle(a).quantity - Pieces(items, a) >= 0
  <2>1. ReadArticle(a).quantity \in Nat
    BY ReadArticleType
  <2>2. Pieces(items, a) \in Nat
    BY PiecesOf
  <2>3. Pieces(items, a) <= ReadArticle(a).quantity
    <3>1. CASE Pieces(items, a) = 0
      BY <2>1, <3>1
    <3>2. CASE \E i \in DOMAIN items : /\ items[i].articleId = a
                                       /\ Pieces(items, a) = items[i].quantity
      <4>1. PICK i \in DOMAIN items : /\ items[i].articleId = a
                                      /\ Pieces(items, a) = items[i].quantity
        BY <3>2
      <4>2. ReadArticle(a).quantity >= items[i].quantity
        BY <1>1, <4>1
      <4> QED
        BY <2>1, <2>2, <4>1, <4>2
    <3> QED
      BY PiecesOf, <3>1, <3>2
  <2> QED
    BY <2>1, <2>2, <2>3
<1> QED
  BY <1>1, <1>2

\* The script, when a line is short.
LEMMA PlaceRefused ==
    ASSUME NEW id, NEW draft, PLACE_ORDER(id, draft),
           \E i \in DOMAIN draft.items : Short(draft.items[i])
    PROVE  UNCHANGED <<article, order, orderIndex, buyerIndex>>
BY DEF PLACE_ORDER

\* The script, when no line is: the pieces are taken, the order is there, pending,
\* with the terms of the draft, and listed.
LEMMA PlaceDone ==
    ASSUME Keys, NEW id \in OrderId, NEW draft \in OrderDraft,
           draft.total = PriceOf(draft.items),
           order[id] # NoOrder => Terms(order[id]) = Terms(draft),
           PLACE_ORDER(id, draft), UNCHANGED receipt, UNCHANGED articleIndex,
           \A i \in DOMAIN draft.items : ~Short(draft.items[i])
    PROVE  /\ DOMAIN article' = DOMAIN article
           /\ article' \in [DOMAIN article -> ArticleData]
           /\ CatalogueSound'
           /\ \A a \in DOMAIN article :
                 ReadArticle(a).quantity' = ReadArticle(a).quantity - Pieces(draft.items, a)
           /\ order' \in [OrderId -> Order \cup {NoOrder}]
           /\ OrdersKept /\ OrdersSound' /\ PaidIsPaid'
           /\ order' = [order EXCEPT ![id] = HSetOrder(order[id], draft)]
           /\ Terms(order'[id]) = Terms(draft)
           /\ \A p \in OrderId \ {id} : order'[p] = order[p]
           /\ orderIndex' \subseteq OrderId
           /\ buyerIndex' \in [Buyer -> SUBSET OrderId]
           /\ IndexesAgree'
<1> DEFINE change == [a \in Article |-> -Pieces(draft.items, a)]
           new    == HSetOrder(order[id], draft)
<1>1. /\ article' = HIncrArticles(change)
      /\ order' = [order EXCEPT ![id] = new]
      /\ orderIndex' = orderIndex \cup {id}
      /\ buyerIndex' = ListedFor(draft.buyerId, id)
  BY DEF PLACE_ORDER
<1>2. draft.items \in Items /\ draft.buyerId \in Buyer
  BY DEF OrderDraft
<1>3. \A a \in DOMAIN article : /\ Pieces(draft.items, a) \in Nat
                                /\ ReadArticle(a).quantity \in Nat
                                /\ ReadArticle(a).quantity - Pieces(draft.items, a) >= 0
                                /\ change[a] = -Pieces(draft.items, a)
  BY <1>2, NotShort, ReadArticleType DEF Keys
<1> HIDE DEF change
<1>4. \A a \in DOMAIN article : change[a] \in Int /\ ReadArticle(a).quantity + change[a] >= 0
  BY <1>3
<1>5. /\ DOMAIN article' = DOMAIN article
      /\ article' \in [DOMAIN article -> ArticleData]
      /\ CatalogueSound'
      /\ \A a \in DOMAIN article : ReadArticle(a).quantity' = ReadArticle(a).quantity + change[a]
  BY <1>1, <1>4, HIncrArticlesType DEF Keys
<1>6. \A a \in DOMAIN article :
          ReadArticle(a).quantity' = ReadArticle(a).quantity - Pieces(draft.items, a)
  BY <1>3, <1>5
<1>7. /\ new \in Order /\ new.status = "PENDING" /\ Terms(new) = Terms(draft)
      /\ new.total = draft.total /\ new.items = draft.items /\ new.buyerId = draft.buyerId
  <2>1. /\ Pending(draft) \in Order /\ Pending(draft).status = "PENDING"
        /\ Terms(Pending(draft)) = Terms(draft) /\ Pending(draft).total = draft.total
        /\ Pending(draft).items = draft.items /\ Pending(draft).buyerId = draft.buyerId
    BY DEF OrderDraft, Pending, Order, OrderStatus, Terms
  <2>2. CASE order[id] = NoOrder
    BY <2>1, <2>2 DEF HSetOrder
  <2>3. CASE order[id] # NoOrder
    <3>1. order[id].transactionHash \in Hash \cup {Null}
      BY <2>3 DEF Keys, Order
    <3>2. new = [Pending(draft) EXCEPT !.transactionHash = order[id].transactionHash]
      BY <2>3 DEF HSetOrder
    <3> QED
      BY <2>1, <3>1, <3>2 DEF Order, Terms
  <2> QED
    BY <2>2, <2>3
<1> HIDE DEF new
<1>8. /\ order' \in [OrderId -> Order \cup {NoOrder}]
      /\ OrdersKept /\ OrdersSound' /\ PaidIsPaid'
      /\ order'[id] = new /\ \A p \in OrderId \ {id} : order'[p] = order[p]
  BY <1>1, <1>7, OrderPlaced DEF Keys
<1>9. orderIndex' \subseteq OrderId /\ buyerIndex' \in [Buyer -> SUBSET OrderId]
  BY <1>1, <1>2 DEF Keys, IndexesAgree, ListedFor
<1>10. IndexesAgree'
  <2>1. articleIndex' \subseteq DOMAIN article'
    BY <1>5 DEF Keys, IndexesAgree
  <2>2. orderIndex' = {o \in OrderId : order'[o] # NoOrder}
    <3>1. new # NoOrder
      BY <1>7 DEF NoOrder
    <3> QED
      BY <1>1, <1>8, <3>1 DEF Keys, IndexesAgree
  <2>3. ASSUME NEW b \in Buyer
        PROVE  buyerIndex'[b] = {o \in orderIndex' : order'[o].buyerId = b}
    <3>1. buyerIndex[b] = {o \in orderIndex : order[o].buyerId = b}
      BY DEF Keys, IndexesAgree
    <3>2. id \in orderIndex => order[id].buyerId = draft.buyerId
      BY DEF Keys, IndexesAgree, Terms
    <3>3. orderIndex \subseteq OrderId
      BY DEF Keys, IndexesAgree
    <3>4. CASE b = draft.buyerId
      <4>1. buyerIndex'[b] = buyerIndex[b] \cup {id}
        BY <1>1, <3>4 DEF ListedFor, Keys
      <4> QED
        BY <1>1, <1>7, <1>8, <3>1, <3>3, <3>4, <4>1
    <3>5. CASE b # draft.buyerId
      <4>1. buyerIndex'[b] = buyerIndex[b]
        BY <1>1, <3>5 DEF ListedFor, Keys
      <4> QED
        BY <1>1, <1>7, <1>8, <3>1, <3>2, <3>3, <3>5, <4>1
    <3> QED
      BY <3>4, <3>5
  <2> QED
    BY <2>1, <2>2, <2>3 DEF IndexesAgree
<1> QED
  BY <1>1, <1>5, <1>6, <1>7, <1>8, <1>9, <1>10 DEF new

-----------------------------------------------------------------------------
(* The scripts that settle an order. *)

\* No order is listed or unlisted by a change of its status and hash.
LEMMA IndexesStay ==
    ASSUME IndexesAgree, OrdersKept, UNCHANGED <<articleIndex, orderIndex, buyerIndex>>,
           articleIndex \subseteq DOMAIN article',
           \A o \in OrderId : order[o] = NoOrder => order'[o] = NoOrder
    PROVE  IndexesAgree'
<1>1. orderIndex' = {o \in OrderId : order'[o] # NoOrder}
  BY DEF IndexesAgree, OrdersKept
<1>2. \A b \in Buyer : buyerIndex'[b] = {o \in orderIndex' : order'[o].buyerId = b}
  <2>1. \A o \in orderIndex : o \in OrderId /\ order'[o].buyerId = order[o].buyerId
    BY DEF IndexesAgree, OrdersKept, Terms
  <2> QED
    BY <2>1 DEF IndexesAgree
<1> QED
  BY <1>1, <1>2 DEF IndexesAgree

LEMMA ConfirmDone ==
    ASSUME Keys, NEW o \in OrderId, NEW h \in Hash, CONFIRM_PAYMENT(o, h),
           AwaitsPayment(o), CanClaim(o, h),
           Valid(h, order[o].walletAddress, order[o].total),
           UNCHANGED <<receipt, article, articleIndex, orderIndex, buyerIndex>>
    PROVE  /\ order' \in [OrderId -> Order \cup {NoOrder}]
           /\ OrdersKept /\ OrdersSound' /\ PaidIsPaid' /\ IndexesAgree'
           /\ order[o] \in Order
           /\ order' = OrderPaid(o, h) /\ claim' = [claim EXCEPT ![h] = o]
           /\ order'[o].status = "PAID" /\ order'[o].transactionHash = h
           /\ \A p \in OrderId \ {o} : order'[p] = order[p]
<1>1. order' = OrderPaid(o, h) /\ claim' = [claim EXCEPT ![h] = o]
  BY DEF CONFIRM_PAYMENT
<1>2. /\ order' \in [OrderId -> Order \cup {NoOrder}]
      /\ OrdersKept /\ OrdersSound' /\ PaidIsPaid'
      /\ order[o] \in Order
      /\ order'[o].status = "PAID" /\ order'[o].transactionHash = h
      /\ \A p \in OrderId \ {o} : order'[p] = order[p]
  BY <1>1, OrderIsPaid DEF Keys
<1>3. \A p \in OrderId : order[p] = NoOrder => order'[p] = NoOrder
  BY <1>2 DEF Order, NoOrder
<1>4. IndexesAgree'
  BY <1>2, <1>3, IndexesStay DEF Keys, IndexesAgree
<1> QED
  BY <1>1, <1>2, <1>4

LEMMA FailDone ==
    ASSUME Keys, NEW o \in OrderId, FAIL_PAYMENT(o), AwaitsPayment(o),
           UNCHANGED <<receipt, articleIndex, orderIndex, buyerIndex>>
    PROVE  /\ DOMAIN article' = DOMAIN article
           /\ article' \in [DOMAIN article -> ArticleData]
           /\ CatalogueSound'
           /\ \A a \in DOMAIN article :
                 /\ Pieces(order[o].items, a) \in Nat
                 /\ ReadArticle(a).quantity' = ReadArticle(a).quantity + Pieces(order[o].items, a)
           /\ order' \in [OrderId -> Order \cup {NoOrder}]
           /\ OrdersKept /\ OrdersSound' /\ PaidIsPaid' /\ IndexesAgree'
           /\ order[o] \in Order /\ order' = OrderFailed(o)
           /\ order'[o].status = "FAILED"
           /\ \A p \in OrderId \ {o} : order'[p] = order[p]
<1> DEFINE change == [a \in Article |-> Pieces(order[o].items, a)]
<1>1. order' = OrderFailed(o) /\ article' = HIncrArticles(change)
  BY DEF FAIL_PAYMENT
<1>2. /\ order' \in [OrderId -> Order \cup {NoOrder}]
      /\ OrdersKept /\ OrdersSound' /\ PaidIsPaid'
      /\ order[o] \in Order
      /\ order'[o].status = "FAILED"
      /\ \A p \in OrderId \ {o} : order'[p] = order[p]
  BY <1>1, OrderFails DEF Keys
<1>3. order[o].items \in Items
  BY <1>2 DEF Order
<1>4. \A a \in DOMAIN article : /\ Pieces(order[o].items, a) \in Nat
                                /\ ReadArticle(a).quantity \in Nat
                                /\ change[a] = Pieces(order[o].items, a)
  BY <1>3, PiecesOf, ReadArticleType DEF Keys
<1> HIDE DEF change
<1>5. \A a \in DOMAIN article : change[a] \in Int /\ ReadArticle(a).quantity + change[a] >= 0
  BY <1>4
<1>6. /\ DOMAIN article' = DOMAIN article
      /\ article' \in [DOMAIN article -> ArticleData]
      /\ CatalogueSound'
      /\ \A a \in DOMAIN article : ReadArticle(a).quantity' = ReadArticle(a).quantity + change[a]
  BY <1>1, <1>5, HIncrArticlesType DEF Keys
<1>7. \A p \in OrderId : order[p] = NoOrder => order'[p] = NoOrder
  BY <1>2 DEF Order, NoOrder
<1>8. IndexesAgree'
  BY <1>2, <1>6, <1>7, IndexesStay DEF Keys, IndexesAgree
<1> QED
  BY <1>1, <1>2, <1>4, <1>6, <1>8

-----------------------------------------------------------------------------
(* IInv is inductive. *)

LEMMA InitIInv == Init => IInv
<1> SUFFICES ASSUME Init
             PROVE  IInv
  OBVIOUS
<1>1. /\ ShopTypeOK /\ ShopSound
      /\ \A r \in Request : req[r] \in RequestState /\ req[r].pc = "idle"
      /\ req = [r \in Request |-> Idle]
      /\ order = [o \in OrderId |-> NoOrder]
  BY ShopInitSound DEF Init
<1>2. /\ articleIndex = DOMAIN article /\ orderIndex = {}
      /\ buyerIndex = [b \in Buyer |-> {}]
      /\ claim = [h \in Hash |-> Null]
  BY DEF Init
<1>3. \A r \in Request : ResendSound(r)
  BY <1>1 DEF ResendSound
<1>4. TypeOK
  BY <1>1, <1>2 DEF TypeOK, ShopTypeOK
<1>5. IndexesAgree
  BY <1>1, <1>2 DEF IndexesAgree
<1> QED
  BY <1>1, <1>3, <1>4, <1>5 DEF IInv

\* What each request may be counted on for, from the invariant.
LEMMA InvRequest ==
    ASSUME IInv, NEW r \in Request
    PROVE  /\ req \in [Request -> RequestState \cup ResendAt]
           /\ req[r].pc # "resend" => req[r] \in RequestState
           /\ req[r].pc = "resend" => req[r] \in ResendAt
           /\ RequestSound(r) /\ ResendSound(r)
BY AtResend DEF IInv, TypeOK, ShopSound

\* The steps that change no key.
LEMMA ReadingInv ==
    ASSUME IInv, NEW r \in Request,
           \/ ServiceStep(r) /\ UNCHANGED <<articleVars, orderVars>>
           \/ ReadForUpdate(r) /\ UNCHANGED indexVars
           \/ FindOrder(r) /\ UNCHANGED indexVars
           \/ RereadOrder(r) /\ UNCHANGED indexVars
           \/ (Receive(r) \/ Crash(r)) /\ UNCHANGED <<article, minted, order>>
              /\ UNCHANGED indexVars
    PROVE  IInv'
<1>1. req \in [Request -> RequestState \cup ResendAt] /\ RequestSound(r)
  BY InvRequest
<1>2. ShopTypeOK /\ CatalogueSound /\ order \in [OrderId -> Order \cup {NoOrder}]
  BY DEF IInv, TypeOK, ShopTypeOK, ShopSound
<1>3. SoundMove(r)
  <2>1. CASE ServiceStep(r) /\ UNCHANGED <<articleVars, orderVars>>
    <3>1. req[r].pc # "resend"
      BY <2>1 DEF ServiceStep, RejectDuplicates, VerifyAccepts, VerifyRejects, ChainUnavailable
    <3>2. req[r] \in RequestState
      BY <3>1, InvRequest
    <3>3. UNCHANGED <<article, minted, order>>
      BY <2>1 DEF articleVars, orderVars
    <3> QED
      BY <1>1, <2>1, <3>2, <3>3, ServiceStepSound
  <2>2. CASE ReadForUpdate(r)
    <3>1. req[r] \in RequestState
      BY <2>2, InvRequest DEF ReadForUpdate
    <3> QED
      BY <1>1, <1>2, <2>2, <3>1, ReadForUpdateSound
  <2>3. CASE FindOrder(r)
    <3>1. req[r] \in RequestState
      BY <2>3, InvRequest DEF FindOrder
    <3> QED
      BY <1>1, <1>2, <2>3, <3>1, FindOrderSound
  <2>4. CASE RereadOrder(r)
    <3>1. req[r] \in RequestState
      BY <2>4, InvRequest DEF RereadOrder
    <3> QED
      BY <1>1, <2>4, <3>1, RereadOrderSound
  <2>5. CASE Receive(r)
    BY <1>1, <2>5, ReceiveSound
  <2>6. CASE Crash(r)
    BY <1>1, <2>6, CrashSound
  <2> QED
    BY <2>1, <2>2, <2>3, <2>4, <2>5, <2>6
<1>4. (\E next : Goto(r, next)) /\ UNCHANGED <<envVars, articleVars, orderVars>>
  <2>1. CASE ServiceStep(r) /\ UNCHANGED <<articleVars, orderVars>>
    BY <2>1, ServiceStepMoves DEF envVars
  <2>2. CASE ReadForUpdate(r) /\ UNCHANGED indexVars
    BY <2>2 DEF ReadForUpdate, envVars, articleVars, orderVars, indexVars
  <2>3. CASE FindOrder(r) /\ UNCHANGED indexVars
    BY <2>3 DEF FindOrder, envVars, articleVars, orderVars, indexVars
  <2>4. CASE RereadOrder(r) /\ UNCHANGED indexVars
    BY <2>4 DEF RereadOrder, envVars, articleVars, orderVars, indexVars
  <2>5. CASE (Receive(r) \/ Crash(r)) /\ UNCHANGED <<article, minted, order>>
             /\ UNCHANGED indexVars
    BY <2>5, ReceiveMoves DEF envVars, articleVars, orderVars, indexVars
  <2> QED
    BY <2>1, <2>2, <2>3, <2>4, <2>5
<1> QED
  BY <1>3, <1>4, OnlyRequestMoves

LEMMA LookUpInv ==
    ASSUME IInv, NEW r \in Request, LookUp(r)
    PROVE  IInv'
<1> DEFINE a == NextLine(req[r]).articleId
<1>1. /\ req[r] \in CheckoutAt /\ Quoting(req[r])
      /\ req \in [Request -> RequestState \cup ResendAt]
  BY InvRequest, AtCheckout DEF LookUp, RequestSound
<1>2. UNCHANGED <<envVars, articleVars, orderVars>>
  BY DEF LookUp
<1>3. CASE a \in DOMAIN article
  <2> DEFINE next == Priced(req[r], ReadArticle(a).price)
  <2>1. Goto(r, next)
    BY <1>3 DEF LookUp
  <2>2. req'[r] = next
    BY <1>1, <2>1, GotoRequest
  <2>3. ReadArticle(a).price \in UnitPrice
    BY <1>3, ReadArticleType DEF IInv, TypeOK, ShopTypeOK, ShopSound
  <2>4. Distinct(req[r].basket)
    BY DEF LookUp
  <2>5. \/ next \in CheckoutAt /\ Quoting(next)
        \/ next \in PlaceAt /\ next.total = PriceOf(next.items)
    BY <1>1, <2>3, <2>4, PricedNext
  <2> HIDE DEF next
  <2>6. next \in RequestState
    BY <2>5 DEF RequestState
  <2>7. RequestSound(r)'
    BY <2>2, <2>5 DEF RequestSound, CheckoutAt, PlaceAt
  <2> QED
    BY <1>2, <2>1, <2>2, <2>6, <2>7, OnlyRequestMoves DEF SoundMove
<1>4. CASE a \notin DOMAIN article
  <2>1. Goto(r, Answer(404))
    BY <1>4 DEF LookUp
  <2>2. req'[r] = Answer(404)
    BY <1>1, <2>1 DEF Goto
  <2> QED
    BY <1>2, <2>1, <2>2, AnswerSound, OnlyRequestMoves
<1> QED
  BY <1>3, <1>4

-----------------------------------------------------------------------------
(* The steps that write the catalogue. *)

\* A step of one request that changes nothing but articles: what is written is
\* well-formed, and an article stays listed only if it is there.
LEMMA CatalogueInv ==
    ASSUME IInv, NEW r \in Request, NEW next, Goto(r, next), SoundMove(r),
           UNCHANGED <<envVars, orderVars>>,
           minted \subseteq minted', minted' \subseteq Article,
           DOMAIN article' \subseteq minted', article' \in [DOMAIN article' -> ArticleData],
           CatalogueSound', articleIndex' \subseteq DOMAIN article'
    PROVE  IInv'
<1>1. UNCHANGED <<wallet, receipt, order, orderIndex, buyerIndex, claim>>
  BY DEF envVars, orderVars
<1>2. order \in [OrderId -> Order \cup {NoOrder}] /\ OrdersSound /\ PaidIsPaid
  BY DEF IInv, TypeOK, ShopTypeOK, ShopSound
<1>3. OrdersKept /\ OrdersSound' /\ PaidIsPaid'
  BY <1>1, <1>2, OrdersUntouched
<1>4. Kept
  BY <1>1, <1>3 DEF Kept
<1>7. /\ req' \in [Request -> RequestState \cup ResendAt]
      /\ (\A s \in Request : RequestSound(s))'
      /\ (\A s \in Request : ResendSound(s))'
  BY <1>1, <1>4, RequestMoves
<1>8. TypeOK'
  BY <1>1, <1>7 DEF IInv, TypeOK, ShopTypeOK, ServicesTypeOK
<1>9. IndexesAgree'
  BY <1>1 DEF IInv, IndexesAgree
<1> QED
  BY <1>3, <1>7, <1>8, <1>9 DEF IInv, ShopSound

\* The request is answered, or stays where it is to run its command again.
LEMMA AnswerOrAgain ==
    ASSUME IInv, NEW r \in Request, req[r] \in RequestState,
           NEW status \in {200, 201, 204, 400, 404, 409, 500},
           Goto(r, Answer(status)) \/ Goto(r, req[r]),
           UNCHANGED <<envVars, orderVars>>, minted \subseteq minted'
    PROVE  \E next : Goto(r, next) /\ SoundMove(r)
<1>1. req \in [Request -> RequestState \cup ResendAt] /\ RequestSound(r)
  BY InvRequest
<1>2. CASE Goto(r, Answer(status))
  <2>1. req'[r] = Answer(status)
    BY <1>1, <1>2 DEF Goto
  <2> QED
    BY <1>2, <2>1, AnswerSound
<1>3. CASE Goto(r, req[r])
  <2>1. req'[r] = req[r]
    BY <1>1, <1>3 DEF Goto
  <2>2. UNCHANGED <<wallet, receipt, order>>
    BY DEF envVars, orderVars
  <2>3. OrdersKept
    BY <2>2, OrdersUntouched DEF IInv, TypeOK, ShopTypeOK, ShopSound
  <2>4. Kept
    BY <2>2, <2>3 DEF Kept
  <2>5. RequestSound(r)'
    BY <1>1, <2>1, <2>4, OthersSound
  <2> QED
    BY <1>3, <2>1, <2>5 DEF SoundMove
<1> QED
  BY <1>2, <1>3

LEMMA CreateArticleInv ==
    ASSUME IInv, NEW r \in Request, CreateArticle(r)
    PROVE  IInv'
<1>1. PICK a \in Article \ minted :
          /\ article' = HSetArticle(a, req[r].data)
          /\ articleIndex' = articleIndex \cup {a}
          /\ minted' = minted \cup {a}
          /\ Replied(r, Answer(201), [pc |-> "recreate", article |-> a, data |-> req[r].data])
  BY DEF CreateArticle
<1>2. req[r].data \in ArticleData /\ req[r].data.quantity \in Nat \cup {Null}
      /\ req[r].data \in NewArticle
  BY InvRequest, AtCatalogue, NewArticleType DEF CreateArticle, CreateAt
<1>3. /\ article \in [DOMAIN article -> ArticleData] /\ CatalogueSound
      /\ DOMAIN article \subseteq minted /\ minted \subseteq Article
      /\ articleIndex \subseteq DOMAIN article
  BY DEF IInv, TypeOK, ShopTypeOK, ShopSound, IndexesAgree
<1>4. /\ article' \in [DOMAIN article \cup {a} -> ArticleData]
      /\ article'[a].quantity \in Nat \cup {Null}
      /\ \A x \in DOMAIN article \ {a} : article'[x] = article[x]
  <2> DEFINE data == req[r].data
  <2>1. data \in ArticleData /\ data.quantity \in Nat \cup {Null}
    BY <1>2
  <2> HIDE DEF data
  <2>2. WrittenAt(a, HSetArticle(a, data))
    BY <1>3, <2>1, HSetArticleType
  <2>3. article' = HSetArticle(a, data)
    BY <1>1 DEF data
  <2> QED
    BY <2>2, <2>3 DEF WrittenAt
<1>5. CatalogueSound'
  BY <1>3, <1>4 DEF CatalogueSound
<1>6. UNCHANGED <<envVars, orderVars>>
  BY DEF CreateArticle
<1>7. PICK next : Goto(r, next) /\ SoundMove(r)
  <2> DEFINE again == [pc |-> "recreate", article |-> a, data |-> req[r].data]
  <2>1. req \in [Request -> RequestState \cup ResendAt]
    BY InvRequest
  <2>2. CASE Goto(r, Answer(201))
    <3>1. req'[r] = Answer(201)
      BY <2>1, <2>2 DEF Goto
    <3> QED
      BY <2>2, <3>1, AnswerSound
  <2>3. CASE Goto(r, again)
    <3>1. req'[r] = again
      BY <2>1, <2>3 DEF Goto
    <3>2. again \in RequestState
      BY <1>2 DEF RecreateAt, RequestState
    <3>3. RequestSound(r)'
      BY <1>1, <3>1 DEF RequestSound
    <3> QED
      BY <2>3, <3>1, <3>2, <3>3 DEF SoundMove
  <2> QED
    BY <1>1, <2>2, <2>3 DEF Replied
<1> QED
  BY <1>1, <1>3, <1>4, <1>5, <1>6, <1>7, CatalogueInv

\* A write of the hash of an article that has an id.
LEMMA HashWrittenInv ==
    ASSUME IInv, NEW r \in Request, req[r] \in RequestState, NEW a \in minted,
           NEW data \in ArticleData, data.quantity \in Nat \cup {Null},
           article' = HSetArticle(a, data),
           articleIndex' = articleIndex \/ articleIndex' = articleIndex \cup {a},
           minted' = minted, UNCHANGED <<envVars, orderVars>>,
           NEW status \in {200, 201, 204, 400, 404, 409, 500},
           Replied(r, Answer(status), req[r])
    PROVE  IInv'
<1>3. /\ article \in [DOMAIN article -> ArticleData] /\ CatalogueSound
      /\ DOMAIN article \subseteq minted /\ minted \subseteq Article
      /\ articleIndex \subseteq DOMAIN article
  BY DEF IInv, TypeOK, ShopTypeOK, ShopSound, IndexesAgree
<1>4. /\ article' \in [DOMAIN article \cup {a} -> ArticleData]
      /\ article'[a].quantity \in Nat \cup {Null}
      /\ \A x \in DOMAIN article \ {a} : article'[x] = article[x]
  <2>1. WrittenAt(a, HSetArticle(a, data))
    BY <1>3, HSetArticleType
  <2> QED
    BY <2>1 DEF WrittenAt
<1>5. CatalogueSound'
  BY <1>3, <1>4 DEF CatalogueSound
<1>6. PICK next : Goto(r, next) /\ SoundMove(r)
  BY AnswerOrAgain DEF Replied
<1> QED
  BY <1>3, <1>4, <1>5, <1>6, CatalogueInv

LEMMA ResendCreateArticleInv ==
    ASSUME IInv, NEW r \in Request, ResendCreateArticle(r)
    PROVE  IInv'
<1> DEFINE a == req[r].article
           data == req[r].data
<1>1. /\ req[r] \in RequestState /\ req[r] \in RecreateAt /\ a \in minted
  BY InvRequest, AtCatalogue DEF ResendCreateArticle, RequestSound
<1>2. data \in ArticleData /\ data.quantity \in Nat \cup {Null}
  BY <1>1, NewArticleType DEF RecreateAt
<1>3. /\ article' = HSetArticle(a, data)
      /\ articleIndex' = articleIndex \cup {a} /\ minted' = minted
      /\ UNCHANGED <<envVars, orderVars>>
      /\ Replied(r, Answer(201), req[r])
  BY DEF ResendCreateArticle
<1> HIDE DEF a, data
<1> QED
  BY <1>1, <1>2, <1>3, HashWrittenInv

LEMMA SaveArticleInv ==
    ASSUME IInv, NEW r \in Request, SaveArticle(r)
    PROVE  IInv'
<1> DEFINE a == req[r].article
           data == req[r].data
<1>1. /\ req[r] \in RequestState /\ a \in minted
      /\ data \in ArticleData /\ data.quantity \in Nat \cup {Null}
  BY InvRequest, AtCatalogue DEF SaveArticle, SaveAt, RequestSound
<1>2. /\ article' = HSetArticle(a, data)
      /\ articleIndex' = articleIndex /\ minted' = minted
      /\ UNCHANGED <<envVars, orderVars>>
      /\ Replied(r, Answer(200), req[r])
  BY DEF SaveArticle
<1> HIDE DEF a, data
<1> QED
  BY <1>1, <1>2, HashWrittenInv

LEMMA RemoveArticleInv ==
    ASSUME IInv, NEW r \in Request, RemoveArticle(r)
    PROVE  IInv'
<1> DEFINE a == req[r].article
<1>1. /\ article' = [x \in DOMAIN article \ {a} |-> article[x]]
      /\ articleIndex' = articleIndex \ {a}
      /\ UNCHANGED <<envVars, orderVars>> /\ minted' = minted
  BY DEF RemoveArticle
<1>2. req[r] \in RequestState
  BY InvRequest DEF RemoveArticle
<1>6. PICK next : Goto(r, next) /\ SoundMove(r)
  <2>1. PICK status \in {204, 404} : Goto(r, Answer(status)) \/ Goto(r, req[r])
    BY DEF RemoveArticle, Replied
  <2> QED
    BY <1>1, <1>2, <2>1, AnswerOrAgain
<1>3. /\ article \in [DOMAIN article -> ArticleData] /\ CatalogueSound
      /\ DOMAIN article \subseteq minted /\ minted \subseteq Article
      /\ articleIndex \subseteq DOMAIN article
  BY DEF IInv, TypeOK, ShopTypeOK, ShopSound, IndexesAgree
<1>4. article' \in [DOMAIN article' -> ArticleData] /\ DOMAIN article' = DOMAIN article \ {a}
  BY <1>1, <1>3
<1>5. CatalogueSound'
  BY <1>1, <1>3 DEF CatalogueSound
<1> QED
  BY <1>1, <1>3, <1>4, <1>5, <1>6, CatalogueInv

-----------------------------------------------------------------------------
(* The steps that run a script. *)

\* A request keeps its script to run it again: the order, if its first run placed
\* one, is its own, and no other request has the same id.
LEMMA RequestResends ==
    ASSUME IInv, NEW r \in Request, NEW id \in OrderId, NEW draft \in OrderDraft,
           Goto(r, [pc |-> "resend", id |-> id, draft |-> draft]), Kept,
           draft.total = PriceOf(draft.items),
           order'[id] # NoOrder => Terms(order'[id]) = Terms(draft),
           \A p \in OrderId \ {id} : order'[p] = order[p],
           \A s \in Request \ {r} : req[s].pc = "resend" => req[s].id # id
    PROVE  /\ req' \in [Request -> RequestState \cup ResendAt]
           /\ (\A s \in Request : RequestSound(s))'
           /\ (\A s \in Request : ResendSound(s))'
<1> DEFINE next == [pc |-> "resend", id |-> id, draft |-> draft]
<1>1. next \in ResendAt
  BY DEF ResendAt
<1>2. /\ req \in [Request -> RequestState \cup ResendAt]
      /\ req'[r] = next
      /\ \A s \in Request \ {r} : req'[s] = req[s]
  BY DEF IInv, TypeOK, Goto
<1>3. req' \in [Request -> RequestState \cup ResendAt]
  BY <1>1, <1>2, GotoRequest
<1>4. (\A s \in Request : RequestSound(s))'
  <2>1. \A s \in Request : req[s].pc \in Relying => req[s] \in RequestState
    BY <1>2, AtResend DEF Relying
  <2>2. \A s \in Request : RequestSound(s)
    BY DEF IInv, ShopSound
  <2>3. RequestSound(r)'
    BY <1>2, NothingReliedOn DEF Relying
  <2>4. \A s \in Request : req'[s] = req[s] \/ RequestSound(s)'
    BY <1>2, <2>3
  <2> QED
    BY <2>1, <2>2, <2>4, RequestsStaySound
<1>5. ResendSound(r)'
  BY <1>2 DEF ResendSound
<1>6. ASSUME NEW s \in Request \ {r}, req'[s].pc = "resend"
      PROVE  ResendSound(s)'
  <2>1. req'[s] = req[s] /\ req[s] \in ResendAt /\ ResendSound(s)
    BY <1>2, <1>6, InvRequest
  <2>2. req[s].id \in OrderId /\ req[s].id # id
    BY <1>6, <2>1 DEF ResendAt
  <2>3. order'[req[s].id] = order[req[s].id]
    BY <2>2
  <2>4. \A t \in Request \ {s} : req'[t].pc = "resend" => req'[t].id # req[s].id
    BY <1>2, <1>6, <2>1, <2>2 DEF ResendSound
  <2> QED
    BY <1>6, <2>1, <2>3, <2>4 DEF ResendSound
<1>7. (\A s \in Request : ResendSound(s))'
  BY <1>5, <1>6 DEF ResendSound
<1> QED
  BY <1>3, <1>4, <1>7

\* A run of the script that places an order, whether or not its reply is lost.
LEMMA PlacingInv ==
    ASSUME IInv, NEW r \in Request, NEW id \in OrderId, NEW draft \in OrderDraft,
           draft.total = PriceOf(draft.items),
           order[id] # NoOrder => Terms(order[id]) = Terms(draft),
           \A s \in Request \ {r} : req[s].pc = "resend" => req[s].id # id,
           PLACE_ORDER(id, draft),
           UNCHANGED <<envVars, articleIndex, minted, claim>>,
           \/ Goto(r, PlaceAnswer(draft))
           \/ Goto(r, [pc |-> "resend", id |-> id, draft |-> draft])
    PROVE  IInv'
<1>1. UNCHANGED <<wallet, receipt, articleIndex, minted, claim>>
  BY DEF envVars
<1>2. Keys /\ orderIndex \subseteq OrderId
  BY InvKeys DEF IInv, TypeOK
<1>3. /\ DOMAIN article' = DOMAIN article
      /\ article' \in [DOMAIN article -> ArticleData]
      /\ CatalogueSound'
      /\ order' \in [OrderId -> Order \cup {NoOrder}]
      /\ OrdersKept /\ OrdersSound' /\ PaidIsPaid'
      /\ order'[id] # NoOrder => Terms(order'[id]) = Terms(draft)
      /\ \A p \in OrderId \ {id} : order'[p] = order[p]
      /\ orderIndex' \subseteq OrderId
      /\ buyerIndex' \in [Buyer -> SUBSET OrderId]
      /\ IndexesAgree'
  <2>1. CASE \E i \in DOMAIN draft.items : Short(draft.items[i])
    <3>1. UNCHANGED <<article, order, orderIndex, buyerIndex>>
      BY <2>1, PlaceRefused
    <3>2. OrdersKept /\ OrdersSound' /\ PaidIsPaid'
      BY <1>1, <1>2, <3>1, OrdersUntouched DEF Keys
    <3>3. CatalogueSound' /\ IndexesAgree'
      BY <1>1, <1>2, <3>1 DEF Keys, CatalogueSound, IndexesAgree
    <3> QED
      BY <1>2, <3>1, <3>2, <3>3 DEF Keys
  <2>2. CASE \A i \in DOMAIN draft.items : ~Short(draft.items[i])
    BY <1>1, <1>2, <2>2, PlaceDone
  <2> QED
    BY <2>1, <2>2
<1>4. Kept
  BY <1>1, <1>3 DEF Kept
<1>5. /\ req' \in [Request -> RequestState \cup ResendAt]
      /\ (\A s \in Request : RequestSound(s))'
      /\ (\A s \in Request : ResendSound(s))'
  <2>1. CASE Goto(r, PlaceAnswer(draft))
    <3>1. req'[r] = PlaceAnswer(draft)
      BY <2>1, InvRequest DEF Goto
    <3>2. SoundMove(r)
      BY <3>1, PlaceAnswerType, NothingReliedOn DEF SoundMove
    <3>3. \A s \in Request \ {r} : req[s].pc = "resend" => req[s].id \in OrderId \ {id}
      BY InvRequest DEF ResendAt
    <3>4. \A s \in Request \ {r} : req[s].pc = "resend" /\ order[req[s].id] = NoOrder
                                       => order'[req[s].id] = NoOrder
      BY <1>3, <3>3
    <3> QED
      BY <1>4, <2>1, <3>2, <3>4, RequestMoves
  <2>2. CASE Goto(r, [pc |-> "resend", id |-> id, draft |-> draft])
    BY <1>3, <1>4, <2>2, RequestResends
  <2> QED
    BY <2>1, <2>2
<1>6. TypeOK'
  BY <1>1, <1>3, <1>5 DEF IInv, TypeOK, ShopTypeOK, ServicesTypeOK
<1> QED
  BY <1>3, <1>5, <1>6 DEF IInv, ShopSound

LEMMA PlaceOrderInv ==
    ASSUME IInv, NEW r \in Request, PlaceOrder(r)
    PROVE  IInv'
<1> DEFINE draft == DraftOf(req[r])
<1>1. PICK id \in FreshId :
          /\ PLACE_ORDER(id, draft)
          /\ \/ Goto(r, PlaceAnswer(draft))
             \/ Goto(r, [pc |-> "resend", id |-> id, draft |-> draft])
  BY DEF PlaceOrder, Replied
<1>2. /\ id \in OrderId /\ order[id] = NoOrder
      /\ \A s \in Request : req[s].pc = "resend" => req[s].id # id
  BY DEF FreshId
<1>3. req[r] \in PlaceAt /\ RequestSound(r)
  BY InvRequest, AtCheckout DEF PlaceOrder
<1>4. draft \in OrderDraft /\ draft.total = PriceOf(draft.items)
  BY <1>3 DEF DraftOf, PlaceAt, OrderDraft, RequestSound, PlaceOrder, IInv, TypeOK, ShopTypeOK,
              ServicesTypeOK
<1>5. UNCHANGED <<envVars, articleIndex, minted, claim>>
  BY DEF PlaceOrder
<1> HIDE DEF draft
<1> QED
  BY <1>1, <1>2, <1>4, <1>5, PlacingInv

LEMMA ResendPlaceOrderInv ==
    ASSUME IInv, NEW r \in Request, ResendPlaceOrder(r)
    PROVE  IInv'
<1>1. req[r] \in ResendAt /\ ResendSound(r) /\ req[r].pc = "resend"
  BY InvRequest DEF ResendPlaceOrder
<1>2. req[r].id \in OrderId /\ req[r].draft \in OrderDraft
  BY <1>1 DEF ResendAt
<1>3. /\ req[r].draft.total = PriceOf(req[r].draft.items)
      /\ order[req[r].id] # NoOrder => Terms(order[req[r].id]) = Terms(req[r].draft)
      /\ \A s \in Request \ {r} : req[s].pc = "resend" => req[s].id # req[r].id
  BY <1>1 DEF ResendSound
<1>4. /\ PLACE_ORDER(req[r].id, req[r].draft)
      /\ Goto(r, PlaceAnswer(req[r].draft)) \/ Goto(r, req[r])
      /\ UNCHANGED <<envVars, articleIndex, minted, claim>>
  BY DEF ResendPlaceOrder, Replied
<1>5. req[r] = [pc |-> "resend", id |-> req[r].id, draft |-> req[r].draft]
  BY <1>1 DEF ResendAt
<1> QED
  BY <1>2, <1>3, <1>4, <1>5, PlacingInv

\* A step that changes one order that is there, and its articles' quantities.
LEMMA SettlingInv ==
    ASSUME IInv, NEW r \in Request, NEW next, Goto(r, next), SoundMove(r),
           UNCHANGED <<wallet, receipt, articleIndex, minted, orderIndex, buyerIndex>>,
           claim' \in [Hash -> OrderId \cup {Null}],
           DOMAIN article' = DOMAIN article, article' \in [DOMAIN article -> ArticleData],
           CatalogueSound',
           order' \in [OrderId -> Order \cup {NoOrder}],
           \A o \in OrderId : order[o] = NoOrder => order'[o] = NoOrder,
           OrdersKept, OrdersSound', PaidIsPaid', IndexesAgree'
    PROVE  IInv'
<1>1. Kept
  BY DEF Kept
<1>2. \A s \in Request : req[s].pc = "resend" => req[s].id \in OrderId
  BY InvRequest DEF ResendAt
<1>3. /\ req' \in [Request -> RequestState \cup ResendAt]
      /\ (\A s \in Request : RequestSound(s))'
      /\ (\A s \in Request : ResendSound(s))'
  BY <1>1, <1>2, RequestMoves
<1>4. TypeOK'
  BY <1>3 DEF IInv, TypeOK, ShopTypeOK, ServicesTypeOK
<1> QED
  BY <1>3, <1>4 DEF IInv, ShopSound

LEMMA ConfirmPaymentInv ==
    ASSUME IInv, NEW r \in Request, ConfirmPayment(r)
    PROVE  IInv'
<1> DEFINE o == req[r].order
           h == req[r].hash
<1>1. /\ req \in [Request -> RequestState \cup ResendAt]
      /\ req[r] \in RequestState /\ req[r] \in SettleAt /\ RequestSound(r)
  BY InvRequest, AtPayment DEF ConfirmPayment
<1>2. o \in OrderId /\ h \in Hash
  BY <1>1 DEF SettleAt
<1>3. order[o] # NoOrder /\ Valid(h, order[o].walletAddress, order[o].total)
  BY <1>1 DEF RequestSound, ConfirmPayment
<1>4. /\ CONFIRM_PAYMENT(o, h)
      /\ UNCHANGED <<wallet, receipt, article, articleIndex, minted, orderIndex, buyerIndex>>
  BY DEF ConfirmPayment, envVars, articleVars
<1>5. Keys
  BY InvKeys
<1>6. /\ claim \in [Hash -> OrderId \cup {Null}]
      /\ CatalogueSound' /\ article' \in [DOMAIN article -> ArticleData]
  BY <1>4, <1>5 DEF IInv, TypeOK, Keys, CatalogueSound
<1>7. /\ claim' \in [Hash -> OrderId \cup {Null}]
      /\ order' \in [OrderId -> Order \cup {NoOrder}]
      /\ \A p \in OrderId : order[p] = NoOrder => order'[p] = NoOrder
      /\ OrdersKept /\ OrdersSound' /\ PaidIsPaid' /\ IndexesAgree'
  <2>1. CASE AwaitsPayment(o) /\ CanClaim(o, h)
    <3>1. /\ order' \in [OrderId -> Order \cup {NoOrder}]
          /\ OrdersKept /\ OrdersSound' /\ PaidIsPaid' /\ IndexesAgree'
          /\ claim' = [claim EXCEPT ![h] = o]
          /\ \A p \in OrderId \ {o} : order'[p] = order[p]
      BY <1>2, <1>3, <1>4, <1>5, <2>1, ConfirmDone
    <3> QED
      BY <1>2, <1>3, <1>6, <3>1
  <2>2. CASE ~(AwaitsPayment(o) /\ CanClaim(o, h))
    <3>1. UNCHANGED <<claim, order>>
      BY <1>4, <2>2 DEF CONFIRM_PAYMENT
    <3>2. OrdersKept /\ OrdersSound' /\ PaidIsPaid'
      BY <1>4, <1>5, <3>1, OrdersUntouched DEF Keys
    <3> QED
      BY <1>4, <1>5, <1>6, <3>1, <3>2 DEF Keys, IndexesAgree
  <2> QED
    BY <2>1, <2>2
<1>8. PICK next : Goto(r, next) /\ SoundMove(r)
  <2>1. CASE Goto(r, req[r])
    <3>1. req'[r] = req[r]
      BY <1>1, <2>1 DEF Goto
    <3>2. Kept
      BY <1>4, <1>7 DEF Kept
    <3>3. RequestSound(r)'
      BY <1>1, <3>1, <3>2, OthersSound
    <3> QED
      BY <1>1, <2>1, <3>1, <3>3 DEF SoundMove
  <2>2. CASE Goto(r, [pc |-> "reread", order |-> o, hash |-> h])
    <3>1. req'[r] = [pc |-> "reread", order |-> o, hash |-> h]
      BY <1>1, <2>2 DEF Goto
    <3> QED
      BY <1>2, <2>2, <3>1, RereadMove
  <2>3. CASE Goto(r, Refusal(ConfirmRefusal(o)))
    <3>1. req'[r] = Refusal(ConfirmRefusal(o))
      BY <1>1, <2>3 DEF Goto
    <3> QED
      BY <2>3, <3>1, RefusalMove
  <2> QED
    BY <2>1, <2>2, <2>3 DEF ConfirmPayment, Replied
<1> HIDE DEF o, h
<1> QED
  BY <1>4, <1>6, <1>7, <1>8, SettlingInv

LEMMA FailPaymentInv ==
    ASSUME IInv, NEW r \in Request, FailPayment(r)
    PROVE  IInv'
<1> DEFINE o == req[r].order
<1>1. /\ req \in [Request -> RequestState \cup ResendAt]
      /\ req[r] \in RequestState /\ req[r] \in ReleaseAt /\ RequestSound(r)
  BY InvRequest, AtPayment DEF FailPayment
<1>2. o \in OrderId
  BY <1>1 DEF ReleaseAt
<1>3. /\ FAIL_PAYMENT(o)
      /\ UNCHANGED <<wallet, receipt, articleIndex, minted, orderIndex, buyerIndex, claim>>
  BY DEF FailPayment, envVars
<1>4. Keys /\ claim \in [Hash -> OrderId \cup {Null}]
  BY InvKeys DEF IInv, TypeOK
<1>5. /\ DOMAIN article' = DOMAIN article
      /\ article' \in [DOMAIN article -> ArticleData]
      /\ CatalogueSound'
      /\ order' \in [OrderId -> Order \cup {NoOrder}]
      /\ \A p \in OrderId : order[p] = NoOrder => order'[p] = NoOrder
      /\ OrdersKept /\ OrdersSound' /\ PaidIsPaid' /\ IndexesAgree'
  <2>1. CASE AwaitsPayment(o)
    <3>1. /\ DOMAIN article' = DOMAIN article
          /\ article' \in [DOMAIN article -> ArticleData]
          /\ CatalogueSound'
          /\ order' \in [OrderId -> Order \cup {NoOrder}]
          /\ OrdersKept /\ OrdersSound' /\ PaidIsPaid' /\ IndexesAgree'
          /\ order[o] \in Order
          /\ \A p \in OrderId \ {o} : order'[p] = order[p]
      BY <1>2, <1>3, <1>4, <2>1, FailDone
    <3>2. order[o] # NoOrder
      BY <3>1 DEF Order, NoOrder
    <3> QED
      BY <3>1, <3>2
  <2>2. CASE ~AwaitsPayment(o)
    <3>1. UNCHANGED <<order, article>>
      BY <1>3, <2>2 DEF FAIL_PAYMENT
    <3>2. OrdersKept /\ OrdersSound' /\ PaidIsPaid'
      BY <1>3, <1>4, <3>1, OrdersUntouched DEF Keys
    <3> QED
      BY <1>3, <1>4, <3>1, <3>2 DEF Keys, IndexesAgree, CatalogueSound
  <2> QED
    BY <2>1, <2>2
<1>6. PICK next : Goto(r, next) /\ SoundMove(r)
  <2>1. CASE Goto(r, req[r])
    <3>1. req'[r] = req[r]
      BY <1>1, <2>1 DEF Goto
    <3>2. Kept
      BY <1>3, <1>5 DEF Kept
    <3>3. RequestSound(r)'
      BY <1>1, <3>1, <3>2, OthersSound
    <3> QED
      BY <1>1, <2>1, <3>1, <3>3 DEF SoundMove
  <2>2. CASE Goto(r, [pc |-> "reread", order |-> o, hash |-> Null])
    <3>1. req'[r] = [pc |-> "reread", order |-> o, hash |-> Null]
      BY <1>1, <2>2 DEF Goto
    <3> QED
      BY <1>2, <2>2, <3>1, RereadMove
  <2>3. CASE Goto(r, Refusal(FailRefusal(o)))
    <3>1. req'[r] = Refusal(FailRefusal(o))
      BY <1>1, <2>3 DEF Goto
    <3> QED
      BY <2>3, <3>1, RefusalMove
  <2> QED
    BY <2>1, <2>2, <2>3 DEF FailPayment, Replied
<1> HIDE DEF o
<1> QED
  BY <1>3, <1>4, <1>5, <1>6, SettlingInv

\* The chain settles a transaction, or the shop gets another wallet.
LEMMA OutsideInv ==
    ASSUME IInv, UNCHANGED <<article, minted, order>>, UNCHANGED indexVars,
           (\E t \in Tx : Mine(t)) \/ Reconfigure
    PROVE  IInv'
<1>1. /\ UNCHANGED <<req, article, minted, order, articleIndex, orderIndex, buyerIndex, claim>>
      /\ wallet' \in Wallet \cup {Null}
      /\ receipt' \in [Tx -> {"open", "settled", "reverted"}]
      /\ \A t \in Tx : receipt[t] = "settled" => receipt'[t] = "settled"
  BY DEF Mine, Reconfigure, indexVars, IInv, TypeOK, ShopTypeOK, ServicesTypeOK
<1>2. TypeOK'
  BY <1>1 DEF IInv, TypeOK, ShopTypeOK, ServicesTypeOK
<1>3. OrdersKept /\ OrdersSound' /\ PaidIsPaid'
  BY <1>1, OrdersUntouched DEF IInv, TypeOK, ShopTypeOK, ShopSound
<1>4. Kept
  BY <1>1, <1>3 DEF Kept
<1>5. (\A s \in Request : RequestSound(s))'
  <2>1. \A s \in Request : req[s].pc \in Relying => req[s] \in RequestState
    BY AtResend DEF Relying, IInv, TypeOK
  <2>2. \A s \in Request : RequestSound(s)
    BY DEF IInv, ShopSound
  <2> QED
    BY <1>1, <1>4, <2>1, <2>2, RequestsStaySound
<1>6. CatalogueSound' /\ IndexesAgree' /\ (\A s \in Request : ResendSound(s))'
  BY <1>1 DEF IInv, ShopSound, CatalogueSound, IndexesAgree, ResendSound
<1> QED
  BY <1>2, <1>3, <1>5, <1>6 DEF IInv, ShopSound

LEMMA NextIInv == IInv /\ [Next]_vars => IInv'
<1> SUFFICES ASSUME IInv, [Next]_vars
             PROVE  IInv'
  OBVIOUS
<1>1. ASSUME NEW r \in Request, ServerStep(r)
      PROVE  IInv'
  BY <1>1, ReadingInv, CreateArticleInv, ResendCreateArticleInv, SaveArticleInv, RemoveArticleInv, LookUpInv,
     PlaceOrderInv, ResendPlaceOrderInv, ConfirmPaymentInv, FailPaymentInv DEF ServerStep
<1>2. CASE Environment /\ UNCHANGED indexVars
  <2>1. UNCHANGED <<article, minted, order>>
    BY <1>2 DEF Environment
  <2> QED
    BY <1>2, <2>1, ReadingInv, OutsideInv DEF Environment
<1>3. CASE UNCHANGED vars
  <2>1. UNCHANGED <<req, wallet, receipt, article, minted, order, articleIndex, orderIndex,
                    buyerIndex, claim>>
    BY <1>3 DEF vars, shopVars, indexVars
  <2> QED
    BY <2>1 DEF IInv, TypeOK, ShopTypeOK, ServicesTypeOK, ShopSound, CatalogueSound, OrdersSound,
                PaidIsPaid, RequestSound, Valid, IndexesAgree, ResendSound
<1> QED
  BY <1>1, <1>2, <1>3 DEF Next

LEMMA Invariance == Spec => []IInv
<1> QED
  BY InitIInv, NextIInv, PTL DEF Spec

-----------------------------------------------------------------------------
(* What holds of the shop on Redis whatever is re-sent. *)

\* The requests, the chain and every key keep their types: in particular a total
\* is always an amount, a basket never grows past its bound, and an article is
\* never saved under an id that was not given out.
THEOREM TypesHold == Spec => []TypeOK
BY Invariance, PTL DEF IInv

\* Every listed article exists, and an order is listed for the shop and for its
\* buyer exactly when it exists.
THEOREM IndexesHold == Spec => []IndexesAgree
BY Invariance, PTL DEF IInv

\* A paid order really was paid, to the address and at the prices of checkout.
THEOREM PaidHolds == Spec => []PaidIsPaid
<1>1. IInv => PaidIsPaid
  BY DEF IInv, ShopSound
<1> QED
  BY <1>1, Invariance, PTL

\* No article is ever oversold, even by scripts that run twice.
THEOREM NotOversold == Spec => []NeverOversold
<1>1. IInv => NeverOversold
  <2> SUFFICES ASSUME IInv, NEW a \in DOMAIN article
               PROVE  ReadArticle(a).quantity >= 0
    BY DEF NeverOversold, Store!StockNeverNegative
  <2>1. ReadArticle(a).quantity \in Nat
    BY ReadArticleType DEF IInv, TypeOK, ShopTypeOK, ShopSound
  <2> QED
    BY <2>1
<1> QED
  BY <1>1, Invariance, PTL

\* The steps that read or write requests and articles leave the orders alone.
LEMMA OrderSteps ==
    ASSUME [Next]_vars
    PROVE  \/ UNCHANGED <<order, claim>>
           \/ \E r \in Request : PlaceOrder(r) \/ ResendPlaceOrder(r) \/ ConfirmPayment(r)
                                \/ FailPayment(r)
<1>1. ASSUME NEW r \in Request, ServerStep(r)
      PROVE  \/ UNCHANGED <<order, claim>>
             \/ PlaceOrder(r) \/ ResendPlaceOrder(r) \/ ConfirmPayment(r) \/ FailPayment(r)
  BY <1>1 DEF ServerStep, articleVars, orderVars, indexVars, CreateArticle, ResendCreateArticle,
              ReadForUpdate, SaveArticle, RemoveArticle, LookUp, FindOrder, RereadOrder
<1>2. CASE Environment /\ UNCHANGED indexVars
  BY <1>2 DEF Environment, indexVars
<1>3. CASE UNCHANGED vars
  BY <1>3 DEF vars, shopVars, indexVars
<1> QED
  BY <1>1, <1>2, <1>3 DEF Next

\* A run of PLACE_ORDER leaves every order as it was, or pending.
LEMMA PlaceLeavesPending ==
    ASSUME order \in [OrderId -> Order \cup {NoOrder}], NEW id \in OrderId, NEW draft,
           PLACE_ORDER(id, draft), NEW o \in OrderId
    PROVE  order'[o] = order[o] \/ order'[o].status = "PENDING"
<1>1. HSetOrder(order[id], draft).status = "PENDING"
  BY DEF HSetOrder, Pending
<1> QED
  BY <1>1 DEF PLACE_ORDER

LEMMA NextBuyerPays == IInv /\ [Next]_vars => BuyerPays
<1> SUFFICES ASSUME IInv, [Next]_vars
             PROVE  BuyerPays
  OBVIOUS
<1>1. order \in [OrderId -> Order \cup {NoOrder}]
  BY InvKeys DEF Keys
<1>2. CASE UNCHANGED order
  BY <1>2, NonePaid
<1>3. ASSUME NEW r \in Request, PlaceOrder(r)
      PROVE  BuyerPays
  <2>1. PICK id \in FreshId : PLACE_ORDER(id, DraftOf(req[r]))
    BY <1>3 DEF PlaceOrder
  <2> QED
    BY <1>1, <2>1, PlaceLeavesPending, NonePaid DEF FreshId
<1>4. ASSUME NEW r \in Request, ResendPlaceOrder(r)
      PROVE  BuyerPays
  <2>1. req[r].id \in OrderId
    BY <1>4, InvRequest DEF ResendPlaceOrder, ResendAt
  <2> QED
    BY <1>1, <1>4, <2>1, PlaceLeavesPending, NonePaid DEF ResendPlaceOrder
<1>5. ASSUME NEW r \in Request, ConfirmPayment(r)
      PROVE  BuyerPays
  <2>1. req[r].pc = "settle" /\ req[r] \in RequestState /\ RequestSound(r)
    BY <1>5, InvRequest DEF ConfirmPayment
  <2>2. CONFIRM_PAYMENT(req[r].order, req[r].hash)
    BY <1>5 DEF ConfirmPayment
  <2> QED
    BY <1>1, <1>2, <2>1, <2>2, PaidByBuyer DEF CONFIRM_PAYMENT
<1>6. ASSUME NEW r \in Request, FailPayment(r)
      PROVE  BuyerPays
  <2>1. req[r].order \in OrderId
    BY <1>6, InvRequest, AtPayment DEF FailPayment, ReleaseAt
  <2>2. order' = order \/ order' = OrderFailed(req[r].order)
    BY <1>6 DEF FailPayment, FAIL_PAYMENT
  <2>3. \A o \in OrderId : order'[o] = order[o] \/ order'[o].status # "PAID"
    BY <1>1, <2>1, <2>2 DEF OrderFailed, Order, NoOrder
  <2> QED
    BY <2>3, NonePaid
<1> QED
  BY <1>2, <1>3, <1>4, <1>5, <1>6, OrderSteps

\* An order is paid only by its buyer, with a transfer that the chain has vouched
\* for, of its total, to its address.
THEOREM BuyerAlonePays == Spec => OnlyTheBuyerPays
<1>1. IInv /\ [Next]_vars => [BuyerPays]_shopVars
  BY NextBuyerPays
<1> QED
  BY <1>1, Invariance, PTL DEF Spec, OnlyTheBuyerPays, BuyerPays

-----------------------------------------------------------------------------
(* What holds besides when no script is run twice. *)

OnceMove(r) == (req[r].pc # "resend" /\ Truthful(r))'

LEMMA SaysNothing ==
    ASSUME NEW r \in Request, req'[r].pc \notin Telling \cup {"resend"}
    PROVE  OnceMove(r)
BY TellsNothing DEF OnceMove

\* What a request that does not move has said stays true.
LEMMA OthersTell ==
    ASSUME IInv, OnceInv, SettledStay, NEW r \in Request, req'[r] = req[r]
    PROVE  OnceMove(r)
<1>1. req[r] \in RequestState /\ Truthful(r) /\ req[r].pc # "resend"
  BY InvRequest DEF OnceInv, AnswersStayTrue, AnswerTrue, Truthful
<1> QED
  BY <1>1, StaysTrue DEF OnceMove

\* A step keeps OnceInv when it leaves settled orders and the claims in order, and
\* the request that moves says what is so.
LEMMA OnceStep ==
    ASSUME IInv, OnceInv, SettledStay, ClaimsMatchOrders',
           \A r \in Request : req'[r] = req[r] \/ OnceMove(r)
    PROVE  OnceInv'
<1>1. \A r \in Request : OnceMove(r)
  BY OthersTell
<1> QED
  BY <1>1 DEF OnceMove, OnceInv, AnswersStayTrue, AnswerTrue, Truthful

LEMMA InitOnceInv == Init => OnceInv
<1> SUFFICES ASSUME Init
             PROVE  OnceInv
  OBVIOUS
<1>1. /\ req = [r \in Request |-> Idle]
      /\ order = [o \in OrderId |-> NoOrder]
      /\ claim = [h \in Hash |-> Null]
  BY DEF Init, ShopInit, ServicesInit
<1>2. ClaimsMatchOrders
  BY <1>1, RedisAssumption DEF ClaimsMatchOrders, NoOrder
<1> QED
  BY <1>1, <1>2 DEF OnceInv, RereadSound, AnswersStayTrue, Idle

\* A step that touches no order and no claim.
LEMMA QuietOnce ==
    ASSUME IInv, OnceInv, UNCHANGED <<order, claim>>,
           \A r \in Request : req'[r] = req[r] \/ OnceMove(r)
    PROVE  OnceInv'
<1>1. SettledStay /\ ClaimsMatchOrders'
  BY DEF SettledStay, OnceInv, ClaimsMatchOrders
<1> QED
  BY <1>1, OnceStep

\* The steps that change no order and take their request to where it says nothing.
LEMMA OtherStepsOnce ==
    ASSUME IInv, OnceInv, NEW r \in Request,
           \/ ServiceStep(r) /\ UNCHANGED <<articleVars, orderVars>>
           \/ CreateArticle(r)
           \/ ResendCreateArticle(r)
           \/ ReadForUpdate(r) /\ UNCHANGED indexVars
           \/ SaveArticle(r)
           \/ RemoveArticle(r)
           \/ LookUp(r)
           \/ FindOrder(r) /\ UNCHANGED indexVars
           \/ RereadOrder(r) /\ UNCHANGED indexVars
           \/ (Receive(r) \/ Crash(r)) /\ UNCHANGED <<article, minted, order>>
              /\ UNCHANGED indexVars
    PROVE  OnceInv'
<1>1. req \in [Request -> RequestState \cup ResendAt]
  BY InvRequest
<1>2. UNCHANGED <<order, claim>>
  BY DEF articleVars, orderVars, indexVars, CreateArticle, ResendCreateArticle, ReadForUpdate,
         SaveArticle, RemoveArticle, LookUp, FindOrder, RereadOrder
<1>3. \A s \in Request \ {r} : req'[s] = req[s]
  <2>1. ASSUME CreateArticle(r) \/ ResendCreateArticle(r) \/ SaveArticle(r) \/ RemoveArticle(r)
        PROVE  \E next : Goto(r, next)
    BY <2>1 DEF CreateArticle, ResendCreateArticle, SaveArticle, RemoveArticle, Replied
  <2>2. ASSUME \/ ServiceStep(r) \/ Receive(r) \/ Crash(r)
               \/ ReadForUpdate(r) \/ LookUp(r) \/ FindOrder(r) \/ RereadOrder(r)
        PROVE  \E next : Goto(r, next)
    BY <2>2, ServiceStepMoves, ReceiveMoves DEF ReadForUpdate, LookUp, FindOrder, RereadOrder
  <2>3. \E next : Goto(r, next)
    BY <2>1, <2>2
  <2> QED
    BY <1>1, <2>3 DEF Goto
<1>4. Truthful(r)
  BY DEF OnceInv, AnswersStayTrue, AnswerTrue, Truthful
<1>5. OnceMove(r)
  <2>1. CASE ServiceStep(r) \/ ReadForUpdate(r) \/ FindOrder(r) \/ RereadOrder(r)
             \/ Receive(r) \/ Crash(r)
    BY <1>1, <1>4, <2>1, SharedStepTells DEF OnceMove
  <2>2. CASE CreateArticle(r) \/ ResendCreateArticle(r) \/ SaveArticle(r) \/ RemoveArticle(r)
    <3>1. req'[r].pc \in {"answered", "recreate", "save", "remove"}
      BY <1>1, <2>2 DEF CreateArticle, ResendCreateArticle, SaveArticle, RemoveArticle, Replied,
                        Goto, Answer
    <3> QED
      BY <3>1, SaysNothing DEF Telling
  <2>3. CASE LookUp(r)
    <3>1. req[r] \in CheckoutAt
      BY <2>3, InvRequest, AtCheckout DEF LookUp
    <3>2. req'[r].pc \in {"lookup", "place", "answered"}
      BY <1>1, <2>3, <3>1 DEF LookUp, Priced, Goto, Answer, CheckoutAt
    <3> QED
      BY <3>2, SaysNothing DEF Telling
  <2> QED
    BY <2>1, <2>2, <2>3
<1> QED
  BY <1>2, <1>3, <1>5, QuietOnce

\* Without re-sending, a checkout leaves everything as it was, or takes its pieces and
\* places its order under an id that had none.
LEMMA PlaceOrderOnce ==
    ASSUME ~Resends, IInv, NEW r \in Request, PlaceOrder(r)
    PROVE  /\ \E draft \in OrderDraft : Goto(r, PlaceAnswer(draft))
           /\ UNCHANGED claim
           /\ \/ UNCHANGED <<article, order>>
              \/ \E id \in OrderId, draft \in OrderDraft :
                    /\ order[id] = NoOrder
                    /\ order' = [order EXCEPT ![id] = Pending(draft)]
                    /\ \A i \in DOMAIN draft.items :
                          /\ draft.items[i].articleId \in DOMAIN article
                          /\ ReadArticle(draft.items[i].articleId).quantity
                                 >= draft.items[i].quantity
                    /\ DOMAIN article' = DOMAIN article
                    /\ \A a \in DOMAIN article : ReadArticle(a).quantity' =
                          ReadArticle(a).quantity - Pieces(draft.items, a)
<1> DEFINE draft == DraftOf(req[r])
<1>1. PICK id \in FreshId : PLACE_ORDER(id, draft) /\ Goto(r, PlaceAnswer(draft))
  BY DEF PlaceOrder, Replied
<1>2. id \in OrderId /\ order[id] = NoOrder
  BY DEF FreshId
<1>3. req[r] \in PlaceAt /\ RequestSound(r)
  BY InvRequest, AtCheckout DEF PlaceOrder
<1>4. draft \in OrderDraft /\ draft.total = PriceOf(draft.items)
  BY <1>3 DEF DraftOf, PlaceAt, OrderDraft, RequestSound, PlaceOrder, IInv, TypeOK, ShopTypeOK,
              ServicesTypeOK
<1>5. UNCHANGED claim /\ UNCHANGED receipt /\ UNCHANGED articleIndex
  BY DEF PlaceOrder, envVars
<1> HIDE DEF draft
<1>6. CASE \E i \in DOMAIN draft.items : Short(draft.items[i])
  BY <1>1, <1>4, <1>5, <1>6, PlaceRefused
<1>7. CASE \A i \in DOMAIN draft.items : ~Short(draft.items[i])
  <2>1. Keys
    BY InvKeys
  <2>2. /\ DOMAIN article' = DOMAIN article
        /\ \A a \in DOMAIN article : ReadArticle(a).quantity' =
              ReadArticle(a).quantity - Pieces(draft.items, a)
        /\ order' = [order EXCEPT ![id] = HSetOrder(order[id], draft)]
    BY <1>1, <1>2, <1>4, <1>5, <1>7, <2>1, PlaceDone
  <2>3. order' = [order EXCEPT ![id] = Pending(draft)]
    BY <1>2, <2>2 DEF HSetOrder
  <2>4. draft.items \in Items
    BY <1>4 DEF OrderDraft
  <2>5. \A i \in DOMAIN draft.items :
            /\ draft.items[i].articleId \in DOMAIN article
            /\ ReadArticle(draft.items[i].articleId).quantity >= draft.items[i].quantity
    BY <1>7, <2>1, <2>4, NotShort DEF Keys
  <2> QED
    BY <1>1, <1>2, <1>4, <1>5, <2>2, <2>3, <2>5
<1> QED
  BY <1>6, <1>7

LEMMA PlaceOnceInv ==
    ASSUME ~Resends, IInv, OnceInv, NEW r \in Request, PlaceOrder(r)
    PROVE  OnceInv'
<1>1. req \in [Request -> RequestState \cup ResendAt]
  BY InvRequest
<1>2. PICK draft \in OrderDraft : Goto(r, PlaceAnswer(draft))
  BY PlaceOrderOnce
<1>3. req'[r] = PlaceAnswer(draft) /\ \A s \in Request \ {r} : req'[s] = req[s]
  BY <1>1, <1>2 DEF Goto
<1>4. OnceMove(r)
  <2>1. req'[r].pc \in {"answered", "soldout"}
    BY <1>3 DEF PlaceAnswer, Answer
  <2> QED
    BY <2>1, SaysNothing DEF Telling
<1>5. \/ UNCHANGED order
      \/ \E id \in OrderId : \E new : /\ order[id] = NoOrder /\ new.status = "PENDING"
                                      /\ order' = [order EXCEPT ![id] = new]
  BY PlaceOrderOnce DEF Pending
<1>6. order \in [OrderId -> Order \cup {NoOrder}]
  BY DEF IInv, TypeOK, ShopTypeOK
<1>7. SettledStay /\ ClaimsMatchOrders'
  <2>1. UNCHANGED claim
    BY PlaceOrderOnce
  <2>2. CASE UNCHANGED order
    BY <2>1, <2>2 DEF SettledStay, OnceInv, ClaimsMatchOrders
  <2>3. ASSUME NEW id \in OrderId, NEW new, order[id] = NoOrder, new.status = "PENDING",
               order' = [order EXCEPT ![id] = new]
        PROVE  SettledStay /\ ClaimsMatchOrders'
    <3>1. order'[id] = new /\ \A p \in OrderId \ {id} : order'[p] = order[p]
      BY <1>6, <2>3
    <3>2. SettledStay
      BY <2>3, <3>1 DEF SettledStay, NoOrder
    <3>3. ClaimsMatchOrders'
      BY <2>1, <2>3, <3>1 DEF OnceInv, ClaimsMatchOrders, NoOrder
    <3> QED
      BY <3>2, <3>3
  <2> QED
    BY <1>5, <2>2, <2>3
<1> QED
  BY <1>3, <1>4, <1>7, OnceStep

LEMMA ConfirmOnceInv ==
    ASSUME ~Resends, IInv, OnceInv, NEW r \in Request, ConfirmPayment(r)
    PROVE  OnceInv'
<1> DEFINE o == req[r].order
           h == req[r].hash
<1>1. /\ req \in [Request -> RequestState \cup ResendAt]
      /\ req[r] \in RequestState /\ req[r] \in SettleAt /\ RequestSound(r)
  BY InvRequest, AtPayment DEF ConfirmPayment
<1>2. o \in OrderId /\ h \in Hash /\ h # Null
  BY <1>1, TypesAssumption DEF SettleAt
<1>3. Valid(h, order[o].walletAddress, order[o].total)
  BY <1>1 DEF RequestSound, ConfirmPayment
<1>4. /\ CONFIRM_PAYMENT(o, h)
      /\ UNCHANGED <<receipt, article, articleIndex, orderIndex, buyerIndex>>
      /\ Goto(r, IF AwaitsPayment(o) /\ CanClaim(o, h)
                 THEN [pc |-> "reread", order |-> o, hash |-> h]
                 ELSE Refusal(ConfirmRefusal(o)))
  BY DEF ConfirmPayment, Replied, envVars, articleVars
<1>5. Keys
  BY InvKeys
<1>6. CASE AwaitsPayment(o) /\ CanClaim(o, h)
  <2>1. /\ claim' = [claim EXCEPT ![h] = o]
        /\ order'[o].status = "PAID" /\ order'[o].transactionHash = h
        /\ \A p \in OrderId \ {o} : order'[p] = order[p]
    BY <1>2, <1>3, <1>4, <1>5, <1>6, ConfirmDone
  <2>2. req'[r] = [pc |-> "reread", order |-> o, hash |-> h]
        /\ \A s \in Request \ {r} : req'[s] = req[s]
    BY <1>1, <1>4, <1>6 DEF Goto
  <2>3. OnceMove(r)
    BY <1>2, <2>1, <2>2 DEF OnceMove, Truthful, RereadSound, AnswerTrue
  <2>4. SettledStay
    BY <1>6, <2>1 DEF SettledStay, AwaitsPayment
  <2>5. ClaimsMatchOrders'
    <3>1. claim \in [Hash -> OrderId \cup {Null}] /\ Null \notin OrderId
      BY RedisAssumption DEF IInv, TypeOK
    <3>2. claim'[h] = o /\ \A k \in Hash \ {h} : claim'[k] = claim[k]
      BY <1>2, <2>1, <3>1
    <3>3. \A p \in OrderId \ {o} : claim[h] # p
      BY <1>6, <3>1 DEF CanClaim
    <3>4. \A k \in Hash : claim[k] # o
      BY <1>2, <1>6 DEF OnceInv, ClaimsMatchOrders, AwaitsPayment
    <3> HIDE DEF o, h
    <3>5. ASSUME NEW k \in Hash, NEW p \in OrderId
          PROVE  claim'[k] = p <=> order'[p].status = "PAID" /\ order'[p].transactionHash = k
      <4>1. claim[k] = p <=> order[p].status = "PAID" /\ order[p].transactionHash = k
        BY DEF OnceInv, ClaimsMatchOrders
      <4>2. CASE p = o
        BY <2>1, <3>2, <3>4, <4>2
      <4>3. CASE p # o
        BY <2>1, <3>2, <3>3, <4>1, <4>3
      <4> QED
        BY <4>2, <4>3
    <3> QED
      BY <3>5 DEF ClaimsMatchOrders
  <2> QED
    BY <2>2, <2>3, <2>4, <2>5, OnceStep
<1>7. CASE ~(AwaitsPayment(o) /\ CanClaim(o, h))
  <2>1. UNCHANGED <<order, claim>>
    BY <1>4, <1>7 DEF CONFIRM_PAYMENT
  <2>2. req'[r] = Refusal(ConfirmRefusal(o)) /\ \A s \in Request \ {r} : req'[s] = req[s]
    BY <1>1, <1>4, <1>7 DEF Goto
  <2>3. OnceMove(r)
    BY <2>2, SaysNothing DEF Refusal, Answer, Telling
  <2> QED
    BY <2>1, <2>2, <2>3, QuietOnce
<1> QED
  BY <1>6, <1>7

LEMMA FailOnceInv ==
    ASSUME ~Resends, IInv, OnceInv, NEW r \in Request, FailPayment(r)
    PROVE  OnceInv'
<1> DEFINE o == req[r].order
<1>1. /\ req \in [Request -> RequestState \cup ResendAt]
      /\ req[r] \in RequestState /\ req[r] \in ReleaseAt
  BY InvRequest, AtPayment DEF FailPayment
<1>2. o \in OrderId
  BY <1>1 DEF ReleaseAt
<1>3. /\ FAIL_PAYMENT(o)
      /\ UNCHANGED <<receipt, articleIndex, orderIndex, buyerIndex, claim>>
      /\ Goto(r, IF AwaitsPayment(o)
                 THEN [pc |-> "reread", order |-> o, hash |-> Null]
                 ELSE Refusal(FailRefusal(o)))
  BY DEF FailPayment, Replied, envVars
<1>4. CASE AwaitsPayment(o)
  <2>1. order'[o].status = "FAILED" /\ \A p \in OrderId \ {o} : order'[p] = order[p]
    BY <1>2, <1>3, <1>4, InvKeys, FailDone
  <2>2. req'[r] = [pc |-> "reread", order |-> o, hash |-> Null]
        /\ \A s \in Request \ {r} : req'[s] = req[s]
    BY <1>1, <1>3, <1>4 DEF Goto
  <2>3. OnceMove(r)
    BY <2>1, <2>2 DEF OnceMove, Truthful, RereadSound, AnswerTrue
  <2>4. SettledStay
    BY <1>4, <2>1 DEF SettledStay, AwaitsPayment
  <2>5. ClaimsMatchOrders'
    BY <1>3, <1>4, <2>1 DEF OnceInv, ClaimsMatchOrders, AwaitsPayment
  <2> QED
    BY <2>2, <2>3, <2>4, <2>5, OnceStep
<1>5. CASE ~AwaitsPayment(o)
  <2>1. UNCHANGED <<order, claim>>
    BY <1>3, <1>5 DEF FAIL_PAYMENT
  <2>2. req'[r] = Refusal(FailRefusal(o)) /\ \A s \in Request \ {r} : req'[s] = req[s]
    BY <1>1, <1>3, <1>5 DEF Goto
  <2>3. OnceMove(r)
    BY <2>2, SaysNothing DEF Refusal, Answer, Telling
  <2> QED
    BY <2>1, <2>2, <2>3, QuietOnce
<1> QED
  BY <1>4, <1>5

LEMMA NextOnceInv ==
    ASSUME ~Resends
    PROVE  IInv /\ OnceInv /\ [Next]_vars => OnceInv'
<1> SUFFICES ASSUME IInv, OnceInv, [Next]_vars
             PROVE  OnceInv'
  OBVIOUS
<1>1. ASSUME NEW r \in Request, ServerStep(r)
      PROVE  OnceInv'
  <2>1. ~ResendPlaceOrder(r)
    BY DEF OnceInv, ResendPlaceOrder
  <2> QED
    BY <1>1, <2>1, OtherStepsOnce, PlaceOnceInv, ConfirmOnceInv, FailOnceInv DEF ServerStep
<1>2. CASE Environment /\ UNCHANGED indexVars
  <2>1. UNCHANGED <<article, minted, order>>
    BY <1>2 DEF Environment
  <2>2. CASE (\E t \in Tx : Mine(t)) \/ Reconfigure
    BY <1>2, <2>1, <2>2, QuietOnce DEF Mine, Reconfigure, indexVars
  <2>3. CASE \E r \in Request : Receive(r) \/ Crash(r)
    BY <1>2, <2>1, <2>3, OtherStepsOnce
  <2> QED
    BY <1>2, <2>2, <2>3 DEF Environment
<1>3. CASE UNCHANGED vars
  BY <1>3, QuietOnce DEF vars, shopVars, indexVars
<1> QED
  BY <1>1, <1>2, <1>3 DEF Next

LEMMA OnceInvariance ==
    ASSUME ~Resends
    PROVE  Spec => [](IInv /\ OnceInv)
<1> QED
  BY InitIInv, InitOnceInv, NextIInv, NextOnceInv, PTL DEF Spec

\* A payment:<hash> key is there exactly when the order it names was paid by that hash:
\* CONFIRM_PAYMENT strands no claim, and pays no order without one.
THEOREM ClaimsHold ==
    ASSUME ~Resends
    PROVE  Spec => []ClaimsMatchOrders
BY OnceInvariance, PTL DEF OnceInv

\* A customer told that an order is paid, or an integration told that its stock is
\* released, is never contradicted by the store later.
THEOREM AnswersHold ==
    ASSUME ~Resends
    PROVE  Spec => []AnswersStayTrue
BY OnceInvariance, PTL DEF OnceInv

-----------------------------------------------------------------------------
(* The contract of the stores, and the pieces.  Shelf = Nat: the contract    *)
(* lets the admin save any number of pieces, and an update that was          *)
(* computed from what the article had before an order took or gave back      *)
(* pieces writes a number that no admin entered.                             *)

\* A write of one article's hash, as the contract sees it.
LEMMA SavedInContract ==
    ASSUME Shelf = Nat, IInv, NEW a \in Article, NEW data \in ArticleData,
           data.quantity \in Nat \cup {Null},
           article' = HSetArticle(a, data), UNCHANGED order
    PROVE  Store!Next
<1>1. article \in [DOMAIN article -> ArticleData] /\ CatalogueSound
  BY DEF IInv, TypeOK, ShopTypeOK, ShopSound
<1>2. /\ article' \in [DOMAIN article \cup {a} -> ArticleData]
      /\ article'[a].quantity \in Nat \cup {Null}
      /\ \A x \in DOMAIN article \ {a} : article'[x] = article[x]
  <2>1. WrittenAt(a, HSetArticle(a, data))
    BY <1>1, HSetArticleType
  <2> QED
    BY <2>1 DEF WrittenAt
<1> DEFINE quantity == ReadArticle(a).quantity'
<1>3. quantity \in Shelf
  BY <1>2 DEF ReadArticle, ReadNumber
<1>4. DOMAIN article' = DOMAIN article \cup {a}
  BY <1>2
<1>5. \A x \in DOMAIN article' :
          ReadArticle(x).quantity' = IF x = a THEN quantity ELSE ReadArticle(x).quantity
  BY <1>2, <1>4 DEF ReadArticle, ReadNumber
<1> HIDE DEF quantity
<1> QED
  BY <1>3, <1>4, <1>5, ContractSave

\* Every step of every interleaving is one step of the contract, or none, and moves
\* pieces only between the shelf and the order that accounts for them.
LEMMA ServerStepInContract ==
    ASSUME ~Resends, Shelf = Nat, IInv, OnceInv, NEW r \in Request, ServerStep(r)
    PROVE  [Store!Next]_(Store!vars)
<1>1. CASE UNCHANGED <<article, order>>
  BY <1>1, ContractStutter
<1>2. CASE CreateArticle(r)
  <2>1. req[r].data \in ArticleData /\ req[r].data.quantity \in Nat \cup {Null}
    BY <1>2, InvRequest, AtCatalogue, NewArticleType DEF CreateArticle, CreateAt
  <2>2. PICK a \in Article : article' = HSetArticle(a, req[r].data)
    BY <1>2 DEF CreateArticle
  <2>3. UNCHANGED order
    BY <1>2 DEF CreateArticle, orderVars
  <2> QED
    BY <2>1, <2>2, <2>3, SavedInContract
<1>3. CASE SaveArticle(r)
  <2>1. /\ req[r].data \in ArticleData /\ req[r].data.quantity \in Nat \cup {Null}
        /\ req[r].article \in Article
    BY <1>3, InvRequest, AtCatalogue DEF SaveArticle, SaveAt, RequestSound
  <2>2. article' = HSetArticle(req[r].article, req[r].data) /\ UNCHANGED order
    BY <1>3 DEF SaveArticle, orderVars
  <2> QED
    BY <2>1, <2>2, SavedInContract
<1>4. CASE RemoveArticle(r)
  <2>1. req[r].article \in Article
    BY <1>4, InvRequest, AtCatalogue DEF RemoveArticle, RemoveAt
  <2>2. /\ article' = [x \in DOMAIN article \ {req[r].article} |-> article[x]]
        /\ UNCHANGED order
    BY <1>4 DEF RemoveArticle, orderVars
  <2> QED
    BY <2>1, <2>2, ContractDelete
<1>5. CASE PlaceOrder(r)
  BY <1>1, <1>5, PlaceOrderOnce, ContractPlace
<1>6. CASE ConfirmPayment(r)
  <2> DEFINE o == req[r].order
             h == req[r].hash
  <2>1. o \in OrderId /\ h \in Hash
    BY <1>6, InvRequest, AtPayment DEF ConfirmPayment, SettleAt
  <2>2. CONFIRM_PAYMENT(o, h) /\ UNCHANGED article
    BY <1>6 DEF ConfirmPayment, articleVars
  <2>3. CASE AwaitsPayment(o) /\ CanClaim(o, h)
    <3>1. order' = OrderPaid(o, h)
      BY <2>2, <2>3 DEF CONFIRM_PAYMENT
    <3>2. \A p \in OrderId : order[p].status = "PAID" => order[p].transactionHash # h
      <4>1. \A p \in OrderId : claim[h] = p <=>
                order[p].status = "PAID" /\ order[p].transactionHash = h
        BY <2>1 DEF OnceInv, ClaimsMatchOrders
      <4>2. claim[h] # o
        BY <2>1, <2>3, <4>1 DEF AwaitsPayment
      <4>3. claim[h] = Null
        BY <2>3, <4>2 DEF CanClaim
      <4> QED
        BY <4>1, <4>3, RedisAssumption
    <3> HIDE DEF o, h
    <3> QED
      BY <2>1, <2>2, <2>3, <3>1, <3>2, ContractPay
  <2>4. CASE ~(AwaitsPayment(o) /\ CanClaim(o, h))
    BY <1>1, <2>2, <2>4 DEF CONFIRM_PAYMENT
  <2> QED
    BY <2>3, <2>4
<1>7. CASE FailPayment(r)
  <2> DEFINE o == req[r].order
  <2>1. o \in OrderId
    BY <1>7, InvRequest, AtPayment DEF FailPayment, ReleaseAt
  <2>2. /\ FAIL_PAYMENT(o)
        /\ UNCHANGED <<receipt, articleIndex, orderIndex, buyerIndex>>
    BY <1>7 DEF FailPayment, envVars
  <2>3. CASE AwaitsPayment(o)
    <3>1. /\ DOMAIN article' = DOMAIN article
          /\ \A a \in DOMAIN article :
                ReadArticle(a).quantity' = ReadArticle(a).quantity + Pieces(order[o].items, a)
          /\ order' = OrderFailed(o)
      BY <2>1, <2>2, <2>3, InvKeys, FailDone
    <3> HIDE DEF o
    <3> QED
      BY <2>1, <2>3, <3>1, ContractFail
  <2>4. CASE ~AwaitsPayment(o)
    BY <1>1, <2>2, <2>4 DEF FAIL_PAYMENT
  <2> QED
    BY <2>3, <2>4
<1>8. ~ResendPlaceOrder(r)
  BY DEF OnceInv, ResendPlaceOrder
<1>9. CASE ResendCreateArticle(r)
  <2>1. /\ req[r].data \in ArticleData /\ req[r].data.quantity \in Nat \cup {Null}
        /\ req[r].article \in Article
    BY <1>9, InvRequest, AtCatalogue, NewArticleType DEF ResendCreateArticle, RecreateAt
  <2>2. article' = HSetArticle(req[r].article, req[r].data) /\ UNCHANGED order
    BY <1>9 DEF ResendCreateArticle, orderVars
  <2> QED
    BY <2>1, <2>2, SavedInContract
<1> QED
  BY <1>1, <1>2, <1>3, <1>4, <1>5, <1>6, <1>7, <1>8, <1>9
     DEF ServerStep, articleVars, orderVars, ReadForUpdate, LookUp, FindOrder, RereadOrder

LEMMA NextInContract ==
    ASSUME ~Resends, Shelf = Nat
    PROVE  IInv /\ OnceInv /\ [Next]_vars => [Store!Next]_(Store!vars)
<1> SUFFICES ASSUME IInv, OnceInv, [Next]_vars
             PROVE  [Store!Next]_(Store!vars)
  OBVIOUS
<1>1. CASE UNCHANGED <<article, order>>
  BY <1>1, ContractStutter
<1> QED
  BY <1>1, ServerStepInContract DEF Next, Environment, vars, shopVars

\* The shop on Redis implements the contract of the order store: seen from outside
\* its scripts, checkout and both payment results are indivisible.
THEOREM ImplementsContract ==
    ASSUME ~Resends, Shelf = Nat
    PROVE  Spec => ImplementsOrderStore
<1>1. Init => Store!Init
  <2>1. Quantity \subseteq Shelf
    BY TypesAssumption
  <2> QED
    BY <2>1, ContractInit DEF Init
<1> QED
  BY <1>1, NextInContract, OnceInvariance, PTL DEF Spec, ImplementsOrderStore, Store!Spec

\* ... so one transfer hash settles one order, and a settled order never changes.
THEOREM Settlement ==
    ASSUME ~Resends, Shelf = Nat
    PROVE  Spec => []HashesSettleOnce /\ OrdersSettleOnce
BY ImplementsContract, SettledByContract, PTL DEF ImplementsOrderStore

-----------------------------------------------------------------------------
(* Pieces are neither made nor lost.  The orders of a shop are finitely      *)
(* many, or there would be no number of pieces that they take together.      *)

\* A write of the admin's moves nothing but its request.
LEMMA CatalogueWrites ==
    ASSUME IInv, NEW r \in Request,
           CreateArticle(r) \/ ResendCreateArticle(r) \/ SaveArticle(r) \/ RemoveArticle(r)
    PROVE  CatalogueWrite
<1>1. req[r].pc \in {"create", "recreate", "save", "remove"} /\ order' = order
  BY DEF CreateArticle, ResendCreateArticle, SaveArticle, RemoveArticle, orderVars
<1>2. \E next : Goto(r, next)
  BY DEF CreateArticle, ResendCreateArticle, SaveArticle, RemoveArticle, Replied
<1>3. \A s \in Request \ {r} : req'[s] = req[s]
  BY <1>2, InvRequest DEF Goto
<1> QED
  BY <1>1, <1>3 DEF CatalogueWrite

LEMMA PlaceConserves ==
    ASSUME ~Resends, IsFiniteSet(OrderId), IInv, IInv', NEW r \in Request, PlaceOrder(r)
    PROVE  ConservingStep
<1>1. CASE UNCHANGED <<article, order>>
  BY <1>1, NothingMovesConserves
<1>2. ASSUME NEW id \in OrderId, NEW draft \in OrderDraft,
             order[id] = NoOrder, order' = [order EXCEPT ![id] = Pending(draft)],
             DOMAIN article' = DOMAIN article,
             \A a \in DOMAIN article : ReadArticle(a).quantity' =
                 ReadArticle(a).quantity - Pieces(draft.items, a)
      PROVE  ConservingStep
  <2>1. /\ order \in [OrderId -> Order \cup {NoOrder}]
        /\ order' \in [OrderId -> Order \cup {NoOrder}]
        /\ article \in [DOMAIN article -> ArticleData] /\ CatalogueSound
    BY DEF IInv, TypeOK, ShopTypeOK, ShopSound
  <2>2. order'[id] = Pending(draft) /\ \A p \in OrderId \ {id} : order'[p] = order[p]
    BY <1>2, <2>1
  <2>3. \A a : Taken(order[id], a) = 0 /\ Taken(order'[id], a) = Pieces(draft.items, a)
    BY <1>2, <2>2 DEF Taken, NoOrder, Pending
  <2>4. draft.items \in Items
    BY DEF OrderDraft
  <2>5. ASSUME NEW a \in DOMAIN article
        PROVE  /\ ReadArticle(a).quantity \in Int
               /\ ReadArticle(a).quantity' =
                     ReadArticle(a).quantity + Taken(order[id], a) - Taken(order'[id], a)
    <3>1. ReadArticle(a).quantity \in Nat
      BY <2>1, ReadArticleType
    <3>2. Pieces(draft.items, a) \in Nat
      BY <2>4, PiecesOf
    <3> QED
      BY <1>2, <2>3, <3>1, <3>2
  <2> QED
    BY <1>2, <2>1, <2>2, <2>5, OneOrderConserves
<1> QED
  BY <1>1, <1>2, PlaceOrderOnce

LEMMA FailConserves ==
    ASSUME IsFiniteSet(OrderId), IInv, IInv', NEW r \in Request, FailPayment(r)
    PROVE  ConservingStep
<1> DEFINE o == req[r].order
<1>1. o \in OrderId
  BY InvRequest, AtPayment DEF FailPayment, ReleaseAt
<1>2. FAIL_PAYMENT(o) /\ UNCHANGED <<receipt, articleIndex, orderIndex, buyerIndex>>
  BY DEF FailPayment, envVars
<1> HIDE DEF o
<1>3. CASE AwaitsPayment(o)
  <2>1. /\ DOMAIN article' = DOMAIN article
        /\ \A a \in DOMAIN article :
              /\ Pieces(order[o].items, a) \in Nat
              /\ ReadArticle(a).quantity' = ReadArticle(a).quantity + Pieces(order[o].items, a)
        /\ order'[o].status = "FAILED"
        /\ \A p \in OrderId \ {o} : order'[p] = order[p]
    BY <1>1, <1>2, <1>3, InvKeys, FailDone
  <2>2. /\ order \in [OrderId -> Order \cup {NoOrder}]
        /\ order' \in [OrderId -> Order \cup {NoOrder}]
        /\ article \in [DOMAIN article -> ArticleData] /\ CatalogueSound
    BY DEF IInv, TypeOK, ShopTypeOK, ShopSound
  <2>3. \A a : Taken(order[o], a) = Pieces(order[o].items, a) /\ Taken(order'[o], a) = 0
    BY <1>3, <2>1 DEF Taken, AwaitsPayment
  <2>4. \A a \in DOMAIN article :
            /\ ReadArticle(a).quantity \in Int
            /\ ReadArticle(a).quantity' =
                  ReadArticle(a).quantity + Taken(order[o], a) - Taken(order'[o], a)
    <3>1. \A a \in DOMAIN article : ReadArticle(a).quantity \in Nat
      BY <2>2, ReadArticleType
    <3> QED
      BY <2>1, <2>3, <3>1
  <2> QED
    BY <1>1, <2>1, <2>2, <2>4, OneOrderConserves
<1>4. CASE ~AwaitsPayment(o)
  BY <1>2, <1>4, NothingMovesConserves DEF FAIL_PAYMENT
<1> QED
  BY <1>3, <1>4

LEMMA ConfirmConserves ==
    ASSUME IsFiniteSet(OrderId), IInv, IInv', NEW r \in Request, ConfirmPayment(r)
    PROVE  ConservingStep
<1> DEFINE o == req[r].order
           h == req[r].hash
<1>1. o \in OrderId
  BY InvRequest, AtPayment DEF ConfirmPayment, SettleAt
<1>2. CONFIRM_PAYMENT(o, h) /\ UNCHANGED article
  BY DEF ConfirmPayment, articleVars
<1> HIDE DEF o, h
<1>3. CASE UNCHANGED order
  BY <1>2, <1>3, NothingMovesConserves
<1>4. CASE AwaitsPayment(o) /\ order' = OrderPaid(o, h)
  <2>1. /\ order \in [OrderId -> Order \cup {NoOrder}]
        /\ order' \in [OrderId -> Order \cup {NoOrder}]
        /\ article \in [DOMAIN article -> ArticleData] /\ CatalogueSound
    BY DEF IInv, TypeOK, ShopTypeOK, ShopSound
  <2>2. order[o] \in Order
    BY <1>1, <1>4, <2>1, OrderThere DEF AwaitsPayment, OrderStatus
  <2>3. /\ order'[o].status = "PAID" /\ order'[o].items = order[o].items
        /\ \A p \in OrderId \ {o} : order'[p] = order[p]
    BY <1>1, <1>4, <2>1, <2>2 DEF OrderPaid, Order
  <2>4. \A a : Taken(order'[o], a) = Taken(order[o], a)
    BY <1>4, <2>3 DEF Taken, AwaitsPayment
  <2>5. \A a : Taken(order[o], a) \in Int
    BY <1>1, <2>1, TakenType
  <2>6. \A a \in DOMAIN article : /\ ReadArticle(a).quantity \in Nat
                                  /\ ReadArticle(a).quantity' = ReadArticle(a).quantity
    BY <1>2, <2>1, ReadArticleType DEF ReadArticle, ReadNumber
  <2>7. \A a \in DOMAIN article :
            /\ ReadArticle(a).quantity \in Int
            /\ ReadArticle(a).quantity' =
                  ReadArticle(a).quantity + Taken(order[o], a) - Taken(order'[o], a)
    BY <2>4, <2>5, <2>6
  <2> QED
    BY <1>1, <1>2, <2>1, <2>3, <2>7, OneOrderConserves
<1> QED
  BY <1>2, <1>3, <1>4 DEF CONFIRM_PAYMENT

LEMMA NextConserves ==
    ASSUME ~Resends, IsFiniteSet(OrderId)
    PROVE  IInv /\ OnceInv /\ IInv' /\ [Next]_vars => [ConservingStep]_shopVars
<1> SUFFICES ASSUME IInv, OnceInv, IInv', [Next]_vars
             PROVE  ConservingStep
  OBVIOUS
<1>1. CASE UNCHANGED <<article, order>>
  BY <1>1, NothingMovesConserves
<1>2. ASSUME NEW r \in Request, ServerStep(r)
      PROVE  ConservingStep
  <2>1. CASE CreateArticle(r) \/ ResendCreateArticle(r) \/ SaveArticle(r) \/ RemoveArticle(r)
    BY <2>1, CatalogueWrites DEF ConservingStep
  <2>4. ~ResendPlaceOrder(r)
    BY DEF OnceInv, ResendPlaceOrder
  <2> QED
    BY <1>1, <1>2, <2>1, <2>4, PlaceConserves, FailConserves, ConfirmConserves
       DEF ServerStep, articleVars, orderVars, ReadForUpdate, LookUp, FindOrder, RereadOrder
<1> QED
  BY <1>1, <1>2 DEF Next, Environment, vars, shopVars

\* Unless the admin writes, no step of any request changes what an article has on
\* the shelf and in orders together: checkout and a failed payment move pieces
\* between the two, and nothing else touches them.
THEOREM PiecesStay ==
    ASSUME ~Resends, IsFiniteSet(OrderId)
    PROVE  Spec => PiecesConserved
<1>1. Spec => [][ConservingStep]_shopVars
  BY NextConserves, OnceInvariance, PTL DEF Spec
<1>2. [][ConservingStep]_shopVars => PiecesConserved
  BY PTL DEF PiecesConserved, ConservingStep
<1> QED
  BY <1>1, <1>2, PTL

-----------------------------------------------------------------------------
(* Scripts that run again lose pieces, and make none. *)

\* Each run of the script that places an order takes its pieces off the shelf; the
\* order accounts for them once at least.
LEMMA PlacingMakesNone ==
    ASSUME IsFiniteSet(OrderId), IInv, NEW id \in OrderId, NEW draft \in OrderDraft,
           draft.total = PriceOf(draft.items),
           order[id] # NoOrder => Terms(order[id]) = Terms(draft),
           PLACE_ORDER(id, draft), UNCHANGED receipt, UNCHANGED articleIndex
    PROVE  MakingNone
<1>1. CASE \E i \in DOMAIN draft.items : Short(draft.items[i])
  BY <1>1, PlaceRefused DEF MakingNone
<1>2. CASE \A i \in DOMAIN draft.items : ~Short(draft.items[i])
  <2>1. /\ order \in [OrderId -> Order \cup {NoOrder}]
        /\ article \in [DOMAIN article -> ArticleData] /\ CatalogueSound
    BY DEF IInv, TypeOK, ShopTypeOK, ShopSound
  <2>2. /\ DOMAIN article' = DOMAIN article
        /\ \A a \in DOMAIN article :
              ReadArticle(a).quantity' = ReadArticle(a).quantity - Pieces(draft.items, a)
        /\ order' \in [OrderId -> Order \cup {NoOrder}]
        /\ order' = [order EXCEPT ![id] = HSetOrder(order[id], draft)]
        /\ \A p \in OrderId \ {id} : order'[p] = order[p]
    BY <1>2, InvKeys, PlaceDone
  <2>3. order'[id].status = "PENDING" /\ order'[id].items = draft.items
    <3>1. order'[id] = HSetOrder(order[id], draft)
      BY <2>1, <2>2
    <3> QED
      BY <3>1 DEF HSetOrder, Pending
  <2>4. \A a : Taken(order'[id], a) = Pieces(draft.items, a)
    BY <2>3 DEF Taken
  <2>5. \A a : Taken(order[id], a) \in Nat
    <3>1. CASE order[id] = NoOrder
      BY <3>1 DEF Taken, NoOrder
    <3>2. CASE order[id] # NoOrder
      BY <2>1, <3>2, PiecesOf DEF Taken, Order
    <3> QED
      BY <3>1, <3>2
  <2>6. draft.items \in Items
    BY DEF OrderDraft
  <2>7. \A a \in DOMAIN article :
            ReadArticle(a).quantity \in Nat /\ Pieces(draft.items, a) \in Nat
    BY <2>1, <2>6, ReadArticleType, PiecesOf
  <2>8. \A a \in DOMAIN article :
            /\ ReadArticle(a).quantity \in Int /\ ReadArticle(a).quantity' \in Int
            /\ ReadArticle(a).quantity' <=
                  ReadArticle(a).quantity + Taken(order[id], a) - Taken(order'[id], a)
    BY <2>2, <2>4, <2>5, <2>7
  <2> QED
    BY <2>1, <2>2, <2>8, OneOrderMakesNone
<1> QED
  BY <1>1, <1>2

LEMMA PlaceMakesNone ==
    ASSUME IsFiniteSet(OrderId), IInv, NEW r \in Request, PlaceOrder(r)
    PROVE  MakingNone
<1> DEFINE draft == DraftOf(req[r])
<1>1. PICK id \in FreshId : PLACE_ORDER(id, draft)
  BY DEF PlaceOrder
<1>2. id \in OrderId /\ order[id] = NoOrder
  BY DEF FreshId
<1>3. req[r] \in PlaceAt /\ RequestSound(r)
  BY InvRequest, AtCheckout DEF PlaceOrder
<1>4. draft \in OrderDraft /\ draft.total = PriceOf(draft.items)
  BY <1>3 DEF DraftOf, PlaceAt, OrderDraft, RequestSound, PlaceOrder, IInv, TypeOK, ShopTypeOK,
              ServicesTypeOK
<1>5. UNCHANGED receipt /\ UNCHANGED articleIndex
  BY DEF PlaceOrder, envVars
<1> HIDE DEF draft
<1> QED
  BY <1>1, <1>2, <1>4, <1>5, PlacingMakesNone

LEMMA ResendMakesNone ==
    ASSUME IsFiniteSet(OrderId), IInv, NEW r \in Request, ResendPlaceOrder(r)
    PROVE  MakingNone
<1>1. req[r] \in ResendAt /\ ResendSound(r) /\ req[r].pc = "resend"
  BY InvRequest DEF ResendPlaceOrder
<1>2. req[r].id \in OrderId /\ req[r].draft \in OrderDraft
  BY <1>1 DEF ResendAt
<1>3. /\ req[r].draft.total = PriceOf(req[r].draft.items)
      /\ order[req[r].id] # NoOrder => Terms(order[req[r].id]) = Terms(req[r].draft)
  BY <1>1 DEF ResendSound
<1>4. PLACE_ORDER(req[r].id, req[r].draft) /\ UNCHANGED receipt /\ UNCHANGED articleIndex
  BY DEF ResendPlaceOrder, envVars
<1> QED
  BY <1>2, <1>3, <1>4, PlacingMakesNone

LEMMA NextMakesNone ==
    ASSUME IsFiniteSet(OrderId)
    PROVE  IInv /\ IInv' /\ [Next]_vars => [MakingNone]_shopVars
<1> SUFFICES ASSUME IInv, IInv', [Next]_vars
             PROVE  MakingNone
  OBVIOUS
<1>1. /\ order \in [OrderId -> Order \cup {NoOrder}]
      /\ article \in [DOMAIN article -> ArticleData] /\ CatalogueSound
  BY DEF IInv, TypeOK, ShopTypeOK, ShopSound
<1>2. CASE UNCHANGED <<article, order>>
  BY <1>2 DEF MakingNone
<1>3. ASSUME NEW r \in Request, ServerStep(r)
      PROVE  MakingNone
  <2>1. CASE CreateArticle(r) \/ ResendCreateArticle(r) \/ SaveArticle(r) \/ RemoveArticle(r)
    BY <2>1, CatalogueWrites DEF MakingNone
  <2>4. CASE FailPayment(r) \/ ConfirmPayment(r)
    BY <1>1, <2>4, FailConserves, ConfirmConserves, ConservingMakesNone
  <2> QED
    BY <1>2, <1>3, <2>1, <2>4, PlaceMakesNone, ResendMakesNone
       DEF ServerStep, articleVars, orderVars, ReadForUpdate, LookUp, FindOrder, RereadOrder
<1> QED
  BY <1>2, <1>3 DEF Next, Environment, vars, shopVars

\* No step of any request makes pieces, whether or not scripts whose reply was lost
\* run again: an order never gives back more than it has taken, nor gives it back twice.
THEOREM NoPiecesMade ==
    ASSUME IsFiniteSet(OrderId)
    PROVE  Spec => PiecesNeverMade
<1>1. Spec => [][MakingNone]_shopVars
  BY NextMakesNone, Invariance, PTL DEF Spec
<1>2. [][MakingNone]_shopVars => PiecesNeverMade
  BY PTL DEF PiecesNeverMade, MakingNone
<1> QED
  BY <1>1, <1>2, PTL

=============================================================================
