----------------------------- MODULE Shop_proofs -----------------------------
(***************************************************************************)
(* What the proofs about the two deployments share: the types of what the  *)
(* services do with the answers of a store, the invariant of a request in  *)
(* progress, and the arithmetic of prices and of pieces.                   *)
(*                                                                         *)
(* Everything here holds for any sets of articles, orders, buyers and      *)
(* requests, and any bound on baskets.                                     *)
(***************************************************************************)
EXTENDS Shop, Sums_proofs, FiniteSetTheorems, TLAPS

-----------------------------------------------------------------------------
(* What a request holds at each point of its function. *)

\* The pc of a request tells which locals it has.
LEMMA AtCheckout ==
    ASSUME NEW q \in RequestState
    PROVE  /\ q.pc = "lookup" => q \in CheckoutAt
           /\ q.pc = "place" => q \in PlaceAt
BY DEF RequestState, CheckoutAt, PlaceAt, FindAt, VerifyAt, SettleAt, ReleaseAt, RereadAt,
       CreateAt, RecreateAt, UpdateAt, SaveAt, RemoveAt, Over, Answered, SoldOut, Rejected, Confirmed,
       Released, Idle

LEMMA AtPayment ==
    ASSUME NEW q \in RequestState
    PROVE  /\ q.pc = "find" => q \in FindAt
           /\ q.pc = "verify" => q \in VerifyAt
           /\ q.pc = "settle" => q \in SettleAt
           /\ q.pc = "release" => q \in ReleaseAt
           /\ q.pc = "reread" => q \in RereadAt
BY DEF RequestState, CheckoutAt, PlaceAt, FindAt, VerifyAt, SettleAt, ReleaseAt, RereadAt,
       CreateAt, RecreateAt, UpdateAt, SaveAt, RemoveAt, Over, Answered, SoldOut, Rejected, Confirmed,
       Released, Idle

LEMMA AtCatalogue ==
    ASSUME NEW q \in RequestState
    PROVE  /\ q.pc = "create" => q \in CreateAt
           /\ q.pc = "recreate" => q \in RecreateAt
           /\ q.pc = "update" => q \in UpdateAt
           /\ q.pc = "save" => q \in SaveAt
           /\ q.pc = "remove" => q \in RemoveAt
BY DEF RequestState, CheckoutAt, PlaceAt, FindAt, VerifyAt, SettleAt, ReleaseAt, RereadAt,
       CreateAt, RecreateAt, UpdateAt, SaveAt, RemoveAt, Over, Answered, SoldOut, Rejected, Confirmed,
       Released, Idle

LEMMA AtEnd ==
    ASSUME NEW q \in RequestState
    PROVE  /\ q.pc = "confirmed" => q \in Confirmed
           /\ q.pc = "released" => q \in Released
BY DEF RequestState, CheckoutAt, PlaceAt, FindAt, VerifyAt, SettleAt, ReleaseAt, RereadAt,
       CreateAt, RecreateAt, UpdateAt, SaveAt, RemoveAt, Over, Answered, SoldOut, Rejected, Confirmed,
       Released, Idle

\* An order that is there, by its status.
LEMMA OrderThere ==
    ASSUME order \in [OrderId -> Order \cup {NoOrder}], NEW o \in OrderId
    PROVE  /\ order[o] # NoOrder => order[o] \in Order
           /\ order[o].status \in OrderStatus <=> order[o] # NoOrder
BY DEF Order, OrderStatus, NoOrder

-----------------------------------------------------------------------------
(* The arithmetic of baskets. *)

LEMMA PricesType == UnitPrice \subseteq Nat
<1>1. Price \subseteq Nat
  BY TypesAssumption
<1> QED
  BY <1>1 DEF UnitPrice

\* What one line costs is a natural number.
LEMMA LinePrice ==
    ASSUME NEW line \in OrderItem
    PROVE  line.unitPrice * line.quantity \in Nat
<1>1. line.unitPrice \in UnitPrice /\ line.quantity \in 1..MaxQuantity
  BY DEF OrderItem
<1>2. line.unitPrice \in Nat
  BY <1>1, PricesType
<1>3. line.quantity \in Nat
  BY <1>1, TypesAssumption
<1>4. \A m, n \in Nat : m * n \in Nat
  OBVIOUS
<1> QED
  BY <1>2, <1>3, <1>4

LEMMA PriceOfNothing == PriceOf(<<>>) = 0
<1> DEFINE cost == [i \in DOMAIN <<>> |-> <<>>[i].unitPrice * <<>>[i].quantity]
<1>1. DOMAIN cost = {}
  OBVIOUS
<1>2. SumFunctionOnSet(cost, {}) = 0
  BY SumUnfold, FS_EmptySet
<1> QED
  BY <1>1, <1>2 DEF PriceOf, SumFunction

\* A basket with one more line costs as much more as that line.
LEMMA PriceOfAppend ==
    ASSUME NEW items \in Seq(OrderItem), NEW line \in OrderItem
    PROVE  PriceOf(Append(items, line)) = PriceOf(items) + line.unitPrice * line.quantity
<1> DEFINE n       == Len(items)
           more    == Append(items, line)
           cost(l) == l.unitPrice * l.quantity
           f       == [i \in DOMAIN items |-> cost(items[i])]
           g       == [i \in DOMAIN more |-> cost(more[i])]
<1>1. n \in Nat /\ DOMAIN items = 1..n /\ DOMAIN more = 1..(n + 1)
  OBVIOUS
<1>2. /\ \A i \in 1..n : items[i] \in OrderItem /\ more[i] = items[i]
      /\ more[n + 1] = line
  OBVIOUS
<1>3. \A l \in OrderItem : cost(l) \in Int
  BY LinePrice
<1>4. PriceOf(items) = SumFunction(f) /\ PriceOf(more) = SumFunction(g)
  BY DEF PriceOf
<1>5. g[n + 1] = cost(line)
  BY <1>1, <1>2
<1> HIDE DEF more, n, cost
<1>6. f \in [1..n -> Int]
  BY <1>1, <1>2, <1>3
<1>7. g \in [1..(n + 1) -> Int]
  <2>1. \A i \in 1..(n + 1) : more[i] \in OrderItem
    <3>1. \A i \in 1..(n + 1) : i \in 1..n \/ i = n + 1
      BY <1>1
    <3> QED
      BY <1>2, <3>1
  <2> QED
    BY <1>1, <1>3, <2>1
<1>8. \A i \in 1..n : f[i] = g[i]
  BY <1>1, <1>2
<1> HIDE DEF f, g
<1>9. SumFunction(g) = SumFunction(f) + g[n + 1]
  BY <1>1, <1>6, <1>7, <1>8, SumAppend
<1> QED
  BY <1>4, <1>5, <1>9 DEF more, cost

\* A checkout in progress: the lines priced so far are the first ones of a basket
\* that has more, and the total is what they cost.
Quoting(q) ==
    /\ Len(q.items) < Len(q.basket)
    /\ \A i \in DOMAIN q.items : q.items[i].articleId = q.basket[i].articleId
    /\ q.items # <<>> => Distinct(q.basket)
    /\ q.total = PriceOf(q.items)

\* Lines that fit the basket's bound are what an order may hold.
LEMMA LinesLength ==
    ASSUME NEW L, NEW lines \in LinesOf(L)
    PROVE  lines \in Seq(L) /\ Len(lines) \in 1..MaxLines
<1>1. PICK n \in 1..MaxLines : lines \in [1..n -> L]
  BY DEF LinesOf
<1>2. n \in Nat
  BY TypesAssumption
<1> QED
  BY <1>1, <1>2

LEMMA SeqOfLines ==
    ASSUME NEW L, NEW lines \in Seq(L), Len(lines) \in 1..MaxLines
    PROVE  lines \in LinesOf(L)
<1>1. lines \in [1..Len(lines) -> L]
  OBVIOUS
<1> QED
  BY <1>1 DEF LinesOf

\* Pricing one line more keeps the quote, and after the last line it is what
\* placeOrder may be given.
LEMMA PricedNext ==
    ASSUME NEW q \in CheckoutAt, Quoting(q), Distinct(q.basket), NEW price \in UnitPrice
    PROVE  LET next == Priced(q, price)
           IN  \/ next \in CheckoutAt /\ Quoting(next)
               \/ next \in PlaceAt /\ next.total = PriceOf(next.items)
<1> DEFINE n     == Len(q.items)
           line  == NextLine(q)
           item  == [articleId |-> line.articleId, unitPrice |-> price,
                     quantity |-> line.quantity]
           items == Append(q.items, item)
           total == q.total + price * line.quantity
<1>1. /\ q.basket \in Seq(BasketLine) /\ Len(q.basket) \in 1..MaxLines
      /\ q.items \in Seq(OrderItem)
      /\ q.buyer \in Buyer /\ q.pc = "lookup"
  <2>1. q.basket \in LinesOf(BasketLine) /\ q.items \in {<<>>} \cup LinesOf(OrderItem)
        /\ q.buyer \in Buyer /\ q.pc = "lookup"
    BY DEF CheckoutAt, Basket
  <2>2. q.items \in Seq(OrderItem)
    <3>1. <<>> \in Seq(OrderItem)
      OBVIOUS
    <3> QED
      BY <2>1, <3>1, LinesLength
  <2> QED
    BY <2>1, <2>2, LinesLength
<1>2. n \in Nat /\ n < Len(q.basket) /\ n + 1 \in 1..Len(q.basket)
  BY <1>1 DEF Quoting
<1>3. line \in BasketLine /\ line = q.basket[n + 1]
  BY <1>1, <1>2 DEF NextLine
<1>4. item \in OrderItem
  BY <1>3 DEF BasketLine, OrderItem
<1>5. items \in Seq(OrderItem) /\ Len(items) = n + 1
  BY <1>1, <1>4
<1>6. items \in LinesOf(OrderItem)
  <2>1. Len(items) \in 1..MaxLines
    BY <1>1, <1>2, <1>5, TypesAssumption
  <2> QED
    BY <1>5, <2>1, SeqOfLines
<1>7. total = PriceOf(items)
  BY <1>1, <1>4, PriceOfAppend DEF Quoting
<1>8. total \in Money
  BY <1>6, <1>7, MoneyAssumption
<1>9. \A i \in DOMAIN items : items[i].articleId = q.basket[i].articleId
  <2>1. \A i \in DOMAIN items : i \in DOMAIN q.items \/ i = n + 1
    BY <1>1, <1>2, <1>5
  <2>2. \A i \in DOMAIN q.items : items[i] = q.items[i]
    BY <1>1
  <2>3. items[n + 1] = item
    BY <1>1
  <2> QED
    BY <1>3, <2>1, <2>2, <2>3 DEF Quoting
<1> HIDE DEF items, total
<1>10. CASE Len(items) = Len(q.basket)
  <2>1. Distinct(items)
    BY <1>1, <1>5, <1>9, <1>10 DEF Distinct
  <2>2. items \in Items
    BY <1>6, <2>1 DEF Items
  <2>3. Priced(q, price) = [pc |-> "place", buyer |-> q.buyer, items |-> items, total |-> total]
    BY <1>10 DEF Priced, items, total
  <2> QED
    BY <1>1, <1>7, <1>8, <2>2, <2>3 DEF PlaceAt
<1>11. CASE Len(items) # Len(q.basket)
  <2>1. Priced(q, price) = [q EXCEPT !.items = items, !.total = total]
    BY <1>11 DEF Priced, items, total
  <2>2. Len(items) < Len(q.basket)
    BY <1>1, <1>2, <1>5, <1>11
  <2>3. [q EXCEPT !.items = items, !.total = total] \in CheckoutAt
    BY <1>6, <1>8 DEF CheckoutAt
  <2>4. Quoting([q EXCEPT !.items = items, !.total = total])
    BY <1>7, <1>9, <2>2 DEF Quoting, CheckoutAt
  <2> QED
    BY <2>1, <2>3, <2>4
<1> QED
  BY <1>10, <1>11

-----------------------------------------------------------------------------
(* The invariant of the services, whichever database they run on. *)

\* What a request relies on while other requests run: the price of its lines is
\* what it has added up; an article it will save, or create again, has existed; the order it pays
\* is there, with the buyer, the address and the total it had when it was read;
\* and once the chain has vouched for the transfer, that is still so.
RequestSound(r) ==
    /\ req[r].pc = "lookup" => Quoting(req[r])
    /\ req[r].pc = "place" => req[r].total = PriceOf(req[r].items)
    /\ req[r].pc = "save" =>
          /\ req[r].data.quantity \in Nat \cup {Null}
          /\ req[r].article \in minted
    /\ req[r].pc = "recreate" => req[r].article \in minted
    /\ req[r].pc = "verify" =>
          /\ order[req[r].order] # NoOrder
          /\ order[req[r].order].buyerId = req[r].buyer
          /\ order[req[r].order].walletAddress = req[r].walletAddress
          /\ order[req[r].order].total = req[r].total
    /\ req[r].pc = "settle" =>
          /\ order[req[r].order] # NoOrder
          /\ order[req[r].order].buyerId = req[r].buyer
          /\ Valid(req[r].hash, order[req[r].order].walletAddress, order[req[r].order].total)

\* No article has less than nothing on the shelf.
CatalogueSound == \A a \in DOMAIN article : article[a].quantity \in Nat \cup {Null}

\* An order costs what its lines do, and a paid one has the hash that paid it.
OrdersSound ==
    \A o \in OrderId :
        /\ order[o] # NoOrder => order[o].total = PriceOf(order[o].items)
        /\ order[o].status = "PAID" => order[o].transactionHash \in Hash

ShopSound ==
    /\ CatalogueSound
    /\ OrdersSound
    /\ PaidIsPaid
    /\ \A r \in Request : RequestSound(r)

\* What every step leaves to the requests that do not take it.
OrdersKept ==
    \A o \in OrderId : order[o] # NoOrder =>
        order'[o] # NoOrder /\ Terms(order'[o]) = Terms(order[o])

Kept ==
    /\ OrdersKept
    /\ \A t \in Tx : receipt[t] = "settled" => receipt'[t] = "settled"
    /\ minted \subseteq minted'

\* A request that has been answered, or has read nothing yet, relies on nothing.
Relying == {"lookup", "place", "recreate", "save", "verify", "settle"}

LEMMA OthersSound ==
    ASSUME NEW r \in Request, RequestSound(r), req'[r] = req[r], Kept,
           req[r].pc \in Relying => req[r] \in RequestState
    PROVE  RequestSound(r)'
<1>1. CASE req[r].pc = "verify"
  <2>1. req[r].order \in OrderId
    BY <1>1, AtPayment DEF VerifyAt, Relying
  <2> QED
    BY <1>1, <2>1 DEF RequestSound, Kept, OrdersKept, Terms
<1>2. CASE req[r].pc = "settle"
  <2>1. req[r].order \in OrderId /\ req[r].hash \in Hash
    BY <1>2, AtPayment DEF SettleAt, Relying
  <2>2. TxOf[req[r].hash] \in Tx
    BY <2>1, ServicesAssumption
  <2> QED
    BY <1>2, <2>1, <2>2 DEF RequestSound, Kept, OrdersKept, Terms, Valid
<1>3. CASE req[r].pc \notin {"verify", "settle"}
  BY <1>3 DEF RequestSound, Kept
<1> QED
  BY <1>1, <1>2, <1>3

LEMMA NothingReliedOn ==
    ASSUME NEW r \in Request, req'[r].pc \notin Relying
    PROVE  RequestSound(r)'
BY DEF RequestSound, Relying

\* One request moves, the others stay.
LEMMA GotoRequest ==
    ASSUME NEW S, req \in [Request -> S], NEW r \in Request, NEW next, Goto(r, next)
    PROVE  /\ req'[r] = next
           /\ \A s \in Request \ {r} : req'[s] = req[s]
           /\ next \in S => req' \in [Request -> S]
BY DEF Goto

LEMMA AnswerType ==
    ASSUME NEW status \in {200, 201, 204, 400, 404, 409, 500}
    PROVE  /\ Answer(status) \in RequestState
           /\ Answer(status).pc = "answered"
BY DEF Answer, Answered, Over, RequestState

\* Where a step of the services, or of the clients, may take a request.
SoundMove(r) == req'[r] \in RequestState /\ RequestSound(r)'

LEMMA AnswerSound ==
    ASSUME NEW r \in Request, NEW status \in {200, 201, 204, 400, 404, 409, 500},
           req'[r] = Answer(status)
    PROVE  SoundMove(r)
<1>1. req'[r] \in RequestState /\ req'[r].pc = "answered"
  BY AnswerType
<1> QED
  BY <1>1, NothingReliedOn DEF SoundMove, Relying

-----------------------------------------------------------------------------
(* The steps that both deployments have. *)

LEMMA ServiceStepSound ==
    ASSUME NEW S, req \in [Request -> S], NEW r \in Request, req[r] \in RequestState,
           RequestSound(r), ServiceStep(r), UNCHANGED <<article, minted, order>>
    PROVE  SoundMove(r)
<1>1. CASE RejectDuplicates(r)
  <2>1. req'[r] = Answer(400)
    BY <1>1 DEF RejectDuplicates, Goto
  <2> QED
    BY <2>1, AnswerSound
<1>2. CASE VerifyAccepts(r)
  <2> DEFINE next == [pc |-> "settle", order |-> req[r].order, buyer |-> req[r].buyer,
                      hash |-> req[r].hash]
  <2>1. req[r] \in VerifyAt
    BY <1>2, AtPayment DEF VerifyAccepts
  <2>2. next \in SettleAt
    BY <2>1 DEF VerifyAt, SettleAt
  <2>3. req'[r] = next
    BY <1>2, GotoRequest DEF VerifyAccepts
  <2>4. req'[r] \in RequestState
    BY <2>2, <2>3 DEF RequestState
  <2>5. RequestSound(r)'
    BY <1>2, <2>3 DEF RequestSound, VerifyAccepts, Valid
  <2> QED
    BY <2>4, <2>5 DEF SoundMove
<1>3. CASE VerifyRejects(r)
  <2>1. req[r] \in VerifyAt
    BY <1>3, AtPayment DEF VerifyRejects
  <2>2. req'[r] = [pc |-> "rejected", order |-> req[r].order]
    BY <1>3, GotoRequest DEF VerifyRejects
  <2>3. req'[r] \in Rejected
    BY <2>1, <2>2 DEF VerifyAt, Rejected
  <2>4. req'[r] \in RequestState
    BY <2>3 DEF Over, RequestState
  <2> QED
    BY <2>2, <2>4, NothingReliedOn DEF SoundMove, Relying
<1>4. CASE ChainUnavailable(r)
  <2>1. req'[r] = Answer(500)
    BY <1>4 DEF ChainUnavailable, Goto
  <2> QED
    BY <2>1, AnswerSound
<1> QED
  BY <1>1, <1>2, <1>3, <1>4 DEF ServiceStep

LEMMA ServiceStepMoves ==
    ASSUME NEW r \in Request, ServiceStep(r)
    PROVE  (\E next : Goto(r, next)) /\ UNCHANGED <<wallet, receipt>>
BY DEF ServiceStep, RejectDuplicates, VerifyAccepts, VerifyRejects, ChainUnavailable

LEMMA FindOrderSound ==
    ASSUME NEW S, req \in [Request -> S], NEW r \in Request, req[r] \in RequestState,
           order \in [OrderId -> Order \cup {NoOrder}], FindOrder(r)
    PROVE  SoundMove(r)
<1> DEFINE found == order[req[r].order]
<1>1. req[r] \in FindAt
  BY AtPayment DEF FindOrder
<1>2. req'[r] = AfterFind(req[r], found)
  BY GotoRequest DEF FindOrder
<1>3. CASE ~MayPay(req[r], found)
  BY <1>2, <1>3, AnswerSound DEF AfterFind
<1>4. CASE MayPay(req[r], found) /\ (found.status # "PENDING" \/ found.walletAddress = Null)
  BY <1>2, <1>4, AnswerSound DEF AfterFind
<1>5. CASE MayPay(req[r], found) /\ found.status = "PENDING" /\ found.walletAddress # Null
  <2> DEFINE next == [pc |-> "verify", order |-> req[r].order, buyer |-> req[r].buyer,
                      hash |-> req[r].hash, walletAddress |-> found.walletAddress,
                      total |-> found.total]
  <2>1. req[r].order \in OrderId /\ req[r].buyer \in Buyer /\ req[r].hash \in Hash
    BY <1>1 DEF FindAt
  <2>2. found \in Order
    BY <1>5, <2>1 DEF MayPay
  <2>3. req'[r] = next
    BY <1>2, <1>5 DEF AfterFind, PayableTo
  <2>4. next \in VerifyAt
    BY <1>5, <2>1, <2>2 DEF Order, VerifyAt
  <2>5. req'[r] \in RequestState
    BY <2>3, <2>4 DEF RequestState
  <2>6. RequestSound(r)'
    BY <1>5, <2>3 DEF RequestSound, FindOrder, MayPay
  <2> QED
    BY <2>5, <2>6 DEF SoundMove
<1> QED
  BY <1>3, <1>4, <1>5

LEMMA RereadOrderSound ==
    ASSUME NEW S, req \in [Request -> S], NEW r \in Request, req[r] \in RequestState,
           RereadOrder(r)
    PROVE  SoundMove(r)
<1> DEFINE found == order[req[r].order]
<1>1. req[r] \in RereadAt
  BY AtPayment DEF RereadOrder
<1>2. req'[r] = AfterReread(req[r], found)
  BY GotoRequest DEF RereadOrder
<1>3. CASE found = NoOrder
  BY <1>2, <1>3, AnswerSound DEF AfterReread
<1>4. CASE found # NoOrder
  <2>1. req'[r] \in Released \cup Confirmed
    BY <1>1, <1>2, <1>4 DEF AfterReread, RereadAt, Released, Confirmed
  <2>2. req'[r] \in RequestState /\ req'[r].pc \in {"released", "confirmed"}
    BY <2>1 DEF Released, Confirmed, Over, RequestState
  <2> QED
    BY <2>2, NothingReliedOn DEF SoundMove, Relying
<1> QED
  BY <1>3, <1>4

\* A new article is an article, with its price and its quantity.
LEMMA NewArticleType ==
    /\ NewArticle \subseteq ArticleData
    /\ \A data \in NewArticle : data.price \in UnitPrice /\ data.quantity \in Nat
<1>1. Quantity \subseteq Nat
  BY TypesAssumption
<1>2. ASSUME NEW data \in NewArticle
      PROVE  data \in ArticleData /\ data.price \in UnitPrice /\ data.quantity \in Nat
  <2>1. data.quantity \in Nat
    BY <1>1 DEF NewArticle
  <2> QED
    BY <2>1 DEF NewArticle, ArticleData, UnitPrice
<1> QED
  BY <1>2

\* At first the orders are not there, no request is in progress, and every article
\* is one that the admin entered.
LEMMA ShopInitSound ==
    ASSUME ShopInit
    PROVE  /\ ShopTypeOK /\ ShopSound
           /\ req = [r \in Request |-> Idle]
           /\ \A r \in Request : req[r] \in RequestState /\ req[r].pc = "idle"
           /\ \A a \in DOMAIN article : article[a] \in NewArticle
           /\ order = [o \in OrderId |-> NoOrder]
<1>1. PICK S \in SUBSET Article : article \in [S -> NewArticle] /\ minted = S
  BY DEF ShopInit
<1>2. /\ req = [r \in Request |-> Idle]
      /\ wallet \in Wallet \cup {Null}
      /\ receipt = [t \in Tx |-> "open"]
      /\ order = [o \in OrderId |-> NoOrder]
  BY DEF ShopInit, ServicesInit
<1>3. DOMAIN article = S /\ article \in [S -> ArticleData]
  BY <1>1, NewArticleType
<1>4. CatalogueSound
  BY <1>1, NewArticleType DEF CatalogueSound
<1>5. OrdersSound /\ PaidIsPaid
  BY <1>2 DEF OrdersSound, PaidIsPaid, NoOrder
<1>6. \A r \in Request : req[r] \in RequestState /\ req[r].pc = "idle"
  BY <1>2 DEF Idle, Over, RequestState
<1>7. \A r \in Request : RequestSound(r)
  BY <1>6 DEF RequestSound
<1>8. ShopTypeOK
  BY <1>1, <1>2, <1>3 DEF ShopTypeOK, ServicesTypeOK
<1> QED
  BY <1>1, <1>2, <1>4, <1>5, <1>6, <1>7, <1>8 DEF ShopSound

\* An article as it is read: absent numbers are 0.
LEMMA ReadArticleType ==
    ASSUME NEW a \in DOMAIN article, article \in [DOMAIN article -> ArticleData],
           CatalogueSound
    PROVE  /\ ReadArticle(a) \in ArticleData
           /\ ReadArticle(a).price \in UnitPrice
           /\ ReadArticle(a).quantity \in Nat
           /\ DOMAIN ReadArticle(a) = {"price", "description", "quantity"}
<1>1. /\ article[a].price \in UnitPrice \cup {Null}
      /\ article[a].description \in Description \cup {Null}
      /\ article[a].quantity \in Nat \cup {Null}
  BY DEF ArticleData, CatalogueSound
<1>2. ReadNumber(article[a].price) \in UnitPrice
  BY <1>1 DEF ReadNumber, UnitPrice
<1>3. ReadNumber(article[a].quantity) \in Nat
  BY <1>1 DEF ReadNumber
<1> QED
  BY <1>1, <1>2, <1>3 DEF ReadArticle, ArticleData

\* Merging a request into an article leaves an article.
LEMMA MergeType ==
    ASSUME NEW data \in ArticleData, data.quantity \in Nat, NEW patch \in Patch
    PROVE  /\ Merge(data, patch) \in ArticleData
           /\ Merge(data, patch).quantity \in Nat \cup {Null}
<1> DEFINE merged == Merge(data, patch)
<1>1. DOMAIN data = {"price", "description", "quantity"}
  BY DEF ArticleData
<1>2. merged = [price       |-> merged.price,
                description |-> merged.description,
                quantity    |-> merged.quantity]
  BY <1>1 DEF Merge
<1>3. merged.price \in UnitPrice \cup {Null}
  BY <1>1 DEF Merge, ArticleData, Patch, UnitPrice
<1>4. merged.description \in Description \cup {Null}
  BY <1>1 DEF Merge, ArticleData, Patch
<1>5. merged.quantity \in Nat \cup {Null}
  BY <1>1, TypesAssumption DEF Merge, Patch
<1> HIDE DEF merged
<1>6. merged \in ArticleData
  BY <1>2, <1>3, <1>4, <1>5 DEF ArticleData
<1> QED
  BY <1>5, <1>6 DEF merged

LEMMA ReadForUpdateSound ==
    ASSUME NEW S, req \in [Request -> S], NEW r \in Request, req[r] \in RequestState,
           ShopTypeOK, CatalogueSound, ReadForUpdate(r)
    PROVE  SoundMove(r)
<1> DEFINE a    == req[r].article
           next == [pc |-> "save", article |-> a, patch |-> req[r].patch,
                    data |-> Merge(ReadArticle(a), req[r].patch)]
<1>1. a \in Article /\ req[r].patch \in Patch
  BY AtCatalogue DEF ReadForUpdate, UpdateAt
<1>2. CASE a \in DOMAIN article
  <2>1. req'[r] = next
    BY <1>2 DEF ReadForUpdate, Goto
  <2>2. ReadArticle(a) \in ArticleData /\ ReadArticle(a).quantity \in Nat
    BY <1>2, ReadArticleType DEF ShopTypeOK
  <2>3. /\ Merge(ReadArticle(a), req[r].patch) \in ArticleData
        /\ Merge(ReadArticle(a), req[r].patch).quantity \in Nat \cup {Null}
    BY <1>1, <2>2, MergeType
  <2>4. next \in SaveAt
    BY <1>1, <2>3 DEF SaveAt
  <2>5. req'[r] \in RequestState
    BY <2>1, <2>4 DEF RequestState
  <2>6. minted' = minted /\ a \in minted
    BY <1>2 DEF ReadForUpdate, ShopTypeOK
  <2>7. RequestSound(r)'
    BY <2>1, <2>3, <2>6 DEF RequestSound
  <2> QED
    BY <2>5, <2>7 DEF SoundMove
<1>3. CASE a \notin DOMAIN article
  <2>1. req'[r] = Answer(404)
    BY <1>3 DEF ReadForUpdate, Goto
  <2> QED
    BY <2>1, AnswerSound
<1> QED
  BY <1>2, <1>3

\* Clients may send anything, and what they send relies on nothing yet.
LEMMA ReceiveSound ==
    ASSUME NEW S, req \in [Request -> S], NEW r \in Request, Receive(r)
    PROVE  SoundMove(r)
<1>1. CASE ReceiveCheckout(r)
  <2>1. PICK buyer \in Buyer, basket \in Basket :
            req'[r] = [pc |-> "lookup", buyer |-> buyer, basket |-> basket,
                       items |-> <<>>, total |-> 0]
    BY <1>1 DEF ReceiveCheckout, Goto
  <2>2. 0 \in Money
    BY PriceOfNothing, MoneyAssumption
  <2>3. req'[r] \in CheckoutAt
    BY <2>1, <2>2 DEF CheckoutAt
  <2>4. basket \in Seq(BasketLine) /\ Len(basket) \in 1..MaxLines
    BY LinesLength DEF Basket
  <2>5. Quoting(req'[r])
    BY <2>1, <2>4, PriceOfNothing DEF Quoting
  <2>6. req'[r] \in RequestState
    BY <2>3 DEF RequestState
  <2>7. RequestSound(r)'
    BY <2>1, <2>5 DEF RequestSound
  <2> QED
    BY <2>6, <2>7 DEF SoundMove
<1>2. CASE ReceiveConfirm(r)
  <2>1. req'[r] \in FindAt
    BY <1>2 DEF ReceiveConfirm, Goto, FindAt
  <2>2. req'[r] \in RequestState /\ req'[r].pc = "find"
    BY <2>1 DEF FindAt, RequestState
  <2> QED
    BY <2>2, NothingReliedOn DEF SoundMove, Relying
<1>3. CASE ReceiveRelease(r)
  <2>1. req'[r] \in ReleaseAt
    BY <1>3 DEF ReceiveRelease, Goto, ReleaseAt
  <2>2. req'[r] \in RequestState /\ req'[r].pc = "release"
    BY <2>1 DEF ReleaseAt, RequestState
  <2> QED
    BY <2>2, NothingReliedOn DEF SoundMove, Relying
<1>4. CASE ReceiveCreate(r)
  <2>1. req'[r] \in CreateAt
    BY <1>4 DEF ReceiveCreate, Goto, CreateAt
  <2>2. req'[r] \in RequestState /\ req'[r].pc = "create"
    BY <2>1 DEF CreateAt, RequestState
  <2> QED
    BY <2>2, NothingReliedOn DEF SoundMove, Relying
<1>5. CASE ReceiveUpdate(r)
  <2>1. req'[r] \in UpdateAt
    BY <1>5, ServicesAssumption DEF ReceiveUpdate, Goto, UpdateAt
  <2>2. req'[r] \in RequestState /\ req'[r].pc = "update"
    BY <2>1 DEF UpdateAt, RequestState
  <2> QED
    BY <2>2, NothingReliedOn DEF SoundMove, Relying
<1>6. CASE ReceiveRemove(r)
  <2>1. req'[r] \in RemoveAt
    BY <1>6 DEF ReceiveRemove, Goto, RemoveAt
  <2>2. req'[r] \in RequestState /\ req'[r].pc = "remove"
    BY <2>1 DEF RemoveAt, RequestState
  <2> QED
    BY <2>2, NothingReliedOn DEF SoundMove, Relying
<1> QED
  BY <1>1, <1>2, <1>3, <1>4, <1>5, <1>6 DEF Receive

LEMMA ReceiveMoves ==
    ASSUME NEW r \in Request, Receive(r) \/ Crash(r)
    PROVE  (\E next : Goto(r, next)) /\ UNCHANGED <<wallet, receipt>>
BY DEF Receive, ReceiveCheckout, ReceiveConfirm, ReceiveRelease, ReceiveCreate, ReceiveUpdate,
       ReceiveRemove, Crash

\* A request that is lost relies on nothing.
LEMMA CrashSound ==
    ASSUME NEW S, req \in [Request -> S], NEW r \in Request, Crash(r)
    PROVE  SoundMove(r)
<1>1. req'[r] = Idle
  BY DEF Crash, Goto
<1>2. req'[r] \in RequestState /\ req'[r].pc = "idle"
  BY <1>1 DEF Idle, Over, RequestState
<1> QED
  BY <1>2, NothingReliedOn DEF SoundMove, Relying

\* A request that will read back the order it has changed.
LEMMA RereadMove ==
    ASSUME NEW r \in Request, NEW o \in OrderId, NEW h \in Hash \cup {Null},
           req'[r] = [pc |-> "reread", order |-> o, hash |-> h]
    PROVE  SoundMove(r)
<1>1. req'[r] \in RereadAt
  BY DEF RereadAt
<1>2. req'[r] \in RequestState
  BY <1>1 DEF RequestState
<1> QED
  BY <1>2, NothingReliedOn DEF SoundMove, Relying

LEMMA RefusalMove ==
    ASSUME NEW r \in Request, NEW reason, req'[r] = Refusal(reason)
    PROVE  SoundMove(r)
<1>1. req'[r] = Answer(404) \/ req'[r] = Answer(409)
  BY DEF Refusal
<1> QED
  BY <1>1, AnswerSound

-----------------------------------------------------------------------------
(* What requests say of their orders. *)

\* The order that a result is about to be read back from, and then answered with.
RereadSound(r) ==
    req[r].pc = "reread" =>
        IF req[r].hash = Null
        THEN order[req[r].order].status = "FAILED"
        ELSE /\ order[req[r].order].status = "PAID"
             /\ order[req[r].order].transactionHash = req[r].hash

\* What the answer of one request says of its order.
AnswerTrue(r) ==
    /\ req[r].pc = "confirmed" =>
          /\ order[req[r].order].status = "PAID"
          /\ order[req[r].order].transactionHash = req[r].hash
    /\ req[r].pc = "released" => order[req[r].order].status = "FAILED"

\* The points at which a request says something of its order.
Telling == {"reread", "confirmed", "released"}

\* Paid and failed are final.
SettledStay ==
    \A o \in OrderId : order[o].status \in {"PAID", "FAILED"} => order'[o] = order[o]

Truthful(r) == RereadSound(r) /\ AnswerTrue(r)

LEMMA TellsNothing ==
    ASSUME NEW r \in Request, req'[r].pc \notin Telling
    PROVE  Truthful(r)'
BY DEF Telling, Truthful, RereadSound, AnswerTrue

\* What a request that does not move has said stays true.
LEMMA StaysTrue ==
    ASSUME NEW r \in Request, req[r].pc \in Telling => req[r] \in RequestState,
           Truthful(r), SettledStay, req'[r] = req[r]
    PROVE  Truthful(r)'
<1>1. CASE req[r].pc \in Telling
  <2>1. req[r].order \in OrderId
    BY <1>1, AtPayment, AtEnd DEF Telling, RereadAt, Confirmed, Released
  <2> QED
    BY <2>1 DEF Truthful, RereadSound, AnswerTrue, SettledStay
<1>2. CASE req[r].pc \notin Telling
  BY <1>2, TellsNothing
<1> QED
  BY <1>1, <1>2

\* Where the steps that both deployments have take a request.
LEMMA SharedStepTells ==
    ASSUME NEW S, req \in [Request -> S], NEW r \in Request, Truthful(r),
           \/ ServiceStep(r) \/ ReadForUpdate(r) \/ FindOrder(r) \/ RereadOrder(r)
           \/ Receive(r) \/ Crash(r)
    PROVE  /\ req'[r].pc # "resend"
           /\ Truthful(r)'
<1>1. CASE ServiceStep(r)
  <2>1. req'[r].pc \in {"answered", "settle", "rejected"}
    BY <1>1 DEF ServiceStep, RejectDuplicates, VerifyAccepts, VerifyRejects,
                ChainUnavailable, Goto, Answer
  <2> QED
    BY <2>1, TellsNothing DEF Telling
<1>2. CASE ReadForUpdate(r)
  <2>1. req'[r].pc \in {"save", "answered"}
    BY <1>2 DEF ReadForUpdate, Goto, Answer
  <2> QED
    BY <2>1, TellsNothing DEF Telling
<1>3. CASE FindOrder(r)
  <2>1. req'[r].pc \in {"verify", "answered"}
    BY <1>3 DEF FindOrder, AfterFind, Goto, Answer
  <2> QED
    BY <2>1, TellsNothing DEF Telling
<1>4. CASE RereadOrder(r)
  <2>1. req'[r] = AfterReread(req[r], order[req[r].order]) /\ order' = order
    BY <1>4 DEF RereadOrder, Goto
  <2>2. RereadSound(r) /\ req[r].pc = "reread"
    BY <1>4 DEF Truthful, RereadOrder
  <2> QED
    BY <2>1, <2>2 DEF AfterReread, Answer, RereadSound, Truthful, AnswerTrue
<1>5. CASE Receive(r)
  <2>1. req'[r].pc \in {"lookup", "find", "release", "create", "update", "remove"}
    BY <1>5 DEF Receive, ReceiveCheckout, ReceiveConfirm, ReceiveRelease,
                ReceiveCreate, ReceiveUpdate, ReceiveRemove, Goto
  <2> QED
    BY <2>1, TellsNothing DEF Telling
<1>6. CASE Crash(r)
  <2>1. req'[r].pc = "idle"
    BY <1>6 DEF Crash, Goto, Idle
  <2> QED
    BY <2>1, TellsNothing DEF Telling
<1> QED
  BY <1>1, <1>2, <1>3, <1>4, <1>5, <1>6

-----------------------------------------------------------------------------
(* What a step does to the orders. *)

\* The body of OnlyTheBuyerPays.
BuyerPays ==
    \A o \in OrderId :
        order[o].status = "PENDING" /\ order'[o].status = "PAID" =>
            \E r \in Request :
                /\ req[r].pc = "settle" /\ req[r].order = o
                /\ req[r].hash = order'[o].transactionHash
                /\ req[r].buyer = order[o].buyerId
                /\ Valid(order'[o].transactionHash, order[o].walletAddress, order[o].total)

\* A step that pays no order.
LEMMA NonePaid ==
    ASSUME \A o \in OrderId : order'[o] = order[o] \/ order'[o].status # "PAID"
    PROVE  BuyerPays
BY DEF BuyerPays

\* A request at its last step pays the order that it has checked.
LEMMA PaidByBuyer ==
    ASSUME order \in [OrderId -> Order \cup {NoOrder}], NEW r \in Request,
           req[r].pc = "settle", req[r] \in RequestState, RequestSound(r),
           AwaitsPayment(req[r].order), order' = OrderPaid(req[r].order, req[r].hash)
    PROVE  BuyerPays
<1>1. req[r].order \in OrderId /\ req[r].hash \in Hash
  BY AtPayment DEF SettleAt
<1>2. /\ req[r].buyer = order[req[r].order].buyerId
      /\ Valid(req[r].hash, order[req[r].order].walletAddress, order[req[r].order].total)
  BY DEF RequestSound
<1>3. order[req[r].order] \in Order
  BY <1>1, OrderThere DEF AwaitsPayment, OrderStatus
<1>4. /\ order'[req[r].order].transactionHash = req[r].hash
      /\ \A p \in OrderId \ {req[r].order} : order'[p] = order[p]
  BY <1>1, <1>3 DEF OrderPaid, Order
<1>5. SUFFICES ASSUME NEW o \in OrderId, order[o].status = "PENDING", order'[o].status = "PAID"
               PROVE  req[r].order = o
  BY <1>2, <1>4 DEF BuyerPays
<1> QED
  BY <1>4, <1>5

\* No order changes and no settled receipt does.
LEMMA OrdersUntouched ==
    ASSUME order \in [OrderId -> Order \cup {NoOrder}], OrdersSound, PaidIsPaid,
           \A t \in Tx : receipt[t] = "settled" => receipt'[t] = "settled",
           UNCHANGED order
    PROVE  OrdersKept /\ OrdersSound' /\ PaidIsPaid'
<1>1. OrdersKept /\ OrdersSound'
  BY DEF OrdersKept, OrdersSound
<1>2. \A o \in OrderId : order[o].status = "PAID" => TxOf[order[o].transactionHash] \in Tx
  BY ServicesAssumption DEF OrdersSound
<1>3. PaidIsPaid'
  BY <1>2 DEF PaidIsPaid
<1> QED
  BY <1>1, <1>3

\* A new order.
LEMMA OrderPlaced ==
    ASSUME order \in [OrderId -> Order \cup {NoOrder}], OrdersSound, PaidIsPaid,
           NEW o \in OrderId, NEW new \in Order, new.status = "PENDING",
           new.total = PriceOf(new.items),
           order[o] # NoOrder => Terms(order[o]) = Terms(new),
           order' = [order EXCEPT ![o] = new], UNCHANGED receipt
    PROVE  /\ order' \in [OrderId -> Order \cup {NoOrder}]
           /\ OrdersKept /\ OrdersSound' /\ PaidIsPaid'
           /\ order'[o] = new /\ \A p \in OrderId \ {o} : order'[p] = order[p]
<1>1. new # NoOrder
  BY DEF NoOrder
<1>2. order'[o] = new /\ \A p \in OrderId \ {o} : order'[p] = order[p]
  OBVIOUS
<1>3. OrdersKept
  BY <1>1, <1>2 DEF OrdersKept, Terms
<1>4. OrdersSound'
  BY <1>2 DEF OrdersSound
<1>5. PaidIsPaid'
  BY <1>2 DEF PaidIsPaid
<1> QED
  BY <1>2, <1>3, <1>4, <1>5

\* A failed order.
LEMMA OrderFails ==
    ASSUME order \in [OrderId -> Order \cup {NoOrder}], OrdersSound, PaidIsPaid,
           NEW o \in OrderId, AwaitsPayment(o), order' = OrderFailed(o), UNCHANGED receipt
    PROVE  /\ order' \in [OrderId -> Order \cup {NoOrder}]
           /\ OrdersKept /\ OrdersSound' /\ PaidIsPaid'
           /\ order'[o] = [order[o] EXCEPT !.status = "FAILED"]
           /\ order[o] \in Order /\ Terms(order'[o]) = Terms(order[o])
           /\ order'[o].status = "FAILED"
           /\ \A p \in OrderId \ {o} : order'[p] = order[p]
<1>1. order[o] \in Order
  BY OrderThere DEF AwaitsPayment, OrderStatus
<1> DEFINE new == [order[o] EXCEPT !.status = "FAILED"]
<1>2. new \in Order /\ new # NoOrder /\ new.status = "FAILED"
      /\ Terms(new) = Terms(order[o]) /\ new.total = order[o].total /\ new.items = order[o].items
  BY <1>1 DEF Order, OrderStatus, Terms, NoOrder
<1>3. order' = [order EXCEPT ![o] = new]
  BY DEF OrderFailed
<1> HIDE DEF new
<1>4. order'[o] = new /\ \A p \in OrderId \ {o} : order'[p] = order[p]
  BY <1>3
<1>5. OrdersKept
  BY <1>2, <1>4 DEF OrdersKept
<1>6. order[o].total = PriceOf(order[o].items)
  BY <1>1 DEF OrdersSound, Order, NoOrder
<1>7. OrdersSound'
  BY <1>2, <1>4, <1>6 DEF OrdersSound
<1>8. PaidIsPaid'
  BY <1>2, <1>4 DEF PaidIsPaid
<1>9. order' \in [OrderId -> Order \cup {NoOrder}]
  BY <1>2, <1>3
<1> QED
  BY <1>1, <1>2, <1>4, <1>5, <1>7, <1>8, <1>9 DEF new

\* A paid order: the chain has vouched for a transfer of its total.
LEMMA OrderIsPaid ==
    ASSUME order \in [OrderId -> Order \cup {NoOrder}], OrdersSound, PaidIsPaid,
           NEW o \in OrderId, AwaitsPayment(o), NEW h \in Hash, order' = OrderPaid(o, h),
           Valid(h, order[o].walletAddress, order[o].total), UNCHANGED receipt
    PROVE  /\ order' \in [OrderId -> Order \cup {NoOrder}]
           /\ OrdersKept /\ OrdersSound' /\ PaidIsPaid'
           /\ order[o] \in Order /\ Terms(order'[o]) = Terms(order[o])
           /\ order'[o].status = "PAID" /\ order'[o].transactionHash = h
           /\ \A p \in OrderId \ {o} : order'[p] = order[p]
<1>1. order[o] \in Order
  BY OrderThere DEF AwaitsPayment, OrderStatus
<1> DEFINE new == [order[o] EXCEPT !.status = "PAID", !.transactionHash = h]
<1>2. /\ new \in Order /\ new # NoOrder /\ new.status = "PAID" /\ new.transactionHash = h
      /\ Terms(new) = Terms(order[o]) /\ new.total = order[o].total /\ new.items = order[o].items
      /\ new.walletAddress = order[o].walletAddress
  BY <1>1 DEF Order, OrderStatus, Terms, NoOrder
<1>3. order' = [order EXCEPT ![o] = new]
  BY <1>1 DEF OrderPaid, Order
<1> HIDE DEF new
<1>4. order'[o] = new /\ \A p \in OrderId \ {o} : order'[p] = order[p]
  BY <1>3
<1>5. OrdersKept
  BY <1>2, <1>4 DEF OrdersKept
<1>6. order[o].total = PriceOf(order[o].items)
  BY <1>1 DEF OrdersSound, Order, NoOrder
<1>7. OrdersSound'
  BY <1>2, <1>4, <1>6 DEF OrdersSound
<1>8. PaidIsPaid'
  BY <1>2, <1>4, <1>6 DEF PaidIsPaid, Valid
<1>9. order' \in [OrderId -> Order \cup {NoOrder}]
  BY <1>2, <1>3
<1> QED
  BY <1>1, <1>2, <1>4, <1>5, <1>7, <1>8, <1>9

\* All requests rely on what is so after a step when the one that moves does, and
\* the step keeps what the others rely on.
LEMMA RequestsStaySound ==
    ASSUME \A r \in Request : RequestSound(r),
           \A r \in Request : req[r].pc \in Relying => req[r] \in RequestState,
           \A r \in Request : req'[r] = req[r] \/ RequestSound(r)',
           Kept
    PROVE  (\A r \in Request : RequestSound(r))'
<1>1. ASSUME NEW r \in Request
      PROVE  RequestSound(r)'
  BY <1>1, OthersSound
<1> QED
  BY <1>1

-----------------------------------------------------------------------------
(* Pieces: what an order takes off the shelf. *)

\* An order asks for a whole number of pieces of any article: the quantity of the
\* one line that is about it, or none.
LEMMA PiecesOf ==
    ASSUME NEW items \in Items, NEW a
    PROVE  /\ Pieces(items, a) \in Nat
           /\ \/ Pieces(items, a) = 0
              \/ \E i \in DOMAIN items : /\ items[i].articleId = a
                                         /\ Pieces(items, a) = items[i].quantity
<1> DEFINE Of   == {i \in DOMAIN items : items[i].articleId = a}
           line == CHOOSE i \in Of : TRUE
<1>1. CASE Of = {}
  BY <1>1 DEF Pieces
<1>2. CASE Of # {}
  <2>1. line \in DOMAIN items /\ items[line].articleId = a
    BY <1>2
  <2>2. Pieces(items, a) = items[line].quantity
    BY <1>2 DEF Pieces
  <2>3. items \in LinesOf(OrderItem)
    BY DEF Items
  <2>4. items[line] \in OrderItem
    BY <2>1, <2>3 DEF LinesOf
  <2>5. items[line].quantity \in 1..MaxQuantity
    BY <2>4 DEF OrderItem
  <2>6. items[line].quantity \in Nat
    BY <2>5, TypesAssumption
  <2> QED
    BY <2>1, <2>2, <2>6
<1> QED
  BY <1>1, <1>2

LEMMA TakenType ==
    ASSUME NEW x \in Order \cup {NoOrder}, NEW a
    PROVE  Taken(x, a) \in Int
<1>1. CASE x \in Order
  <2>1. x.items \in Items
    BY <1>1 DEF Order
  <2>2. Pieces(x.items, a) \in Int
    BY <2>1, PiecesOf
  <2> QED
    BY <2>2 DEF Taken
<1>2. CASE x = NoOrder
  BY <1>2 DEF Taken, NoOrder
<1> QED
  BY <1>1, <1>2

\* What all orders together take changes by as much as the one that changes does.
LEMMA TakenChange ==
    ASSUME IsFiniteSet(OrderId),
           order \in [OrderId -> Order \cup {NoOrder}],
           order' \in [OrderId -> Order \cup {NoOrder}],
           NEW o \in OrderId, \A p \in OrderId \ {o} : order'[p] = order[p], NEW a
    PROVE  /\ TakenInAll(a) \in Int
           /\ TakenInAll(a)' = TakenInAll(a) + Taken(order'[o], a) - Taken(order[o], a)
<1> DEFINE f == [p \in OrderId |-> Taken(order[p], a)]
           g == [p \in OrderId |-> Taken(order'[p], a)]
<1>1. f \in [OrderId -> Int] /\ g \in [OrderId -> Int]
  BY TakenType
<1>2. \A p \in OrderId : p # o => f[p] = g[p]
  OBVIOUS
<1>3. f[o] = Taken(order[o], a) /\ g[o] = Taken(order'[o], a)
  OBVIOUS
<1>4. TakenInAll(a) = SumFunctionOnSet(f, OrderId)
  BY DEF TakenInAll, SumFunction
<1>5. TakenInAll(a)' = SumFunctionOnSet(g, OrderId)
  BY DEF TakenInAll, SumFunction
<1> HIDE DEF f, g
<1>6. SumFunctionOnSet(f, OrderId) \in Int
  BY <1>1, SumType
<1>7. SumFunctionOnSet(g, OrderId) = SumFunctionOnSet(f, OrderId) + g[o] - f[o]
  BY <1>1, <1>2, SumChange
<1> QED
  BY <1>3, <1>4, <1>5, <1>6, <1>7

\* The body of PiecesConserved.
ConservingStep ==
    \/ CatalogueWrite
    \/ /\ DOMAIN article' = DOMAIN article
       /\ \A a \in DOMAIN article :
             ReadArticle(a).quantity' + TakenInAll(a)' = ReadArticle(a).quantity + TakenInAll(a)

\* Pieces are conserved by a step that changes one order and moves the pieces that
\* it accounts for.
LEMMA OneOrderConserves ==
    ASSUME IsFiniteSet(OrderId),
           order \in [OrderId -> Order \cup {NoOrder}],
           order' \in [OrderId -> Order \cup {NoOrder}],
           NEW o \in OrderId, \A p \in OrderId \ {o} : order'[p] = order[p],
           DOMAIN article' = DOMAIN article,
           \A a \in DOMAIN article :
               /\ ReadArticle(a).quantity \in Int
               /\ ReadArticle(a).quantity' =
                     ReadArticle(a).quantity + Taken(order[o], a) - Taken(order'[o], a)
    PROVE  ConservingStep
<1>1. ASSUME NEW a \in DOMAIN article
      PROVE  ReadArticle(a).quantity' + TakenInAll(a)' = ReadArticle(a).quantity + TakenInAll(a)
  <2>1. /\ TakenInAll(a) \in Int
        /\ TakenInAll(a)' = TakenInAll(a) + Taken(order'[o], a) - Taken(order[o], a)
    BY TakenChange
  <2>2. Taken(order'[o], a) \in Int /\ Taken(order[o], a) \in Int
    BY TakenType
  <2> QED
    BY <1>1, <2>1, <2>2
<1> QED
  BY <1>1 DEF ConservingStep

\* ... and by one that changes neither the orders nor the catalogue.
LEMMA NothingMovesConserves ==
    ASSUME UNCHANGED <<article, order>>
    PROVE  ConservingStep
BY DEF ConservingStep, ReadArticle, TakenInAll, ReadNumber

\* The body of PiecesNeverMade.
MakingNone ==
    \/ UNCHANGED <<article, order>>
    \/ CatalogueWrite
    \/ /\ DOMAIN article' = DOMAIN article
       /\ \A a \in DOMAIN article :
             ReadArticle(a).quantity' + TakenInAll(a)' <= ReadArticle(a).quantity + TakenInAll(a)

\* No pieces are made by a step that changes one order and gives back at most the
\* pieces that it no longer accounts for.
LEMMA OneOrderMakesNone ==
    ASSUME IsFiniteSet(OrderId),
           order \in [OrderId -> Order \cup {NoOrder}],
           order' \in [OrderId -> Order \cup {NoOrder}],
           NEW o \in OrderId, \A p \in OrderId \ {o} : order'[p] = order[p],
           DOMAIN article' = DOMAIN article,
           \A a \in DOMAIN article :
               /\ ReadArticle(a).quantity \in Int /\ ReadArticle(a).quantity' \in Int
               /\ ReadArticle(a).quantity' <=
                     ReadArticle(a).quantity + Taken(order[o], a) - Taken(order'[o], a)
    PROVE  MakingNone
<1>1. ASSUME NEW a \in DOMAIN article
      PROVE  ReadArticle(a).quantity' + TakenInAll(a)' <= ReadArticle(a).quantity + TakenInAll(a)
  <2>1. /\ TakenInAll(a) \in Int
        /\ TakenInAll(a)' = TakenInAll(a) + Taken(order'[o], a) - Taken(order[o], a)
    BY TakenChange
  <2>2. Taken(order'[o], a) \in Int /\ Taken(order[o], a) \in Int
    BY TakenType
  <2> QED
    BY <1>1, <2>1, <2>2
<1> QED
  BY <1>1 DEF MakingNone

\* What all orders together take is a number of pieces.
LEMMA TakenInAllType ==
    ASSUME IsFiniteSet(OrderId), order \in [OrderId -> Order \cup {NoOrder}], NEW a
    PROVE  TakenInAll(a) \in Int
<1> DEFINE f == [o \in OrderId |-> Taken(order[o], a)]
<1>1. f \in [OrderId -> Int]
  BY TakenType
<1> HIDE DEF f
<1>2. SumFunctionOnSet(f, OrderId) \in Int
  BY <1>1, SumType
<1> QED
  BY <1>2 DEF TakenInAll, SumFunction, f

\* A step that conserves pieces makes none.
LEMMA ConservingMakesNone ==
    ASSUME IsFiniteSet(OrderId), ConservingStep,
           order \in [OrderId -> Order \cup {NoOrder}],
           article \in [DOMAIN article -> ArticleData], CatalogueSound
    PROVE  MakingNone
<1>1. \A a \in DOMAIN article : ReadArticle(a).quantity \in Nat /\ TakenInAll(a) \in Int
  BY ReadArticleType, TakenInAllType
<1>2. ASSUME NEW a \in DOMAIN article,
             ReadArticle(a).quantity' + TakenInAll(a)' = ReadArticle(a).quantity + TakenInAll(a)
      PROVE  ReadArticle(a).quantity' + TakenInAll(a)' <= ReadArticle(a).quantity + TakenInAll(a)
  BY <1>1, <1>2
<1> QED
  BY <1>2 DEF ConservingStep, MakingNone

-----------------------------------------------------------------------------
(* Steps of the contract of the stores, seen through the database. *)

\* The shelf of the contract.
Stock == [a \in DOMAIN article |-> ReadArticle(a).quantity]

LEMMA ContractInit ==
    ASSUME ShopInit, Quantity \subseteq Shelf
    PROVE  Store!Init
<1>1. PICK S \in SUBSET Article : article \in [S -> NewArticle]
  BY DEF ShopInit
<1>2. \A a \in S : ReadArticle(a).quantity \in Shelf
  <2>1. \A a \in S : article[a].quantity \in Quantity
    BY <1>1 DEF NewArticle
  <2>2. Null \notin Quantity
    <3>1. Quantity \subseteq Nat
      BY TypesAssumption
    <3>2. Null \notin Nat
      BY ServicesAssumption
    <3> QED
      BY <3>1, <3>2
  <2> QED
    BY <2>1, <2>2 DEF ReadArticle, ReadNumber
<1>3. Stock \in [S -> Shelf]
  BY <1>1, <1>2 DEF Stock
<1>4. Stock \in UNION {[T -> Shelf] : T \in SUBSET Article}
  BY <1>3
<1>5. order = [o \in OrderId |-> NoOrder]
  BY DEF ShopInit
<1> QED
  BY <1>4, <1>5 DEF Store!Init, Store!NoOrder, NoOrder, Stock

LEMMA ContractStutter ==
    ASSUME UNCHANGED <<article, order>>
    PROVE  UNCHANGED Store!vars
BY DEF Store!vars, ReadArticle, ReadNumber

LEMMA ContractPlace ==
    ASSUME NEW o \in OrderId, NEW draft \in OrderDraft, order[o] = NoOrder,
           order' = [order EXCEPT ![o] = Pending(draft)],
           \A i \in DOMAIN draft.items :
               /\ draft.items[i].articleId \in DOMAIN article
               /\ ReadArticle(draft.items[i].articleId).quantity >= draft.items[i].quantity,
           DOMAIN article' = DOMAIN article,
           \A a \in DOMAIN article :
               ReadArticle(a).quantity' = ReadArticle(a).quantity - Pieces(draft.items, a)
    PROVE  Store!Next
<1>1. Store!Available(draft.items)
  BY DEF Store!Available
<1>2. \A a : Store!Pieces(draft.items, a) = Pieces(draft.items, a)
  BY DEF Store!Pieces, Pieces
<1>3. Store!Reserve(draft.items)
  BY <1>1, <1>2 DEF Store!Reserve
<1>4. Store!PlaceOrder(o, draft)
  BY <1>3 DEF Store!PlaceOrder, Store!NoOrder, NoOrder, Store!Pending, Pending
<1>5. Store!OrderDraft = OrderDraft
  BY DEF Store!OrderDraft, OrderDraft, Store!Items, Items, Store!LinesOf, LinesOf,
         Store!OrderItem, OrderItem, Store!UnitPrice, UnitPrice, Store!Distinct, Distinct
<1> QED
  BY <1>4, <1>5 DEF Store!Next

LEMMA ContractFail ==
    ASSUME NEW o \in OrderId, AwaitsPayment(o), order' = OrderFailed(o),
           DOMAIN article' = DOMAIN article,
           \A a \in DOMAIN article :
               ReadArticle(a).quantity' = ReadArticle(a).quantity + Pieces(order[o].items, a)
    PROVE  Store!Next
<1>1. \A a : Store!Pieces(order[o].items, a) = Pieces(order[o].items, a)
  BY DEF Store!Pieces, Pieces
<1>2. Store!FailPayment(o)
  BY <1>1 DEF Store!FailPayment, AwaitsPayment, OrderFailed
<1> QED
  BY <1>2 DEF Store!Next

LEMMA ContractPay ==
    ASSUME NEW o \in OrderId, NEW h \in Hash, AwaitsPayment(o), order' = OrderPaid(o, h),
           \A p \in OrderId : order[p].status = "PAID" => order[p].transactionHash # h,
           UNCHANGED article
    PROVE  Store!Next
<1>1. Store!HashFree(h)
  BY DEF Store!HashFree
<1>2. Stock' = Stock
  BY DEF Stock, ReadArticle, ReadNumber
<1>3. Store!ConfirmPayment(o, h)
  BY <1>1, <1>2 DEF Store!ConfirmPayment, AwaitsPayment, OrderPaid, Stock
<1> QED
  BY <1>3 DEF Store!Next

LEMMA ContractSave ==
    ASSUME NEW a \in Article, NEW quantity \in Shelf, UNCHANGED order,
           DOMAIN article' = DOMAIN article \cup {a},
           \A x \in DOMAIN article' :
               ReadArticle(x).quantity' = IF x = a THEN quantity ELSE ReadArticle(x).quantity
    PROVE  Store!Next
<1>1. Store!SaveArticle(a, quantity)
  BY DEF Store!SaveArticle
<1> QED
  BY <1>1 DEF Store!Next

LEMMA ContractDelete ==
    ASSUME NEW a \in Article, UNCHANGED order,
           article' = [x \in DOMAIN article \ {a} |-> article[x]]
    PROVE  Store!Next
<1>1. \A x \in DOMAIN article \ {a} : ReadArticle(x)' = ReadArticle(x)
  BY DEF ReadArticle
<1>2. Store!DeleteArticle(a)
  BY <1>1 DEF Store!DeleteArticle
<1> QED
  BY <1>2 DEF Store!Next

-----------------------------------------------------------------------------
(* What is proved of the contract holds of a shop that implements it. *)

Contract == INSTANCE OrderStore_proofs WITH
                stock <- Stock, orders <- order, Quantity <- Shelf

\* The assumptions of the contract, for the shelf that the shop gives it.
LEMMA ContractAssumption == Contract!TypesAssumption
<1>1. Shelf \subseteq Nat
  BY ShopAssumption
<1>2. MaxLines \in Nat \ {0} /\ MaxQuantity \in Nat \ {0} /\ Price \subseteq Nat
      /\ Money \subseteq Nat /\ Null \notin Wallet /\ Null \notin Hash
  BY TypesAssumption
<1> QED
  BY <1>1, <1>2 DEF Contract!TypesAssumption

LEMMA SameInit == Store!Init <=> Contract!Init
BY DEF Store!Init, Contract!Init, Stock, Store!NoOrder, Contract!NoOrder

LEMMA SameNext == [Store!Next]_Store!vars <=> [Contract!Next]_Contract!vars
<1>1. Store!OrderDraft = Contract!OrderDraft
  BY DEF Store!OrderDraft, Contract!OrderDraft, Store!Items, Contract!Items,
         Store!LinesOf, Contract!LinesOf, Store!OrderItem, Contract!OrderItem,
         Store!UnitPrice, Contract!UnitPrice, Store!Distinct, Contract!Distinct
<1>2. \A lines, a : Store!Pieces(lines, a) = Contract!Pieces(lines, a)
  BY DEF Store!Pieces, Contract!Pieces
<1>3. \A o, draft : Store!PlaceOrder(o, draft) <=> Contract!PlaceOrder(o, draft)
  BY <1>2 DEF Store!PlaceOrder, Contract!PlaceOrder, Store!Reserve, Contract!Reserve,
              Store!Available, Contract!Available, Store!Pending, Contract!Pending,
              Store!NoOrder, Contract!NoOrder, Stock
<1>4. \A o : Store!FailPayment(o) <=> Contract!FailPayment(o)
  BY <1>2 DEF Store!FailPayment, Contract!FailPayment, Stock
<1>5. \A o, h : Store!ConfirmPayment(o, h) <=> Contract!ConfirmPayment(o, h)
  BY DEF Store!ConfirmPayment, Contract!ConfirmPayment, Store!HashFree, Contract!HashFree, Stock
<1>6. \A a, quantity : Store!SaveArticle(a, quantity) <=> Contract!SaveArticle(a, quantity)
  BY DEF Store!SaveArticle, Contract!SaveArticle, Stock
<1>7. \A a : Store!DeleteArticle(a) <=> Contract!DeleteArticle(a)
  BY DEF Store!DeleteArticle, Contract!DeleteArticle, Stock
<1>8. (UNCHANGED Store!vars) <=> (UNCHANGED Contract!vars)
  BY DEF Store!vars, Contract!vars, Stock
<1> QED
  BY <1>1, <1>3, <1>4, <1>5, <1>6, <1>7, <1>8 DEF Store!Next, Contract!Next

LEMMA SameSpec == Store!Spec => Contract!Spec
<1> QED
  BY SameInit, SameNext, PTL DEF Store!Spec, Contract!Spec

\* The body of OrdersSettleOnce.
SettlingStep ==
    \A o \in OrderId :
        /\ order[o].status \in {"PAID", "FAILED"} => order'[o] = order[o]
        /\ order[o].status = "PENDING" =>
              /\ order'[o].status \in OrderStatus
              /\ Terms(order'[o]) = Terms(order[o])

\* A shop that implements the contract settles an order with one hash, and for good.
LEMMA SettledByContract ==
    Store!Spec => []HashesSettleOnce /\ OrdersSettleOnce
<1>1. HashesSettleOnce <=> Contract!OneHashOneOrder
  BY DEF HashesSettleOnce, Store!OneHashOneOrder, Contract!OneHashOneOrder
<1>2. Contract!Spec => []Contract!OneHashOneOrder
  BY ContractAssumption, Contract!OneTransferOneOrder
<1>3. Contract!Spec => Contract!OrdersSettleOnce
  BY ContractAssumption, Contract!SettledForGood
<1>4. Contract!Spec => [][Contract!SettleStep]_Contract!vars
  BY <1>3 DEF Contract!OrdersSettleOnce, Contract!SettleStep
<1>5. [Contract!SettleStep]_Contract!vars => [SettlingStep]_(Store!vars)
  BY DEF Contract!SettleStep, SettlingStep, Contract!vars, Store!vars, Stock,
         Contract!OrderStatus, OrderStatus, Contract!Terms, Terms
<1>6. [][SettlingStep]_(Store!vars) => OrdersSettleOnce
  BY DEF OrdersSettleOnce, Store!OrdersSettleOnce, SettlingStep, OrderStatus, Terms,
         Store!OrderStatus, Store!Terms
<1> QED
  BY <1>1, <1>2, <1>4, <1>5, <1>6, SameSpec, PTL

=============================================================================
