-------------------------- MODULE PostgresShop_proofs --------------------------
(***************************************************************************)
(* Proofs about the shop on PostgreSQL, for any sets of articles, orders,  *)
(* buyers, hashes, transactions and requests.                              *)
(*                                                                         *)
(* IInv is inductive: types, prices, rows without null, rows held by one   *)
(* transaction, and what each open transaction relies on until it commits. *)
(* TellInv says besides what payment results leave behind, and StillInv    *)
(* what is so while no deleted article comes back: then a release passes   *)
(* over only what stays deleted, and each commit is one step of the        *)
(* contract.                                                               *)
(***************************************************************************)
EXTENDS PostgresShop, Shop_proofs

State == RequestState \cup ReserveAt \cup GiveBackAt \cup ExistsAt \cup WriteAt \cup InsertAt

\* price and quantity are NOT NULL.
RowsSound ==
    \A a \in DOMAIN article : article[a].price \in UnitPrice /\ article[a].quantity \in Nat

\* A row of an article is held by one transaction.
HeldApart ==
    \A r, s \in Request : r # s => HeldArticles(r) \cap HeldArticles(s) = {}

\* A checkout in its transaction: the rows of the lines that are done are there, with
\* enough pieces.
ReserveSound(r) ==
    req[r].pc = "reserve" =>
        /\ req[r].done <= Len(req[r].draft.items)
        /\ req[r].draft.total = PriceOf(req[r].draft.items)
        /\ \A i \in 1..req[r].done :
              LET line == req[r].draft.items[i]
              IN  /\ line.articleId \in DOMAIN article
                  /\ article[line.articleId].quantity >= line.quantity

\* A release in its transaction: its order is pending, with the lines that were read,
\* and nobody else releases it; the rows of what it puts back are there.
GiveBackSound(r) ==
    req[r].pc = "giveback" =>
        /\ req[r].done <= Len(req[r].items)
        /\ order[req[r].order].status = "PENDING"
        /\ order[req[r].order].items = req[r].items
        /\ req[r].back \subseteq DOMAIN article
        /\ \A s \in Request \ {r} : req[s].pc = "giveback" => req[s].order # req[r].order

\* A save of an article that was there.
SaveSound(r) ==
    req[r].pc \in {"write", "insert"} =>
        /\ req[r].data.quantity \in Nat \cup {Null}
        /\ req[r].article \in minted

OpenSound(r) == ReserveSound(r) /\ GiveBackSound(r) /\ SaveSound(r)

IInv ==
    /\ TypeOK
    /\ ShopSound
    /\ RowsSound
    /\ HeldApart
    /\ \A r \in Request : OpenSound(r)

-----------------------------------------------------------------------------
(* Requests and their transactions. *)

\* The pc of a request tells which transaction is open.
LEMMA AtOpen ==
    ASSUME NEW q \in State
    PROVE  /\ q.pc = "reserve" => q \in ReserveAt
           /\ q.pc = "giveback" => q \in GiveBackAt
           /\ q.pc = "exists" => q \in ExistsAt
           /\ q.pc = "write" => q \in WriteAt
           /\ q.pc = "insert" => q \in InsertAt
           /\ q.pc \notin {"reserve", "giveback", "exists", "write", "insert"}
                  => q \in RequestState
BY DEF State, ReserveAt, GiveBackAt, ExistsAt, WriteAt, InsertAt, RequestState, CheckoutAt,
       PlaceAt, FindAt, VerifyAt, SettleAt, ReleaseAt, RereadAt, CreateAt, RecreateAt, UpdateAt,
       SaveAt, RemoveAt, Over, Answered, SoldOut, Rejected, Confirmed, Released, Idle

LEMMA NotOpen ==
    ASSUME NEW q \in RequestState
    PROVE  q.pc \notin {"reserve", "giveback", "exists", "write", "insert"}
BY DEF RequestState, CheckoutAt, PlaceAt, FindAt, VerifyAt, SettleAt, ReleaseAt, RereadAt,
       CreateAt, RecreateAt, UpdateAt, SaveAt, RemoveAt, Over, Answered, SoldOut, Rejected, Confirmed,
       Released, Idle

\* What each request may be counted on for, from the invariant.
LEMMA InvRequest ==
    ASSUME IInv, NEW r \in Request
    PROVE  /\ req \in [Request -> State] /\ req[r] \in State
           /\ req[r].pc \notin {"reserve", "giveback", "exists", "write", "insert"}
                  => req[r] \in RequestState
           /\ RequestSound(r) /\ OpenSound(r)
<1>1. req \in [Request -> State]
  BY DEF IInv, TypeOK, State
<1> QED
  BY <1>1, AtOpen DEF IInv, ShopSound

\* A request outside the transactions holds no row.
LEMMA HoldsNothing ==
    ASSUME NEW r, req[r].pc \notin {"reserve", "giveback"}
    PROVE  HeldArticles(r) = {}
BY DEF HeldArticles

\* What a transaction holds is its own affair.
LEMMA HeldByItself ==
    ASSUME NEW r, req'[r] = req[r]
    PROVE  HeldArticles(r)' = HeldArticles(r)
BY DEF HeldArticles, LinesIn

\* What a step of r leaves to the transactions of the others: the rows they hold,
\* with no fewer pieces, and the orders they have changed.
RowsKept(r) ==
    /\ \A s \in Request \ {r} : \A a \in HeldArticles(s) \cap DOMAIN article :
          a \in DOMAIN article' /\ article'[a].quantity >= article[a].quantity
    /\ \A s \in Request \ {r} : req[s].pc = "giveback" =>
          order'[req[s].order] = order[req[s].order]

\* Where a step takes the request that makes it.
Move(r) == req'[r] \in State /\ RequestSound(r)' /\ OpenSound(r)'

LEMMA ReserveStaysSound ==
    ASSUME IInv, NEW r \in Request, RowsKept(r), NEW s \in Request \ {r}, req'[s] = req[s],
           req[s].pc = "reserve", RowsSound'
    PROVE  ReserveSound(s)'
<1> DEFINE items == req[s].draft.items
<1>1. req[s] \in ReserveAt /\ ReserveSound(s)
  BY InvRequest, AtOpen DEF OpenSound
<1>2. ASSUME NEW i \in 1..req[s].done
      PROVE  /\ items[i].articleId \in DOMAIN article'
             /\ article'[items[i].articleId].quantity >= items[i].quantity
  <2>1. /\ items[i].articleId \in DOMAIN article
        /\ article[items[i].articleId].quantity >= items[i].quantity
    BY <1>1 DEF ReserveSound
  <2>2. items[i].articleId \in HeldArticles(s)
    BY DEF HeldArticles, LinesIn
  <2>3. /\ items[i].articleId \in DOMAIN article'
        /\ article'[items[i].articleId].quantity >= article[items[i].articleId].quantity
    BY <2>1, <2>2 DEF RowsKept
  <2>4. article[items[i].articleId].quantity \in Nat
        /\ article'[items[i].articleId].quantity \in Nat
    BY <2>1, <2>3 DEF RowsSound, IInv
  <2>5. items[i].quantity \in Nat
    <3>1. items \in LinesOf(OrderItem)
      BY <1>1 DEF ReserveAt, OrderDraft, Items
    <3>2. items \in Seq(OrderItem) /\ Len(items) \in Nat
      BY <3>1, LinesLength
    <3>3. i \in 1..Len(items)
      <4>1. req[s].done \in Nat /\ req[s].done <= Len(items)
        BY <1>1, TypesAssumption DEF ReserveSound, ReserveAt
      <4> QED
        BY <3>2, <4>1
    <3>4. items[i] \in OrderItem
      BY <3>2, <3>3
    <3> QED
      BY <3>4, TypesAssumption DEF OrderItem
  <2> QED
    BY <2>1, <2>3, <2>4, <2>5
<1> QED
  BY <1>1, <1>2 DEF ReserveSound

\* One request moves: the others go on as they were.
LEMMA Moves ==
    ASSUME IInv, NEW r \in Request, NEW next, Goto(r, next), Move(r), Kept, RowsKept(r),
           RowsSound',
           \A s \in Request \ {r} : HeldArticles(r)' \cap HeldArticles(s) = {}
    PROVE  /\ req' \in [Request -> State]
           /\ (\A s \in Request : RequestSound(s))'
           /\ HeldApart'
           /\ (\A s \in Request : OpenSound(s))'
<1>1. /\ req \in [Request -> State]
      /\ req'[r] = next /\ next \in State
      /\ \A s \in Request \ {r} : req'[s] = req[s]
  BY InvRequest, GotoRequest DEF Move
<1>2. req' \in [Request -> State]
  BY <1>1, GotoRequest
<1>3. (\A s \in Request : RequestSound(s))'
  <2>1. \A s \in Request : req[s].pc \in Relying => req[s] \in RequestState
    BY <1>1, AtOpen DEF Relying
  <2>2. \A s \in Request : RequestSound(s)
    BY DEF IInv, ShopSound
  <2>3. \A s \in Request : req'[s] = req[s] \/ RequestSound(s)'
    BY <1>1 DEF Move
  <2> QED
    BY <2>1, <2>2, <2>3, RequestsStaySound
<1>4. HeldApart'
  <2>1. \A s \in Request \ {r} : HeldArticles(s)' = HeldArticles(s)
    BY <1>1, HeldByItself
  <2>2. ASSUME NEW s \in Request, NEW t \in Request, s # t
        PROVE  HeldArticles(s)' \cap HeldArticles(t)' = {}
    BY <2>1, <2>2 DEF IInv, HeldApart
  <2> QED
    BY <2>2 DEF HeldApart
<1>5. ASSUME NEW s \in Request \ {r}
      PROVE  OpenSound(s)'
  <2>1. req'[s] = req[s] /\ req[s] \in State /\ OpenSound(s)
    BY <1>1, InvRequest
  <2>2. ReserveSound(s)'
    <3>1. CASE req[s].pc = "reserve"
      BY <2>1, <3>1, ReserveStaysSound
    <3> QED
      BY <2>1, <3>1 DEF ReserveSound
  <2>3. GiveBackSound(s)'
    <3>1. CASE req[s].pc = "giveback"
      <4>1. req[s] \in GiveBackAt
        BY <2>1, <3>1, AtOpen
      <4>2. order'[req[s].order] = order[req[s].order]
        BY <3>1 DEF RowsKept
      <4>3. req[s].back \subseteq DOMAIN article'
        <5>1. req[s].back \subseteq HeldArticles(s) \cap DOMAIN article
          BY <2>1, <3>1 DEF HeldArticles, OpenSound, GiveBackSound
        <5> QED
          BY <5>1 DEF RowsKept
      <4>4. \A t \in Request \ {s} : req'[t].pc = "giveback" => req'[t].order # req[s].order
        <5>1. req'[r].pc = "giveback" => req'[r].order # req[s].order
          BY <2>1, <3>1 DEF Move, OpenSound, GiveBackSound
        <5>2. \A t \in Request \ {s, r} : req'[t].pc = "giveback" => req'[t].order # req[s].order
          BY <1>1, <2>1, <3>1 DEF OpenSound, GiveBackSound
        <5> QED
          BY <5>1, <5>2
      <4> QED
        BY <2>1, <3>1, <4>2, <4>3, <4>4 DEF OpenSound, GiveBackSound
    <3> QED
      BY <2>1, <3>1 DEF GiveBackSound
  <2>4. SaveSound(s)'
    BY <2>1 DEF OpenSound, SaveSound, Kept
  <2> QED
    BY <2>2, <2>3, <2>4 DEF OpenSound
<1>6. (\A s \in Request : OpenSound(s))'
  BY <1>5 DEF Move
<1> QED
  BY <1>2, <1>3, <1>4, <1>6

\* A step that changes nothing but where one request is.
LEMMA OnlyRequestMoves ==
    ASSUME IInv, NEW r \in Request, NEW next, Goto(r, next), Move(r),
           UNCHANGED <<wallet, receipt, article, minted, order>>,
           \A s \in Request \ {r} : HeldArticles(r)' \cap HeldArticles(s) = {}
    PROVE  IInv'
<1>1. order \in [OrderId -> Order \cup {NoOrder}] /\ OrdersSound /\ PaidIsPaid
  BY DEF IInv, TypeOK, ShopTypeOK, ShopSound
<1>2. OrdersKept /\ OrdersSound' /\ PaidIsPaid'
  BY <1>1, OrdersUntouched
<1>3. Kept
  BY <1>2 DEF Kept
<1>4. RowsSound /\ RowsSound'
  BY DEF IInv, RowsSound
<1>5. RowsKept(r)
  <2>1. \A a \in DOMAIN article : article[a].quantity \in Nat
    BY <1>4 DEF RowsSound
  <2> QED
    BY <2>1 DEF RowsKept
<1>6. /\ req' \in [Request -> State]
      /\ (\A s \in Request : RequestSound(s))'
      /\ HeldApart'
      /\ (\A s \in Request : OpenSound(s))'
  BY <1>3, <1>4, <1>5, Moves
<1>7. TypeOK'
  BY <1>6 DEF IInv, TypeOK, ShopTypeOK, ServicesTypeOK, State
<1>8. CatalogueSound'
  BY DEF IInv, ShopSound, CatalogueSound
<1> QED
  BY <1>2, <1>4, <1>6, <1>7, <1>8 DEF IInv, ShopSound

\* A request that goes on outside the transactions has nothing open.
LEMMA MovesOut ==
    ASSUME NEW r \in Request, SoundMove(r)
    PROVE  Move(r) /\ HeldArticles(r)' = {}
<1>1. req'[r] \in State /\ req'[r].pc \notin {"reserve", "giveback", "exists", "write", "insert"}
  BY NotOpen DEF SoundMove, State
<1>2. HeldArticles(r)' = {}
  BY <1>1 DEF HeldArticles
<1> QED
  BY <1>1, <1>2 DEF Move, SoundMove, OpenSound, ReserveSound, GiveBackSound, SaveSound

LEMMA MovesOutInv ==
    ASSUME IInv, NEW r \in Request, NEW next, Goto(r, next), SoundMove(r),
           UNCHANGED <<wallet, receipt, article, minted, order>>
    PROVE  IInv'
BY MovesOut, OnlyRequestMoves

LEMMA AnswersInv ==
    ASSUME IInv, NEW r \in Request, NEW status \in {200, 201, 204, 400, 404, 409, 500},
           Goto(r, Answer(status)), UNCHANGED <<wallet, receipt, article, minted, order>>
    PROVE  IInv'
<1>1. req'[r] = Answer(status)
  BY InvRequest DEF Goto
<1> QED
  BY <1>1, AnswerSound, MovesOutInv

-----------------------------------------------------------------------------
(* Initially, and the steps that both deployments have. *)

LEMMA InitIInv == Init => IInv
<1> SUFFICES ASSUME Init
             PROVE  IInv
  OBVIOUS
<1>1. /\ ShopTypeOK /\ ShopSound
      /\ \A r \in Request : req[r] \in RequestState /\ req[r].pc = "idle"
      /\ req = [r \in Request |-> Idle]
      /\ \A a \in DOMAIN article : article[a] \in NewArticle
  BY ShopInitSound DEF Init
<1>2. TypeOK
  BY <1>1 DEF TypeOK
<1>3. RowsSound
  BY <1>1, NewArticleType DEF RowsSound
<1>4. HeldApart
  BY <1>1, HoldsNothing DEF HeldApart
<1>5. \A r \in Request : OpenSound(r)
  BY <1>1 DEF OpenSound, ReserveSound, GiveBackSound, SaveSound
<1> QED
  BY <1>1, <1>2, <1>3, <1>4, <1>5 DEF IInv

\* Where they take their request: to nothing open.
LEMMA SharedMove ==
    ASSUME IInv, NEW r \in Request,
           \/ ServiceStep(r) /\ UNCHANGED <<article, minted, order>>
           \/ ReadForUpdate(r)
           \/ FindOrder(r)
           \/ RereadOrder(r)
           \/ (Receive(r) \/ Crash(r)) /\ UNCHANGED <<article, minted, order>>
    PROVE  SoundMove(r)
<1>1. req \in [Request -> State] /\ RequestSound(r)
  BY InvRequest
<1>2. ShopTypeOK /\ CatalogueSound /\ order \in [OrderId -> Order \cup {NoOrder}]
  BY DEF IInv, TypeOK, ShopTypeOK, ShopSound
<1>3. CASE ServiceStep(r) /\ UNCHANGED <<article, minted, order>>
  <2>1. req[r].pc \in {"lookup", "verify"}
    BY <1>3 DEF ServiceStep, RejectDuplicates, VerifyAccepts, VerifyRejects, ChainUnavailable
  <2>2. req[r] \in RequestState
    BY <2>1, InvRequest
  <2> QED
    BY <1>1, <1>3, <2>2, ServiceStepSound
<1>4. CASE ReadForUpdate(r)
  <2>1. req[r] \in RequestState
    BY <1>4, InvRequest DEF ReadForUpdate
  <2> QED
    BY <1>1, <1>2, <1>4, <2>1, ReadForUpdateSound
<1>5. CASE FindOrder(r)
  <2>1. req[r] \in RequestState
    BY <1>5, InvRequest DEF FindOrder
  <2> QED
    BY <1>1, <1>2, <1>5, <2>1, FindOrderSound
<1>6. CASE RereadOrder(r)
  <2>1. req[r] \in RequestState
    BY <1>6, InvRequest DEF RereadOrder
  <2> QED
    BY <1>1, <1>6, <2>1, RereadOrderSound
<1>7. CASE Receive(r)
  BY <1>1, <1>7, ReceiveSound
<1>8. CASE Crash(r)
  BY <1>1, <1>8, CrashSound
<1> QED
  BY <1>3, <1>4, <1>5, <1>6, <1>7, <1>8

LEMMA SharedInv ==
    ASSUME IInv, NEW r \in Request,
           \/ ServiceStep(r) /\ UNCHANGED <<article, minted, order>>
           \/ ReadForUpdate(r)
           \/ FindOrder(r)
           \/ RereadOrder(r)
           \/ (Receive(r) \/ Crash(r)) /\ UNCHANGED <<article, minted, order>>
    PROVE  IInv'
<1>1. (\E next : Goto(r, next)) /\ UNCHANGED <<wallet, receipt, article, minted, order>>
  BY ServiceStepMoves, ReceiveMoves DEF ReadForUpdate, FindOrder, RereadOrder
<1> QED
  BY <1>1, SharedMove, MovesOutInv

\* The chain settles a transaction, or the shop gets another wallet.
LEMMA OutsideInv ==
    ASSUME IInv, UNCHANGED <<article, minted, order>>, (\E t \in Tx : Mine(t)) \/ Reconfigure
    PROVE  IInv'
<1>1. /\ UNCHANGED <<req, article, minted, order>>
      /\ wallet' \in Wallet \cup {Null}
      /\ receipt' \in [Tx -> {"open", "settled", "reverted"}]
      /\ \A t \in Tx : receipt[t] = "settled" => receipt'[t] = "settled"
  BY DEF Mine, Reconfigure, IInv, TypeOK, ShopTypeOK, ServicesTypeOK
<1>2. TypeOK'
  BY <1>1 DEF IInv, TypeOK, ShopTypeOK, ServicesTypeOK
<1>3. OrdersKept /\ OrdersSound' /\ PaidIsPaid'
  BY <1>1, OrdersUntouched DEF IInv, TypeOK, ShopTypeOK, ShopSound
<1>4. Kept
  BY <1>1, <1>3 DEF Kept
<1>5. (\A s \in Request : RequestSound(s))'
  <2>1. \A s \in Request : req[s].pc \in Relying => req[s] \in RequestState
    BY InvRequest DEF Relying
  <2>2. \A s \in Request : RequestSound(s)
    BY DEF IInv, ShopSound
  <2> QED
    BY <1>1, <1>4, <2>1, <2>2, RequestsStaySound
<1>6. CatalogueSound' /\ RowsSound' /\ HeldApart'
  BY <1>1, HeldByItself DEF IInv, ShopSound, CatalogueSound, RowsSound, HeldApart
<1>7. (\A s \in Request : OpenSound(s))'
  BY <1>1 DEF IInv, OpenSound, ReserveSound, GiveBackSound, SaveSound
<1> QED
  BY <1>2, <1>3, <1>5, <1>6, <1>7 DEF IInv, ShopSound

-----------------------------------------------------------------------------
(* The catalogue. *)

\* Rows that are there and not held may change at will; the others stay.
LEMMA HeldRowsKept ==
    ASSUME IInv, NEW r \in Request, UNCHANGED order,
           \A a \in DOMAIN article :
               \/ a \in DOMAIN article' /\ article'[a] = article[a]
               \/ ~ArticleHeld(a)
    PROVE  RowsKept(r)
<1>1. \A a \in DOMAIN article : article[a].quantity \in Nat
  BY DEF IInv, RowsSound
<1>2. \A s \in Request : \A a \in HeldArticles(s) : ArticleHeld(a)
  BY DEF ArticleHeld
<1> QED
  BY <1>1, <1>2 DEF RowsKept

\* A write to the catalogue that ends its request.
LEMMA CatalogueInv ==
    ASSUME IInv, NEW r \in Request, NEW status \in {200, 201, 204, 400, 404, 409, 500},
           Goto(r, Answer(status)), UNCHANGED <<wallet, receipt, order>>,
           minted \subseteq minted', minted' \subseteq Article, DOMAIN article' \subseteq minted',
           \A a \in DOMAIN article' :
               /\ article'[a] \in ArticleData
               /\ article'[a].price \in UnitPrice /\ article'[a].quantity \in Nat,
           article' = [a \in DOMAIN article' |-> article'[a]],
           \A a \in DOMAIN article :
               \/ a \in DOMAIN article' /\ article'[a] = article[a]
               \/ ~ArticleHeld(a)
    PROVE  IInv'
<1>1. req'[r] = Answer(status)
  BY InvRequest DEF Goto
<1>2. Move(r) /\ HeldArticles(r)' = {}
  BY <1>1, AnswerSound, MovesOut
<1>3. OrdersKept /\ OrdersSound' /\ PaidIsPaid'
  BY OrdersUntouched DEF IInv, TypeOK, ShopTypeOK, ShopSound
<1>4. Kept
  BY <1>3 DEF Kept
<1>5. RowsSound'
  BY DEF RowsSound
<1>6. RowsKept(r)
  BY HeldRowsKept
<1>7. /\ req' \in [Request -> State]
      /\ (\A s \in Request : RequestSound(s))'
      /\ HeldApart'
      /\ (\A s \in Request : OpenSound(s))'
  BY <1>2, <1>4, <1>5, <1>6, Moves
<1>8. TypeOK'
  <2>1. article' \in [DOMAIN article' -> ArticleData]
    OBVIOUS
  <2>2. order' \in [OrderId -> Order \cup {NoOrder}] /\ ServicesTypeOK'
    BY DEF IInv, TypeOK, ShopTypeOK, ServicesTypeOK
  <2> QED
    BY <1>7, <2>1, <2>2 DEF TypeOK, ShopTypeOK, State
<1>9. CatalogueSound'
  BY <1>5 DEF RowsSound, CatalogueSound
<1> QED
  BY <1>3, <1>5, <1>7, <1>8, <1>9 DEF IInv, ShopSound

\* The rows there are.
LEMMA RowType ==
    ASSUME IInv, NEW a \in DOMAIN article
    PROVE  /\ article[a] \in ArticleData /\ a \in minted /\ a \in Article
           /\ article[a].price \in UnitPrice /\ article[a].quantity \in Nat
           /\ article = [x \in DOMAIN article |-> article[x]]
BY DEF IInv, TypeOK, ShopTypeOK, RowsSound

LEMMA CreateArticleInv ==
    ASSUME IInv, NEW r \in Request, CreateArticle(r)
    PROVE  IInv'
<1>1. PICK a \in Article \ minted :
          /\ article' = [x \in DOMAIN article \cup {a} |->
                            IF x = a THEN req[r].data ELSE article[x]]
          /\ minted' = minted \cup {a}
  BY DEF CreateArticle
<1>2. req[r].data \in NewArticle
  BY InvRequest, AtCatalogue DEF CreateArticle, CreateAt
<1>3. DOMAIN article' = DOMAIN article \cup {a} /\ a \notin DOMAIN article
      /\ article'[a] = req[r].data /\ \A x \in DOMAIN article : article'[x] = article[x]
  BY <1>1 DEF IInv, TypeOK, ShopTypeOK
<1>4. DOMAIN article' \subseteq minted' /\ minted' \subseteq Article /\ minted \subseteq minted'
  BY <1>1, <1>3 DEF IInv, TypeOK, ShopTypeOK
<1>5. \A x \in DOMAIN article' :
          /\ article'[x] \in ArticleData
          /\ article'[x].price \in UnitPrice /\ article'[x].quantity \in Nat
  BY <1>2, <1>3, NewArticleType, RowType
<1>6. article' = [x \in DOMAIN article' |-> article'[x]]
  BY <1>1
<1>7. Goto(r, Answer(201)) /\ UNCHANGED <<wallet, receipt, order>>
  BY DEF CreateArticle
<1>8. \A x \in DOMAIN article : x \in DOMAIN article' /\ article'[x] = article[x]
  BY <1>3
<1> QED
  BY <1>4, <1>5, <1>6, <1>7, <1>8, CatalogueInv

\* A request that will save what it has read.
LEMMA CompareForSaveInv ==
    ASSUME IInv, NEW r \in Request, CompareForSave(r)
    PROVE  IInv'
<1> DEFINE a       == req[r].article
           data    == req[r].data
           changed == {c \in DOMAIN data : data[c] # article[a][c]}
<1>1. req[r] \in SaveAt /\ data.quantity \in Nat \cup {Null} /\ a \in minted
  BY InvRequest, AtCatalogue DEF CompareForSave, RequestSound
<1>2. a \in Article /\ data \in ArticleData
  BY <1>1 DEF SaveAt
<1>3. changed \subseteq {"price", "description", "quantity"}
  BY <1>2 DEF ArticleData
<1>4. UNCHANGED <<wallet, receipt, article, minted, order>>
  BY DEF CompareForSave
<1>5. ASSUME NEW next \in WriteAt \cup InsertAt, Goto(r, next), next.article = a,
             next.data = data
      PROVE  IInv'
  <2>1. req'[r] = next
    BY <1>5, InvRequest DEF Goto
  <2>2. next.pc \in {"write", "insert"}
    BY DEF WriteAt, InsertAt
  <2>3. RequestSound(r)'
    BY <2>1, <2>2, NothingReliedOn DEF Relying
  <2>4. HeldArticles(r)' = {}
    BY <2>1, <2>2 DEF HeldArticles
  <2>5. OpenSound(r)'
    BY <1>1, <1>4, <1>5, <2>1, <2>2 DEF OpenSound, ReserveSound, GiveBackSound, SaveSound
  <2>6. Move(r)
    BY <2>1, <2>3, <2>5 DEF Move, State
  <2> QED
    BY <1>4, <1>5, <2>4, <2>6, OnlyRequestMoves
<1>6. CASE a \notin DOMAIN article
  <2>1. Goto(r, [pc |-> "insert", article |-> a, data |-> data])
    BY <1>6 DEF CompareForSave
  <2>2. [pc |-> "insert", article |-> a, data |-> data] \in InsertAt
    BY <1>2 DEF InsertAt
  <2> QED
    BY <1>5, <2>1, <2>2
<1>7. CASE a \in DOMAIN article /\ changed = {}
  <2>1. Goto(r, Answer(200))
    BY <1>7 DEF CompareForSave
  <2> QED
    BY <1>4, <2>1, AnswersInv
<1>8. CASE a \in DOMAIN article /\ changed # {}
  <2> DEFINE next == [pc |-> "write", article |-> a, data |-> data, changed |-> changed]
  <2>1. Goto(r, next)
    BY <1>8 DEF CompareForSave
  <2>2. next \in WriteAt /\ next.article = a /\ next.data = data
    BY <1>2, <1>3 DEF WriteAt
  <2> HIDE DEF next
  <2> QED
    BY <1>5, <2>1, <2>2
<1> QED
  BY <1>6, <1>7, <1>8

LEMMA WriteChangedInv ==
    ASSUME IInv, NEW r \in Request, WriteChanged(r)
    PROVE  IInv'
<1> DEFINE a       == req[r].article
           data    == req[r].data
           changed == req[r].changed
           row     == [c \in DOMAIN data |-> IF c \in changed THEN data[c] ELSE article[a][c]]
<1>1. req[r] \in WriteAt /\ data.quantity \in Nat \cup {Null}
  BY InvRequest, AtOpen DEF WriteChanged, OpenSound, SaveSound
<1>2. data \in ArticleData /\ changed \subseteq {"price", "description", "quantity"}
  BY <1>1 DEF WriteAt
<1>3. UNCHANGED <<wallet, receipt, minted, order>>
  BY DEF WriteChanged
<1>4. CASE a \in DOMAIN article /\ NullColumn(data, changed)
  <2>1. Goto(r, Answer(500)) /\ UNCHANGED article
    BY <1>4 DEF WriteChanged
  <2> QED
    BY <1>3, <2>1, AnswersInv
<1>5. CASE a \notin DOMAIN article
  <2>1. Goto(r, Answer(200))
    BY <1>5 DEF WriteChanged
  <2>2. article' = [x \in DOMAIN article |-> article[x]]
    BY <1>5 DEF WriteChanged
  <2>3. article' = article
    BY <2>2 DEF IInv, TypeOK, ShopTypeOK
  <2> QED
    BY <1>3, <2>1, <2>3, AnswersInv
<1>6. CASE a \in DOMAIN article /\ ~NullColumn(data, changed)
  <2>1. /\ Goto(r, Answer(200)) /\ ~ArticleHeld(a)
        /\ article' = [x \in DOMAIN article |-> IF x = a THEN row ELSE article[x]]
    BY <1>6 DEF WriteChanged
  <2>2. /\ row \in ArticleData /\ row.price \in UnitPrice /\ row.quantity \in Nat
    <3>1. DOMAIN data = {"price", "description", "quantity"}
      BY <1>2 DEF ArticleData
    <3>2. row = [price |-> row.price, description |-> row.description,
                 quantity |-> row.quantity]
      BY <3>1
    <3>3. row.price \in UnitPrice
      BY <1>2, <1>6, <3>1, RowType DEF NullColumn, ArticleData
    <3>4. row.quantity \in Nat
      BY <1>1, <1>6, <3>1, RowType DEF NullColumn
    <3>5. row.description \in Description \cup {Null}
      BY <1>2, <1>6, <3>1, RowType DEF ArticleData
    <3> HIDE DEF row
    <3> QED
      BY <3>2, <3>3, <3>4, <3>5 DEF ArticleData
  <2> HIDE DEF row
  <2>3. DOMAIN article' = DOMAIN article /\ article'[a] = row
        /\ \A x \in DOMAIN article \ {a} : article'[x] = article[x]
    BY <1>6, <2>1
  <2>4. \A x \in DOMAIN article' :
            /\ article'[x] \in ArticleData
            /\ article'[x].price \in UnitPrice /\ article'[x].quantity \in Nat
    BY <2>2, <2>3, RowType
  <2>5. article' = [x \in DOMAIN article' |-> article'[x]]
    BY <2>1
  <2>6. DOMAIN article' \subseteq minted' /\ minted' \subseteq Article /\ minted \subseteq minted'
    BY <1>3, <2>3 DEF IInv, TypeOK, ShopTypeOK
  <2>7. \A x \in DOMAIN article :
            (x \in DOMAIN article' /\ article'[x] = article[x]) \/ ~ArticleHeld(x)
    BY <2>1, <2>3
  <2> QED
    BY <1>3, <2>1, <2>4, <2>5, <2>6, <2>7, CatalogueInv
<1> QED
  BY <1>4, <1>5, <1>6

LEMMA InsertAgainInv ==
    ASSUME IInv, NEW r \in Request, InsertAgain(r)
    PROVE  IInv'
<1> DEFINE a    == req[r].article
           data == req[r].data
<1>1. req[r] \in InsertAt /\ data.quantity \in Nat \cup {Null} /\ a \in minted
  BY InvRequest, AtOpen DEF InsertAgain, OpenSound, SaveSound
<1>2. data \in ArticleData
  BY <1>1 DEF InsertAt
<1>3. UNCHANGED <<wallet, receipt, minted, order>>
  BY DEF InsertAgain
<1>4. CASE a \in DOMAIN article \/ NullColumn(data, DOMAIN data)
  <2>1. Goto(r, Answer(500)) /\ UNCHANGED article
    BY <1>4 DEF InsertAgain
  <2> QED
    BY <1>3, <2>1, AnswersInv
<1>5. CASE ~(a \in DOMAIN article \/ NullColumn(data, DOMAIN data))
  <2>1. /\ Goto(r, Answer(200))
        /\ article' = [x \in DOMAIN article \cup {a} |-> IF x = a THEN data ELSE article[x]]
    BY <1>5 DEF InsertAgain
  <2>2. data.price \in UnitPrice /\ data.quantity \in Nat
    BY <1>1, <1>2, <1>5 DEF NullColumn, ArticleData
  <2>3. DOMAIN article' = DOMAIN article \cup {a} /\ article'[a] = data
        /\ \A x \in DOMAIN article : article'[x] = article[x]
    BY <1>5, <2>1
  <2>4. \A x \in DOMAIN article' :
            /\ article'[x] \in ArticleData
            /\ article'[x].price \in UnitPrice /\ article'[x].quantity \in Nat
    BY <1>2, <2>2, <2>3, RowType
  <2>5. article' = [x \in DOMAIN article' |-> article'[x]]
    BY <2>1
  <2>6. DOMAIN article' \subseteq minted' /\ minted' \subseteq Article /\ minted \subseteq minted'
    BY <1>1, <1>3, <2>3 DEF IInv, TypeOK, ShopTypeOK
  <2>7. \A x \in DOMAIN article : x \in DOMAIN article' /\ article'[x] = article[x]
    BY <2>3
  <2>8. Goto(r, Answer(200)) /\ UNCHANGED <<wallet, receipt, order>>
    BY <1>3, <2>1
  <2> QED
    BY <2>4, <2>5, <2>6, <2>7, <2>8, CatalogueInv
<1> QED
  BY <1>4, <1>5

LEMMA RemoveArticleInv ==
    ASSUME IInv, NEW r \in Request, RemoveArticle(r)
    PROVE  IInv'
<1> DEFINE a == req[r].article
<1>1. /\ ~ArticleHeld(a) \/ a \notin DOMAIN article
      /\ article' = [x \in DOMAIN article \ {a} |-> article[x]]
      /\ UNCHANGED <<wallet, receipt, minted, order>>
  BY DEF RemoveArticle
<1>2. Goto(r, Answer(204)) \/ Goto(r, Answer(404))
  BY DEF RemoveArticle
<1>3. DOMAIN article' = DOMAIN article \ {a}
      /\ \A x \in DOMAIN article \ {a} : article'[x] = article[x]
  BY <1>1
<1>4. \A x \in DOMAIN article' :
          /\ article'[x] \in ArticleData
          /\ article'[x].price \in UnitPrice /\ article'[x].quantity \in Nat
  BY <1>3, RowType
<1>5. article' = [x \in DOMAIN article' |-> article'[x]]
  BY <1>1
<1>6. DOMAIN article' \subseteq minted' /\ minted' \subseteq Article /\ minted \subseteq minted'
  BY <1>1, <1>3 DEF IInv, TypeOK, ShopTypeOK
<1>7. \A x \in DOMAIN article :
          (x \in DOMAIN article' /\ article'[x] = article[x]) \/ ~ArticleHeld(x)
  BY <1>1, <1>3
<1> QED
  BY <1>1, <1>2, <1>4, <1>5, <1>6, <1>7, CatalogueInv

-----------------------------------------------------------------------------
(* Checkout. *)

\* One SELECT prices all lines, and that is what placeOrder is given.
LEMMA PricedLinesType ==
    ASSUME IInv, NEW basket \in Basket, Distinct(basket),
           \A i \in DOMAIN basket : basket[i].articleId \in DOMAIN article
    PROVE  PricedLines(basket) \in Items /\ PriceOf(PricedLines(basket)) \in Money
<1> DEFINE items == PricedLines(basket)
<1>1. PICK n \in 1..MaxLines : basket \in [1..n -> BasketLine]
  BY DEF Basket, LinesOf
<1>2. \A i \in 1..n : ReadArticle(basket[i].articleId).price \in UnitPrice
  BY <1>1, ReadArticleType DEF IInv, TypeOK, ShopTypeOK, ShopSound
<1>3. items \in [1..n -> OrderItem]
  BY <1>1, <1>2 DEF PricedLines, BasketLine, OrderItem
<1>4. items \in LinesOf(OrderItem)
  BY <1>3 DEF LinesOf
<1>5. Distinct(items)
  BY <1>1 DEF PricedLines, Distinct
<1> QED
  BY <1>4, <1>5, MoneyAssumption DEF Items

LEMMA LookUpInv ==
    ASSUME IInv, NEW r \in Request, LookUp(r)
    PROVE  IInv'
<1> DEFINE basket == req[r].basket
           items  == PricedLines(basket)
           next   == [pc |-> "place", buyer |-> req[r].buyer, items |-> items,
                      total |-> PriceOf(items)]
<1>1. req[r] \in CheckoutAt
  BY InvRequest, AtCheckout DEF LookUp
<1>2. basket \in Basket /\ req[r].buyer \in Buyer /\ Distinct(basket)
  BY <1>1 DEF CheckoutAt, LookUp
<1>3. UNCHANGED <<wallet, receipt, article, minted, order>>
  BY DEF LookUp
<1>4. CASE \A i \in DOMAIN basket : basket[i].articleId \in DOMAIN article
  <2>1. Goto(r, next)
    BY <1>4 DEF LookUp
  <2>2. next \in PlaceAt /\ next.pc = "place" /\ next.total = PriceOf(next.items)
    BY <1>2, <1>4, PricedLinesType DEF PlaceAt
  <2> HIDE DEF next
  <2>3. req'[r] = next
    BY <2>1, InvRequest DEF Goto
  <2>4. req'[r] \in RequestState
    BY <2>2, <2>3 DEF RequestState
  <2>5. RequestSound(r)'
    BY <2>2, <2>3 DEF RequestSound
  <2> QED
    BY <1>3, <2>1, <2>4, <2>5, MovesOutInv DEF SoundMove
<1>5. CASE ~(\A i \in DOMAIN basket : basket[i].articleId \in DOMAIN article)
  <2>1. Goto(r, Answer(404))
    BY <1>5 DEF LookUp
  <2> QED
    BY <1>3, <2>1, AnswersInv
<1> QED
  BY <1>4, <1>5

LEMMA BeginPlaceOrderInv ==
    ASSUME IInv, NEW r \in Request, BeginPlaceOrder(r)
    PROVE  IInv'
<1> DEFINE draft == DraftOf(req[r])
           next  == [pc |-> "reserve", draft |-> draft, done |-> 0]
<1>1. req[r] \in PlaceAt /\ req[r].total = PriceOf(req[r].items)
  BY InvRequest, AtCheckout DEF BeginPlaceOrder, RequestSound
<1>2. draft \in OrderDraft /\ draft.items = req[r].items /\ draft.total = PriceOf(draft.items)
  BY <1>1 DEF DraftOf, OrderDraft, PlaceAt, IInv, TypeOK, ShopTypeOK, ServicesTypeOK
<1>3. Goto(r, next) /\ UNCHANGED <<wallet, receipt, article, minted, order>>
  BY DEF BeginPlaceOrder
<1>4. req'[r] = next
  BY <1>3, InvRequest DEF Goto
<1> HIDE DEF draft
<1>5. next \in ReserveAt
  BY <1>2, TypesAssumption DEF ReserveAt
<1>6. RequestSound(r)'
  BY <1>4, NothingReliedOn DEF Relying
<1>7. OpenSound(r)'
  <2>1. Len(draft.items) \in Nat
    <3>1. draft.items \in LinesOf(OrderItem)
      BY <1>2 DEF OrderDraft, Items
    <3> QED
      BY <3>1, LinesLength
  <2> QED
    BY <1>2, <1>4, <2>1 DEF OpenSound, ReserveSound, GiveBackSound, SaveSound
<1>8. Move(r)
  BY <1>4, <1>5, <1>6, <1>7 DEF Move, State
<1>9. HeldArticles(r)' = {}
  BY <1>4 DEF HeldArticles
<1> QED
  BY <1>3, <1>8, <1>9, OnlyRequestMoves

\* The lines of an open transaction, and the next one of them.
LEMMA NextItemType ==
    ASSUME IInv, NEW r \in Request, req[r].pc \in {"reserve", "giveback"}
    PROVE  /\ LinesIn(r) \in Items
           /\ LinesIn(r) \in Seq(OrderItem) /\ Len(LinesIn(r)) \in 1..MaxLines
           /\ Len(LinesIn(r)) \in Nat /\ req[r].done \in 0..Len(LinesIn(r))
           /\ req[r].done \in Nat
           /\ LinesLeft(r) =>
                 /\ req[r].done + 1 \in 1..Len(LinesIn(r))
                 /\ NextItem(r) = LinesIn(r)[req[r].done + 1]
                 /\ NextItem(r) \in OrderItem
           /\ ~LinesLeft(r) => req[r].done = Len(LinesIn(r))
<1>1. /\ LinesIn(r) \in Items
      /\ req[r].done \in 0..MaxLines /\ req[r].done <= Len(LinesIn(r))
  <2>1. CASE req[r].pc = "reserve"
    BY <2>1, InvRequest, AtOpen DEF ReserveAt, OrderDraft, OpenSound, ReserveSound, LinesIn
  <2>2. CASE req[r].pc = "giveback"
    BY <2>2, InvRequest, AtOpen DEF GiveBackAt, OpenSound, GiveBackSound, LinesIn
  <2> QED
    BY <2>1, <2>2
<1>2. LinesIn(r) \in Seq(OrderItem) /\ Len(LinesIn(r)) \in 1..MaxLines
  BY <1>1, LinesLength DEF Items
<1>3. req[r].done \in Nat /\ Len(LinesIn(r)) \in Nat
  BY <1>1, <1>2, TypesAssumption
<1>4. LinesLeft(r) <=> req[r].done < Len(LinesIn(r))
  BY DEF LinesLeft
<1> QED
  BY <1>1, <1>2, <1>3, <1>4 DEF NextItem

LEMMA ReserveStockInv ==
    ASSUME IInv, NEW r \in Request, ReserveStock(r)
    PROVE  IInv'
<1> DEFINE line == NextItem(r)
           n    == req[r].done
<1>1. /\ req[r] \in ReserveAt /\ ReserveSound(r) /\ req[r].pc = "reserve" /\ LinesLeft(r)
      /\ LinesIn(r) = req[r].draft.items
  BY InvRequest, AtOpen DEF ReserveStock, OpenSound, LinesIn
<1>2. /\ line = req[r].draft.items[n + 1] /\ line \in OrderItem
      /\ n \in Nat /\ n + 1 \in 1..Len(LinesIn(r)) /\ Len(LinesIn(r)) \in 1..MaxLines
  BY <1>1, NextItemType
<1>3. UNCHANGED <<wallet, receipt, article, minted, order>>
  BY DEF ReserveStock
<1>4. CASE Matches(r)
  <2> DEFINE next == [req[r] EXCEPT !.done = n + 1]
  <2>1. Goto(r, next) /\ ~ArticleHeld(line.articleId)
    BY <1>4 DEF ReserveStock
  <2>2. /\ line.articleId \in DOMAIN article
        /\ article[line.articleId].quantity >= line.quantity
    BY <1>1, <1>4 DEF Matches
  <2>3. /\ req'[r] = next /\ next \in ReserveAt
        /\ next.pc = "reserve" /\ next.done = n + 1 /\ next.draft = req[r].draft
    BY <1>1, <1>2, <2>1, InvRequest, TypesAssumption DEF Goto, ReserveAt
  <2> HIDE DEF next
  <2>4. RequestSound(r)'
    BY <2>3, NothingReliedOn DEF Relying
  <2>5. ReserveSound(r)'
    <3>1. \A i \in 1..(n + 1) : i \in 1..n \/ i = n + 1
      BY <1>2
    <3>2. n + 1 <= Len(req[r].draft.items)
      BY <1>1, <1>2
    <3> QED
      BY <1>1, <1>2, <1>3, <2>2, <2>3, <3>1, <3>2 DEF ReserveSound
  <2>6. OpenSound(r)'
    BY <2>3, <2>5 DEF OpenSound, GiveBackSound, SaveSound
  <2>7. Move(r)
    BY <2>3, <2>4, <2>6 DEF Move, State
  <2>8. HeldArticles(r)' = HeldArticles(r) \cup {line.articleId}
    <3>1. 1..(n + 1) = (1..n) \cup {n + 1}
      BY <1>2
    <3>2. HeldArticles(r) = {req[r].draft.items[i].articleId : i \in 1..n}
      BY <1>1 DEF HeldArticles, LinesIn
    <3>3. HeldArticles(r)' = {req[r].draft.items[i].articleId : i \in 1..(n + 1)}
      BY <2>3 DEF HeldArticles, LinesIn
    <3> QED
      BY <1>2, <3>1, <3>2, <3>3
  <2>9. \A s \in Request \ {r} : HeldArticles(r)' \cap HeldArticles(s) = {}
    <3>1. \A s \in Request : line.articleId \notin HeldArticles(s)
      BY <2>1 DEF ArticleHeld
    <3>2. \A s \in Request \ {r} : HeldArticles(r) \cap HeldArticles(s) = {}
      BY DEF IInv, HeldApart
    <3> HIDE DEF line
    <3> QED
      BY <2>8, <3>1, <3>2
  <2> QED
    BY <1>3, <2>1, <2>7, <2>9, OnlyRequestMoves
<1>5. CASE ~Matches(r)
  <2>1. Goto(r, [pc |-> "soldout", article |-> line.articleId])
    BY <1>5 DEF ReserveStock
  <2>2. req'[r] = [pc |-> "soldout", article |-> line.articleId]
    BY <2>1, InvRequest DEF Goto
  <2>3. req'[r] \in SoldOut
    BY <1>2, <2>2 DEF OrderItem, SoldOut
  <2>4. req'[r] \in RequestState
    BY <2>3 DEF Over, RequestState
  <2>5. SoundMove(r)
    BY <2>2, <2>4, NothingReliedOn DEF SoundMove, Relying
  <2> QED
    BY <1>3, <2>1, <2>5, MovesOutInv
<1> QED
  BY <1>4, <1>5

LEMMA AbortDeadlockedInv ==
    ASSUME IInv, NEW r \in Request, AbortDeadlocked(r)
    PROVE  IInv'
BY AnswersInv DEF AbortDeadlocked

-----------------------------------------------------------------------------
(* What is committed to the orders. *)

\* One request moves out of its transaction, or outside any, and writes an order.
LEMMA CommitInv ==
    ASSUME IInv, NEW r \in Request, NEW next, Goto(r, next), SoundMove(r),
           UNCHANGED <<wallet, receipt, minted>>,
           order' \in [OrderId -> Order \cup {NoOrder}], OrdersKept, OrdersSound', PaidIsPaid',
           \A s \in Request \ {r} : req[s].pc = "giveback" =>
               order'[req[s].order] = order[req[s].order],
           DOMAIN article' = DOMAIN article,
           article' = [a \in DOMAIN article |-> article'[a]],
           \A a \in DOMAIN article :
               /\ article'[a] \in ArticleData
               /\ article'[a].price \in UnitPrice /\ article'[a].quantity \in Nat
               /\ a \in HeldArticles(r) \/ article'[a].quantity >= article[a].quantity
    PROVE  IInv'
<1>1. Move(r) /\ HeldArticles(r)' = {}
  BY MovesOut
<1>2. Kept
  BY DEF Kept
<1>3. RowsSound'
  BY DEF RowsSound
<1>4. RowsKept(r)
  <2>1. \A s \in Request \ {r} : HeldArticles(r) \cap HeldArticles(s) = {}
    BY DEF IInv, HeldApart
  <2> QED
    BY <2>1 DEF RowsKept
<1>5. /\ req' \in [Request -> State]
      /\ (\A s \in Request : RequestSound(s))'
      /\ HeldApart'
      /\ (\A s \in Request : OpenSound(s))'
  BY <1>1, <1>2, <1>3, <1>4, Moves
<1>6. TypeOK'
  <2>1. article' \in [DOMAIN article' -> ArticleData]
    OBVIOUS
  <2>2. /\ ServicesTypeOK' /\ DOMAIN article' \subseteq minted' /\ minted' \subseteq Article
    BY DEF IInv, TypeOK, ShopTypeOK, ServicesTypeOK
  <2> QED
    BY <1>5, <2>1, <2>2 DEF TypeOK, ShopTypeOK, State
<1>7. CatalogueSound'
  BY <1>3 DEF RowsSound, CatalogueSound
<1> QED
  BY <1>3, <1>5, <1>6, <1>7 DEF IInv, ShopSound

\* The pieces of a row change, and nothing else of it.
LEMMA RowChanges ==
    ASSUME IInv, NEW after \in [DOMAIN article -> Nat],
           article' = [a \in DOMAIN article |-> [article[a] EXCEPT !.quantity = after[a]]]
    PROVE  /\ DOMAIN article' = DOMAIN article
           /\ article' = [a \in DOMAIN article |-> article'[a]]
           /\ \A a \in DOMAIN article :
                 /\ article'[a] \in ArticleData
                 /\ article'[a].price \in UnitPrice /\ article'[a].quantity \in Nat
                 /\ article'[a].quantity = after[a]
<1>1. ASSUME NEW a \in DOMAIN article
      PROVE  /\ article'[a] \in ArticleData
             /\ article'[a].price \in UnitPrice /\ article'[a].quantity \in Nat
             /\ article'[a].quantity = after[a]
  <2>1. article[a] \in ArticleData /\ article[a].price \in UnitPrice
    BY <1>1, RowType
  <2>2. after[a] \in Nat
    BY <1>1
  <2>3. article'[a] = [article[a] EXCEPT !.quantity = after[a]]
    BY <1>1
  <2> QED
    BY <2>1, <2>2, <2>3 DEF ArticleData
<1> QED
  BY <1>1

\* When every line is reserved: the pieces that are committed are on the shelf.
LEMMA ReservedRows ==
    ASSUME IInv, NEW r \in Request, req[r].pc = "reserve", ~LinesLeft(r)
    PROVE  LET items == req[r].draft.items
           IN  /\ req[r].draft \in OrderDraft /\ items \in Items /\ LinesIn(r) = items
               /\ \A i \in DOMAIN items :
                     /\ items[i].articleId \in DOMAIN article
                     /\ article[items[i].articleId].quantity >= items[i].quantity
               /\ \A a \in DOMAIN article :
                     /\ Pieces(items, a) \in Nat
                     /\ article[a].quantity - Pieces(items, a) \in Nat
                     /\ a \in HeldArticles(r) \/ Pieces(items, a) = 0
<1> DEFINE items == req[r].draft.items
<1>1. /\ req[r] \in ReserveAt /\ ReserveSound(r) /\ LinesIn(r) = items
  BY InvRequest, AtOpen DEF OpenSound, LinesIn
<1>2. req[r].draft \in OrderDraft /\ items \in Items
  BY <1>1 DEF ReserveAt, OrderDraft
<1>3. DOMAIN items = 1..req[r].done
  BY <1>1, NextItemType
<1>4. \A i \in DOMAIN items :
          /\ items[i].articleId \in DOMAIN article
          /\ article[items[i].articleId].quantity >= items[i].quantity
          /\ items[i].articleId \in HeldArticles(r)
  BY <1>1, <1>3 DEF ReserveSound, HeldArticles
<1>5. ASSUME NEW a \in DOMAIN article
      PROVE  /\ Pieces(items, a) \in Nat
             /\ article[a].quantity - Pieces(items, a) \in Nat
             /\ a \in HeldArticles(r) \/ Pieces(items, a) = 0
  <2>1. article[a].quantity \in Nat
    BY <1>5, RowType
  <2>2. /\ Pieces(items, a) \in Nat
        /\ \/ Pieces(items, a) = 0
           \/ \E i \in DOMAIN items : /\ items[i].articleId = a
                                      /\ Pieces(items, a) = items[i].quantity
    BY <1>2, PiecesOf
  <2> HIDE DEF items
  <2> QED
    BY <1>4, <2>1, <2>2
<1> QED
  BY <1>1, <1>2, <1>4, <1>5

\* What the commit of a checkout does.
LEMMA PlaceCommits ==
    ASSUME IInv, NEW r \in Request, CommitPlaceOrder(r)
    PROVE  /\ req[r].draft \in OrderDraft
           /\ \E id \in OrderId :
                 /\ order[id] = NoOrder /\ order' = [order EXCEPT ![id] = Pending(req[r].draft)]
           /\ Goto(r, Answer(201)) /\ UNCHANGED <<wallet, receipt, minted>>
           /\ DOMAIN article' = DOMAIN article
           /\ article' = [a \in DOMAIN article |-> article'[a]]
           /\ \A a \in DOMAIN article :
                 /\ article'[a] \in ArticleData
                 /\ article'[a].price \in UnitPrice /\ article'[a].quantity \in Nat
                 /\ article'[a].quantity = article[a].quantity - Pieces(req[r].draft.items, a)
                 /\ a \in HeldArticles(r) \/ article'[a].quantity = article[a].quantity
<1> DEFINE items == req[r].draft.items
           after == [a \in DOMAIN article |-> article[a].quantity - Pieces(items, a)]
<1>1. req[r].pc = "reserve" /\ ~LinesLeft(r)
  BY DEF CommitPlaceOrder
<1>2. /\ req[r].draft \in OrderDraft /\ LinesIn(r) = items
      /\ \A a \in DOMAIN article :
            /\ Pieces(items, a) \in Nat
            /\ article[a].quantity - Pieces(items, a) \in Nat
            /\ a \in HeldArticles(r) \/ Pieces(items, a) = 0
  BY <1>1, ReservedRows
<1>3. article' = [a \in DOMAIN article |-> [article[a] EXCEPT !.quantity = after[a]]]
  <2>1. article' = [a \in DOMAIN article |->
                       [article[a] EXCEPT !.quantity = @ - Pieces(items, a)]]
    BY <1>2 DEF CommitPlaceOrder
  <2>2. \A a \in DOMAIN article : after[a] = article[a].quantity - Pieces(items, a)
    OBVIOUS
  <2> HIDE DEF after
  <2> QED
    BY <2>1, <2>2
<1>4. after \in [DOMAIN article -> Nat]
  BY <1>2
<1>5. \A a \in DOMAIN article : after[a] = article[a].quantity - Pieces(items, a)
  OBVIOUS
<1>6. \A a \in DOMAIN article : article[a].quantity \in Nat
  BY RowType
<1> HIDE DEF after, items
<1>7. /\ DOMAIN article' = DOMAIN article
      /\ article' = [a \in DOMAIN article |-> article'[a]]
      /\ \A a \in DOMAIN article :
            /\ article'[a] \in ArticleData
            /\ article'[a].price \in UnitPrice /\ article'[a].quantity \in Nat
            /\ article'[a].quantity = after[a]
  BY <1>3, <1>4, RowChanges
<1>8. \A a \in DOMAIN article :
          /\ article'[a].quantity = article[a].quantity - Pieces(items, a)
          /\ a \in HeldArticles(r) \/ article'[a].quantity = article[a].quantity
  BY <1>2, <1>5, <1>6, <1>7
<1>9. /\ \E id \in OrderId :
            /\ order[id] = NoOrder /\ order' = [order EXCEPT ![id] = Pending(req[r].draft)]
      /\ Goto(r, Answer(201)) /\ UNCHANGED <<wallet, receipt, minted>>
  BY DEF CommitPlaceOrder
<1> QED
  BY <1>2, <1>7, <1>8, <1>9 DEF items

LEMMA CommitPlaceOrderInv ==
    ASSUME IInv, NEW r \in Request, CommitPlaceOrder(r)
    PROVE  IInv'
<1> DEFINE draft == req[r].draft
<1>1. /\ draft \in OrderDraft
      /\ Goto(r, Answer(201)) /\ UNCHANGED <<wallet, receipt, minted>>
      /\ DOMAIN article' = DOMAIN article
      /\ article' = [a \in DOMAIN article |-> article'[a]]
      /\ \A a \in DOMAIN article :
            /\ article'[a] \in ArticleData
            /\ article'[a].price \in UnitPrice /\ article'[a].quantity \in Nat
            /\ a \in HeldArticles(r) \/ article'[a].quantity = article[a].quantity
  BY PlaceCommits
<1>2. PICK id \in OrderId : order[id] = NoOrder /\ order' = [order EXCEPT ![id] = Pending(draft)]
  BY PlaceCommits
<1>3. draft.total = PriceOf(draft.items)
  BY InvRequest DEF CommitPlaceOrder, OpenSound, ReserveSound
<1> HIDE DEF draft
<1>4. /\ Pending(draft) \in Order /\ Pending(draft).status = "PENDING"
      /\ Pending(draft).total = PriceOf(Pending(draft).items)
  BY <1>1, <1>3 DEF Pending, Order, OrderDraft, OrderStatus
<1>5. /\ order' \in [OrderId -> Order \cup {NoOrder}]
      /\ OrdersKept /\ OrdersSound' /\ PaidIsPaid'
      /\ \A p \in OrderId \ {id} : order'[p] = order[p]
  <2>1. order \in [OrderId -> Order \cup {NoOrder}] /\ OrdersSound /\ PaidIsPaid
    BY DEF IInv, TypeOK, ShopTypeOK, ShopSound
  <2> HIDE DEF OrdersKept, OrdersSound, PaidIsPaid
  <2> QED
    BY <1>1, <1>2, <1>4, <2>1, OrderPlaced
<1>6. \A s \in Request \ {r} : req[s].pc = "giveback" => order'[req[s].order] = order[req[s].order]
  <2>1. ASSUME NEW s \in Request, req[s].pc = "giveback"
        PROVE  req[s].order \in OrderId \ {id}
    BY <1>2, <2>1, InvRequest, AtOpen DEF GiveBackAt, OpenSound, GiveBackSound, NoOrder
  <2> QED
    BY <1>5, <2>1
<1>7. SoundMove(r)
  <2>1. req'[r] = Answer(201)
    BY <1>1, InvRequest DEF Goto
  <2> QED
    BY <2>1, AnswerSound
<1>8. \A a \in DOMAIN article : a \in HeldArticles(r) \/ article'[a].quantity >= article[a].quantity
  BY <1>1, RowType
<1> QED
  BY <1>1, <1>5, <1>6, <1>7, <1>8, CommitInv

-----------------------------------------------------------------------------
(* Payment results. *)

\* An order is read, and maybe changed, before the request goes on or is refused.
LEMMA RefusedInv ==
    ASSUME IInv, NEW r \in Request, NEW reason, Goto(r, Refusal(reason)),
           UNCHANGED <<wallet, receipt, article, minted, order>>
    PROVE  IInv'
<1>1. req'[r] = Refusal(reason)
  BY InvRequest DEF Goto
<1> QED
  BY <1>1, RefusalMove, MovesOutInv

LEMMA BeginFailPaymentInv ==
    ASSUME IInv, NEW r \in Request, BeginFailPayment(r)
    PROVE  IInv'
<1> DEFINE o    == req[r].order
           next == [pc |-> "giveback", order |-> o, items |-> order[o].items,
                    done |-> 0, back |-> {}]
<1>1. o \in OrderId
  BY InvRequest, AtPayment DEF BeginFailPayment, ReleaseAt
<1>2. UNCHANGED <<wallet, receipt, article, minted, order>>
  BY DEF BeginFailPayment
<1>3. CASE AwaitsPayment(o)
  <2>1. Goto(r, next) /\ ~OrderHeld(o)
    BY <1>3 DEF BeginFailPayment
  <2>2. req'[r] = next
    BY <2>1, InvRequest DEF Goto
  <2>3. order[o] \in Order
    BY <1>1, <1>3, OrderThere DEF AwaitsPayment, OrderStatus, IInv, TypeOK, ShopTypeOK
  <2>4. order[o].items \in Items
    BY <2>3 DEF Order
  <2>5. Len(order[o].items) \in Nat
    BY <2>4, LinesLength DEF Items
  <2>6. next \in GiveBackAt
    BY <1>1, <2>4, TypesAssumption DEF GiveBackAt
  <2>7. RequestSound(r)'
    BY <2>2, NothingReliedOn DEF Relying
  <2>8. GiveBackSound(r)'
    <3>1. \A s \in Request \ {r} : req'[s] = req[s]
      BY <2>1, InvRequest, GotoRequest
    <3>2. \A s \in Request \ {r} : req'[s].pc = "giveback" => req'[s].order # o
      BY <2>1, <3>1 DEF OrderHeld
    <3>3. 0 <= Len(order[o].items)
      BY <2>5
    <3> QED
      BY <1>2, <1>3, <2>2, <3>2, <3>3 DEF GiveBackSound, AwaitsPayment
  <2>9. OpenSound(r)'
    BY <2>2, <2>8 DEF OpenSound, ReserveSound, SaveSound
  <2>10. Move(r)
    BY <2>2, <2>6, <2>7, <2>9 DEF Move, State
  <2>11. HeldArticles(r)' = {}
    BY <2>2 DEF HeldArticles
  <2> QED
    BY <1>2, <2>1, <2>10, <2>11, OnlyRequestMoves
<1>4. CASE ~AwaitsPayment(o)
  <2>1. Goto(r, Refusal(IF order[o] = NoOrder THEN "not-found" ELSE "not-pending"))
    BY <1>4 DEF BeginFailPayment
  <2> QED
    BY <1>2, <2>1, RefusedInv
<1> QED
  BY <1>3, <1>4

LEMMA ReleaseStockInv ==
    ASSUME IInv, NEW r \in Request, ReleaseStock(r)
    PROVE  IInv'
<1> DEFINE a    == NextItem(r).articleId
           n    == req[r].done
           back == req[r].back \cup ({a} \cap DOMAIN article)
           next == [req[r] EXCEPT !.done = n + 1, !.back = back]
<1>1. /\ req[r] \in GiveBackAt /\ GiveBackSound(r) /\ req[r].pc = "giveback" /\ LinesLeft(r)
      /\ LinesIn(r) = req[r].items
  BY InvRequest, AtOpen DEF ReleaseStock, OpenSound, LinesIn
<1>2. /\ NextItem(r) \in OrderItem /\ a \in Article
      /\ n \in Nat /\ n + 1 \in 1..Len(LinesIn(r)) /\ Len(LinesIn(r)) \in 1..MaxLines
  BY <1>1, NextItemType DEF OrderItem
<1>3. /\ a \in DOMAIN article => ~ArticleHeld(a)
      /\ Goto(r, next)
      /\ UNCHANGED <<wallet, receipt, article, minted, order>>
  BY DEF ReleaseStock
<1>4. back \subseteq DOMAIN article /\ back \subseteq Article
  BY <1>1, <1>2 DEF GiveBackSound, GiveBackAt
<1>5. HeldArticles(r) = req[r].back
  BY <1>1 DEF HeldArticles
<1>6. \A s \in Request \ {r} : back \cap HeldArticles(s) = {}
  <2>1. \A s \in Request \ {r} : req[r].back \cap HeldArticles(s) = {}
    BY <1>5 DEF IInv, HeldApart
  <2>2. \A s \in Request : a \in DOMAIN article => a \notin HeldArticles(s)
    BY <1>3 DEF ArticleHeld
  <2> QED
    BY <2>1, <2>2
<1> HIDE DEF back
<1>7. /\ req'[r] = next /\ next \in GiveBackAt
      /\ next.pc = "giveback" /\ next.done = n + 1 /\ next.back = back
      /\ next.order = req[r].order /\ next.items = req[r].items
  <2>1. req'[r] = next
    BY <1>3, InvRequest DEF Goto
  <2>2. n + 1 \in 0..MaxLines
    BY <1>2, TypesAssumption
  <2>3. /\ next \in GiveBackAt
        /\ next.pc = "giveback" /\ next.done = n + 1 /\ next.back = back
        /\ next.order = req[r].order /\ next.items = req[r].items
    BY <1>1, <1>4, <2>2 DEF GiveBackAt
  <2> QED
    BY <2>1, <2>3
<1> HIDE DEF next
<1>8. RequestSound(r)'
  BY <1>7, NothingReliedOn DEF Relying
<1>9. GiveBackSound(r)'
  <2>1. \A s \in Request \ {r} : req'[s] = req[s]
    BY <1>3, InvRequest, GotoRequest
  <2>2. n + 1 <= Len(req[r].items)
    BY <1>1, <1>2
  <2> QED
    BY <1>1, <1>3, <1>4, <1>7, <2>1, <2>2 DEF GiveBackSound
<1>10. OpenSound(r)'
  BY <1>7, <1>9 DEF OpenSound, ReserveSound, SaveSound
<1>11. Move(r)
  BY <1>7, <1>8, <1>10 DEF Move, State
<1>12. HeldArticles(r)' = back
  BY <1>7 DEF HeldArticles
<1> QED
  BY <1>3, <1>6, <1>11, <1>12, OnlyRequestMoves

\* What the commit of a release does.
LEMMA FailCommits ==
    ASSUME IInv, NEW r \in Request, CommitFailPayment(r)
    PROVE  /\ req[r].order \in OrderId /\ AwaitsPayment(req[r].order)
           /\ order' = OrderFailed(req[r].order)
           /\ order[req[r].order].items = req[r].items /\ req[r].items \in Items
           /\ req[r].pc = "giveback" /\ ~LinesLeft(r)
           /\ Goto(r, [pc |-> "released", order |-> req[r].order])
           /\ UNCHANGED <<wallet, receipt, minted>>
           /\ DOMAIN article' = DOMAIN article
           /\ article' = [a \in DOMAIN article |-> article'[a]]
           /\ \A a \in DOMAIN article :
                 /\ article'[a] \in ArticleData
                 /\ article'[a].price \in UnitPrice /\ article'[a].quantity \in Nat
                 /\ article'[a].quantity >= article[a].quantity
                 /\ a \in req[r].back => article'[a].quantity =
                                            article[a].quantity + Pieces(req[r].items, a)
                 /\ a \notin req[r].back => article'[a].quantity = article[a].quantity
<1> DEFINE items == req[r].items
           back  == req[r].back
           after == [a \in DOMAIN article |->
                        IF a \in back THEN article[a].quantity + Pieces(items, a)
                        ELSE article[a].quantity]
<1>1. /\ req[r].pc = "giveback" /\ ~LinesLeft(r)
      /\ order' = OrderFailed(req[r].order)
      /\ article' = [a \in DOMAIN article |->
                    IF a \in back
                    THEN [article[a] EXCEPT !.quantity = @ + Pieces(items, a)]
                    ELSE article[a]]
      /\ Goto(r, [pc |-> "released", order |-> req[r].order])
      /\ UNCHANGED <<wallet, receipt, minted>>
  BY DEF CommitFailPayment
<1>2. req[r] \in GiveBackAt /\ GiveBackSound(r)
  BY <1>1, InvRequest, AtOpen DEF OpenSound
<1>3. req[r].order \in OrderId /\ items \in Items
  BY <1>2 DEF GiveBackAt
<1>4. AwaitsPayment(req[r].order) /\ order[req[r].order].items = items
  BY <1>1, <1>2 DEF GiveBackSound, AwaitsPayment
<1>5. \A a \in DOMAIN article :
          /\ article[a].quantity \in Nat /\ Pieces(items, a) \in Nat
          /\ article[a].quantity + Pieces(items, a) \in Nat
          /\ article[a].quantity + Pieces(items, a) >= article[a].quantity
  <2>1. \A a \in DOMAIN article : article[a].quantity \in Nat /\ Pieces(items, a) \in Nat
    BY <1>3, PiecesOf, RowType
  <2> HIDE DEF items
  <2> QED
    BY <2>1
<1>6. after \in [DOMAIN article -> Nat]
  BY <1>5
<1>7. article' = [a \in DOMAIN article |-> [article[a] EXCEPT !.quantity = after[a]]]
  <2>1. \A a \in DOMAIN article : article[a] = [article[a] EXCEPT !.quantity = article[a].quantity]
    BY RowType DEF ArticleData
  <2>2. \A a \in DOMAIN article :
            (IF a \in back THEN [article[a] EXCEPT !.quantity = @ + Pieces(items, a)]
             ELSE article[a]) = [article[a] EXCEPT !.quantity = after[a]]
    BY <2>1
  <2> HIDE DEF after, items, back
  <2> QED
    BY <1>1, <2>2
<1>8. \A a \in DOMAIN article :
          /\ a \in back => after[a] = article[a].quantity + Pieces(items, a)
          /\ a \notin back => after[a] = article[a].quantity
  OBVIOUS
<1> HIDE DEF after
<1>9. /\ DOMAIN article' = DOMAIN article
      /\ article' = [a \in DOMAIN article |-> article'[a]]
      /\ \A a \in DOMAIN article :
            /\ article'[a] \in ArticleData
            /\ article'[a].price \in UnitPrice /\ article'[a].quantity \in Nat
            /\ article'[a].quantity = after[a]
  BY <1>6, <1>7, RowChanges
<1> HIDE DEF items, back
<1>10. \A a \in DOMAIN article :
          /\ article'[a].quantity >= article[a].quantity
          /\ a \in back => article'[a].quantity = article[a].quantity + Pieces(items, a)
          /\ a \notin back => article'[a].quantity = article[a].quantity
  BY <1>5, <1>8, <1>9
<1> QED
  BY <1>1, <1>3, <1>4, <1>9, <1>10 DEF items, back

LEMMA CommitFailPaymentInv ==
    ASSUME IInv, NEW r \in Request, CommitFailPayment(r)
    PROVE  IInv'
<1> DEFINE o    == req[r].order
           next == [pc |-> "released", order |-> o]
<1>1. /\ o \in OrderId /\ AwaitsPayment(o) /\ order' = OrderFailed(o)
      /\ req[r].pc = "giveback" /\ Goto(r, next) /\ UNCHANGED <<wallet, receipt, minted>>
  BY FailCommits
<1>2. /\ DOMAIN article' = DOMAIN article
      /\ article' = [a \in DOMAIN article |-> article'[a]]
      /\ \A a \in DOMAIN article :
            /\ article'[a] \in ArticleData
            /\ article'[a].price \in UnitPrice /\ article'[a].quantity \in Nat
            /\ article'[a].quantity >= article[a].quantity
  BY FailCommits
<1>3. order \in [OrderId -> Order \cup {NoOrder}] /\ OrdersSound /\ PaidIsPaid
  BY DEF IInv, TypeOK, ShopTypeOK, ShopSound
<1>4. /\ order' \in [OrderId -> Order \cup {NoOrder}]
      /\ OrdersKept /\ OrdersSound' /\ PaidIsPaid'
      /\ \A p \in OrderId \ {o} : order'[p] = order[p]
  BY <1>1, <1>3, OrderFails
<1>5. \A s \in Request \ {r} : req[s].pc = "giveback" => order'[req[s].order] = order[req[s].order]
  <2>1. ASSUME NEW s \in Request \ {r}, req[s].pc = "giveback"
        PROVE  req[s].order \in OrderId \ {o}
    BY <1>1, <2>1, InvRequest, AtOpen DEF GiveBackAt, OpenSound, GiveBackSound
  <2> QED
    BY <1>4, <2>1
<1>6. SoundMove(r)
  <2>1. req'[r] = next
    BY <1>1, InvRequest DEF Goto
  <2>2. next \in Released
    BY <1>1 DEF Released
  <2>3. next \in RequestState
    BY <2>2 DEF Over, RequestState
  <2> QED
    BY <2>1, <2>3, NothingReliedOn DEF SoundMove, Relying
<1> QED
  BY <1>1, <1>2, <1>4, <1>5, <1>6, CommitInv

LEMMA ConfirmPaymentInv ==
    ASSUME IInv, NEW r \in Request, ConfirmPayment(r)
    PROVE  IInv'
<1> DEFINE o == req[r].order
           h == req[r].hash
<1>1. req[r] \in SettleAt /\ o \in OrderId /\ h \in Hash
  BY InvRequest, AtPayment DEF ConfirmPayment, SettleAt
<1>2. UNCHANGED <<wallet, receipt, article, minted>>
  BY DEF ConfirmPayment
<1>3. CASE ~AwaitsPayment(o)
  <2> DEFINE next == [pc |-> "exists", order |-> o]
  <2>1. Goto(r, next) /\ UNCHANGED order
    BY <1>3 DEF ConfirmPayment
  <2>2. req'[r] = next /\ next \in ExistsAt
    BY <1>1, <2>1, InvRequest DEF Goto, ExistsAt
  <2>3. RequestSound(r)'
    BY <2>2, NothingReliedOn DEF Relying
  <2>4. OpenSound(r)' /\ HeldArticles(r)' = {}
    BY <2>2 DEF OpenSound, ReserveSound, GiveBackSound, SaveSound, HeldArticles
  <2>5. Move(r)
    BY <2>2, <2>3, <2>4 DEF Move, State
  <2> QED
    BY <1>2, <2>1, <2>4, <2>5, OnlyRequestMoves
<1>4. CASE AwaitsPayment(o) /\ HashUsed(h)
  <2>1. Goto(r, Refusal("hash-used")) /\ UNCHANGED order
    BY <1>4 DEF ConfirmPayment
  <2> QED
    BY <1>2, <2>1, RefusedInv
<1>5. CASE AwaitsPayment(o) /\ ~HashUsed(h)
  <2> DEFINE next == [pc |-> "reread", order |-> o, hash |-> h]
  <2>1. Goto(r, next) /\ ~OrderHeld(o) /\ order' = OrderPaid(o, h)
    BY <1>5 DEF ConfirmPayment
  <2>2. order \in [OrderId -> Order \cup {NoOrder}] /\ OrdersSound /\ PaidIsPaid
    BY DEF IInv, TypeOK, ShopTypeOK, ShopSound
  <2>3. Valid(h, order[o].walletAddress, order[o].total)
    BY InvRequest DEF RequestSound, ConfirmPayment
  <2>4. /\ order' \in [OrderId -> Order \cup {NoOrder}]
        /\ OrdersKept /\ OrdersSound' /\ PaidIsPaid'
        /\ \A p \in OrderId \ {o} : order'[p] = order[p]
    BY <1>1, <1>2, <1>5, <2>1, <2>2, <2>3, OrderIsPaid
  <2>5. \A s \in Request \ {r} :
            req[s].pc = "giveback" => order'[req[s].order] = order[req[s].order]
    <3>1. ASSUME NEW s \in Request, req[s].pc = "giveback"
          PROVE  req[s].order \in OrderId \ {o}
      BY <2>1, <3>1, InvRequest, AtOpen DEF GiveBackAt, OrderHeld
    <3> QED
      BY <2>4, <3>1
  <2>6. SoundMove(r)
    <3>1. req'[r] = next
      BY <2>1, InvRequest DEF Goto
    <3> QED
      BY <1>1, <3>1, RereadMove
  <2>7. \A a \in DOMAIN article :
            /\ article'[a] \in ArticleData
            /\ article'[a].price \in UnitPrice /\ article'[a].quantity \in Nat
            /\ article'[a].quantity >= article[a].quantity
    BY <1>2, RowType
  <2>8. DOMAIN article' = DOMAIN article /\ article' = [a \in DOMAIN article |-> article'[a]]
    BY <1>2 DEF IInv, TypeOK, ShopTypeOK
  <2> QED
    BY <1>2, <2>1, <2>4, <2>5, <2>6, <2>7, <2>8, CommitInv
<1> QED
  BY <1>3, <1>4, <1>5

LEMMA CheckExistsInv ==
    ASSUME IInv, NEW r \in Request, CheckExists(r)
    PROVE  IInv'
BY RefusedInv DEF CheckExists

-----------------------------------------------------------------------------
(* The invariant holds. *)

LEMMA ServerStepInv ==
    ASSUME IInv, NEW r \in Request, ServerStep(r)
    PROVE  IInv'
BY SharedInv, CreateArticleInv, CompareForSaveInv, WriteChangedInv, InsertAgainInv,
   RemoveArticleInv, LookUpInv, BeginPlaceOrderInv, ReserveStockInv, CommitPlaceOrderInv,
   AbortDeadlockedInv, ConfirmPaymentInv, CheckExistsInv, BeginFailPaymentInv,
   ReleaseStockInv, CommitFailPaymentInv DEF ServerStep

LEMMA EnvironmentInv ==
    ASSUME IInv, Environment
    PROVE  IInv'
<1>1. ASSUME NEW r \in Request, Receive(r) \/ Crash(r), UNCHANGED <<article, minted, order>>
      PROVE  IInv'
  BY <1>1, SharedInv
<1>2. ASSUME (\E t \in Tx : Mine(t)) \/ Reconfigure, UNCHANGED <<article, minted, order>>
      PROVE  IInv'
  BY <1>2, OutsideInv
<1> QED
  BY <1>1, <1>2 DEF Environment

LEMMA StutterInv ==
    ASSUME IInv, UNCHANGED vars
    PROVE  IInv'
<1>1. /\ UNCHANGED <<req, wallet, receipt, article, minted, order>>
  BY DEF vars, shopVars
<1>2. TypeOK' /\ RowsSound' /\ HeldApart'
  BY <1>1, HeldByItself DEF IInv, TypeOK, ShopTypeOK, ServicesTypeOK, RowsSound, HeldApart
<1>3. ShopSound'
  BY <1>1 DEF IInv, ShopSound, CatalogueSound, OrdersSound, PaidIsPaid, RequestSound, Valid,
              Quoting
<1>4. (\A r \in Request : OpenSound(r))'
  BY <1>1 DEF IInv, OpenSound, ReserveSound, GiveBackSound, SaveSound
<1> QED
  BY <1>2, <1>3, <1>4 DEF IInv

LEMMA NextIInv == IInv /\ [Next]_vars => IInv'
BY ServerStepInv, EnvironmentInv, StutterInv DEF Next

LEMMA Invariance == Spec => []IInv
BY InitIInv, NextIInv, PTL DEF Spec

\* A step of the shop, when the invariant holds: before it and after.
LEMMA BeforeAndAfter == Spec => [][IInv /\ IInv' /\ [Next]_vars]_vars
<1>1. [Next]_vars /\ IInv /\ IInv' => [IInv /\ IInv' /\ [Next]_vars]_vars
  OBVIOUS
<1> QED
  BY <1>1, Invariance, PTL DEF Spec

\* Types of the requests, with their open transactions, the chain and the rows.
THEOREM TypesHold == Spec => []TypeOK
BY Invariance, PTL DEF IInv

\* A paid order really was paid, to the address and at the prices of checkout.
THEOREM PaidHolds == Spec => []PaidIsPaid
<1>1. IInv => PaidIsPaid
  BY DEF IInv, ShopSound
<1> QED
  BY <1>1, Invariance, PTL

\* No article is ever oversold, whatever the transactions in progress hold.
THEOREM NotOversold == Spec => []NeverOversold
<1>1. IInv => NeverOversold
  <2> SUFFICES ASSUME IInv, NEW a \in DOMAIN article
               PROVE  ReadArticle(a).quantity >= 0
    BY DEF NeverOversold, Store!StockNeverNegative
  <2>1. ReadArticle(a).quantity \in Nat
    BY ReadArticleType DEF IInv, TypeOK, ShopTypeOK, ShopSound
  <2> QED
    BY <2>1
<1> QED
  BY <1>1, Invariance, PTL

-----------------------------------------------------------------------------
(* What a step does to the orders. *)

OrderSettled(o, h) == AwaitsPayment(o) /\ ~HashUsed(h) /\ order' = OrderPaid(o, h)

\* The commits and the UPDATE of confirmPayment are the only steps that change orders.
LEMMA OrderSteps ==
    ASSUME [Next]_vars
    PROVE  \/ UNCHANGED order
           \/ \E r \in Request : CommitPlaceOrder(r) \/ CommitFailPayment(r)
                                \/ ConfirmPayment(r)
<1>1. ASSUME NEW r \in Request, ServerStep(r)
      PROVE  \/ UNCHANGED order
             \/ CommitPlaceOrder(r) \/ CommitFailPayment(r) \/ ConfirmPayment(r)
  BY <1>1 DEF ServerStep, CreateArticle, ReadForUpdate, CompareForSave, WriteChanged,
              InsertAgain, RemoveArticle, LookUp, BeginPlaceOrder, ReserveStock,
              AbortDeadlocked, FindOrder, CheckExists, RereadOrder, BeginFailPayment,
              ReleaseStock
<1>2. CASE Environment
  BY <1>2 DEF Environment
<1>3. CASE UNCHANGED vars
  BY <1>3 DEF vars, shopVars
<1> QED
  BY <1>1, <1>2, <1>3 DEF Next

\* A confirmed payment: the order was pending and its hash on no other.
LEMMA ConfirmSettles ==
    ASSUME IInv, NEW r \in Request, ConfirmPayment(r)
    PROVE  /\ req[r].order \in OrderId /\ req[r].hash \in Hash
           /\ \/ /\ OrderSettled(req[r].order, req[r].hash)
                 /\ Goto(r, [pc |-> "reread", order |-> req[r].order, hash |-> req[r].hash])
              \/ /\ UNCHANGED order
                 /\ \/ Goto(r, [pc |-> "exists", order |-> req[r].order])
                    \/ Goto(r, Refusal("hash-used"))
<1>1. req[r] \in SettleAt
  BY InvRequest, AtPayment DEF ConfirmPayment
<1> QED
  BY <1>1 DEF ConfirmPayment, SettleAt, OrderSettled

\* An order that is placed, released or paid; no step changes two.
LEMMA OneOrderChanges ==
    ASSUME IInv, [Next]_vars
    PROVE  \/ UNCHANGED order
           \/ \E o \in OrderId, draft \in OrderDraft :
                 order[o] = NoOrder /\ order' = [order EXCEPT ![o] = Pending(draft)]
           \/ \E o \in OrderId : AwaitsPayment(o) /\ order' = OrderFailed(o)
           \/ \E o \in OrderId, h \in Hash : OrderSettled(o, h)
<1>1. ASSUME NEW r \in Request, CommitPlaceOrder(r)
      PROVE  \E o \in OrderId, draft \in OrderDraft :
                 order[o] = NoOrder /\ order' = [order EXCEPT ![o] = Pending(draft)]
  BY <1>1, PlaceCommits
<1>2. ASSUME NEW r \in Request, CommitFailPayment(r)
      PROVE  \E o \in OrderId : AwaitsPayment(o) /\ order' = OrderFailed(o)
  BY <1>2, FailCommits
<1>3. ASSUME NEW r \in Request, ConfirmPayment(r)
      PROVE  UNCHANGED order \/ \E o \in OrderId, h \in Hash : OrderSettled(o, h)
  BY <1>3, ConfirmSettles
<1> QED
  BY <1>1, <1>2, <1>3, OrderSteps

\* The order that changes, before and after.
LEMMA PendingChanges ==
    ASSUME IInv, NEW o \in OrderId, AwaitsPayment(o)
    PROVE  /\ order[o] \in Order
           /\ order' = OrderFailed(o) =>
                 /\ order'[o] = [order[o] EXCEPT !.status = "FAILED"]
                 /\ \A p \in OrderId \ {o} : order'[p] = order[p]
           /\ \A h \in Hash : order' = OrderPaid(o, h) =>
                 /\ order'[o] = [order[o] EXCEPT !.status = "PAID", !.transactionHash = h]
                 /\ \A p \in OrderId \ {o} : order'[p] = order[p]
<1>1. order \in [OrderId -> Order \cup {NoOrder}]
  BY DEF IInv, TypeOK, ShopTypeOK
<1>2. order[o] \in Order
  BY <1>1, OrderThere DEF AwaitsPayment, OrderStatus
<1> QED
  BY <1>1, <1>2 DEF OrderFailed, OrderPaid, Order

\* Paid and failed are final, and nothing that was agreed on ever changes.
LEMMA NextSettles == IInv /\ [Next]_vars => SettlingStep /\ SettledStay
<1> SUFFICES ASSUME IInv, [Next]_vars
             PROVE  SettlingStep /\ SettledStay
  OBVIOUS
<1>1. order \in [OrderId -> Order \cup {NoOrder}]
  BY DEF IInv, TypeOK, ShopTypeOK
<1>2. CASE UNCHANGED order
  BY <1>2 DEF SettlingStep, SettledStay, OrderStatus
<1>3. ASSUME NEW o \in OrderId, NEW draft \in OrderDraft, order[o] = NoOrder,
             order' = [order EXCEPT ![o] = Pending(draft)]
      PROVE  SettlingStep /\ SettledStay
  <2>1. \A p \in OrderId \ {o} : order'[p] = order[p]
    BY <1>1, <1>3
  <2> QED
    BY <1>3, <2>1 DEF SettlingStep, SettledStay, OrderStatus, NoOrder
<1>4. ASSUME NEW o \in OrderId, AwaitsPayment(o), NEW new,
             order'[o] = new, new.status \in {"PAID", "FAILED"}, Terms(new) = Terms(order[o]),
             \A p \in OrderId \ {o} : order'[p] = order[p]
      PROVE  SettlingStep /\ SettledStay
  BY <1>4 DEF SettlingStep, SettledStay, OrderStatus, AwaitsPayment
<1>5. ASSUME NEW o \in OrderId, AwaitsPayment(o), order' = OrderFailed(o)
      PROVE  SettlingStep /\ SettledStay
  <2>1. /\ order[o] \in Order
        /\ order'[o] = [order[o] EXCEPT !.status = "FAILED"]
        /\ \A p \in OrderId \ {o} : order'[p] = order[p]
    BY <1>5, PendingChanges
  <2>2. order'[o].status = "FAILED" /\ Terms(order'[o]) = Terms(order[o])
    BY <2>1 DEF Order, Terms
  <2> QED
    BY <1>4, <1>5, <2>1, <2>2
<1>6. ASSUME NEW o \in OrderId, NEW h \in Hash, OrderSettled(o, h)
      PROVE  SettlingStep /\ SettledStay
  <2>1. /\ order[o] \in Order
        /\ order'[o] = [order[o] EXCEPT !.status = "PAID", !.transactionHash = h]
        /\ \A p \in OrderId \ {o} : order'[p] = order[p]
    BY <1>6, PendingChanges DEF OrderSettled
  <2>2. order'[o].status = "PAID" /\ Terms(order'[o]) = Terms(order[o])
    BY <2>1 DEF Order, Terms
  <2> QED
    BY <1>4, <1>6, <2>1, <2>2 DEF OrderSettled
<1> QED
  BY <1>2, <1>3, <1>5, <1>6, OneOrderChanges

\* A settled order never changes, and until then only its status and hash do.
THEOREM OrdersSettle == Spec => OrdersSettleOnce
<1>1. IInv /\ [Next]_vars => [SettlingStep]_(Store!vars)
  BY NextSettles
<1>2. [][SettlingStep]_(Store!vars) => OrdersSettleOnce
  BY DEF OrdersSettleOnce, Store!OrdersSettleOnce, SettlingStep, OrderStatus, Terms,
         Store!OrderStatus, Store!Terms
<1> QED
  BY <1>1, <1>2, Invariance, PTL DEF Spec

LEMMA NextBuyerPays == IInv /\ [Next]_vars => BuyerPays
<1> SUFFICES ASSUME IInv, [Next]_vars
             PROVE  BuyerPays
  OBVIOUS
<1>1. order \in [OrderId -> Order \cup {NoOrder}]
  BY DEF IInv, TypeOK, ShopTypeOK
<1>2. CASE UNCHANGED order
  BY <1>2, NonePaid
<1>3. ASSUME NEW r \in Request, CommitPlaceOrder(r)
      PROVE  BuyerPays
  <2>1. PICK o \in OrderId : order' = [order EXCEPT ![o] = Pending(req[r].draft)]
    BY <1>3, PlaceCommits
  <2>2. \A p \in OrderId : order'[p] = order[p] \/ order'[p].status # "PAID"
    BY <1>1, <2>1 DEF Pending
  <2> QED
    BY <2>2, NonePaid
<1>4. ASSUME NEW r \in Request, CommitFailPayment(r)
      PROVE  BuyerPays
  <2>1. req[r].order \in OrderId /\ AwaitsPayment(req[r].order)
        /\ order' = OrderFailed(req[r].order)
    BY <1>4, FailCommits
  <2>3. /\ order'[req[r].order] = [order[req[r].order] EXCEPT !.status = "FAILED"]
        /\ order[req[r].order] \in Order
        /\ \A p \in OrderId \ {req[r].order} : order'[p] = order[p]
    BY <2>1, PendingChanges
  <2>4. order'[req[r].order].status # "PAID"
    BY <2>3 DEF Order
  <2>2. \A p \in OrderId : order'[p] = order[p] \/ order'[p].status # "PAID"
    BY <2>3, <2>4
  <2> QED
    BY <2>2, NonePaid
<1>5. ASSUME NEW r \in Request, ConfirmPayment(r)
      PROVE  BuyerPays
  <2>1. req[r].pc = "settle" /\ req[r] \in RequestState /\ RequestSound(r)
    BY <1>5, InvRequest DEF ConfirmPayment
  <2> QED
    BY <1>1, <1>2, <1>5, <2>1, ConfirmSettles, PaidByBuyer DEF OrderSettled
<1> QED
  BY <1>2, <1>3, <1>4, <1>5, OrderSteps

\* An order is paid only by its buyer, with a transfer that the chain has vouched
\* for, of its total, to its address.
THEOREM BuyerAlonePays == Spec => OnlyTheBuyerPays
<1>1. IInv /\ [Next]_vars => [BuyerPays]_shopVars
  BY NextBuyerPays
<1> QED
  BY <1>1, Invariance, PTL DEF Spec, OnlyTheBuyerPays, BuyerPays

\* An order that is not paid and has no hash, or that has one of its own.
LEMMA OneHashKept ==
    ASSUME HashesSettleOnce, NEW o \in OrderId,
           \A p \in OrderId \ {o} : order'[p] = order[p],
           \/ order'[o].status \in {"PENDING", "FAILED"} /\ order'[o].transactionHash = Null
           \/ /\ order'[o].status = "PAID" /\ order'[o].transactionHash # Null
              /\ \A p \in OrderId : order[p].status = "PAID" =>
                    order[p].transactionHash # order'[o].transactionHash
    PROVE  HashesSettleOnce'
<1> SUFFICES ASSUME NEW p \in OrderId, NEW q \in OrderId
             PROVE  /\ order'[p].status \in {"PENDING", "FAILED"} =>
                          order'[p].transactionHash = Null
                    /\ order'[p].status = "PAID" =>
                          /\ order'[p].transactionHash # Null
                          /\ order'[q].status = "PAID" /\ q # p =>
                                order'[q].transactionHash # order'[p].transactionHash
  BY DEF HashesSettleOnce, Store!OneHashOneOrder
<1>1. /\ order[p].status \in {"PENDING", "FAILED"} => order[p].transactionHash = Null
      /\ order[p].status = "PAID" =>
            /\ order[p].transactionHash # Null
            /\ order[q].status = "PAID" /\ q # p =>
                  order[q].transactionHash # order[p].transactionHash
  BY DEF HashesSettleOnce, Store!OneHashOneOrder
<1>2. CASE p # o /\ q # o
  BY <1>1, <1>2
<1>3. CASE p = o /\ q # o
  BY <1>3
<1>4. CASE p # o /\ q = o
  BY <1>1, <1>4
<1>5. CASE p = o /\ q = o
  BY <1>5
<1> QED
  BY <1>2, <1>3, <1>4, <1>5

\* The unique index keeps a hash to one order.
LEMMA NextOneHash ==
    ASSUME IInv, HashesSettleOnce, [Next]_vars
    PROVE  HashesSettleOnce'
<1>1. order \in [OrderId -> Order \cup {NoOrder}]
  BY DEF IInv, TypeOK, ShopTypeOK
<1>2. CASE UNCHANGED order
  BY <1>2 DEF HashesSettleOnce, Store!OneHashOneOrder
<1>3. ASSUME NEW o \in OrderId, NEW draft \in OrderDraft, order[o] = NoOrder,
             order' = [order EXCEPT ![o] = Pending(draft)]
      PROVE  HashesSettleOnce'
  <2>1. /\ order'[o].status = "PENDING" /\ order'[o].transactionHash = Null
        /\ \A p \in OrderId \ {o} : order'[p] = order[p]
    BY <1>1, <1>3 DEF Pending
  <2> QED
    BY <2>1, OneHashKept
<1>4. ASSUME NEW o \in OrderId, AwaitsPayment(o), order' = OrderFailed(o)
      PROVE  HashesSettleOnce'
  <2>1. /\ order[o] \in Order
        /\ order'[o] = [order[o] EXCEPT !.status = "FAILED"]
        /\ \A p \in OrderId \ {o} : order'[p] = order[p]
    BY <1>4, PendingChanges
  <2>2. order'[o].status = "FAILED" /\ order'[o].transactionHash = Null
    BY <1>4, <2>1 DEF Order, HashesSettleOnce, Store!OneHashOneOrder, AwaitsPayment
  <2> QED
    BY <2>1, <2>2, OneHashKept
<1>5. ASSUME NEW o \in OrderId, NEW h \in Hash, OrderSettled(o, h)
      PROVE  HashesSettleOnce'
  <2>1. /\ order[o] \in Order
        /\ order'[o] = [order[o] EXCEPT !.status = "PAID", !.transactionHash = h]
        /\ \A p \in OrderId \ {o} : order'[p] = order[p]
    BY <1>5, PendingChanges DEF OrderSettled
  <2>2. order'[o].status = "PAID" /\ order'[o].transactionHash = h /\ h # Null
    BY <2>1, TypesAssumption DEF Order
  <2>3. \A p \in OrderId : order[p].status = "PAID" => order[p].transactionHash # h
    BY <1>5 DEF OrderSettled, HashUsed
  <2> QED
    BY <2>1, <2>2, <2>3, OneHashKept
<1> QED
  BY <1>2, <1>3, <1>4, <1>5, OneOrderChanges

\* One transaction hash is on one order at most, and on a paid one.
THEOREM OneTransferOneOrderHolds == Spec => []HashesSettleOnce
<1>1. Init => HashesSettleOnce
  BY DEF Init, ShopInit, NoOrder, HashesSettleOnce, Store!OneHashOneOrder
<1>2. IInv /\ HashesSettleOnce /\ [Next]_vars => HashesSettleOnce'
  BY NextOneHash
<1> QED
  BY <1>1, <1>2, Invariance, PTL DEF Spec

-----------------------------------------------------------------------------
(* What requests say of their orders. *)

\* A step that takes a request of a transaction somewhere takes only that one.
LEMMA OneMoves ==
    ASSUME IInv, NEW r \in Request, ServerStep(r) \/ Receive(r) \/ Crash(r)
    PROVE  \A s \in Request \ {r} : req'[s] = req[s]
<1>1. req \in [Request -> State]
  BY InvRequest
<1>2. \E next : Goto(r, next)
  <2>1. CASE CreateArticle(r) \/ ReadForUpdate(r) \/ CompareForSave(r) \/ WriteChanged(r)
             \/ InsertAgain(r) \/ RemoveArticle(r)
    BY <2>1 DEF CreateArticle, ReadForUpdate, CompareForSave, WriteChanged, InsertAgain,
                RemoveArticle
  <2>2. CASE LookUp(r) \/ BeginPlaceOrder(r) \/ ReserveStock(r) \/ CommitPlaceOrder(r)
             \/ AbortDeadlocked(r)
    BY <2>2 DEF LookUp, BeginPlaceOrder, ReserveStock, CommitPlaceOrder, AbortDeadlocked
  <2>3. CASE FindOrder(r) \/ ConfirmPayment(r) \/ CheckExists(r) \/ RereadOrder(r)
             \/ BeginFailPayment(r) \/ ReleaseStock(r) \/ CommitFailPayment(r)
    BY <2>3 DEF FindOrder, ConfirmPayment, CheckExists, RereadOrder, BeginFailPayment,
                ReleaseStock, CommitFailPayment
  <2>4. CASE ServiceStep(r)
    BY <2>4, ServiceStepMoves
  <2>5. CASE Receive(r) \/ Crash(r)
    BY <2>5, ReceiveMoves DEF Crash
  <2> QED
    BY <2>1, <2>2, <2>3, <2>4, <2>5 DEF ServerStep
<1> QED
  BY <1>1, <1>2 DEF Goto

\* Where a step of this deployment's own takes a request that says nothing of an order.
LEMMA SilentSteps ==
    ASSUME IInv, NEW r \in Request,
           \/ CreateArticle(r) \/ CompareForSave(r) \/ WriteChanged(r) \/ InsertAgain(r)
           \/ RemoveArticle(r) \/ LookUp(r) \/ BeginPlaceOrder(r) \/ ReserveStock(r)
           \/ CommitPlaceOrder(r) \/ AbortDeadlocked(r) \/ CheckExists(r)
           \/ BeginFailPayment(r) \/ ReleaseStock(r)
    PROVE  req'[r].pc \notin Telling
<1>1. req \in [Request -> State]
  BY InvRequest
<1>2. CASE CreateArticle(r) \/ WriteChanged(r) \/ InsertAgain(r) \/ RemoveArticle(r)
           \/ CommitPlaceOrder(r) \/ AbortDeadlocked(r) \/ CheckExists(r)
  <2>1. req'[r].pc = "answered"
    BY <1>1, <1>2 DEF CreateArticle, WriteChanged, InsertAgain, RemoveArticle, CommitPlaceOrder,
                      AbortDeadlocked, CheckExists, Refusal, Goto, Answer
  <2> QED
    BY <2>1 DEF Telling
<1>3. CASE CompareForSave(r)
  <2>1. req'[r].pc \in {"insert", "write", "answered"}
    BY <1>1, <1>3 DEF CompareForSave, Goto, Answer
  <2> QED
    BY <2>1 DEF Telling
<1>4. CASE LookUp(r) \/ BeginPlaceOrder(r)
  <2>1. req'[r].pc \in {"place", "reserve", "answered"}
    BY <1>1, <1>4 DEF LookUp, BeginPlaceOrder, Goto, Answer
  <2> QED
    BY <2>1 DEF Telling
<1>5. CASE ReserveStock(r)
  <2>1. req[r] \in ReserveAt
    BY <1>5, InvRequest, AtOpen DEF ReserveStock
  <2>2. req'[r].pc \in {"reserve", "soldout"}
    BY <1>1, <1>5, <2>1 DEF ReserveStock, Goto, ReserveAt
  <2> QED
    BY <2>2 DEF Telling
<1>6. CASE BeginFailPayment(r)
  <2>1. req'[r].pc \in {"giveback", "answered"}
    BY <1>1, <1>6 DEF BeginFailPayment, Refusal, Goto, Answer
  <2> QED
    BY <2>1 DEF Telling
<1>7. CASE ReleaseStock(r)
  <2>1. req[r] \in GiveBackAt
    BY <1>7, InvRequest, AtOpen DEF ReleaseStock
  <2>2. req'[r].pc = "giveback"
    BY <1>1, <1>7, <2>1 DEF ReleaseStock, Goto, GiveBackAt
  <2> QED
    BY <2>2 DEF Telling
<1> QED
  BY <1>2, <1>3, <1>4, <1>5, <1>6, <1>7

\* What payment results leave behind is so when it is said.
LEMMA ResultsTell ==
    ASSUME IInv, NEW r \in Request, ConfirmPayment(r) \/ CommitFailPayment(r)
    PROVE  Truthful(r)'
<1>1. req \in [Request -> State]
  BY InvRequest
<1>2. CASE CommitFailPayment(r)
  <2>1. /\ req[r].order \in OrderId /\ AwaitsPayment(req[r].order)
        /\ order' = OrderFailed(req[r].order)
        /\ Goto(r, [pc |-> "released", order |-> req[r].order])
    BY <1>2, FailCommits
  <2>2. order'[req[r].order].status = "FAILED"
    BY <2>1, PendingChanges DEF Order
  <2>3. req'[r] = [pc |-> "released", order |-> req[r].order]
    BY <1>1, <2>1 DEF Goto
  <2> QED
    BY <2>2, <2>3 DEF Truthful, RereadSound, AnswerTrue
<1>3. CASE ConfirmPayment(r)
  <2>1. req[r].order \in OrderId /\ req[r].hash \in Hash
    BY <1>3, ConfirmSettles
  <2>2. CASE /\ OrderSettled(req[r].order, req[r].hash)
             /\ Goto(r, [pc |-> "reread", order |-> req[r].order, hash |-> req[r].hash])
    <3>1. req'[r] = [pc |-> "reread", order |-> req[r].order, hash |-> req[r].hash]
      BY <1>1, <2>2 DEF Goto
    <3>2. /\ order[req[r].order] \in Order
          /\ order'[req[r].order] = [order[req[r].order] EXCEPT !.status = "PAID",
                                                               !.transactionHash = req[r].hash]
      BY <2>1, <2>2, PendingChanges DEF OrderSettled
    <3>3. /\ order'[req[r].order].status = "PAID"
          /\ order'[req[r].order].transactionHash = req[r].hash
      BY <3>2 DEF Order
    <3>4. req[r].hash # Null
      BY <2>1, TypesAssumption
    <3> QED
      BY <3>1, <3>3, <3>4 DEF Truthful, RereadSound, AnswerTrue
  <2>3. CASE \/ Goto(r, [pc |-> "exists", order |-> req[r].order])
             \/ Goto(r, Refusal("hash-used"))
    <3>1. req'[r].pc \in {"exists", "answered"}
      BY <1>1, <2>3 DEF Goto, Refusal, Answer
    <3> QED
      BY <3>1, TellsNothing DEF Telling
  <2> QED
    BY <1>3, <2>2, <2>3, ConfirmSettles
<1> QED
  BY <1>2, <1>3

TellInv == \A r \in Request : Truthful(r)

LEMMA NextTellInv ==
    ASSUME IInv, TellInv, [Next]_vars
    PROVE  TellInv'
<1>1. SettledStay
  BY NextSettles
<1>2. ASSUME NEW s \in Request, req'[s] = req[s]
      PROVE  Truthful(s)'
  <2>1. req[s].pc \in Telling => req[s] \in RequestState
    BY InvRequest DEF Telling
  <2> QED
    BY <1>1, <1>2, <2>1, StaysTrue DEF TellInv
<1>3. ASSUME NEW r \in Request, ServerStep(r) \/ Receive(r) \/ Crash(r)
      PROVE  TellInv'
  <2>1. req \in [Request -> State] /\ Truthful(r)
    BY InvRequest DEF TellInv
  <2>2. CASE ServiceStep(r) \/ ReadForUpdate(r) \/ FindOrder(r) \/ RereadOrder(r)
             \/ Receive(r) \/ Crash(r)
    <3>1. Truthful(r)'
      BY <2>1, <2>2, SharedStepTells
    <3> QED
      BY <1>2, <1>3, <3>1, OneMoves DEF TellInv
  <2>3. CASE ConfirmPayment(r) \/ CommitFailPayment(r)
    <3>1. Truthful(r)'
      BY <2>3, ResultsTell
    <3> QED
      BY <1>2, <1>3, <3>1, OneMoves DEF TellInv
  <2>4. CASE \/ CreateArticle(r) \/ CompareForSave(r) \/ WriteChanged(r) \/ InsertAgain(r)
             \/ RemoveArticle(r) \/ LookUp(r) \/ BeginPlaceOrder(r) \/ ReserveStock(r)
             \/ CommitPlaceOrder(r) \/ AbortDeadlocked(r) \/ CheckExists(r)
             \/ BeginFailPayment(r) \/ ReleaseStock(r)
    <3>1. Truthful(r)'
      BY <2>4, SilentSteps, TellsNothing
    <3> QED
      BY <1>2, <1>3, <3>1, OneMoves DEF TellInv
  <2> QED
    BY <1>3, <2>2, <2>3, <2>4 DEF ServerStep
<1>4. CASE UNCHANGED req
  BY <1>2, <1>4 DEF TellInv
<1>5. CASE Environment
  BY <1>3, <1>4, <1>5 DEF Environment, Mine, Reconfigure
<1> QED
  BY <1>3, <1>4, <1>5 DEF Next, vars, shopVars

\* A customer told that an order is paid, or an integration told that its stock is
\* released, is never contradicted by the store later.
THEOREM AnswersHold == Spec => []AnswersStayTrue
<1>1. Init => TellInv
  <2> SUFFICES ASSUME Init, NEW r \in Request
               PROVE  Truthful(r)
    BY DEF TellInv
  <2>1. req[r].pc = "idle"
    BY DEF Init, ShopInit, ServicesInit, Idle
  <2> QED
    BY <2>1 DEF Truthful, RereadSound, AnswerTrue
<1>2. IInv /\ TellInv /\ [Next]_vars => TellInv'
  BY NextTellInv
<1>3. TellInv => AnswersStayTrue
  BY DEF TellInv, Truthful, AnswerTrue, AnswersStayTrue
<1> QED
  BY <1>1, <1>2, <1>3, Invariance, PTL DEF Spec

-----------------------------------------------------------------------------
(* The contract of the stores, and the pieces, while no article comes back. *)

\* A deleted article stays deleted.  The INSERT of an update that has found its
\* article gone is the one statement that brings an id back, and a release that
\* has passed over the article by then does not put its pieces back.
StaysGone == \A a \in minted \ DOMAIN article : a \notin DOMAIN article'

NoneComesBack == [][StaysGone]_vars

\* The lines of a release that are done are of articles that it puts back, or of
\* articles that are gone; and the articles of an order have existed.
StillInv ==
    /\ \A r \in Request : req[r].pc = "giveback" =>
          \A i \in 1..req[r].done :
              req[r].items[i].articleId \in req[r].back \/ req[r].items[i].articleId \notin DOMAIN article
    /\ \A o \in OrderId : order[o] # NoOrder =>
          \A i \in DOMAIN order[o].items : order[o].items[i].articleId \in minted

\* Only these steps take a request into a release.
LEMMA GiveBackSteps ==
    ASSUME IInv, NEW r \in Request, req'[r].pc = "giveback",
           \/ ServerStep(r)
           \/ (Receive(r) \/ Crash(r)) /\ UNCHANGED <<article, minted, order>>
    PROVE  BeginFailPayment(r) \/ ReleaseStock(r)
<1>1. req \in [Request -> State]
  BY InvRequest
<1>2. CASE \/ ServiceStep(r) /\ UNCHANGED <<article, minted, order>>
           \/ ReadForUpdate(r)
           \/ FindOrder(r)
           \/ RereadOrder(r)
           \/ (Receive(r) \/ Crash(r)) /\ UNCHANGED <<article, minted, order>>
  BY <1>2, SharedMove, NotOpen DEF SoundMove
<1>3. CASE CreateArticle(r) \/ WriteChanged(r) \/ InsertAgain(r) \/ RemoveArticle(r)
           \/ CommitPlaceOrder(r) \/ AbortDeadlocked(r) \/ CheckExists(r)
  BY <1>1, <1>3 DEF CreateArticle, WriteChanged, InsertAgain, RemoveArticle, CommitPlaceOrder,
                    AbortDeadlocked, CheckExists, Refusal, Goto, Answer
<1>4. CASE CompareForSave(r) \/ LookUp(r) \/ BeginPlaceOrder(r)
  BY <1>1, <1>4 DEF CompareForSave, LookUp, BeginPlaceOrder, Goto, Answer
<1>5. CASE ReserveStock(r)
  <2>1. req[r] \in ReserveAt
    BY <1>5, InvRequest, AtOpen DEF ReserveStock
  <2> QED
    BY <1>1, <1>5, <2>1 DEF ReserveStock, Goto, ReserveAt
<1>6. CASE ConfirmPayment(r)
  <2>1. req'[r].pc \in {"reread", "exists", "answered"}
    BY <1>1, <1>6 DEF ConfirmPayment, Refusal, Goto, Answer
  <2> QED
    BY <2>1
<1>7. CASE CommitFailPayment(r)
  BY <1>1, <1>7 DEF CommitFailPayment, Goto
<1> QED
  BY <1>2, <1>3, <1>4, <1>5, <1>6, <1>7 DEF ServerStep

\* Ids are given out for good.
LEMMA MintedStay ==
    ASSUME [Next]_vars
    PROVE  minted \subseteq minted'
<1>1. ASSUME NEW r \in Request, ServerStep(r)
      PROVE  minted \subseteq minted'
  BY <1>1 DEF ServerStep, CreateArticle, ReadForUpdate, CompareForSave, WriteChanged,
              InsertAgain, RemoveArticle, LookUp, BeginPlaceOrder, ReserveStock,
              CommitPlaceOrder, AbortDeadlocked, FindOrder, ConfirmPayment, CheckExists,
              RereadOrder, BeginFailPayment, ReleaseStock, CommitFailPayment
<1> QED
  BY <1>1 DEF Next, Environment, vars, shopVars

\* Orders are of articles that have existed.
LEMMA MintedLines ==
    ASSUME IInv, StillInv, [Next]_vars, NEW o \in OrderId, order'[o] # NoOrder,
           NEW i \in DOMAIN order'[o].items
    PROVE  order'[o].items[i].articleId \in minted'
<1>1. minted \subseteq minted' /\ DOMAIN article \subseteq minted
  BY MintedStay DEF IInv, TypeOK, ShopTypeOK
<1>2. order \in [OrderId -> Order \cup {NoOrder}]
  BY DEF IInv, TypeOK, ShopTypeOK
<1>3. CASE order[o] # NoOrder
  <2>1. order[o].status \in OrderStatus
    BY <1>2, <1>3, OrderThere
  <2>2. order'[o].items = order[o].items
    BY <2>1, NextSettles DEF SettlingStep, OrderStatus, Terms
  <2> QED
    BY <1>1, <1>3, <2>2 DEF StillInv
<1>4. CASE order[o] = NoOrder
  <2>1. \/ UNCHANGED order
        \/ \E p \in OrderId : AwaitsPayment(p) /\ order' = OrderFailed(p)
        \/ \E p \in OrderId, h \in Hash : OrderSettled(p, h)
        \/ \E r \in Request : CommitPlaceOrder(r)
    BY OrderSteps, FailCommits, ConfirmSettles
  <2>2. CASE \/ \E p \in OrderId : AwaitsPayment(p) /\ order' = OrderFailed(p)
             \/ \E p \in OrderId, h \in Hash : OrderSettled(p, h)
    <3>1. PICK p \in OrderId : /\ AwaitsPayment(p)
                               /\ \A x \in OrderId \ {p} : order'[x] = order[x]
      BY <2>2, PendingChanges DEF OrderSettled
    <3> QED
      BY <1>4, <3>1 DEF AwaitsPayment, NoOrder
  <2>3. ASSUME NEW r \in Request, CommitPlaceOrder(r)
        PROVE  order'[o].items[i].articleId \in minted'
    <3>1. PICK p \in OrderId : order' = [order EXCEPT ![p] = Pending(req[r].draft)]
      BY <2>3, PlaceCommits
    <3>2. order'[o] = Pending(req[r].draft)
      BY <1>2, <1>4, <3>1
    <3>3. order'[o].items = req[r].draft.items
      BY <3>2 DEF Pending
    <3>4. order'[o].items[i].articleId \in DOMAIN article
      BY <2>3, <3>3, ReservedRows DEF CommitPlaceOrder
    <3> QED
      BY <1>1, <3>4
  <2> QED
    BY <1>4, <2>1, <2>2, <2>3
<1> QED
  BY <1>3, <1>4

LEMMA NextStillInv ==
    ASSUME IInv, StillInv, [Next]_vars, StaysGone
    PROVE  StillInv'
<1> DEFINE Done(q, i) == q.items[i].articleId \in q.back \/ q.items[i].articleId \notin DOMAIN article'
<1>1. ASSUME NEW s \in Request, req'[s] = req[s], req[s].pc = "giveback", NEW i \in 1..req[s].done
      PROVE  Done(req[s], i)
  <2>1. req[s] \in GiveBackAt /\ GiveBackSound(s) /\ LinesIn(s) = req[s].items
    BY <1>1, InvRequest, AtOpen DEF OpenSound, LinesIn
  <2>2. i \in DOMAIN req[s].items
    BY <1>1, <2>1, NextItemType
  <2>3. req[s].items[i].articleId \in minted
    <3>1. /\ req[s].order \in OrderId /\ order[req[s].order] # NoOrder
          /\ order[req[s].order].items = req[s].items
      BY <1>1, <2>1 DEF GiveBackAt, GiveBackSound, NoOrder
    <3> QED
      BY <2>2, <3>1 DEF StillInv
  <2>4. \/ req[s].items[i].articleId \in req[s].back
        \/ req[s].items[i].articleId \notin DOMAIN article
    BY <1>1 DEF StillInv
  <2> QED
    BY <2>3, <2>4 DEF StaysGone
<1>2. ASSUME NEW r \in Request, BeginFailPayment(r) \/ ReleaseStock(r), req'[r].pc = "giveback",
             NEW i \in 1..req'[r].done
      PROVE  Done(req'[r], i)
  <2>1. CASE BeginFailPayment(r)
    <3>1. req'[r].done = 0
      BY <1>2, <2>1, InvRequest DEF BeginFailPayment, Goto, Refusal, Answer
    <3> QED
      BY <1>2, <3>1
  <2>2. CASE ReleaseStock(r)
    <3> DEFINE n == req[r].done
               a == NextItem(r).articleId
    <3>1. req[r] \in GiveBackAt /\ req[r].pc = "giveback"
      BY <2>2, InvRequest, AtOpen DEF ReleaseStock
    <3>2. /\ n \in Nat /\ NextItem(r) = req[r].items[n + 1]
      BY <2>2, <3>1, NextItemType DEF ReleaseStock, LinesIn
    <3>3. /\ req'[r].done = n + 1 /\ req'[r].items = req[r].items
          /\ req'[r].back = req[r].back \cup ({a} \cap DOMAIN article)
          /\ article' = article
      BY <2>2, <3>1, InvRequest DEF ReleaseStock, Goto, GiveBackAt
    <3>4. i \in 1..n \/ i = n + 1
      BY <1>2, <3>2, <3>3
    <3>5. CASE i \in 1..n
      BY <3>1, <3>3, <3>5 DEF StillInv
    <3>6. CASE i = n + 1
      BY <3>2, <3>3, <3>6
    <3> QED
      BY <3>4, <3>5, <3>6
  <2> QED
    BY <1>2, <2>1, <2>2
<1>3. ASSUME NEW s \in Request, req'[s].pc = "giveback", NEW i \in 1..req'[s].done
      PROVE  Done(req'[s], i)
  <2>1. \/ req'[s] = req[s]
        \/ ServerStep(s)
        \/ (Receive(s) \/ Crash(s)) /\ UNCHANGED <<article, minted, order>>
    <3>1. CASE UNCHANGED req
      BY <3>1
    <3>2. ASSUME NEW r \in Request, ServerStep(r)
          PROVE  req'[s] = req[s] \/ ServerStep(s)
      BY <3>2, OneMoves
    <3>3. ASSUME NEW r \in Request, (Receive(r) \/ Crash(r)), UNCHANGED <<article, minted, order>>
          PROVE  \/ req'[s] = req[s]
                 \/ (Receive(s) \/ Crash(s)) /\ UNCHANGED <<article, minted, order>>
      BY <3>3, OneMoves
    <3> QED
      BY <3>1, <3>2, <3>3 DEF Next, Environment, Mine, Reconfigure, vars, shopVars
  <2>2. CASE req'[s] = req[s]
    <3>1. req[s].pc = "giveback" /\ i \in 1..req[s].done
      BY <1>3, <2>2
    <3> QED
      BY <1>1, <2>2, <3>1
  <2>3. CASE BeginFailPayment(s) \/ ReleaseStock(s)
    BY <1>2, <1>3, <2>3
  <2> QED
    BY <1>3, <2>1, <2>2, <2>3, GiveBackSteps
<1>4. \A o \in OrderId : order'[o] # NoOrder =>
          \A i \in DOMAIN order'[o].items : order'[o].items[i].articleId \in minted'
  BY MintedLines
<1> QED
  BY <1>3, <1>4 DEF StillInv

\* At first there is no order and no release.
LEMMA InitStillInv == Init => StillInv
BY DEF Init, ShopInit, ServicesInit, StillInv, Idle, NoOrder

\* So it stays, as long as no article comes back.
LEMMA StillInvariance == Spec /\ NoneComesBack => [](IInv /\ StillInv)
<1>1. IInv /\ StillInv /\ [Next]_vars /\ [StaysGone]_vars => StillInv'
  <2>1. UNCHANGED vars => StaysGone
    BY DEF vars, shopVars, StaysGone
  <2> QED
    BY <2>1, NextStillInv
<1> QED
  BY <1>1, InitStillInv, Invariance, PTL DEF Spec, NoneComesBack

\* No request is about to save an article that was there.
NoUpdates == \A r \in Request : req[r].pc \notin {"update", "save", "write", "insert"}

LEMMA NextNoUpdates ==
    ASSUME "update" \notin Kinds, IInv, NoUpdates, [Next]_vars
    PROVE  NoUpdates' /\ StaysGone
<1> DEFINE Quiet(r) == req'[r].pc \notin {"update", "save", "write", "insert"}
<1>1. req \in [Request -> State]
  BY DEF IInv, TypeOK, State
<1>2. ASSUME NEW r \in Request,
             \/ ServiceStep(r) \/ CreateArticle(r) \/ WriteChanged(r) \/ InsertAgain(r)
             \/ RemoveArticle(r) \/ LookUp(r) \/ BeginPlaceOrder(r) \/ CommitPlaceOrder(r)
             \/ AbortDeadlocked(r) \/ FindOrder(r) \/ ConfirmPayment(r) \/ CheckExists(r)
             \/ RereadOrder(r) \/ BeginFailPayment(r) \/ CommitFailPayment(r)
             \/ Receive(r) \/ Crash(r)
      PROVE  Quiet(r)
  <2>1. CASE ServiceStep(r) \/ Receive(r) \/ Crash(r)
    <3>1. CASE ServiceStep(r)
      BY <1>1, <3>1 DEF ServiceStep, RejectDuplicates, VerifyAccepts, VerifyRejects,
                        ChainUnavailable, Goto, Answer
    <3>2. CASE Receive(r)
      BY <1>1, <3>2 DEF Receive, ReceiveCheckout, ReceiveConfirm, ReceiveRelease, ReceiveCreate,
                        ReceiveUpdate, ReceiveRemove, Goto
    <3>3. CASE Crash(r)
      BY <1>1, <3>3 DEF Crash, Goto, Idle
    <3> QED
      BY <2>1, <3>1, <3>2, <3>3
  <2>2. CASE CreateArticle(r) \/ WriteChanged(r) \/ InsertAgain(r) \/ RemoveArticle(r)
             \/ CommitPlaceOrder(r) \/ AbortDeadlocked(r) \/ CheckExists(r)
    BY <1>1, <2>2 DEF CreateArticle, WriteChanged, InsertAgain, RemoveArticle, CommitPlaceOrder,
                      AbortDeadlocked, CheckExists, Refusal, Goto, Answer
  <2>3. CASE LookUp(r) \/ BeginPlaceOrder(r)
    BY <1>1, <2>3 DEF LookUp, BeginPlaceOrder, Goto, Answer
  <2>4. CASE FindOrder(r)
    BY <1>1, <2>4 DEF FindOrder, AfterFind, Goto, Answer
  <2>5. CASE RereadOrder(r)
    BY <1>1, <2>5 DEF RereadOrder, AfterReread, Goto, Answer
  <2>6. CASE ConfirmPayment(r)
    BY <1>1, <2>6 DEF ConfirmPayment, Refusal, Goto, Answer
  <2>7. CASE BeginFailPayment(r)
    BY <1>1, <2>7 DEF BeginFailPayment, Refusal, Goto, Answer
  <2>8. CASE CommitFailPayment(r)
    BY <1>1, <2>8 DEF CommitFailPayment, Goto
  <2> QED
    BY <1>2, <2>1, <2>2, <2>3, <2>4, <2>5, <2>6, <2>7, <2>8
<1>3. ASSUME NEW r \in Request, ReserveStock(r) \/ ReleaseStock(r)
      PROVE  Quiet(r)
  <2>1. CASE ReserveStock(r)
    <3>1. req[r] \in ReserveAt
      BY <2>1, InvRequest, AtOpen DEF ReserveStock
    <3> QED
      BY <1>1, <2>1, <3>1 DEF ReserveStock, Goto, ReserveAt
  <2>2. CASE ReleaseStock(r)
    <3>1. req[r] \in GiveBackAt
      BY <2>2, InvRequest, AtOpen DEF ReleaseStock
    <3> QED
      BY <1>1, <2>2, <3>1 DEF ReleaseStock, Goto, GiveBackAt
  <2> QED
    BY <1>3, <2>1, <2>2
<1>4. \A r \in Request : ~ReadForUpdate(r) /\ ~CompareForSave(r) /\ ~WriteChanged(r)
                         /\ ~InsertAgain(r)
  BY DEF NoUpdates, ReadForUpdate, CompareForSave, WriteChanged, InsertAgain
<1>5. ASSUME NEW r \in Request, ServerStep(r)
      PROVE  NoUpdates' /\ StaysGone
  <2>1. Quiet(r)
    BY <1>2, <1>3, <1>4, <1>5 DEF ServerStep
  <2>2. NoUpdates'
    BY <1>5, <2>1, OneMoves DEF NoUpdates
  <2>3. StaysGone
    <3>1. CASE CreateArticle(r)
      BY <3>1 DEF CreateArticle, StaysGone
    <3>2. CASE RemoveArticle(r) \/ CommitPlaceOrder(r) \/ CommitFailPayment(r)
      BY <3>2 DEF RemoveArticle, CommitPlaceOrder, CommitFailPayment, StaysGone
    <3>3. CASE UNCHANGED article
      BY <3>3 DEF StaysGone
    <3> QED
      BY <1>4, <1>5, <3>1, <3>2, <3>3
         DEF ServerStep, LookUp, BeginPlaceOrder, ReserveStock, AbortDeadlocked, FindOrder,
             ConfirmPayment, CheckExists, RereadOrder, BeginFailPayment, ReleaseStock
  <2> QED
    BY <2>2, <2>3
<1>6. ASSUME NEW r \in Request, Receive(r) \/ Crash(r)
      PROVE  NoUpdates'
  <2>1. Quiet(r)
    BY <1>2, <1>6
  <2> QED
    BY <1>6, <2>1, OneMoves DEF NoUpdates
<1>7. CASE Environment
  BY <1>6, <1>7 DEF Environment, Mine, Reconfigure, NoUpdates, StaysGone
<1>8. CASE UNCHANGED vars
  BY <1>8 DEF vars, shopVars, NoUpdates, StaysGone
<1> QED
  BY <1>5, <1>7, <1>8 DEF Next

\* Without updates, no article comes back.
LEMMA WithoutUpdates ==
    ASSUME "update" \notin Kinds
    PROVE  Spec => NoneComesBack
<1>1. Init => NoUpdates
  BY DEF Init, ShopInit, ServicesInit, Idle, NoUpdates
<1>2. IInv /\ NoUpdates /\ [Next]_vars => NoUpdates' /\ StaysGone
  BY NextNoUpdates
<1> QED
  BY <1>1, <1>2, Invariance, PTL DEF Spec, NoneComesBack

\* The shelf is what the rows say.
LEMMA ShelfIsRows ==
    ASSUME IInv, IInv'
    PROVE  /\ \A a \in DOMAIN article :
                 ReadArticle(a).quantity = article[a].quantity /\ article[a].quantity \in Nat
           /\ \A a \in DOMAIN article' :
                 ReadArticle(a).quantity' = article'[a].quantity /\ article'[a].quantity \in Nat
<1>1. \A n \in Nat : ReadNumber(n) = n
  BY ServicesAssumption DEF ReadNumber
<1> QED
  BY <1>1 DEF IInv, RowsSound, ReadArticle

\* A release puts back all pieces of its order but those of deleted articles.
LEMMA FailGivesBack ==
    ASSUME IInv, StillInv, IInv', NEW r \in Request, CommitFailPayment(r)
    PROVE  LET o == req[r].order
           IN  /\ o \in OrderId /\ AwaitsPayment(o) /\ order' = OrderFailed(o)
               /\ order[o].items \in Items
               /\ DOMAIN article' = DOMAIN article
               /\ \A a \in DOMAIN article :
                     ReadArticle(a).quantity' =
                         ReadArticle(a).quantity + Pieces(order[o].items, a)
<1> DEFINE o     == req[r].order
           items == req[r].items
<1>1. /\ o \in OrderId /\ AwaitsPayment(o) /\ order' = OrderFailed(o)
      /\ order[o].items = items /\ items \in Items
      /\ req[r].pc = "giveback" /\ ~LinesLeft(r)
      /\ DOMAIN article' = DOMAIN article
      /\ \A a \in DOMAIN article :
            /\ a \in req[r].back => article'[a].quantity = article[a].quantity + Pieces(items, a)
            /\ a \notin req[r].back => article'[a].quantity = article[a].quantity
  BY FailCommits
<1>2. DOMAIN items = 1..req[r].done
  BY <1>1, NextItemType DEF LinesIn
<1> HIDE DEF items
<1>3. ASSUME NEW a \in DOMAIN article
      PROVE  article'[a].quantity = article[a].quantity + Pieces(items, a)
  <2>1. article[a].quantity \in Nat
    BY <1>3, RowType
  <2>2. CASE a \in req[r].back
    BY <1>1, <2>2
  <2>3. CASE a \notin req[r].back
    <3>1. \A i \in DOMAIN items : items[i].articleId # a
      BY <1>1, <1>2, <1>3, <2>3 DEF StillInv, items
    <3>2. Pieces(items, a) = 0
      BY <1>1, <3>1, PiecesOf
    <3> QED
      BY <1>1, <2>1, <2>3, <3>2
  <2> QED
    BY <2>2, <2>3
<1> QED
  BY <1>1, <1>3, ShelfIsRows

\* The steps that leave the rows and the orders alone.
LEMMA StoreSteps ==
    ASSUME [Next]_vars
    PROVE  \/ UNCHANGED <<article, order>>
           \/ \E r \in Request : CreateArticle(r) \/ WriteChanged(r) \/ InsertAgain(r)
                                \/ RemoveArticle(r) \/ CommitPlaceOrder(r)
                                \/ CommitFailPayment(r) \/ ConfirmPayment(r)
<1>1. ASSUME NEW r \in Request, ServerStep(r)
      PROVE  \/ UNCHANGED <<article, order>>
             \/ CreateArticle(r) \/ WriteChanged(r) \/ InsertAgain(r)
             \/ RemoveArticle(r) \/ CommitPlaceOrder(r)
             \/ CommitFailPayment(r) \/ ConfirmPayment(r)
  BY <1>1 DEF ServerStep, ReadForUpdate, CompareForSave, LookUp, BeginPlaceOrder, ReserveStock,
              AbortDeadlocked, FindOrder, CheckExists, RereadOrder, BeginFailPayment,
              ReleaseStock
<1>2. CASE Environment
  BY <1>2 DEF Environment
<1>3. CASE UNCHANGED vars
  BY <1>3 DEF vars, shopVars
<1> QED
  BY <1>1, <1>2, <1>3 DEF Next

\* A row that is written, as the contract sees it.
LEMMA RowSaved ==
    ASSUME Shelf = Nat, IInv, IInv', NEW a \in Article, UNCHANGED order,
           DOMAIN article' = DOMAIN article \cup {a},
           \A x \in DOMAIN article \ {a} : article'[x] = article[x]
    PROVE  Store!Next
<1> DEFINE quantity == ReadArticle(a).quantity'
<1>1. quantity \in Shelf
  BY ShelfIsRows
<1> HIDE DEF quantity
<1>2. \A x \in DOMAIN article' :
          ReadArticle(x).quantity' = IF x = a THEN quantity ELSE ReadArticle(x).quantity
  BY ShelfIsRows DEF quantity
<1> QED
  BY <1>1, <1>2, ContractSave

LEMMA CatalogueInContract ==
    ASSUME Shelf = Nat, IInv, IInv', NEW r \in Request,
           CreateArticle(r) \/ WriteChanged(r) \/ InsertAgain(r) \/ RemoveArticle(r)
    PROVE  [Store!Next]_(Store!vars)
<1>1. CASE CreateArticle(r)
  <2>1. PICK a \in Article : article' = [x \in DOMAIN article \cup {a} |->
                                            IF x = a THEN req[r].data ELSE article[x]]
    BY <1>1 DEF CreateArticle
  <2>2. /\ DOMAIN article' = DOMAIN article \cup {a}
        /\ \A x \in DOMAIN article \ {a} : article'[x] = article[x]
    BY <2>1
  <2> QED
    BY <1>1, <2>2, RowSaved DEF CreateArticle
<1>2. CASE WriteChanged(r) \/ InsertAgain(r)
  <2> DEFINE a == req[r].article
  <2>1. a \in Article
    BY <1>2, InvRequest, AtOpen DEF WriteChanged, InsertAgain, WriteAt, InsertAt
  <2>2. UNCHANGED order
    BY <1>2 DEF WriteChanged, InsertAgain
  <2>3. CASE UNCHANGED article
    BY <2>2, <2>3, ContractStutter
  <2>4. CASE article' # article
    <3>1. /\ DOMAIN article' = DOMAIN article \cup {a}
          /\ \A x \in DOMAIN article \ {a} : article'[x] = article[x]
      <4>1. article = [x \in DOMAIN article |-> article[x]]
        BY DEF IInv, TypeOK, ShopTypeOK
      <4>2. CASE WriteChanged(r)
        <5>1. /\ DOMAIN article' = DOMAIN article
              /\ \A x \in DOMAIN article \ {a} : article'[x] = article[x]
          BY <2>4, <4>2 DEF WriteChanged
        <5>2. CASE a \in DOMAIN article
          BY <5>1, <5>2
        <5>3. CASE a \notin DOMAIN article
          <6>1. article' = [x \in DOMAIN article |-> article[x]]
            BY <2>4, <4>2, <5>3 DEF WriteChanged
          <6> QED
            BY <2>4, <4>1, <6>1
        <5> QED
          BY <5>2, <5>3
      <4>3. CASE InsertAgain(r)
        BY <2>4, <4>3 DEF InsertAgain
      <4> QED
        BY <1>2, <4>2, <4>3
    <3> QED
      BY <2>1, <2>2, <3>1, RowSaved
  <2> QED
    BY <2>3, <2>4
<1>3. CASE RemoveArticle(r)
  <2>1. req[r].article \in Article
    BY <1>3, InvRequest, AtCatalogue DEF RemoveArticle, RemoveAt
  <2> QED
    BY <1>3, <2>1, ContractDelete DEF RemoveArticle
<1> QED
  BY <1>1, <1>2, <1>3

LEMMA PlaceInContract ==
    ASSUME IInv, IInv', NEW r \in Request, CommitPlaceOrder(r)
    PROVE  Store!Next
<1> DEFINE draft == req[r].draft
<1>1. /\ draft \in OrderDraft
      /\ \A i \in DOMAIN draft.items :
            /\ draft.items[i].articleId \in DOMAIN article
            /\ article[draft.items[i].articleId].quantity >= draft.items[i].quantity
  BY ReservedRows DEF CommitPlaceOrder
<1>2. /\ DOMAIN article' = DOMAIN article
      /\ \A a \in DOMAIN article :
            article'[a].quantity = article[a].quantity - Pieces(draft.items, a)
  BY PlaceCommits
<1>3. PICK o \in OrderId : order[o] = NoOrder /\ order' = [order EXCEPT ![o] = Pending(draft)]
  BY PlaceCommits
<1> HIDE DEF draft
<1>4. \A i \in DOMAIN draft.items :
          ReadArticle(draft.items[i].articleId).quantity >= draft.items[i].quantity
  BY <1>1, ShelfIsRows
<1>5. \A a \in DOMAIN article :
          ReadArticle(a).quantity' = ReadArticle(a).quantity - Pieces(draft.items, a)
  BY <1>2, ShelfIsRows
<1> QED
  BY <1>1, <1>2, <1>3, <1>4, <1>5, ContractPlace

LEMMA ConfirmInContract ==
    ASSUME IInv, IInv', NEW r \in Request, ConfirmPayment(r)
    PROVE  [Store!Next]_(Store!vars)
<1>1. UNCHANGED article
  BY DEF ConfirmPayment
<1>2. CASE UNCHANGED order
  BY <1>1, <1>2, ContractStutter
<1>3. CASE OrderSettled(req[r].order, req[r].hash)
  <2>1. req[r].order \in OrderId /\ req[r].hash \in Hash
    BY ConfirmSettles
  <2>2. \A p \in OrderId : order[p].status = "PAID" => order[p].transactionHash # req[r].hash
    BY <1>3 DEF OrderSettled, HashUsed
  <2> QED
    BY <1>1, <1>3, <2>1, <2>2, ContractPay DEF OrderSettled
<1> QED
  BY <1>2, <1>3, ConfirmSettles

LEMMA NextInContract ==
    ASSUME Shelf = Nat
    PROVE  IInv /\ StillInv /\ IInv' /\ [Next]_vars => [Store!Next]_(Store!vars)
<1> SUFFICES ASSUME IInv, StillInv, IInv', [Next]_vars
             PROVE  [Store!Next]_(Store!vars)
  OBVIOUS
<1>1. CASE UNCHANGED <<article, order>>
  BY <1>1, ContractStutter
<1>2. ASSUME NEW r \in Request, CommitFailPayment(r)
      PROVE  Store!Next
  BY <1>2, FailGivesBack, ContractFail
<1> QED
  BY <1>1, <1>2, StoreSteps, CatalogueInContract, PlaceInContract, ConfirmInContract

\* Seen from outside its transactions, every step of every interleaving of statements
\* is one indivisible operation of the contract or none, as long as no deleted article
\* comes back: what an open transaction has read of its rows is still so when it commits.
THEOREM ImplementsContract ==
    ASSUME Shelf = Nat
    PROVE  Spec /\ NoneComesBack => ImplementsOrderStore
<1>1. Init => Store!Init
  <2>1. Quantity \subseteq Shelf
    BY TypesAssumption
  <2> QED
    BY <2>1, ContractInit DEF Init
<1> QED
  BY <1>1, NextInContract, StillInvariance, PTL DEF Spec, ImplementsOrderStore, Store!Spec

\* Only an update brings an article back: where the admin sends none, every behaviour
\* of the shop is one of the contract.
THEOREM ImplementsWithoutUpdates ==
    ASSUME Shelf = Nat, "update" \notin Kinds
    PROVE  Spec => ImplementsOrderStore
BY ImplementsContract, WithoutUpdates, PTL

\* A write of the admin's moves nothing but its request.
LEMMA CatalogueWrites ==
    ASSUME IInv, NEW r \in Request,
           CreateArticle(r) \/ WriteChanged(r) \/ InsertAgain(r) \/ RemoveArticle(r)
    PROVE  CatalogueWrite
<1>1. req[r].pc \in {"create", "write", "insert", "remove"} /\ order' = order
  BY DEF CreateArticle, WriteChanged, InsertAgain, RemoveArticle
<1>2. \A s \in Request \ {r} : req'[s] = req[s]
  BY InvRequest DEF CreateArticle, WriteChanged, InsertAgain, RemoveArticle, Goto
<1> QED
  BY <1>1, <1>2 DEF CatalogueWrite

\* A step that changes one order, and the rows by what it accounts for.
LEMMA OneOrderMovesPieces ==
    ASSUME IsFiniteSet(OrderId), IInv, IInv', NEW o \in OrderId,
           \A p \in OrderId \ {o} : order'[p] = order[p],
           DOMAIN article' = DOMAIN article,
           \A a \in DOMAIN article : article'[a].quantity =
               article[a].quantity + Taken(order[o], a) - Taken(order'[o], a)
    PROVE  ConservingStep
<1>1. /\ order \in [OrderId -> Order \cup {NoOrder}]
      /\ order' \in [OrderId -> Order \cup {NoOrder}]
  BY DEF IInv, TypeOK, ShopTypeOK
<1>2. \A a \in DOMAIN article :
          /\ ReadArticle(a).quantity \in Int
          /\ ReadArticle(a).quantity' =
                ReadArticle(a).quantity + Taken(order[o], a) - Taken(order'[o], a)
  BY ShelfIsRows
<1> QED
  BY <1>1, <1>2, OneOrderConserves

LEMMA PlaceConserves ==
    ASSUME IsFiniteSet(OrderId), IInv, IInv', NEW r \in Request, CommitPlaceOrder(r)
    PROVE  ConservingStep
<1> DEFINE draft == req[r].draft
<1>1. draft \in OrderDraft /\ draft.items \in Items
  BY PlaceCommits DEF OrderDraft
<1>2. /\ DOMAIN article' = DOMAIN article
      /\ \A a \in DOMAIN article :
            article'[a].quantity = article[a].quantity - Pieces(draft.items, a)
  BY PlaceCommits
<1>3. PICK o \in OrderId : order[o] = NoOrder /\ order' = [order EXCEPT ![o] = Pending(draft)]
  BY PlaceCommits
<1> HIDE DEF draft
<1>4. order'[o] = Pending(draft) /\ \A p \in OrderId \ {o} : order'[p] = order[p]
  BY <1>3 DEF IInv, TypeOK, ShopTypeOK
<1>5. \A a : Taken(order[o], a) = 0 /\ Taken(order'[o], a) = Pieces(draft.items, a)
  BY <1>3, <1>4 DEF Taken, NoOrder, Pending
<1>6. ASSUME NEW a \in DOMAIN article
      PROVE  article'[a].quantity = article[a].quantity + Taken(order[o], a) - Taken(order'[o], a)
  <2>1. article[a].quantity \in Nat /\ Pieces(draft.items, a) \in Nat
    BY <1>1, RowType, PiecesOf
  <2> QED
    BY <1>2, <1>5, <1>6, <2>1
<1> QED
  BY <1>2, <1>4, <1>6, OneOrderMovesPieces

LEMMA FailConserves ==
    ASSUME IsFiniteSet(OrderId), IInv, StillInv, IInv', NEW r \in Request, CommitFailPayment(r)
    PROVE  ConservingStep
<1> DEFINE o == req[r].order
<1>1. /\ o \in OrderId /\ AwaitsPayment(o) /\ order' = OrderFailed(o)
      /\ order[o].items \in Items
      /\ DOMAIN article' = DOMAIN article
      /\ \A a \in DOMAIN article :
            ReadArticle(a).quantity' = ReadArticle(a).quantity + Pieces(order[o].items, a)
  BY FailGivesBack
<1> HIDE DEF o
<1>2. /\ order'[o] = [order[o] EXCEPT !.status = "FAILED"] /\ order[o] \in Order
      /\ \A p \in OrderId \ {o} : order'[p] = order[p]
  BY <1>1, PendingChanges
<1>3. \A a : Taken(order[o], a) = Pieces(order[o].items, a) /\ Taken(order'[o], a) = 0
  BY <1>1, <1>2 DEF Taken, AwaitsPayment, Order
<1>4. ASSUME NEW a \in DOMAIN article
      PROVE  article'[a].quantity = article[a].quantity + Taken(order[o], a) - Taken(order'[o], a)
  <2>1. article[a].quantity \in Nat /\ Pieces(order[o].items, a) \in Nat
    BY <1>1, RowType, PiecesOf
  <2>2. article'[a].quantity = article[a].quantity + Pieces(order[o].items, a)
    BY <1>1, <1>4, ShelfIsRows
  <2> QED
    BY <1>3, <2>1, <2>2
<1> QED
  BY <1>1, <1>2, <1>4, OneOrderMovesPieces

LEMMA ConfirmConserves ==
    ASSUME IsFiniteSet(OrderId), IInv, IInv', NEW r \in Request, ConfirmPayment(r)
    PROVE  ConservingStep
<1> DEFINE o == req[r].order
           h == req[r].hash
<1>1. UNCHANGED article
  BY DEF ConfirmPayment
<1>2. CASE UNCHANGED order
  BY <1>1, <1>2, NothingMovesConserves
<1>3. CASE OrderSettled(o, h)
  <2>1. o \in OrderId /\ h \in Hash
    BY ConfirmSettles
  <2> HIDE DEF o, h
  <2>2. /\ order'[o] = [order[o] EXCEPT !.status = "PAID", !.transactionHash = h]
        /\ order[o] \in Order /\ \A p \in OrderId \ {o} : order'[p] = order[p]
    BY <1>3, <2>1, PendingChanges DEF OrderSettled
  <2>3. \A a : Taken(order'[o], a) = Taken(order[o], a)
    BY <1>3, <2>2 DEF Taken, OrderSettled, AwaitsPayment, Order
  <2>4. ASSUME NEW a \in DOMAIN article
        PROVE  article'[a].quantity = article[a].quantity + Taken(order[o], a) - Taken(order'[o], a)
    <3>1. article[a].quantity \in Nat /\ Taken(order[o], a) \in Int
      BY <2>2, RowType, TakenType
    <3> QED
      BY <1>1, <2>3, <3>1
  <2> QED
    BY <1>1, <2>1, <2>2, <2>4, OneOrderMovesPieces
<1> QED
  BY <1>2, <1>3, ConfirmSettles

LEMMA NextConserves ==
    ASSUME IsFiniteSet(OrderId)
    PROVE  IInv /\ StillInv /\ IInv' /\ [Next]_vars => [ConservingStep]_shopVars
<1> SUFFICES ASSUME IInv, StillInv, IInv', [Next]_vars
             PROVE  ConservingStep
  OBVIOUS
<1>1. CASE UNCHANGED <<article, order>>
  BY <1>1, NothingMovesConserves
<1>2. ASSUME NEW r \in Request,
             CreateArticle(r) \/ WriteChanged(r) \/ InsertAgain(r) \/ RemoveArticle(r)
      PROVE  ConservingStep
  BY <1>2, CatalogueWrites DEF ConservingStep
<1> QED
  BY <1>1, <1>2, StoreSteps, PlaceConserves, FailConserves, ConfirmConserves

\* As long as no deleted article comes back, and unless the admin writes, no step of any
\* transaction changes what an article has on the shelf and in orders together.  The
\* orders are finitely many, or there would be no number of pieces that they take.
THEOREM PiecesStay ==
    ASSUME IsFiniteSet(OrderId)
    PROVE  Spec /\ NoneComesBack => PiecesConserved
<1>1. Spec /\ NoneComesBack => [][ConservingStep]_shopVars
  BY NextConserves, StillInvariance, PTL DEF Spec
<1>2. [][ConservingStep]_shopVars => PiecesConserved
  BY PTL DEF PiecesConserved, ConservingStep
<1> QED
  BY <1>1, <1>2, PTL

\* Where the admin updates no article, placeOrder and failPayment only move pieces
\* between the shelf and the orders, whatever is deleted or created meanwhile.
THEOREM PiecesStayWithoutUpdates ==
    ASSUME IsFiniteSet(OrderId), "update" \notin Kinds
    PROVE  Spec => PiecesConserved
BY PiecesStay, WithoutUpdates, PTL

\* A release gives back the pieces of its order, or those of some of its lines.
LEMMA FailMakesNone ==
    ASSUME IsFiniteSet(OrderId), IInv, IInv', NEW r \in Request, CommitFailPayment(r)
    PROVE  MakingNone
<1> DEFINE o     == req[r].order
           items == req[r].items
<1>1. /\ o \in OrderId /\ AwaitsPayment(o) /\ order' = OrderFailed(o)
      /\ order[o].items = items /\ items \in Items
      /\ DOMAIN article' = DOMAIN article
      /\ \A a \in DOMAIN article :
            /\ article'[a].quantity \in Nat
            /\ \/ article'[a].quantity = article[a].quantity + Pieces(items, a)
               \/ article'[a].quantity = article[a].quantity
  BY FailCommits
<1> HIDE DEF o, items
<1>2. /\ order'[o] = [order[o] EXCEPT !.status = "FAILED"] /\ order[o] \in Order
      /\ \A p \in OrderId \ {o} : order'[p] = order[p]
  BY <1>1, PendingChanges
<1>3. \A a : Taken(order[o], a) = Pieces(items, a) /\ Taken(order'[o], a) = 0
  BY <1>1, <1>2 DEF Taken, AwaitsPayment, Order
<1>4. /\ order \in [OrderId -> Order \cup {NoOrder}]
      /\ order' \in [OrderId -> Order \cup {NoOrder}]
  BY DEF IInv, TypeOK, ShopTypeOK
<1>5. ASSUME NEW a \in DOMAIN article
      PROVE  /\ ReadArticle(a).quantity \in Int /\ ReadArticle(a).quantity' \in Int
             /\ ReadArticle(a).quantity' <=
                   ReadArticle(a).quantity + Taken(order[o], a) - Taken(order'[o], a)
  <2>1. article[a].quantity \in Nat /\ Pieces(items, a) \in Nat
    BY <1>1, <1>5, RowType, PiecesOf
  <2>2. /\ ReadArticle(a).quantity = article[a].quantity
        /\ ReadArticle(a).quantity' = article'[a].quantity
    BY <1>1, <1>5, ShelfIsRows
  <2> QED
    BY <1>1, <1>3, <1>5, <2>1, <2>2
<1> QED
  BY <1>1, <1>2, <1>4, <1>5, OneOrderMakesNone

LEMMA NextMakesNone ==
    ASSUME IsFiniteSet(OrderId)
    PROVE  IInv /\ IInv' /\ [Next]_vars => MakingNone
<1> SUFFICES ASSUME IInv, IInv', [Next]_vars
             PROVE  MakingNone
  OBVIOUS
<1>1. /\ order \in [OrderId -> Order \cup {NoOrder}]
      /\ article \in [DOMAIN article -> ArticleData] /\ CatalogueSound
  BY DEF IInv, TypeOK, ShopTypeOK, ShopSound
<1>2. CASE UNCHANGED <<article, order>>
  BY <1>2 DEF MakingNone
<1>3. ASSUME NEW r \in Request,
             CreateArticle(r) \/ WriteChanged(r) \/ InsertAgain(r) \/ RemoveArticle(r)
      PROVE  MakingNone
  BY <1>3, CatalogueWrites DEF MakingNone
<1>4. ASSUME NEW r \in Request, CommitPlaceOrder(r) \/ ConfirmPayment(r)
      PROVE  MakingNone
  BY <1>1, <1>4, PlaceConserves, ConfirmConserves, ConservingMakesNone
<1> QED
  BY <1>2, <1>3, <1>4, StoreSteps, FailMakesNone

\* No transaction makes pieces, whatever the admin deletes, creates and updates between
\* its statements: an order never gives back more than it has taken, nor gives it back
\* twice, also where a deleted article comes back and pieces are lost.
THEOREM NoPiecesMade ==
    ASSUME IsFiniteSet(OrderId)
    PROVE  Spec => PiecesNeverMade
<1>1. Spec => [][MakingNone]_shopVars
  BY NextMakesNone, BeforeAndAfter, PTL DEF vars
<1>2. [][MakingNone]_shopVars => PiecesNeverMade
  BY PTL DEF PiecesNeverMade, MakingNone
<1> QED
  BY <1>1, <1>2, PTL

=============================================================================
