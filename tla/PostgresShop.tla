---------------------------- MODULE PostgresShop ----------------------------
(***************************************************************************)
(* The shop deployed with `database: postgresql`: the services above one   *)
(* PostgreSQL server at READ COMMITTED, at the granularity of statements.  *)
(*                                                                         *)
(* article and order hold the committed rows.  What a transaction has      *)
(* written and not committed is part of the state of the request that runs *)
(* it: the rows it has changed, and therefore locked, are those of the     *)
(* lines it has done.  A transaction that ends without COMMIT (rollback,   *)
(* crash, abort) leaves nothing, because nothing was in the tables.        *)
(*                                                                         *)
(* An UPDATE or DELETE picks its row by the committed version, waits while *)
(* another transaction holds it, and looks again at what that has left: it *)
(* is enabled when there is no row to change, or the row is not held.  A   *)
(* statement outside a transaction commits by itself, as one step.         *)
(***************************************************************************)
EXTENDS Shop

vars == shopVars

\* In the transaction of placeOrder, with the stock of done lines reserved.
ReserveAt == [pc : {"reserve"}, draft : OrderDraft, done : 0..MaxLines]

\* In the transaction of failPayment, with the order's row changed, done lines
\* processed, and the stock of those with an article put back.
GiveBackAt == [pc : {"giveback"}, order : OrderId, items : Items, done : 0..MaxLines,
               back : SUBSET Article]

\* In confirmPayment, after an UPDATE that has matched no row.
ExistsAt == [pc : {"exists"}, order : OrderId]

\* In save, after it has read the row there is: about to write the columns that
\* differ, or the whole article if there is none.
WriteAt  == [pc : {"write"}, article : Article, data : ArticleData,
             changed : SUBSET {"price", "description", "quantity"}]
InsertAt == [pc : {"insert"}, article : Article, data : ArticleData]

-----------------------------------------------------------------------------
(* Transactions and the rows they hold. *)

\* The lines of the transaction that request r runs.
LinesIn(r) ==
    IF req[r].pc = "reserve" THEN req[r].draft.items
    ELSE IF req[r].pc = "giveback" THEN req[r].items ELSE <<>>

HeldArticles(r) ==
    IF req[r].pc = "reserve" THEN {LinesIn(r)[i].articleId : i \in 1..req[r].done}
    ELSE IF req[r].pc = "giveback" THEN req[r].back ELSE {}

ArticleHeld(a) == \E s \in Request : a \in HeldArticles(s)

OrderHeld(o) == \E s \in Request : req[s].pc = "giveback" /\ req[s].order = o

LinesLeft(r) == req[r].pc \in {"reserve", "giveback"} /\ req[r].done < Len(LinesIn(r))

NextItem(r) == LinesIn(r)[req[r].done + 1]

\* Bug: the quantity is not compared where it is decremented.
MatchesAnyQuantity(r) == NextItem(r).articleId \in DOMAIN article

\* Does the committed row of the next line match the WHERE of its UPDATE?
Matches(r) ==
    LET line == NextItem(r)
    IN  /\ line.articleId \in DOMAIN article
        /\ req[r].pc = "reserve" => article[line.articleId].quantity >= line.quantity

\* Request r waits for a row that s holds.  Only transactions of several
\* statements hold a row while they wait for another, so only they are here.
WaitsFor(r, s) ==
    /\ LinesLeft(r) /\ Matches(r)
    /\ NextItem(r).articleId \in HeldArticles(s)

\* A circle of transactions that wait for one another.
Circle(C) == \A r \in C : \E s \in C, t \in C : WaitsFor(r, s) /\ WaitsFor(t, r)

-----------------------------------------------------------------------------
(* The catalogue: TypeOrmArticleRepository. *)

\* price and quantity are NOT NULL.
NullColumn(data, columns) == \E c \in columns \cap {"price", "quantity"} : data[c] = Null

CreateArticle(r) ==
    /\ req[r].pc = "create"
    /\ \E a \in Article \ minted :
          /\ article' = [x \in DOMAIN article \cup {a} |->
                            IF x = a THEN req[r].data ELSE article[x]]
          /\ minted' = minted \cup {a}
    /\ Goto(r, Answer(201))
    /\ UNCHANGED <<wallet, receipt, order>>

\* save reads the row again, and compares.
CompareForSave(r) ==
    /\ req[r].pc = "save"
    /\ LET a       == req[r].article
           data    == req[r].data
           changed == {c \in DOMAIN data : data[c] # article[a][c]}
       IN  Goto(r, IF a \notin DOMAIN article
                   THEN [pc |-> "insert", article |-> a, data |-> data]
                   ELSE IF changed = {} THEN Answer(200)
                   ELSE [pc |-> "write", article |-> a, data |-> data, changed |-> changed])
    /\ UNCHANGED <<wallet, receipt, article, minted, order>>

\* UPDATE of the columns that differed; that no row matches is not noticed.  The
\* columns are checked before the row's lock is waited for.
WriteChanged(r) ==
    /\ req[r].pc = "write"
    /\ LET a       == req[r].article
           data    == req[r].data
           changed == req[r].changed
       IN  IF a \in DOMAIN article /\ NullColumn(data, changed)
           THEN Goto(r, Answer(500)) /\ UNCHANGED article
           ELSE /\ a \in DOMAIN article => ~ArticleHeld(a)
                /\ Goto(r, Answer(200))
                /\ article' = [x \in DOMAIN article |->
                                 IF x = a
                                 THEN [c \in DOMAIN data |->
                                         IF c \in changed THEN data[c] ELSE article[x][c]]
                                 ELSE article[x]]
    /\ UNCHANGED <<wallet, receipt, minted, order>>

\* INSERT under the id the article had; the row may be there again.
InsertAgain(r) ==
    /\ req[r].pc = "insert"
    /\ LET a == req[r].article
       IN  IF a \in DOMAIN article \/ NullColumn(req[r].data, DOMAIN req[r].data)
           THEN Goto(r, Answer(500)) /\ UNCHANGED article
           ELSE /\ Goto(r, Answer(200))
                /\ article' = [x \in DOMAIN article \cup {a} |->
                                IF x = a THEN req[r].data ELSE article[x]]
    /\ UNCHANGED <<wallet, receipt, minted, order>>

RemoveArticle(r) ==
    /\ req[r].pc = "remove"
    /\ LET a == req[r].article
       IN  /\ ~ArticleHeld(a) \/ a \notin DOMAIN article
           /\ article' = [x \in DOMAIN article \ {a} |-> article[x]]
           /\ Goto(r, Answer(IF a \in DOMAIN article THEN 204 ELSE 404))
    /\ UNCHANGED <<wallet, receipt, minted, order>>

-----------------------------------------------------------------------------
(* Checkout: findByIds, then the transaction of placeOrder. *)

\* The lines of the basket at the prices of one snapshot.
PricedLines(basket) ==
    [i \in DOMAIN basket |-> [articleId |-> basket[i].articleId,
                              unitPrice |-> ReadArticle(basket[i].articleId).price,
                              quantity  |-> basket[i].quantity]]

\* findByIds is one SELECT.
LookUp(r) ==
    /\ req[r].pc = "lookup"
    /\ Distinct(req[r].basket)
    /\ LET basket == req[r].basket
           items  == PricedLines(basket)
       IN  Goto(r, IF \A i \in DOMAIN basket : basket[i].articleId \in DOMAIN article
                   THEN [pc |-> "place", buyer |-> req[r].buyer, items |-> items,
                         total |-> PriceOf(items)]
                   ELSE Answer(404))
    /\ UNCHANGED <<wallet, receipt, article, minted, order>>

\* The wallet address is read into the draft; BEGIN.
BeginPlaceOrder(r) ==
    /\ req[r].pc = "place"
    /\ Goto(r, [pc |-> "reserve", draft |-> DraftOf(req[r]), done |-> 0])
    /\ UNCHANGED <<wallet, receipt, article, minted, order>>

\* Bug: a short line ends the transaction without rolling it back.
ReserveStockCommitting(r) ==
    /\ req[r].pc = "reserve" /\ LinesLeft(r)
    /\ IF Matches(r)
       THEN /\ ~ArticleHeld(NextItem(r).articleId)
            /\ Goto(r, [req[r] EXCEPT !.done = @ + 1])
            /\ UNCHANGED article
       ELSE /\ Goto(r, [pc |-> "soldout", article |-> NextItem(r).articleId])
            /\ article' = [a \in DOMAIN article |->
                IF a \in HeldArticles(r)
                THEN [article[a] EXCEPT !.quantity = @ - Pieces(LinesIn(r), a)]
                ELSE article[a]]
    /\ UNCHANGED <<wallet, receipt, minted, order>>

\* Bug: a short line is tried again until there is enough.
ReserveStockRetrying(r) ==
    /\ req[r].pc = "reserve" /\ LinesLeft(r)
    /\ Matches(r)
    /\ ~ArticleHeld(NextItem(r).articleId)
    /\ Goto(r, [req[r] EXCEPT !.done = @ + 1])
    /\ UNCHANGED <<wallet, receipt, article, minted, order>>

\* reserveStock of the next line: the check and the decrement are one UPDATE.
\* A line that matches no row throws, which rolls the transaction back.
ReserveStock(r) ==
    /\ req[r].pc = "reserve" /\ LinesLeft(r)
    /\ IF Matches(r)
       THEN /\ ~ArticleHeld(NextItem(r).articleId)
            /\ Goto(r, [req[r] EXCEPT !.done = @ + 1])
       ELSE Goto(r, [pc |-> "soldout", article |-> NextItem(r).articleId])
    /\ UNCHANGED <<wallet, receipt, article, minted, order>>

\* Every line is reserved: INSERT of the order, COMMIT.
CommitPlaceOrder(r) ==
    /\ req[r].pc = "reserve" /\ ~LinesLeft(r)
    /\ \E id \in {o \in OrderId : order[o] = NoOrder} :
          order' = [order EXCEPT ![id] = Pending(req[r].draft)]
    /\ article' = [a \in DOMAIN article |->
                    [article[a] EXCEPT !.quantity = @ - Pieces(LinesIn(r), a)]]
    /\ Goto(r, Answer(201))
    /\ UNCHANGED <<wallet, receipt, minted>>

\* PostgreSQL aborts a transaction of a circle, and its request fails.
AbortDeadlocked(r) ==
    /\ \E C \in SUBSET Request : r \in C /\ Circle(C)
    /\ Goto(r, Answer(500))
    /\ UNCHANGED <<wallet, receipt, article, minted, order>>

-----------------------------------------------------------------------------
(* Payment results: the transaction of failPayment, confirmPayment's UPDATE. *)

\* Bug: the SELECT finds the order PENDING, and the UPDATE does not ask again.
BeginFailPaymentUnlocked(r) ==
    /\ req[r].pc = "release"
    /\ LET o == req[r].order
       IN  Goto(r, IF AwaitsPayment(o)
                   THEN [pc |-> "giveback", order |-> o, items |-> order[o].items,
                         done |-> 0, back |-> {}]
                   ELSE Refusal("not-pending"))
    /\ UNCHANGED <<wallet, receipt, article, minted, order>>

\* UPDATE of the status of a PENDING order.  (The SELECT before it reads what
\* never changes of an order, so it is part of this step.)
BeginFailPayment(r) ==
    /\ req[r].pc = "release"
    /\ LET o == req[r].order
       IN  IF AwaitsPayment(o)
           THEN /\ ~OrderHeld(o)
                /\ Goto(r, [pc |-> "giveback", order |-> o, items |-> order[o].items,
                            done |-> 0, back |-> {}])
           ELSE Goto(r, Refusal(IF order[o] = NoOrder THEN "not-found" ELSE "not-pending"))
    /\ UNCHANGED <<wallet, receipt, article, minted, order>>

\* releaseStock of the next line; an article that is gone is passed over.
ReleaseStock(r) ==
    /\ req[r].pc = "giveback" /\ LinesLeft(r)
    /\ LET a == NextItem(r).articleId
       IN  /\ a \in DOMAIN article => ~ArticleHeld(a)
           /\ Goto(r, [req[r] EXCEPT !.done = @ + 1, !.back = @ \cup ({a} \cap DOMAIN article)])
    /\ UNCHANGED <<wallet, receipt, article, minted, order>>

\* The order is re-read inside the transaction; COMMIT.
CommitFailPayment(r) ==
    /\ req[r].pc = "giveback" /\ ~LinesLeft(r)
    /\ order' = OrderFailed(req[r].order)
    /\ article' = [a \in DOMAIN article |->
                    IF a \in req[r].back
                    THEN [article[a] EXCEPT !.quantity = @ + Pieces(req[r].items, a)]
                    ELSE article[a]]
    /\ Goto(r, [pc |-> "released", order |-> req[r].order])
    /\ UNCHANGED <<wallet, receipt, minted>>

\* Bug: the column has no unique index.
HashUsedNever(h) == h \notin Hash

\* The unique index on transaction_hash.
HashUsed(h) == \E p \in OrderId : order[p].status = "PAID" /\ order[p].transactionHash = h

\* UPDATE of a PENDING order to PAID, with the hash.
ConfirmPayment(r) ==
    /\ req[r].pc = "settle"
    /\ LET o == req[r].order
           h == req[r].hash
       IN  IF ~AwaitsPayment(o)
           THEN Goto(r, [pc |-> "exists", order |-> o]) /\ UNCHANGED order
           ELSE /\ ~OrderHeld(o)
                /\ IF HashUsed(h)
                   THEN Goto(r, Refusal("hash-used")) /\ UNCHANGED order
                   ELSE /\ order' = OrderPaid(o, h)
                        /\ Goto(r, [pc |-> "reread", order |-> o, hash |-> h])
    /\ UNCHANGED <<wallet, receipt, article, minted>>

\* No row was updated: existsBy tells why.
CheckExists(r) ==
    /\ req[r].pc = "exists"
    /\ Goto(r, Refusal(IF order[req[r].order] = NoOrder THEN "not-found" ELSE "not-pending"))
    /\ UNCHANGED <<wallet, receipt, article, minted, order>>

-----------------------------------------------------------------------------

Init == ShopInit

\* What the shop's processes and the database do of their own accord.
ServerStep(r) ==
    \/ ServiceStep(r) /\ UNCHANGED <<article, minted, order>>
    \/ CreateArticle(r)
    \/ ReadForUpdate(r)
    \/ CompareForSave(r)
    \/ WriteChanged(r)
    \/ InsertAgain(r)
    \/ RemoveArticle(r)
    \/ LookUp(r)
    \/ BeginPlaceOrder(r)
    \/ ReserveStock(r)
    \/ CommitPlaceOrder(r)
    \/ AbortDeadlocked(r)
    \/ FindOrder(r)
    \/ ConfirmPayment(r)
    \/ CheckExists(r)
    \/ RereadOrder(r)
    \/ BeginFailPayment(r)
    \/ ReleaseStock(r)
    \/ CommitFailPayment(r)

Next ==
    \/ \E r \in Request : ServerStep(r)
    \/ Environment

Spec == Init /\ [][Next]_vars

\* The event loop and PostgreSQL keep running, and those that wait for a row get
\* it in the order in which they asked: a request that can take its next step
\* again and again takes it.  Nothing is promised of clients, the admin or the
\* chain.
FairSpec == Spec /\ \A r \in Request : SF_vars(ServerStep(r))

-----------------------------------------------------------------------------
(* Properties, besides those of module Shop. *)

\* Types of the requests, with their open transactions, the chain and the rows.
TypeOK ==
    /\ ShopTypeOK
    /\ req \in [Request -> RequestState \cup ReserveAt \cup GiveBackAt \cup ExistsAt
                                        \cup WriteAt \cup InsertAt]
=============================================================================
