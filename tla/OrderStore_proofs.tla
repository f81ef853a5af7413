-------------------------- MODULE OrderStore_proofs --------------------------
(***************************************************************************)
(* Proofs about OrderStore, for every set of articles, orders and hashes   *)
(* and every bound on a basket.                                            *)
(*                                                                         *)
(* The inductive invariant is Inv: the types, the sign of the stock and    *)
(* the hashes of the orders.  The two action properties follow from the    *)
(* types alone, one action at a time.                                      *)
(***************************************************************************)
EXTENDS OrderStore, TLAPS

Inv == TypeOK /\ StockNeverNegative /\ OneHashOneOrder

-----------------------------------------------------------------------------

\* The lines of an order are a function from line numbers to items.
LEMMA ItemsType ==
    ASSUME NEW items \in Items
    PROVE  \A i \in DOMAIN items : /\ items[i] \in OrderItem
                                   /\ items[i].quantity \in Nat \ {0}
BY TypesAssumption DEF Items, LinesOf, OrderItem

\* An order asks for a whole number of pieces of any article (the quantity of
\* a line is never negative), and asks for none that are not on the shelf when
\* its lines are available.
LEMMA PiecesType ==
    ASSUME NEW items \in Items, NEW a
    PROVE  Pieces(items, a) \in Nat
<1> DEFINE Of == {i \in DOMAIN items : items[i].articleId = a}
<1>1. CASE Of = {}
  BY <1>1 DEF Pieces
<1>2. CASE Of # {}
  <2>1. (CHOOSE i \in Of : TRUE) \in DOMAIN items
    BY <1>2
  <2>2. items[CHOOSE i \in Of : TRUE].quantity \in Nat
    BY <2>1, ItemsType
  <2> QED
    BY <1>2, <2>2 DEF Pieces
<1> QED
  BY <1>1, <1>2

LEMMA PiecesOnShelf ==
    ASSUME TypeOK, StockNeverNegative,
           NEW items \in Items, Available(items),
           NEW a \in DOMAIN stock
    PROVE  Pieces(items, a) <= stock[a]
<1> DEFINE Of == {i \in DOMAIN items : items[i].articleId = a}
<1>1. CASE Of = {}
  BY <1>1 DEF Pieces, StockNeverNegative, TypeOK
<1>2. CASE Of # {}
  <2> DEFINE line == CHOOSE i \in Of : TRUE
  <2>1. line \in DOMAIN items /\ items[line].articleId = a
    BY <1>2
  <2>2. stock[a] >= items[line].quantity
    BY <2>1 DEF Available
  <2>3. Pieces(items, a) = items[line].quantity
    BY <1>2 DEF Pieces
  <2>4. items[line].quantity \in Int /\ stock[a] \in Int
    BY <2>1, ItemsType DEF TypeOK
  <2> QED
    BY <2>2, <2>3, <2>4
<1> QED
  BY <1>1, <1>2

\* An id has a well-formed order exactly when its status says so.
LEMMA PresentOrder ==
    ASSUME TypeOK, NEW o \in OrderId, orders[o].status \in OrderStatus
    PROVE  orders[o] \in Order
BY DEF TypeOK, OrderStatus, NoOrder

\* A change of status leaves the rest of an order's record alone.
LEMMA FailedOrder ==
    ASSUME NEW order \in Order
    PROVE  LET new == [order EXCEPT !.status = "FAILED"]
           IN  /\ new \in Order
               /\ new.status = "FAILED"
               /\ Terms(new) = Terms(order)
BY DEF Order, OrderStatus, Terms

\* One step of ConfirmPayment, order by order.
LEMMA ConfirmStep ==
    ASSUME TypeOK, NEW o \in OrderId, NEW h \in Hash, ConfirmPayment(o, h)
    PROVE  /\ orders'[o] \in Order
           /\ orders'[o].status = "PAID"
           /\ orders'[o].transactionHash = h
           /\ orders'[o].items = orders[o].items
           /\ Terms(orders'[o]) = Terms(orders[o])
           /\ orders' \in [OrderId -> Order \cup {NoOrder}]
           /\ \A p \in OrderId \ {o} : orders'[p] = orders[p]
<1>1. orders[o] \in Order
  BY PresentOrder DEF ConfirmPayment, OrderStatus
<1> DEFINE new == [orders[o] EXCEPT !.status = "PAID", !.transactionHash = h]
<1>2. /\ new \in Order
      /\ new.status = "PAID"
      /\ new.transactionHash = h
      /\ new.items = orders[o].items
      /\ Terms(new) = Terms(orders[o])
  BY <1>1 DEF Order, OrderStatus, Terms
<1>3. orders' = [orders EXCEPT ![o] = new]
  BY <1>1 DEF ConfirmPayment, TypeOK, Order
<1> HIDE DEF new
<1> QED
  BY <1>2, <1>3 DEF TypeOK

-----------------------------------------------------------------------------

LEMMA InitInv == Init => Inv
<1> SUFFICES ASSUME Init PROVE Inv
  OBVIOUS
<1>1. PICK S \in SUBSET Article : stock \in [S -> Quantity]
  BY DEF Init
<1>2. DOMAIN stock = S /\ \A a \in S : stock[a] \in Nat
  BY <1>1, TypesAssumption
<1>3. TypeOK
  <2>1. stock \in [DOMAIN stock -> Int]
    BY <1>1, <1>2
  <2>2. orders \in [OrderId -> Order \cup {NoOrder}]
    BY DEF Init
  <2> QED
    BY <1>2, <2>1, <2>2 DEF TypeOK
<1>4. StockNeverNegative
  BY <1>2 DEF StockNeverNegative
<1>5. OneHashOneOrder
  BY DEF Init, OneHashOneOrder, NoOrder
<1> QED
  BY <1>3, <1>4, <1>5 DEF Inv

LEMMA NextInv == Inv /\ [Next]_vars => Inv'
<1> SUFFICES ASSUME Inv, [Next]_vars PROVE Inv'
  OBVIOUS
<1> USE DEF Inv
<1>1. ASSUME NEW o \in OrderId, NEW draft \in OrderDraft, PlaceOrder(o, draft)
      PROVE  Inv'
  <2>1. draft.items \in Items /\ Pending(draft) \in Order
    BY DEF OrderDraft, Pending, Order, OrderStatus
  <2>2. \A a \in DOMAIN stock : Pieces(draft.items, a) \in Nat /\ stock[a] \in Int
    BY <2>1, PiecesType DEF TypeOK
  <2>3. \A a \in DOMAIN stock : Pieces(draft.items, a) <= stock[a]
    BY <1>1, <2>1, PiecesOnShelf DEF PlaceOrder, Reserve
  <2>4. TypeOK'
    BY <1>1, <2>1, <2>2 DEF PlaceOrder, Reserve, TypeOK
  <2>5. StockNeverNegative'
    BY <1>1, <2>2, <2>3 DEF PlaceOrder, Reserve, StockNeverNegative
  <2>6. OneHashOneOrder'
    BY <1>1 DEF PlaceOrder, OneHashOneOrder, Pending, TypeOK, NoOrder
  <2> QED
    BY <2>4, <2>5, <2>6
<1>2. ASSUME NEW o \in OrderId, FailPayment(o)
      PROVE  Inv'
  <2>1. orders[o] \in Order
    BY <1>2, PresentOrder DEF FailPayment, OrderStatus
  <2>2. \A a \in DOMAIN stock : Pieces(orders[o].items, a) \in Nat /\ stock[a] \in Int
    BY <2>1, PiecesType DEF TypeOK, Order
  <2>3. [orders[o] EXCEPT !.status = "FAILED"] \in Order
    BY <2>1 DEF Order, OrderStatus
  <2>4. TypeOK'
    BY <1>2, <2>2, <2>3 DEF FailPayment, TypeOK
  <2>5. StockNeverNegative'
    BY <1>2, <2>2 DEF FailPayment, StockNeverNegative
  <2>6. OneHashOneOrder'
    BY <1>2, <2>1 DEF FailPayment, OneHashOneOrder, TypeOK, Order
  <2> QED
    BY <2>4, <2>5, <2>6
<1>3. ASSUME NEW o \in OrderId, NEW h \in Hash, ConfirmPayment(o, h)
      PROVE  Inv'
  <2>1. /\ orders'[o].status = "PAID" /\ orders'[o].transactionHash = h
        /\ \A p \in OrderId \ {o} : orders'[p] = orders[p]
    BY <1>3, ConfirmStep
  <2>2. TypeOK'
    BY <1>3, ConfirmStep DEF ConfirmPayment, TypeOK
  <2>3. StockNeverNegative'
    BY <1>3 DEF ConfirmPayment, StockNeverNegative
  <2>4. \A p \in OrderId \ {o} : orders[p].status = "PAID" => orders[p].transactionHash # h
    BY <1>3 DEF ConfirmPayment, HashFree
  <2>5. OneHashOneOrder'
    BY <2>1, <2>4, TypesAssumption DEF OneHashOneOrder
  <2> QED
    BY <2>2, <2>3, <2>5
<1>4. ASSUME NEW a \in Article, NEW quantity \in Quantity, SaveArticle(a, quantity)
      PROVE  Inv'
  BY <1>4, TypesAssumption DEF SaveArticle, TypeOK, StockNeverNegative, OneHashOneOrder
<1>5. ASSUME NEW a \in Article, DeleteArticle(a)
      PROVE  Inv'
  BY <1>5 DEF DeleteArticle, TypeOK, StockNeverNegative, OneHashOneOrder
<1>6. CASE UNCHANGED vars
  BY <1>6 DEF vars, TypeOK, StockNeverNegative, OneHashOneOrder
<1> QED
  BY <1>1, <1>2, <1>3, <1>4, <1>5, <1>6 DEF Next

LEMMA Invariance == Spec => []Inv
<1> QED
  BY InitInv, NextInv, PTL DEF Spec

\* The state of the order store keeps its types, whatever the interleaving of
\* checkouts, payment results and catalogue writes.
THEOREM TypeCorrect == Spec => []TypeOK
BY Invariance, PTL DEF Inv

\* No article is ever oversold: the shelf never goes below zero.
THEOREM NeverBelowZero == Spec => []StockNeverNegative
BY Invariance, PTL DEF Inv

\* A transaction hash settles at most one order, and is on an order exactly
\* when that order is paid.
THEOREM OneTransferOneOrder == Spec => []OneHashOneOrder
BY Invariance, PTL DEF Inv

-----------------------------------------------------------------------------

\* What one step may do to the orders and the shelf.  OrderStep names the body
\* of PiecesFollowOrders, SettleStep that of OrdersSettleOnce.
OrderStep ==
    \A o \in OrderId :
        orders'[o] # orders[o] =>
            /\ DOMAIN stock' = DOMAIN stock
            /\ \A a \in DOMAIN stock :
                  stock'[a] + Taken(orders'[o], a) = stock[a] + Taken(orders[o], a)
            /\ \A p \in OrderId \ {o} : orders'[p] = orders[p]

SettleStep ==
    \A o \in OrderId :
        /\ orders[o].status \in {"PAID", "FAILED"} => orders'[o] = orders[o]
        /\ orders[o].status = "PENDING" =>
              /\ orders'[o].status \in OrderStatus
              /\ Terms(orders'[o]) = Terms(orders[o])

LEMMA NextOrderStep == Inv /\ [Next]_vars => OrderStep
<1> SUFFICES ASSUME Inv, [Next]_vars PROVE OrderStep
  OBVIOUS
<1> USE DEF Inv
<1>1. ASSUME NEW o \in OrderId, NEW draft \in OrderDraft, PlaceOrder(o, draft)
      PROVE  OrderStep
  <2>1. /\ orders'[o] = Pending(draft)
        /\ \A p \in OrderId \ {o} : orders'[p] = orders[p]
    BY <1>1 DEF PlaceOrder, TypeOK
  <2>2. \A a : Taken(orders[o], a) = 0 /\ Taken(orders'[o], a) = Pieces(draft.items, a)
    BY <1>1, <2>1 DEF PlaceOrder, Taken, Pending, NoOrder
  <2>3. \A a \in DOMAIN stock : Pieces(draft.items, a) \in Nat /\ stock[a] \in Int
    BY PiecesType DEF OrderDraft, TypeOK
  <2> QED
    BY <1>1, <2>1, <2>2, <2>3 DEF PlaceOrder, Reserve, OrderStep
<1>2. ASSUME NEW o \in OrderId, FailPayment(o)
      PROVE  OrderStep
  <2>1. orders[o] \in Order
    BY <1>2, PresentOrder DEF FailPayment, OrderStatus
  <2>2. /\ orders'[o] = [orders[o] EXCEPT !.status = "FAILED"]
        /\ \A p \in OrderId \ {o} : orders'[p] = orders[p]
    BY <1>2 DEF FailPayment, TypeOK
  <2>3. \A a : /\ Taken(orders[o], a) = Pieces(orders[o].items, a)
               /\ Taken(orders'[o], a) = 0
    BY <1>2, <2>1, <2>2 DEF FailPayment, Taken, Order
  <2>4. \A a \in DOMAIN stock : Pieces(orders[o].items, a) \in Nat /\ stock[a] \in Int
    BY <2>1, PiecesType DEF Order, TypeOK
  <2> QED
    BY <1>2, <2>2, <2>3, <2>4 DEF FailPayment, OrderStep
<1>3. ASSUME NEW o \in OrderId, NEW h \in Hash, ConfirmPayment(o, h)
      PROVE  OrderStep
  <2>1. /\ orders'[o].status = "PAID"
        /\ orders'[o].items = orders[o].items
        /\ \A p \in OrderId \ {o} : orders'[p] = orders[p]
    BY <1>3, ConfirmStep
  <2>2. \A a : Taken(orders'[o], a) = Taken(orders[o], a)
    BY <1>3, <2>1 DEF ConfirmPayment, Taken
  <2> QED
    BY <1>3, <2>1, <2>2 DEF ConfirmPayment, OrderStep
<1>4. ASSUME UNCHANGED orders
      PROVE  OrderStep
  BY <1>4 DEF OrderStep
<1> QED
  BY <1>1, <1>2, <1>3, <1>4 DEF Next, vars, SaveArticle, DeleteArticle

LEMMA NextSettleStep == Inv /\ [Next]_vars => SettleStep
<1> SUFFICES ASSUME Inv, [Next]_vars PROVE SettleStep
  OBVIOUS
<1> USE DEF Inv
<1>1. ASSUME NEW o \in OrderId, NEW draft \in OrderDraft, PlaceOrder(o, draft)
      PROVE  SettleStep
  <2>1. \A p \in OrderId \ {o} : orders'[p] = orders[p]
    BY <1>1 DEF PlaceOrder, TypeOK
  <2>2. orders[o].status = "ABSENT"
    BY <1>1 DEF PlaceOrder, NoOrder
  <2> QED
    BY <2>1, <2>2 DEF SettleStep, OrderStatus, Terms
<1>2. ASSUME NEW o \in OrderId, FailPayment(o)
      PROVE  SettleStep
  <2>1. orders[o] \in Order
    BY <1>2, PresentOrder DEF FailPayment, OrderStatus
  <2>2. /\ orders'[o] = [orders[o] EXCEPT !.status = "FAILED"]
        /\ \A p \in OrderId \ {o} : orders'[p] = orders[p]
    BY <1>2 DEF FailPayment, TypeOK
  <2>3. orders'[o].status = "FAILED" /\ Terms(orders'[o]) = Terms(orders[o])
    BY <2>1, <2>2, FailedOrder
  <2> QED
    BY <1>2, <2>2, <2>3 DEF FailPayment, SettleStep, OrderStatus, Terms
<1>3. ASSUME NEW o \in OrderId, NEW h \in Hash, ConfirmPayment(o, h)
      PROVE  SettleStep
  <2>1. /\ orders'[o].status = "PAID" /\ Terms(orders'[o]) = Terms(orders[o])
        /\ \A p \in OrderId \ {o} : orders'[p] = orders[p]
    BY <1>3, ConfirmStep
  <2> QED
    BY <1>3, <2>1 DEF ConfirmPayment, SettleStep, OrderStatus, Terms
<1>4. ASSUME UNCHANGED orders
      PROVE  SettleStep
  BY <1>4 DEF SettleStep, OrderStatus, Terms
<1> QED
  BY <1>1, <1>2, <1>3, <1>4 DEF Next, vars, SaveArticle, DeleteArticle

\* Pieces move only with the order that accounts for them, and exactly once:
\* a payment result delivered twice, or two results racing, never put the same
\* pieces back twice.
THEOREM PiecesMoveOnce == Spec => PiecesFollowOrders
<1>1. Inv /\ [Next]_vars => [OrderStep]_vars
  BY NextOrderStep
<1> QED
  BY <1>1, Invariance, PTL DEF Spec, PiecesFollowOrders, OrderStep

\* A settled order is final, and the terms of an order are those of checkout.
THEOREM SettledForGood == Spec => OrdersSettleOnce
<1>1. Inv /\ [Next]_vars => [SettleStep]_vars
  BY NextSettleStep
<1> QED
  BY <1>1, Invariance, PTL DEF Spec, OrdersSettleOnce, SettleStep

=============================================================================
