------------------------------ MODULE ShopTypes ------------------------------
(***************************************************************************)
(* The data of the shop that its orders are made of, shared by every       *)
(* module: the lines of a basket, what an order stores, and how many       *)
(* pieces of an article an order accounts for.                             *)
(*                                                                         *)
(* Names, descriptions of items, timestamps and the currency are left out: *)
(* no decision of the program depends on them.  An order id, an article id *)
(* or a transaction hash is an opaque value; Null stands for null.         *)
(***************************************************************************)
EXTENDS Integers, Sequences

CONSTANTS
    Article,        \* article ids
    OrderId,        \* order ids (randomUUID)
    Buyer,          \* user ids of customers
    Wallet,         \* addresses the shop may be configured with
    Hash,           \* transaction hashes as a customer spells them
    Price,          \* prices the admin may enter (0..10^9)
    Quantity,       \* pieces the admin may enter for an article (0..10^6)
    Money,          \* amounts an order's total ranges over
    MaxLines,       \* most lines in a basket (50 in the code)
    MaxQuantity,    \* most pieces in a line (1000 in the code)
    Null            \* null

ASSUME TypesAssumption ==
    /\ MaxLines \in Nat \ {0}
    /\ MaxQuantity \in Nat \ {0}
    /\ Price \subseteq Nat
    /\ Quantity \subseteq Nat
    /\ Money \subseteq Nat
    /\ Null \notin Wallet
    /\ Null \notin Hash

-----------------------------------------------------------------------------

\* A line as the customer sends it.
BasketLine == [articleId : Article, quantity : 1..MaxQuantity]

\* What an article may be sold at: a price the admin entered, or 0 if the stored
\* article has none.
UnitPrice == Price \cup {0}

\* A line as the order stores it: the price is copied in at checkout.
OrderItem == [articleId : Article, unitPrice : UnitPrice, quantity : 1..MaxQuantity]

\* One to MaxLines lines, each drawn from the set L.
LinesOf(L) == UNION {[1..n -> L] : n \in 1..MaxLines}

\* No article appears on two lines.
Distinct(lines) ==
    \A i, j \in DOMAIN lines : lines[i].articleId = lines[j].articleId => i = j

Basket == LinesOf(BasketLine)

Items == {items \in LinesOf(OrderItem) : Distinct(items)}

\* How many pieces of article a the given lines ask for.
Pieces(lines, a) ==
    LET Of == {i \in DOMAIN lines : lines[i].articleId = a}
    IN  IF Of = {} THEN 0 ELSE lines[CHOOSE i \in Of : TRUE].quantity

-----------------------------------------------------------------------------

\* CANCELLED exists in the enum and no code ever sets it.
OrderStatus == {"PENDING", "PAID", "FAILED"}

\* What checkout hands to the store.
OrderDraft == [buyerId       : Buyer,
               items         : Items,
               total         : Money,
               walletAddress : Wallet \cup {Null}]

Order == [buyerId         : Buyer,
          items           : Items,
          total           : Money,
          walletAddress   : Wallet \cup {Null},
          status          : OrderStatus,
          transactionHash : Hash \cup {Null}]

\* What a read of an id without an order finds.
NoOrder == [status |-> "ABSENT"]

\* The order a draft becomes when it is placed: unpaid.
Pending(draft) ==
    [buyerId         |-> draft.buyerId,
     items           |-> draft.items,
     total           |-> draft.total,
     walletAddress   |-> draft.walletAddress,
     status          |-> "PENDING",
     transactionHash |-> Null]

\* What checkout agreed on.
Terms(order) == <<order.buyerId, order.items, order.total, order.walletAddress>>

\* The pieces of article a that an order keeps off the shelf: held for the
\* customer while it is pending, gone with the customer once it is paid.
Taken(order, a) ==
    IF order.status \in {"PENDING", "PAID"} THEN Pieces(order.items, a) ELSE 0

=============================================================================
