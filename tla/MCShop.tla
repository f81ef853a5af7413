-------------------------------- MODULE MCShop --------------------------------
(***************************************************************************)
(* The sets that the instances of RedisShop and PostgresShop are made of.  *)
(* Each configuration picks, for each constant, one of the definitions     *)
(* below; the comments of the configurations say which behaviour the       *)
(* choice is made for.                                                     *)
(***************************************************************************)
EXTENDS Shop, TLC

CONSTANTS a1, a2, o1, o2, b1, b2, w1, w2, h1, h2, t1, t2, r1, r2

OneArticle   == {a1}
TwoArticles  == {a1, a2}
OneOrder     == {o1}
TwoOrders    == {o1, o2}
OneBuyer     == {b1}
TwoBuyers    == {b1, b2}
OneWallet    == {w1}
TwoWallets   == {w1, w2}
OneHash      == {h1}
TwoHashes    == {h1, h2}
NoWallet     == {}
NoHash       == {}
NoTx         == {}
OneTx        == {t1}
TwoTxs       == {t1, t2}
TwoRequests  == {r1, r2}
NoText       == {}
NoPrice      == {0}
OnePrice     == {1}
TwoPrices    == {1, 2}
OnePiece     == {1}
TwoPieces    == {2}
UpToTwo      == 0..2
ZeroOrOne    == 0..1
Nothing      == {0}
Amounts      == 0..8
UpToFour     == 0..4

NoPatches == {}

\* The admin reprices an article and says nothing else.
RepricePatches ==
    {[price |-> p, description |-> Absent, quantity |-> Absent] : p \in Price}

\* The admin sends null for everything, or raises a price and recounts.
RestockPatches == {[price |-> Null, description |-> Null, quantity |-> Null]} \cup
    {[price |-> 2, description |-> Absent, quantity |-> q] : q \in Quantity}

\* One hash, one transaction.
OneTxOf == [h \in Hash |-> t1]

\* Each hash denotes a transaction of its own.
DistinctTxs == (h1 :> t1) @@ (h2 :> t2)

\* Two spellings of one transaction hash.
SameTx == (h1 :> t1) @@ (h2 :> t1)

\* One transfer pays the first wallet, the other the second.
TwoTransferTo == (t1 :> w1) @@ (t2 :> w2)

\* Every transfer pays the first wallet.
OneTo     == [t \in Tx |-> w1]

\* Every transfer pays exactly one piece.
OneValue  == [t \in Tx |-> 1]

RequestSymmetry == Permutations(Request)
StockSymmetry   == Permutations(Request) \cup Permutations(Article) \cup Permutations(OrderId)
OrderSymmetry   == Permutations(Request) \cup Permutations(OrderId)

\* The two transfers, the wallets they pay and the hashes that denote them change
\* places together.
SwapTransfers   == (w1 :> w2) @@ (w2 :> w1) @@ (t1 :> t2) @@ (t2 :> t1)
                   @@ (h1 :> h2) @@ (h2 :> h1)
PaymentSymmetry == OrderSymmetry \cup Permutations(Buyer) \cup {SwapTransfers}
=============================================================================
