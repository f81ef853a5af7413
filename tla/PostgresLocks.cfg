\* Two baskets of up to two lines, in either order, lock the last pieces of two
\* articles while failed orders give theirs back and articles are deleted.  No
\* payment, so no wallet and no chain.
SPECIFICATION FairSpec
CONSTANTS
    a1 = a1
    a2 = a2
    o1 = o1
    o2 = o2
    b1 = b1
    b2 = b2
    w1 = w1
    w2 = w2
    h1 = h1
    h2 = h2
    t1 = t1
    t2 = t2
    r1 = r1
    r2 = r2
    Null = Null
    Absent = Absent
    Article <- TwoArticles
    OrderId <- TwoOrders
    Buyer <- OneBuyer
    Wallet <- NoWallet
    Hash <- NoHash
    Price <- NoPrice
    Quantity <- OnePiece
    Money <- Nothing
    MaxLines = 2
    MaxQuantity = 1
    Request <- TwoRequests
    Kinds = {"checkout", "release", "remove"}
    Description <- NoText
    Patches <- NoPatches
    Tx <- NoTx
    TxOf <- OneTxOf
    TxTo <- OneTo
    TxValue <- OneValue
    Shelf <- UpToFour
INVARIANTS
    TypeOK
PROPERTIES
    PiecesConserved
    ImplementsOrderStore
    EveryRequestEnds
