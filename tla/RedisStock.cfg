\* Two baskets of up to two lines compete for the last pieces of two articles
\* while failed payments give pieces back, possibly the same ones twice, and one
\* transfer is offered for both orders.
SPECIFICATION Spec
CONSTANTS
    a1 = a1
    a2 = a2
    o1 = o1
    o2 = o2
    b1 = b1
    b2 = b2
    w1 = w1
    w2 = w2
    h1 = h1
    h2 = h2
    t1 = t1
    t2 = t2
    r1 = r1
    r2 = r2
    Null = Null
    Absent = Absent
    Article <- TwoArticles
    OrderId <- TwoOrders
    Buyer <- OneBuyer
    Wallet <- OneWallet
    Hash <- OneHash
    Price <- NoPrice
    Quantity <- UpToTwo
    Money <- Nothing
    MaxLines = 2
    MaxQuantity = 1
    Request <- TwoRequests
    Kinds = {"checkout", "confirm", "release"}
    Description <- NoText
    Patches <- NoPatches
    Tx <- OneTx
    TxOf <- OneTxOf
    TxTo <- OneTo
    TxValue <- OneValue
    Resends = FALSE
    Shelf <- UpToFour
SYMMETRY StockSymmetry
INVARIANTS
    TypeOK
    ClaimsMatchOrders
    AnswersStayTrue
PROPERTIES
    PiecesConserved
    ImplementsOrderStore
