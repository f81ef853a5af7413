\* Two customers pay, or fail to pay, two orders of one piece with two transfers:
\* t1 pays the first wallet, t2 the second.  The shop changes its wallet
\* meanwhile, the admin creates the article and deletes it, and every command may
\* run again after its reply was lost.
SPECIFICATION Spec
CONSTANTS
    a1 = a1
    a2 = a2
    o1 = o1
    o2 = o2
    b1 = b1
    b2 = b2
    w1 = w1
    w2 = w2
    h1 = h1
    h2 = h2
    t1 = t1
    t2 = t2
    r1 = r1
    r2 = r2
    Null = Null
    Absent = Absent
    Article <- OneArticle
    OrderId <- TwoOrders
    Buyer <- TwoBuyers
    Wallet <- TwoWallets
    Hash <- TwoHashes
    Price <- OnePrice
    Quantity <- TwoPieces
    Money <- ZeroOrOne
    MaxLines = 1
    MaxQuantity = 1
    Request <- TwoRequests
    Kinds = {"checkout", "confirm", "release", "create", "remove"}
    Description <- NoText
    Patches <- NoPatches
    Tx <- TwoTxs
    TxOf <- DistinctTxs
    TxTo <- TwoTransferTo
    TxValue <- OneValue
    Resends = TRUE
    Shelf <- UpToFour
SYMMETRY PaymentSymmetry
INVARIANTS
    IndexesAgree
    PaidIsPaid
    NeverOversold
PROPERTIES
    OnlyTheBuyerPays
    PiecesNeverMade
