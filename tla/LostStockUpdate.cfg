\* A repricing races a checkout.
SPECIFICATION Spec
CONSTANTS
    a1 = a1
    a2 = a2
    o1 = o1
    o2 = o2
    b1 = b1
    b2 = b2
    w1 = w1
    w2 = w2
    h1 = h1
    h2 = h2
    t1 = t1
    t2 = t2
    r1 = r1
    r2 = r2
    Null = Null
    Absent = Absent
    Article <- OneArticle
    OrderId <- OneOrder
    Buyer <- OneBuyer
    Wallet <- OneWallet
    Hash <- OneHash
    Price <- OnePrice
    Quantity <- OnePiece
    Money <- Amounts
    MaxLines = 1
    MaxQuantity = 1
    Request <- TwoRequests
    Kinds = {"checkout", "update"}
    Description <- NoText
    Patches <- RepricePatches
    Tx <- OneTx
    TxOf <- OneTxOf
    TxTo <- OneTo
    TxValue <- OneValue
    Resends = FALSE
    Shelf <- UpToFour
PROPERTIES
    PatchLeavesStock
