\* Orders are placed, paid and failed while a client walks through the pages of
\* a listing, one order to a page.
SPECIFICATION ListingsSpec
CONSTANTS
    a1 = a1
    o1 = o1
    o2 = o2
    o3 = o3
    b1 = b1
    w1 = w1
    h1 = h1
    Null = Null
    Article <- MCArticle
    OrderId <- MCOrderId
    Buyer <- MCBuyer
    Wallet <- MCWallet
    Hash <- MCHash
    Price <- MCPrice
    Quantity <- MCQuantity
    Money <- MCMoney
    MaxLines = 1
    MaxQuantity = 1
    Limit = 1
    Filters <- MCFilters
CONSTRAINT ShelfBound
SYMMETRY Symmetry
INVARIANTS
    TypeOK
    StockNeverNegative
    OneHashOneOrder
    NothingSkipped
PROPERTIES
    PiecesFollowOrders
    OrdersSettleOnce
