\* Nobody but the shop itself: one replica boots on Redis, and crashes once.
\* It may stop: a shop that is up and that nobody asks anything does nothing.
SPECIFICATION FairSpec
CONSTANTS
    i1 = i1
    i2 = i2
    r1 = r1
    r2 = r2
    Null = Null
    DbKinds = {"redis"}
    Replica = {i1}
    Request = {}
    Username = {"owner"}
    Password = {"secret"}
    Id = {1, 2}
    Owners <- OwnerOnly
    Resends = FALSE
    MaxCrashes = 1
PROPERTY ShopGetsItsOwner
CHECK_DEADLOCK FALSE
