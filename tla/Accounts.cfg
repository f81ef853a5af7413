\* Two replicas boot, serve, crash and boot again while two requests register
\* and log in, with the owner's name and password or others.
SPECIFICATION FairSpec
CONSTANTS
    i1 = i1
    i2 = i2
    r1 = r1
    r2 = r2
    Null = Null
    DbKinds = {"redis", "postgresql"}
    Replica <- TwoReplicas
    Request <- TwoRequests
    Username = {"owner"}
    Password = {"secret", "guess"}
    Id = {1, 2}
    Owners <- OwnerOrNone
    Resends = TRUE
    MaxCrashes = 1
INVARIANTS
    TypeOK
    OneAccountPerName
    AnswersStayTrue
    OnlyOwnersAreAdmins
    UpMeansSeeded
PROPERTIES
    ImplementsUserStore
    EveryReplicaComesUp
