------------------------------ MODULE Accounts ------------------------------
(***************************************************************************)
(* The users of the shop: registration and login (AuthService over         *)
(* UsersService), the owner's account that every replica provisions when   *)
(* it boots (AdminSeeder), and the two user repositories below them.       *)
(*                                                                         *)
(* A process is a request or a replica's boot.  task[p] is what it is at:  *)
(* the await it waits for and the locals used after it.  The hashing of a  *)
(* password is an await too, between existsByUsername and save; nothing of *)
(* it is shared, so it needs no step of its own.                           *)
(*                                                                         *)
(* A password stands for its hash as well: compare tells only whether two  *)
(* are the same.  Display names, wallet addresses and timestamps are left  *)
(* out, and so is the signature of a token, which carries id, name, role.  *)
(***************************************************************************)
EXTENDS FiniteSets, Integers

CONSTANTS
    DbKinds,        \* what DB_KIND may be, trimmed and in lower case
    Replica,        \* the processes that serve the shop
    Request,        \* slots for requests in progress: bounds the concurrency
    Username,
    Password,
    Id,             \* user ids (randomUUID); bound: one per name is ever used
    Owners,         \* what SHOP_ADMIN_USERNAME and _PASSWORD are set to, or Null
    Resends,        \* does the Redis client re-send a command whose reply was lost?
    MaxCrashes,     \* bound: how often a replica goes away
    Null            \* null

Process == Replica \cup Request

Role == {"ADMIN", "CUSTOMER"}

Credentials == [username : Username, password : Password]

User == [username : Username, password : Password, role : Role]

ASSUME AccountsAssumption ==
    /\ Replica \cap Request = {}
    /\ Owners \subseteq Credentials \cup {Null}
    /\ Null \notin Credentials \cup User \cup Id
    /\ MaxCrashes \in Nat
    /\ Resends \in BOOLEAN

VARIABLES
    database,       \* the store the shop was deployed with
    owner,          \* the environment a replica is started with
    task,           \* what each process is at
    usernameKey,    \* Redis: the users:by-username:<name> keys
    user,           \* the users:<id> hashes, or the rows of the users table
    crashes

storeVars == <<usernameKey, user>>
envVars   == <<database, owner, crashes>>
vars      == <<envVars, task, storeVars>>

-----------------------------------------------------------------------------
(* The points a process can be at; on is the replica that runs it. *)

\* findByUsername, on behalf of a login or of the seeder, and the second of
\* its two reads in Redis.
Finding == [at : {"find"}, on : Replica, wants : Credentials]
Loading == [at : {"load"}, on : Replica, wants : Credentials, id : Id]

\* UsersService.create: existsByUsername, save, and the second of its writes.
Creating  == [at : {"exists", "save"}, on : Replica, wants : User]
Writing   == [at : {"write"}, on : Replica, wants : User, id : Id]

\* A replica that is not there, and one that answers requests.
Down      == [at |-> "down"]
Up        == [at : {"up"}, owner : Owners]

\* Requests: none, an error status, an account created, a token issued; and the
\* read of the profile that a token belongs to.
Idle      == [at |-> "idle"]
Refused   == [at : {"refused"}, status : {401, 404, 409}]
Created   == [at : {"created"}, user : User]
SignedIn  == [at : {"token"}, id : Id, user : User]
Profile   == [at : {"me"}, on : Replica, token : SignedIn]

TaskState ==
    {Down, Idle} \cup Up \cup Refused \cup Created \cup SignedIn
    \cup Finding \cup Loading \cup Creating \cup Writing \cup Profile

\* A replica is at work for these.
Working == {"find", "load", "exists", "save", "write", "me"}

IsUp(i) == task[i].at = "up"

Free(r) == task[r].at \in {"idle", "refused", "created", "token"}

Goto(p, next) == task' = [task EXCEPT ![p] = next]

-----------------------------------------------------------------------------
(* The stores. *)

IdsOf(n) == {id \in Id : user[id] # Null /\ user[id].username = n}

\* The id that a read of a name finds, or Null.
IdOf(n) == IF database = "redis" THEN usernameKey[n]
           ELSE IF IdsOf(n) = {} THEN Null
           ELSE CHOOSE id \in IdsOf(n) : TRUE

\* What is stored under an id, or Null.
Stored(id) == IF id = Null THEN Null ELSE user[id]

AccountOf(n) == Stored(IdOf(n))

\* randomUUID: an id that nothing has, here the same one whoever asks.
UnusedIds ==
    {id \in Id : /\ user[id] = Null
                 /\ \A n \in Username : usernameKey[n] # id
                 /\ \A p \in Process : task[p].at = "write" => task[p].id # id}

FreshId == CHOOSE id \in UnusedIds : TRUE

-----------------------------------------------------------------------------
(* What a service does with the answer of a store. *)

Refuse(status) == [at |-> "refused", status |-> status]

\* Bug: the body of the request decides, and the store is told nothing.
WithoutRole(who, role) == [username |-> who.username, password |-> who.password,
                           role |-> Null]

WithRole(who, role) == [username |-> who.username, password |-> who.password,
                        role |-> role]

\* login: one refusal for an unknown name and for a wrong password.
AfterFindToLogIn(p, id) ==
    IF Stored(id) # Null /\ Stored(id).password = task[p].wants.password
    THEN [at |-> "token", id |-> id, user |-> user[id]]
    ELSE Refuse(401)

\* Bug: every boot provisions the owner, whether or not it exists.
AfterFindToSeedAlways(p, id) ==
    [at |-> "exists", on |-> p, wants |-> WithRole(task[p].wants, "ADMIN")]

\* The seeder has nothing to do when there is an account of that name.
AfterFindToSeed(p, id) ==
    IF Stored(id) # Null
    THEN [at |-> "up", owner |-> task[p].wants]
    ELSE [at |-> "exists", on |-> p, wants |-> WithRole(task[p].wants, "ADMIN")]

AfterFind(p, id) ==
    IF p \in Replica THEN AfterFindToSeed(p, id) ELSE AfterFindToLogIn(p, id)

\* The user is stored: a registration answers 201, a replica starts to serve.
AfterSave(p, saved) ==
    IF p \in Replica
    THEN [at |-> "up", owner |-> [username |-> saved.username, password |-> saved.password]]
    ELSE [at |-> "created", user |-> saved]

\* Bug: the name is taken, so the owner must exist.
AfterTakenServing(p) ==
    IF p \in Replica
    THEN AfterSave(p, task[p].wants)
    ELSE Refuse(409)

\* ConflictException: a registration answers 409; nothing catches it in the
\* seeder, so the boot fails and the process exits.
AfterTaken(p) == IF p \in Replica THEN Down ELSE Refuse(409)

-----------------------------------------------------------------------------
(* Replicas come and go. *)

\* A replica starts, with the environment of that moment.
Boot(i) ==
    /\ task[i] = Down
    /\ Goto(i, IF owner = Null THEN [at |-> "up", owner |-> Null]
               ELSE [at |-> "find", on |-> i, wants |-> owner])
    /\ UNCHANGED <<envVars, storeVars>>

\* A replica goes away, and what it was doing with it.
Crash(i) ==
    /\ task[i] # Down
    /\ crashes < MaxCrashes
    /\ crashes' = crashes + 1
    /\ task' = [p \in Process |-> IF p = i THEN Down
                                  ELSE IF task[p].at \in Working /\ task[p].on = i THEN Idle
                                  ELSE task[p]]
    /\ UNCHANGED <<database, owner, storeVars>>

\* The shop is deployed with other credentials for its owner; a replica reads
\* them when it next boots.
Reconfigure ==
    /\ owner' \in Owners \ {owner}
    /\ UNCHANGED <<database, crashes, task, storeVars>>

-----------------------------------------------------------------------------
(* Requests arrive at a replica that serves. *)

\* Bug: the role is taken from the body.
RolesAsked == Role

\* Whatever the body says, who registers becomes a customer.
RolesGranted == {"CUSTOMER"}

Register(r) ==
    /\ Free(r)
    /\ \E i \in Replica, who \in Credentials, role \in RolesGranted :
          /\ IsUp(i)
          /\ Goto(r, [at |-> "exists", on |-> i, wants |-> WithRole(who, role)])
    /\ UNCHANGED <<envVars, storeVars>>

LogIn(r) ==
    /\ Free(r)
    /\ \E i \in Replica, who \in Credentials :
          /\ IsUp(i)
          /\ Goto(r, [at |-> "find", on |-> i, wants |-> who])
    /\ UNCHANGED <<envVars, storeVars>>

\* GET /auth/me with the token of an earlier login.
Me(r) ==
    /\ task[r].at = "token"
    /\ \E i \in Replica : /\ IsUp(i)
                          /\ Goto(r, [at |-> "me", on |-> i, token |-> task[r]])
    /\ UNCHANGED <<envVars, storeVars>>

-----------------------------------------------------------------------------
(* The steps that execute in a database. *)

\* findByUsername: one SELECT in PostgreSQL; in Redis GET of the name's key,
\* and HGETALL of the user only if there is one.
FindByUsername(p) ==
    /\ task[p].at = "find"
    /\ LET id == IdOf(task[p].wants.username)
       IN  Goto(p, IF database = "redis" /\ id # Null
                   THEN [at |-> "load", on |-> task[p].on, wants |-> task[p].wants, id |-> id]
                   ELSE AfterFind(p, id))
    /\ UNCHANGED <<envVars, storeVars>>

LoadUser(p) ==
    /\ task[p].at = "load"
    /\ Goto(p, AfterFind(p, task[p].id))
    /\ UNCHANGED <<envVars, storeVars>>

\* getById for the profile of a token.
FindById(p) ==
    /\ task[p].at = "me"
    /\ Goto(p, IF Stored(task[p].token.id) = Null THEN Refuse(404) ELSE task[p].token)
    /\ UNCHANGED <<envVars, storeVars>>

\* existsByUsername: in Redis the key alone counts.
ExistsByUsername(p) ==
    /\ task[p].at = "exists"
    /\ Goto(p, IF IdOf(task[p].wants.username) # Null THEN AfterTaken(p)
               ELSE [task[p] EXCEPT !.at = "save"])
    /\ UNCHANGED <<envVars, storeVars>>

\* Bug: the key is set without NX.
KeyNeverThere(name) == name \notin Username

\* Bug: a key whose user is not there counts as none.
KeyOfUserThere(name) == Stored(usernameKey[name]) # Null

\* What SET NX looks at.
KeyThere(name) == usernameKey[name] # Null

\* save of a new user in Redis begins with SET NX of the name's key.  When the
\* reply is lost and the command sent again, it finds the key its first
\* execution set: the name is taken, by nobody.
Claim(p) ==
    /\ database = "redis" /\ task[p].at = "save" /\ UnusedIds # {}
    /\ LET name == task[p].wants.username
       IN  \/ /\ ~KeyThere(name)
              /\ usernameKey' = [usernameKey EXCEPT ![name] = FreshId]
              /\ \/ Goto(p, [at |-> "write", on |-> task[p].on, wants |-> task[p].wants,
                             id |-> FreshId])
                 \/ Resends /\ Goto(p, AfterTaken(p))
           \/ /\ KeyThere(name)
              /\ Goto(p, AfterTaken(p))
              /\ UNCHANGED usernameKey
    /\ UNCHANGED <<envVars, user>>

\* HSET of the user under the id that the name's key has.
WriteUser(p) ==
    /\ task[p].at = "write"
    /\ user' = [user EXCEPT ![task[p].id] = task[p].wants]
    /\ Goto(p, AfterSave(p, task[p].wants))
    /\ UNCHANGED <<envVars, usernameKey>>

\* Bug: no unique index on the name.
RowNeverThere(name) == name \notin Username

\* What the unique index on the name looks at.
RowThere(name) == IdsOf(name) # {}

\* save of a new user in PostgreSQL: an INSERT, which the unique index on the
\* name refuses when there is a row of that name.
Insert(p) ==
    /\ database = "postgres" /\ task[p].at = "save" /\ UnusedIds # {}
    /\ IF RowThere(task[p].wants.username)
       THEN Goto(p, AfterTaken(p)) /\ UNCHANGED user
       ELSE /\ user' = [user EXCEPT ![FreshId] = task[p].wants]
            /\ Goto(p, AfterSave(p, task[p].wants))
    /\ UNCHANGED <<envVars, usernameKey>>

Step(p) ==
    \/ FindByUsername(p)
    \/ LoadUser(p)
    \/ FindById(p)
    \/ ExistsByUsername(p)
    \/ Claim(p)
    \/ WriteUser(p)
    \/ Insert(p)

-----------------------------------------------------------------------------

\* Anything but `redis` in DB_KIND means PostgreSQL.
ResolveStoreKind(kind) == IF kind = "redis" THEN "redis" ELSE "postgres"

Init ==
    /\ \E kind \in DbKinds : database = ResolveStoreKind(kind)
    /\ owner \in Owners
    /\ task = [p \in Process |-> IF p \in Replica THEN Down ELSE Idle]
    /\ usernameKey = [n \in Username |-> Null]
    /\ user = [id \in Id |-> Null]
    /\ crashes = 0

Next ==
    \/ \E i \in Replica : Boot(i) \/ Crash(i)
    \/ \E r \in Request : Register(r) \/ LogIn(r) \/ Me(r)
    \/ \E p \in Process : Step(p)
    \/ Reconfigure

Spec == Init /\ [][Next]_vars

\* A replica that is down is started again, and what runs goes on.  Nobody has
\* to send a request, to crash or to change the environment.
FairSpec ==
    /\ Spec
    /\ \A i \in Replica : WF_vars(Boot(i))
    /\ \A p \in Process : WF_vars(Step(p))

-----------------------------------------------------------------------------

\* Types.
TypeOK ==
    /\ database \in {"redis", "postgres"}
    /\ owner \in Owners
    /\ task \in [Process -> TaskState]
    /\ usernameKey \in [Username -> Id \cup {Null}]
    /\ user \in [Id -> User \cup {Null}]
    /\ crashes \in 0..MaxCrashes

\* A name belongs to one account: however many registrations and booting
\* replicas want it at once, no stored user is left that its name does not
\* lead to.
OneAccountPerName ==
    \A id \in Id : user[id] # Null => IdOf(user[id].username) = id

\* No answer is contradicted later, by any replica: whoever was told that the
\* account exists, or was given a token for it, has it, with that password and
\* that role, and a token is never one of somebody unknown.
AnswersStayTrue ==
    \A r \in Request :
        /\ task[r].at \in {"created", "token"} =>
              AccountOf(task[r].user.username) = task[r].user
        /\ task[r].at = "token" => user[task[r].id] = task[r].user
        /\ task[r] # Refuse(404)

\* Only somebody the shop was deployed with is an admin: no order of
\* registrations, boots and reconfigurations gives a customer's account, or a
\* customer's token, that role.
OnlyOwnersAreAdmins ==
    \A u \in {user[id] : id \in Id} \cup {task[r].user : r \in {q \in Request : task[q].at = "token"}} :
        u # Null /\ u.role = "ADMIN" =>
            [username |-> u.username, password |-> u.password] \in Owners

\* A replica does not serve before its owner can find an account under the name
\* the replica was started with, however many replicas start together.
UpMeansSeeded ==
    \A i \in Replica :
        IsUp(i) /\ task[i].owner # Null => AccountOf(task[i].owner.username) # Null

\* The contract of the user store, by either of its implementations.
Store == INSTANCE UserStore WITH Account   <- User,
                                 NoAccount <- Null,
                                 accounts  <- [n \in Username |-> AccountOf(n)]

ImplementsUserStore == Store!Spec

\* The name is taken by nobody, and nobody is about to write its account.
Abandoned(n) ==
    /\ usernameKey[n] # Null
    /\ user[usernameKey[n]] = Null
    /\ \A p \in Process : task[p].at = "write" => task[p].id # usernameKey[n]

\* Replicas that boot at the same time, or while a customer registers the
\* owner's name, get in each other's way only for a while: unless a name is
\* abandoned, each of them serves in the end.
EveryReplicaComesUp ==
    [](\A n \in Username : ~ Abandoned(n)) => \A i \in Replica : <>[]IsUp(i)

\* What the repository says of its own claim ("no half-registered account is
\* left behind") and the README of the owner ("a shop always has exactly one
\* owner"): the owner gets the account in the end.
ShopGetsItsOwner == <>(\E n \in Username : AccountOf(n) # Null /\ AccountOf(n).role = "ADMIN")
=============================================================================
