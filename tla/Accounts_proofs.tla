-------------------------- MODULE Accounts_proofs --------------------------
(***************************************************************************)
(* Proofs about Accounts, for any names, passwords, ids, replicas,         *)
(* requests, owners and crashes, on either database.                       *)
(***************************************************************************)
EXTENDS Accounts, TLAPS

\* What a task is, told by where it is.
LEMMA TaskAt ==
    ASSUME NEW t \in TaskState
    PROVE  /\ t.at = "find" => t \in Finding
           /\ t.at = "load" => t \in Loading
           /\ t.at \in {"exists", "save"} => t \in Creating
           /\ t.at = "write" => t \in Writing
           /\ t.at = "up" => t \in Up
           /\ t.at = "created" => t \in Created
           /\ t.at = "token" => t \in SignedIn
           /\ t.at = "me" => t \in Profile
  BY DEF TaskState, Down, Idle, Up, Refused, Created, SignedIn, Finding, Loading,
         Creating, Writing, Profile

\* The fields of what is stored, wanted and configured.
LEMMA Fields ==
    /\ \A c \in Credentials : c.username \in Username /\ c.password \in Password
    /\ \A u \in User : /\ u.username \in Username /\ u.password \in Password
                       /\ u.role \in Role
    /\ \A c \in Credentials, role \in Role : WithRole(c, role) \in User
    /\ Null \notin User /\ Null \notin Id
    /\ Owners \ {Null} \subseteq Credentials
  BY AccountsAssumption DEF Credentials, User, WithRole

\* randomUUID has an id to give.
LEMMA Fresh ==
    ASSUME UnusedIds # {}
    PROVE  /\ FreshId \in Id /\ user[FreshId] = Null
           /\ \A n \in Username : usernameKey[n] # FreshId
           /\ \A p \in Process : task[p].at = "write" => task[p].id # FreshId
  BY DEF UnusedIds, FreshId

-----------------------------------------------------------------------------
(* Types, and who wants what. *)

\* The name and password of a user, as the environment gives the owner's.
OwnerOf(u) == [username |-> u.username, password |-> u.password]

\* A booting replica wants its owner to be an admin, a request a customer.
Fits(p, t) ==
    /\ p \in Replica /\ t.at \in {"find", "load"} => t.wants \in Owners
    /\ t.at \in {"exists", "save", "write"} =>
          IF p \in Replica
          THEN t.wants.role = "ADMIN" /\ OwnerOf(t.wants) \in Owners
          ELSE t.wants.role = "CUSTOMER"

RolesFit == \A p \in Process : Fits(p, task[p])

\* What findByUsername is followed by.
LEMMA AfterFindFits ==
    ASSUME TypeOK, RolesFit, NEW p \in Process, task[p].at \in {"find", "load"},
           NEW id \in Id \cup {Null}
    PROVE  /\ AfterFind(p, id) \in TaskState
           /\ AfterFind(p, id).at \in {"up", "exists", "token", "refused"}
           /\ AfterFind(p, id).at = "exists" =>
                 /\ p \in Replica
                 /\ AfterFind(p, id).wants.role = "ADMIN"
                 /\ OwnerOf(AfterFind(p, id).wants) \in Owners
  <1> DEFINE w == task[p].wants
  <1>1. w \in Credentials
    BY TaskAt DEF TypeOK, Finding, Loading
  <1>2. CASE p \in Replica
    <2>1. w \in Owners
      BY <1>2 DEF RolesFit, Fits
    <2>2. OwnerOf(WithRole(w, "ADMIN")) = w /\ WithRole(w, "ADMIN").role = "ADMIN"
      BY <1>1 DEF OwnerOf, WithRole, Credentials
    <2>3. WithRole(w, "ADMIN") \in User
      BY <1>1, Fields DEF Role
    <2> QED
      BY <1>2, <2>1, <2>2, <2>3
         DEF AfterFind, AfterFindToSeed, TaskState, Up, Creating
  <1>3. CASE p \notin Replica
    <2>1. Stored(id) # Null => id \in Id /\ user[id] \in User
      BY DEF Stored, TypeOK
    <2> QED
      BY <1>3, <2>1
         DEF AfterFind, AfterFindToLogIn, TaskState, SignedIn, Refuse, Refused
  <1> QED
    BY <1>2, <1>3

\* What save is followed by.
LEMMA AfterSaveFits ==
    ASSUME TypeOK, RolesFit, NEW p \in Process, task[p].at \in {"save", "write"}
    PROVE  /\ AfterSave(p, task[p].wants) \in TaskState
           /\ AfterSave(p, task[p].wants).at \in {"up", "created"}
  <1>1. task[p].wants \in User
    BY TaskAt DEF TypeOK, Creating, Writing
  <1>2. CASE p \in Replica
    BY <1>2 DEF RolesFit, Fits, OwnerOf, AfterSave, TaskState, Up
  <1>3. CASE p \notin Replica
    BY <1>1, <1>3 DEF AfterSave, TaskState, Created
  <1> QED
    BY <1>2, <1>3

LEMMA AfterTakenFits ==
    ASSUME NEW p
    PROVE  AfterTaken(p) \in TaskState /\ AfterTaken(p).at \in {"down", "refused"}
  BY DEF AfterTaken, TaskState, Down, Refuse, Refused

\* A step of one process.
LEMMA OneTask ==
    ASSUME TypeOK, RolesFit, NEW p \in Process, NEW next \in TaskState,
           Fits(p, next), Goto(p, next), UNCHANGED <<database, crashes>>,
           owner' \in Owners,
           usernameKey' \in [Username -> Id \cup {Null}],
           user' \in [Id -> User \cup {Null}]
    PROVE  TypeOK' /\ RolesFit'
  <1>1. TypeOK'
    BY DEF TypeOK, Goto
  <1>2. ASSUME NEW q \in Process
        PROVE  Fits(q, task'[q])
    BY DEF RolesFit, Goto, TypeOK
  <1> QED
    BY <1>1, <1>2 DEF RolesFit, Fits

LEMMA TypesStep ==
    ASSUME TypeOK, RolesFit, [Next]_vars
    PROVE  TypeOK' /\ RolesFit'
  <1> USE DEF envVars, storeVars
  <1>0. user \in [Id -> User \cup {Null}] /\ usernameKey \in [Username -> Id \cup {Null}]
        /\ owner \in Owners
    BY DEF TypeOK
  <1>1. ASSUME NEW i \in Replica, Boot(i)
        PROVE  TypeOK' /\ RolesFit'
    <2> DEFINE next == IF owner = Null THEN [at |-> "up", owner |-> Null]
                       ELSE [at |-> "find", on |-> i, wants |-> owner]
    <2>1. next \in TaskState /\ Fits(i, next)
      BY <1>0, Fields DEF TaskState, Up, Finding, Fits
    <2> QED
      BY <1>0, <1>1, <2>1, OneTask DEF Boot, Process
  <1>2. ASSUME NEW i \in Replica, Crash(i)
        PROVE  TypeOK' /\ RolesFit'
    <2>1. ASSUME NEW p \in Process
          PROVE  task'[p] \in TaskState /\ Fits(p, task'[p])
      BY <1>2 DEF Crash, TypeOK, RolesFit, TaskState, Down, Idle, Fits
    <2>2. task' \in [Process -> TaskState]
      BY <1>2, <2>1 DEF Crash
    <2>3. crashes' \in 0..MaxCrashes
      BY <1>2, AccountsAssumption DEF Crash, TypeOK
    <2> QED
      BY <1>2, <2>1, <2>2, <2>3 DEF Crash, TypeOK, RolesFit, Fits
  <1>3. ASSUME NEW r \in Request, Register(r)
        PROVE  TypeOK' /\ RolesFit'
    <2>1. PICK i \in Replica, who \in Credentials, role \in RolesGranted :
               Goto(r, [at |-> "exists", on |-> i, wants |-> WithRole(who, role)])
      BY <1>3 DEF Register
    <2> DEFINE next == [at |-> "exists", on |-> i, wants |-> WithRole(who, role)]
    <2>2. role = "CUSTOMER" /\ WithRole(who, role) \in User
          /\ WithRole(who, role).role = "CUSTOMER"
      BY Fields DEF RolesGranted, Role, WithRole
    <2>3. next \in TaskState /\ Fits(r, next)
      BY <2>2, AccountsAssumption DEF TaskState, Creating, Fits
    <2> QED
      BY <1>0, <1>3, <2>1, <2>3, OneTask DEF Register, Process
  <1>4. ASSUME NEW r \in Request, LogIn(r)
        PROVE  TypeOK' /\ RolesFit'
    <2>1. PICK i \in Replica, who \in Credentials :
               Goto(r, [at |-> "find", on |-> i, wants |-> who])
      BY <1>4 DEF LogIn
    <2> DEFINE next == [at |-> "find", on |-> i, wants |-> who]
    <2>2. next \in TaskState /\ Fits(r, next)
      BY AccountsAssumption DEF TaskState, Finding, Fits
    <2> QED
      BY <1>0, <1>4, <2>1, <2>2, OneTask DEF LogIn, Process
  <1>5. ASSUME NEW r \in Request, Me(r)
        PROVE  TypeOK' /\ RolesFit'
    <2>1. PICK i \in Replica : Goto(r, [at |-> "me", on |-> i, token |-> task[r]])
      BY <1>5 DEF Me
    <2> DEFINE next == [at |-> "me", on |-> i, token |-> task[r]]
    <2>2. task[r] \in SignedIn
      BY <1>5, TaskAt DEF Me, TypeOK, Process
    <2>3. next \in TaskState /\ Fits(r, next)
      BY <2>2 DEF TaskState, Profile, Fits
    <2> QED
      BY <1>0, <1>5, <2>1, <2>3, OneTask DEF Me, Process
  <1>6. ASSUME NEW p \in Process, FindByUsername(p)
        PROVE  TypeOK' /\ RolesFit'
    <2> DEFINE id   == IdOf(task[p].wants.username)
               load == [at |-> "load", on |-> task[p].on, wants |-> task[p].wants, id |-> id]
    <2>1. task[p] \in Finding /\ task[p].at = "find"
      BY <1>6, TaskAt DEF FindByUsername, TypeOK
    <2>2. id \in Id \cup {Null}
      BY <1>0, <2>1, Fields DEF IdOf, IdsOf, Finding
    <2>3. id # Null => load \in TaskState /\ Fits(p, load)
      BY <2>1, <2>2 DEF TaskState, Finding, Loading, Fits, RolesFit
    <2>4. AfterFind(p, id) \in TaskState /\ Fits(p, AfterFind(p, id))
      BY <2>1, <2>2, AfterFindFits DEF Fits
    <2> QED
      BY <1>0, <1>6, <2>3, <2>4, OneTask DEF FindByUsername
  <1>7. ASSUME NEW p \in Process, LoadUser(p)
        PROVE  TypeOK' /\ RolesFit'
    <2>1. task[p] \in Loading /\ task[p].at = "load"
      BY <1>7, TaskAt DEF LoadUser, TypeOK
    <2>2. task[p].id \in Id
      BY <2>1 DEF Loading
    <2>3. AfterFind(p, task[p].id) \in TaskState /\ Fits(p, AfterFind(p, task[p].id))
      BY <2>1, <2>2, AfterFindFits DEF Fits
    <2> QED
      BY <1>0, <1>7, <2>3, OneTask DEF LoadUser
  <1>8. ASSUME NEW p \in Process, FindById(p)
        PROVE  TypeOK' /\ RolesFit'
    <2> DEFINE next == IF Stored(task[p].token.id) = Null THEN Refuse(404) ELSE task[p].token
    <2>1. task[p] \in Profile
      BY <1>8, TaskAt DEF FindById, TypeOK
    <2>2. next \in TaskState /\ Fits(p, next)
      BY <2>1 DEF Profile, SignedIn, TaskState, Refuse, Refused, Fits
    <2> QED
      BY <1>0, <1>8, <2>2, OneTask DEF FindById
  <1>9. ASSUME NEW p \in Process, ExistsByUsername(p)
        PROVE  TypeOK' /\ RolesFit'
    <2> DEFINE save == [task[p] EXCEPT !.at = "save"]
    <2>1. task[p] \in Creating /\ task[p].at = "exists"
      BY <1>9, TaskAt DEF ExistsByUsername, TypeOK
    <2>2. save \in TaskState /\ Fits(p, save)
      BY <2>1 DEF Creating, TaskState, Fits, RolesFit
    <2>3. AfterTaken(p) \in TaskState /\ Fits(p, AfterTaken(p))
      BY AfterTakenFits DEF Fits
    <2> QED
      BY <1>0, <1>9, <2>2, <2>3, OneTask DEF ExistsByUsername
  <1>10. ASSUME NEW p \in Process, Claim(p)
         PROVE  TypeOK' /\ RolesFit'
    <2> DEFINE write == [at |-> "write", on |-> task[p].on, wants |-> task[p].wants,
                         id |-> FreshId]
    <2>1. task[p] \in Creating /\ task[p].at = "save" /\ FreshId \in Id
      BY <1>10, TaskAt, Fresh DEF Claim, TypeOK
    <2>2. write \in TaskState /\ Fits(p, write)
      BY <2>1 DEF Creating, Writing, TaskState, Fits, RolesFit
    <2>3. AfterTaken(p) \in TaskState /\ Fits(p, AfterTaken(p))
      BY AfterTakenFits DEF Fits
    <2>4. usernameKey' \in [Username -> Id \cup {Null}]
      BY <1>0, <1>10, <2>1 DEF Claim
    <2> QED
      BY <1>0, <1>10, <2>2, <2>3, <2>4, OneTask DEF Claim
  <1>11. ASSUME NEW p \in Process, WriteUser(p)
         PROVE  TypeOK' /\ RolesFit'
    <2>1. task[p] \in Writing /\ task[p].at = "write"
      BY <1>11, TaskAt DEF WriteUser, TypeOK
    <2>2. user' \in [Id -> User \cup {Null}]
      BY <1>0, <1>11, <2>1 DEF WriteUser, Writing
    <2>3. AfterSave(p, task[p].wants) \in TaskState /\ Fits(p, AfterSave(p, task[p].wants))
      BY <2>1, AfterSaveFits DEF Fits
    <2> QED
      BY <1>0, <1>11, <2>2, <2>3, OneTask DEF WriteUser
  <1>12. ASSUME NEW p \in Process, Insert(p)
         PROVE  TypeOK' /\ RolesFit'
    <2>1. task[p] \in Creating /\ task[p].at = "save" /\ FreshId \in Id
      BY <1>12, TaskAt, Fresh DEF Insert, TypeOK
    <2>2. user' \in [Id -> User \cup {Null}]
      BY <1>0, <1>12, <2>1 DEF Insert, Creating
    <2>3. AfterSave(p, task[p].wants) \in TaskState /\ Fits(p, AfterSave(p, task[p].wants))
      BY <2>1, AfterSaveFits DEF Fits
    <2>4. AfterTaken(p) \in TaskState /\ Fits(p, AfterTaken(p))
      BY AfterTakenFits DEF Fits
    <2> QED
      BY <1>0, <1>12, <2>2, <2>3, <2>4, OneTask DEF Insert
  <1>13. CASE Reconfigure
    BY <1>13 DEF Reconfigure, TypeOK, RolesFit, Fits
  <1>14. CASE UNCHANGED vars
    BY <1>14 DEF vars, TypeOK, RolesFit, Fits
  <1> QED
    BY <1>1, <1>2, <1>3, <1>4, <1>5, <1>6, <1>7, <1>8, <1>9, <1>10, <1>11, <1>12,
       <1>13, <1>14 DEF Next, Step

LEMMA TypesInit == Init => TypeOK /\ RolesFit
  BY AccountsAssumption
     DEF Init, TypeOK, RolesFit, Fits, TaskState, Down, Idle, ResolveStoreKind, Process

\* Every task, key and user has its type, on either database.
THEOREM TypeCorrect == Spec => []TypeOK
  <1>1. Spec => [](TypeOK /\ RolesFit)
    BY TypesInit, TypesStep, PTL DEF Spec
  <1> QED
    BY <1>1, PTL

-----------------------------------------------------------------------------
(* Names and ids. *)

\* An id leads to its name and back: through the key of the name in Redis, as
\* the only row of the name in PostgreSQL.
NamesLead ==
    \A id \in Id : user[id] # Null =>
        IF database = "redis" THEN usernameKey[user[id].username] = id
        ELSE \A other \in Id : user[other] # Null /\ user[other].username = user[id].username
                                => other = id

\* No two names have one id.
KeysApart ==
    \A m, n \in Username : usernameKey[m] # Null /\ usernameKey[m] = usernameKey[n] => m = n

\* Who is about to write a user holds the key of the name, and nobody else is
\* about to write, or has written, under that id.
WritesHeld ==
    \A p \in Process : task[p].at = "write" =>
        /\ database = "redis"
        /\ user[task[p].id] = Null
        /\ usernameKey[task[p].wants.username] = task[p].id
        /\ \A q \in Process : task[q].at = "write" /\ task[q].id = task[p].id => q = p

\* Who is about to read a user by id has the id from the key of the name.
LoadsHeld ==
    \A p \in Process : task[p].at = "load" =>
        database = "redis" /\ usernameKey[task[p].wants.username] = task[p].id

StoreInv ==
    TypeOK /\ RolesFit /\ NamesLead /\ KeysApart /\ WritesHeld /\ LoadsHeld

LEMMA StoreInit == Init => StoreInv
  BY TypesInit, Fields
     DEF Init, StoreInv, NamesLead, KeysApart, WritesHeld, LoadsHeld, Down, Idle

\* A step that touches no store and begins neither a write nor a read by id.
LEMMA Quiet ==
    ASSUME StoreInv, [Next]_vars, UNCHANGED <<database, user, usernameKey>>,
           \A p \in Process : task'[p].at \in {"write", "load"} => task'[p] = task[p]
    PROVE  StoreInv'
  <1>1. TypeOK' /\ RolesFit'
    BY TypesStep DEF StoreInv
  <1>2. NamesLead' /\ KeysApart'
    BY DEF StoreInv, NamesLead, KeysApart
  <1>3. WritesHeld'
    BY DEF StoreInv, WritesHeld
  <1>4. LoadsHeld'
    BY DEF StoreInv, LoadsHeld
  <1> QED
    BY <1>1, <1>2, <1>3, <1>4 DEF StoreInv

\* What the name of a user leads to, and what a name leads to.
NamesRead ==
    /\ \A id \in Id : user[id] # Null =>
          IdOf(user[id].username) = id /\ AccountOf(user[id].username) = user[id]
    /\ \A n \in Username : AccountOf(n) # Null =>
          \E id \in Id : user[id] # Null /\ user[id].username = n /\ user[id] = AccountOf(n)

LEMMA AccountsByName == StoreInv => NamesRead
  <1> SUFFICES ASSUME StoreInv
               PROVE  NamesRead
    OBVIOUS
  <1>1. ASSUME NEW id \in Id, user[id] # Null
        PROVE  IdOf(user[id].username) = id
    <2>1. id \in IdsOf(user[id].username)
      BY <1>1 DEF IdsOf
    <2>2. database # "redis" => \A other \in IdsOf(user[id].username) : other = id
      BY <1>1 DEF IdsOf, StoreInv, NamesLead
    <2> QED
      BY <1>1, <2>1, <2>2 DEF IdOf, StoreInv, NamesLead
  <1>2. ASSUME NEW id \in Id, user[id] # Null
        PROVE  AccountOf(user[id].username) = user[id]
    BY <1>1, <1>2, Fields DEF AccountOf, Stored
  <1>3. ASSUME NEW n \in Username, AccountOf(n) # Null
        PROVE  \E id \in Id : user[id] # Null /\ user[id].username = n /\ user[id] = AccountOf(n)
    <2>1. IdOf(n) # Null /\ AccountOf(n) = user[IdOf(n)]
      BY <1>3 DEF AccountOf, Stored
    <2>2. CASE database = "redis"
      <3>1. usernameKey[n] = IdOf(n) /\ IdOf(n) \in Id
        BY <2>1, <2>2 DEF IdOf, StoreInv, TypeOK
      <3>2. user[IdOf(n)] \in User
        BY <1>3, <2>1, <3>1 DEF StoreInv, TypeOK
      <3>3. usernameKey[user[IdOf(n)].username] = IdOf(n)
        BY <1>3, <2>1, <2>2, <3>1 DEF StoreInv, NamesLead
      <3>4. user[IdOf(n)].username = n
        BY <2>1, <3>1, <3>2, <3>3, Fields DEF StoreInv, KeysApart
      <3> QED
        BY <1>3, <2>1, <3>1, <3>4
    <2>3. CASE database # "redis"
      <3>1. IdsOf(n) # {} /\ IdOf(n) \in IdsOf(n)
        BY <2>1, <2>3 DEF IdOf
      <3> QED
        BY <2>1, <3>1 DEF IdsOf
    <2> QED
      BY <2>2, <2>3
  <1> QED
    BY <1>1, <1>2, <1>3 DEF NamesRead

LEMMA StoreStep ==
    ASSUME StoreInv, [Next]_vars
    PROVE  StoreInv'
  <1> USE DEF envVars, storeVars, Goto
  <1>0. /\ TypeOK /\ RolesFit /\ TypeOK' /\ RolesFit'
        /\ task \in [Process -> TaskState]
        /\ user \in [Id -> User \cup {Null}]
        /\ usernameKey \in [Username -> Id \cup {Null}]
    BY TypesStep DEF StoreInv, TypeOK
  <1>1. ASSUME NEW i \in Replica, Boot(i) \/ Crash(i)
        PROVE  StoreInv'
    BY <1>0, <1>1, Quiet DEF Boot, Crash, Down, Idle, Process
  <1>2. ASSUME NEW r \in Request, Register(r) \/ LogIn(r) \/ Me(r)
        PROVE  StoreInv'
    BY <1>0, <1>2, Quiet DEF Register, LogIn, Me, Process
  <1>3. ASSUME NEW p \in Process, FindByUsername(p)
        PROVE  StoreInv'
    <2> DEFINE id == IdOf(task[p].wants.username)
    <2>1. task[p] \in Finding /\ task[p].at = "find"
      BY <1>0, <1>3, TaskAt DEF FindByUsername
    <2>2. CASE database = "redis" /\ id # Null
      <3>1. task' = [task EXCEPT ![p] = [at |-> "load", on |-> task[p].on,
                                         wants |-> task[p].wants, id |-> id]]
        BY <1>3, <2>2 DEF FindByUsername
      <3>2. id = usernameKey[task[p].wants.username]
        BY <2>2 DEF IdOf
      <3>3. LoadsHeld'
        BY <1>0, <1>3, <2>2, <3>1, <3>2 DEF StoreInv, LoadsHeld, FindByUsername
      <3>4. WritesHeld'
        BY <1>0, <1>3, <3>1 DEF StoreInv, WritesHeld, FindByUsername
      <3> QED
        BY <1>0, <1>3, <3>3, <3>4 DEF StoreInv, NamesLead, KeysApart, FindByUsername
    <2>3. CASE ~ (database = "redis" /\ id # Null)
      <3>1. id \in Id \cup {Null}
        BY <1>0, <2>1, Fields DEF IdOf, IdsOf, Finding
      <3>2. AfterFind(p, id).at \notin {"write", "load"}
        BY <1>0, <2>1, <3>1, AfterFindFits
      <3> QED
        BY <1>0, <1>3, <2>3, <3>2, Quiet DEF FindByUsername
    <2> QED
      BY <2>2, <2>3
  <1>4. ASSUME NEW p \in Process, LoadUser(p)
        PROVE  StoreInv'
    <2>1. task[p] \in Loading /\ task[p].at = "load"
      BY <1>0, <1>4, TaskAt DEF LoadUser
    <2>2. AfterFind(p, task[p].id).at \notin {"write", "load"}
      BY <1>0, <2>1, AfterFindFits DEF Loading
    <2> QED
      BY <1>0, <1>4, <2>2, Quiet DEF LoadUser
  <1>5. ASSUME NEW p \in Process, FindById(p)
        PROVE  StoreInv'
    <2>1. task[p] \in Profile
      BY <1>0, <1>5, TaskAt DEF FindById
    <2> QED
      BY <1>0, <1>5, <2>1, Quiet DEF FindById, Profile, SignedIn, Refuse
  <1>6. ASSUME NEW p \in Process, ExistsByUsername(p)
        PROVE  StoreInv'
    <2>1. task[p] \in Creating
      BY <1>0, <1>6, TaskAt DEF ExistsByUsername
    <2> QED
      BY <1>0, <1>6, <2>1, AfterTakenFits, Quiet DEF ExistsByUsername, Creating
  <1>7. ASSUME NEW p \in Process, Claim(p)
        PROVE  StoreInv'
    <2> DEFINE name == task[p].wants.username
    <2>1. task[p] \in Creating /\ task[p].at = "save" /\ database = "redis"
      BY <1>0, <1>7, TaskAt DEF Claim
    <2>2. name \in Username
      BY <2>1, Fields DEF Creating
    <2>3. /\ FreshId \in Id /\ user[FreshId] = Null /\ FreshId # Null
          /\ \A n \in Username : usernameKey[n] # FreshId
          /\ \A q \in Process : task[q].at = "write" => task[q].id # FreshId
      BY <1>7, Fresh, Fields DEF Claim
    <2>4. CASE KeyThere(name)
      BY <1>0, <1>7, <2>4, AfterTakenFits, Quiet DEF Claim
    <2>5. CASE ~KeyThere(name)
      <3>1. /\ usernameKey[name] = Null
            /\ usernameKey' = [usernameKey EXCEPT ![name] = FreshId]
            /\ UNCHANGED <<database, user>>
        BY <1>7, <2>5 DEF Claim, KeyThere
      <3>2. \/ task' = [task EXCEPT ![p] = [at |-> "write", on |-> task[p].on,
                                            wants |-> task[p].wants, id |-> FreshId]]
            \/ task' = [task EXCEPT ![p] = AfterTaken(p)]
        BY <1>7, <2>5 DEF Claim
      <3>3. NamesLead'
        BY <1>0, <2>1, <2>2, <3>1, Fields DEF StoreInv, NamesLead
      <3>4. KeysApart'
        BY <1>0, <2>2, <2>3, <3>1 DEF StoreInv, KeysApart
      <3>5. ASSUME NEW q \in Process, q # p
            PROVE  task'[q] = task[q]
        BY <1>0, <3>2, <3>5
      <3>6. ASSUME NEW q \in Process, task[q].at \in {"write", "load"}, q # p
            PROVE  usernameKey'[task[q].wants.username] = task[q].id
        <4>1. task[q] \in Writing \cup Loading
          BY <1>0, <3>6, TaskAt
        <4>2. usernameKey[task[q].wants.username] = task[q].id /\ task[q].id # Null
              /\ task[q].wants.username \in Username
          BY <3>6, <4>1, Fields DEF StoreInv, WritesHeld, LoadsHeld, Writing, Loading
        <4> QED
          BY <1>0, <2>2, <3>1, <4>2
      <3>7. task'[p].at = "write" =>
                task'[p].id = FreshId /\ task'[p].wants = task[p].wants
        BY <1>0, <3>2, AfterTakenFits
      <3>8. task'[p].at # "load"
        BY <1>0, <3>2, AfterTakenFits
      <3>9. usernameKey'[name] = FreshId
        BY <1>0, <2>2, <3>1
      <3>10. WritesHeld'
        <4> SUFFICES ASSUME NEW q \in Process, task'[q].at = "write"
                     PROVE  /\ database' = "redis"
                            /\ user'[task'[q].id] = Null
                            /\ usernameKey'[task'[q].wants.username] = task'[q].id
                            /\ \A z \in Process :
                                  task'[z].at = "write" /\ task'[z].id = task'[q].id => z = q
          BY DEF WritesHeld
        <4>1. CASE q = p
          BY <4>1, <2>1, <2>3, <3>1, <3>5, <3>7, <3>9
        <4>2. CASE q # p
          BY <4>2, <2>1, <2>3, <3>1, <3>5, <3>6, <3>7 DEF StoreInv, WritesHeld
        <4> QED
          BY <4>1, <4>2
      <3>11. LoadsHeld'
        BY <2>1, <3>1, <3>5, <3>6, <3>8 DEF LoadsHeld
      <3> QED
        BY <1>0, <3>3, <3>4, <3>10, <3>11 DEF StoreInv
    <2> QED
      BY <2>4, <2>5
  <1>8. ASSUME NEW p \in Process, WriteUser(p)
        PROVE  StoreInv'
    <2>1. task[p] \in Writing /\ task[p].at = "write"
      BY <1>0, <1>8, TaskAt DEF WriteUser
    <2>2. /\ database = "redis" /\ usernameKey[task[p].wants.username] = task[p].id
          /\ \A q \in Process : task[q].at = "write" /\ task[q].id = task[p].id => q = p
      BY <2>1 DEF StoreInv, WritesHeld
    <2>3. /\ user' = [user EXCEPT ![task[p].id] = task[p].wants]
          /\ task' = [task EXCEPT ![p] = AfterSave(p, task[p].wants)]
          /\ UNCHANGED <<database, usernameKey>>
      BY <1>8 DEF WriteUser
    <2>4. AfterSave(p, task[p].wants).at \notin {"write", "load"}
      BY <1>0, <2>1, AfterSaveFits
    <2>5. \A q \in Process : task'[q].at \in {"write", "load"} => q # p /\ task'[q] = task[q]
      BY <1>0, <2>3, <2>4
    <2>6. NamesLead'
      BY <1>0, <2>1, <2>2, <2>3 DEF StoreInv, NamesLead, Writing
    <2>7. WritesHeld'
      BY <1>0, <2>1, <2>2, <2>3, <2>5 DEF StoreInv, WritesHeld, Writing
    <2>8. LoadsHeld' /\ KeysApart'
      BY <2>3, <2>5 DEF StoreInv, LoadsHeld, KeysApart
    <2> QED
      BY <1>0, <2>6, <2>7, <2>8 DEF StoreInv
  <1>9. ASSUME NEW p \in Process, Insert(p)
        PROVE  StoreInv'
    <2>1. task[p] \in Creating /\ task[p].at = "save" /\ database # "redis"
      BY <1>0, <1>9, TaskAt DEF Insert
    <2>2. CASE RowThere(task[p].wants.username)
      BY <1>0, <1>9, <2>2, AfterTakenFits, Quiet DEF Insert
    <2>3. CASE ~RowThere(task[p].wants.username)
      <3>1. /\ user' = [user EXCEPT ![FreshId] = task[p].wants]
            /\ task' = [task EXCEPT ![p] = AfterSave(p, task[p].wants)]
            /\ UNCHANGED <<database, usernameKey>>
        BY <1>9, <2>3 DEF Insert
      <3>2. FreshId \in Id /\ \A id \in Id :
                user[id] # Null => user[id].username # task[p].wants.username
        BY <1>9, <2>3, Fresh DEF Insert, RowThere, IdsOf
      <3>3. NamesLead'
        BY <1>0, <2>1, <3>1, <3>2 DEF StoreInv, NamesLead
      <3>4. \A q \in Process : task'[q].at \in {"write", "load"} => task'[q] = task[q]
        BY <1>0, <2>1, <3>1, AfterSaveFits
      <3>5. WritesHeld' /\ LoadsHeld' /\ KeysApart'
        BY <2>1, <3>1, <3>4 DEF StoreInv, WritesHeld, LoadsHeld, KeysApart
      <3> QED
        BY <1>0, <3>3, <3>5 DEF StoreInv
    <2> QED
      BY <2>2, <2>3
  <1>10. CASE Reconfigure
    BY <1>0, <1>10, Quiet DEF Reconfigure
  <1>11. CASE UNCHANGED vars
    BY <1>0, <1>11, Quiet DEF vars
  <1> QED
    BY <1>1, <1>2, <1>3, <1>4, <1>5, <1>6, <1>7, <1>8, <1>9, <1>10, <1>11 DEF Next, Step

\* A name belongs to one account, however many want it at once.
THEOREM OneAccount == Spec => []OneAccountPerName
  <1>1. Spec => []StoreInv
    BY StoreInit, StoreStep, PTL DEF Spec
  <1>2. StoreInv => OneAccountPerName
    BY AccountsByName DEF NamesRead, OneAccountPerName
  <1> QED
    BY <1>1, <1>2, PTL

-----------------------------------------------------------------------------
(* What a step does to the users: nothing, or one more. *)

Saved(p, id) ==
    /\ task[p].wants \in User
    /\ user[id] = Null
    /\ AccountOf(task[p].wants.username) = Null
    /\ user' = [user EXCEPT ![id] = task[p].wants]
    /\ Fits(p, task[p]) /\ task[p].at \in {"save", "write"}
    /\ Goto(p, AfterSave(p, task[p].wants))

\* The two steps that save, and the one of them that finds the name taken.
LEMMA WriteSaves ==
    ASSUME StoreInv, NEW p \in Process, WriteUser(p)
    PROVE  \E id \in Id : Saved(p, id)
  <1>1. task[p] \in Writing /\ task[p].at = "write"
    BY TaskAt DEF WriteUser, StoreInv, TypeOK
  <1>2. /\ database = "redis" /\ user[task[p].id] = Null
        /\ usernameKey[task[p].wants.username] = task[p].id
    BY <1>1 DEF StoreInv, WritesHeld
  <1>3. AccountOf(task[p].wants.username) = Null
    BY <1>2 DEF AccountOf, Stored, IdOf
  <1> QED
    BY <1>1, <1>2, <1>3 DEF WriteUser, Saved, Writing, StoreInv, RolesFit

LEMMA InsertSaves ==
    ASSUME StoreInv, NEW p \in Process, Insert(p)
    PROVE  \/ user' = user /\ Goto(p, AfterTaken(p))
           \/ \E id \in Id : Saved(p, id)
  <1>1. task[p] \in Creating /\ task[p].at = "save" /\ database # "redis"
    BY TaskAt DEF Insert, StoreInv, TypeOK
  <1>2. CASE ~RowThere(task[p].wants.username)
    <2>1. AccountOf(task[p].wants.username) = Null
      BY <1>1, <1>2 DEF AccountOf, Stored, IdOf, RowThere
    <2> QED
      BY <1>1, <1>2, <2>1, Fresh DEF Insert, Saved, Creating, StoreInv, RolesFit
  <1>3. CASE RowThere(task[p].wants.username)
    BY <1>3 DEF Insert
  <1> QED
    BY <1>2, <1>3

LEMMA UserChange ==
    ASSUME StoreInv, [Next]_vars
    PROVE  user' = user \/ \E p \in Process, id \in Id : Saved(p, id)
  <1>1. ASSUME NEW p \in Process, WriteUser(p)
        PROVE  \E id \in Id : Saved(p, id)
    BY <1>1, WriteSaves
  <1>2. ASSUME NEW p \in Process, Insert(p)
        PROVE  user' = user \/ \E id \in Id : Saved(p, id)
    BY <1>2, InsertSaves
  <1>3. CASE \E i \in Replica : Boot(i) \/ Crash(i)
    BY <1>3 DEF Boot, Crash, storeVars
  <1>4. CASE \E r \in Request : Register(r) \/ LogIn(r) \/ Me(r)
    BY <1>4 DEF Register, LogIn, Me, storeVars
  <1>5. CASE \E p \in Process : \/ FindByUsername(p) \/ LoadUser(p) \/ FindById(p)
                               \/ ExistsByUsername(p) \/ Claim(p)
    BY <1>5 DEF FindByUsername, LoadUser, FindById, ExistsByUsername, Claim, storeVars
  <1>6. CASE Reconfigure \/ UNCHANGED vars
    BY <1>6 DEF Reconfigure, vars, storeVars
  <1> QED
    BY <1>1, <1>2, <1>3, <1>4, <1>5, <1>6 DEF Next, Step

\* The names read as before, or one name that had no account has one.
LEMMA NamesAfter ==
    ASSUME StoreInv, [Next]_vars
    PROVE  /\ \A id \in Id : user[id] # Null => user'[id] = user[id]
           /\ user' = user => \A n \in Username : AccountOf(n)' = AccountOf(n)
           /\ \A p \in Process, id \in Id : Saved(p, id) =>
                 \A n \in Username :
                    AccountOf(n)' = IF n = task[p].wants.username THEN task[p].wants
                                    ELSE AccountOf(n)
  <1>1. NamesRead /\ NamesRead'
    BY AccountsByName, StoreStep, PTL
  <1>2. user \in [Id -> User \cup {Null}] /\ user' \in [Id -> User \cup {Null}]
    BY StoreStep DEF StoreInv, TypeOK
  <1>3. \A id \in Id : user[id] # Null => user'[id] = user[id]
    BY <1>2, UserChange DEF Saved
  <1>4. ASSUME user' = user, NEW n \in Username
        PROVE  AccountOf(n)' = AccountOf(n)
    BY <1>1, <1>4 DEF NamesRead
  <1>5. ASSUME NEW p \in Process, NEW id \in Id, Saved(p, id), NEW n \in Username
        PROVE  AccountOf(n)' = IF n = task[p].wants.username THEN task[p].wants
                               ELSE AccountOf(n)
    <2> DEFINE u == task[p].wants
    <2>1. u \in User /\ u # Null /\ user' = [user EXCEPT ![id] = u] /\ user[id] = Null
      BY <1>5, Fields DEF Saved
    <2>2. CASE n = u.username
      BY <1>1, <1>2, <2>1, <2>2 DEF NamesRead
    <2>3. CASE n # u.username
      <3>1. \A other \in Id : other # id => user'[other] = user[other]
        BY <1>2, <2>1
      <3>2. \A other \in Id : user'[other] # Null /\ user'[other].username = n =>
                other # id /\ AccountOf(n)' = user[other] /\ AccountOf(n) = user[other]
        BY <1>1, <1>2, <2>1, <2>3, <3>1 DEF NamesRead
      <3>3. \A other \in Id : user[other] # Null /\ user[other].username = n =>
                user'[other] = user[other]
        BY <2>1, <3>1
      <3> QED
        BY <1>1, <2>3, <3>2, <3>3 DEF NamesRead
    <2> QED
      BY <2>2, <2>3
  <1> QED
    BY <1>3, <1>4, <1>5

\* On either database, and whatever crashes, the users are a UserStore: every step
\* gives one free name its account, whole, or changes nothing that can be read.
THEOREM UserStoreImplemented == Spec => ImplementsUserStore
  <1>1. Init => Store!Init
    <2> SUFFICES ASSUME Init, NEW n \in Username
                 PROVE  AccountOf(n) = Null
      BY DEF Store!Init
    <2>1. user = [id \in Id |-> Null] /\ usernameKey = [m \in Username |-> Null]
      BY DEF Init
    <2> QED
      BY <2>1 DEF AccountOf, Stored, IdOf, IdsOf
  <1>2. StoreInv /\ [Next]_vars => [Store!Next]_[n \in Username |-> AccountOf(n)]
    <2> SUFFICES ASSUME StoreInv, [Next]_vars
                 PROVE  [Store!Next]_[n \in Username |-> AccountOf(n)]
      OBVIOUS
    <2>1. CASE user' = user
      BY <2>1, NamesAfter
    <2>2. ASSUME NEW p \in Process, NEW id \in Id, Saved(p, id)
          PROVE  Store!Next
      <3> DEFINE u == task[p].wants
      <3>1. u \in User /\ u.username \in Username /\ AccountOf(u.username) = Null
        BY <2>2, Fields DEF Saved
      <3>2. \A n \in Username : AccountOf(n)' = IF n = u.username THEN u ELSE AccountOf(n)
        BY <2>2, NamesAfter
      <3>3. Store!Save(u)
        BY <3>1, <3>2 DEF Store!Save
      <3> QED
        BY <3>1, <3>3 DEF Store!Next
    <2> QED
      BY <2>1, <2>2, UserChange
  <1> QED
    BY <1>1, <1>2, StoreInit, StoreStep, PTL DEF Spec, ImplementsUserStore, Store!Spec

-----------------------------------------------------------------------------
(* Answers. *)

\* An account that somebody was told of is there, and a token is one of its user.
Told(t) ==
    /\ t.at \in {"created", "token"} => AccountOf(t.user.username) = t.user
    /\ t.at = "token" => user[t.id] = t.user
    /\ t.at = "me" => user[t.token.id] = t.token.user
                      /\ AccountOf(t.token.user.username) = t.token.user
    /\ t # Refuse(404)

\* A replica that serves has an owner with an account.
Seeded(t) ==
    t.at = "up" /\ t.owner # Null => AccountOf(t.owner.username) # Null

\* An admin among the users is an owner.
AdminsOwn ==
    \A id \in Id : user[id] # Null /\ user[id].role = "ADMIN" => OwnerOf(user[id]) \in Owners

TellInv ==
    StoreInv /\ AdminsOwn /\ \A p \in Process : Told(task[p]) /\ Seeded(task[p])

LEMMA TellInit == Init => TellInv
  BY StoreInit, Fields
     DEF Init, TellInv, AdminsOwn, Told, Seeded, Down, Idle, Refuse

\* An account stays as it is.
LEMMA AccountsStay ==
    ASSUME StoreInv, [Next]_vars, NEW n \in Username, AccountOf(n) # Null
    PROVE  AccountOf(n)' = AccountOf(n)
  BY NamesAfter, UserChange DEF Saved

\* What was told stays told.
LEMMA StillTold ==
    ASSUME StoreInv, [Next]_vars
    PROVE  \A t \in TaskState : (Told(t) => Told(t)') /\ (Seeded(t) => Seeded(t)')
  <1> SUFFICES ASSUME NEW t \in TaskState
               PROVE  (Told(t) => Told(t)') /\ (Seeded(t) => Seeded(t)')
    OBVIOUS
  <1>1. \A u \in User : AccountOf(u.username) = u => AccountOf(u.username)' = u
    BY AccountsStay, Fields
  <1>2. \A id \in Id : user[id] # Null => user'[id] = user[id]
    BY NamesAfter
  <1>3. Told(t) => Told(t)'
    BY <1>1, <1>2, TaskAt, Fields DEF Told, Created, SignedIn, Profile
  <1>4. t.at = "up" /\ t.owner # Null => t.owner.username \in Username
    BY TaskAt, Fields DEF Up
  <1>5. Seeded(t) => Seeded(t)'
    BY <1>4, AccountsStay DEF Seeded
  <1> QED
    BY <1>3, <1>5

\* What a process learns is so already, unless it is of the user that it saves.
LEMMA Learned ==
    ASSUME TellInv, [Next]_vars, NEW p \in Process
    PROVE  \/ Told(task'[p]) /\ Seeded(task'[p])
           \/ \E id \in Id : Saved(p, id)
  <1> SUFFICES ASSUME task'[p] # task[p], \A id \in Id : ~Saved(p, id)
               PROVE  Told(task'[p]) /\ Seeded(task'[p])
    BY DEF TellInv
  <1> USE DEF Goto
  <1>0. /\ task \in [Process -> TaskState] /\ TypeOK /\ RolesFit
        /\ Told(task[p]) /\ Seeded(task[p])
    BY DEF TellInv, StoreInv, TypeOK
  <1>1. ASSUME NEW i \in Replica, Boot(i) \/ Crash(i)
        PROVE  Told(task'[p]) /\ Seeded(task'[p])
    BY <1>0, <1>1 DEF Boot, Crash, Down, Idle, Told, Seeded, Refuse, Process
  <1>2. ASSUME NEW r \in Request, Register(r) \/ LogIn(r)
        PROVE  Told(task'[p]) /\ Seeded(task'[p])
    BY <1>0, <1>2 DEF Register, LogIn, Told, Seeded, Refuse, Process
  <1>3. ASSUME NEW r \in Request, Me(r)
        PROVE  Told(task'[p]) /\ Seeded(task'[p])
    BY <1>0, <1>3 DEF Me, Told, Seeded, Refuse, Process
  <1>4. ASSUME NEW q \in Process, FindByUsername(q) \/ LoadUser(q)
        PROVE  Told(task'[p]) /\ Seeded(task'[p])
    <2> DEFINE name == task[p].wants.username
    <2>1. p = q
      BY <1>0, <1>4 DEF FindByUsername, LoadUser
    <2>2. CASE \E id : task'[p] = [at |-> "load", on |-> task[p].on,
                                   wants |-> task[p].wants, id |-> id]
      BY <2>2 DEF Told, Seeded, Refuse
    <2>3. CASE task'[p] = AfterFind(p, IdOf(name))
      <3>1. IdOf(name) \in Id \cup {Null} /\ AccountOf(name) = Stored(IdOf(name))
        BY <1>0, <1>4, <2>1, TaskAt, Fields
           DEF IdOf, IdsOf, AccountOf, FindByUsername, LoadUser, Finding, Loading, TypeOK
      <3>2. Stored(IdOf(name)) # Null =>
                /\ IdOf(name) \in Id /\ Stored(IdOf(name)) = user[IdOf(name)]
                /\ AccountOf(user[IdOf(name)].username) = user[IdOf(name)]
        BY <3>1, AccountsByName DEF Stored, NamesRead, TellInv
      <3> QED
        BY <2>3, <3>1, <3>2
           DEF AfterFind, AfterFindToSeed, AfterFindToLogIn, Told, Seeded, Refuse
    <2>4. LoadUser(q) => task[p].id = IdOf(name)
      BY <2>1 DEF LoadUser, TellInv, StoreInv, LoadsHeld, IdOf
    <2> QED
      BY <1>0, <1>4, <2>1, <2>2, <2>3, <2>4 DEF FindByUsername, LoadUser
  <1>5. ASSUME NEW q \in Process, FindById(q)
        PROVE  Told(task'[p]) /\ Seeded(task'[p])
    <2>1. p = q /\ task[p] \in Profile
      BY <1>0, <1>5, TaskAt DEF FindById
    <2>2. task[p].token \in SignedIn /\ task[p].token.user \in User
      BY <2>1 DEF Profile, SignedIn
    <2>3. Stored(task[p].token.id) # Null
      BY <1>0, <1>5, <2>1, <2>2, Fields DEF FindById, Told, Stored, SignedIn
    <2> QED
      BY <1>0, <1>5, <2>1, <2>2, <2>3 DEF FindById, Told, Seeded, Refuse, SignedIn
  <1>6. ASSUME task'[p] = AfterTaken(p)
        PROVE  Told(task'[p]) /\ Seeded(task'[p])
    BY <1>6 DEF AfterTaken, Down, Told, Seeded, Refuse
  <1>7. ASSUME NEW q \in Process, ExistsByUsername(q)
        PROVE  Told(task'[p]) /\ Seeded(task'[p])
    BY <1>0, <1>6, <1>7, TaskAt
       DEF ExistsByUsername, Creating, Told, Seeded, Refuse
  <1>8. ASSUME NEW q \in Process, Claim(q)
        PROVE  Told(task'[p]) /\ Seeded(task'[p])
    BY <1>0, <1>6, <1>8 DEF Claim, Told, Seeded, Refuse
  <1>9. ASSUME NEW q \in Process, WriteUser(q) \/ Insert(q)
        PROVE  Told(task'[p]) /\ Seeded(task'[p])
    <2>1. p = q
      BY <1>0, <1>9 DEF WriteUser, Insert
    <2>2. Goto(p, AfterTaken(p))
      BY <1>9, <2>1, WriteSaves, InsertSaves DEF TellInv
    <2> QED
      BY <1>0, <1>6, <2>2
  <1> QED
    BY <1>1, <1>2, <1>3, <1>4, <1>5, <1>7, <1>8, <1>9
       DEF Next, Step, Reconfigure, vars

LEMMA TellStep ==
    ASSUME TellInv, [Next]_vars
    PROVE  TellInv'
  <1>1. StoreInv'
    BY StoreStep DEF TellInv
  <1>2. AdminsOwn'
    BY UserChange, <1>1, Fields DEF TellInv, AdminsOwn, Saved, Fits, StoreInv, TypeOK
  <1>3. ASSUME NEW p \in Process
        PROVE  Told(task[p])' /\ Seeded(task[p])'
    <2>1. CASE Told(task'[p]) /\ Seeded(task'[p])
      BY <2>1, <1>1, StillTold DEF TellInv, StoreInv, TypeOK
    <2>2. ASSUME NEW id \in Id, Saved(p, id)
          PROVE  Told(task[p])' /\ Seeded(task[p])'
      <3>1. PICK u \in User : u = task[p].wants
        BY <2>2 DEF Saved
      <3>2. task'[p] = AfterSave(p, u) /\ u # Null
        BY <2>2, <3>1, Fields DEF Saved, Goto, TellInv, StoreInv, TypeOK
      <3>3. AccountOf(u.username)' = u
        BY <2>2, <3>1, NamesAfter, Fields DEF TellInv
      <3> QED
        BY <3>2, <3>3 DEF AfterSave, Told, Seeded, Refuse
    <2> QED
      BY <2>1, <2>2, Learned
  <1> QED
    BY <1>1, <1>2, <1>3 DEF TellInv

LEMMA Tells == Spec => []TellInv
  BY TellInit, TellStep, PTL DEF Spec

\* Whoever was told of an account, or has a token of it, is never contradicted:
\* not by another replica, not after a crash, not by a later registration.
THEOREM AnswersNeverContradicted == Spec => []AnswersStayTrue
  <1>1. TellInv => AnswersStayTrue
    BY DEF TellInv, Told, AnswersStayTrue, Process
  <1> QED
    BY <1>1, Tells, PTL

\* A replica that serves finds the account of the owner it was started with.
THEOREM ServingIsSeeded == Spec => []UpMeansSeeded
  <1>1. TellInv => UpMeansSeeded
    BY DEF TellInv, Seeded, UpMeansSeeded, IsUp, Process
  <1> QED
    BY <1>1, Tells, PTL

\* Nobody whom the shop was not deployed with is ever an admin, in the store or
\* in a token.
THEOREM AdminsAreOwners == Spec => []OnlyOwnersAreAdmins
  <1>1. TellInv => OnlyOwnersAreAdmins
    <2> SUFFICES ASSUME TellInv
                 PROVE  OnlyOwnersAreAdmins
      OBVIOUS
    <2>1. \A id \in Id : user[id] # Null /\ user[id].role = "ADMIN"
                            => OwnerOf(user[id]) \in Owners
      BY DEF TellInv, AdminsOwn
    <2>2. ASSUME NEW r \in Request, task[r].at = "token"
          PROVE  \E id \in Id : task[r].user = user[id]
      BY <2>2, TaskAt DEF TellInv, Told, SignedIn, StoreInv, TypeOK, Process
    <2> QED
      BY <2>1, <2>2 DEF OnlyOwnersAreAdmins, OwnerOf
  <1> QED
    BY <1>1, Tells, PTL
=============================================================================
