# Shop backend: specification and verification

This directory is a TLA+ development of the shop backend in `src/`: a NestJS
service that keeps a catalogue, takes orders, holds stock for them and settles
them against transfers on an EVM chain. A shop is deployed with PostgreSQL or
with Redis, runs in any number of replicas, and shares nothing between them but
its database. What is hard in it is therefore what happens *between* the
database operations of requests that run at the same time, and that is what the
modules model.

Paths below are relative to the repository (`src/src/orders/...` is
`src/orders/...` in it).

## The system

| Component | State | Operations that change it | What is hard |
| --- | --- | --- | --- |
| `OrdersService` | none between requests; the locals of each request | `checkout`, `confirmPayment`, `markPaymentFailed` | everything read before an `await` may be stale after it: prices, the status of the order, the configured wallet |
| `ArticlesService` | the same | `create`, `update`, `remove` | `update` reads an article, merges, and writes all of it |
| `OrderRepository` (interface) | orders, stock, claims on transaction hashes | `placeOrder`, `failPayment`, `confirmPayment` | several keys or rows change in one step, or none does |
| `RedisOrderRepository` | order hashes, two sorted-set indexes, claim keys | three Lua scripts, and reads around them | atomicity is the script's; commands may be sent twice |
| `RedisArticleRepository` | article hashes with optional fields, one index | `MULTI`: `HSET`+`ZADD`, `DEL`+`ZREM` | absent fields, writes to hashes that are gone |
| `TypeOrmOrderRepository`, `TypeOrmArticleRepository` | rows | transactions of several statements | row locks, rollback, deadlock |
| `PaymentVerifierService`, `ChainClient` | none; asks the chain | `verify`: poll, then compare | timeouts, reorganisation, a chain that has stopped |
| `payment.config` | the environment | replaced at redeployment | requests and orders that outlive a setting |
| `UsersService`, `AdminSeeder` | none; the environment of a replica | `create` for a registration, `onModuleInit` at every boot | the name is checked, the password hashed for long, and only then the user saved |
| `RedisUserRepository`, `TypeOrmUserRepository` | `users:<id>` hashes and username keys; rows with a unique name | `save` | a claim and its account are two commands; a crash or a lost reply between them |
| `AuthService`, guards | none; tokens are with the clients | `register`, `login`, `getProfile` | a token outlives what it was issued for |
| Listings (`findPage`, `PageDto`) | none | — | a page and its total, and two pages, are separate reads of a set that changes |

The services call the stores through their interfaces; checkout takes the stock
that the catalogue owns, so the two repositories share the article keys. The
verifier is called in the middle of `confirmPayment` and may take seconds.
Nothing calls `markPaymentFailed`; the modules let any request call it, as the
integration it is written for would.

What makes each part correct:

* **orders and stock**: no article is sold below zero; the pieces an order took
  come back once or never; a basket is taken whole or not at all;
* **payment**: an order is paid once, by its buyer, with a transfer the chain
  has settled, to the address on the order, for at least its total; a transfer
  pays one order; paid and failed are final; no claim on a hash is stranded;
* **catalogue**: an edit changes what it names, a deletion stays, listings and
  hashes agree;
* **requests**: each ends, whatever the others do, and what it answered stays
  true;
* **accounts**: a username has one account and an account has a username; a
  token is true of its account; only owners are admins, and no replica serves
  before its owner has an account;
* **listings**: who walks through all pages sees everything that was there.

## Modules

| Module | What it is |
| --- | --- |
| `ShopTypes` | the data: baskets, order lines, drafts, orders, and how many pieces an order takes |
| `OrderStore` | the contract of the stores: each operation of `OrderRepository`, and each catalogue write, as one step on `stock` and `orders` |
| `OrderStore_proofs` | theorems about the contract, for every value of the constants |
| `ShopServices` | the services, one step per `await`; the configured wallet; the chain as `confirmPayment` sees it |
| `Shop` | articles and orders in some database, the steps that only read them, and the properties promised whichever database it is. Its refinement of `OrderStore` is `ImplementsOrderStore` |
| `RedisShop` | `Shop` on Redis: one step per command, `MULTI` block or script |
| `PostgresShop` | `Shop` on PostgreSQL: one step per statement, row locks, rollback, deadlock |
| `Sums_proofs` | sums over finite sets, by which baskets are priced and pieces in orders counted: what `SumFunction` computes, and how a sum changes with one of its values |
| `Shop_proofs` | what the proofs about both deployments share: the invariant of a request in progress, prices and pieces, and the steps of the contract as a shop takes them |
| `RedisShop_proofs` | the safety properties of `RedisShop`, and that it implements `OrderStore`, for every value of the constants |
| `PostgresShop_proofs` | the same of `PostgresShop` |
| `PaymentVerifier` | `verify` on its own: its three questions to the chain, its polling loop and deadline, and a chain that grows and reorganises |
| `PaymentVerifier_proofs` | that the wait is bounded, and that only good payments are accepted, for every deadline, interval and number of confirmations |
| `UserStore` | the contract of the user repositories: `save` gives a free name its account, as one step |
| `Accounts` | registration, login, profile, and the seeding of the owner by replicas that boot and crash, on Redis (two commands to save a user) or PostgreSQL (one). Its refinement of `UserStore` is `ImplementsUserStore` |
| `Accounts_proofs` | that a name has one account, that answers stay true, who may be an admin, and that `Accounts` implements `UserStore`, for every value of the constants |
| `Listings` | a client that walks through the pages of an order listing of either store, beside `OrderStore` |
| `Listings_proofs` | that such a walk misses nothing, for any number of orders and any page size |
| `MCAccounts`, `MCOrderStore`, `MCShop`, `MCRedisShop`, `MCPostgresShop` | instances for TLC |

`ShopTypes` <- `OrderStore`, `ShopServices` <- `Shop` <- `RedisShop`,
`PostgresShop`; `Shop` instantiates `OrderStore`, and `Shop_proofs` takes the
theorems of `OrderStore_proofs` with it. `PaymentVerifier` stands alone:
`ShopServices` has the whole of it as one step (`VerifyAccepts`,
`VerifyRejects`, `ChainUnavailable`), because `verify` touches no state of the
shop while it waits. `Listings` extends `OrderStore`, whose steps are all that a
listing can see change; `Accounts` instantiates `UserStore` and shares nothing
with the others: an order names its buyer by the id in the token, and no user is
ever changed or deleted.

### How the model corresponds to the code

*Requests.* `req[r]` is the state of one `async` function: its `pc` names the
`await` it is at, its other fields the locals still used after it. What runs
between two awaits is one step: Node runs it without interruption, and it
touches nothing that is shared. The number of requests in progress at once is
the size of `Request`; whether they are in one process or in several replicas
makes no difference, because a process holds no state of the shop.

*Redis.* A step that executes in Redis is what Redis executes without
interleaving: a command, a `MULTI`/`EXEC` block, a script. `PLACE_ORDER`,
`CONFIRM_PAYMENT` and `FAIL_PAYMENT` carry the names of the scripts. `findByIds`
is a pipeline, which is not atomic, so it is one step per article. Everything
the script returns is decided in the same step; the re-read of the order that
follows a payment result is a step of its own.

*PostgreSQL.* `article` and `order` are the committed rows, and a step is a
statement (isolation is the default, READ COMMITTED). What a transaction has
written and not committed is derived from the request that runs it: the lines it
has done are the rows it holds, and `CommitPlaceOrder` and `CommitFailPayment`
apply all of it at once. An `UPDATE` or `DELETE` picks its row by the committed
version, waits while another transaction holds it, and evaluates its `WHERE`
again afterwards, so it is enabled when no committed row matches or the row is
free. `AbortDeadlocked` is PostgreSQL's deadlock detection: any transaction of a
circle may be the one aborted, and its request answers 500. A statement outside
a transaction commits by itself. TypeORM's `save` of an existing article is
three cases: it reads the row again and compares, then updates the columns that
differ, or inserts the article again when it is gone. `null` in a `NOT NULL`
column is an error, and 500, before the row is waited for. The SELECTs inside
`failPayment` read what no concurrent step can change, and belong to the step
next to them; the read that follows `confirmPayment`'s UPDATE is `RereadOrder`.

*The verifier.* `place`, `block`, `status` and `head` are the chain; what a
transaction pays, and to whom, is fixed by its hash (`transfer`). `elapsed` is
the clock of `waitForReceipt` in units of which the poll interval is a multiple;
it stops just past the deadline, beyond which no comparison depends on it.
`seen` is the block number on the receipt. `Reorganise` replaces up to
`MaxReorg` blocks: a transaction in them is in another of the new ones, with
another outcome perhaps, or waits again.

*Accounts.* `task[p]` is for a request or a booting replica what `req[r]` is
above. `database` is chosen once (`ResolveStoreKind`). On Redis `save` is `Claim`
(`SET NX` of the name's key) and `WriteUser` (`HSET` of the user), and
`findByUsername` is `FindByUsername` and `LoadUser`; on PostgreSQL each is one
statement. The seeder is the same functions called by a replica: it answers
nobody, it starts to serve (`up`), and a name that is taken makes `onModuleInit`
throw, so the process exits (`Down`) and is started again. `Crash(i)` takes a
replica and everything it was doing. A password stands for its hash.

*Listings.* `Select` is what filtering a sequence gives (`SelectSeq`, written so
that the proofs can expand it). `recency` is the order of the index: a placement is filed by the
clock of its replica (Redis) or the start of its transaction (PostgreSQL), so it
need not come first. `walk` is the client: the page it reads, the reads of that
page that are done, and the orders of the listing it has not been shown yet.

*Failure.* `Crash(r)` ends a request at any point: the process dies or its
connections do. `ChainUnavailable` is every failure of the JSON-RPC call.
`Reconfigure` is a redeployment with another `WALLET_ADDRESS` while requests go
on in the old replicas; it changes the address that a checkout running after it
reads. `Resends` adds what ioredis does by default to a command whose reply was
outstanding when the connection closed: it sends it again after reconnecting,
and again if that reply is lost too. Every script, `MULTI` block and claim of a
name may so run any number of times; a read that is sent again does no more than
one that waits longer. That default is not set anywhere in
`redis.connection.ts`; the module treats it as external. It is on in
`RedisPayment` and `Accounts`, and off in the runs of properties that it breaks
(see *Disagreements found*). ioredis gives up after a number of
attempts, which is not modelled: that every request over Redis ends is asked
without `Resends`.

*Data.* Money is a natural number of cents: a price has two decimals, and the
largest total, 50 lines of 1000 pieces at 10^9, is below 2^53 cents, so
`toMoney`'s rounding of the float sum gives the exact one. `numeric(18,2)` holds
it too. Names, item names, timestamps and the currency decide nothing and are
left out. Transaction hashes are the strings a customer may send; `TxOf` gives
the transaction each denotes, so two spellings of one hash are two elements with
one image. The verifier's answer is `Valid`: settled on chain, to the address,
for the amount; "open" is every state in which it cannot yet say so.

*Sources of nondeterminism.* Which request runs next, what clients and the admin
send, when the chain settles a transaction and how, when the shop is
reconfigured, and when a process dies.

### What the stores promise

`OrderStore` is the text of `order.repository.ts` as a state machine: `PlaceOrder`
checks and takes every line and writes the order; `FailPayment` moves PENDING to
FAILED and puts back the pieces of the articles there still are;
`ConfirmPayment` moves PENDING to PAID unless the hash has paid another order.
The admin's writes to the catalogue are as loose as `ArticleRepository` allows:
any quantity may be written at any time. A wrong quantity would therefore pass
for a catalogue write of the contract, so `PiecesConserved` says separately that
pieces are neither made nor lost except in a step of the admin's own.

`Shop` refines the contract with `stock` the numeric reading of the `quantity`
of the articles there are, and `orders` the orders: every step of every request
is one step of the contract or leaves it alone. On Redis that step is the
script; on PostgreSQL it is the COMMIT.

## Runs

| Run | Question | Result |
| --- | --- | --- |
| `OrderStoreContract` | Does the contract keep what its comments promise, and does a client who walks through the pages of a listing meanwhile see everything? | holds |
| `RedisStock` | Two baskets of up to two lines, two articles, one transfer: is the basket taken whole, are pieces conserved and claims never stranded, are answers true, is the contract implemented? | holds |
| `RedisPayment` | Two customers, two orders, two transfers, two wallets, an article that is created and deleted, every command sent again: is an order paid only as it should be, is nothing oversold or given back twice, do the listings agree with what is there? | holds |
| `RedisEveryRequest` | Every kind of request on one article: do catalogue edits and deletions between the steps of an order break anything, and does every request end? | holds |
| `PostgresLocks` | Transactions that lock two articles in either order: is the contract implemented although each is many steps, and does every request end? | holds |
| `PostgresEveryRequest` | Every kind of request, statement by statement: are payments final, paid for and answered truthfully, and does no release give back more than was taken? | holds |
| `PaymentVerifier` | Is each wait for a receipt bounded, does it end, is only a settled transfer accepted, and a good one in the end? | holds |
| `Accounts` | Two replicas seed one owner while two requests register and log in under that name: is a name one account, are answers true, is the contract implemented, and do the replicas come up? | holds |
| `LostStockUpdate` | Does a PATCH leave alone what it does not mention? | no |
| `TwoSpellings` | Does one transfer settle one order? | no |
| `ResentCheckout` | Does a checkout sent again take the stock once? | no |
| `AbandonedOwner` | Does a shop always get its owner? | no |

`NothingSkipped` excepts two walks, because the code does not protect them. Unpaid
orders leave the listing of the PENDING ones when they are settled, and draw
those behind them to a page already shown. And on Redis the total is counted
before the page is read: an order placed in between pushes the last one past the
`totalPages` of that answer. A client that goes on until a page is short misses
nothing.

`PostgresEveryRequest` does not check the contract: an update that read an
article before its deletion inserts it again with the quantity it had read, and
a release that ran while the article was gone has passed it over. Both steps are
in the contract, but `failPayment` holds no lock on an article that is not
there, so it may be inserted between the UPDATE that found none and the COMMIT,
and then there is no single moment at which the release as a whole happened.
`PostgresLocks` has no catalogue edits, and there the contract holds; it holds
as long as no deleted article comes back (`ImplementsContract` of
`PostgresShop_proofs`), which says that this is the only way to break it. What
remains with updates is `PiecesNeverMade`: pieces may be lost so, but no step of
a request ever makes any. On Redis the same is asked where scripts run again
(`RedisPayment`): a checkout may then take its pieces twice, but a release never
gives them back twice.

### Bounds, and why they are enough

Two requests at once, because every race in this code is between two: the
requests over Redis hold no lock that a third could wait for, a circle of two
transactions is the shortest deadlock, and the effects of requests that are over
remain in the stores, so a third and fourth request follow in the same slots.
Two orders compete for the last piece; two lines are what a half-taken basket
and a circle of locks need; two articles are what two lines need. Stock starts
anywhere in `0..2` in `RedisStock`, which has "none", "enough for one" and
"enough for both"; in `PostgresLocks` there is one piece of each article. Prices
are fixed where only stock is asked about, and stock where only payment is.
`RedisEveryRequest` and `PostgresEveryRequest` have one article: the
interleavings of six kinds of request on the same keys are what they are for,
and the others vary the number of keys. In `RedisPayment` every order costs one,
so it is the address, not the amount, that tells the two transfers apart; that
makes the instance the same when the transfers, the wallets they pay and their
hashes change places together, which its symmetry uses. It has no updates of
articles: that a save may run again too is covered by the theorems for Redis
that hold with `Resends`. `PostgresLocks` has no wallet and no
chain, because no payment takes part. `IdsLeft` keeps requests that will need a
fresh id away when none is left; `randomUUID` has no such bound. `Shelf`
bounds the quantities that the mapping of `Shop` offers to `OrderStore`'s
catalogue writes, and `ShelfBound` the shelf of `MCOrderStore`.

`OrderStoreContract` has one article and three orders: three pages of one order,
which make a first, a middle and a last page. That two lines of one basket and
two articles change nothing is what `OrderStore_proofs` proves for all of them,
and `RedisStock` and `PostgresLocks` have them under the refinement. The walks
are of a customer's own orders, which only grows, and of the failed ones, which
orders also join in the middle.

`Accounts` has one name, which is the owner's and which customers may choose:
names interact only through the ids, and ids are never shared. Two passwords
tell a right login from a wrong one; two replicas and two requests are four
processes that want the name at once; one crash may hit any step of any of them.
`AbandonedOwner` needs one replica and nobody else.

`PaymentVerifier` has two confirmations, the least number for which a
reorganisation of one block matters; three polls, so that one is first, one last
and one between; reorganisations of one or two blocks; and five heights
(`MaxHead`), so that the transaction can be mined, replaced, mined again and
buried. `GoodPaymentIsAccepted` asks for no block past `MaxHead`. Deadlock is
not checked there: an accepted payment is not submitted again, and the chain
stops at the bound.

### Fairness

`FairSpec` of `RedisShop` is weak fairness of each request's next step in the
server: the event loop runs, Redis answers, and a call to the chain returns or
fails, which `ChainClient.call` guarantees with its timeout. `FairSpec` of
`PostgresShop` is strong fairness of the same, because a statement that waits
for a row can be enabled and disabled again and again while others take it in
turn: PostgreSQL queues those who wait, so each gets its turn. Nothing is
assumed of customers, the admin, the chain, or of crashes. `EveryRequestEnds` is
checked under it; `ReserveStockRetrying` and `LookUpRetrying` show that it would
not survive a retry.

`FairSpec` of `PaymentVerifier` is weak fairness of the steps of `verify` and of
the clock; `VerifyEnds` needs no more, whatever the chain does.
`GoodPaymentIsAccepted` names in its own text what else it needs
(`CustomerAsksAgain`): the customer submits again, which the storefront offers
(a refusal is an answer 422 and stores nothing), blocks are
produced, and the node answers now and then.

`FairSpec` of `Accounts` is weak fairness of each process's next step, and of
`Boot`: the operator starts a replica that is down again. `EveryReplicaComesUp`
assumes in its own text that no name is abandoned; `AbandonedOwner` shows that
the assumption is needed.

## What is proved

`OrderStore_proofs` proves, for any articles, orders, hashes, prices and basket
sizes that satisfy `TypesAssumption`:

* `TypeCorrect`: `Spec => []TypeOK`;
* `NeverBelowZero`: no article is oversold;
* `OneTransferOneOrder`: two paid orders never carry one hash;
* `PiecesMoveOnce`: a change of an order moves the pieces it accounts for, and
  no other order;
* `SettledForGood`: paid and failed are final, and the terms of a pending order
  do not change.

The inductive invariant is `Inv`, the conjunction of `TypeOK`,
`StockNeverNegative` and `OneHashOneOrder`. The second conjunct is inductive
only with the types (an order's lines are distinct, so the pieces of an article
that an order takes are those of one line, which `Available` has compared with
the shelf); the third needs that a pending order carries no hash, which is why
it is part of it. The two action properties follow from `Inv` and `[Next]_vars`,
one case per operation.

`PaymentVerifier_proofs` proves, for any deadline, poll interval above zero,
number of confirmations and depth of reorganisation (`VerifierAssumption`):

* `TypeCorrect`: types, and that no poll timer is set past the deadline;
* `WaitIsBounded`: one call asks for the receipt at most once for each interval
  before the deadline, and once more;
* `AcceptedPaymentIsSettled`: what is accepted is a transfer of the right amount
  to the right address, and the block on its receipt has the required number of
  confirmations, whatever the chain did between the questions and whatever was
  answered before.

The bound is not inductive, because it does not say that time has passed.
`Pacing` does: while a receipt is asked for, the polls before it took an
interval each, and while the timer runs, the polls so far fit before it fires.
For the third theorem `Progress` says what verify has established by the time it
asks for the head (the transfer is the right one); `DeeperStays`, that the chain
never gets shorter, keeps an answer true after it was given.

`Accounts_proofs` proves, for any names, passwords, ids, replicas, requests,
owners and crashes that satisfy `AccountsAssumption`, with commands sent again or
not, and on either database:

* `TypeCorrect`, and `OneAccount`: a name belongs to one account;
* `UserStoreImplemented`: `Spec => ImplementsUserStore`;
* `AnswersNeverContradicted`: who was told of an account, or has a token of it,
  finds it as it was;
* `ServingIsSeeded`: a replica that serves finds its owner's account;
* `AdminsAreOwners`: only somebody the shop was deployed with is an admin.

`OneAccountPerName` is not inductive: on Redis a user is saved by two commands, and
it says nothing of the state between them. `StoreInv` does:
an id is about to be written by one process at most, under the name whose key
has it, and nothing is stored under it yet (`WritesHeld`); no two keys hold one
id (`KeysApart`); a user leads back to its id (`NamesLead`), and so does a read
that has got its id (`LoadsHeld`). From it `UserChange` follows: a step leaves
the users alone or adds one whose name had none (`Saved`), and `NamesAfter` says
what each name then reads. The refinement is those two, and so is that nothing
told becomes untrue (`StillTold`); `Learned` adds that what a process is newly
told is true already, and `TellInv` is the invariant the last three theorems
come from. That a booting replica wants an owner to be an admin and a request
wants a customer (`RolesFit`) is what the last of them rests on.

### The shop on either database

`RedisShop_proofs` and `PostgresShop_proofs` prove, for any articles, orders,
buyers, hashes, transactions, wallets and requests that satisfy the assumptions
of the modules:

| Property | Redis | PostgreSQL |
| --- | --- | --- |
| `TypeOK` | `TypesHold` | `TypesHold` |
| `PaidIsPaid` | `PaidHolds` | `PaidHolds` |
| `NeverOversold` | `NotOversold` | `NotOversold` |
| `OnlyTheBuyerPays` | `BuyerAlonePays` | `BuyerAlonePays` |
| `IndexesAgree` | `IndexesHold` | — |
| `ClaimsMatchOrders` | `ClaimsHold` (1) | — |
| `HashesSettleOnce` | `Settlement` (1, 2) | `OneTransferOneOrderHolds` |
| `OrdersSettleOnce` | `Settlement` (1, 2) | `OrdersSettle` |
| `AnswersStayTrue` | `AnswersHold` (1) | `AnswersHold` |
| `ImplementsOrderStore` | `ImplementsContract` (1, 2) | `ImplementsContract` (2, 4), `ImplementsWithoutUpdates` (2, 5) |
| `PiecesConserved` | `PiecesStay` (1, 3) | `PiecesStay` (3, 4), `PiecesStayWithoutUpdates` (3, 5) |
| `PiecesNeverMade` | `NoPiecesMade` (3) | `NoPiecesMade` (3) |

The hypotheses, and why each is there:

1. `~Resends`: the client sends no command again. `ResentCheckout` shows
   that a checkout that runs twice takes the stock twice, and it also makes a
   paid order pending again. The theorems without this mark hold with every
   command sent again, as often as it takes.
2. `Shelf = Nat`: the mapping to the contract offers its catalogue writes every
   number of pieces; a release may put back more than any bound.
3. `IsFiniteSet(OrderId)`: of infinitely many orders there would be no number of
   pieces that they take together. The orders of a shop are finitely many at any
   time, and the bound is any.
4. `NoneComesBack`: an article that was deleted stays deleted. See *Disagreements
   found*: an update may bring it back, between the two halves of a release, and
   then the pieces of that order are lost.
5. `"update" \notin Kinds`: the admin sends no `PATCH`. From this hypothesis 4
   follows (`WithoutUpdates`).

The assumptions on the constants are those of `ShopTypes`, `ServicesAssumption`
(the chain is a function of the hash), `ShopAssumption`, `MoneyAssumption` (the
price of a basket is an amount: the instances make `Money` finite, and `Nat` is
a value of it), and `RedisAssumption` (`Null` is no id of an order; `randomUUID`
makes ids).

*The invariant of a request* (`RequestSound` of `Shop_proofs`) says what a
function of `OrdersService` may still rely on at each of its awaits, although
others have written meanwhile. `PaidIsPaid` does not say it: it is about the
order when it is paid, and the transfer is compared with the address and total
that were read before the chain was asked. What makes it inductive is that the
terms of an order never change once it is there (`OrdersKept`), so what `verify`
has compared is still on the order when the payment is recorded; and that a
total is the price of its lines at every step from the lookup on (`Quoting`,
`OrdersSound`), which is arithmetic: `LinePrice`, `PriceOfAppend`.

*On Redis* `IInv` adds the indexes, and what a script that may run again relies
on (`ResendSound`: only its own first run can have placed an order under its id,
with the same terms). One lemma per command or script shows that it is kept.
`OnceInv`, which is inductive together with `IInv` when nothing is sent again,
is `ClaimsMatchOrders`, `AnswersStayTrue` and what the re-read of a settled order
will find (`RereadSound`): an answer is true because the order was settled two
commands before it is given, and settled is final. With it each script is one
step of the contract, or none. `Settlement` is then not proved again: it is the
theorems of `OrderStore_proofs`, carried over by the refinement
(`SettledByContract`).

*On PostgreSQL* an operation is many steps, and `IInv` says why it still counts
as one. A row of an article is held by one transaction (`HeldApart`), so what a
checkout has seen of the rows it has done is still so at its COMMIT: they are
there, with enough pieces (`ReserveSound`). A release holds the row of its
order, so nobody else settles it, and the lines it read are the order's
(`GiveBackSound`). `NeverOversold` of the committed rows needs the first:
`CommitPlaceOrder` takes all lines at once, and looks at nothing. For the
contract and the pieces a release has to put back *all* the pieces of articles
there are when it commits. `StillInv` says so: the lines it has done are of
articles that it puts back or that are gone. It is inductive only as long as
what is gone stays gone (`NoneComesBack`), because a release holds no lock on a
row that it has not found.

*Pieces.* `PiecesConserved` is about a sum over all orders, and `PaidIsPaid`
about the sum of a basket. `SumFunction` of the community modules folds over a
set by a function that is recursive on its subsets. `Sums_proofs` makes the
induction over finite sets itself, from a smallest counterexample
(`SmallestSubset`): there is one function that takes values out of the set one
by one, in whatever order (`SumUnique`, `SumExists`), and it is the one that
`SumFunction` is (`SumIs`). What is used of it is `SumRemove`, `SumAgree`,
`SumChange` and `SumAppend`: a step that changes one order changes the pieces in
orders by what that order took before and takes now (`TakenChange`), and conserves them
when the shelf changes by as much the other way (`OneOrderConserves`).

`PiecesNeverMade` needs neither hypothesis 1 nor 4. Each run of the script that
places an order takes its pieces off the shelf, and the order accounts for them
once at least, whether it was pending, paid or failed before
(`PlacingMakesNone`); a release gives back, line by line, what its order held or
nothing (`FailMakesNone`), and holds the order's row or is one script, so there
is no second one. What loses pieces is therefore exactly what the hypotheses of
`PiecesStay` exclude.

The inductive invariants were given to TLC as invariants of the instances in
`MCShop` before they were proved.

### The listings

`Listings_proofs` proves `NothingIsSkipped`: `ListingsSpec => []NothingSkipped`,
for any page size, any set of listings that are walked and any number of orders,
articles and buyers, on either store, whatever is placed and settled between any
two commands of a page and between pages, with the two exceptions that the
property names (see *Runs*).

`NothingSkipped` speaks of walks that are over. The invariant (`WalkInv`) says
where in the listing the orders are that the client has not been shown: not on
the pages before the one it reads. With k orders on those pages, that is
`unseen \subseteq Beyond(ids, k)`, the ids with k others at least before them in
the listing. It is kept because a listing only grows, apart from that of the
unpaid orders: an order that is placed or settled joins anywhere and can only
push the others further back (`Keeps`, `ListedGrows`, `NoNearer`). When a page
is shown, those beyond k that are not on it are beyond the end of it
(`PageHolds`), and after a page that is not full, or the last one by a total read
no earlier than the page, there are none (`LastPage`).

In the middle of a page the invariant has one part for each store. On Redis a
page of a status is found in as many commands as there are orders
(`LoadSound`): what has been found and what is still to be loaded are together
an order-keeping selection of the index as it was, and one that is settled
between these commands is found or left out but moves no other
(`LoadingSound`). On PostgreSQL the rows are read after their ids (`RowsSound`),
and an order that has left a status since does not matter, because none leaves
those that the property is about. `RecencySound` ties the two together:
`recency` has every order exactly once.

What `Select` does to a sequence of any length is an induction over its
elements, which the module makes itself from a least counterexample
(`LeastNumber`, `Induction`, `SeqInduction`). The lemmas that use it say that a
selection distributes over concatenation (`SelectConcat`), that two are one
(`SelectTwice`), and that it brings nobody nearer to the front than the
selection of more would (`SelectNoNearer`).

### Only model-checked

Liveness and deadlock: `EveryRequestEnds`, `VerifyEnds`, `GoodPaymentIsAccepted`,
`EveryReplicaComesUp`, and that no run stops. The prover has no rules for
fairness and `ENABLED`. Every invariant, every step property and every
refinement that a passing run checks is a theorem.

## Disagreements found

Each is the subject of a `violation` run; the counterexample is TLC's.

1. `LostStockUpdate`. `update` writes back every field it has read, the quantity
   included: a checkout between its read and its write is undone, and the pieces
   it sold are on the shelf again. (Redis. Under PostgreSQL `save` compares with
   a second read, so the same happens if the checkout commits between the two.)
2. `TwoSpellings`. The claim key and the unique column compare hashes as
   spelled; `0xAB...` and `0xab...` are one transaction and two claims.
3. `ResentCheckout`. `PLACE_ORDER` does not look whether its order exists, so a
   script sent again takes the stock a second time. This one rests on ioredis's
   default (see *Failure*).
4. `AbandonedOwner`. On Redis the claim on a username and the account it is for
   are two commands, and nothing releases a claim. A replica that goes away
   between them leaves the owner's name taken by nobody: `findByUsername` finds
   no account, `existsByUsername` finds the name taken, the seeder throws, and
   so does every boot after it.

Also met, and not the subject of a run:

* Nothing calls `markPaymentFailed`. `orders.service.ts:236` and the README
  (`src/README.md:153`) say the blockchain integration does when a payment is
  rejected; `confirmPayment` answers 422 and leaves the order PENDING (which
  `payments.e2e-spec.ts` expects), so the stock of an order that is never paid
  is held for ever.
* Under Redis `PATCH {"description": null}` has no effect, although
  `update-article.dto.ts:6` says that null clears: `hashFields` leaves a null out
  and `HSET` keeps what the hash has.
* An update that read an article before its deletion brings it back: under Redis
  as a hash that can be ordered by id and is in no listing, under PostgreSQL as
  a row. Under PostgreSQL it may do so while a release is open that has already
  passed the article over (`typeorm-order.repository.ts:159` takes no lock where
  it finds no row). The release commits, the order is FAILED, the article is on
  the shelf again with the quantity the update had read, and the pieces of the
  order are in neither: `order.repository.ts:82` promises that they are put back
  "as one step", and skips only articles for which "there is no shelf left".
  `PiecesStay` and `ImplementsContract` show that nothing else loses pieces or
  takes an operation apart.
* The README says an article that no longer exists answers 404; one deleted
  between the lookup and the reservation answers 409, because `placeOrder`
  reports it as a line that could not be reserved.
* `payment.config.ts:26` speaks of how far behind the head a transaction is;
  `verify` counts the transaction's own block, so one confirmation accepts it
  when it is nothing behind the head. The model follows the code.
* `verify` counts confirmations from the block number on a receipt that it read
  before the head. If the chain replaces that block in between, a transaction in
  the last block, or in none, is accepted where two confirmations are required.
  `AcceptedIsSettled` therefore speaks of the block that the receipt named.
* A checkout script sent again after its order was paid or failed makes it
  PENDING once more, which is why `AnswersStayTrue` and `ClaimsMatchOrders` are
  checked without `Resends`; `PaidIsPaid`, `OnlyTheBuyerPays`, `NeverOversold`,
  `PiecesNeverMade` and `IndexesAgree` survive it.
* A `SET NX` of a username sent again after a lost reply finds its own first
  execution: the customer is told the name is taken, and it is, by nobody.
* A customer who registers the owner's name before the owner is first seeded
  keeps it: the seeder logs that the admin already exists, and the shop has none.
  A redeployment with another `SHOP_ADMIN_USERNAME` adds a second admin and
  leaves the first. `src/README.md:81` says "exactly one owner".
  `OnlyOwnersAreAdmins` and `UpMeansSeeded` say what remains true.
* `src/README.md:75` gives `1d` as the default lifetime of a token,
  `jwt.config.ts` has `1h`.

## Not modelled

* The catalogue listing and its search: a deletion draws the articles behind it
  to an earlier page, so a walk through it may miss some, and nothing in the
  code or its documentation says otherwise.
* The signature and expiry of tokens, the comparison in the role guard, password
  hashing, wei arithmetic (`BigInt`, exact), address comparison and validation of
  bodies: functions of one request, with no state to interleave with.
* `main.ts`, the module wiring, health, `decimalTransformer`, connecting and
  shutting down, build and CI: no state of the shop passes through them that
  another part decides on.
* Who releases the stock of an order that is never paid: nothing does (see
  above), so there is no behaviour to check.

## Plan

Everything that changes state is modelled, and all that the runs check, but for
liveness, is proved. Two things would say more:

1. The contract of PostgreSQL with updates: one whose release may pass over an
   article that was deleted once and comes back, so that hypothesis 4 of
   `ImplementsContract` goes. It needs a history of deletions beside the rows.
   Until then `NoPiecesMade`, `NotOversold`, `OrdersSettle`,
   `OneTransferOneOrderHolds` and `AnswersHold` are what is known of that case.
2. The catalogue listing, if the storefront comes to rely on walks through it.
