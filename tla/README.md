# CarMall in TLA+

CarMall is the server of a car dealership: a Spring Boot 2.0 application with a GraphQL API, JPA
entities in a relational database, HTTP sessions in redis and phone verification codes in redis.
Customers log in with a phone or with a WeChat mini program, place *consults* (咨询单), are bound to a
store and to a salesperson, and collect loyalty points (积分). Staff accounts come in four roles:
super administrator, platform administrator, store administrator, sales consultant. The repository
has no design document. What it says of itself is in comments, javadoc, `@SchemaDocumentation` texts
and error messages; the modules are translated from the code and quote those texts where a property
comes from them.

Paths below are relative to `src/main/java` of the repository; `service/impl/`, `domain/` and so on
are below `com/qunchuang/carmall`.

## 1. Inventory

| Component | State | Operations | Interacts with |
|---|---|---|---|
| Staff accounts (`service/impl/AdminServiceImpl`, `domain/Admin`) | rows: roles, store, user name, password, disabled | `init`, `storeAdministrator`, `salesConsultant`, `platformAdministrator`, `delete`, `changePassword`, `changeOtherPassword`, `update`, `generateWxCode` | stores (binding), sessions (the principal) |
| Stores (`StoreServiceImpl`, `domain/Store`) | rows: name, address, `storeAdminId`, disabled | `add`, `modify`, `delete`, `initAccount`, `createAccount`, `nearestStore`, `getValidId` | staff and customers of a deleted store |
| Sessions (`auth/*`, `config/WebSecurityConfig`, `HttpSessionConfig`) | serialized copies of the principal, 24 h idle time | web, app, phone and WeChat login, logout | every `@PreAuthorize`, every `Admin.getAdmin()` |
| Customers (`CustomerServiceImpl`, `domain/Customer`) | rows: phone, openid, store, salesperson, points, disabled | `register`, `modify` (called by the consult operations only), `delete`, `consumerIntegral` | points, consults, both logins |
| Points (`IntegralRecord`, `Customer.modifyIntegral`, `IntegralEnum`) | a balance per customer, a table of records | registering, inviting, finishing an invited consult, spending | customers, consults |
| Consults (`ConsultServiceImpl`, `domain/Consult`) | rows: customer, store, salesperson, status, inviter, disabled | `add`, `allocate`, `changeToStore`, `changeToSalesConsultant`, `finish`, `modify`, `delete` | customers, points, stores, push messages |
| Verification codes (`VerificationServiceImpl`) | redis: phone to code | `getCode`, `verify` | `Consult.add`, phone login |
| Catalogue (`CarInfoServiceImpl`, `CarBrandIconServiceImpl`, `AdvertisementServiceImpl`) | rows: model, shelf flag, schemes, disabled | `add`, `addAll`, `modify`, `delete`, `upperDownShelf` | brand icons |
| Data privilege (`utils/PrivilegeUtil`, `graphql/query/QueryFilter`, `PrivilegeConstraintUtil`) | none | the filter a principal's queries get | every GraphQL query |
| GraphQL (`graphql/*`) | the schema, built once | queries with paging, mutations | services, validation |
| Validation (`cn/wzvtcsoft/validator`) | none | rule strings checked before a mutation | mutations |
| Persistence base (`cn/wzvtcsoft/bosdomain`) | ids, `disabled`, time stamps; `CLASS_ID_CACHE`, the suffixes of ids in use, shared by all threads | `save` (writes the whole row), id generation | every entity |
| Push, SMS, storage, maps, WeChat (`utils/*`) | external | calls | consults, verification |

What makes the behaviour hard, and the property that answers it, is the list of hazards in
`PROJECT.json`. In short:

* A session holds a **copy** of the account. Nothing refreshes or ends it when the account is
  deleted, and `changePassword` saves the copy over the row. Likewise `StoreServiceImpl.add` saves
  the object a client sends, id, flag and binding included. (`maximumSessions(1)` does not help: the
  login filters are added with no session authentication strategy, so an account may have several
  sessions. They are a set in the model.)
* A store's binding (`storeAdminId`), an account's store and a session's store are three pieces of
  state, changed by different requests.
* A consult's salesperson, its customer's salesperson and its status are three others.
* Points and records are written by four operations of two services, some with a limit and some
  without; `finish` pays before it looks at the status.
* Requests run concurrently, on rows without a version and tables without unique constraints: a
  request saves whole rows as it read them, over what was committed meanwhile. What it sends (a push
  message, a code by SMS) is out before its commit, or before what it stores.
* An import of cars is sent again when its answer was lost, a query is read page by page while rows
  come and go, and a deleted row is hidden only by the filter that a query adds.
* The cache of suffixes of ids is a `HashMap` that threads use unsynchronized.

## 2. Modules

```
Accounts ----+                    staff, stores, sessions
             +--> CarMall         customers, consults; composes the two
Integral ----+                    points and records; IntegralEnum: ints, limit
             +--> Transactions    customers and consults, overlapping requests

PhoneAccess  <--- Verification    codes in redis, registration by phone
                  Desk            stores, staff, consults, push messages, overlapping requests

Catalogue ---+
             +--> Showroom        a client walks through the pages while staff restocks
Query -------+
                  Bosid           ids, and the cache their making shares
```

* **Accounts** is the staff side. `admin[a]` is the row of account `a` with the fields on which
  behaviour depends, `NoRow` before it is inserted; `store[s]` is `absent`, `open` or `closed`;
  `storeAdminId[s]` is the field of that name; `session` is the set of principals, each an id and a
  copy of the row; `sent` is history, the stores whose binding a client sent. One action per service
  operation: `AddStore` (any flag and binding, over an existing store or a new one),
  `StoreAdministrator`, `SalesConsultant`, `PlatformAdministrator`, `DeleteAdmin` (with
  `initAccount`), `ChangePassword`, `DeleteStore` (with the deletion of the staff), and `Login`,
  `Logout`. The authorities of `@PreAuthorize` are read from the session's copy. `Init` is the
  database after `AdminServiceImpl.init`.
* **Integral** is the points side, and the abstract specification of what the rest may do to points:
  `Join` (register), `Bonus` (finish), `ConsumerIntegral`. The record table is kept as what the
  properties ask of it: per customer the sum of recorded increases, the sums of deductions (`debit`)
  and of the negative ones among them (`refund`), and the balance in the newest record. An amount
  spent may have any sign, since nothing checks it, and a balance is an int that wraps (`ToInt32`);
  **IntegralEnum** has the ints and the values of the enum.
* **CarMall** holds the customers' rows and the consults' rows and composes both: `Acc == INSTANCE
  Accounts`, `Pts == INSTANCE Integral`, on the same variables. A request that changes points calls
  an action of `Integral` (`RegisterPoints` is `Pts!Join`, `PayInviter` is `Pts!Bonus`);
  `DeleteStore` is `Acc!DeleteStore` and the customers' part. `AddConsult` contains the registration
  of a new customer, as the code does. `bonus[k]` counts the records that name consult `k`.
* **Transactions** gives up that requests run one at a time. `customer` and `consult` are the
  committed rows, `reads[r]` is what the transaction of request `r` sees: MySQL's default isolation
  (no configuration of the repository changes it) fixes one snapshot for all of a transaction's
  reads. `Begin` takes the snapshot; each operation is its request's commit, which decides and
  computes on the snapshot and writes whole rows over the committed ones (`Saved`: Hibernate writes
  all columns of a row of which one changed; `Written`: or another column, that is not modelled,
  changed). A login by phone is two transactions, `existsByPhone` and `register`, because the login
  filters run outside the GraphQL executor's transaction; `LoginChecks` is the first. `Rollback` is
  an exception, a lock timeout or a deadlock of the database. To keep the state small, stores,
  flags, sessions and permissions are left out: every row has its salesperson and stands for the
  rest. `Pts == INSTANCE Integral` on the points that are derived from the rows is the sequential
  model it is compared with. A WeChat login registers a new customer each time, since `register`
  keeps only the phone and the next login does not find the openid.
* **PhoneAccess** is abstract: what the check of a phone promises to the rest. Once a code is kept
  for a phone (`Guard`), a request proves that it owns the phone by a code issued for it, and comes
  in; before that, one word lets everybody in. Nothing is said of how codes are sent, stored or
  compared.
* **Verification** is how the code does it, and implements `PhoneAccess` (`proofs[r]` is what
  request `r` showed, between `verify` and its end, `members` are the phones with a customer).
  `verify` compares what is typed with `String.valueOf` of what redis has (`Shown`), which for a
  phone without a code is the text "null", the constant `NullText`. `code` is redis, `customers[ph]`
  the number of rows with the phone, `job[r]` where the thread of request `r` stands. `AskCode` is
  `getCode` to the answer of the SMS service, `StoreCode` the rest; `Verify`, `CheckPhone`
  (`existsByPhone`) and `RegisterPhone`, `FindPhone` or `FindSeveral` are a login or a consult.
  `Fail` may end a request at any step: what it has sent and stored stays. The remaining variables
  are history: the codes issued, the one last sent, and the phones whose `getCode` was *disturbed*
  (refused, failed halfway or met by another) or whose registration was *overlapped*.
* **Catalogue** has the rows of cars and the icons of brands: `Add`, `AddAll`, `ModifyCar`,
  `DeleteCar`, `UpperDownShelf`. A sheet is a car as it is sent, with a picture, none, or the
  property left out. An import looks for all models first (`Places`) and writes then.
* **Query** is pure: the chain of filters (`Predicate`, the recursion of
  `JpaDataFetcher.getPredicate` as a recursive function; `Selects`; `Extracted`, the condition on
  deleted rows) and the arithmetic of pages (`TotalPages`, `FirstRow` in an int whose greatest value
  is `MAX_VALUE`, `OnPage`).
* **Showroom** composes both: a client reads page after page (`NextPage`, one transaction each)
  until the number of pages the last answer gave, and `Restock` is any step of Catalogue in between.
  `seen` are the cars the client has read and `twice` those on more than one of its pages; `stayed`,
  `gained` and `lost` tell what happened to its list meanwhile.
* **Desk** is the staff side without the rule that requests run one at a time. All rows are in
  `row`, by id. A request reads everything as it was when it began, so to begin, decide and send
  messages is one step, which puts into `job[r]` the rows it read and the rows it will write;
  `Commit` writes them whole over whatever is there by then, `Rollback` drops them, and the messages
  are out either way. A message may also fail to be sent (`lost`), which is only logged. Rows that a
  request did not change are not written (Hibernate's dirty check). Two operations save what they
  have not read: `AddStore` the client's object and `ChangePassword` any copy of the account that a
  session may still hold, with its role items (`copies[a]` are the copies there ever were; a session
  that holds the row as it is only changes its password, which is `UpdateAdmin`). `moved`,
  `overtaken`, `failed` and `resaved` are history. Operations: `StoreAdministrator`,
  `SalesConsultant`, `DeleteAdmin`, `UpdateAdmin`, `ModifyStore`, `DeleteStore`, `AddStore`,
  `ChangePassword`, and of consults `AddForSales`, `AddForStore`, `Allocate`, `ChangeToStore`,
  `ChangeToSalesConsultant`, `ModifySales`, `UpdateConsult` (`finish`, `delete` and edits of other
  columns).
* **Bosid** is how a row gets its id: `BosidGenerator` and `BostypeUtils`. One call of the
  unsynchronized `HashMap` is one step. A call beside a put of another thread may overlook an entry,
  a scan may throw, and of two puts at a time one may undo the other; a put that has ended is seen
  by later calls, as the requests of a server pass through the locks of its connection pool. A lost
  entry makes `get` answer null and the id longer than its column, which the database refuses.
  `Encoded` cuts a uuid into characters as the code does.
* **MCAccounts, MCCarMall, MCTransactions, MCVerification, MCShowroom, MCDesk, MCBosid** give the
  constants small values and hold the bounds. `MCCarMall` also has `BranchSpec`: the shop started
  from a reachable state with one store's staff at work, so that TLC spends its states on consults.
* **AccountsProofs, IntegralProofs, CarMallProofs, TransactionsProofs, VerificationProofs,
  ShowroomProofs, DeskProofs, BosidProofs** hold the theorems.

Conventions. A request is one transaction (`@Transactional` on the services and on the GraphQL
executor). In Accounts, Integral and CarMall one request runs at a time, so an operation is one
action; in Catalogue, too. Transactions, Desk, Verification and Bosid say what overlapping changes.
An exception, thrown or by a null pointer, rolls the request back: the case is a guard. `findById`
finds deleted rows as well, and so do the actions. A push message (but in Desk), a name or a
password changes no modelled state.

Two spots where the code and a quick reading differ, and the model follows the code:

* `finish` catches the exception of a missing inviter, but that exception left a transactional
  method (`CustomerServiceImpl.findOne`) and marked the joined transaction for rollback, so the
  request fails at its commit. `PayInviter` is therefore enabled only for an inviter who is a
  customer.
* `modify` of a consult means to leave store and salesperson alone, but its filter names `storeId`
  and `salesConsultantId`, and the fields are called `store` and `salesConsultantAdmin`. `Modify`
  changes them.

## 3. Runs

| Run | Instance | Shows |
|---|---|---|
| `accounts` | 2 stores, the super administrator and 2 accounts, 3 names, any number of sessions, symmetry; about 695 000 states | `AccountsInv` is invariant (the strengthening that is proved inductive), `BoundAccountIsLive`, `LiveSessionIsCurrent`, and the action property `RevivedOnlyFromSession` |
| `carmall` | `BranchSpec`: 2 stores, 3 accounts in session, 2 customers, 1 consult, points 1, limit 2, greatest int 3, spending of 1 and -2, symmetry; about 110 000 states | consults: `ConsultInv`, `PaidWasAllocated`, `StatusFlow`, `FinishPaysInviter`; points: `PointsWithinLimit`, `RecordsExplainBalance`, `FallsAreRecorded`, and that CarMall implements Integral |
| `carmall_full` | `Spec` from the empty database: 1 store, 2 accounts, 1 customer, 1 consult, at most two sessions (`FewSessions`), no binding sent by a client (`NothingIsSent`); about 199 000 states | that CarMall implements Accounts |
| `transactions` | 2 requests, 2 customers, 1 consult, 1 salesperson, 1 phone, points 1, limit 2, greatest int 3, spending of 1 and -2, symmetry; about 229 000 states | `TransactionsInv` (proved inductive), `PointsWithinLimit`, `PointsWereGranted`, and `UndisturbedIsSequential` |
| `verification` | 2 requests, 3 codes, the text null, 1 phone; about 56 000 states | `VerificationInv` (inductive): the code last sent is the one that is valid or is about to be (`LatestCodeIsValid`), a phone has one customer, whom every request finds (`OneCustomerPerPhone`), each but for the named races; that every request ends (`RequestsEnd`) and a code sent becomes valid (`SentBecomesValid`); and that PhoneAccess is implemented |
| `showroom` | 3 cars, 2 models, 1 brand, 3 sheets, lists of 2, pages of 2, a greatest int of 3, 2 chains; about 154 000 states | `ShowroomInv` (inductive), a list sent again changes nothing (`ResentChangesNothing`), a model gets a second car only by a renaming (`SecondCarOnlyByRename`), a deleted car stays hidden (`DeletedAreHidden`), a client sees twice or misses a car only when another came or went (`SeenTwiceOnlyIfGained`, `MissedOnlyIfLost`) |
| `desk` | 1 store, 2 accounts, 1 consult, 2 requests, 1 mishap (a deleted account, a lost message or a rollback), symmetry; about 727 000 states | `DeskInv` (inductive), `BoundIsTheAdministrator`, `SalesWereTold`, `NoticesAreTrue`, `ClosedStaysClosed`: each unless the row was overtaken, moved, sent by a client or saved from an old session, or its request rolled back |
| `ids` | 3 requests, 2 classes, ids of 5 digits, 4 uuids, symmetry; about 13 500 states | `BosidInv` (inductive), `OneIdPerUuid`, and that making an id fails only beside another that puts a class (`FailsOnlyOverlapped`) |

The runs that end in a violation each state a sentence of the code and show a behaviour against it
(section 4).

**Bounds and why they suffice.** Two stores let a binding, an account and a session disagree about
the store; two accounts beside the super administrator let one be deleted, replaced in its store,
and revived next to its replacement; three names let a name be freed and taken again. In
`accounts_one_administrator` clients send no bindings (`NoBindingIsSent`): a second administrator is
then no client's doing. The points are 1 with a limit of 2 and a greatest int of 3: raises meet the
limit from below, hit it and exceed it, a negative amount of 2 takes a balance past the limit and
past the greatest int, and the next raise cuts it or overflows. In `carmall` one consult and two
customers let one customer invite the other, a transfer meet a finish, and a consult pay twice if
anything lets it. `MaxRecorded` (a state constraint) bounds the recorded sums, which otherwise grow
for ever; it lies beyond the limit, so that what is cut off repeats what is seen with greater sums.
In `transactions` two requests are what an overlap needs, and with two customers one can invite the
other and be paid while it spends; points of 1 and a limit of 2 let a third raise be cut, and three
recorded points leave room for two raises and a spending in every order. There a consult that an
administrator invited to is not followed further (`CustomersInvite`): `finish`, which alone looks at
the inviter, refuses it. The constants of `IntegralEnum` (200, 1000, 10000) are replaced by small
numbers; the theorems hold for all.

In `verification` two requests at a time are what an overlap needs, and what one ends is taken up by
the next; the three codes tell the two of two overlapping `getCode` requests from the one that was
valid before; phones share nothing but the threads. What a third request would see in between is
safe for any number by the theorems, and that a request ends does not wait for another. In
`showroom` three cars and pages of two give a full and an incomplete page and one car that moves
over the border between them; lists of two can name a model twice; the three sheets have a picture,
leave it out and send none. The greatest int is 3, the number of cars: the offset of the page after
the last would overflow, and `ShowroomInv` (`PagesAreInts`) says that no client that follows
`totalPages` asks for it. In `desk` two requests are what an overlap needs, and two accounts let one
be bound over the other. `FewMishaps` bounds the deleted accounts, the lost messages and the
rollbacks, and `StillFollowed` leaves a state alone in which a row was overtaken or replaced or a
consult moved, because the properties excuse that row for ever; the step into such a state is
checked. One deleted account is what it takes to revive one beside its successor. The one store and
the one consult of the instance are then excused together, which is why the theorems matter here;
they hold for any number. In `ids` three threads let a put undo a second one beside a third that
looks; a uuid of five digits has one three and the two last ones.

**Deadlock** is checked in all passing runs but `accounts` and `carmall_full`. There a shop may
really stop: every account deleted, every session ended and every name in use.

**Fairness** is assumed in Verification only, and only of requests that are under way
(`WF_vars(Continue(r))`): a thread is scheduled, and its calls to redis and to the database return
or time out. Nobody need ever ask for a code or log in, and a failure may come instead of any step.
That a request ends is therefore a statement about its own branches (`existsByPhone` and
`findByPhone` disagreeing, several customers with one phone) and not about the network. Elsewhere no
liveness is claimed: a request happens when a person makes it, and the code has no scheduler, retry
or queue that must progress.

**Refinement.** CarMall implements Accounts (run `carmall_full`) and Integral (run `carmall`), and
Verification implements PhoneAccess; each is a property of a run and a theorem.
`UndisturbedIsSequential` compares a transaction that nobody overtook with Integral.

## 4. Where the code differs from what it says

| Run | Sentence | What happens |
|---|---|---|
| `accounts_one_administrator` | `AdminServiceImpl:65` 门店账号已存在，不允许再创建 | an administrator is deleted, a new one bound; the old one's session changes its password and is saved back: two live administrators |
| `consult_final` | `ConsultServiceImpl:223` 已完结订单不能转单 | `allocate` does not ask; a finished consult without a salesperson is given out, finished and paid again |
| `transactions_spent` | `CustomerServiceImpl:79` 积分不足，扣除失败 | two requests both read the balance, both find it enough, and both record the deduction |
| `cars_reenabled` | `CarInfoServiceImpl:74` 覆盖后重新启用 | `addAll` clears the flag of what the client sent, but `BeanCopyUtil:31` ignores `disabled` when it is copied over the row: a deleted car that is sent again stays deleted |

Observed while reading and modelling. No run ends in these; where a property depends on one, it is
named.

* Points. `IntegralEnum:15` names a limit of 10000, but spending a negative amount raises a balance
  past it, and past the greatest int to a negative one: `consumerIntegral` checks the balance and
  not the sign. The properties about points hold for any amount; `PointsWithinLimit` excuses a
  customer whose records show a negative one, and `FallsAreRecorded` the balance above the limit,
  which the next raise cuts without a record. At the limit a record shows the points that were to be
  added (`IntegralRecord:33`, 本次积分增加或扣除), not those that were; `RecordsExplainBalance` says what the
  records do tell. `finish` adds 1000 points where its comment (`ConsultServiceImpl:249`) says 2000.
* Consults. The message of `ConsultServiceImpl:264` is meant for a consult that is finished without
  paying, but the transaction is rolled back and it stays unfinished. A customer whose salesperson
  was deleted can place no consult (`:100`), and the salesperson is told of each attempt before it
  fails (`:134`): `NoticesAreTrue` excuses it by `failed`. A store that the customer chose is the
  object that the client sent, without `storeAdminId`, so its administrator is not told
  (`AddForStore`). The status (`:142`) does not say whether a consult has a salesperson after a
  transfer.
* Stores. `add` saves what the client sends: with the id of a store that exists it opens a closed
  store, and it sets or clears a binding, which `modify` keeps from clients (`:75`).
  `BoundAccountIsLive` excuses a binding that was sent by `sent`, Desk a store by `resaved`.
  `getValidId` may return a closed store. `StoreServiceImpl.delete` deletes the staff (`:58`), but
  an administrator can be created for a closed store afterwards, and a salesperson who is created
  while the store is being closed stays. A revived account may share its user name with the one
  created after its deletion, after which neither can log in.
* Verification. A message that the SMS service refused still replaces a valid code by one that
  nobody was sent (`LatestCodeIsValid` excuses it by `disturbed`). A code is never used up. For a
  phone that has no code `verify` (`:57`) compares with the text "null", so PhoneAccess promises a
  guarded phone only from its first stored code on.
* Catalogue. A list that names a new model twice inserts it twice, after which that model can be
  imported no more.
* Queries. The comment on `QueryFilter.combinator` (`QueryFilter:42`) has a filter joined to the one
  before; `getPredicate` joins it to all that follow.
* Ids. Of two first rows of a class that are saved at a time, `predicateRepeated`
  (`BostypeUtils:58`) finds the class itself to be a repetition, and one request fails.

## 5. Proofs

All proofs hold for every value of the constants that satisfies the assumptions, which TLC evaluates
on the instances:

* `RootAssumption`, `NoneAssumption`, `IdAssumption` (of CarMall and of Desk), `RowAssumption`: ids
  of different kinds differ, and the names of nothing (`None`, `Invalid`) are no ids.
* `PointsAssumption`: what the program gives and the limit are naturals, and the limit and a gift
  together are an int. What customers spend is any int, of either sign.
* `CatalogueAssumption`, `SizeAssumption`, `ChainsAssumption`, `MaxValueAssumption`: cars are
  numbered in the order of a list, pages have at least one row, chains are sequences, there is a
  greatest int.
* `TableAssumption`: the cars are finitely many and can be counted by an int. The code counts rows
  by a `Long` but skips them by an int (`setFirstResult`), so beyond that a client could not reach
  the end of a list.
* `BosidAssumption`: no two classes have one annotation (the annotated classes of the program do
  not), and uuids are sequences of hexadecimal digits.

* **AccountsProofs.** `BoundAccountIsLive`, of the stores whose binding no client sent, is not
  inductive. A bound account could be overwritten by a stale session (so `BoundSessionIsCurrent`:
  sessions of a bound account are current), that needs that two live copies of an account agree
  (`LiveCopiesAgree`, because a revival makes a copy current) and that a new account has no session
  (`SessionOfRow`); a binding belongs to a store that exists (`BindingOfStore`), and a store whose
  binding was sent has one (`SentIsBound`). Together they are `AccountsInv`; `AccountsInvariant`
  proves it, with one step per operation. `BoundAccountTheorem`, `LiveSessionTheorem` and
  `RevivalTheorem` follow.
* **IntegralProofs.** `IntegralInv` is inductive for amounts of either sign: `RaisedBounds` and
  `SpentBounds` say what a raise and a deduction make of an int. A raise of any int, wrapped or not,
  stays at or below the limit, and wraps only from above it; a deduction wraps only if its amount is
  negative, and then downwards. So a balance never exceeds what the records grant, and stays in its
  limits while they show no negative amount. `FallsTheorem` is an action property from the same
  invariant.
* **CarMallProofs.** `StaffRefinement` and `PointsRefinement` prove that the shop implements the two
  models: every request maps to a step of each or to a stutter. `StaffTheorem`,
  `PointsTheoremOfTheShop`, `RecordsTheoremOfTheShop` and `FallsTheoremOfTheShop` carry their
  theorems over. `ConsultInvariant` proves `ConsultInv`; its part `UnplacedIsEmpty` is needed
  because a request acts on a consult's customer. The proof classifies a step by what it does to one
  consult (nothing, place it, give it to someone, finish it), in the lemma `ConsultChanges`;
  `StatusTheorem`, `PaidTheorem` and `BonusTheorem` follow from the classification.
* **TransactionsProofs.** Neither `PointsWithinLimit` nor `PointsWereGranted` is inductive when rows
  are saved back from old reads: `TransactionsInv` adds that what was read obeys the same bounds
  against the records of today (`ReadsAreOld`; it stays true because the sum of increases only
  grows), that absent rows are empty and that consults belong to customers. Every operation is shown
  to be a `Commit` (each row it leaves is the committed one or a good one), and `CommitPreserves`
  does the rest once for all of them. `OverlappingPoints` and `GrantedTheorem` follow, for amounts
  of either sign: a stale row may bring a balance back, but the records of negative amounts are
  never overwritten. `UndisturbedTheorem` proves that a request whose reads are still current when
  it commits makes a step of `Integral` or leaves the points alone: what is lost is lost by
  overtaking. With that, `AloneTheorem` proves that requests that come one at a time implement
  `Integral`, and `AloneSpentTheorem` that they never spend what was not granted (what the run
  `transactions_spent` refutes when they overlap).
* **VerificationProofs.** `VerificationInv` adds to its parts what they need of each other: where a
  request can stand (`JobsAreSound`), that a stored code was issued, and that customers do not go
  away. Each step touches one request and one phone; `OthersFollow`, `OthersOne` and the like say
  once what stays true of the rest. `AccessRefinement` maps every step to a step of PhoneAccess or
  to a stutter, and `AccessTheorem` carries over what every step of PhoneAccess keeps: a phone stays
  guarded, and nobody comes in by a guarded one but with a code that was issued for it.
  `AdvanceTheorem`, `NeverStuckTheorem` and `ArrivalTheorem` are the part of the two liveness
  properties that is not about fairness: a request under way always has a branch to take, each step
  of its own brings it nearer to its end, nobody takes it back, and a code that was sent waits until
  it is stored or its phone is disturbed. `AloneCustomerTheorem`: one request at a time, no phone
  has two customers.
* **ShowroomProofs.** Three arguments.
  *Imports:* `ImportedKeeps` says what an import may do to a row and is used by
  `CatalogueInvariant`, `DeletedTheorem` (no operation enables a deleted car, so that the run
  `cars_reenabled` is no accident of its instance) and `SecondCarTheorem`. `ResentTheorem` follows a
  list into the table and looks there again: each model of it then has exactly the car that its
  sheet went to (`OnceImported`), so the list has one place only, and there every row is already as
  its sheet would have it (`MergedOnce`, `ImportedAgain`).
  *Chains:* `ChainTheorem` solves the recursion of `getPredicate` for chains of any length: the row
  is selected if the first filter that decides says so. Such a reading satisfies the recursion
  (`ReadingRecursion`) and nothing else does (`OneReading`). `HiddenTheorem` follows, because a
  chain that begins with the condition on deleted rows is decided by it.
  *Pages:* `SeenTwiceOnlyIfGained` and `MissedOnlyIfLost` say nothing of a client that is under way.
  `ShowroomInv` adds where it stands: by the positions in the list of today, what it has seen lies
  before the next page unless the list gained a car (`SeenAreBehind`), what stayed and it has not
  seen lies on the pages to come, of which there is one, unless the list lost a car
  (`UnseenAreAhead`). A page read moves the border by its size (`NextPageKeeps`, with `CeilPages`
  for the last page and `FirstRowExact` for the offset in an int, which is exact as long as
  `PagesAreInts`); a change of the catalogue moves positions one way only if the list only grows or
  only shrinks (`RestockKeeps`, `BeforeBounds`). `SeenTwiceTheorem`, `MissedTheorem` and
  `ReadAsItIsTheorem` (a list that neither gains nor loses a car is read as it is, however its cars
  change) follow. Inductions over numbers are done by the least or the greatest counterexample:
  `LeastNumber` comes from the library's theorem that less-than on the naturals is well founded,
  `GreatestNumber` from it.
* **DeskProofs.** What must be strengthened is what a request is *about to* save: while it waits,
  others commit, and still its rows must be good or be marked as overtaken when it commits. Part
  `JobsAreSound` of `DeskInv` says so, and `CommitKeeps` (by way of `CommitAdministrator`,
  `CommitTold` and `CommitJobs`) uses it for all operations at once; each operation only shows that
  what it puts into its job is sound. `AdministratorTheorem`, `SalesToldTheorem`, `NoticesTheorem`
  and `ClosedTheorem` follow. A request of `add` or `changePassword` saves what it has not read, so
  nothing is asked of it but its types and that it is remembered (`Resaves`, `resaved`, `copies`);
  who deletes an account then deletes the items it has (`Deletes` in `AccountJob`), also those that
  a session gave back. `AloneBoundTheorem` shows where the other exceptions come from: with one
  request at a time what was read is what is committed (`NothingOvertaken`), so a store has another
  administrator than its bound one, or is opened again, only by `add` or `changePassword`.
* **BosidProofs.** `OverlapsAreSeen` makes `FailsOnlyOverlapped` inductive: who acts on an answer of
  the cache that is not true any more has been beside a put. `OneIdTheorem` rests on arithmetic,
  `PairGivesBack` and `LastPairGivesBack` (three digits, or two, can be told from their two
  characters), and on `EncodedPairs`, for any number of digits. `WarmTheorem`: once all classes are
  in the cache and no put is in progress, that stays so and nothing fails any more, so the failures
  are those of a program that has just started; `AloneSavesTheorem`: nor are there any with a single
  thread.

The `Alone` theorems assume in their own statements that there is at most one request at a time; the
modules assume no such thing.

Only model-checked: `RequestsEnd` and `SentBecomesValid`, since liveness is out of the prover's
reach. What is missing between them and the three theorems above is that a request with a branch to
take is `ENABLED` and that weak fairness then takes it. Every other property of the passing runs has
a theorem.

## 6. Mutants

Each property of a passing run has a definition that breaks it, written next to the definition it
replaces and marked as a mutant there: a forgotten `initAccount`, a deletion that does not disable,
a limit or a balance that is not looked at, a `finish` that keeps the payment when the status is
wrong, a code that is not overwritten, a model looked for among the cars on the shelf only, a filter
on deleted rows put last, a page that has one row too many, a mask one bit short, and so on.

## 7. What could come next

* Imports that overlap: both find no car of a model and both insert one. What the missing unique
  constraint leads to is shown on phones.
* `PrivilegeUtil` and `PrivilegeConstraintUtil.merge` as functions from a principal to a filter,
  with the theorem that a merged filter is at most as wide as each of its parts.
* Other operators and orders of a query; an order that is not unique changes what a client may miss.
* The financial schemes of a car, rows of their own that `modify` replaces.

## 8. Not modelled

* What a principal's privilege adds to a query (`PrivilegeUtil`, `PrivilegeConstraintUtil`), and so
  the merging of two filters (hazard at `PrivilegeConstraintUtil:90`).
* Of queries: joins, operators other than equality, orders other than by a unique column, the
  conversion of values, criteria queries (JPA and SQL). Clients are assumed to list cars in one
  fixed order.
* Of the catalogue: prices, files, weights and financial schemes, which decide nothing in the
  operations that are modelled; imports are one at a time; a new car is sent without an id, not
  disabled and not on the shelf. Advertisements and the picture of an icon are one flag per row.
* Of the desk: the status of a consult, its customer's row and the permissions, which only refuse a
  request and are in CarMall and Accounts. A store that a client sends to `add` names an account
  there is as its administrator, or none.
* Of sessions: the filters, the comparison of passwords, the idle time (a session may end at any
  moment).
* Of verification: the digits of a code, and the typing of a text that is neither a code nor "null",
  which is refused.
* Of ids: `Bosentry` rows with their parents, and the way back from an id to a class, which nothing
  calls.
* Validation: the rule strings in use are `phone` and `phone && name`; a mutation that is refused
  changes nothing.
* The GraphQL schema and type mapping: built once at startup by reflection; no state that changes.
* External services (SMS, push, file storage, maps, WeChat) but for the answers that the code tells
  apart; the calls change nothing of the program.
* GraphiQL (`src/main/resources/static/graphqlapi/graphiql.js`), by far the longest file: a bundle
  of third-party JavaScript that is served as it is.
