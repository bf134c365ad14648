---------------------------- MODULE Transactions ----------------------------
(***************************************************************************)
(* Requests on customers and consults that overlap.  A request runs in one *)
(* transaction: it reads rows, decides and computes on what it read, and   *)
(* at its commit saves every row it changed.  The database is MySQL at its *)
(* default isolation, so all of a request's reads see the database as it   *)
(* was when it began.  No entity has a version (BosEntity has it as a      *)
(* todo), so a row that was changed meanwhile is overwritten, and Hibernate *)
(* writes all columns of a row of which one has changed.                   *)
(*                                                                         *)
(* Begin takes the snapshot a request reads; each operation is its commit. *)
(* Stores, flags and who may call what are left out: a consult or customer *)
(* row also stands for the columns that are not named here.                *)
(***************************************************************************)
EXTENDS IntegralEnum

CONSTANTS
  Customer, Admin, Consult,   \* ids of the rows that may ever be inserted
  Phone,                      \* the phones customers register with
  Request,                    \* the threads that serve requests
  None,                       \* null, or a row that was never inserted
  NoPhone                     \* the phone of who registered through WeChat

ASSUME RowAssumption ==
  /\ None \notin Customer \cup Admin \cup Phone
  /\ NoPhone \notin Phone
  /\ None # NoPhone
  /\ Customer \cap Admin = {}

VARIABLES
  customer,  \* customer[c]: the committed row of customer c
  consult,   \* consult[k]: the committed row of consult k
  ledger,    \* ledger[c]: the records of c, as in Integral
  reads      \* reads[r]: what the transaction of r sees, and the phone that a
             \*   login, in a transaction before it, found nobody to have

rowVars == <<customer, consult, ledger>>
vars == <<customer, consult, ledger, reads>>

-----------------------------------------------------------------------------

CustomerRow == [phone    : Phone \cup {NoPhone, None},
                sales    : Admin \cup {None},
                integral : Int32]

ConsultRow == [customer  : Customer \cup {None},
               sales     : Admin \cup {None},
               status    : {"NEW", "ALLOCATE", "FINISH"},
               invitedId : Customer \cup Admin \cup {None}]

NoCustomer == [phone |-> None, sales |-> None, integral |-> 0]

NoConsult == [customer |-> None, sales |-> None, status |-> "NEW",
              invitedId |-> None]

\* The customers of a table.
Members(table) == {c \in Customer : table[c].phone # None}

member == Members(customer)
integral == [c \in Customer |-> customer[c].integral]

Pts == INSTANCE Integral

Reads == [open     : BOOLEAN,
          phone    : Phone \cup {None},
          customer : [Customer -> CustomerRow],
          consult  : [Consult -> ConsultRow]]

\* Between transactions.
Idle == [open |-> FALSE, phone |-> None,
         customer |-> [c \in Customer |-> NoCustomer],
         consult |-> [k \in Consult |-> NoConsult]]

\* What request r reads.
Customers(r) == reads[r].customer
Consults(r) == reads[r].consult

-----------------------------------------------------------------------------

\* Save row x: what was committed since it was read is lost, and a row that is as
\* it was read is not written.
Saved(table, read, x, row) ==
  [table EXCEPT ![x] = IF row = read[x] THEN @ ELSE row]

\* The same of a row of which a column that is not named here may change as well.
Written(table, new, read, x, row) ==
  \/ new = Saved(table, read, x, row)
  \/ new = [table EXCEPT ![x] = row]

\* Mutant of RaisedRow: modifyIntegral does not look at the limit.
UnlimitedRow(row, n) == [row EXCEPT !.integral = @ + n]

\* A customer's row with n points more.
RaisedRow(row, n) == [row EXCEPT !.integral = Pts!Raised(@, n)]

\* Mutant of Rewarded: the customer who receives the points is not saved.
RewardedNobody(r, i, n) == customer

\* The customers after i, if a customer, received n points in request r.
Rewarded(r, i, n) ==
  IF i \in Customer
    THEN Saved(customer, Customers(r), i, RaisedRow(Customers(r)[i], n))
    ELSE customer

\* Mutant of Records: only the first customer's record is saved.
NewcomerRecords(r, cs, n) ==
  [c \in Customer |->
     IF c \in cs /\ Customers(r)[c].phone = None
       THEN Pts!Increased(ledger[c], n, RaisedRow(Customers(r)[c], n).integral)
       ELSE ledger[c]]

\* The records after request r inserts one for each customer of cs.
Records(r, cs, n) ==
  [c \in Customer |->
     IF c \in cs
       THEN Pts!Increased(ledger[c], n, RaisedRow(Customers(r)[c], n).integral)
       ELSE ledger[c]]

\* The salesperson of a customer whom i invited.
SalesOf(i) == IF i \in Admin THEN i ELSE None

\* register with phone ph, invited by i: the customers it leaves.
Registered(r, c, ph, i) ==
  [Rewarded(r, i, REGISTER) EXCEPT
     ![c] = RaisedRow([phone |-> ph, sales |-> SalesOf(i), integral |-> 0], REGISTER)]

\* existsByPhone, on what the request reads.
PhoneTaken(r, ph) == \E c \in Customer : Customers(r)[c].phone = ph

Inviters(r) == Members(Customers(r)) \cup Admin \cup {None}

-----------------------------------------------------------------------------

\* existsByPhone of a login: a transaction of its own.
LoginChecks(r, ph) ==
  /\ reads[r] = Idle
  /\ \A c \in Customer : customer[c].phone # ph
  /\ reads' = [reads EXCEPT ![r].phone = ph]
  /\ UNCHANGED rowVars

\* The first read of a transaction fixes what all its reads see.
Begin(r) ==
  /\ ~reads[r].open
  /\ reads' = [reads EXCEPT ![r] = [@ EXCEPT !.open = TRUE, !.customer = customer,
                                             !.consult = consult]]
  /\ UNCHANGED rowVars

\* The transaction of r ends.
Ends(r) ==
  /\ reads[r].open
  /\ reads' = [reads EXCEPT ![r] = Idle]

\* It is the one transaction of a request of the API, not a login's.
Serves(r) == reads[r].phone = None /\ Ends(r)

\* An exception, a lock timeout or a deadlock of the database.
Rollback(r) == Ends(r) /\ UNCHANGED rowVars

\* register, by a login that found its phone free.
PhoneLogin(r, c, i) ==
  /\ reads[r].phone # None
  /\ Ends(r)
  /\ c \notin member
  /\ i \in Inviters(r)
  /\ customer' = Registered(r, c, reads[r].phone, i)
  /\ ledger' = Records(r, {c, i} \cap Customer, REGISTER)
  /\ UNCHANGED consult

\* register keeps only the phone, so every WeChat login finds nobody and registers.
WeChatLogin(r, c) ==
  /\ Serves(r)
  /\ c \notin member
  /\ customer' = Registered(r, c, NoPhone, None)
  /\ ledger' = Records(r, {c}, REGISTER)
  /\ UNCHANGED consult

\* The consult that add inserts, for customer c with salesperson a.
Place(k, c, a, i) ==
  /\ consult[k].customer = None
  /\ consult' = [consult EXCEPT
       ![k] = [customer |-> c, sales |-> a,
               status |-> IF a # None THEN "ALLOCATE" ELSE "NEW", invitedId |-> i]]

\* add, by a phone nobody has.
AddFirstConsult(r, k, c, ph, i) ==
  /\ Serves(r)
  /\ ~PhoneTaken(r, ph)
  /\ c \notin member
  /\ i \in Inviters(r)
  /\ customer' = Registered(r, c, ph, i)
  /\ ledger' = Records(r, {c, i} \cap Customer, REGISTER)
  /\ Place(k, c, SalesOf(i), i)

\* add, by the one customer with the phone: findByPhone fails if there are two.
\* The customer's salesperson and store are saved, too.
AddConsult(r, k, c, i) ==
  LET read == Customers(r)[c]
      a    == IF read.sales # None THEN read.sales ELSE SalesOf(i)
  IN  /\ Serves(r)
      /\ read.phone \in Phone
      /\ \A d \in Customer \ {c} : Customers(r)[d].phone # read.phone
      /\ i \in Inviters(r)
      /\ Written(customer, customer', Customers(r), c, [read EXCEPT !.sales = a])
      /\ Place(k, c, a, i)
      /\ UNCHANGED ledger

\* Mutant of ConsumerIntegral: the balance is not checked.
ConsumerUnchecked(r, c, n) ==
  LET left == ToInt32(Customers(r)[c].integral - n)
  IN  /\ Serves(r)
      /\ c \in Members(Customers(r))
      /\ customer' = Saved(customer, Customers(r), c,
                           [Customers(r)[c] EXCEPT !.integral = left])
      /\ ledger' = [ledger EXCEPT ![c] = Pts!Reduced(@, n, left)]
      /\ UNCHANGED consult

\* consumerIntegral: the balance that was read is checked and reduced.
ConsumerIntegral(r, c, n) ==
  LET left == ToInt32(Customers(r)[c].integral - n)
  IN  /\ Serves(r)
      /\ c \in Members(Customers(r))
      /\ Customers(r)[c].integral >= n
      /\ customer' = Saved(customer, Customers(r), c,
                           [Customers(r)[c] EXCEPT !.integral = left])
      /\ ledger' = [ledger EXCEPT ![c] = Pts!Reduced(@, n, left)]
      /\ UNCHANGED consult

-----------------------------------------------------------------------------

\* Save consult k and the salesperson of its customer.
SaveBoth(r, k, row, a) ==
  LET c == row.customer
  IN  /\ Serves(r)
      /\ row.customer # None
      /\ consult' = Saved(consult, Consults(r), k, row)
      /\ customer' = Saved(customer, Customers(r), c,
                           [Customers(r)[c] EXCEPT !.sales = a])
      /\ UNCHANGED ledger

\* allocate, of a consult that was read without a salesperson.
Allocate(r, k, a) ==
  LET row == Consults(r)[k]
  IN  /\ row.customer # None
      /\ row.sales = None
      /\ SaveBoth(r, k, [row EXCEPT !.sales = a, !.status = "ALLOCATE"],
                  IF Customers(r)[row.customer].sales = None
                    THEN a ELSE Customers(r)[row.customer].sales)

\* changeToSalesConsultant, of a consult that was not finished when read.
ChangeToSalesConsultant(r, k, a) ==
  /\ Consults(r)[k].status # "FINISH"
  /\ SaveBoth(r, k, [Consults(r)[k] EXCEPT !.sales = a], a)

\* changeToStore: both rows get the store and lose the salesperson.
ChangeToStore(r, k) ==
  LET row == Consults(r)[k]
      c   == row.customer
  IN  /\ Serves(r)
      /\ c # None
      /\ row.status # "FINISH"
      /\ Written(consult, consult', Consults(r), k, [row EXCEPT !.sales = None])
      /\ Written(customer, customer', Customers(r), c,
                 [Customers(r)[c] EXCEPT !.sales = None])
      /\ UNCHANGED ledger

\* finish, of a consult that was read allocated: the inviter that was read is paid.
Finish(r, k) ==
  LET row == Consults(r)[k]
      i   == row.invitedId
  IN  /\ Serves(r)
      /\ row.status = "ALLOCATE"
      /\ Customers(r)[row.customer].sales # None
      /\ i \in Members(Customers(r)) \cup {None}
      /\ consult' = [consult EXCEPT ![k] = [row EXCEPT !.status = "FINISH"]]
      /\ customer' = Rewarded(r, i, FINISH_CONSULT)
      /\ ledger' = Records(r, {i} \cap Customer, FINISH_CONSULT)

\* modify of a consult, whose filter misses the salesperson and the inviter; and
\* delete, which sets a flag.
Modify(r, k) ==
  LET row == Consults(r)[k]
  IN  /\ Serves(r)
      /\ row.customer # None
      /\ Customers(r)[row.customer].sales # None
      /\ \E a \in Admin \cup {row.sales}, i \in Inviters(r) \cup {row.invitedId} :
           Written(consult, consult', Consults(r), k,
                   [row EXCEPT !.sales = a, !.invitedId = i])
      /\ UNCHANGED <<customer, ledger>>

\* delete of a customer: a flag of the row changes.
DeleteCustomer(r, c) ==
  /\ Serves(r)
  /\ Customers(r)[c].sales # None
  /\ Written(customer, customer', Customers(r), c, Customers(r)[c])
  /\ UNCHANGED <<consult, ledger>>

\* delete of the store of the customers cs: each is unbound.
DeleteStore(r, cs) ==
  /\ Serves(r)
  /\ cs \subseteq Members(Customers(r))
  /\ customer' = [c \in Customer |-> IF c \in cs
                                       THEN [Customers(r)[c] EXCEPT !.sales = None]
                                       ELSE customer[c]]
  /\ UNCHANGED <<consult, ledger>>

-----------------------------------------------------------------------------

Init ==
  /\ customer = [c \in Customer |-> NoCustomer]
  /\ consult = [k \in Consult |-> NoConsult]
  /\ ledger = [c \in Customer |-> Pts!NoRecords]
  /\ reads = [r \in Request |-> Idle]

PointsNext(r) ==
  \/ \E c \in Customer, i \in Inviters(r) : PhoneLogin(r, c, i)
  \/ \E c \in Customer : WeChatLogin(r, c)
  \/ \E k \in Consult, c \in Customer, ph \in Phone, i \in Inviters(r) :
       AddFirstConsult(r, k, c, ph, i)
  \/ \E c \in Customer, n \in Amount : ConsumerIntegral(r, c, n)
  \/ \E k \in Consult : Finish(r, k)

RowsNext(r) ==
  \/ \E k \in Consult, c \in Customer, i \in Inviters(r) : AddConsult(r, k, c, i)
  \/ \E k \in Consult, a \in Admin : Allocate(r, k, a)
  \/ \E k \in Consult, a \in Admin : ChangeToSalesConsultant(r, k, a)
  \/ \E k \in Consult : ChangeToStore(r, k)
  \/ \E k \in Consult : Modify(r, k)
  \/ \E c \in Customer : DeleteCustomer(r, c)
  \/ \E cs \in SUBSET Customer : DeleteStore(r, cs)

Next == \E r \in Request :
  \/ \E ph \in Phone : LoginChecks(r, ph)
  \/ Begin(r)
  \/ Rollback(r)
  \/ PointsNext(r)
  \/ RowsNext(r)

Spec == Init /\ [][Next]_vars

-----------------------------------------------------------------------------

\* Every variable has its type.
TypeOK ==
  /\ customer \in [Customer -> CustomerRow]
  /\ consult \in [Consult -> ConsultRow]
  /\ ledger \in [Customer -> Pts!Records]
  /\ reads \in [Request -> Reads]

\* However requests overlap and overwrite each other's rows, no balance leaves
\* 0..UPPER_LIMIT: each is computed from a balance that once was one.  Only a
\* negative amount spent takes a balance out of it, and the records show that.
PointsWithinLimit ==
  \A c \in Customer : ledger[c].refund = 0 => integral[c] \in 0..UPPER_LIMIT

\* Nor does a customer own more points than the records ever granted: a lost
\* update can restore points that were spent, but never makes new ones.
PointsWereGranted ==
  \A c \in Customer : integral[c] <= ledger[c].credit + ledger[c].refund

\* What the two say of a balance.
Allowed(balance, records) ==
  /\ records.refund = 0 => balance \in 0..UPPER_LIMIT
  /\ balance <= records.credit + records.refund

\* What the requests have read is no worse than what is committed, and a customer
\* who was read is still one.
ReadsAreOld ==
  \A r \in Request, c \in Customer :
    /\ Allowed(Customers(r)[c].integral, ledger[c])
    /\ c \in Members(Customers(r)) => c \in member
    /\ c \notin Members(Customers(r)) => Customers(r)[c] = NoCustomer

\* A customer who was never inserted has no points and no salesperson.
AbsentIsEmpty ==
  \A c \in Customer : c \notin member => customer[c] = NoCustomer

\* A consult belongs to a customer, among what is committed and among what was read.
ConsultsHaveCustomers ==
  /\ \A k \in Consult : consult[k].customer \in member \cup {None}
  /\ \A r \in Request, k \in Consult :
       Consults(r)[k].customer \in Members(Customers(r)) \cup {None}

\* The strengthening of PointsWithinLimit and PointsWereGranted that every read
\* and every commit of overlapping requests preserves.
TransactionsInv ==
  /\ TypeOK
  /\ PointsWithinLimit
  /\ PointsWereGranted
  /\ ReadsAreOld
  /\ AbsentIsEmpty
  /\ ConsultsHaveCustomers

\* What request r read is what is committed: nobody overtook it.
UpToDate(r) == Customers(r) = customer /\ Consults(r) = consult

\* A request that nobody overtook does to points and records what the
\* sequential model says, or nothing: the whole-row saves of the code go wrong
\* only by overtaking.
UndisturbedIsSequential ==
  [][\A r \in Request :
       reads[r].open /\ ~reads'[r].open /\ UpToDate(r) =>
         Pts!Next \/ UNCHANGED Pts!integralVars]_vars

-----------------------------------------------------------------------------
(* What overlapping requests break. *)

\* "积分不足，扣除失败" (CustomerServiceImpl:79): nobody spends more points than
\* were granted (by a negative amount, too, a customer is granted points).
SpentWereGranted ==
  \A c \in Customer :
    ledger[c].refund = 0 => ledger[c].debit <= ledger[c].credit

=============================================================================
