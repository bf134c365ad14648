------------------------- MODULE TransactionsProofs -------------------------
(* Proofs about overlapping requests.                                       *)
EXTENDS Transactions, TLAPS

USE RowAssumption, PointsAssumption

Table == [Customer -> CustomerRow]

\* A row that may be committed for customer c, next to the records of ledger'.
GoodRow(c, row) ==
  /\ row \in CustomerRow
  /\ row.phone # None
  /\ Allowed(row.integral, ledger'[c])

\* What a commit does to the row of c: nothing, or it saves a good row.
GoodChange(c) == customer'[c] = customer[c] \/ GoodRow(c, customer'[c])

\* What one record may grant so that no int overflows below the limit.
Grants == {n \in Nat : UPPER_LIMIT + n <= MAX_INT}

\* The records only grow.
LedgerGrows ==
  /\ ledger' \in [Customer -> Pts!Records]
  /\ \A c \in Customer : /\ ledger[c].credit <= ledger'[c].credit
                         /\ ledger[c].refund <= ledger'[c].refund

\* Integral counts in the same ints.
LEMMA SameInts ==
  /\ Pts!Int32 = Int32
  /\ \A x \in Int : Pts!ToInt32(x) = ToInt32(x)
BY DEF Int32, Pts!Int32, ToInt32, Pts!ToInt32

\* The int that the sum of two ints comes out as.
LEMMA ToInt32Bounds ==
  ASSUME NEW x \in (-2 * (MAX_INT + 1)) .. (2 * MAX_INT + 1)
  PROVE  /\ ToInt32(x) \in Int32
         /\ x >= -MAX_INT - 1 => ToInt32(x) <= x
         /\ x \in Int32 => ToInt32(x) = x
BY DEF ToInt32, Int32

\* A raise keeps an int an int and a balance within the limit there.
LEMMA RaisedBounds ==
  ASSUME NEW balance \in Int32, NEW n \in Grants
  PROVE  /\ Pts!Raised(balance, n) \in Int32
         /\ Pts!Raised(balance, n) <= balance + n
         /\ balance \in 0..UPPER_LIMIT => Pts!Raised(balance, n) \in 0..UPPER_LIMIT
<1> DEFINE sum == ToInt32(balance + n)
<1>1. /\ balance \in Int /\ n \in Nat /\ UPPER_LIMIT + n <= MAX_INT
      /\ sum \in Int32 /\ sum <= balance + n
      /\ balance \in 0..UPPER_LIMIT => sum = balance + n
  BY ToInt32Bounds DEF Int32, Grants
<1>2. Pts!Raised(balance, n) = IF sum > UPPER_LIMIT THEN UPPER_LIMIT ELSE sum
  BY <1>1, SameInts DEF Pts!Raised
<1> HIDE DEF sum
<1>3. QED
  BY <1>1, <1>2 DEF Int32

\* What an amount up to the balance leaves of it.
LEMMA SpentBounds ==
  ASSUME NEW balance \in Int32, NEW n \in Int32, balance >= n
  PROVE  /\ ToInt32(balance - n) \in Int32
         /\ ToInt32(balance - n) <= balance - n
         /\ n >= 0 => ToInt32(balance - n) = balance - n
BY ToInt32Bounds DEF Int32

\* The fields of a customer's records after one more record.
LEMMA IncreasedFields ==
  ASSUME NEW records \in Pts!Records, NEW n \in Nat, NEW b \in Int32
  PROVE  /\ Pts!Increased(records, n, b).credit = records.credit + n
         /\ Pts!Increased(records, n, b).refund = records.refund
         /\ Pts!Increased(records, n, b) \in Pts!Records
BY SameInts DEF Pts!Increased, Pts!Records

LEMMA ReducedFields ==
  ASSUME NEW records \in Pts!Records, NEW n \in Int, NEW b \in Int32
  PROVE  /\ Pts!Reduced(records, n, b).credit = records.credit
         /\ Pts!Reduced(records, n, b).refund = records.refund + Pts!Positive(-n)
         /\ Pts!Reduced(records, n, b) \in Pts!Records
         /\ Pts!Positive(-n) \in Nat
         /\ Pts!Positive(-n) = IF n < 0 THEN -n ELSE 0
BY SameInts DEF Pts!Reduced, Pts!Records, Pts!Positive

\* What records allow, more records allow.
LEMMA AllowedStays ==
  ASSUME NEW b \in Int, NEW old \in Pts!Records, NEW new \in Pts!Records,
         old.credit <= new.credit, old.refund <= new.refund, Allowed(b, old)
  PROVE  Allowed(b, new)
BY DEF Allowed, Pts!Records

\* And what they allow, one record more allows to be raised.
LEMMA AllowedRaise ==
  ASSUME NEW b \in Int32, NEW n \in Grants,
         NEW old \in Pts!Records, NEW new \in Pts!Records,
         new.credit = old.credit + n, old.refund <= new.refund, Allowed(b, old)
  PROVE  Allowed(Pts!Raised(b, n), new)
<1>1. /\ old.credit \in Nat /\ old.refund \in Nat
      /\ new.credit \in Nat /\ new.refund \in Nat
      /\ n \in Nat /\ b \in Int
  BY DEF Pts!Records, Grants, Int32
<1>2. /\ Pts!Raised(b, n) \in Int
      /\ Pts!Raised(b, n) <= b + n
      /\ b \in 0..UPPER_LIMIT => Pts!Raised(b, n) \in 0..UPPER_LIMIT
  BY RaisedBounds DEF Int32
<1>3. QED
  BY <1>1, <1>2 DEF Allowed

\* Saving row x leaves every other row as it is committed.
LEMMA SavedRows ==
  ASSUME NEW table \in Table, NEW read, NEW x \in Customer, NEW row \in CustomerRow
  PROVE  /\ Saved(table, read, x, row) \in Table
         /\ \A c \in Customer \ {x} : Saved(table, read, x, row)[c] = table[c]
         /\ Saved(table, read, x, row)[x] \in {table[x], row}
BY DEF Saved, Table

\* Raising keeps a row's other columns.
LEMMA RaisedRowFields ==
  ASSUME NEW row \in CustomerRow, NEW n \in Grants
  PROVE  /\ RaisedRow(row, n) \in CustomerRow
         /\ RaisedRow(row, n).phone = row.phone
         /\ RaisedRow(row, n).sales = row.sales
         /\ RaisedRow(row, n).integral = Pts!Raised(row.integral, n)
<1> DEFINE up == Pts!Raised(row.integral, n)
<1>1. up \in Int32
  BY RaisedBounds DEF CustomerRow
<1>2. RaisedRow(row, n) = [row EXCEPT !.integral = up]
  BY DEF RaisedRow, CustomerRow
<1> HIDE DEF up
<1>3. /\ [row EXCEPT !.integral = up] \in CustomerRow
      /\ [row EXCEPT !.integral = up].phone = row.phone
      /\ [row EXCEPT !.integral = up].sales = row.sales
      /\ [row EXCEPT !.integral = up].integral = up
  BY <1>1 DEF CustomerRow
<1>4. QED
  BY <1>2, <1>3 DEF up

\* The amounts that the operations grant.
LEMMA Granting == REGISTER \in Grants /\ FINISH_CONSULT \in Grants
BY DEF Grants

\* Nor does writing it.
LEMMA WrittenRows ==
  ASSUME NEW table \in Table, NEW new, NEW read, NEW x \in Customer,
         NEW row \in CustomerRow, Written(table, new, read, x, row)
  PROVE  /\ new \in Table
         /\ \A c \in Customer \ {x} : new[c] = table[c]
         /\ new[x] \in {table[x], row}
<1>1. CASE new = Saved(table, read, x, row)
  BY <1>1, SavedRows
<1>2. CASE new = [table EXCEPT ![x] = row]
  BY <1>2 DEF Table
<1>3. QED
  BY <1>1, <1>2 DEF Written

\* The same of the consults.
LEMMA SavedConsults ==
  ASSUME NEW table \in [Consult -> ConsultRow], NEW read, NEW k \in Consult,
         NEW row \in ConsultRow
  PROVE  /\ Saved(table, read, k, row) \in [Consult -> ConsultRow]
         /\ \A j \in Consult : \/ Saved(table, read, k, row)[j] = table[j]
                               \/ j = k /\ Saved(table, read, k, row)[j] = row
BY DEF Saved

\* What the invariant says of the rows that request r has read.
LEMMA ReadRows ==
  ASSUME TransactionsInv, NEW r \in Request, NEW c \in Customer
  PROVE  /\ Customers(r) \in Table
         /\ Customers(r)[c] \in CustomerRow
         /\ Customers(r)[c].integral \in Int32
         /\ Allowed(Customers(r)[c].integral, ledger[c])
         /\ ledger[c] \in Pts!Records
<1>1. /\ Customers(r) \in Table
      /\ Customers(r)[c] \in CustomerRow
      /\ Allowed(Customers(r)[c].integral, ledger[c])
      /\ ledger[c] \in Pts!Records
  BY DEF TransactionsInv, TypeOK, ReadsAreOld, Customers, Reads, Table
<1>2. QED
  BY <1>1 DEF CustomerRow

\* Records inserted by request r.
LEMMA RecordsGrow ==
  ASSUME TransactionsInv, NEW r \in Request, NEW cs \in SUBSET Customer,
         NEW n \in Grants, ledger' = Records(r, cs, n)
  PROVE  /\ LedgerGrows
         /\ \A c \in cs : ledger'[c].credit = ledger[c].credit + n
<1> DEFINE rec(c) == Pts!Increased(ledger[c], n, RaisedRow(Customers(r)[c], n).integral)
<1>1. ASSUME NEW c \in Customer
      PROVE  /\ rec(c) \in Pts!Records
             /\ rec(c).credit = ledger[c].credit + n
             /\ ledger[c] \in Pts!Records
             /\ ledger[c].credit <= rec(c).credit
             /\ ledger[c].refund <= rec(c).refund
             /\ ledger[c].refund <= ledger[c].refund
             /\ ledger[c].credit <= ledger[c].credit
  <2>1. ledger[c] \in Pts!Records /\ n \in Nat
    BY DEF TransactionsInv, TypeOK, Grants
  <2>2. RaisedRow(Customers(r)[c], n).integral \in Int32
    BY ReadRows, RaisedRowFields DEF CustomerRow
  <2> DEFINE up == RaisedRow(Customers(r)[c], n).integral
  <2> HIDE DEF up
  <2>3. /\ Pts!Increased(ledger[c], n, up) \in Pts!Records
        /\ Pts!Increased(ledger[c], n, up).credit = ledger[c].credit + n
        /\ Pts!Increased(ledger[c], n, up).refund = ledger[c].refund
    BY <2>1, <2>2, IncreasedFields DEF up
  <2>4. ledger[c].credit \in Nat /\ ledger[c].refund \in Nat
    BY <2>1 DEF Pts!Records
  <2>5. QED
    BY <2>1, <2>3, <2>4 DEF up
<1>2. ledger' = [c \in Customer |-> IF c \in cs THEN rec(c) ELSE ledger[c]]
  BY DEF Records
<1>3. \A c \in Customer : ledger'[c] = IF c \in cs THEN rec(c) ELSE ledger[c]
  BY <1>2
<1> HIDE DEF rec
<1>4. QED
  BY <1>1, <1>2, <1>3 DEF LedgerGrows

\* The rows after a customer i, if it is one, was rewarded with a record.
LEMMA RewardedRows ==
  ASSUME TransactionsInv, NEW r \in Request, NEW i \in Inviters(r),
         NEW n \in Grants, LedgerGrows,
         i \in Customer => ledger'[i].credit = ledger[i].credit + n
  PROVE  /\ Rewarded(r, i, n) \in Table
         /\ \A c \in Customer : \/ Rewarded(r, i, n)[c] = customer[c]
                                \/ GoodRow(c, Rewarded(r, i, n)[c])
<1>1. customer \in Table
  BY DEF TransactionsInv, TypeOK, Table
<1>2. CASE i \notin Customer
  BY <1>1, <1>2 DEF Rewarded
<1>3. CASE i \in Customer
  <2> DEFINE row == RaisedRow(Customers(r)[i], n)
  <2>1. Customers(r)[i].phone # None
    BY <1>3 DEF Inviters, Members
  <2>2. row \in CustomerRow /\ row.phone # None
        /\ row.integral = Pts!Raised(Customers(r)[i].integral, n)
    BY <1>3, <2>1, ReadRows, RaisedRowFields
  <2>3. /\ Customers(r)[i].integral \in Int32
        /\ Allowed(Customers(r)[i].integral, ledger[i])
        /\ ledger[i] \in Pts!Records /\ ledger'[i] \in Pts!Records
        /\ ledger[i].refund <= ledger'[i].refund
    BY <1>3, ReadRows DEF LedgerGrows
  <2>4. Allowed(row.integral, ledger'[i])
    BY <1>3, <2>2, <2>3, AllowedRaise
  <2>5. GoodRow(i, row)
    BY <2>2, <2>4 DEF GoodRow
  <2> HIDE DEF row
  <2>6. Rewarded(r, i, n) = Saved(customer, Customers(r), i, row)
    BY <1>3 DEF Rewarded, row
  <2>7. QED
    BY <1>1, <1>3, <2>2, <2>5, <2>6, SavedRows
<1>4. QED
  BY <1>2, <1>3

-----------------------------------------------------------------------------

\* What every commit of request r does.
Commit(r) ==
  /\ customer' \in Table
  /\ \A c \in Customer : GoodChange(c)
  /\ LedgerGrows
  /\ consult' \in [Consult -> ConsultRow]
  /\ \A k \in Consult : consult'[k].customer \in member' \cup {None}
  /\ reads' = [reads EXCEPT ![r] = Idle]

\* Customers stay.
LEMMA MembersStay ==
  ASSUME \A c \in Customer : GoodChange(c)
  PROVE  member \subseteq member'
BY DEF GoodChange, GoodRow, member, Members

\* Without a record the sums stay.
LEMMA LedgerStays ==
  ASSUME TransactionsInv, UNCHANGED ledger
  PROVE  LedgerGrows
<1>1. ASSUME NEW c \in Customer
      PROVE  /\ ledger[c].credit <= ledger[c].credit
             /\ ledger[c].refund <= ledger[c].refund
  BY DEF TransactionsInv, TypeOK, Pts!Records
<1>2. QED
  BY <1>1 DEF LedgerGrows, TransactionsInv, TypeOK

\* The consults stay those of customers.
LEMMA ConsultsStay ==
  ASSUME TransactionsInv, \A c \in Customer : GoodChange(c), UNCHANGED consult
  PROVE  /\ consult' \in [Consult -> ConsultRow]
         /\ \A k \in Consult : consult'[k].customer \in member' \cup {None}
BY MembersStay DEF TransactionsInv, TypeOK, ConsultsHaveCustomers

\* So they do when the consult k is saved with a customer.
LEMMA ConsultSaved ==
  ASSUME TransactionsInv, \A c \in Customer : GoodChange(c),
         NEW k \in Consult, NEW row \in ConsultRow, row.customer \in member',
         consult' \in [Consult -> ConsultRow],
         \A j \in Consult : consult'[j] = consult[j] \/ (j = k /\ consult'[j] = row)
  PROVE  \A j \in Consult : consult'[j].customer \in member' \cup {None}
BY MembersStay DEF TransactionsInv, ConsultsHaveCustomers

\* A consult that request r has read, if it was placed.
LEMMA ReadConsult ==
  ASSUME TransactionsInv, NEW r \in Request, NEW k \in Consult
  PROVE  /\ Consults(r)[k] \in ConsultRow
         /\ Consults(r)[k].customer # None =>
              /\ Consults(r)[k].customer \in Customer
              /\ Consults(r)[k].customer \in Members(Customers(r))
              /\ Consults(r)[k].customer \in member
BY DEF TransactionsInv, TypeOK, Reads, Consults, ConsultsHaveCustomers, ReadsAreOld,
       Members, member

\* A row of request r may be saved with any salesperson.
LEMMA ReadRowIsGood ==
  ASSUME TransactionsInv, NEW r \in Request, NEW c \in Members(Customers(r)),
         NEW a \in Admin \cup {None}, LedgerGrows
  PROVE  GoodRow(c, [Customers(r)[c] EXCEPT !.sales = a])
<1>1. c \in Customer /\ Customers(r)[c].phone # None
  BY DEF Members
<1>2. Allowed(Customers(r)[c].integral, ledger'[c])
  BY <1>1, ReadRows, AllowedStays DEF LedgerGrows, Int32
<1>3. /\ Customers(r)[c] \in CustomerRow
      /\ [Customers(r)[c] EXCEPT !.sales = a] \in CustomerRow
      /\ [Customers(r)[c] EXCEPT !.sales = a].phone = Customers(r)[c].phone
      /\ [Customers(r)[c] EXCEPT !.sales = a].integral = Customers(r)[c].integral
  BY <1>1, ReadRows DEF CustomerRow
<1>4. QED
  BY <1>1, <1>2, <1>3 DEF GoodRow

\* Registering saves good rows: the newcomer's and the inviter's.
LEMMA RegisteredRows ==
  ASSUME TransactionsInv, NEW r \in Request, NEW c \in Customer \ member,
         NEW ph \in Phone \cup {NoPhone}, NEW i \in Inviters(r),
         customer' = Registered(r, c, ph, i),
         ledger' = Records(r, {c, i} \cap Customer, REGISTER)
  PROVE  /\ customer' \in Table
         /\ \A d \in Customer : GoodChange(d)
         /\ LedgerGrows
         /\ c \in member'
<1> DEFINE row == RaisedRow([phone |-> ph, sales |-> SalesOf(i), integral |-> 0], REGISTER)
<1>1. LedgerGrows /\ \A d \in {c, i} \cap Customer :
                        ledger'[d].credit = ledger[d].credit + REGISTER
  <2> DEFINE cs == {c, i} \cap Customer
  <2>1. cs \in SUBSET Customer /\ ledger' = Records(r, cs, REGISTER)
    OBVIOUS
  <2> HIDE DEF cs
  <2>2. LedgerGrows /\ \A d \in cs : ledger'[d].credit = ledger[d].credit + REGISTER
    BY <2>1, RecordsGrow, Granting
  <2>3. QED
    BY <2>2 DEF cs
<1>2. /\ Rewarded(r, i, REGISTER) \in Table
      /\ \A d \in Customer : \/ Rewarded(r, i, REGISTER)[d] = customer[d]
                             \/ GoodRow(d, Rewarded(r, i, REGISTER)[d])
  BY <1>1, RewardedRows, Granting
<1>3. row \in CustomerRow /\ row.phone = ph
      /\ row.integral = Pts!Raised(0, REGISTER)
  <2> DEFINE new == [phone |-> ph, sales |-> SalesOf(i), integral |-> 0]
  <2>1. new \in CustomerRow /\ new.phone = ph /\ new.integral = 0
    BY DEF SalesOf, CustomerRow, Int32
  <2> HIDE DEF new
  <2>2. /\ RaisedRow(new, REGISTER) \in CustomerRow
        /\ RaisedRow(new, REGISTER).phone = ph
        /\ RaisedRow(new, REGISTER).integral = Pts!Raised(0, REGISTER)
    BY <2>1, RaisedRowFields, Granting
  <2>3. QED
    BY <2>2 DEF new
<1>4. 0 \in Int32 /\ ledger[c] \in Pts!Records /\ Allowed(0, ledger[c])
  BY DEF TransactionsInv, TypeOK, Allowed, Pts!Records, Int32
<1> HIDE DEF row
<1>5. GoodRow(c, row)
  <2>1. /\ ledger'[c].credit = ledger[c].credit + REGISTER
        /\ ledger'[c] \in Pts!Records /\ ledger[c].refund <= ledger'[c].refund
    BY <1>1 DEF LedgerGrows
  <2>2. Allowed(row.integral, ledger'[c])
    BY <2>1, <1>3, <1>4, AllowedRaise, Granting
  <2>3. QED
    BY <2>2, <1>3 DEF GoodRow
<1>6. customer' = [Rewarded(r, i, REGISTER) EXCEPT ![c] = row]
  BY DEF Registered, row
<1>7. customer' \in Table /\ customer'[c] = row
      /\ \A d \in Customer \ {c} : customer'[d] = Rewarded(r, i, REGISTER)[d]
  BY <1>2, <1>3, <1>6 DEF Table
<1>8. \A d \in Customer : GoodChange(d)
  BY <1>2, <1>5, <1>7 DEF GoodChange
<1>9. c \in member'
  BY <1>5, <1>7 DEF member, Members, GoodRow
<1>10. QED
  BY <1>1, <1>7, <1>8, <1>9

\* Saving one good row of a customer, or none, is a good change.
LEMMA OneRowSaved ==
  ASSUME TransactionsInv, NEW c \in Customer, NEW row \in CustomerRow,
         GoodRow(c, row), customer' \in Table,
         \A d \in Customer \ {c} : customer'[d] = customer[d],
         customer'[c] \in {customer[c], row}
  PROVE  \A d \in Customer : GoodChange(d)
BY DEF GoodChange

-----------------------------------------------------------------------------

(* One lemma per operation: its commit is a Commit. *)

\* register by a login, with the phone that was free.
LEMMA PhoneLoginCommits ==
  ASSUME TransactionsInv, NEW r \in Request, NEW c \in Customer,
         NEW i \in Inviters(r), PhoneLogin(r, c, i)
  PROVE  Commit(r)
<1>1. reads[r].phone \in Phone
  BY DEF PhoneLogin, TransactionsInv, TypeOK, Reads
<1>2. /\ customer' \in Table
      /\ \A d \in Customer : GoodChange(d)
      /\ LedgerGrows
  BY <1>1, RegisteredRows DEF PhoneLogin
<1>3. UNCHANGED consult /\ reads' = [reads EXCEPT ![r] = Idle]
  BY DEF PhoneLogin, Ends
<1>4. QED
  BY <1>2, <1>3, ConsultsStay DEF Commit

\* register by WeChat.
LEMMA WeChatLoginCommits ==
  ASSUME TransactionsInv, NEW r \in Request, NEW c \in Customer, WeChatLogin(r, c)
  PROVE  Commit(r)
<1>1. None \in Inviters(r) /\ {c, None} \cap Customer = {c}
  BY DEF Inviters
<1>2. /\ customer' \in Table
      /\ \A d \in Customer : GoodChange(d)
      /\ LedgerGrows
  BY <1>1, RegisteredRows DEF WeChatLogin
<1>3. UNCHANGED consult /\ reads' = [reads EXCEPT ![r] = Idle]
  BY DEF WeChatLogin, Serves, Ends
<1>4. QED
  BY <1>2, <1>3, ConsultsStay DEF Commit

\* The consult that add inserts has a customer.
LEMMA PlaceSaves ==
  ASSUME TransactionsInv, \A c \in Customer : GoodChange(c),
         NEW r \in Request, NEW k \in Consult, NEW c \in Customer, c \in member',
         NEW a \in Admin \cup {None}, NEW i \in Inviters(r), Place(k, c, a, i)
  PROVE  /\ consult' \in [Consult -> ConsultRow]
         /\ \A j \in Consult : consult'[j].customer \in member' \cup {None}
<1> DEFINE row == [customer |-> c, sales |-> a,
                   status |-> IF a # None THEN "ALLOCATE" ELSE "NEW", invitedId |-> i]
<1>1. row \in ConsultRow /\ row.customer = c
  BY DEF ConsultRow, Inviters, Members
<1>2. consult' = [consult EXCEPT ![k] = row]
  BY DEF Place
<1> HIDE DEF row
<1>3. /\ consult' \in [Consult -> ConsultRow]
      /\ \A j \in Consult : consult'[j] = consult[j] \/ (j = k /\ consult'[j] = row)
  <2>1. consult \in [Consult -> ConsultRow]
    BY DEF TransactionsInv, TypeOK
  <2>2. QED
    BY <1>1, <1>2, <2>1
<1>4. QED
  BY <1>1, <1>3, ConsultSaved

\* add, which registers the customer.
LEMMA AddFirstConsultCommits ==
  ASSUME TransactionsInv, NEW r \in Request, NEW k \in Consult, NEW c \in Customer,
         NEW ph \in Phone, NEW i \in Inviters(r), AddFirstConsult(r, k, c, ph, i)
  PROVE  Commit(r)
<1>1. /\ customer' \in Table
      /\ \A d \in Customer : GoodChange(d)
      /\ LedgerGrows
      /\ c \in member'
  BY RegisteredRows DEF AddFirstConsult
<1>2. Place(k, c, SalesOf(i), i) /\ SalesOf(i) \in Admin \cup {None}
      /\ reads' = [reads EXCEPT ![r] = Idle]
  BY DEF AddFirstConsult, SalesOf, Serves, Ends
<1>3. QED
  BY <1>1, <1>2, PlaceSaves DEF Commit

\* add, of a customer: both rows are saved.
LEMMA AddConsultCommits ==
  ASSUME TransactionsInv, NEW r \in Request, NEW k \in Consult, NEW c \in Customer,
         NEW i \in Inviters(r), AddConsult(r, k, c, i)
  PROVE  Commit(r)
<1> DEFINE read == Customers(r)[c]
           a == IF read.sales # None THEN read.sales ELSE SalesOf(i)
           row == [read EXCEPT !.sales = a]
<1>1. LedgerGrows
  BY LedgerStays DEF AddConsult
<1>2. c \in Members(Customers(r)) /\ a \in Admin \cup {None} /\ read \in CustomerRow
  BY ReadRows DEF AddConsult, Members, CustomerRow, SalesOf
<1>3. Place(k, c, a, i) /\ reads' = [reads EXCEPT ![r] = Idle]
      /\ Written(customer, customer', Customers(r), c, row)
  BY DEF AddConsult, Serves, Ends
<1> HIDE DEF a
<1>4. GoodRow(c, row)
  BY <1>1, <1>2, ReadRowIsGood
<1> HIDE DEF row, read
<1>5. row \in CustomerRow
  BY <1>4 DEF GoodRow
<1>6. customer \in Table
  BY DEF TransactionsInv, TypeOK, Table
<1>7. /\ customer' \in Table
      /\ \A d \in Customer \ {c} : customer'[d] = customer[d]
      /\ customer'[c] \in {customer[c], row}
  BY <1>3, <1>5, <1>6, WrittenRows
<1>8. \A d \in Customer : GoodChange(d)
  BY <1>4, <1>5, <1>7, OneRowSaved
<1>9. c \in member'
  BY <1>2, <1>8, MembersStay DEF TransactionsInv, ReadsAreOld, Members
<1>10. /\ consult' \in [Consult -> ConsultRow]
       /\ \A j \in Consult : consult'[j].customer \in member' \cup {None}
  BY <1>2, <1>3, <1>8, <1>9, PlaceSaves
<1>11. QED
  BY <1>1, <1>3, <1>7, <1>8, <1>10 DEF Commit

\* consumerIntegral: the balance that was read covers the amount.
LEMMA ConsumerIntegralCommits ==
  ASSUME TransactionsInv, NEW r \in Request, NEW c \in Customer, NEW n \in Amount,
         ConsumerIntegral(r, c, n)
  PROVE  Commit(r)
<1> DEFINE balance == Customers(r)[c].integral
           left == ToInt32(balance - n)
           row == [Customers(r)[c] EXCEPT !.integral = left]
           rec == Pts!Reduced(ledger[c], n, left)
<1>1. n \in Int32 /\ balance \in Int32 /\ balance >= n
      /\ Allowed(balance, ledger[c])
      /\ ledger[c] \in Pts!Records
      /\ Customers(r)[c] \in CustomerRow
  BY ReadRows DEF ConsumerIntegral
<1>2. left \in Int32 /\ left <= balance - n /\ (n >= 0 => left = balance - n)
  BY <1>1, SpentBounds
<1>3. /\ customer' = Saved(customer, Customers(r), c, row)
      /\ ledger' = [ledger EXCEPT ![c] = rec]
      /\ UNCHANGED consult
      /\ reads' = [reads EXCEPT ![r] = Idle]
      /\ Customers(r)[c].phone # None
  BY DEF ConsumerIntegral, Serves, Ends, Members
<1> HIDE DEF balance, left
<1>4. /\ row \in CustomerRow
      /\ row.integral = left
      /\ row.phone = Customers(r)[c].phone
  BY <1>1, <1>2 DEF CustomerRow
<1>5. /\ rec \in Pts!Records
      /\ rec.credit = ledger[c].credit
      /\ rec.refund = ledger[c].refund + (IF n < 0 THEN -n ELSE 0)
  BY <1>1, <1>2, ReducedFields DEF Int32
<1>6. /\ ledger[c].credit \in Nat /\ ledger[c].refund \in Nat
      /\ n \in Int /\ balance \in Int /\ left \in Int
  BY <1>1, <1>2 DEF Int32, Pts!Records
<1> HIDE DEF row, rec
<1>7. Allowed(left, rec)
  BY <1>1, <1>2, <1>5, <1>6 DEF Allowed
<1>8. LedgerGrows /\ ledger'[c] = rec
  <2>1. ledger \in [Customer -> Pts!Records]
    BY DEF TransactionsInv, TypeOK
  <2>2. /\ ledger' \in [Customer -> Pts!Records]
        /\ ledger'[c] = rec
        /\ \A d \in Customer \ {c} : ledger'[d] = ledger[d]
    BY <1>3, <1>5, <2>1
  <2>3. ASSUME NEW d \in Customer
        PROVE  /\ ledger[d].credit <= ledger'[d].credit
               /\ ledger[d].refund <= ledger'[d].refund
    <3>1. ledger[d].credit \in Nat /\ ledger[d].refund \in Nat
      BY <2>1 DEF Pts!Records
    <3>2. QED
      BY <1>5, <1>6, <2>2, <3>1
  <2>4. QED
    BY <2>2, <2>3 DEF LedgerGrows
<1>9. GoodRow(c, row)
  BY <1>3, <1>4, <1>7, <1>8 DEF GoodRow
<1>10. /\ customer' \in Table
       /\ \A d \in Customer \ {c} : customer'[d] = customer[d]
       /\ customer'[c] \in {customer[c], row}
  <2>1. customer \in Table
    BY DEF TransactionsInv, TypeOK, Table
  <2>2. QED
    BY <1>3, <1>4, <2>1, SavedRows
<1>11. \A d \in Customer : GoodChange(d)
  BY <1>4, <1>9, <1>10, OneRowSaved
<1>12. QED
  BY <1>3, <1>8, <1>10, <1>11, ConsultsStay DEF Commit

\* Saving a consult and the salesperson of its customer.
LEMMA SaveBothCommits ==
  ASSUME TransactionsInv, NEW r \in Request, NEW k \in Consult,
         NEW row \in ConsultRow, NEW a \in Admin \cup {None},
         row.customer = Consults(r)[k].customer, SaveBoth(r, k, row, a)
  PROVE  Commit(r)
<1> DEFINE c == row.customer
           new == [Customers(r)[c] EXCEPT !.sales = a]
<1>1. /\ c \in Customer
      /\ c \in Members(Customers(r))
      /\ c \in member
  BY ReadConsult DEF SaveBoth
<1>2. LedgerGrows
  BY LedgerStays DEF SaveBoth
<1>3. /\ consult' = Saved(consult, Consults(r), k, row)
      /\ customer' = Saved(customer, Customers(r), c, new)
      /\ reads' = [reads EXCEPT ![r] = Idle]
  BY DEF SaveBoth, Serves, Ends
<1>4. GoodRow(c, new)
  BY <1>1, <1>2, ReadRowIsGood
<1> HIDE DEF new
<1>5. new \in CustomerRow
  BY <1>4 DEF GoodRow
<1>6. /\ customer' \in Table
      /\ \A d \in Customer \ {c} : customer'[d] = customer[d]
      /\ customer'[c] \in {customer[c], new}
  <2>1. customer \in Table
    BY DEF TransactionsInv, TypeOK, Table
  <2> HIDE DEF c
  <2>2. QED
    BY <1>1, <1>3, <1>5, <2>1, SavedRows
<1>7. \A d \in Customer : GoodChange(d)
  BY <1>1, <1>4, <1>5, <1>6, OneRowSaved
<1>8. c \in member'
  BY <1>1, <1>7, MembersStay
<1>9. /\ consult' \in [Consult -> ConsultRow]
      /\ \A j \in Consult : consult'[j] = consult[j] \/ (j = k /\ consult'[j] = row)
  <2>1. consult \in [Consult -> ConsultRow]
    BY DEF TransactionsInv, TypeOK
  <2>2. QED
    BY <1>3, <2>1, SavedConsults
<1>10. \A j \in Consult : consult'[j].customer \in member' \cup {None}
  BY <1>7, <1>8, <1>9, ConsultSaved
<1>11. QED
  BY <1>2, <1>3, <1>6, <1>7, <1>9, <1>10 DEF Commit

\* allocate, which saves both rows.
LEMMA AllocateCommits ==
  ASSUME TransactionsInv, NEW r \in Request, NEW k \in Consult, NEW a \in Admin,
         Allocate(r, k, a)
  PROVE  Commit(r)
<1> DEFINE read == Consults(r)[k]
           row == [read EXCEPT !.sales = a, !.status = "ALLOCATE"]
           b == IF Customers(r)[read.customer].sales = None
                  THEN a ELSE Customers(r)[read.customer].sales
<1>1. SaveBoth(r, k, row, b) /\ read.customer # None
  BY DEF Allocate
<1>2. row \in ConsultRow /\ row.customer = read.customer
  BY ReadConsult DEF ConsultRow
<1>3. Customers(r)[read.customer] \in CustomerRow
  BY <1>1, ReadConsult, ReadRows
<1>4. b \in Admin \cup {None}
  BY <1>3 DEF CustomerRow
<1> HIDE DEF row, b
<1>5. QED
  BY <1>1, <1>2, <1>4, SaveBothCommits

\* changeToSalesConsultant, which saves both rows.
LEMMA ChangeToSalesConsultantCommits ==
  ASSUME TransactionsInv, NEW r \in Request, NEW k \in Consult, NEW a \in Admin,
         ChangeToSalesConsultant(r, k, a)
  PROVE  Commit(r)
<1> DEFINE row == [Consults(r)[k] EXCEPT !.sales = a]
<1>1. SaveBoth(r, k, row, a)
  BY DEF ChangeToSalesConsultant
<1>2. row \in ConsultRow /\ row.customer = Consults(r)[k].customer
  BY ReadConsult DEF ConsultRow
<1> HIDE DEF row
<1>3. QED
  BY <1>1, <1>2, SaveBothCommits

\* A consult that was read is saved, and customers change by good rows.
LEMMA ConsultRewritten ==
  ASSUME TransactionsInv, \A c \in Customer : GoodChange(c),
         NEW r \in Request, NEW k \in Consult, NEW row \in ConsultRow,
         row.customer = Consults(r)[k].customer,
         Written(consult, consult', Consults(r), k, row)
  PROVE  /\ consult' \in [Consult -> ConsultRow]
         /\ \A j \in Consult : consult'[j].customer \in member' \cup {None}
<1>1. consult \in [Consult -> ConsultRow]
  BY DEF TransactionsInv, TypeOK
<1>2. /\ consult' \in [Consult -> ConsultRow]
      /\ \A j \in Consult : consult'[j] = consult[j] \/ (j = k /\ consult'[j] = row)
  <2>1. CASE consult' = Saved(consult, Consults(r), k, row)
    BY <1>1, <2>1, SavedConsults
  <2>2. CASE consult' = [consult EXCEPT ![k] = row]
    BY <1>1, <2>2
  <2>3. QED
    BY <2>1, <2>2 DEF Written
<1>3. row.customer \in member' \cup {None}
  BY ReadConsult, MembersStay
<1>4. CASE row.customer \in member'
  BY <1>2, <1>4, ConsultSaved
<1>5. CASE row.customer = None
  BY <1>2, <1>5, MembersStay DEF TransactionsInv, ConsultsHaveCustomers
<1>6. QED
  BY <1>2, <1>3, <1>4, <1>5

\* changeToStore: both rows lose the salesperson.
LEMMA ChangeToStoreCommits ==
  ASSUME TransactionsInv, NEW r \in Request, NEW k \in Consult, ChangeToStore(r, k)
  PROVE  Commit(r)
<1> DEFINE row == [Consults(r)[k] EXCEPT !.sales = None]
           c == Consults(r)[k].customer
           new == [Customers(r)[c] EXCEPT !.sales = None]
<1>1. /\ c \in Customer
      /\ c \in Members(Customers(r))
      /\ c \in member
  BY ReadConsult DEF ChangeToStore
<1>2. row \in ConsultRow /\ row.customer = c
  BY ReadConsult DEF ConsultRow
<1>3. /\ Written(consult, consult', Consults(r), k, row)
      /\ Written(customer, customer', Customers(r), c, new)
      /\ reads' = [reads EXCEPT ![r] = Idle]
  BY DEF ChangeToStore, Serves, Ends
<1>4. LedgerGrows
  BY LedgerStays DEF ChangeToStore
<1>5. GoodRow(c, new)
  BY <1>1, <1>4, ReadRowIsGood
<1> HIDE DEF c, row, new
<1>6. new \in CustomerRow
  BY <1>5 DEF GoodRow
<1>7. /\ customer \in [Customer -> CustomerRow]
      /\ consult \in [Consult -> ConsultRow]
  BY DEF TransactionsInv, TypeOK
<1>8. /\ customer' \in Table
      /\ \A d \in Customer \ {c} : customer'[d] = customer[d]
      /\ customer'[c] \in {customer[c], new}
  BY <1>1, <1>3, <1>6, <1>7, WrittenRows DEF Table
<1>9. \A d \in Customer : GoodChange(d)
  BY <1>1, <1>5, <1>6, <1>8, OneRowSaved
<1>10. /\ consult' \in [Consult -> ConsultRow]
       /\ \A j \in Consult : consult'[j].customer \in member' \cup {None}
  BY <1>2, <1>3, <1>9, ConsultRewritten DEF c
<1>11. QED
  BY <1>3, <1>4, <1>8, <1>9, <1>10 DEF Commit

\* finish: the consult, and the inviter's points.
LEMMA FinishCommits ==
  ASSUME TransactionsInv, NEW r \in Request, NEW k \in Consult, Finish(r, k)
  PROVE  Commit(r)
<1> DEFINE row == [Consults(r)[k] EXCEPT !.status = "FINISH"]
           i == Consults(r)[k].invitedId
           cs == {i} \cap Customer
<1>1. /\ consult' = [consult EXCEPT ![k] = row]
      /\ customer' = Rewarded(r, i, FINISH_CONSULT)
      /\ ledger' = Records(r, cs, FINISH_CONSULT)
      /\ reads' = [reads EXCEPT ![r] = Idle]
      /\ i \in Inviters(r)
  BY DEF Finish, Serves, Ends, Inviters
<1>2. row \in ConsultRow /\ row.customer = Consults(r)[k].customer
  BY ReadConsult DEF ConsultRow
<1> HIDE DEF row, i
<1>3. LedgerGrows /\ \A c \in cs : ledger'[c].credit = ledger[c].credit + FINISH_CONSULT
  <2>1. cs \in SUBSET Customer
    OBVIOUS
  <2> HIDE DEF cs
  <2>2. QED
    BY <1>1, <2>1, RecordsGrow, Granting
<1>4. i \in Customer => ledger'[i].credit = ledger[i].credit + FINISH_CONSULT
  BY <1>3
<1>5. /\ customer' \in Table
      /\ \A c \in Customer : GoodChange(c)
  BY <1>1, <1>3, <1>4, RewardedRows, Granting DEF GoodChange
<1>6. /\ consult' \in [Consult -> ConsultRow]
      /\ \A j \in Consult : consult'[j].customer \in member' \cup {None}
  BY <1>1, <1>2, <1>5, ConsultRewritten DEF Written
<1>7. QED
  BY <1>1, <1>3, <1>5, <1>6 DEF Commit

\* Customers who are not touched do not change.
LEMMA CustomersStay ==
  ASSUME TransactionsInv, UNCHANGED customer
  PROVE  customer' \in Table /\ \A c \in Customer : GoodChange(c)
BY DEF TransactionsInv, TypeOK, Table, GoodChange

\* modify and delete of a consult.
LEMMA ModifyCommits ==
  ASSUME TransactionsInv, NEW r \in Request, NEW k \in Consult, Modify(r, k)
  PROVE  Commit(r)
<1> DEFINE read == Consults(r)[k]
<1>1. /\ UNCHANGED <<customer, ledger>>
      /\ reads' = [reads EXCEPT ![r] = Idle]
      /\ read \in ConsultRow
  BY ReadConsult DEF Modify, Serves, Ends
<1>2. PICK a \in Admin \cup {read.sales}, i \in Inviters(r) \cup {read.invitedId} :
        Written(consult, consult', Consults(r), k,
                [read EXCEPT !.sales = a, !.invitedId = i])
  BY DEF Modify
<1> DEFINE row == [read EXCEPT !.sales = a, !.invitedId = i]
<1>3. row \in ConsultRow /\ row.customer = read.customer
  BY <1>1 DEF ConsultRow, Inviters, Members
<1> HIDE DEF row
<1>4. LedgerGrows /\ customer' \in Table /\ \A c \in Customer : GoodChange(c)
  BY <1>1, LedgerStays, CustomersStay
<1>5. /\ consult' \in [Consult -> ConsultRow]
      /\ \A j \in Consult : consult'[j].customer \in member' \cup {None}
  BY <1>2, <1>4, <1>3, ConsultRewritten DEF row
<1>6. QED
  BY <1>1, <1>4, <1>5 DEF Commit

\* delete of a customer.
LEMMA DeleteCustomerCommits ==
  ASSUME TransactionsInv, NEW r \in Request, NEW c \in Customer, DeleteCustomer(r, c)
  PROVE  Commit(r)
<1> DEFINE row == Customers(r)[c]
<1>1. /\ Written(customer, customer', Customers(r), c, row)
      /\ UNCHANGED <<consult, ledger>>
      /\ reads' = [reads EXCEPT ![r] = Idle]
      /\ row.sales # None
  BY DEF DeleteCustomer, Serves, Ends
<1>2. LedgerGrows
  BY <1>1, LedgerStays
<1>3. c \in Members(Customers(r))
  BY <1>1 DEF TransactionsInv, ReadsAreOld, NoCustomer
<1>4. row \in CustomerRow /\ row = [row EXCEPT !.sales = row.sales]
      /\ row.sales \in Admin \cup {None}
  BY ReadRows DEF CustomerRow
<1>5. GoodRow(c, row)
  BY <1>2, <1>3, <1>4, ReadRowIsGood
<1> HIDE DEF row
<1>6. customer' \in Table
      /\ (\A d \in Customer \ {c} : customer'[d] = customer[d])
      /\ customer'[c] \in {customer[c], row}
  <2>1. customer \in Table
    BY DEF TransactionsInv, TypeOK, Table
  <2>2. QED
    BY <1>1, <1>4, <2>1, WrittenRows
<1>7. \A d \in Customer : GoodChange(d)
  BY <1>4, <1>5, <1>6, OneRowSaved
<1>8. QED
  BY <1>1, <1>2, <1>6, <1>7, ConsultsStay DEF Commit

\* delete of a store.
LEMMA DeleteStoreCommits ==
  ASSUME TransactionsInv, NEW r \in Request, NEW cs \in SUBSET Customer,
         DeleteStore(r, cs)
  PROVE  Commit(r)
<1> DEFINE row(c) == [Customers(r)[c] EXCEPT !.sales = None]
<1>1. /\ customer' = [c \in Customer |-> IF c \in cs THEN row(c) ELSE customer[c]]
      /\ UNCHANGED <<consult, ledger>>
      /\ reads' = [reads EXCEPT ![r] = Idle]
      /\ cs \subseteq Members(Customers(r))
  BY DEF DeleteStore, Serves, Ends
<1>2. LedgerGrows
  BY <1>1, LedgerStays
<1>3. \A c \in cs : GoodRow(c, row(c))
  BY <1>1, <1>2, ReadRowIsGood
<1> HIDE DEF row
<1>4. \A c \in Customer : customer'[c] = IF c \in cs THEN row(c) ELSE customer[c]
  BY <1>1
<1>5. \A c \in Customer : GoodChange(c)
  BY <1>3, <1>4 DEF GoodChange
<1>6. \A c \in Customer : customer'[c] \in CustomerRow
  BY <1>3, <1>4 DEF GoodRow, TransactionsInv, TypeOK
<1>7. customer' \in Table
  BY <1>1, <1>4, <1>6 DEF Table
<1>8. QED
  BY <1>1, <1>2, <1>5, <1>7, ConsultsStay DEF Commit

-----------------------------------------------------------------------------

\* Between transactions a request has read nothing.
LEMMA IdleReadsNothing ==
  /\ Idle \in Reads
  /\ \A c \in Customer : Idle.customer[c] = NoCustomer
  /\ \A k \in Consult : Idle.consult[k].customer = None
BY DEF Idle, Reads, NoCustomer, NoConsult, CustomerRow, ConsultRow, Int32

\* Every balance is one that the records allow, and so is none at all.
LEMMA BalancesAllowed ==
  ASSUME TransactionsInv, NEW c \in Customer
  PROVE  /\ customer[c].integral \in Int
         /\ ledger[c] \in Pts!Records
         /\ Allowed(customer[c].integral, ledger[c])
<1>1. customer[c] \in CustomerRow /\ ledger[c] \in Pts!Records
  BY DEF TransactionsInv, TypeOK
<1>2. QED
  BY <1>1 DEF TransactionsInv, PointsWithinLimit, PointsWereGranted, Allowed, integral,
     CustomerRow, Int32

LEMMA NothingAllowed ==
  ASSUME NEW records \in Pts!Records
  PROVE  Allowed(0, records)
BY DEF Allowed, Pts!Records

\* Whatever the operation, its commit keeps the invariant.
LEMMA CommitPreserves ==
  ASSUME TransactionsInv, NEW r \in Request, Commit(r)
  PROVE  TransactionsInv'
<1>1. /\ customer' \in [Customer -> CustomerRow]
      /\ \A c \in Customer : GoodChange(c)
      /\ LedgerGrows
      /\ reads' = [reads EXCEPT ![r] = Idle]
  BY DEF Commit, Table
<1>2. reads \in [Request -> Reads]
  BY DEF TransactionsInv, TypeOK
<1>3. /\ reads'[r] = Idle
      /\ \A s \in Request \ {r} : reads'[s] = reads[s]
      /\ reads' \in [Request -> Reads]
  BY <1>1, <1>2, IdleReadsNothing
<1>4. TypeOK'
  BY <1>1, <1>3 DEF Commit, TypeOK, LedgerGrows
<1>5. ASSUME NEW c \in Customer
      PROVE  /\ Allowed(customer'[c].integral, ledger'[c])
             /\ ledger[c] \in Pts!Records /\ ledger'[c] \in Pts!Records
             /\ ledger[c].credit <= ledger'[c].credit
             /\ ledger[c].refund <= ledger'[c].refund
  <2>1. /\ ledger'[c] \in Pts!Records
        /\ ledger[c].credit <= ledger'[c].credit
        /\ ledger[c].refund <= ledger'[c].refund
    BY <1>1 DEF LedgerGrows
  <2>2. Allowed(customer[c].integral, ledger'[c])
    BY <2>1, BalancesAllowed, AllowedStays
  <2>3. QED
    BY <1>1, <2>1, <2>2, BalancesAllowed DEF GoodChange, GoodRow
<1>6. PointsWithinLimit' /\ PointsWereGranted'
  BY <1>5 DEF PointsWithinLimit, PointsWereGranted, Allowed, integral
<1>7. member \subseteq member'
  BY <1>1, MembersStay
<1>8. ReadsAreOld'
  <2> SUFFICES ASSUME NEW s \in Request, NEW c \in Customer
               PROVE  /\ Allowed(reads'[s].customer[c].integral, ledger'[c])
                      /\ c \in Members(reads'[s].customer) => c \in member'
                      /\ c \notin Members(reads'[s].customer) =>
                           reads'[s].customer[c] = NoCustomer
    BY DEF ReadsAreOld, Customers
  <2>1. CASE s = r
    <3>1. reads'[s].customer[c] = NoCustomer
      BY <1>3, <2>1, IdleReadsNothing
    <3>2. NoCustomer.integral = 0 /\ NoCustomer.phone = None
      BY DEF NoCustomer
    <3>3. QED
      BY <1>5, <3>1, <3>2, NothingAllowed DEF Members
  <2>2. CASE s # r
    <3>1. reads'[s].customer = Customers(s)
      BY <1>3, <2>2 DEF Customers
    <3>2. /\ Allowed(Customers(s)[c].integral, ledger[c])
          /\ c \in Members(Customers(s)) => c \in member
          /\ c \notin Members(Customers(s)) => Customers(s)[c] = NoCustomer
      BY DEF TransactionsInv, ReadsAreOld
    <3>3. Customers(s)[c].integral \in Int
      BY ReadRows DEF Int32
    <3>4. Allowed(Customers(s)[c].integral, ledger'[c])
      BY <1>5, <3>2, <3>3, AllowedStays
    <3>5. QED
      BY <1>7, <3>1, <3>2, <3>4
  <2>3. QED
    BY <2>1, <2>2
<1>9. AbsentIsEmpty'
  BY <1>1 DEF TransactionsInv, AbsentIsEmpty, GoodChange, GoodRow, member, Members
<1>10. ConsultsHaveCustomers'
  <2>1. \A k \in Consult : consult'[k].customer \in member' \cup {None}
    BY DEF Commit
  <2>2. ASSUME NEW s \in Request, NEW k \in Consult
        PROVE  reads'[s].consult[k].customer \in Members(reads'[s].customer) \cup {None}
    <3>1. CASE s = r
      BY <1>3, <3>1, IdleReadsNothing
    <3>2. CASE s # r
      BY <1>3, <3>2 DEF TransactionsInv, ConsultsHaveCustomers, Customers, Consults
    <3>3. QED
      BY <3>1, <3>2
  <2>3. QED
    BY <2>1, <2>2 DEF ConsultsHaveCustomers, Consults, Customers
<1>11. QED
  BY <1>4, <1>6, <1>8, <1>9, <1>10 DEF TransactionsInv

\* A transaction that ends without a commit changes no row.
LEMMA RollbackCommits ==
  ASSUME TransactionsInv, NEW r \in Request, Rollback(r)
  PROVE  Commit(r)
<1>1. UNCHANGED rowVars /\ reads' = [reads EXCEPT ![r] = Idle]
  BY DEF Rollback, Ends
<1>2. LedgerGrows /\ customer' \in Table /\ \A c \in Customer : GoodChange(c)
  BY <1>1, LedgerStays, CustomersStay DEF rowVars
<1>3. QED
  BY <1>1, <1>2, ConsultsStay DEF Commit, rowVars

\* Reading keeps the invariant: of r's reads only those of committed rows are new.
LEMMA ReadingPreserves ==
  ASSUME TransactionsInv, NEW r \in Request, UNCHANGED rowVars,
         reads' \in [Request -> Reads],
         \A s \in Request : \/ /\ Customers(s)' = Customers(s)
                               /\ Consults(s)' = Consults(s)
                            \/ /\ Customers(s)' = customer
                               /\ Consults(s)' = consult
  PROVE  TransactionsInv'
<1>1. /\ customer' = customer
      /\ consult' = consult
      /\ ledger' = ledger
      /\ member' = member
      /\ integral' = integral
  BY DEF rowVars, member, Members, integral
<1>2. TypeOK'
  BY <1>1 DEF TransactionsInv, TypeOK
<1>3. PointsWithinLimit' /\ PointsWereGranted' /\ AbsentIsEmpty'
  BY <1>1 DEF TransactionsInv, PointsWithinLimit, PointsWereGranted, AbsentIsEmpty
<1>4. ReadsAreOld'
  <2> SUFFICES ASSUME NEW s \in Request, NEW c \in Customer
               PROVE  /\ Allowed(Customers(s)'[c].integral, ledger[c])
                      /\ c \in Members(Customers(s)') => c \in member
                      /\ c \notin Members(Customers(s)') =>
                           Customers(s)'[c] = NoCustomer
    BY <1>1 DEF ReadsAreOld, Members
  <2>1. CASE Customers(s)' = Customers(s)
    BY <2>1 DEF TransactionsInv, ReadsAreOld
  <2>2. CASE Customers(s)' = customer
    BY <2>2, BalancesAllowed DEF TransactionsInv, AbsentIsEmpty, member
  <2>3. QED
    BY <2>1, <2>2
<1>5. ConsultsHaveCustomers'
  <2> SUFFICES ASSUME NEW s \in Request, NEW k \in Consult
               PROVE  Consults(s)'[k].customer \in Members(Customers(s)') \cup {None}
    BY <1>1 DEF ConsultsHaveCustomers, TransactionsInv, Members
  <2>1. QED
    BY DEF TransactionsInv, ConsultsHaveCustomers, member
<1>6. QED
  BY <1>2, <1>3, <1>4, <1>5 DEF TransactionsInv

\* existsByPhone of a login, which remembers the phone.
LEMMA LoginChecksPreserves ==
  ASSUME TransactionsInv, NEW r \in Request, NEW ph \in Phone, LoginChecks(r, ph)
  PROVE  TransactionsInv'
<1>1. reads \in [Request -> Reads]
  BY DEF TransactionsInv, TypeOK
<1>2. reads' = [reads EXCEPT ![r].phone = ph] /\ UNCHANGED rowVars
  BY DEF LoginChecks
<1>3. reads' \in [Request -> Reads]
      /\ \A s \in Request : /\ reads'[s].customer = reads[s].customer
                            /\ reads'[s].consult = reads[s].consult
  BY <1>1, <1>2 DEF Reads
<1>4. QED
  BY <1>2, <1>3, ReadingPreserves DEF Customers, Consults

\* The snapshot of a transaction.
LEMMA BeginPreserves ==
  ASSUME TransactionsInv, NEW r \in Request, Begin(r)
  PROVE  TransactionsInv'
<1> DEFINE new == [reads[r] EXCEPT !.open = TRUE, !.customer = customer,
                                   !.consult = consult]
<1>1. reads \in [Request -> Reads] /\ customer \in [Customer -> CustomerRow]
      /\ consult \in [Consult -> ConsultRow]
  BY DEF TransactionsInv, TypeOK
<1>2. reads' = [reads EXCEPT ![r] = new] /\ UNCHANGED rowVars
  BY DEF Begin
<1>3. new \in Reads /\ new.customer = customer /\ new.consult = consult
  <2> DEFINE P == Phone \cup {None}
             C == [Customer -> CustomerRow]
             K == [Consult -> ConsultRow]
  <2>1. Reads = [open : BOOLEAN, phone : P, customer : C, consult : K]
    BY DEF Reads
  <2>2. reads[r] \in Reads /\ customer \in C /\ consult \in K
    BY <1>1
  <2> HIDE DEF P, C, K
  <2>3. new \in [open : BOOLEAN, phone : P, customer : C, consult : K]
        /\ new.customer = customer /\ new.consult = consult
    BY <2>1, <2>2
  <2>4. QED
    BY <2>1, <2>3
<1> HIDE DEF new
<1>4. reads' \in [Request -> Reads]
      /\ \A s \in Request : reads'[s] = reads[s] \/ reads'[s] = new
  BY <1>1, <1>2, <1>3
<1>5. QED
  BY <1>2, <1>3, <1>4, ReadingPreserves DEF Customers, Consults

\* The tables of a new system are empty.
LEMMA TransactionsInit == Init => TransactionsInv
<1> SUFFICES ASSUME Init PROVE TransactionsInv
  OBVIOUS
<1>1. NoCustomer \in CustomerRow /\ NoConsult \in ConsultRow
      /\ NoCustomer.integral = 0 /\ NoCustomer.phone = None /\ NoConsult.customer = None
  BY DEF NoCustomer, NoConsult, CustomerRow, ConsultRow, Int32
<1>2. \A c \in Customer : /\ customer[c] = NoCustomer
                          /\ ledger[c] \in Pts!Records
                          /\ Allowed(0, ledger[c])
  <2>1. Pts!NoRecords \in Pts!Records
    BY SameInts DEF Pts!NoRecords, Pts!Records, Int32
  <2>2. QED
    BY <2>1, NothingAllowed DEF Init
<1>3. \A r \in Request : reads[r] = Idle
  BY DEF Init
<1>4. TypeOK
  <2>1. customer \in [Customer -> CustomerRow] /\ consult \in [Consult -> ConsultRow]
    BY <1>1 DEF Init
  <2>2. ledger \in [Customer -> Pts!Records]
    BY <1>2 DEF Init
  <2>3. reads \in [Request -> Reads]
    BY IdleReadsNothing DEF Init
  <2>4. QED
    BY <2>1, <2>2, <2>3 DEF TypeOK
<1>5. PointsWithinLimit /\ PointsWereGranted /\ AbsentIsEmpty
  BY <1>1, <1>2 DEF PointsWithinLimit, PointsWereGranted, Allowed, AbsentIsEmpty, integral
<1>6. ReadsAreOld
  <2> SUFFICES ASSUME NEW r \in Request, NEW c \in Customer
               PROVE  /\ Allowed(Customers(r)[c].integral, ledger[c])
                      /\ c \in Members(Customers(r)) => c \in member
                      /\ c \notin Members(Customers(r)) => Customers(r)[c] = NoCustomer
    BY DEF ReadsAreOld
  <2>1. Customers(r)[c] = NoCustomer /\ Allowed(0, ledger[c])
    BY <1>2, <1>3, IdleReadsNothing DEF Customers
  <2>2. QED
    BY <1>1, <2>1 DEF Members
<1>7. ConsultsHaveCustomers
  BY <1>1, <1>3, IdleReadsNothing DEF Init, ConsultsHaveCustomers, Consults
<1>8. QED
  BY <1>4, <1>5, <1>6, <1>7 DEF TransactionsInv

\* Every operation on points is a Commit.
LEMMA PointsNextCommits ==
  ASSUME TransactionsInv, NEW r \in Request, PointsNext(r)
  PROVE  Commit(r)
<1>1. ASSUME NEW c \in Customer, NEW i \in Inviters(r), PhoneLogin(r, c, i)
      PROVE  Commit(r)
  BY <1>1, PhoneLoginCommits
<1>2. ASSUME NEW c \in Customer, WeChatLogin(r, c)
      PROVE  Commit(r)
  BY <1>2, WeChatLoginCommits
<1>3. ASSUME NEW k \in Consult, NEW c \in Customer, NEW ph \in Phone,
             NEW i \in Inviters(r), AddFirstConsult(r, k, c, ph, i)
      PROVE  Commit(r)
  BY <1>3, AddFirstConsultCommits
<1>4. ASSUME NEW c \in Customer, NEW n \in Amount, ConsumerIntegral(r, c, n)
      PROVE  Commit(r)
  BY <1>4, ConsumerIntegralCommits
<1>5. ASSUME NEW k \in Consult, Finish(r, k)
      PROVE  Commit(r)
  BY <1>5, FinishCommits
<1>6. QED
  BY <1>1, <1>2, <1>3, <1>4, <1>5 DEF PointsNext

\* So is every other operation.
LEMMA RowsNextCommits ==
  ASSUME TransactionsInv, NEW r \in Request, RowsNext(r)
  PROVE  Commit(r)
<1>1. ASSUME NEW k \in Consult, NEW c \in Customer, NEW i \in Inviters(r),
             AddConsult(r, k, c, i)
      PROVE  Commit(r)
  BY <1>1, AddConsultCommits
<1>2. ASSUME NEW k \in Consult, NEW a \in Admin, Allocate(r, k, a)
      PROVE  Commit(r)
  BY <1>2, AllocateCommits
<1>3. ASSUME NEW k \in Consult, NEW a \in Admin, ChangeToSalesConsultant(r, k, a)
      PROVE  Commit(r)
  BY <1>3, ChangeToSalesConsultantCommits
<1>4. ASSUME NEW k \in Consult, ChangeToStore(r, k)
      PROVE  Commit(r)
  BY <1>4, ChangeToStoreCommits
<1>5. ASSUME NEW k \in Consult, Modify(r, k)
      PROVE  Commit(r)
  BY <1>5, ModifyCommits
<1>6. ASSUME NEW c \in Customer, DeleteCustomer(r, c)
      PROVE  Commit(r)
  BY <1>6, DeleteCustomerCommits
<1>7. ASSUME NEW cs \in SUBSET Customer, DeleteStore(r, cs)
      PROVE  Commit(r)
  BY <1>7, DeleteStoreCommits
<1>8. QED
  BY <1>1, <1>2, <1>3, <1>4, <1>5, <1>6, <1>7 DEF RowsNext

\* Every step keeps the invariant.
LEMMA TransactionsStep == TransactionsInv /\ [Next]_vars => TransactionsInv'
<1> SUFFICES ASSUME TransactionsInv, [Next]_vars PROVE TransactionsInv'
  OBVIOUS
<1>1. CASE UNCHANGED vars
  <2>1. UNCHANGED rowVars /\ UNCHANGED reads
    BY <1>1 DEF vars, rowVars
  <2>2. reads \in [Request -> Reads]
    BY DEF TransactionsInv, TypeOK
  <2>3. TypeOK'
    BY <2>1 DEF rowVars, TransactionsInv, TypeOK
  <2>4. QED
    BY <2>1, <2>3 DEF rowVars, TransactionsInv, PointsWithinLimit, PointsWereGranted,
       ReadsAreOld, AbsentIsEmpty, ConsultsHaveCustomers, Customers, Consults, member,
       Members, integral
<1>2. ASSUME NEW r \in Request, NEW ph \in Phone, LoginChecks(r, ph)
      PROVE  TransactionsInv'
  BY <1>2, LoginChecksPreserves
<1>3. ASSUME NEW r \in Request, Begin(r)
      PROVE  TransactionsInv'
  BY <1>3, BeginPreserves
<1>4. ASSUME NEW r \in Request, Rollback(r)
      PROVE  TransactionsInv'
  BY <1>4, RollbackCommits, CommitPreserves
<1>5. ASSUME NEW r \in Request, PointsNext(r) \/ RowsNext(r)
      PROVE  TransactionsInv'
  BY <1>5, PointsNextCommits, RowsNextCommits, CommitPreserves
<1>6. QED
  BY <1>1, <1>2, <1>3, <1>4, <1>5 DEF Next

\* The invariant of overlapping requests holds for any number of requests,
\* customers and consults.
THEOREM TransactionsInvariant == Spec => []TransactionsInv
BY TransactionsInit, TransactionsStep, PTL DEF Spec

\* Overlapping requests never push a balance out of 0..UPPER_LIMIT
\* (Customer.modifyIntegral, CustomerServiceImpl.consumerIntegral); only spending a
\* negative amount does, and the records show it for good.
THEOREM OverlappingPoints == Spec => []PointsWithinLimit
<1>1. TransactionsInv => PointsWithinLimit
  BY DEF TransactionsInv
<1>2. QED
  BY <1>1, TransactionsInvariant, PTL

\* Nor do they make points that no record granted, whatever row one of them saves
\* over another's (register, finish and consumerIntegral save the whole row).
THEOREM GrantedTheorem == Spec => []PointsWereGranted
<1>1. TransactionsInv => PointsWereGranted
  BY DEF TransactionsInv
<1>2. QED
  BY <1>1, TransactionsInvariant, PTL

-----------------------------------------------------------------------------

\* What a save of request r does when nobody has overtaken it.
LEMMA UndisturbedSave ==
  ASSUME TransactionsInv, NEW r \in Request, UpToDate(r), NEW c \in Customer, NEW row
  PROVE  Saved(customer, Customers(r), c, row) = [customer EXCEPT ![c] = row]
BY DEF Saved, UpToDate, TransactionsInv, TypeOK

\* And what writing it does.
LEMMA UndisturbedWrite ==
  ASSUME TransactionsInv, NEW r \in Request, UpToDate(r), NEW c \in Customer, NEW row,
         Written(customer, customer', Customers(r), c, row)
  PROVE  customer' = [customer EXCEPT ![c] = row]
BY UndisturbedSave DEF Written

\* Rows that keep phone and balance change nothing that Integral has.
LEMMA SamePoints ==
  ASSUME \A c \in Customer : /\ customer'[c].phone = customer[c].phone
                             /\ customer'[c].integral = customer[c].integral,
         UNCHANGED ledger
  PROVE  UNCHANGED Pts!integralVars
<1>1. member' = member
  BY DEF member, Members
<1>2. integral' = integral
  BY DEF integral
<1>3. QED
  BY <1>1, <1>2 DEF Pts!integralVars

\* The same, when the salesperson of one customer is saved.
LEMMA SalesSaved ==
  ASSUME TransactionsInv, NEW c, NEW a, UNCHANGED ledger,
         customer' = [customer EXCEPT ![c] = [customer[c] EXCEPT !.sales = a]]
  PROVE  UNCHANGED Pts!integralVars
<1>1. customer \in [Customer -> CustomerRow]
  BY DEF TransactionsInv, TypeOK
<1>2. ASSUME NEW d \in Customer
      PROVE  /\ customer'[d].phone = customer[d].phone
             /\ customer'[d].integral = customer[d].integral
  <2>1. customer[d] \in CustomerRow
    BY <1>1
  <2>2. [customer[d] EXCEPT !.sales = a].phone = customer[d].phone
        /\ [customer[d] EXCEPT !.sales = a].integral = customer[d].integral
    BY <2>1 DEF CustomerRow
  <2>3. customer'[d] = IF d = c THEN [customer[d] EXCEPT !.sales = a] ELSE customer[d]
    BY <1>1
  <2>4. QED
    BY <2>2, <2>3
<1>3. QED
  BY <1>2, SamePoints

\* A raise by n points, as Integral says it.
LEMMA UndisturbedRaise ==
  ASSUME TransactionsInv, NEW r \in Request, UpToDate(r), NEW n \in Grants, NEW i
  PROVE  \A c \in Customer :
           /\ Rewarded(r, i, n)[c].phone = customer[c].phone
           /\ Rewarded(r, i, n)[c].integral =
                IF c = i THEN Pts!Raised(integral[c], n) ELSE integral[c]
<1>1. customer \in [Customer -> CustomerRow] /\ Customers(r) = customer
  BY DEF TransactionsInv, TypeOK, UpToDate
<1>2. ASSUME NEW c \in Customer
      PROVE  /\ Rewarded(r, i, n)[c] = IF c = i THEN RaisedRow(customer[c], n)
                                               ELSE customer[c]
             /\ RaisedRow(customer[c], n).phone = customer[c].phone
             /\ RaisedRow(customer[c], n).integral = Pts!Raised(integral[c], n)
             /\ customer[c].integral = integral[c]
  <2>1. customer[c] \in CustomerRow
    BY <1>1
  <2>2. CASE i \in Customer
    BY <1>1, <2>1, <2>2, UndisturbedSave, RaisedRowFields DEF Rewarded, integral
  <2>3. CASE i \notin Customer
    BY <2>1, <2>3, RaisedRowFields DEF Rewarded, integral
  <2>4. QED
    BY <2>2, <2>3
<1>3. QED
  BY <1>2

\* The records of such a raise.
LEMMA UndisturbedRecords ==
  ASSUME TransactionsInv, NEW r \in Request, UpToDate(r), NEW n \in Grants, NEW cs
  PROVE  Records(r, cs, n) =
           [c \in Customer |->
              IF c \in cs THEN Pts!Increased(ledger[c], n, Pts!Raised(integral[c], n))
                          ELSE ledger[c]]
<1>1. Customers(r) = customer
  BY DEF UpToDate
<1>2. ASSUME NEW c \in Customer
      PROVE  RaisedRow(Customers(r)[c], n).integral = Pts!Raised(integral[c], n)
  BY <1>1, RaisedRowFields DEF TransactionsInv, TypeOK, integral
<1>3. QED
  BY <1>2 DEF Records

\* Registering alone is Join; who was invited by an administrator joins uninvited.
LEMMA UndisturbedJoin ==
  ASSUME TransactionsInv, NEW r \in Request, UpToDate(r), NEW c \in Customer \ member,
         NEW ph \in Phone \cup {NoPhone}, NEW i \in Inviters(r),
         customer' = Registered(r, c, ph, i),
         ledger' = Records(r, {c, i} \cap Customer, REGISTER)
  PROVE  Pts!Next
<1> DEFINE j == IF i \in Customer THEN i ELSE None
           new == RaisedRow([phone |-> ph, sales |-> SalesOf(i), integral |-> 0], REGISTER)
<1>1. /\ i \in member \cup Admin \cup {None}
      /\ j \in member \cup {None}
      /\ {c, j} \cap Customer = {c, i} \cap Customer
      /\ j \in Customer \cup {None}
      /\ i # c
  BY DEF Inviters, UpToDate, member, Members
<1>2. /\ customer[c] = NoCustomer
      /\ integral[c] = 0
  BY DEF TransactionsInv, AbsentIsEmpty, integral, NoCustomer
<1>3. /\ new.phone = ph
      /\ new.integral = Pts!Raised(0, REGISTER)
      /\ new \in CustomerRow
  <2>1. [phone |-> ph, sales |-> SalesOf(i), integral |-> 0] \in CustomerRow
    BY <1>1 DEF SalesOf, CustomerRow, Int32
  <2>2. QED
    BY <2>1, RaisedRowFields, Granting
<1>4. \A d \in Customer :
        /\ Rewarded(r, i, REGISTER)[d].phone = customer[d].phone
        /\ Rewarded(r, i, REGISTER)[d].integral =
             IF d = i THEN Pts!Raised(integral[d], REGISTER) ELSE integral[d]
  BY UndisturbedRaise, Granting
<1>5. /\ customer' = [Rewarded(r, i, REGISTER) EXCEPT ![c] = new]
      /\ customer' \in [Customer -> CustomerRow]
      /\ Rewarded(r, i, REGISTER) \in [Customer -> CustomerRow]
  <2>1. customer' \in Table
    BY RegisteredRows
  <2>2. customer \in Table
    BY DEF TransactionsInv, TypeOK, Table
  <2>3. Rewarded(r, i, REGISTER) \in Table
    <3>1. CASE i \notin Customer
      BY <2>2, <3>1 DEF Rewarded
    <3>2. CASE i \in Customer
      BY <2>2, <3>2, ReadRows, RaisedRowFields, Granting, SavedRows DEF Rewarded
    <3>3. QED
      BY <3>1, <3>2
  <2>4. QED
    BY <2>1, <2>3 DEF Registered, Table
<1> HIDE DEF new
<1>6. \A d \in Customer :
        customer'[d] = IF d = c THEN new ELSE Rewarded(r, i, REGISTER)[d]
  BY <1>5
<1>7. \A d \in Customer :
        /\ customer'[d].phone = IF d = c THEN ph ELSE customer[d].phone
        /\ customer'[d].integral =
             IF d \in {c, j} THEN Pts!Raised(integral[d], REGISTER) ELSE integral[d]
  BY <1>1, <1>2, <1>3, <1>4, <1>6
<1>8. member' = member \cup {c}
  BY <1>7 DEF member, Members
<1>9. integral' = [d \in Customer |-> IF d \in {c, j} \cap Customer
                                        THEN Pts!Raised(integral[d], REGISTER)
                                        ELSE integral[d]]
  BY <1>7 DEF integral
<1> HIDE DEF j
<1>10. Pts!Credited({c, j} \cap Customer, REGISTER)
  BY <1>1, <1>9, UndisturbedRecords, Granting DEF Pts!Credited
<1>11. Pts!Join(c, j)
  BY <1>1, <1>8, <1>10 DEF Pts!Join
<1>12. QED
  BY <1>1, <1>11 DEF Pts!Next

\* finish alone is Bonus, or without an inviter nothing.
LEMMA UndisturbedFinish ==
  ASSUME TransactionsInv, NEW r \in Request, UpToDate(r), NEW k \in Consult, Finish(r, k)
  PROVE  Pts!Next \/ UNCHANGED Pts!integralVars
<1> DEFINE i == Consults(r)[k].invitedId
<1>1. /\ customer' = Rewarded(r, i, FINISH_CONSULT)
      /\ ledger' = Records(r, {i} \cap Customer, FINISH_CONSULT)
      /\ i \in member \cup {None}
  BY DEF Finish, UpToDate, member
<1> HIDE DEF i
<1>2. \A d \in Customer :
        /\ customer'[d].phone = customer[d].phone
        /\ customer'[d].integral =
             IF d = i THEN Pts!Raised(integral[d], FINISH_CONSULT) ELSE integral[d]
  BY <1>1, UndisturbedRaise, Granting
<1>3. CASE i = None
  <2>1. ledger' = [c \in Customer |-> ledger[c]]
    BY <1>1, <1>3 DEF Records
  <2>2. ledger' = ledger
    BY <2>1 DEF TransactionsInv, TypeOK
  <2>3. QED
    BY <1>2, <1>3, <2>2, SamePoints DEF integral
<1>4. CASE i \in member
  <2>1. i \in Customer /\ {i} \cap Customer = {i}
    BY <1>4 DEF member, Members
  <2>2. member' = member
    BY <1>2 DEF member, Members
  <2>3. integral' = [d \in Customer |-> IF d \in {i} THEN Pts!Raised(integral[d], FINISH_CONSULT)
                                                     ELSE integral[d]]
    BY <1>2 DEF integral
  <2>4. Pts!Credited({i}, FINISH_CONSULT)
    BY <1>1, <2>1, <2>3, UndisturbedRecords, Granting DEF Pts!Credited
  <2>5. Pts!Bonus(i)
    BY <1>4, <2>2, <2>4 DEF Pts!Bonus
  <2>6. QED
    BY <1>4, <2>5 DEF Pts!Next
<1>5. QED
  BY <1>1, <1>3, <1>4

\* consumerIntegral alone is that of Integral.
LEMMA UndisturbedSpend ==
  ASSUME TransactionsInv, NEW r \in Request, UpToDate(r), NEW c \in Customer,
         NEW n \in Amount, ConsumerIntegral(r, c, n)
  PROVE  Pts!Next
<1> DEFINE left == ToInt32(integral[c] - n)
           row == [customer[c] EXCEPT !.integral = left]
<1>1. Customers(r) = customer /\ integral[c] = customer[c].integral
      /\ customer \in [Customer -> CustomerRow] /\ customer[c] \in CustomerRow
      /\ n \in Int /\ integral[c] \in Int
  BY DEF UpToDate, integral, TransactionsInv, TypeOK, CustomerRow, Int32
<1>2. /\ integral[c] >= n
      /\ c \in member
      /\ ledger' = [ledger EXCEPT ![c] = Pts!Reduced(@, n, left)]
      /\ customer' = [customer EXCEPT ![c] = row]
  <2>1. Customers(r)[c].integral = integral[c]
    BY <1>1
  <2>2. /\ c \in Members(Customers(r))
        /\ Customers(r)[c].integral >= n
        /\ ledger' = [ledger EXCEPT ![c] =
                        Pts!Reduced(@, n, ToInt32(Customers(r)[c].integral - n))]
        /\ customer' = Saved(customer, Customers(r), c,
                             [Customers(r)[c] EXCEPT
                                !.integral = ToInt32(Customers(r)[c].integral - n)])
    BY DEF ConsumerIntegral
  <2>3. customer' = Saved(customer, Customers(r), c, row)
    BY <1>1, <2>1, <2>2
  <2>4. customer' = [customer EXCEPT ![c] = row]
    BY <2>3, UndisturbedSave
  <2> HIDE DEF row
  <2>5. QED
    BY <1>1, <2>1, <2>2, <2>4 DEF member
<1>3. row.phone = customer[c].phone /\ row.integral = left
  BY <1>1 DEF CustomerRow
<1> HIDE DEF row
<1>4. \A d \in Customer : customer'[d] = IF d = c THEN row ELSE customer[d]
  BY <1>1, <1>2
<1>5. member' = member
  BY <1>3, <1>4 DEF member, Members
<1>6. integral' = [integral EXCEPT ![c] = left]
  BY <1>3, <1>4 DEF integral
<1>7. left = Pts!ToInt32(integral[c] - n)
  BY <1>1, SameInts
<1> HIDE DEF left
<1>8. Pts!ConsumerIntegral(c, n)
  BY <1>2, <1>5, <1>6, <1>7 DEF Pts!ConsumerIntegral
<1>9. QED
  BY <1>8 DEF Pts!Next

\* An operation on points alone is a step of Integral.
LEMMA UndisturbedPoints ==
  ASSUME TransactionsInv, NEW r \in Request, UpToDate(r), PointsNext(r)
  PROVE  Pts!Next \/ UNCHANGED Pts!integralVars
<1>1. ASSUME NEW c \in Customer, NEW i \in Inviters(r), PhoneLogin(r, c, i)
      PROVE  Pts!Next
  <2>1. reads[r].phone \in Phone
    BY <1>1 DEF PhoneLogin, TransactionsInv, TypeOK, Reads
  <2>2. QED
    BY <1>1, <2>1, UndisturbedJoin DEF PhoneLogin
<1>2. ASSUME NEW c \in Customer, WeChatLogin(r, c)
      PROVE  Pts!Next
  <2>1. None \in Inviters(r) /\ {c, None} \cap Customer = {c}
    BY DEF Inviters
  <2>2. QED
    BY <1>2, <2>1, UndisturbedJoin DEF WeChatLogin
<1>3. ASSUME NEW k \in Consult, NEW c \in Customer, NEW ph \in Phone,
             NEW i \in Inviters(r), AddFirstConsult(r, k, c, ph, i)
      PROVE  Pts!Next
  BY <1>3, UndisturbedJoin DEF AddFirstConsult
<1>4. ASSUME NEW c \in Customer, NEW n \in Amount, ConsumerIntegral(r, c, n)
      PROVE  Pts!Next
  BY <1>4, UndisturbedSpend
<1>5. ASSUME NEW k \in Consult, Finish(r, k)
      PROVE  Pts!Next \/ UNCHANGED Pts!integralVars
  BY <1>5, UndisturbedFinish
<1>6. QED
  BY <1>1, <1>2, <1>3, <1>4, <1>5 DEF PointsNext

\* The salesperson of a consult's customer is saved.
LEMMA UndisturbedSaveBoth ==
  ASSUME TransactionsInv, NEW r \in Request, UpToDate(r), NEW k \in Consult, NEW row,
         NEW a, row.customer = Consults(r)[k].customer, SaveBoth(r, k, row, a)
  PROVE  UNCHANGED Pts!integralVars
<1>1. row.customer \in Customer
  BY ReadConsult DEF SaveBoth
<1>2. customer' = [customer EXCEPT ![row.customer] =
                     [customer[row.customer] EXCEPT !.sales = a]]
  BY <1>1, UndisturbedSave DEF SaveBoth, UpToDate
<1>3. QED
  BY <1>2, SalesSaved DEF SaveBoth

\* Every other operation alone leaves points and records.
LEMMA UndisturbedRows ==
  ASSUME TransactionsInv, NEW r \in Request, UpToDate(r), RowsNext(r)
  PROVE  UNCHANGED Pts!integralVars
<1>0. Customers(r) = customer /\ customer \in [Customer -> CustomerRow]
  BY DEF UpToDate, TransactionsInv, TypeOK
<1>1. ASSUME NEW k \in Consult, NEW c \in Customer, NEW i \in Inviters(r),
             AddConsult(r, k, c, i)
      PROVE  UNCHANGED Pts!integralVars
  <2> DEFINE a == IF customer[c].sales # None THEN customer[c].sales ELSE SalesOf(i)
  <2>1. UNCHANGED ledger
        /\ Written(customer, customer', Customers(r), c, [customer[c] EXCEPT !.sales = a])
    BY <1>0, <1>1 DEF AddConsult
  <2> HIDE DEF a
  <2>2. QED
    BY <2>1, UndisturbedWrite, SalesSaved
<1>2. ASSUME NEW k \in Consult, NEW a \in Admin, Allocate(r, k, a)
      PROVE  UNCHANGED Pts!integralVars
  <2> DEFINE row == [Consults(r)[k] EXCEPT !.sales = a, !.status = "ALLOCATE"]
             b == IF Customers(r)[Consults(r)[k].customer].sales = None
                    THEN a ELSE Customers(r)[Consults(r)[k].customer].sales
  <2>1. SaveBoth(r, k, row, b)
    BY <1>2 DEF Allocate
  <2>2. row.customer = Consults(r)[k].customer
    BY ReadConsult DEF ConsultRow
  <2> HIDE DEF row, b
  <2>3. QED
    BY <2>1, <2>2, UndisturbedSaveBoth
<1>3. ASSUME NEW k \in Consult, NEW a \in Admin, ChangeToSalesConsultant(r, k, a)
      PROVE  UNCHANGED Pts!integralVars
  <2> DEFINE row == [Consults(r)[k] EXCEPT !.sales = a]
  <2>1. SaveBoth(r, k, row, a)
    BY <1>3 DEF ChangeToSalesConsultant
  <2>2. row.customer = Consults(r)[k].customer
    BY ReadConsult DEF ConsultRow
  <2> HIDE DEF row
  <2>3. QED
    BY <2>1, <2>2, UndisturbedSaveBoth
<1>4. ASSUME NEW k \in Consult, ChangeToStore(r, k)
      PROVE  UNCHANGED Pts!integralVars
  <2>1. Consults(r)[k].customer \in Customer
    BY <1>4, ReadConsult DEF ChangeToStore
  <2>2. QED
    BY <1>0, <1>4, <2>1, UndisturbedWrite, SalesSaved DEF ChangeToStore
<1>5. ASSUME NEW k \in Consult, Modify(r, k)
      PROVE  UNCHANGED Pts!integralVars
  BY <1>5, SamePoints DEF Modify
<1>6. ASSUME NEW c \in Customer, DeleteCustomer(r, c)
      PROVE  UNCHANGED Pts!integralVars
  <2>1. customer' = [customer EXCEPT ![c] = customer[c]] /\ UNCHANGED ledger
    BY <1>0, <1>6, UndisturbedWrite DEF DeleteCustomer
  <2>2. customer' = customer
    BY <1>0, <2>1
  <2>3. QED
    BY <2>1, <2>2, SamePoints
<1>7. ASSUME NEW cs \in SUBSET Customer, DeleteStore(r, cs)
      PROVE  UNCHANGED Pts!integralVars
  <2>1. ASSUME NEW d \in Customer
        PROVE  /\ customer'[d].phone = customer[d].phone
               /\ customer'[d].integral = customer[d].integral
    <3>1. customer[d] \in CustomerRow
      BY <1>0
    <3>2. customer'[d] \in {customer[d], [customer[d] EXCEPT !.sales = None]}
      BY <1>0, <1>7 DEF DeleteStore
    <3>3. QED
      BY <3>1, <3>2 DEF CustomerRow
  <2>2. QED
    BY <1>7, <2>1, SamePoints DEF DeleteStore
<1>8. QED
  BY <1>1, <1>2, <1>3, <1>4, <1>5, <1>6, <1>7 DEF RowsNext

\* A request that nobody overtook behaves as Integral says, however many requests
\* there are.
THEOREM UndisturbedTheorem == Spec => UndisturbedIsSequential
<1> DEFINE Sequential ==
      \A r \in Request : reads[r].open /\ ~reads'[r].open /\ UpToDate(r) =>
        Pts!Next \/ UNCHANGED Pts!integralVars
<1>1. TransactionsInv /\ [Next]_vars => [Sequential]_vars
  <2> SUFFICES ASSUME TransactionsInv, Next, NEW r \in Request, reads[r].open,
                      ~reads'[r].open, UpToDate(r)
               PROVE  Pts!Next \/ UNCHANGED Pts!integralVars
    OBVIOUS
  <2>0. reads \in [Request -> Reads]
    BY DEF TransactionsInv, TypeOK
  <2>1. PICK s \in Request : \/ \E ph \in Phone : LoginChecks(s, ph)
                             \/ Begin(s)
                             \/ Rollback(s)
                             \/ PointsNext(s)
                             \/ RowsNext(s)
    BY DEF Next
  <2>2. CASE \E ph \in Phone : LoginChecks(s, ph)
    BY <2>0, <2>2 DEF LoginChecks, Reads
  <2>3. CASE Begin(s)
    BY <2>3, <2>0 DEF Begin, Reads
  <2>4. ASSUME Commit(s) PROVE s = r
    BY <2>4, <2>0 DEF Commit
  <2>5. CASE Rollback(s)
    BY <2>5 DEF Rollback, rowVars, Pts!integralVars, member, Members, integral
  <2>6. CASE PointsNext(s)
    BY <2>4, <2>6, PointsNextCommits, UndisturbedPoints
  <2>7. CASE RowsNext(s)
    BY <2>4, <2>7, RowsNextCommits, UndisturbedRows
  <2>8. QED
    BY <2>1, <2>2, <2>3, <2>5, <2>6, <2>7
<1>2. QED
  BY <1>1, TransactionsInvariant, PTL DEF Spec, UndisturbedIsSequential

-----------------------------------------------------------------------------
(* What is left of the model when no two requests overlap.                 *)

PtsP == INSTANCE IntegralProofs

OneRequest == \A r, q \in Request : r = q

\* Nobody is there to overtake a request.
ReadsAreCurrent == \A r \in Request : reads[r].open => UpToDate(r)

LEMMA AloneCurrent ==
  ASSUME OneRequest, TransactionsInv, ReadsAreCurrent, [Next]_vars
  PROVE  ReadsAreCurrent'
<1>1. reads \in [Request -> Reads]
  BY DEF TransactionsInv, TypeOK
<1>2. CASE UNCHANGED vars
  BY <1>2 DEF vars, ReadsAreCurrent, UpToDate, Customers, Consults
<1>3. CASE Next
  <2>1. PICK s \in Request : \/ \E ph \in Phone : LoginChecks(s, ph)
                             \/ Begin(s)
                             \/ Rollback(s)
                             \/ PointsNext(s)
                             \/ RowsNext(s)
    BY <1>3 DEF Next
  <2>2. \A r \in Request : r = s
    BY DEF OneRequest
  <2>3. CASE Begin(s)
    <3>1. reads'[s].customer = customer /\ reads'[s].consult = consult
      BY <1>1, <2>3 DEF Begin, Reads
    <3>2. UNCHANGED <<customer, consult>>
      BY <2>3 DEF Begin, rowVars
    <3>3. QED
      BY <2>2, <3>1, <3>2 DEF ReadsAreCurrent, UpToDate, Customers, Consults
  <2>4. CASE \E ph \in Phone : LoginChecks(s, ph)
    <3>1. ~reads'[s].open
      BY <1>1, <2>4 DEF LoginChecks, Idle, Reads
    <3>2. QED
      BY <2>2, <3>1 DEF ReadsAreCurrent
  <2>5. ASSUME reads' = [reads EXCEPT ![s] = Idle] PROVE ReadsAreCurrent'
    <3>1. ~reads'[s].open
      BY <1>1, <2>5 DEF Idle
    <3>2. QED
      BY <2>2, <3>1 DEF ReadsAreCurrent
  <2>6. CASE Rollback(s)
    BY <2>5, <2>6 DEF Rollback, Ends
  <2>7. CASE PointsNext(s) \/ RowsNext(s)
    BY <2>5, <2>7, PointsNextCommits, RowsNextCommits DEF Commit
  <2>8. QED
    BY <2>1, <2>3, <2>4, <2>6, <2>7
<1>4. QED
  BY <1>2, <1>3

\* A commit is that of an open transaction.
LEMMA CommitsAreOpen ==
  ASSUME NEW r \in Request, PointsNext(r) \/ RowsNext(r)
  PROVE  reads[r].open
BY DEF PointsNext, RowsNext, PhoneLogin, WeChatLogin, AddFirstConsult, ConsumerIntegral,
       Finish, AddConsult, Allocate, ChangeToSalesConsultant, SaveBoth, ChangeToStore, Modify,
       DeleteCustomer, DeleteStore, Serves, Ends

LEMMA AloneStep ==
  ASSUME TransactionsInv, ReadsAreCurrent, [Next]_vars
  PROVE  [Pts!Next]_(Pts!integralVars)
<1>1. CASE UNCHANGED rowVars
  BY <1>1 DEF rowVars, Pts!integralVars, member, Members, integral
<1>2. ASSUME NEW s \in Request, PointsNext(s) \/ RowsNext(s)
      PROVE  [Pts!Next]_(Pts!integralVars)
  <2>1. UpToDate(s)
    BY <1>2, CommitsAreOpen DEF ReadsAreCurrent
  <2>2. QED
    BY <1>2, <2>1, UndisturbedPoints, UndisturbedRows
<1>3. QED
  BY <1>1, <1>2 DEF Next, LoginChecks, Begin, Rollback, vars, rowVars

LEMMA AloneInit == Init => Pts!Init /\ ReadsAreCurrent
BY DEF Init, Pts!Init, member, Members, integral, NoCustomer, ReadsAreCurrent, Idle

\* Requests that come one at a time implement the sequential model of points: reading
\* everything first, registering in a transaction after the one that looked, and saving whole
\* rows is all one to the points as long as nobody overtakes (all the services).
THEOREM AloneTheorem ==
  ASSUME OneRequest
  PROVE  Spec => Pts!Spec
<1>1. TransactionsInv /\ ReadsAreCurrent /\ [Next]_vars => ReadsAreCurrent'
  BY AloneCurrent
<1>2. TransactionsInv /\ ReadsAreCurrent /\ [Next]_vars => [Pts!Next]_(Pts!integralVars)
  BY AloneStep
<1>3. QED
  BY <1>1, <1>2, AloneInit, TransactionsInvariant, PTL DEF Spec, Pts!Spec

LEMMA IntegralsAgree ==
  /\ Pts!Init <=> PtsP!Init
  /\ [Pts!Next]_(Pts!integralVars) <=> [PtsP!Next]_(PtsP!integralVars)
BY DEF Pts!integralVars, PtsP!integralVars, Pts!Int32, PtsP!Int32, Pts!ToInt32,
       PtsP!ToInt32, Pts!NoRecords, PtsP!NoRecords,
       Pts!Positive, PtsP!Positive, Pts!Raised, PtsP!Raised,
       Pts!Increased, PtsP!Increased, Pts!Reduced, PtsP!Reduced,
       Pts!Credited, PtsP!Credited, Pts!Join, PtsP!Join, Pts!Bonus, PtsP!Bonus,
       Pts!ConsumerIntegral, PtsP!ConsumerIntegral, Pts!Init, PtsP!Init,
       Pts!Next, PtsP!Next

\* One request at a time never spends what was not granted, and a record always shows the
\* balance there is: what the run of SpentWereGranted refutes, it refutes by overtaking.
THEOREM AloneSpentTheorem ==
  ASSUME OneRequest
  PROVE  Spec => [](SpentWereGranted /\ Pts!RecordsExplainBalance)
<1>1. PtsP!PointsAssumption
  BY PointsAssumption DEF PtsP!PointsAssumption, Int32, PtsP!Int32
<1>2. PtsP!Spec => []PtsP!RecordsExplainBalance
  BY <1>1, PtsP!RecordsTheorem
<1>3. PtsP!RecordsExplainBalance => Pts!RecordsExplainBalance
  BY DEF PtsP!RecordsExplainBalance, Pts!RecordsExplainBalance
<1>4. TransactionsInv /\ Pts!RecordsExplainBalance => SpentWereGranted
  <2> SUFFICES ASSUME TransactionsInv, Pts!RecordsExplainBalance, NEW c \in Customer,
                      ledger[c].refund = 0
               PROVE  ledger[c].debit <= ledger[c].credit
    BY DEF SpentWereGranted
  <2>1. ledger[c].credit \in Int /\ ledger[c].debit \in Int
    BY DEF TransactionsInv, TypeOK, Pts!Records
  <2>2. integral[c] \in Int /\ 0 <= integral[c]
    BY DEF TransactionsInv, PointsWithinLimit
  <2>3. integral[c] <= ledger[c].credit + 0 - ledger[c].debit
    BY DEF Pts!RecordsExplainBalance
  <2>4. QED
    BY <2>1, <2>2, <2>3
<1>5. Spec => []PtsP!RecordsExplainBalance
  BY <1>2, IntegralsAgree, AloneTheorem, PTL DEF Pts!Spec, PtsP!Spec
<1>6. QED
  BY <1>3, <1>4, <1>5, TransactionsInvariant, PTL
=============================================================================
