------------------------------ MODULE Integral ------------------------------
(***************************************************************************)
(* The loyalty points (integral) of the customers and the table of         *)
(* IntegralRecords, one request at a time.                                 *)
(*                                                                         *)
(* The table is kept as what the properties ask of it: per customer the    *)
(* sum of the recorded increases, the sums of the recorded deductions and  *)
(* of the negative ones among them, which give points, and the balance     *)
(* written in the newest record.  Balances are Java's ints and wrap; the   *)
(* sums are no numbers of the program and do not.                          *)
(***************************************************************************)
EXTENDS IntegralEnum

CONSTANTS
  Customer,  \* ids of the customers that may ever register
  None

VARIABLES
  member,    \* the customers in the table
  integral,  \* integral[c]: the balance of c
  ledger     \* ledger[c]: the records of c

integralVars == <<member, integral, ledger>>

-----------------------------------------------------------------------------

Records == [credit : Nat, debit : Nat, refund : Nat, balance : Int32]

NoRecords == [credit |-> 0, debit |-> 0, refund |-> 0, balance |-> 0]

Positive(n) == IF n > 0 THEN n ELSE 0

\* Mutant of Raised: the limit is not looked at.
Unlimited(balance, n) == balance + n

\* Customer.modifyIntegral: whatever exceeds the limit is dropped, of the int that
\* the sum comes out as.
Raised(balance, n) ==
  IF ToInt32(balance + n) > UPPER_LIMIT THEN UPPER_LIMIT ELSE ToInt32(balance + n)

\* Mutants of Increased and Reduced: the balance of before; no amount.
StaleIncrease(records, n, b) ==
  [records EXCEPT !.credit = @ + n, !.balance = b - n]

EmptyReduction(records, n, b) == [records EXCEPT !.balance = b]

\* The records of a customer after one more: n points, leaving the balance b.
Increased(records, n, b) ==
  [credit |-> records.credit + n, debit |-> records.debit,
   refund |-> records.refund, balance |-> b]

Reduced(records, n, b) ==
  [credit |-> records.credit, debit |-> records.debit + Positive(n),
   refund |-> records.refund + Positive(-n), balance |-> b]

\* Points and records after each customer of cs received n points.
Credited(cs, n) ==
  /\ integral' = [c \in Customer |-> IF c \in cs THEN Raised(integral[c], n)
                                                 ELSE integral[c]]
  /\ ledger' = [c \in Customer |->
       IF c \in cs THEN Increased(ledger[c], n, Raised(integral[c], n))
                   ELSE ledger[c]]

-----------------------------------------------------------------------------

\* register: c is new; a customer i who invited c is paid as well.
Join(c, i) ==
  /\ c \notin member
  /\ i \in member \cup {None}
  /\ member' = member \cup {c}
  /\ Credited({c, i} \cap Customer, REGISTER)

\* The points finish gives the customer who invited the customer of a consult.
Bonus(i) ==
  /\ i \in member
  /\ Credited({i}, FINISH_CONSULT)
  /\ UNCHANGED member

\* consumerIntegral: only the balance is checked, not the sign of the amount.
ConsumerIntegral(c, n) ==
  /\ c \in member
  /\ integral[c] >= n
  /\ integral' = [integral EXCEPT ![c] = ToInt32(@ - n)]
  /\ ledger' = [ledger EXCEPT ![c] = Reduced(@, n, ToInt32(integral[c] - n))]
  /\ UNCHANGED member

Init ==
  /\ member = {}
  /\ integral = [c \in Customer |-> 0]
  /\ ledger = [c \in Customer |-> NoRecords]

Next ==
  \/ \E c \in Customer, i \in Customer \cup {None} : Join(c, i)
  \/ \E i \in member : Bonus(i)
  \/ \E c \in Customer, n \in Amount : ConsumerIntegral(c, n)

Spec == Init /\ [][Next]_integralVars

-----------------------------------------------------------------------------

\* Every variable has its type.
TypeOK ==
  /\ member \subseteq Customer
  /\ integral \in [Customer -> Int32]
  /\ ledger \in [Customer -> Records]

\* "积分上限10000" (IntegralEnum:15): no balance is above the limit, and none is
\* overdrawn, but that of a customer who spent a negative amount, and the records
\* show it.
PointsWithinLimit ==
  \A c \in Customer : ledger[c].refund = 0 => integral[c] \in 0..UPPER_LIMIT

\* The records account for every balance, whatever was spent: a customer owns no
\* point that no record granted, and the newest record shows the balance there is
\* (the field "积分余额" of IntegralRecord), so no operation changes points and
\* forgets, or misstates, the record.
RecordsExplainBalance ==
  \A c \in Customer :
    /\ integral[c] <= ledger[c].credit + ledger[c].refund - ledger[c].debit
    /\ integral[c] = ledger[c].balance

\* PointsWithinLimit and RecordsExplainBalance together are what the
\* operations on points preserve.
IntegralInv ==
  /\ TypeOK
  /\ PointsWithinLimit
  /\ RecordsExplainBalance

FallIsRecorded(c) ==
  integral'[c] < integral[c] =>
    \/ ledger'[c].debit - ledger[c].debit = integral[c] - integral'[c]
    \/ integral[c] > UPPER_LIMIT
    \/ ledger'[c].refund > ledger[c].refund

\* Points are not lost without a record: a balance falls by an amount that the
\* customer's deductions show, unless it was above the limit (and the next
\* increase cuts it) or the negative amount just spent is too large for an int.
FallsAreRecorded == [][\A c \in Customer : FallIsRecorded(c)]_integralVars
=============================================================================
