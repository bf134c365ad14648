------------------------------ MODULE CarMall ------------------------------
(***************************************************************************)
(* Customers, consults (咨询单) and who looks after them: ConsultService-   *)
(* Impl, CustomerServiceImpl and the logins of customers, on top of the    *)
(* staff (Accounts) and the loyalty points (Integral).  One request at a   *)
(* time; a request is one transaction, so one action.                      *)
(*                                                                         *)
(* A consult is bound to a salesperson, and so is its customer, and the    *)
(* two need not agree: transfers and deletions move one, the other or      *)
(* both.  The status of the consult is a third piece of the same story.    *)
(*                                                                         *)
(* An exception rolls the request back, so what ends in one is no action.  *)
(* A guard names the exceptions the code throws and the null pointers it   *)
(* follows.  The phone names the customer: with one request at a time      *)
(* existsByPhone keeps phones unique.                                      *)
(***************************************************************************)
EXTENDS IntegralEnum

CONSTANTS Store, Admin, Username, Root, RootName, None, Invalid
CONSTANTS Customer, Consult     \* ids of the rows that may ever be inserted

ASSUME IdAssumption ==
  /\ Root \in Admin /\ RootName \in Username
  /\ None \notin Store \cup Admin \cup Username \cup Customer
  /\ Invalid \notin Username
  /\ None # Invalid
  /\ Customer \cap Admin = {}

VARIABLES store, storeAdminId, admin, session, sent   \* see Accounts
VARIABLES member, integral, ledger                    \* see Integral
VARIABLES
  customer,  \* customer[c]: the store and salesperson of c, and its flags
  consult,   \* consult[k]: the row of consult k
  bonus      \* bonus[k]: how many records of a finish bonus name consult k

Acc == INSTANCE Accounts
Pts == INSTANCE Integral

staffVars    == <<store, storeAdminId, admin, session, sent>>
pointVars    == <<member, integral, ledger>>
customerVars == <<customer, consult, bonus>>
vars == <<staffVars, pointVars, customerVars>>

-----------------------------------------------------------------------------

CustomerRow == [phone    : BOOLEAN,
                store    : Store \cup {None},
                sales    : Admin \cup {None},
                disabled : BOOLEAN]

ConsultRow == [customer  : Customer \cup {None},
               store     : Store \cup {None},
               sales     : Admin \cup {None},
               status    : {"NEW", "ALLOCATE", "FINISH"},
               invitedId : Customer \cup Admin \cup {None},
               disabled  : BOOLEAN]

NoCustomer == [phone |-> FALSE, store |-> None, sales |-> None, disabled |-> FALSE]

NoConsult == [customer |-> None, store |-> None, sales |-> None, status |-> "NEW",
              invitedId |-> None, disabled |-> FALSE]

Placed(k) == consult[k].customer # None

\* The customer row behind consult k.
CustomerOf(k) == customer[consult[k].customer]

Stores == {s \in Store : store[s] # "absent"}
Admins == {a \in Admin : admin[a].username # None}

\* A salesperson after "A01", a customer after "C01", or no inviter.
Inviters == member \cup Admins \cup {None}

\* belong2Sales: the customer of the consult is bound to the account of p.
Belongs2Sales(p, k) == CustomerOf(k).sales = p.id

-----------------------------------------------------------------------------

\* register: the row of new customer c, bound to the salesperson who invited c.
\* Points go to c, and to the customer who invited c.
NewCustomer(inviter, hasPhone) ==
  [phone |-> hasPhone, store |-> None,
   sales |-> IF inviter \in Admin THEN inviter ELSE None, disabled |-> FALSE]

\* Mutant of RegisterPoints: the customer is not saved.
RegisterNothing(c, inviter) == UNCHANGED pointVars

RegisterPoints(c, inviter) ==
  Pts!Join(c, IF inviter \in Customer THEN inviter ELSE None)

PhoneLogin(c, inviter) ==
  /\ c \notin member
  /\ RegisterPoints(c, inviter)
  /\ customer' = [customer EXCEPT ![c] = NewCustomer(inviter, TRUE)]
  /\ UNCHANGED <<staffVars, consult, bonus>>

WeChatLogin(c) ==
  /\ c \notin member
  /\ RegisterPoints(c, None)
  /\ customer' = [customer EXCEPT ![c] = NewCustomer(None, FALSE)]
  /\ UNCHANGED <<staffVars, consult, bonus>>

-----------------------------------------------------------------------------

\* The store a customer without salesperson gets: its own, the one it chose, or
\* getValidId, the first row of the store table, open or closed.
StoreChoices(row, chosen) ==
  CASE row.store # None -> {row.store}
    [] row.store = None /\ chosen # None -> {chosen}
    [] OTHER -> Stores

\* The salesperson a consult starts with: the customer's, else the inviter.
FirstSales(row, inviter) ==
  CASE row.sales # None -> row.sales
    [] row.sales = None /\ inviter \in Admin -> inviter
    [] OTHER -> None

\* add, by the registered customer or the new customer with row `row`.  A
\* salesperson's store replaces the choice; without a store (a deleted
\* salesperson's) the request fails.
Place(k, c, row, chosen, inviter) ==
  \E s \in StoreChoices(row, chosen) :
    LET sales  == FirstSales(row, inviter)
        target == IF sales # None THEN admin[sales].store ELSE s
    IN  /\ target # None
        /\ customer' = [customer EXCEPT
                          ![c] = [row EXCEPT !.store = target, !.sales = sales]]
        /\ consult' = [consult EXCEPT
             ![k] = [customer |-> c, store |-> target, sales |-> sales,
                     status |-> IF sales # None THEN "ALLOCATE" ELSE "NEW",
                     invitedId |-> inviter, disabled |-> FALSE]]

AddConsult(k, c, chosen, inviter) ==
  /\ ~Placed(k)
  /\ \/ /\ c \in member /\ customer[c].phone
        /\ Place(k, c, customer[c], chosen, inviter)
        /\ UNCHANGED pointVars
     \/ /\ c \notin member
        /\ RegisterPoints(c, inviter)
        /\ Place(k, c, NewCustomer(inviter, TRUE), chosen, inviter)
  /\ UNCHANGED <<staffVars, bonus>>

\* allocate: whoever may manage sales staff, for customers of the store in its
\* session.  The salesperson may be any account, and a customer who has one
\* keeps it.  The status is not looked at.
Allocate(p, k, a) ==
  /\ Acc!Authorized(p, "SALES")
  /\ Placed(k)
  /\ consult[k].sales = None
  /\ CustomerOf(k).store # None
  /\ CustomerOf(k).store = p.row.store
  /\ consult' = [consult EXCEPT ![k] = [@ EXCEPT !.sales = a, !.status = "ALLOCATE"]]
  /\ customer' = [customer EXCEPT ![consult[k].customer].sales =
                                    IF @ = None THEN a ELSE @]
  /\ UNCHANGED <<staffVars, pointVars, bonus>>

\* Mutant of MayChange: isConsultFinish is not called.
MayAlwaysChange(k) == Placed(k)

\* isConsultFinish: "已完结订单不能转单".
MayChange(k) == Placed(k) /\ consult[k].status # "FINISH"

\* changeToStore: consult and customer move; neither keeps a salesperson.  The
\* status stays.
ChangeToStore(p, k, s) ==
  /\ Acc!Authorized(p, "STORE")
  /\ MayChange(k)
  /\ consult' = [consult EXCEPT ![k] = [@ EXCEPT !.store = s, !.sales = None]]
  /\ customer' = [customer EXCEPT ![consult[k].customer] =
                                    [@ EXCEPT !.store = s, !.sales = None]]
  /\ UNCHANGED <<staffVars, pointVars, bonus>>

\* changeToSalesConsultant: consult and customer get the salesperson, whatever
\* the store of either.  The status stays.
ChangeToSalesConsultant(p, k, a) ==
  /\ Acc!Authorized(p, "SALES")
  /\ MayChange(k)
  /\ consult' = [consult EXCEPT ![k].sales = a]
  /\ customer' = [customer EXCEPT ![consult[k].customer].sales = a]
  /\ UNCHANGED <<staffVars, pointVars, bonus>>

\* delete hides the consult from queries; every operation still works on it.
DeleteConsult(p, k) ==
  /\ Placed(k)
  /\ Belongs2Sales(p, k)
  /\ consult' = [consult EXCEPT ![k].disabled = TRUE]
  /\ UNCHANGED <<staffVars, pointVars, customer, bonus>>

\* Mutants of PayInviter: nobody is paid; points without a record.
PayNobody(k) == UNCHANGED <<pointVars, bonus>>

PayUnrecorded(k) ==
  IF consult[k].invitedId = None
    THEN UNCHANGED <<pointVars, bonus>>
    ELSE /\ consult[k].invitedId \in member
         /\ integral' = [integral EXCEPT ![consult[k].invitedId] =
                                           Pts!Raised(@, FINISH_CONSULT)]
         /\ bonus' = [bonus EXCEPT ![k] = @ + 1]
         /\ UNCHANGED <<member, ledger>>

\* finish pays the inviter before it looks at the status.  An inviter who is no
\* customer makes customerService.findOne throw: the exception is caught, but it
\* has marked the transaction for rollback, and the request fails at its commit.
PayInviter(k) ==
  IF consult[k].invitedId = None
    THEN UNCHANGED <<pointVars, bonus>>
    ELSE /\ Pts!Bonus(consult[k].invitedId)
         /\ bonus' = [bonus EXCEPT ![k] = @ + 1]

\* Mutant of Finish: the payment is not rolled back when the status is wrong.
FinishUnchecked(p, k) ==
  /\ Placed(k)
  /\ Belongs2Sales(p, k)
  /\ PayInviter(k)
  /\ consult' = [consult EXCEPT ![k].status = IF @ = "ALLOCATE" THEN "FINISH" ELSE @]
  /\ UNCHANGED <<staffVars, customer>>

Finish(p, k) ==
  /\ Placed(k)
  /\ Belongs2Sales(p, k)
  /\ PayInviter(k)
  /\ consult[k].status = "ALLOCATE"
  /\ consult' = [consult EXCEPT ![k].status = "FINISH"]
  /\ UNCHANGED <<staffVars, customer>>

\* modify copies what the client sends, the status and the customer excepted.
\* "storeId" and "salesConsultantId" are to be left alone as well, but the fields
\* are called store and salesConsultantAdmin.  An empty invitedId clears the
\* inviter; BeanCopyUtil skips the null of the other two.  A client that sends several
\* fields does the same as one that sends them one after the other.
Modify(p, k) ==
  /\ Placed(k)
  /\ Belongs2Sales(p, k)
  /\ \/ \E s \in Stores : consult' = [consult EXCEPT ![k].store = s]
     \/ \E a \in Admins : consult' = [consult EXCEPT ![k].sales = a]
     \/ \E i \in Inviters : consult' = [consult EXCEPT ![k].invitedId = i]
  /\ UNCHANGED <<staffVars, pointVars, customer, bonus>>

\* "用户拉黑": the row is disabled; registering and consulting do not look at it.
DeleteCustomer(p, c) ==
  /\ Acc!Authorized(p, "CUSTOMER")
  /\ c \in member
  /\ customer[c].sales = p.id
  /\ customer' = [customer EXCEPT ![c].disabled = TRUE]
  /\ UNCHANGED <<staffVars, pointVars, consult, bonus>>

ConsumerIntegral(p, c, n) ==
  /\ Acc!Authorized(p, "CUSTOMER")
  /\ Pts!ConsumerIntegral(c, n)
  /\ UNCHANGED <<staffVars, customerVars>>

\* Mutant of DeleteStore: the staff is not deleted.
DeleteStoreOnly(p, s) ==
  /\ Acc!Authorized(p, "STORE")
  /\ Acc!StoreExists(s)
  /\ store' = [store EXCEPT ![s] = "closed"]
  /\ UNCHANGED <<storeAdminId, admin, session, sent, pointVars, customerVars>>

\* Closing a store also unbinds its customers; their consults are not touched.
DeleteStore(p, s) ==
  /\ Acc!DeleteStore(p, s)
  /\ customer' = [c \in Customer |->
       IF customer[c].store = s
         THEN [customer[c] EXCEPT !.store = None, !.sales = None]
         ELSE customer[c]]
  /\ UNCHANGED <<pointVars, consult, bonus>>

-----------------------------------------------------------------------------

Init ==
  /\ Acc!Init
  /\ Pts!Init
  /\ customer = [c \in Customer |-> NoCustomer]
  /\ consult = [k \in Consult |-> NoConsult]
  /\ bonus = [k \in Consult |-> 0]

CustomerNext ==
  \/ \E c \in Customer, i \in Inviters : PhoneLogin(c, i)
  \/ \E c \in Customer : WeChatLogin(c)
  \/ \E k \in Consult, c \in Customer, s \in Stores \cup {None}, i \in Inviters :
       AddConsult(k, c, s, i)

StoreNext ==
  \/ \E p \in session, k \in Consult, a \in Admins : Allocate(p, k, a)
  \/ \E p \in session, k \in Consult, s \in Stores : ChangeToStore(p, k, s)
  \/ \E p \in session, k \in Consult, a \in Admins :
       ChangeToSalesConsultant(p, k, a)
  \/ \E p \in session, s \in Store : DeleteStore(p, s)

SalesNext ==
  \/ \E p \in session, k \in Consult : Finish(p, k)
  \/ \E p \in session, k \in Consult : Modify(p, k)
  \/ \E p \in session, c \in Customer, n \in Amount : ConsumerIntegral(p, c, n)

HideNext ==
  \/ \E p \in session, k \in Consult : DeleteConsult(p, k)
  \/ \E p \in session, c \in Customer : DeleteCustomer(p, c)

StaffNext == Acc!StaffNext /\ UNCHANGED <<pointVars, customerVars>>

Next == CustomerNext \/ StoreNext \/ SalesNext \/ HideNext \/ StaffNext

Spec == Init /\ [][Next]_vars

-----------------------------------------------------------------------------

\* Every variable has its type, and a consult has a registered customer.
RowsTypeOK ==
  /\ customer \in [Customer -> CustomerRow]
  /\ consult \in [Consult -> ConsultRow]
  /\ bonus \in [Consult -> Nat]
  /\ \A k \in Consult : Placed(k) => consult[k].customer \in member

TypeOK == Acc!TypeOK /\ Pts!TypeOK /\ RowsTypeOK

\* A customer's points and their records change as Integral says, whatever else
\* a request does: AddConsult is at most a Join, Finish at most one Bonus.
ImplementsIntegral == Pts!Spec

\* "积分上限10000" (IntegralEnum:15), in the whole shop: see Integral.
PointsWithinLimit == Pts!PointsWithinLimit

\* No operation of the shop changes points and forgets or misstates the record:
\* see Integral.
RecordsExplainBalance == Pts!RecordsExplainBalance

\* No operation of the shop takes points without a record: see Integral.
FallsAreRecorded == Pts!FallsAreRecorded

\* Stores, accounts and sessions change as Accounts says: nothing that customers
\* or consults do reaches them.
ImplementsAccounts == Acc!Spec

\* finish, seen from consult k.
Finishes(k) == consult[k].status = "ALLOCATE" /\ consult'[k].status = "FINISH"

StatusStep(k) ==
  /\ consult'[k].status # consult[k].status =>
       \/ consult'[k].status = "ALLOCATE" /\ consult[k].sales = None
       \/ Finishes(k)
  /\ consult[k].status = "FINISH" /\ consult[k].sales # None =>
       consult'[k].status = "FINISH" /\ consult'[k].sales # None

PaymentStep(k) ==
  /\ bonus'[k] # bonus[k] => Finishes(k)
  /\ Finishes(k) /\ consult[k].invitedId # None =>
       /\ bonus'[k] = bonus[k] + 1
       /\ ledger'[consult[k].invitedId].credit =
            ledger[consult[k].invitedId].credit + FINISH_CONSULT

\* The status runs NEW, ALLOCATE, FINISH.  A finished consult is reopened only
\* if it has no salesperson, and it cannot lose the one it has: a salesperson's
\* finished consult is finished for good, though allocate never looks at the
\* status.
StatusFlow == [][\A k \in Consult : StatusStep(k)]_vars

\* Finishing and paying are one: the inviter is paid in the very step in which
\* an invited consult goes from ALLOCATE to FINISH, once, and in no other step,
\* though finish pays before it finds out whether it may finish.
FinishPaysInviter == [][\A k \in Consult : PaymentStep(k)]_vars

\* Nobody is paid for a consult that was never given to a salesperson.
PaidWasAllocated == \A k \in Consult : bonus[k] > 0 => consult[k].status # "NEW"

\* PaidWasAllocated and StatusFlow need that a row exists before it is changed.
UnplacedIsEmpty == \A k \in Consult : ~Placed(k) => consult[k] = NoConsult

ConsultInv == TypeOK /\ UnplacedIsEmpty /\ PaidWasAllocated

-----------------------------------------------------------------------------
(* What a comment in the code says and the code does not do. *)

\* "已完结订单不能转单" (ConsultServiceImpl:223): a finished consult is not given
\* out again.
FinishedStaysFinished ==
  [][\A k \in Consult :
       consult[k].status = "FINISH" => consult'[k].status = "FINISH"]_vars
=============================================================================
