--------------------------- MODULE CarMallProofs ---------------------------
(* Proofs about CarMall, for any ids, point values and limit.              *)
EXTENDS CarMall, TLAPS

AccP == INSTANCE AccountsProofs
PtsP == INSTANCE IntegralProofs

USE IdAssumption

\* What a request on customers and consults does to the staff: nothing.
LEMMA StaffUntouched ==
  ASSUME CustomerNext \/ SalesNext \/ HideNext \/
         (\E p \in session, k \in Consult, a \in Admins : Allocate(p, k, a)) \/
         (\E p \in session, k \in Consult, s \in Stores : ChangeToStore(p, k, s)) \/
         (\E p \in session, k \in Consult, a \in Admins : ChangeToSalesConsultant(p, k, a))
  PROVE  UNCHANGED staffVars
BY DEF CustomerNext, SalesNext, HideNext, PhoneLogin, WeChatLogin, AddConsult,
       Allocate, ChangeToStore, ChangeToSalesConsultant, Finish, Modify,
       DeleteConsult, DeleteCustomer, ConsumerIntegral

\* The requests on customers and consults leave the staff to Accounts: whatever
\* holds of every behaviour of Accounts holds of the whole system.
THEOREM StaffRefinement == Spec => ImplementsAccounts
<1>1. Init => Acc!Init
  BY DEF Init
<1>2. [Next]_vars => [Acc!Next]_(Acc!accountVars)
  <2> SUFFICES ASSUME [Next]_vars PROVE [Acc!Next]_(Acc!accountVars)
    OBVIOUS
  <2> USE DEF Acc!accountVars, staffVars
  <2>1. CASE UNCHANGED vars
    BY <2>1 DEF vars
  <2>2. CASE StaffNext
    BY <2>2 DEF StaffNext, Acc!Next
  <2>3. ASSUME NEW p \in session, NEW s \in Store, DeleteStore(p, s)
        PROVE  Acc!Next
    BY <2>3 DEF DeleteStore, Acc!Next
  <2>4. CASE StoreNext
    BY <2>3, <2>4, StaffUntouched DEF StoreNext
  <2>5. CASE CustomerNext \/ SalesNext \/ HideNext
    BY <2>5, StaffUntouched
  <2>6. QED
    BY <2>1, <2>2, <2>4, <2>5 DEF Next
<1>3. QED
  BY <1>1, <1>2, PTL DEF Spec, ImplementsAccounts, Acc!Spec

-----------------------------------------------------------------------------

\* Registering is a Join, with the inviter if that is a customer.
LEMMA RegisterIsJoin ==
  ASSUME NEW c \in Customer, NEW i \in Inviters, RegisterPoints(c, i)
  PROVE  Pts!Next
<1>1. (IF i \in Customer THEN i ELSE None) \in Customer \cup {None}
  OBVIOUS
<1>2. QED
  BY <1>1 DEF RegisterPoints, Pts!Next

\* A request is a step of Integral or leaves points and records alone.
LEMMA PointsStep ==
  ASSUME [Next]_vars PROVE [Pts!Next]_(Pts!integralVars)
<1> USE DEF Pts!integralVars, pointVars
<1>1. CASE UNCHANGED vars
  BY <1>1 DEF vars
<1>2. CASE CustomerNext
  BY <1>2, RegisterIsJoin DEF CustomerNext, PhoneLogin, WeChatLogin, AddConsult,
                              Inviters
<1>3. ASSUME NEW p \in session, NEW k \in Consult, Finish(p, k)
      PROVE  [Pts!Next]_(Pts!integralVars)
  BY <1>3 DEF Finish, PayInviter, Pts!Next, Pts!Bonus
<1>4. ASSUME NEW p \in session, NEW c \in Customer, NEW n \in Amount,
             ConsumerIntegral(p, c, n)
      PROVE  Pts!Next
  BY <1>4 DEF ConsumerIntegral, Pts!Next
<1>5. ASSUME NEW p \in session, NEW k \in Consult, Modify(p, k)
      PROVE  UNCHANGED Pts!integralVars
  BY <1>5 DEF Modify
<1>6. CASE SalesNext
  BY <1>3, <1>4, <1>5, <1>6 DEF SalesNext
<1>7. CASE StoreNext \/ HideNext \/ StaffNext
  BY <1>7 DEF StoreNext, Allocate, ChangeToStore, ChangeToSalesConsultant,
              DeleteStore, HideNext, DeleteConsult, DeleteCustomer, StaffNext
<1>8. QED
  BY <1>1, <1>2, <1>6, <1>7 DEF Next

\* Points and records change as Integral says, whatever else a request does: what
\* is proved of Integral holds of the whole system.
THEOREM PointsRefinement == Spec => ImplementsIntegral
<1>1. Init => Pts!Init
  BY DEF Init
<1>2. [Next]_vars => [Pts!Next]_(Pts!integralVars)
  BY PointsStep
<1>3. QED
  BY <1>1, <1>2, PTL DEF Spec, ImplementsIntegral, Pts!Spec

-----------------------------------------------------------------------------

\* AccP is the same module instantiated with the same parameters as Acc, so their
\* definitions say the same.
LEMMA AccountsAgree ==
  /\ Acc!Init <=> AccP!Init
  /\ [Acc!Next]_(Acc!accountVars) <=> [AccP!Next]_(AccP!accountVars)
  /\ AccP!TypeOK => Acc!TypeOK
  /\ AccP!BoundAccountIsLive => Acc!BoundAccountIsLive
  /\ AccP!LiveSessionIsCurrent => Acc!LiveSessionIsCurrent
BY DEF Acc!accountVars, AccP!accountVars, Acc!Role, AccP!Role,
       Acc!Authority, AccP!Authority, Acc!Row, AccP!Row, Acc!NoRow,
       AccP!NoRow, Acc!Exists, AccP!Exists, Acc!StoreExists,
       AccP!StoreExists, Acc!Authorized, AccP!Authorized, Acc!DeletedRow,
       AccP!DeletedRow, Acc!Register, AccP!Register, Acc!AddStore,
       AccP!AddStore, Acc!StoreAdministrator, AccP!StoreAdministrator,
       Acc!SalesConsultant, AccP!SalesConsultant,
       Acc!PlatformAdministrator, AccP!PlatformAdministrator,
       Acc!FreedAccount, AccP!FreedAccount, Acc!DeleteAdmin,
       AccP!DeleteAdmin, Acc!ChangePassword, AccP!ChangePassword,
       Acc!DeleteStore, AccP!DeleteStore, Acc!Login, AccP!Login,
       Acc!Logout, AccP!Logout, Acc!Init, AccP!Init, Acc!StaffNext,
       AccP!StaffNext, Acc!Next, AccP!Next, Acc!Live, AccP!Live,
       Acc!TypeOK, AccP!TypeOK, Acc!BoundAccountIsLive,
       AccP!BoundAccountIsLive, Acc!LiveSessionIsCurrent,
       AccP!LiveSessionIsCurrent

\* The staff keeps its types in the whole system, a store's account is live and
\* a live session is current, whatever customers and consults do: the theorems
\* of Accounts, carried over by StaffRefinement.
THEOREM StaffTheorem ==
  Spec => [](Acc!TypeOK /\ Acc!BoundAccountIsLive /\ Acc!LiveSessionIsCurrent)
<1>1. AccP!Spec => []AccP!TypeOK
  BY AccP!AccountsTypeOK DEF AccP!RootAssumption, AccP!NoneAssumption
<1>2. AccP!Spec => []AccP!BoundAccountIsLive
  BY AccP!BoundAccountTheorem DEF AccP!RootAssumption, AccP!NoneAssumption
<1>3. AccP!Spec => []AccP!LiveSessionIsCurrent
  BY AccP!LiveSessionTheorem DEF AccP!RootAssumption, AccP!NoneAssumption
<1>4. QED
  BY <1>1, <1>2, <1>3, AccountsAgree, StaffRefinement, PTL
     DEF ImplementsAccounts, Acc!Spec, AccP!Spec

\* PtsP is Integral with the same parameters as Pts.
LEMMA IntegralsAgree ==
  /\ Pts!Init <=> PtsP!Init
  /\ [Pts!Next]_(Pts!integralVars) <=> [PtsP!Next]_(PtsP!integralVars)
  /\ PtsP!TypeOK => Pts!TypeOK
  /\ PtsP!PointsWithinLimit => PointsWithinLimit
  /\ PtsP!RecordsExplainBalance => RecordsExplainBalance
  /\ [\A c \in Customer : PtsP!FallIsRecorded(c)]_(PtsP!integralVars)
       <=> [\A c \in Customer : Pts!FallIsRecorded(c)]_(Pts!integralVars)
BY DEF Pts!integralVars, PtsP!integralVars, Pts!Int32, PtsP!Int32, Pts!ToInt32,
       PtsP!ToInt32, Pts!Records, PtsP!Records, Pts!NoRecords, PtsP!NoRecords,
       Pts!Positive, PtsP!Positive, Pts!Raised, PtsP!Raised,
       Pts!Increased, PtsP!Increased, Pts!Reduced, PtsP!Reduced,
       Pts!Credited, PtsP!Credited, Pts!Join, PtsP!Join, Pts!Bonus, PtsP!Bonus,
       Pts!ConsumerIntegral, PtsP!ConsumerIntegral, Pts!Init, PtsP!Init,
       Pts!Next, PtsP!Next, Pts!TypeOK, PtsP!TypeOK,
       Pts!PointsWithinLimit, PtsP!PointsWithinLimit, PointsWithinLimit,
       Pts!RecordsExplainBalance, PtsP!RecordsExplainBalance, RecordsExplainBalance,
       Pts!FallIsRecorded, PtsP!FallIsRecorded

\* Points and records keep their types in the whole system.
LEMMA PointsTypeOK == Spec => []Pts!TypeOK
<1>1. PtsP!PointsAssumption
  BY PointsAssumption DEF PtsP!PointsAssumption, Int32, PtsP!Int32
<1>2. PtsP!Spec => []PtsP!TypeOK
  BY <1>1, PtsP!IntegralTypeOK
<1>3. QED
  BY <1>2, IntegralsAgree, PointsRefinement, PTL
     DEF ImplementsIntegral, Pts!Spec, PtsP!Spec

\* Whatever amounts customers spend, a balance leaves 0..UPPER_LIMIT only where the
\* records show a negative amount, also when registration, consults and their
\* bonuses interleave: the theorem of Integral, carried over by PointsRefinement.
THEOREM PointsTheoremOfTheShop == Spec => []PointsWithinLimit
<1>1. PtsP!PointsAssumption
  BY PointsAssumption DEF PtsP!PointsAssumption, Int32, PtsP!Int32
<1>2. PtsP!Spec => []PtsP!PointsWithinLimit
  BY <1>1, PtsP!PointsTheorem
<1>3. QED
  BY <1>2, IntegralsAgree, PointsRefinement, PTL
     DEF ImplementsIntegral, Pts!Spec, PtsP!Spec

\* So is every balance explained by its records, whichever service changed it.
THEOREM RecordsTheoremOfTheShop == Spec => []RecordsExplainBalance
<1>1. PtsP!PointsAssumption
  BY PointsAssumption DEF PtsP!PointsAssumption, Int32, PtsP!Int32
<1>2. PtsP!Spec => []PtsP!RecordsExplainBalance
  BY <1>1, PtsP!RecordsTheorem
<1>3. QED
  BY <1>2, IntegralsAgree, PointsRefinement, PTL
     DEF ImplementsIntegral, Pts!Spec, PtsP!Spec

\* Nor does any of its operations take points from a customer whose balance is
\* within the limit but by a deduction that is recorded.
THEOREM FallsTheoremOfTheShop == Spec => FallsAreRecorded
<1>1. PtsP!PointsAssumption
  BY PointsAssumption DEF PtsP!PointsAssumption, Int32, PtsP!Int32
<1>2. PtsP!Spec => PtsP!FallsAreRecorded
  BY <1>1, PtsP!FallsTheorem
<1>3. QED
  BY <1>2, IntegralsAgree, PointsRefinement, PTL
     DEF ImplementsIntegral, Pts!Spec, PtsP!Spec, FallsAreRecorded,
         Pts!FallsAreRecorded, PtsP!FallsAreRecorded

-----------------------------------------------------------------------------

\* What the rows of the shop are made of: inviters, stores and accounts that
\* were created.
LEMMA InvitersType ==
  ASSUME Pts!TypeOK
  PROVE  /\ Inviters \subseteq Customer \cup Admin \cup {None}
         /\ Stores \subseteq Store
         /\ Admins \subseteq Admin
BY DEF Inviters, Stores, Admins, Pts!TypeOK

\* A new customer's row is typed.
LEMMA NewCustomerType ==
  ASSUME NEW i, NEW hasPhone \in BOOLEAN
  PROVE  NewCustomer(i, hasPhone) \in CustomerRow
BY DEF NewCustomer, CustomerRow

\* Placing a consult keeps the rows typed; the customer becomes a member if it
\* was none.
LEMMA PlaceType ==
  ASSUME Acc!TypeOK, RowsTypeOK, NEW k \in Consult, NEW c \in Customer,
         NEW row \in CustomerRow, NEW chosen \in Store \cup {None},
         NEW i \in Customer \cup Admin \cup {None},
         Place(k, c, row, chosen, i), c \in member', member \subseteq member',
         bonus' = bonus
  PROVE  RowsTypeOK'
<1>1. StoreChoices(row, chosen) \subseteq Store
  BY DEF StoreChoices, Stores, CustomerRow
<1>2. FirstSales(row, i) \in Admin \cup {None}
  BY DEF FirstSales, CustomerRow
<1>3. \A a \in Admin : admin[a].store \in Store \cup {None}
  BY DEF Acc!TypeOK, Acc!Row
<1> DEFINE sales  == FirstSales(row, i)
           status == IF sales # None THEN "ALLOCATE" ELSE "NEW"
<1>4. PICK s \in StoreChoices(row, chosen) :
        LET target == IF sales # None THEN admin[sales].store ELSE s
        IN  /\ target # None
            /\ customer' = [customer EXCEPT
                              ![c] = [row EXCEPT !.store = target, !.sales = sales]]
            /\ consult' = [consult EXCEPT
                 ![k] = [customer |-> c, store |-> target, sales |-> sales,
                         status |-> status, invitedId |-> i, disabled |-> FALSE]]
  BY Zenon DEF Place
<1> DEFINE target == IF sales # None THEN admin[sales].store ELSE s
<1>5. target \in Store \cup {None}
  BY <1>1, <1>2, <1>3
<1>6. [row EXCEPT !.store = target, !.sales = sales] \in CustomerRow
  BY <1>2, <1>5 DEF CustomerRow
<1>7. [customer |-> c, store |-> target, sales |-> sales, status |-> status,
       invitedId |-> i, disabled |-> FALSE] \in ConsultRow
  BY <1>2, <1>5 DEF ConsultRow
<1> HIDE DEF sales, status, target
<1>8. customer' \in [Customer -> CustomerRow]
  BY <1>4, <1>6 DEF RowsTypeOK, target
<1>9. consult' \in [Consult -> ConsultRow]
  BY <1>4, <1>7 DEF RowsTypeOK, target
<1>10. ASSUME NEW j \in Consult, consult'[j].customer # None
       PROVE  consult'[j].customer \in member'
  <2>1. CASE j = k
    BY <1>4, <2>1 DEF RowsTypeOK
  <2>2. CASE j # k
    BY <1>4, <1>10, <2>2 DEF RowsTypeOK, Placed
  <2>3. QED
    BY <2>1, <2>2
<1>11. QED
  BY <1>8, <1>9, <1>10 DEF RowsTypeOK, Placed

\* Members stay members.
LEMMA MembersStay ==
  ASSUME [Next]_vars PROVE member \subseteq member'
<1>1. [Pts!Next]_(Pts!integralVars)
  BY PointsStep
<1>2. QED
  BY <1>1 DEF Pts!Next, Pts!integralVars, Pts!Join, Pts!Bonus, Pts!ConsumerIntegral

\* A placed consult has a customer.
LEMMA PlacedCustomer ==
  ASSUME Pts!TypeOK, RowsTypeOK, NEW k \in Consult, Placed(k)
  PROVE  consult[k].customer \in Customer
BY DEF Pts!TypeOK, RowsTypeOK

\* Customers, consults and bonuses keep their types.
LEMMA RowsTypeStep ==
  ASSUME TypeOK, [Next]_vars
  PROVE  RowsTypeOK'
<1> USE DEF TypeOK
<1>1. member \subseteq member'
  BY MembersStay
<1>2. ASSUME UNCHANGED customerVars
      PROVE  RowsTypeOK'
  BY <1>1, <1>2 DEF customerVars, RowsTypeOK, Placed
<1>3. ASSUME NEW c \in Customer, NEW i \in Inviters, PhoneLogin(c, i)
      PROVE  RowsTypeOK'
  BY <1>1, <1>3, NewCustomerType DEF PhoneLogin, RowsTypeOK, Placed
<1>4. ASSUME NEW c \in Customer, WeChatLogin(c)
      PROVE  RowsTypeOK'
  BY <1>1, <1>4, NewCustomerType DEF WeChatLogin, RowsTypeOK, Placed
<1>5. ASSUME NEW k \in Consult, NEW c \in Customer, NEW s \in Stores \cup {None},
             NEW i \in Inviters, AddConsult(k, c, s, i)
      PROVE  RowsTypeOK'
  <2>1. /\ s \in Store \cup {None}
        /\ i \in Customer \cup Admin \cup {None}
    BY InvitersType
  <2>2. CASE c \in member /\ Place(k, c, customer[c], s, i)
    <3>1. customer[c] \in CustomerRow
      BY DEF RowsTypeOK
    <3>2. QED
      BY <1>1, <1>5, <2>1, <2>2, <3>1, PlaceType DEF AddConsult
  <2>3. CASE /\ RegisterPoints(c, i)
             /\ Place(k, c, NewCustomer(i, TRUE), s, i)
    <3>1. NewCustomer(i, TRUE) \in CustomerRow
      BY NewCustomerType
    <3>2. c \in member'
      BY <2>3 DEF RegisterPoints, Pts!Join
    <3>3. QED
      BY <1>1, <1>5, <2>1, <2>3, <3>1, <3>2, PlaceType DEF AddConsult
  <2>4. QED
    BY <1>5, <2>2, <2>3 DEF AddConsult
<1>6. ASSUME NEW p \in session, NEW k \in Consult, NEW a \in Admins, Allocate(p, k, a)
      PROVE  RowsTypeOK'
  <2> a \in Admin /\ consult[k].customer \in Customer
    BY <1>6, InvitersType, PlacedCustomer DEF Allocate
  <2>1. customer' \in [Customer -> CustomerRow]
    BY <1>6 DEF Allocate, RowsTypeOK, CustomerRow
  <2>2. consult' \in [Consult -> ConsultRow]
    <3>1. [consult[k] EXCEPT !.sales = a, !.status = "ALLOCATE"]
            \in ConsultRow
      BY DEF RowsTypeOK, ConsultRow
    <3>2. QED
      BY <1>6, <3>1 DEF Allocate, RowsTypeOK
  <2>3. \A j \in Consult : consult'[j].customer = consult[j].customer
    BY <1>6 DEF Allocate, RowsTypeOK, ConsultRow
  <2>4. QED
    BY <1>1, <1>6, <2>1, <2>2, <2>3 DEF Allocate, RowsTypeOK, Placed
<1>7. ASSUME NEW p \in session, NEW k \in Consult, NEW s \in Stores, ChangeToStore(p, k, s)
      PROVE  RowsTypeOK'
  <2> s \in Store /\ consult[k].customer \in Customer
    BY <1>7, InvitersType, PlacedCustomer DEF ChangeToStore, MayChange
  <2>1. customer' \in [Customer -> CustomerRow]
    BY <1>7 DEF ChangeToStore, MayChange, RowsTypeOK, CustomerRow
  <2>2. consult' \in [Consult -> ConsultRow]
    <3>1. [consult[k] EXCEPT !.store = s, !.sales = None]
            \in ConsultRow
      BY DEF RowsTypeOK, ConsultRow
    <3>2. QED
      BY <1>7, <3>1 DEF ChangeToStore, RowsTypeOK
  <2>3. \A j \in Consult : consult'[j].customer = consult[j].customer
    BY <1>7 DEF ChangeToStore, MayChange, RowsTypeOK, ConsultRow
  <2>4. QED
    BY <1>1, <1>7, <2>1, <2>2, <2>3 DEF ChangeToStore, MayChange, RowsTypeOK, Placed
<1>8. ASSUME NEW p \in session, NEW k \in Consult, NEW a \in Admins,
             ChangeToSalesConsultant(p, k, a)
      PROVE  RowsTypeOK'
  <2> a \in Admin /\ consult[k].customer \in Customer
    BY <1>8, InvitersType, PlacedCustomer DEF ChangeToSalesConsultant, MayChange
  <2>1. customer' \in [Customer -> CustomerRow]
    BY <1>8 DEF ChangeToSalesConsultant, MayChange, RowsTypeOK, CustomerRow
  <2>2. consult' \in [Consult -> ConsultRow]
    BY <1>8 DEF ChangeToSalesConsultant, MayChange, RowsTypeOK, ConsultRow
  <2>3. \A j \in Consult : consult'[j].customer = consult[j].customer
    BY <1>8 DEF ChangeToSalesConsultant, MayChange, RowsTypeOK, ConsultRow
  <2>4. QED
    BY <1>1, <1>8, <2>1, <2>2, <2>3 DEF ChangeToSalesConsultant, MayChange, RowsTypeOK, Placed
<1>9. ASSUME NEW p \in session, NEW s \in Store, DeleteStore(p, s)
      PROVE  RowsTypeOK'
  BY <1>1, <1>9 DEF DeleteStore, RowsTypeOK, Placed, CustomerRow
<1>10. ASSUME NEW p \in session, NEW k \in Consult, Finish(p, k)
       PROVE  RowsTypeOK'
  BY <1>1, <1>10 DEF Finish, PayInviter, RowsTypeOK, Placed, ConsultRow
<1>11. ASSUME NEW p \in session, NEW k \in Consult, Modify(p, k)
       PROVE  RowsTypeOK'
  BY <1>1, <1>11, InvitersType DEF Modify, RowsTypeOK, Placed, ConsultRow
<1>12. ASSUME NEW p \in session, NEW k \in Consult, DeleteConsult(p, k)
       PROVE  RowsTypeOK'
  BY <1>1, <1>12 DEF DeleteConsult, RowsTypeOK, Placed, ConsultRow
<1>13. ASSUME NEW p \in session, NEW c \in Customer, DeleteCustomer(p, c)
       PROVE  RowsTypeOK'
  BY <1>1, <1>13 DEF DeleteCustomer, RowsTypeOK, Placed, CustomerRow
<1>14. CASE CustomerNext
  BY <1>3, <1>4, <1>5, <1>14 DEF CustomerNext
<1>15. CASE StoreNext
  BY <1>6, <1>7, <1>8, <1>9, <1>15 DEF StoreNext
<1>16. CASE SalesNext
  BY <1>2, <1>10, <1>11, <1>16 DEF SalesNext, ConsumerIntegral
<1>17. CASE HideNext
  BY <1>12, <1>13, <1>17 DEF HideNext
<1>18. CASE StaffNext \/ UNCHANGED vars
  BY <1>2, <1>18 DEF StaffNext, vars
<1>19. QED
  BY <1>14, <1>15, <1>16, <1>17, <1>18 DEF Next

\* Every reachable state of the whole system is well typed: the staff's part and
\* the points' part by their refinements, the rows of customers and consults by
\* induction.
THEOREM CarMallTypeOK == Spec => []TypeOK
<1>1. Init => RowsTypeOK
  BY DEF Init, RowsTypeOK, NoCustomer, NoConsult, CustomerRow, ConsultRow, Placed
<1>2. TypeOK /\ [Next]_vars => RowsTypeOK'
  BY RowsTypeStep
<1>3. QED
  BY <1>1, <1>2, StaffTheorem, PointsTypeOK, PTL DEF Spec, TypeOK

-----------------------------------------------------------------------------
(* What one request can do to consult k.                                    *)

\* Nothing that the status or the bonus shows.
Kept(k) ==
  /\ consult'[k].status = consult[k].status
  /\ bonus'[k] = bonus[k]
  /\ consult'[k] # consult[k] => Placed(k) /\ Placed(k)'
  /\ consult[k].status = "FINISH" /\ consult[k].sales # None
       => consult'[k].sales # None

PlacedNow(k) ==
  /\ ~Placed(k)
  /\ Placed(k)'
  /\ consult'[k].status \in {"NEW", "ALLOCATE"}
  /\ bonus'[k] = bonus[k]

Given(k) ==
  /\ Placed(k)
  /\ Placed(k)'
  /\ consult[k].sales = None
  /\ consult'[k].status = "ALLOCATE"
  /\ bonus'[k] = bonus[k]

Finished(k) ==
  /\ Placed(k)
  /\ Placed(k)'
  /\ Finishes(k)
  /\ IF consult[k].invitedId = None
       THEN bonus'[k] = bonus[k]
       ELSE /\ bonus'[k] = bonus[k] + 1
            /\ consult[k].invitedId \in member
            /\ Pts!Credited({consult[k].invitedId}, FINISH_CONSULT)

ConsultChange(k) == Kept(k) \/ PlacedNow(k) \/ Given(k) \/ Finished(k)

\* Placing consult j changes no other consult.
LEMMA PlaceChange ==
  ASSUME TypeOK, NEW j \in Consult, NEW c \in Customer, NEW row,
         NEW chosen, NEW i, ~Placed(j), Place(j, c, row, chosen, i),
         bonus' = bonus, NEW k \in Consult
  PROVE  ConsultChange(k)
<1> DEFINE status == IF FirstSales(row, i) # None THEN "ALLOCATE" ELSE "NEW"
<1>1. PICK target : consult' = [consult EXCEPT
             ![j] = [customer |-> c, store |-> target, sales |-> FirstSales(row, i),
                     status |-> status, invitedId |-> i, disabled |-> FALSE]]
  BY Zenon DEF Place
<1>2. status \in {"NEW", "ALLOCATE"}
  OBVIOUS
<1> HIDE DEF status
<1>3. CASE k = j
  BY <1>1, <1>2, <1>3 DEF ConsultChange, PlacedNow, TypeOK, RowsTypeOK, Placed
<1>4. CASE k # j
  BY <1>1, <1>4 DEF ConsultChange, Kept, TypeOK, RowsTypeOK
<1>5. QED
  BY <1>3, <1>4

\* Every request does one of these four things to consult k.
LEMMA ConsultChanges ==
  ASSUME TypeOK, [Next]_vars, NEW k \in Consult
  PROVE  ConsultChange(k)
<1> USE DEF TypeOK
<1>1. consult \in [Consult -> ConsultRow]
  BY DEF RowsTypeOK
<1>2. ASSUME consult' = consult, bonus' = bonus
      PROVE  ConsultChange(k)
  BY <1>2 DEF ConsultChange, Kept
<1>3. ASSUME NEW j \in Consult, NEW c \in Customer, NEW s \in Stores \cup {None},
             NEW i \in Inviters, AddConsult(j, c, s, i)
      PROVE  ConsultChange(k)
  BY <1>3, PlaceChange DEF AddConsult
<1>4. ASSUME NEW p \in session, NEW j \in Consult, NEW a \in Admins, Allocate(p, j, a)
      PROVE  ConsultChange(k)
  BY <1>1, <1>4 DEF Allocate, Placed, ConsultChange, Kept, Given, ConsultRow
<1>5. ASSUME NEW p \in session, NEW j \in Consult, NEW s \in Stores, ChangeToStore(p, j, s)
      PROVE  ConsultChange(k)
  BY <1>1, <1>5 DEF ChangeToStore, MayChange, Placed, ConsultChange, Kept, ConsultRow
<1>6. ASSUME NEW p \in session, NEW j \in Consult, NEW a \in Admins,
             ChangeToSalesConsultant(p, j, a)
      PROVE  ConsultChange(k)
  BY <1>1, <1>6
     DEF ChangeToSalesConsultant, MayChange, Placed, ConsultChange, Kept, ConsultRow
<1>7. ASSUME NEW p \in session, NEW j \in Consult, Finish(p, j)
      PROVE  ConsultChange(k)
  <2>1. bonus \in [Consult -> Nat]
    BY DEF RowsTypeOK
  <2>2. CASE k = j
    BY <1>1, <1>7, <2>1, <2>2
       DEF Finish, PayInviter, Pts!Bonus, Placed, ConsultChange, Finished, Finishes,
           ConsultRow
  <2>3. CASE k # j
    BY <1>1, <1>7, <2>1, <2>3 DEF Finish, PayInviter, ConsultChange, Kept
  <2>4. QED
    BY <2>2, <2>3
<1>8. ASSUME NEW p \in session, NEW j \in Consult, Modify(p, j)
      PROVE  ConsultChange(k)
  <2>1. Admins \subseteq Admin
    BY DEF Admins
  <2>2. QED
    BY <1>1, <1>8, <2>1 DEF Modify, Placed, ConsultChange, Kept, ConsultRow
<1>9. ASSUME NEW p \in session, NEW j \in Consult, DeleteConsult(p, j)
      PROVE  ConsultChange(k)
  BY <1>1, <1>9 DEF DeleteConsult, Placed, ConsultChange, Kept, ConsultRow
<1>10. CASE CustomerNext
  BY <1>2, <1>3, <1>10 DEF CustomerNext, PhoneLogin, WeChatLogin
<1>11. CASE StoreNext
  BY <1>2, <1>4, <1>5, <1>6, <1>11 DEF StoreNext, DeleteStore
<1>12. CASE SalesNext
  BY <1>2, <1>7, <1>8, <1>12 DEF SalesNext, ConsumerIntegral, customerVars
<1>13. CASE HideNext
  BY <1>2, <1>9, <1>13 DEF HideNext, DeleteCustomer
<1>14. CASE StaffNext \/ UNCHANGED vars
  BY <1>2, <1>14 DEF StaffNext, customerVars, vars
<1>15. QED
  BY <1>10, <1>11, <1>12, <1>13, <1>14 DEF Next

\* ConsultInv is inductive.
THEOREM ConsultInvariant == Spec => []ConsultInv
<1>1. Init => UnplacedIsEmpty /\ PaidWasAllocated
  BY DEF Init, UnplacedIsEmpty, PaidWasAllocated
<1>2. ConsultInv /\ TypeOK' /\ [Next]_vars => ConsultInv'
  <2> SUFFICES ASSUME ConsultInv, TypeOK', [Next]_vars, NEW k \in Consult
               PROVE  /\ ~Placed(k)' => consult'[k] = NoConsult
                      /\ bonus'[k] > 0 => consult'[k].status # "NEW"
    BY DEF ConsultInv, UnplacedIsEmpty, PaidWasAllocated
  <2>1. /\ bonus[k] \in Nat
        /\ ~Placed(k) => consult[k] = NoConsult /\ bonus[k] = 0
        /\ bonus[k] > 0 => consult[k].status # "NEW"
    BY DEF ConsultInv, TypeOK, RowsTypeOK, UnplacedIsEmpty, PaidWasAllocated, NoConsult
  <2>2. ConsultChange(k)
    BY ConsultChanges DEF ConsultInv
  <2>3. CASE Kept(k)
    BY <2>1, <2>3 DEF Kept, Placed
  <2>4. CASE PlacedNow(k)
    BY <2>1, <2>4 DEF PlacedNow
  <2>5. CASE Given(k) \/ Finished(k)
    BY <2>5 DEF Given, Finished, Finishes
  <2>6. QED
    BY <2>2, <2>3, <2>4, <2>5 DEF ConsultChange
<1>3. QED
  BY <1>1, <1>2, CarMallTypeOK, PTL DEF Spec, ConsultInv

\* Nobody is paid for a consult that was never given to a salesperson, for any
\* number of customers, consults and staff.
THEOREM PaidTheorem == Spec => []PaidWasAllocated
<1>1. ConsultInv => PaidWasAllocated
  BY DEF ConsultInv
<1>2. QED
  BY <1>1, ConsultInvariant, PTL

\* A salesperson's finished consult stays finished: allocate, which does not look
\* at the status, is stopped by the salesperson, and no operation takes a
\* salesperson from a finished consult.
THEOREM StatusTheorem == Spec => StatusFlow
<1>1. ConsultInv /\ [Next]_vars => \A k \in Consult : StatusStep(k)
  <2> SUFFICES ASSUME ConsultInv, [Next]_vars, NEW k \in Consult
               PROVE  StatusStep(k)
    OBVIOUS
  <2>1. ~Placed(k) => consult[k].status = "NEW" /\ consult[k].sales = None
    BY DEF ConsultInv, UnplacedIsEmpty, NoConsult
  <2>2. ConsultChange(k)
    BY ConsultChanges DEF ConsultInv
  <2>3. QED
    BY <2>1, <2>2
       DEF StatusStep, ConsultChange, Kept, PlacedNow, Given, Finished, Finishes
<1>2. QED
  BY <1>1, ConsultInvariant, PTL DEF Spec, StatusFlow

\* The inviter is paid exactly when the consult is finished, by the very request
\* that finishes it.
THEOREM BonusTheorem == Spec => FinishPaysInviter
<1>1. ConsultInv /\ [Next]_vars => \A k \in Consult : PaymentStep(k)
  <2> SUFFICES ASSUME ConsultInv, [Next]_vars, NEW k \in Consult
               PROVE  PaymentStep(k)
    OBVIOUS
  <2>1. ConsultChange(k)
    BY ConsultChanges DEF ConsultInv
  <2>2. CASE Finished(k) /\ consult[k].invitedId # None
    <3>1. consult[k].invitedId \in Customer
      BY <2>2 DEF Finished, ConsultInv, TypeOK, Pts!TypeOK
    <3>2. ledger'[consult[k].invitedId].credit =
            ledger[consult[k].invitedId].credit + FINISH_CONSULT
      BY <2>2, <3>1 DEF Finished, Pts!Credited, Pts!Increased
    <3>3. QED
      BY <2>2, <3>2 DEF Finished, PaymentStep
  <2>3. CASE Finished(k) /\ consult[k].invitedId = None
    BY <2>3 DEF Finished, PaymentStep
  <2>4. CASE Kept(k) \/ PlacedNow(k) \/ Given(k)
    BY <2>4 DEF Kept, PlacedNow, Given, Finishes, PaymentStep
  <2>5. QED
    BY <2>1, <2>2, <2>3, <2>4 DEF ConsultChange
<1>2. QED
  BY <1>1, ConsultInvariant, PTL DEF Spec, FinishPaysInviter
=============================================================================
