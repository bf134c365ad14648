--------------------------- MODULE AccountsProofs ---------------------------
(* Proofs about Accounts, for any stores, accounts and login names.        *)
EXTENDS Accounts, TLAPS

USE RootAssumption, NoneAssumption

\* The operations of Accounts, for the case analysis of a step.
LEMMA StepCases ==
  ASSUME Next
  PROVE  \/ \E p \in session, s \in Store, status \in {"open", "closed"},
               bound \in Admin \cup {None} :
              AddStore(p, s, status, bound)
         \/ \E p \in session, s \in Store, a \in Admin, name \in Username :
              StoreAdministrator(p, s, a, name)
         \/ \E p \in session, a \in Admin, name \in Username :
              SalesConsultant(p, a, name)
         \/ \E p \in session, a \in Admin, name \in Username :
              PlatformAdministrator(p, a, name)
         \/ \E a \in Admin : DeleteAdmin(a)
         \/ \E p \in session : ChangePassword(p)
         \/ \E a \in Admin : Login(a)
         \/ \E p \in session : Logout(p)
         \/ \E p \in session, s \in Store : DeleteStore(p, s)
BY Zenon DEF Next, StaffNext

\* What a deleted row looks like.
LEMMA DeletedRowType ==
  ASSUME NEW row \in Row
  PROVE  /\ DeletedRow(row) \in Row
         /\ DeletedRow(row).role = "none"
         /\ DeletedRow(row).store = None
         /\ DeletedRow(row).disabled
         /\ DeletedRow(row).username = Invalid
BY DEF DeletedRow, Row

\* What the row of a new account looks like.
LEMMA NewRowType ==
  ASSUME NEW role \in Role, NEW st \in Store \cup {None}, NEW name \in Username,
         NEW row, row = [role |-> role, store |-> st,
                         username |-> name, disabled |-> FALSE]
  PROVE  /\ row \in Row
         /\ row.role = role
         /\ row.store = st
         /\ row.username = name
         /\ ~row.disabled
BY DEF Row

\* Every reachable state of Accounts is well typed.
THEOREM AccountsTypeOK == Spec => []TypeOK
<1>1. Init => TypeOK
  BY DEF Init, TypeOK, Row, Role, NoRow
<1>2. TypeOK /\ [Next]_accountVars => TypeOK'
  <2> SUFFICES ASSUME TypeOK, [Next]_accountVars PROVE TypeOK'
    OBVIOUS
  <2>1. CASE UNCHANGED accountVars
    BY <2>1 DEF TypeOK, accountVars
  <2>2. ASSUME NEW p \in session, NEW s \in Store, NEW status \in {"open", "closed"},
               NEW bound \in Admin \cup {None}, AddStore(p, s, status, bound)
        PROVE  TypeOK'
    BY <2>2 DEF AddStore, TypeOK
  <2>3. ASSUME NEW p \in session, NEW s \in Store, NEW a \in Admin,
               NEW name \in Username, StoreAdministrator(p, s, a, name)
        PROVE  TypeOK'
    BY <2>3, NewRowType DEF StoreAdministrator, Register, TypeOK, Role
  <2>4. ASSUME NEW p \in session, NEW a \in Admin, NEW name \in Username,
               SalesConsultant(p, a, name)
        PROVE  TypeOK'
    <3>1. p.row.store \in Store \cup {None}
      BY DEF TypeOK, Row
    <3>2. QED
      BY <2>4, <3>1, NewRowType DEF SalesConsultant, Register, TypeOK, Role
  <2>5. ASSUME NEW p \in session, NEW a \in Admin, NEW name \in Username,
               PlatformAdministrator(p, a, name)
        PROVE  TypeOK'
    BY <2>5, NewRowType DEF PlatformAdministrator, Register, TypeOK, Role
  <2>6. ASSUME NEW a \in Admin, DeleteAdmin(a)
        PROVE  TypeOK'
    <3>1. storeAdminId' \in [Store -> Admin \cup {None}]
      BY <2>6 DEF DeleteAdmin, FreedAccount, TypeOK
    <3>2. QED
      BY <2>6, <3>1, DeletedRowType DEF DeleteAdmin, TypeOK
  <2>7. ASSUME NEW p \in session, ChangePassword(p)
        PROVE  TypeOK'
    BY <2>7 DEF ChangePassword, TypeOK
  <2>8. ASSUME NEW a \in Admin, Login(a)
        PROVE  TypeOK'
    BY <2>8 DEF Login, TypeOK
  <2>9. ASSUME NEW p \in session, Logout(p)
        PROVE  TypeOK'
    BY <2>9 DEF Logout, TypeOK
  <2>10. ASSUME NEW p \in session, NEW s \in Store, DeleteStore(p, s)
         PROVE  TypeOK'
    BY <2>10, DeletedRowType DEF DeleteStore, TypeOK
  <2>11. QED
    BY StepCases, <2>1, <2>2, <2>3, <2>4, <2>5, <2>6, <2>7, <2>8, <2>9, <2>10
<1>3. QED
  BY <1>1, <1>2, PTL DEF Spec

-----------------------------------------------------------------------------

\* AccountsInv holds at the start,
LEMMA AccountsInvInit == Init => AccountsInv
<1> SUFFICES ASSUME Init PROVE AccountsInv
  OBVIOUS
<1>1. TypeOK
  BY DEF Init, TypeOK, Row, Role, NoRow
<1>2. QED
  BY <1>1 DEF Init, AccountsInv, BoundAccountIsLive, LiveSessionIsCurrent,
              SessionOfRow, BindingOfStore, SentIsBound, BoundSessionIsCurrent, LiveCopiesAgree,
              AbsentIsEmpty, NoRow, Exists

\* and every operation preserves it,
LEMMA AccountsInvStep == AccountsInv /\ TypeOK' /\ [Next]_accountVars => AccountsInv'
<1> SUFFICES ASSUME AccountsInv, TypeOK', [Next]_accountVars PROVE AccountsInv'
  OBVIOUS
<1> USE DEF AccountsInv, SessionOfRow, BindingOfStore, SentIsBound, BoundSessionIsCurrent,
            LiveCopiesAgree, AbsentIsEmpty, Live
<1>1. CASE UNCHANGED accountVars
  BY <1>1 DEF accountVars, TypeOK, BoundAccountIsLive, LiveSessionIsCurrent,
              Exists, StoreExists
<1>2. ASSUME NEW p \in session, NEW s \in Store, NEW status \in {"open", "closed"},
             NEW bound \in Admin \cup {None}, AddStore(p, s, status, bound)
      PROVE  AccountsInv'
  BY <1>2 DEF AddStore, TypeOK, BoundAccountIsLive, LiveSessionIsCurrent,
              Exists, StoreExists
<1>3. ASSUME NEW p \in session, NEW s \in Store, NEW a \in Admin,
             NEW name \in Username, StoreAdministrator(p, s, a, name)
      PROVE  AccountsInv'
  BY <1>3 DEF StoreAdministrator, Register, TypeOK, BoundAccountIsLive,
              LiveSessionIsCurrent, Exists, StoreExists
<1>4. ASSUME NEW p \in session, NEW a \in Admin, NEW name \in Username,
             SalesConsultant(p, a, name)
      PROVE  AccountsInv'
  BY <1>4 DEF SalesConsultant, Register, TypeOK, BoundAccountIsLive,
              LiveSessionIsCurrent, Exists, StoreExists
<1>5. ASSUME NEW p \in session, NEW a \in Admin, NEW name \in Username,
             PlatformAdministrator(p, a, name)
      PROVE  AccountsInv'
  BY <1>5 DEF PlatformAdministrator, Register, TypeOK, BoundAccountIsLive,
              LiveSessionIsCurrent, Exists, StoreExists
<1>6. ASSUME NEW a \in Admin, DeleteAdmin(a)
      PROVE  AccountsInv'
  BY <1>6 DEF DeleteAdmin, FreedAccount, DeletedRow, TypeOK, BoundAccountIsLive,
              LiveSessionIsCurrent, Exists, StoreExists
<1>7. ASSUME NEW p \in session, ChangePassword(p)
      PROVE  AccountsInv'
  BY <1>7 DEF ChangePassword, TypeOK, BoundAccountIsLive, LiveSessionIsCurrent,
              Exists, StoreExists
<1>8. ASSUME NEW a \in Admin, Login(a)
      PROVE  AccountsInv'
  BY <1>8 DEF Login, TypeOK, BoundAccountIsLive, LiveSessionIsCurrent,
              Exists, StoreExists
<1>9. ASSUME NEW p \in session, Logout(p)
      PROVE  AccountsInv'
  BY <1>9 DEF Logout, TypeOK, BoundAccountIsLive, LiveSessionIsCurrent,
              Exists, StoreExists
<1>10. ASSUME NEW p \in session, NEW s \in Store, DeleteStore(p, s)
       PROVE  AccountsInv'
  <2>1. /\ store' = [store EXCEPT ![s] = "closed"]
        /\ UNCHANGED <<storeAdminId, session, sent>>
    BY <1>10 DEF DeleteStore
  <2>2. ASSUME NEW a \in Admin
        PROVE  \/ admin'[a] = admin[a] /\ admin[a].store # s
               \/ admin'[a].disabled /\ admin'[a].username = Invalid
    BY <1>10 DEF DeleteStore, DeletedRow, TypeOK
  <2>3. BoundAccountIsLive'
    BY <2>1, <2>2, <1>10 DEF DeleteStore, BoundAccountIsLive, TypeOK
  <2>4. LiveSessionIsCurrent' /\ SessionOfRow'
    BY <2>1, <2>2 DEF LiveSessionIsCurrent, Exists, TypeOK
  <2>5. BindingOfStore' /\ SentIsBound' /\ LiveCopiesAgree' /\ AbsentIsEmpty'
    BY <2>1, <2>2 DEF StoreExists, Exists, TypeOK
  <2>6. BoundSessionIsCurrent'
    <3> SUFFICES ASSUME NEW t \in Store \ sent, NEW q \in session,
                        store'[t] = "open", storeAdminId[t] = q.id
                 PROVE  q.row = admin'[q.id]
      BY <2>1
    <3>1. t # s /\ store[t] = "open" /\ q.id \in Admin
      BY <2>1 DEF TypeOK
    <3>2. admin[q.id].store = t
      BY <3>1 DEF BoundAccountIsLive
    <3>3. admin'[q.id] = admin[q.id]
      BY <1>10, <3>1, <3>2 DEF DeleteStore, TypeOK
    <3>4. QED
      BY <3>1, <3>3
  <2>7. QED
    BY <2>3, <2>4, <2>5, <2>6
<1>11. QED
  BY StepCases, <1>1, <1>2, <1>3, <1>4, <1>5, <1>6, <1>7, <1>8, <1>9, <1>10

\* AccountsInv holds in every reachable state, however many stores, accounts and
\* sessions there are: the binding, the copies in sessions and the rows agree.
THEOREM AccountsInvariant == Spec => []AccountsInv
BY AccountsInvInit, AccountsInvStep, AccountsTypeOK, PTL DEF Spec

\* An open store is never bound to a dead account or to another store's, whatever
\* add writes over its row, unless the binding itself is what a client sent.
THEOREM BoundAccountTheorem == Spec => []BoundAccountIsLive
<1>1. AccountsInv => BoundAccountIsLive
  BY DEF AccountsInv
<1>2. QED
  BY <1>1, AccountsInvariant, PTL

\* A session never disagrees with the live account it belongs to.
THEOREM LiveSessionTheorem == Spec => []LiveSessionIsCurrent
<1>1. AccountsInv => LiveSessionIsCurrent
  BY DEF AccountsInv
<1>2. QED
  BY <1>1, AccountsInvariant, PTL

\* Deleting an account is undone by no operation but the saving of a copy that a
\* session kept, and then it is that copy that comes back.
THEOREM RevivalTheorem == Spec => RevivedOnlyFromSession
<1>1. AccountsInv /\ [Next]_accountVars =>
        \A a \in Admin : admin[a].disabled /\ ~admin'[a].disabled
          => [id |-> a, row |-> admin'[a]] \in session
  <2> SUFFICES ASSUME AccountsInv, [Next]_accountVars, NEW a \in Admin,
                      admin[a].disabled, ~admin'[a].disabled
               PROVE  [id |-> a, row |-> admin'[a]] \in session
    OBVIOUS
  <2>1. Exists(a) /\ admin \in [Admin -> Row]
    BY DEF AccountsInv, AbsentIsEmpty, TypeOK
  <2> DEFINE Goal == [id |-> a, row |-> admin'[a]] \in session
  <2>2. CASE UNCHANGED accountVars
    BY <2>2 DEF accountVars
  <2>3. ASSUME NEW p \in session, NEW s \in Store, NEW status \in {"open", "closed"},
               NEW bound \in Admin \cup {None}, AddStore(p, s, status, bound)
        PROVE  Goal
    BY <2>3 DEF AddStore
  <2>4. ASSUME NEW p \in session, NEW s \in Store, NEW b \in Admin,
               NEW name \in Username, StoreAdministrator(p, s, b, name)
        PROVE  Goal
    BY <2>1, <2>4 DEF StoreAdministrator, Register, Exists
  <2>5. ASSUME NEW p \in session, NEW b \in Admin, NEW name \in Username,
               SalesConsultant(p, b, name)
        PROVE  Goal
    BY <2>1, <2>5 DEF SalesConsultant, Register, Exists
  <2>6. ASSUME NEW p \in session, NEW b \in Admin, NEW name \in Username,
               PlatformAdministrator(p, b, name)
        PROVE  Goal
    BY <2>1, <2>6 DEF PlatformAdministrator, Register, Exists
  <2>7. ASSUME NEW b \in Admin, DeleteAdmin(b)
        PROVE  Goal
    BY <2>1, <2>7 DEF DeleteAdmin, DeletedRow
  <2>8. ASSUME NEW p \in session, ChangePassword(p)
        PROVE  Goal
    <3>1. p = [id |-> p.id, row |-> p.row] /\ p.id \in Admin
      BY DEF AccountsInv, TypeOK
    <3>2. p.id = a /\ admin'[a] = p.row
      BY <2>1, <2>8, <3>1 DEF ChangePassword
    <3>3. QED
      BY <3>1, <3>2
  <2>9. ASSUME NEW b \in Admin, Login(b)
        PROVE  Goal
    BY <2>9 DEF Login
  <2>10. ASSUME NEW p \in session, Logout(p)
        PROVE  Goal
    BY <2>10 DEF Logout
  <2>11. ASSUME NEW p \in session, NEW s \in Store, DeleteStore(p, s)
         PROVE  Goal
    BY <2>1, <2>11 DEF DeleteStore, DeletedRow
  <2>12. QED
    BY StepCases, <2>2, <2>3, <2>4, <2>5, <2>6, <2>7, <2>8, <2>9, <2>10, <2>11
<1>2. QED
  BY <1>1, AccountsInvariant, PTL DEF Spec, RevivedOnlyFromSession
=============================================================================
