------------------------------ MODULE Accounts ------------------------------
(***************************************************************************)
(* The staff side of the shop: stores (Store), staff accounts (Admin) and  *)
(* the HTTP sessions of the staff.  AdminServiceImpl and StoreServiceImpl  *)
(* each run a request in one transaction, so an operation is one action.   *)
(*                                                                         *)
(* What makes it hard: the principal of a session is a serialized COPY of  *)
(* the Admin row as it was at login.  Authorities are read from the copy,  *)
(* nothing refreshes it, nothing invalidates it when the row is deleted,   *)
(* and changePassword saves it back over the row.                          *)
(*                                                                         *)
(* Passwords, names, phones and QR codes are not modelled: update,         *)
(* generateWxCode, changeOtherPassword and Store modify change only those. *)
(***************************************************************************)

CONSTANTS
  Store,      \* ids of the stores that may ever be added
  Admin,      \* ids of the staff accounts that may ever be created
  Username,   \* the login names people choose
  Root,       \* the super administrator created by init
  RootName,   \* and the login name init gives it
  None,       \* null, "" or a row that was never inserted
  Invalid     \* the unique, unguessed name a deleted account is renamed to

ASSUME RootAssumption == Root \in Admin /\ RootName \in Username

ASSUME NoneAssumption ==
  /\ None \notin Store \cup Admin \cup Username
  /\ Invalid \notin Username
  /\ None # Invalid

VARIABLES
  store,         \* store[s]: "absent", "open" or "closed" (disabled)
  storeAdminId,  \* storeAdminId[s]: the account bound to store s
  admin,         \* admin[a]: the Admin row of a
  session,       \* the principals of the live sessions: copies of Admin rows
  sent           \* history: the stores whose binding is one that a client sent

accountVars == <<store, storeAdminId, admin, session, sent>>

-----------------------------------------------------------------------------

Role == {"super", "platform", "store", "sales"}

\* The privileges init and register give each role; a deleted account has no
\* role left.
Authority ==
  [r \in Role \cup {"none"} |->
     CASE r = "super" -> {"CUSTOMER", "SALES", "VEHICLE", "STORE", "PLATFORM"}
       [] r = "store" -> {"SALES", "CUSTOMER"}
       [] r = "sales" -> {"CUSTOMER"}
       [] OTHER       -> {}]

Row == [role     : Role \cup {"none"},
        store    : Store \cup {None},
        username : Username \cup {Invalid, None},
        disabled : BOOLEAN]

NoRow == [role |-> "none", store |-> None, username |-> None, disabled |-> FALSE]

\* findById finds a row, deleted or not.
Exists(a) == admin[a].username # None

StoreExists(s) == store[s] # "absent"

Live(row) == row.username # None /\ ~row.disabled

\* @PreAuthorize looks at the principal of the session, not at the row.
Authorized(p, privilege) == privilege \in Authority[p.row.role]

-----------------------------------------------------------------------------

\* Mutants of DeletedRow: the row is not disabled; a second deletion undoes it.
EnabledRow(row) ==
  [role |-> "none", store |-> None, username |-> Invalid, disabled |-> FALSE]

ToggledRow(row) ==
  [role |-> "none", store |-> None, username |-> Invalid, disabled |-> ~row.disabled]

\* Admin.delete: roles cleared, no store, the name made unusable, disabled.
DeletedRow(row) ==
  [role |-> "none", store |-> None, username |-> Invalid, disabled |-> TRUE]

\* Mutant of Register: the generated id may be in use.
RegisterOver(a, name, role, st) ==
  /\ \A b \in Admin : admin[b].username # name
  /\ admin' = [admin EXCEPT ![a] = [role |-> role, store |-> st,
                                    username |-> name, disabled |-> FALSE]]

\* register: the name must be free; the new row has one role.
Register(a, name, role, st) ==
  /\ ~Exists(a)
  /\ \A b \in Admin : admin[b].username # name
  /\ admin' = [admin EXCEPT ![a] = [role |-> role, store |-> st,
                                    username |-> name, disabled |-> FALSE]]

-----------------------------------------------------------------------------

\* add saves the client's object as it is.  With the id of a store that exists it
\* is merged over the row, the flag and the binding included; a client can name
\* the accounts there are.
AddStore(p, s, status, bound) ==
  /\ Authorized(p, "STORE")
  /\ store' = [store EXCEPT ![s] = status]
  /\ storeAdminId' = [storeAdminId EXCEPT ![s] = bound]
  /\ sent' = IF bound = None THEN sent \ {s} ELSE sent \cup {s}
  /\ UNCHANGED <<admin, session>>

\* A store, open or closed, without a bound account gets a new one.
StoreAdministrator(p, s, a, name) ==
  /\ Authorized(p, "STORE")
  /\ StoreExists(s)
  /\ storeAdminId[s] = None
  /\ Register(a, name, "store", s)
  /\ storeAdminId' = [storeAdminId EXCEPT ![s] = a]
  /\ UNCHANGED <<store, session, sent>>

\* The store of a new sales consultant is the one in the creator's session;
\* the super administrator's is null.
SalesConsultant(p, a, name) ==
  /\ Authorized(p, "SALES")
  /\ Register(a, name, "sales", p.row.store)
  /\ UNCHANGED <<store, storeAdminId, session, sent>>

PlatformAdministrator(p, a, name) ==
  /\ Authorized(p, "PLATFORM")
  /\ Register(a, name, "platform", None)
  /\ UNCHANGED <<store, storeAdminId, session, sent>>

\* Mutant of FreedAccount: initAccount is not called.
KeptAccount(a) == storeAdminId

\* The bindings after account a is deleted: initAccount clears the one of the
\* store a administers, whichever account that store is bound to.
FreedAccount(a) ==
  IF admin[a].role = "store"
    THEN [storeAdminId EXCEPT ![admin[a].store] = None]
    ELSE storeAdminId

\* No authority is asked for.
DeleteAdmin(a) ==
  /\ session # {}
  /\ Exists(a)
  /\ storeAdminId' = FreedAccount(a)
  /\ admin' = [admin EXCEPT ![a] = DeletedRow(@)]
  /\ sent' = {s \in sent : storeAdminId'[s] # None}
  /\ UNCHANGED <<store, session>>

\* The account is whatever the session remembers of it, saved over the row.
\* A deleted account comes back to life with its old name, role and store.
ChangePassword(p) ==
  /\ admin' = [admin EXCEPT ![p.id] = p.row]
  /\ UNCHANGED <<store, storeAdminId, session, sent>>

\* The store is closed and its staff deleted with it; the binding stays.
DeleteStore(p, s) ==
  /\ Authorized(p, "STORE")
  /\ StoreExists(s)
  /\ store' = [store EXCEPT ![s] = "closed"]
  /\ admin' = [a \in Admin |-> IF admin[a].store = s THEN DeletedRow(admin[a])
                                                     ELSE admin[a]]
  /\ UNCHANGED <<storeAdminId, session, sent>>

\* findByUsername fails when two rows have the name; the web endpoint takes
\* the accounts the app endpoint refuses, so every row can log in on one.
Login(a) ==
  /\ Exists(a)
  /\ \A b \in Admin \ {a} : admin[b].username = admin[a].username
                              => admin[a].username = Invalid
  /\ session' = session \cup {[id |-> a, row |-> admin[a]]}
  /\ UNCHANGED <<store, storeAdminId, admin, sent>>

\* Logout, or a session idle for longer than its 86400 seconds.
Logout(p) ==
  /\ session' = session \ {p}
  /\ UNCHANGED <<store, storeAdminId, admin, sent>>

-----------------------------------------------------------------------------

\* The database after init: the super administrator and nothing else.
Init ==
  /\ store = [s \in Store |-> "absent"]
  /\ storeAdminId = [s \in Store |-> None]
  /\ admin = [a \in Admin |->
                IF a = Root
                  THEN [role |-> "super", store |-> None,
                        username |-> RootName, disabled |-> FALSE]
                  ELSE NoRow]
  /\ session = {}
  /\ sent = {}

\* Every operation but the deletion of a store, which also reaches customers.
StaffNext ==
  \/ \E p \in session, s \in Store, status \in {"open", "closed"},
        bound \in {a \in Admin : Exists(a)} \cup {None} :
       AddStore(p, s, status, bound)
  \/ \E p \in session, s \in Store, a \in Admin, name \in Username :
       StoreAdministrator(p, s, a, name)
  \/ \E p \in session, a \in Admin, name \in Username :
       SalesConsultant(p, a, name)
  \/ \E p \in session, a \in Admin, name \in Username :
       PlatformAdministrator(p, a, name)
  \/ \E a \in Admin : DeleteAdmin(a)
  \/ \E p \in session : ChangePassword(p)
  \/ \E a \in Admin : Login(a)
  \/ \E p \in session : Logout(p)

Next ==
  \/ StaffNext
  \/ \E p \in session, s \in Store : DeleteStore(p, s)

Spec == Init /\ [][Next]_accountVars

-----------------------------------------------------------------------------

\* Every variable has its type, and a store administrator's row names its store.
TypeOK ==
  /\ store \in [Store -> {"absent", "open", "closed"}]
  /\ storeAdminId \in [Store -> Admin \cup {None}]
  /\ admin \in [Admin -> Row]
  /\ \A a \in Admin : admin[a].role = "store" => admin[a].store \in Store
  /\ session \subseteq [id : Admin, row : Row]
  /\ \A p \in session : p.row.role = "store" => p.row.store \in Store
  /\ sent \subseteq Store

\* The account an open store is bound to (storeAdminId, the address of its
\* notifications) is a live administrator of that very store, whatever was
\* deleted, created again, saved back from an old session or reopened: a binding
\* is left dangling neither by AdminServiceImpl.delete nor by StoreServiceImpl,
\* unless a client sent it (StoreServiceImpl.add saves whatever it is given).
BoundAccountIsLive ==
  \A s \in Store \ sent :
    store[s] = "open" /\ storeAdminId[s] # None =>
      LET row == admin[storeAdminId[s]]
      IN  Live(row) /\ row.role = "store" /\ row.store = s

\* While an account and the copy of it in a session are both live they agree:
\* the store and the authorities that @PreAuthorize, allocate and register take
\* from the session are those of the row.  Nothing in the code refreshes the
\* copy; it holds because no operation changes the role, store or name of a
\* live account.
LiveSessionIsCurrent ==
  \A p \in session :
    Live(p.row) /\ Live(admin[p.id]) => p.row = admin[p.id]

\* A session belongs to a row that exists, so a new account has no session.
SessionOfRow ==
  \A p \in session : Exists(p.id) /\ p.row.username # None

BindingOfStore ==
  \A s \in Store : storeAdminId[s] # None => StoreExists(s)

SentIsBound == \A s \in sent : storeAdminId[s] # None

\* The sessions of a bound account hold its row as it is: none can change it.
BoundSessionIsCurrent ==
  \A s \in Store \ sent, p \in session :
    store[s] = "open" /\ storeAdminId[s] = p.id => p.row = admin[p.id]

\* Two live copies of one account agree, so whichever is saved back revives the
\* account as it was.
LiveCopiesAgree ==
  \A p, q \in session :
    p.id = q.id /\ Live(p.row) /\ Live(q.row) => p.row = q.row

\* A row that was never inserted is no deleted row.
AbsentIsEmpty == \A a \in Admin : ~Exists(a) => ~admin[a].disabled

\* The strengthening of BoundAccountIsLive and LiveSessionIsCurrent that the
\* operations of AdminServiceImpl and StoreServiceImpl preserve.
AccountsInv ==
  /\ TypeOK
  /\ BoundAccountIsLive
  /\ LiveSessionIsCurrent
  /\ SessionOfRow
  /\ BindingOfStore
  /\ SentIsBound
  /\ BoundSessionIsCurrent
  /\ LiveCopiesAgree
  /\ AbsentIsEmpty

\* An account that was deleted is live again only as the copy a session kept
\* of it (changePassword): no other operation revives or reuses its id.
RevivedOnlyFromSession ==
  [][\A a \in Admin : admin[a].disabled /\ ~admin'[a].disabled
       => [id |-> a, row |-> admin'[a]] \in session]_accountVars

\* "门店账号已存在，不允许再创建" (AdminServiceImpl:65): a store has at most one
\* live administrator account.
OneAdministratorPerStore ==
  \A a, b \in Admin :
    /\ Live(admin[a]) /\ admin[a].role = "store"
    /\ Live(admin[b]) /\ admin[b].role = "store"
    /\ admin[a].store = admin[b].store
    => a = b
=============================================================================
