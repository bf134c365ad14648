-------------------------------- MODULE Desk --------------------------------
(***************************************************************************)
(* The staff's desk when its requests overlap: stores and their bound      *)
(* administrators, staff accounts and their roles, consults and who they   *)
(* are given to, and the push messages that tell of them.                  *)
(*                                                                         *)
(* As in Transactions a request reads everything as it was when it began   *)
(* and saves whole rows at its commit, over what others have committed     *)
(* since.  What it will save and tell follows from what it read, so        *)
(* beginning, deciding and sending are one step, and the commit or the     *)
(* rollback another: a push message is out before the commit, and the      *)
(* exception of a failed one is caught and logged.                         *)
(*                                                                         *)
(* Two operations save what they have not read from the table: add the     *)
(* store the client sends, changePassword the account a session remembers. *)
(*                                                                         *)
(* Left out: permissions, user names, the status of a consult and its      *)
(* customer's row, which only refuse a request (the other modules have     *)
(* them).  A row also stands for its columns that are not named here.      *)
(***************************************************************************)
CONSTANTS
  Store,       \* ids of the stores, which exist
  Admin,       \* ids of the staff accounts that may ever be created
  Consult,     \* ids of the consults that may ever be placed
  Request,     \* the threads that serve requests
  None         \* null, or ""

\* The role items of an account are rows of their own.
Item(a) == <<"role", a>>
Items == {Item(a) : a \in Admin}

ASSUME IdAssumption ==
  /\ Store \cap Admin = {}
  /\ Store \cap Consult = {}
  /\ Admin \cap Consult = {}
  /\ Items \cap (Store \cup Admin \cup Consult) = {}
  /\ None \notin Store \cup Admin \cup Consult

VARIABLES
  row,         \* row[x]: the committed row with id x
  job,         \* job[r]: what request r is about to commit
  notices,     \* the push messages that were accepted
  lost,        \* and those whose sending failed
  moved,       \* history: consults that were transferred or edited
  overtaken,   \* history: stores and consults saved over a change not read
  failed,      \* history: consults told of by a request that was rolled back
  copies,      \* history: copies[a]: what a session may remember of account a
  resaved      \* history: stores and accounts that add and changePassword replaced

vars == <<row, job, notices, lost, moved, overtaken, failed, copies, resaved>>

-----------------------------------------------------------------------------

Id == Store \cup Admin \cup Items \cup Consult

NoAdmin == [state |-> "absent", store |-> None]
DeletedAdmin == [state |-> "disabled", store |-> None]
NoConsult == [placed |-> FALSE, sales |-> None]

StoreRow == [disabled : BOOLEAN, storeAdminId : Admin \cup {None}]
AdminRow == [state : {"enabled"}, store : Store \cup {None}] \cup {NoAdmin, DeletedAdmin}
ItemRow == {"none", "administrator", "sales"}
ConsultRow == [placed : BOOLEAN, sales : Admin \cup {None}]

Row == StoreRow \cup AdminRow \cup ItemRow \cup ConsultRow

\* An account as a session holds it: the row, with the role items.
Copy(a) == [row |-> row[a], item |-> row[Item(a)]]

Notice == [to : Admin, consult : Consult, as : {"sales", "administrator"}]

\* A request: what it does to a consult, and the rows it saves, as it read them and
\* as it will write them.
NoRows == [x \in {} |-> None]
Idle == [op |-> "idle", old |-> NoRows, new |-> NoRows]

\* findById, of a request that is beginning.
Found(a) == row[a].state # "absent"
Placed(k) == row[k].placed

\* The live administrators of store s.
Administrator(a, s) == row[Item(a)] = "administrator" /\ row[a].store = s

\* A generated id is nobody's yet.
Fresh(x) == \A r \in Request : x \notin DOMAIN job[r].new

\* Request r has read everything; it is about to save new, whose rows are now as
\* they are in the table.
Pending(r, op, new) ==
  /\ job[r] = Idle
  /\ job' = [job EXCEPT ![r] = [op |-> op, old |-> [x \in DOMAIN new |-> row[x]],
                                new |-> new]]

\* A request that saves one row.
One(x, new) == [y \in {x} |-> new]

\* Nobody to tell.
Silent == UNCHANGED <<notices, lost>>

\* sendMessage, for each of some messages: its exceptions are caught.
Tell(messages) ==
  \E sent \in SUBSET messages :
    /\ notices' = notices \cup sent
    /\ lost' = lost \cup (messages \ sent)

\* A message with no addressee reaches nobody.
ToSales(a, k) ==
  [to : {a} \ {None}, consult : {k}, as : {"sales"}]
ToAdministrator(a, k) ==
  [to : {a} \ {None}, consult : {k}, as : {"administrator"}]

history == <<moved, overtaken, failed, copies, resaved>>

-----------------------------------------------------------------------------
(* Stores and staff. *)

\* An account with its role, in store s: the rows register inserts.
NewAccount(a, s, role) ==
  [x \in {a, Item(a)} |-> IF x = a THEN [state |-> "enabled", store |-> s] ELSE role]

\* With them, the row of the store that is bound to the new account.
NewAdministrator(a, s) ==
  [x \in {a, Item(a), s} |->
     IF x = s THEN [row[s] EXCEPT !.storeAdminId = a]
              ELSE NewAccount(a, s, "administrator")[x]]

\* Mutant of StoreAdministrator: the binding is not looked at.
StoreAdministratorAnyway(r, s, a) ==
  /\ ~Found(a)
  /\ Fresh(a)
  /\ Pending(r, "staff", NewAdministrator(a, s))
  /\ Silent
  /\ UNCHANGED <<row, history>>

\* A store, open or closed, without a bound account gets a new one.
StoreAdministrator(r, s, a) ==
  /\ row[s].storeAdminId = None
  /\ ~Found(a)
  /\ Fresh(a)
  /\ Pending(r, "staff", NewAdministrator(a, s))
  /\ Silent
  /\ UNCHANGED <<row, history>>

\* The new consultant's store is the one in the creator's session: any, or null.
SalesConsultant(r, s, a) ==
  /\ ~Found(a)
  /\ Fresh(a)
  /\ Pending(r, "staff", NewAccount(a, s, "sales"))
  /\ Silent
  /\ UNCHANGED <<row, history>>

\* Mutant of Deletion: the role items stay.
DeletionOfRows(as, changed, new) ==
  [x \in as \cup changed |-> IF x \in as THEN DeletedAdmin ELSE new]

\* Admin.delete of the accounts as, without store and the items they have, and the row
\* of a store in changed, which becomes new.
Deletion(as, changed, new) ==
  [x \in as \cup {Item(a) : a \in {b \in as : row[Item(b)] # "none"}} \cup changed |->
     IF x \in as THEN DeletedAdmin ELSE IF x \in changed THEN new ELSE "none"]

\* AdminServiceImpl.delete frees an administrator's store, whoever it is bound to, and
\* fails when there is none; a row that does not change is not saved.
DeleteAdmin(r, a) ==
  LET s     == row[a].store
      freed == {st \in Store : /\ row[Item(a)] = "administrator"
                               /\ st = s
                               /\ row[st].storeAdminId # None}
  IN  /\ Found(a)
      /\ row[Item(a)] = "administrator" => s # None
      /\ Pending(r, "staff", Deletion({a}, freed, [row[s] EXCEPT !.storeAdminId = None]))
      /\ Silent
      /\ UNCHANGED <<row, history>>

\* changeOtherPassword, generateWxCode, and changePassword of a session that remembers
\* the account as it is: other columns of the row change.
UpdateAdmin(r, a) ==
  /\ Found(a)
  /\ Pending(r, "staff", One(a, row[a]))
  /\ Silent
  /\ UNCHANGED <<row, history>>

\* Mutant of ModifiedStores: disabled is copied from what the client sends.
ModifiedAll(s) == {row[s], [row[s] EXCEPT !.disabled = FALSE]}

\* What modify makes of a store, of the columns named here: nothing.
ModifiedStores(s) == {row[s]}

\* StoreServiceImpl.modify.
ModifyStore(r, s) ==
  /\ \E new \in ModifiedStores(s) : Pending(r, "staff", One(s, new))
  /\ Silent
  /\ UNCHANGED <<row, history>>

\* StoreServiceImpl.delete: the store is closed, its staff deleted.
DeleteStore(r, s) ==
  /\ Pending(r, "staff", Deletion({a \in Admin : row[a].store = s},
                                  {st \in {s} : ~row[st].disabled},
                                  [row[s] EXCEPT !.disabled = TRUE]))
  /\ Silent
  /\ UNCHANGED <<row, history>>

\* StoreServiceImpl.add saves the client's object as it is, over the row with its id,
\* the flag and the binding included; a client can name the accounts there are.
AddStore(r, s, new) ==
  /\ new.storeAdminId # None => Found(new.storeAdminId)
  /\ Pending(r, "resave", One(s, new))
  /\ Silent
  /\ UNCHANGED <<row, history>>

\* changePassword of a session that remembers another account than there is: its row
\* is replaced, and its items where they differ.
ChangePassword(r, a, copy) ==
  /\ copy \in copies[a]
  /\ copy # Copy(a)
  /\ Pending(r, "resave", [x \in {a} \cup ({i \in {Item(a)} : row[i] # copy.item}) |->
                             IF x = a THEN copy.row ELSE copy.item])
  /\ Silent
  /\ UNCHANGED <<row, history>>

-----------------------------------------------------------------------------
(* Consults. *)

\* add, for a customer whose salesperson is a, or whom a invited.  The message is
\* out before it shows that a has no store any more.
AddForSales(r, k, a) ==
  LET s == row[a].store
  IN  /\ Found(a)
      /\ ~Placed(k) /\ Fresh(k) /\ k \notin failed
      /\ IF s = None
           THEN /\ job[r] = Idle
                /\ Tell(ToSales(a, k))
                /\ failed' = failed \cup {k}
                /\ UNCHANGED job
           ELSE /\ Pending(r, "add", One(k, [placed |-> TRUE, sales |-> a]))
                /\ Tell(ToSales(a, k) \cup ToAdministrator(row[s].storeAdminId, k))
                /\ UNCHANGED failed
      /\ UNCHANGED <<row, moved, overtaken, copies, resaved>>

\* add, for another: the customer's store, or whichever getValidId finds, tells its
\* administrator; a store the customer chose is what the client sent of it, its id.
AddForStore(r, k) ==
  /\ ~Placed(k) /\ Fresh(k) /\ k \notin failed
  /\ Pending(r, "add", One(k, [placed |-> TRUE, sales |-> None]))
  /\ \E to \in {row[s].storeAdminId : s \in Store} \cup {None} : Tell(ToAdministrator(to, k))
  /\ UNCHANGED <<row, history>>

\* Mutant of Unallocated: a consult may be allocated again.
AnyAllocation(k) == TRUE

\* allocate: the consult has no salesperson yet.
Unallocated(k) == row[k].sales = None

\* Mutant of Allocate: the salesperson is not told.
AllocateSilently(r, k, a) ==
  /\ Placed(k)
  /\ Unallocated(k)
  /\ Found(a)
  /\ Pending(r, "allocate", One(k, [row[k] EXCEPT !.sales = a]))
  /\ Silent
  /\ UNCHANGED <<row, history>>

Allocate(r, k, a) ==
  /\ Placed(k)
  /\ Unallocated(k)
  /\ Found(a)
  /\ Pending(r, "allocate", One(k, [row[k] EXCEPT !.sales = a]))
  /\ Tell(ToSales(a, k))
  /\ UNCHANGED <<row, history>>

\* changeToStore: the consult loses its salesperson, and nobody is told.
ChangeToStore(r, k) ==
  /\ Placed(k)
  /\ Pending(r, "move", One(k, [row[k] EXCEPT !.sales = None]))
  /\ Silent
  /\ UNCHANGED <<row, history>>

\* changeToSalesConsultant, nor here; to the same one changes nothing.
ChangeToSalesConsultant(r, k, a) ==
  /\ Placed(k)
  /\ Found(a)
  /\ row[k].sales # a
  /\ Pending(r, "move", One(k, [row[k] EXCEPT !.sales = a]))
  /\ Silent
  /\ UNCHANGED <<row, history>>

\* modify, whose filter misses the salesperson, with another one.
ModifySales(r, k, a) ==
  /\ Placed(k)
  /\ Pending(r, "move", One(k, [row[k] EXCEPT !.sales = a]))
  /\ Silent
  /\ UNCHANGED <<row, history>>

\* modify, finish and delete: other columns of the row change.
UpdateConsult(r, k) ==
  /\ Placed(k)
  /\ Pending(r, "update", One(k, row[k]))
  /\ Silent
  /\ UNCHANGED <<row, history>>

-----------------------------------------------------------------------------

\* The stores and consults that request r saves over a change it has not read.
Overtaken(r) ==
  {x \in (Store \cup Consult) \cap DOMAIN job[r].new : row[x] # job[r].old[x]}

\* Hibernate deletes the role items it read and expects each to be there.
ItemsThere(r) ==
  \A x \in Items \cap DOMAIN job[r].new :
    job[r].old[x] # "none" /\ job[r].new[x] = "none" => row[x] # "none"

\* The commit of r: its rows are written, whole.
Commit(r) ==
  /\ job[r] # Idle
  /\ ItemsThere(r)
  /\ row' = [x \in Id |-> IF x \in DOMAIN job[r].new THEN job[r].new[x] ELSE row[x]]
  /\ overtaken' = overtaken \cup Overtaken(r)
  /\ moved' = IF job[r].op = "move" THEN moved \cup DOMAIN job[r].new ELSE moved
  /\ copies' = [a \in Admin |-> IF row'[a] = NoAdmin THEN copies[a]
                                                    ELSE copies[a] \cup {Copy(a)'}]
  /\ resaved' = IF job[r].op = "resave" THEN resaved \cup (DOMAIN job[r].new \ Items)
                                        ELSE resaved
  /\ job' = [job EXCEPT ![r] = Idle]
  /\ UNCHANGED <<notices, lost, failed>>

\* An exception, a lock timeout or a crash: the messages are out.
Rollback(r) ==
  /\ job[r] # Idle
  /\ failed' = IF job[r].op \in {"add", "allocate"} THEN failed \cup DOMAIN job[r].new
                                                    ELSE failed
  /\ job' = [job EXCEPT ![r] = Idle]
  /\ UNCHANGED <<row, notices, lost, moved, overtaken, copies, resaved>>

-----------------------------------------------------------------------------

Init ==
  /\ row = [x \in Id |-> IF x \in Store THEN [disabled |-> FALSE, storeAdminId |-> None]
                         ELSE IF x \in Admin THEN NoAdmin
                         ELSE IF x \in Items THEN "none"
                         ELSE NoConsult]
  /\ job = [r \in Request |-> Idle]
  /\ notices = {}
  /\ lost = {}
  /\ moved = {}
  /\ overtaken = {}
  /\ failed = {}
  /\ copies = [a \in Admin |-> {}]
  /\ resaved = {}

StaffNext(r) ==
  \/ \E s \in Store, a \in Admin : StoreAdministrator(r, s, a)
  \/ \E s \in Store \cup {None}, a \in Admin : SalesConsultant(r, s, a)
  \/ \E a \in Admin : DeleteAdmin(r, a)
  \/ \E a \in Admin : UpdateAdmin(r, a)
  \/ \E s \in Store : ModifyStore(r, s)
  \/ \E s \in Store : DeleteStore(r, s)
  \/ \E s \in Store, new \in StoreRow : AddStore(r, s, new)
  \/ \E a \in Admin : \E copy \in copies[a] : ChangePassword(r, a, copy)

ConsultNext(r) ==
  \/ \E k \in Consult, a \in Admin : AddForSales(r, k, a)
  \/ \E k \in Consult : AddForStore(r, k)
  \/ \E k \in Consult, a \in Admin : Allocate(r, k, a)
  \/ \E k \in Consult : ChangeToStore(r, k)
  \/ \E k \in Consult, a \in Admin : ChangeToSalesConsultant(r, k, a)
  \/ \E k \in Consult, a \in Admin : ModifySales(r, k, a)
  \/ \E k \in Consult : UpdateConsult(r, k)

Next == \E r \in Request : StaffNext(r) \/ ConsultNext(r) \/ Commit(r) \/ Rollback(r)

Spec == Init /\ [][Next]_vars

-----------------------------------------------------------------------------

\* Each row is of the kind its id says.
WellTyped(rows) ==
  \A x \in DOMAIN rows :
    /\ x \in Store => rows[x] \in StoreRow
    /\ x \in Admin => rows[x] \in AdminRow
    /\ x \in Items => rows[x] \in ItemRow
    /\ x \in Consult => rows[x] \in ConsultRow

JobTyped(r) ==
  /\ job[r].op \in {"idle", "staff", "resave", "add", "allocate", "move", "update"}
  /\ DOMAIN job[r].new \subseteq IF job[r].op \in {"add", "allocate", "move", "update"}
                                 THEN Consult ELSE Id \ Consult
  /\ DOMAIN job[r].old = DOMAIN job[r].new
  /\ WellTyped(job[r].old)
  /\ WellTyped(job[r].new)

TypeOK ==
  /\ row = [x \in Id |-> row[x]]
  /\ WellTyped(row)
  /\ job = [r \in Request |-> job[r]]
  /\ \A r \in Request : JobTyped(r)
  /\ notices \subseteq Notice
  /\ lost \subseteq Notice
  /\ moved \subseteq Consult
  /\ overtaken \subseteq Store \cup Consult
  /\ failed \subseteq Consult
  /\ copies = [a \in Admin |-> copies[a]]
  /\ \A a \in Admin : copies[a] \subseteq [row : AdminRow, item : ItemRow]
  /\ resaved \subseteq Store \cup Admin

\* The stores that add replaced, and those an account was ever in that changePassword
\* made what a session remembered of it.
Resaved ==
  {s \in Store : s \in resaved \/ \E a \in Admin \cap resaved : \E c \in copies[a] : c.row.store = s}

\* Of these nothing can be said.
Disturbed == overtaken \cup Resaved

\* The account an open store is bound to is its one live administrator, and a store
\* bound to none has none, unless a request saved the store's row over a change it
\* had not read (AdminServiceImpl.storeAdministrator reads storeAdminId in one step
\* and sets it in another, and delete and StoreServiceImpl.modify save the row, too),
\* a client sent the row to add, or changePassword made one of the store's accounts
\* again what an old session remembered.
BoundIsTheAdministrator ==
  \A s \in Store \ Disturbed :
    /\ \A a \in Admin : Administrator(a, s) => row[s].storeAdminId = a
    /\ ~row[s].disabled =>
         \A a \in Admin : row[s].storeAdminId = a => Administrator(a, s)

Told(a, k) == ToSales(a, k) \subseteq notices \cup lost

\* The salesperson a consult has was told of it, or would have been but for a push
\* message that failed, unless the consult was moved by a transfer or by an edit
\* (changeToStore, changeToSalesConsultant and modify send nothing).
SalesWereTold ==
  \A k \in Consult \ moved : Told(row[k].sales, k)

\* Request r has told of consult k and not yet committed it.
Telling(r, k) == job[r].op \in {"add", "allocate"} /\ k \in DOMAIN job[r].new

\* What the staff was told is so: the consult is there, and belongs to who was told,
\* unless it was moved since, its request was rolled back, or two requests saved it
\* (the messages of ConsultServiceImpl.add and allocate are out before the commit).
NoticesAreTrue ==
  \A n \in notices :
    \/ n.consult \in moved \cup overtaken \cup failed
    \/ \E r \in Request : Telling(r, n.consult)
    \/ row[n.consult].placed /\ (n.as = "sales" => row[n.consult].sales = n.to)

-----------------------------------------------------------------------------
(* What makes these inductive. *)

Saves(r, x) == x \in DOMAIN job[r].new
Resaves(r, x) == job[r].op = "resave" /\ Saves(r, x)
Creates(r, a) == job[r].op # "resave" /\ Saves(r, Item(a)) /\ job[r].new[Item(a)] # "none"
Deletes(r, a) == job[r].op # "resave" /\ Saves(r, a) /\ job[r].new[a] = DeletedAdmin

\* An account without a row has no role and nobody remembers it, one with a row is
\* remembered as it is; a deleted one has no role, unless changePassword gave it back;
\* a consult nobody placed has no salesperson.
RowsAreSound ==
  /\ \A a \in Admin :
       /\ row[a] = NoAdmin => row[Item(a)] = "none" /\ copies[a] = {} /\ a \notin resaved
       /\ row[a] # NoAdmin => Copy(a) \in copies[a]
       /\ row[a] = DeletedAdmin /\ a \notin resaved => row[Item(a)] = "none"
       /\ \A c \in copies[a] : c.row # NoAdmin
  /\ \A k \in Consult : row[k].placed \/ row[k].sales = None

\* An account is created by one request, which alone has anything to do with it, with
\* the store's row bound to it; the others found it.  Its items are saved with it,
\* and who deletes it deletes those there are.
AccountJob(r, a) ==
  /\ Creates(r, a) =>
       /\ row[a] = NoAdmin /\ job[r].new[a] # DeletedAdmin
       /\ \A q \in Request \ {r} : ~Saves(q, a) /\ ~Saves(q, Item(a))
       /\ job[r].new[Item(a)] = "administrator" =>
            LET s == job[r].new[a].store
            IN  s \in Store /\ Saves(r, s) /\ job[r].new[s].storeAdminId = a
  /\ Saves(r, a) => job[r].new[a] # NoAdmin
  /\ Saves(r, a) /\ ~Creates(r, a) => row[a] # NoAdmin
  /\ Saves(r, Item(a)) => Saves(r, a) /\ (Creates(r, a) \/ Deletes(r, a) \/ Resaves(r, a))
  /\ Deletes(r, a) /\ ~Saves(r, Item(a)) /\ a \notin resaved => row[Item(a)] = "none"
  /\ Saves(r, a) /\ ~Saves(r, Item(a)) /\ ~Resaves(r, a) /\ a \notin resaved =>
       (row[Item(a)] = "administrator" => job[r].new[a] = row[a])

\* A store that is saved stays closed; it is bound anew only with the creation of its
\* account, and freed only with the deletion of the account it was bound to.
StoreJob(r, s) ==
  LET old == job[r].old[s]
      new == job[r].new[s]
      a   == old.storeAdminId
      b   == new.storeAdminId
  IN  Saves(r, s) /\ ~Resaves(r, s) =>
        /\ old.disabled => new.disabled
        /\ a # b /\ b # None =>
             /\ a = None
             /\ Creates(r, b)
             /\ job[r].new[Item(b)] = "administrator"
             /\ job[r].new[b].store = s
        /\ a # b /\ b = None /\ s \notin Disturbed => Deletes(r, a)

\* Who deletes the administrator of a store frees the store, or closes it.
DeletionJob(r, a, s) ==
  Deletes(r, a) /\ Administrator(a, s) =>
    \/ row[s].disabled
    \/ Saves(r, s) /\ (job[r].new[s].storeAdminId = None \/ job[r].new[s].disabled)

\* Only add inserts a consult, add and allocate give it to who was told, and only a
\* move to another.
ConsultJob(r, k) ==
  LET old == job[r].old[k]
      new == job[r].new[k]
  IN  Saves(r, k) =>
        /\ new.placed
        /\ Telling(r, k) => old.sales = None /\ Told(new.sales, k)
        /\ job[r].op = "add" => ~row[k].placed /\ \A q \in Request \ {r} : ~Saves(q, k)
        /\ job[r].op = "allocate" => new.sales # None
        /\ job[r].op # "add" => row[k].placed
        /\ ~Telling(r, k) /\ job[r].op # "move" =>
             new = old /\ (k \notin moved => Told(old.sales, k))

JobsAreSound ==
  \A r \in Request :
    /\ \A a \in Admin : AccountJob(r, a)
    /\ \A s \in Store : StoreJob(r, s)
    /\ \A a \in Admin, s \in Store \ Disturbed : DeletionJob(r, a, s)
    /\ \A k \in Consult : ConsultJob(r, k)

\* A notice that is not true yet is what a request is about to make true.
NoticesComeTrue ==
  \A n \in notices :
    \/ n.consult \in moved \cup overtaken \cup failed
    \/ \E r \in Request :
         /\ Telling(r, n.consult)
         /\ n.as = "sales" => job[r].new[n.consult].sales = n.to
    \/ row[n.consult].placed /\ (n.as = "sales" => row[n.consult].sales = n.to)

\* The strengthening of the invariants above that every request preserves.
DeskInv ==
  /\ TypeOK
  /\ RowsAreSound
  /\ JobsAreSound
  /\ BoundIsTheAdministrator
  /\ SalesWereTold
  /\ NoticesComeTrue

\* A closed store is opened again only by a client that sends it to StoreServiceImpl.add
\* so, or by a request that saves over its closing the row it had read before:
\* modify, storeAdministrator and delete leave the flag alone.
ClosedStaysClosed ==
  [][\A s \in Store :
       row[s].disabled /\ ~row'[s].disabled => s \in overtaken' \cup resaved']_vars
=============================================================================
