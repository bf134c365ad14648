----------------------------- MODULE DeskProofs -----------------------------
(***************************************************************************)
(* Proofs about Desk, for any number of stores, accounts, consults and     *)
(* requests at a time.  What a request is about to save stays right while  *)
(* others commit: an account that is being created has one request that    *)
(* knows it, a store that is not overtaken is as it was read.              *)
(***************************************************************************)
EXTENDS Desk, TLAPS

LEMMA ItemFacts ==
  /\ \A a \in Admin : Item(a) \in Items /\ Item(a) \in Id /\ a \in Id
  /\ \A a \in Admin : Item(a) \notin Store /\ Item(a) \notin Admin /\ Item(a) \notin Consult
  /\ \A a, b \in Admin : Item(a) = Item(b) => a = b
  /\ \A x \in Items : x \notin Store /\ x \notin Admin /\ x \notin Consult
  /\ \A s \in Store : s \notin Admin /\ s \notin Consult /\ s \in Id /\ s # None
  /\ \A k \in Consult : k \notin Admin /\ k \in Id /\ k # None
  /\ \A a \in Admin : a # None
BY IdAssumption DEF Item, Items, Id

\* What is known of a request.
Job(r) ==
  /\ JobTyped(r)
  /\ \A a \in Admin : AccountJob(r, a)
  /\ \A s \in Store : StoreJob(r, s)
  /\ \A a \in Admin, s \in Store \ Disturbed : DeletionJob(r, a, s)
  /\ \A k \in Consult : ConsultJob(r, k)

LEMMA IdleJob ==
  ASSUME NEW r \in Request, job'[r] = Idle
  PROVE  Job(r)'
BY DEF Job, JobTyped, WellTyped, AccountJob, StoreJob, DeletionJob, ConsultJob,
       Creates, Deletes, Resaves, Saves, Idle, NoRows

\* What is disturbed follows from three histories.
LEMMA DisturbedStays ==
  ASSUME UNCHANGED <<overtaken, copies, resaved>>
  PROVE  Disturbed' = Disturbed
BY DEF Disturbed, Resaved

\* The messages grow, and with them who was told.
Grows == notices \cup lost \subseteq notices' \cup lost'

LEMMA ToldStays ==
  ASSUME Grows, NEW a, NEW k, Told(a, k)
  PROVE  Told(a, k)'
BY DEF Grows, Told, ToSales

LEMMA TellGrows ==
  ASSUME NEW messages, messages \subseteq Notice, notices \subseteq Notice, lost \subseteq Notice,
         Tell(messages)
  PROVE  /\ Grows
         /\ notices' \subseteq Notice /\ lost' \subseteq Notice
         /\ messages \subseteq notices' \cup lost'
         /\ notices' \subseteq notices \cup messages
BY DEF Tell, Grows

LEMMA MessagesTyped ==
  ASSUME NEW a \in Admin \cup {None}, NEW k \in Consult
  PROVE  ToSales(a, k) \subseteq Notice /\ ToAdministrator(a, k) \subseteq Notice
BY DEF ToSales, ToAdministrator, Notice

-----------------------------------------------------------------------------
(* A request begins. *)

\* Request r has read everything and is about to save new.
Begun(r, op, new) ==
  /\ Pending(r, op, new)
  /\ UNCHANGED <<row, moved, overtaken, copies, resaved>>
  /\ Grows

\* What it saves is nobody's who is inserting it.
NoInsert(r, new) ==
  \A q \in Request \ {r} :
    /\ \A a \in Admin : Creates(q, a) => a \notin DOMAIN new /\ Item(a) \notin DOMAIN new
    /\ \A k \in Consult : Saves(q, k) /\ job[q].op = "add" => k \notin DOMAIN new

LEMMA BegunJob ==
  ASSUME TypeOK, NEW r \in Request, NEW op, NEW new, Begun(r, op, new)
  PROVE  /\ job'[r].op = op
         /\ job'[r].new = new
         /\ job'[r].old = [x \in DOMAIN new |-> row[x]]
         /\ \A q \in Request \ {r} : job'[q] = job[q]
         /\ job' = [q \in Request |-> job'[q]]
         /\ \A x : Saves(r, x)' <=> x \in DOMAIN new
         /\ \A q \in Request \ {r} : \A x : Saves(q, x)' <=> Saves(q, x)
         /\ job[r] = Idle
BY DEF TypeOK, Begun, Pending, Saves

\* The others are as right as before.
LEMMA OthersKept ==
  ASSUME DeskInv, NEW r \in Request, NEW op, NEW new, Begun(r, op, new), NoInsert(r, new),
         NEW q \in Request \ {r}
  PROVE  Job(q)'
<1>1. TypeOK /\ JobsAreSound /\ Job(q)
  BY DEF DeskInv, JobsAreSound, Job, TypeOK
<1>0. /\ job'[r].new = new
      /\ \A p \in Request \ {r} : job'[p] = job[p]
  BY <1>1, BegunJob
<1>2. /\ row' = row /\ moved' = moved /\ overtaken' = overtaken /\ resaved' = resaved /\ Grows
      /\ Disturbed' = Disturbed
  BY DisturbedStays DEF Begun
<1>3. job'[q] = job[q]
  BY <1>0
<1>4. JobTyped(q)'
  BY <1>1, <1>3 DEF JobTyped, WellTyped, Job
<1>5. ASSUME NEW a \in Admin PROVE AccountJob(q, a)'
  <2>1. AccountJob(q, a)
    BY <1>1 DEF Job
  <2>2. Creates(q, a)' <=> Creates(q, a)
    BY <1>3 DEF Creates, Saves
  <2>3. Deletes(q, a)' <=> Deletes(q, a)
    BY <1>3 DEF Deletes, Saves
  <2>4. Creates(q, a) => \A p \in Request \ {q} : ~Saves(p, a)' /\ ~Saves(p, Item(a))'
    BY <1>0, <2>1 DEF AccountJob, NoInsert, Saves
  <2>5. /\ \A x : Saves(q, x)' <=> Saves(q, x)
        /\ Resaves(q, a)' <=> Resaves(q, a)
    BY <1>3 DEF Saves, Resaves
  <2>6. QED
    BY <1>2, <1>3, <2>1, <2>2, <2>3, <2>4, <2>5 DEF AccountJob
<1>6. ASSUME NEW s \in Store PROVE StoreJob(q, s)'
  BY <1>1, <1>2, <1>3 DEF Job, StoreJob, Saves, Creates, Deletes, Resaves
<1>7. ASSUME NEW a \in Admin, NEW s \in Store \ Disturbed' PROVE DeletionJob(q, a, s)'
  BY <1>1, <1>2, <1>3 DEF Job, DeletionJob, Saves, Deletes, Administrator
<1>8. ASSUME NEW k \in Consult PROVE ConsultJob(q, k)'
  <2>1. ConsultJob(q, k)
    BY <1>1 DEF Job
  <2>2. Saves(q, k)' <=> Saves(q, k)
    BY <1>3 DEF Saves
  <2>3. Telling(q, k)' <=> Telling(q, k)
    BY <1>3 DEF Telling
  <2>4. Saves(q, k) /\ job[q].op = "add" =>
          \A p \in Request \ {q} : ~Saves(p, k)'
    BY <1>0, <2>1 DEF ConsultJob, NoInsert, Saves
  <2>5. \A a : Told(a, k) => Told(a, k)'
    BY <1>2, ToldStays
  <2>6. QED
    BY <1>2, <1>3, <2>1, <2>2, <2>3, <2>4, <2>5 DEF ConsultJob, Told
<1>9. QED
  BY <1>4, <1>5, <1>6, <1>7, <1>8 DEF Job

\* The messages a request has sent are what it is about to make true.
Announces(r, new, op, messages) ==
  \A n \in messages :
    /\ op \in {"add", "allocate"}
    /\ n.consult \in DOMAIN new
    /\ n.as = "sales" => new[n.consult].sales = n.to

LEMMA BegunKeeps ==
  ASSUME DeskInv, NEW r \in Request, NEW op, NEW new, Begun(r, op, new), NoInsert(r, new),
         Job(r)', UNCHANGED failed, NEW messages, Announces(r, new, op, messages),
         notices' \subseteq notices \cup messages, notices' \subseteq Notice, lost' \subseteq Notice
  PROVE  DeskInv'
<1>1. TypeOK /\ JobsAreSound /\ RowsAreSound
  BY DEF DeskInv
<1>2. /\ row' = row /\ moved' = moved /\ overtaken' = overtaken /\ Grows
      /\ copies' = copies /\ resaved' = resaved /\ Disturbed' = Disturbed
  BY DisturbedStays DEF Begun
<1>3. /\ job'[r].new = new /\ job'[r].op = op
      /\ job' = [q \in Request |-> job'[q]]
      /\ \A q \in Request \ {r} : job'[q] = job[q]
      /\ job[r] = Idle
  BY <1>1, BegunJob
<1>4. \A q \in Request : Job(q)'
  BY OthersKept
<1>5. TypeOK'
  BY <1>1, <1>2, <1>3, <1>4 DEF TypeOK, WellTyped, Job
<1>6. JobsAreSound'
  BY <1>4 DEF JobsAreSound, Job
<1>7. RowsAreSound' /\ BoundIsTheAdministrator'
  BY <1>2 DEF DeskInv, RowsAreSound, Copy, BoundIsTheAdministrator, Administrator
<1>8. SalesWereTold'
  BY <1>2, ToldStays DEF DeskInv, SalesWereTold, Told
<1>9. NoticesComeTrue'
  <2> SUFFICES ASSUME NEW n \in notices',
                      n.consult \notin moved' \cup overtaken' \cup failed',
                      ~(row'[n.consult].placed /\ (n.as = "sales" => row'[n.consult].sales = n.to))
               PROVE  \E q \in Request :
                        /\ Telling(q, n.consult)'
                        /\ n.as = "sales" => job'[q].new[n.consult].sales = n.to
    BY DEF NoticesComeTrue
  <2>1. CASE n \in notices
    <3>1. PICK q \in Request :
            /\ Telling(q, n.consult)
            /\ n.as = "sales" => job[q].new[n.consult].sales = n.to
      BY <1>2, <2>1 DEF DeskInv, NoticesComeTrue
    <3>2. q # r
      BY <1>3, <3>1 DEF Telling, Idle
    <3>3. QED
      BY <1>3, <3>1, <3>2 DEF Telling
  <2>2. CASE n \in messages
    BY <1>3, <2>2 DEF Announces, Telling
  <2>3. QED
    BY <2>1, <2>2
<1>10. QED
  BY <1>5, <1>6, <1>7, <1>8, <1>9 DEF DeskInv

\* A request that tells nobody.
LEMMA SilentKeeps ==
  ASSUME DeskInv, NEW r \in Request, NEW op, NEW new, Pending(r, op, new), NoInsert(r, new),
         UNCHANGED <<row, history>>, Silent, Begun(r, op, new) => Job(r)'
  PROVE  DeskInv'
<1>1. Begun(r, op, new) /\ UNCHANGED failed
  BY DEF Begun, Grows, Silent, history
<1>2. Announces(r, new, op, {})
  BY DEF Announces
<1>3. notices' \subseteq notices \cup {} /\ notices' \subseteq Notice /\ lost' \subseteq Notice
  BY DEF Silent, DeskInv, TypeOK
<1>4. QED
  BY <1>1, <1>2, <1>3, BegunKeeps

\* Whoever was found is not being inserted.
LEMMA FoundIsNobodysNew ==
  ASSUME DeskInv, NEW q \in Request
  PROVE  /\ \A a \in Admin : Creates(q, a) => ~Found(a) /\ Saves(q, a)
         /\ \A a \in Admin : Saves(q, Item(a)) => Saves(q, a)
         /\ \A k \in Consult : Saves(q, k) /\ job[q].op = "add" => ~Placed(k)
<1>1. \A a \in Admin : AccountJob(q, a)
  BY DEF DeskInv, JobsAreSound
<1>2. \A k \in Consult : ConsultJob(q, k)
  BY DEF DeskInv, JobsAreSound
<1>3. \A a \in Admin : Creates(q, a) => ~Found(a) /\ Saves(q, a)
  BY <1>1 DEF AccountJob, Creates, Found, NoAdmin
<1>4. \A a \in Admin : Saves(q, Item(a)) => Saves(q, a)
  BY <1>1 DEF AccountJob
<1>5. \A k \in Consult : Saves(q, k) /\ job[q].op = "add" => ~Placed(k)
  BY <1>2 DEF ConsultJob, Placed
<1>6. QED
  BY <1>3, <1>4, <1>5

\* findById finds every account with a row.
LEMMA FoundHasRow ==
  ASSUME DeskInv, NEW a \in Admin
  PROVE  /\ row[a] \in AdminRow /\ row[Item(a)] \in ItemRow
         /\ Found(a) <=> row[a] # NoAdmin
<1>1. row[a] \in AdminRow /\ row[Item(a)] \in ItemRow
  BY ItemFacts DEF DeskInv, TypeOK, WellTyped
<1>2. QED
  BY <1>1 DEF Found, AdminRow, NoAdmin, DeletedAdmin

-----------------------------------------------------------------------------
(* The requests on stores and staff. *)

LEMMA ModifyStoreKeeps ==
  ASSUME DeskInv, NEW r \in Request, NEW s \in Store, ModifyStore(r, s)
  PROVE  DeskInv'
<1> DEFINE new == One(s, row[s])
<1>1. Pending(r, "staff", new) /\ Silent /\ UNCHANGED <<row, history>>
  BY DEF ModifyStore, ModifiedStores
<1>2. DOMAIN new = {s} /\ new[s] = row[s]
  BY DEF One
<1> HIDE DEF new
<1>3. NoInsert(r, new)
  BY <1>2, ItemFacts DEF NoInsert
<1>4. ASSUME Begun(r, "staff", new) PROVE Job(r)'
  <2>1. TypeOK /\ WellTyped(row) /\ row' = row
    BY <1>4 DEF DeskInv, TypeOK, Begun
  <2>2. /\ job'[r].op = "staff" /\ job'[r].new = new
        /\ job'[r].old = [x \in DOMAIN new |-> row[x]]
    BY <1>4, <2>1, BegunJob
  <2>3. row[s] \in StoreRow
    BY <2>1, ItemFacts DEF WellTyped, TypeOK
  <2>4. JobTyped(r)'
    BY <1>2, <2>2, <2>3, ItemFacts DEF JobTyped, WellTyped
  <2>5. ASSUME NEW a \in Admin
        PROVE  ~Saves(r, a)' /\ ~Saves(r, Item(a))' /\ ~Creates(r, a)' /\ ~Deletes(r, a)'
    BY <1>2, <2>2, ItemFacts DEF Saves, Creates, Deletes
  <2>6. \A a \in Admin : AccountJob(r, a)'
    BY <2>5 DEF AccountJob, Resaves
  <2>7. \A t \in Store : StoreJob(r, t)'
    BY <1>2, <2>2 DEF StoreJob, Saves
  <2>8. \A a \in Admin, t \in Store : DeletionJob(r, a, t)'
    BY <2>5 DEF DeletionJob
  <2>9. \A k \in Consult : ConsultJob(r, k)'
    BY <1>2, <2>2, ItemFacts DEF ConsultJob, Saves
  <2>10. QED
    BY <2>4, <2>6, <2>7, <2>8, <2>9 DEF Job
<1>5. QED
  BY <1>1, <1>3, <1>4, SilentKeeps

LEMMA UpdateAdminKeeps ==
  ASSUME DeskInv, NEW r \in Request, NEW a \in Admin, UpdateAdmin(r, a)
  PROVE  DeskInv'
<1> DEFINE new == One(a, row[a])
<1>1. Pending(r, "staff", new) /\ Silent /\ UNCHANGED <<row, history>> /\ Found(a)
  BY DEF UpdateAdmin
<1>2. DOMAIN new = {a} /\ new[a] = row[a]
  BY DEF One
<1> HIDE DEF new
<1>3. NoInsert(r, new)
  BY <1>1, <1>2, ItemFacts, FoundIsNobodysNew DEF NoInsert
<1>4. ASSUME Begun(r, "staff", new) PROVE Job(r)'
  <2>1. TypeOK /\ WellTyped(row) /\ row' = row
    BY <1>4 DEF DeskInv, TypeOK, Begun
  <2>2. /\ job'[r].op = "staff" /\ job'[r].new = new
        /\ job'[r].old = [x \in DOMAIN new |-> row[x]]
    BY <1>4, <2>1, BegunJob
  <2>3. row[a] \in AdminRow
    BY <2>1, ItemFacts DEF WellTyped, TypeOK
  <2>4. JobTyped(r)'
    BY <1>2, <2>2, <2>3, ItemFacts DEF JobTyped, WellTyped
  <2>5. ASSUME NEW b \in Admin
        PROVE  ~Saves(r, Item(b))' /\ ~Creates(r, b)' /\ (Saves(r, b)' <=> b = a)
    BY <1>2, <2>2, ItemFacts DEF Saves, Creates
  <2>6. ASSUME NEW b \in Admin PROVE AccountJob(r, b)'
    <3>1. CASE b # a
      BY <2>5, <3>1 DEF AccountJob, Deletes
    <3>2. CASE b = a
      <4>1. job'[r].new[a] = row[a] /\ row[a] # NoAdmin
        BY <1>1, <1>2, <2>2, FoundHasRow
      <4>2. row[a] = DeletedAdmin /\ a \notin resaved => row[Item(a)] = "none"
        BY DEF DeskInv, RowsAreSound
      <4>3. resaved' = resaved
        BY <1>4 DEF Begun
      <4>4. QED
        BY <2>1, <2>5, <3>2, <4>1, <4>2, <4>3 DEF AccountJob, Deletes
    <3>3. QED
      BY <3>1, <3>2
  <2>7. \A t \in Store : StoreJob(r, t)'
    BY <1>2, <2>2, ItemFacts DEF StoreJob, Saves
  <2>8. ASSUME NEW b \in Admin, NEW t \in Store PROVE DeletionJob(r, b, t)'
    <3>1. ASSUME Deletes(r, b)' PROVE row'[b].store # t
      <4>1. row[b] = DeletedAdmin
        BY <1>2, <2>2, <2>5, <3>1 DEF Deletes
      <4>2. QED
        BY <2>1, <4>1, ItemFacts DEF DeletedAdmin
    <3>2. QED
      BY <3>1 DEF DeletionJob, Administrator
  <2>9. \A k \in Consult : ConsultJob(r, k)'
    BY <1>2, <2>2, ItemFacts DEF ConsultJob, Saves
  <2>10. QED
    BY <2>4, <2>6, <2>7, <2>8, <2>9 DEF Job
<1>5. QED
  BY <1>1, <1>3, <1>4, SilentKeeps

\* An id nobody has, nor the items that go with it.
LEMMA FreshAccount ==
  ASSUME DeskInv, NEW a \in Admin, Fresh(a), NEW q \in Request
  PROVE  ~Saves(q, a) /\ ~Saves(q, Item(a))
BY FoundIsNobodysNew DEF Fresh, Saves

LEMMA SalesConsultantKeeps ==
  ASSUME DeskInv, NEW r \in Request, NEW s \in Store \cup {None}, NEW a \in Admin,
         SalesConsultant(r, s, a)
  PROVE  DeskInv'
<1> DEFINE new == NewAccount(a, s, "sales")
<1>1. /\ Pending(r, "staff", new) /\ Silent /\ UNCHANGED <<row, history>>
      /\ ~Found(a) /\ Fresh(a)
  BY DEF SalesConsultant
<1>2. /\ DOMAIN new = {a, Item(a)}
      /\ new[a] = [state |-> "enabled", store |-> s]
      /\ new[Item(a)] = "sales"
  BY ItemFacts DEF NewAccount
<1> HIDE DEF new
<1>3. NoInsert(r, new)
  <2>1. \A q \in Request : ~Saves(q, a) /\ ~Saves(q, Item(a))
    BY <1>1, FreshAccount
  <2>2. ASSUME NEW q \in Request, NEW b \in Admin, Creates(q, b)
        PROVE  b # a
    BY <2>1, <2>2 DEF Creates
  <2>3. QED
    BY <1>2, <2>2, ItemFacts DEF NoInsert
<1>4. ASSUME Begun(r, "staff", new) PROVE Job(r)'
  <2>1. TypeOK /\ WellTyped(row) /\ row' = row
    BY <1>4 DEF DeskInv, TypeOK, Begun
  <2>2. /\ job'[r].op = "staff" /\ job'[r].new = new
        /\ job'[r].old = [x \in DOMAIN new |-> row[x]]
        /\ \A q \in Request \ {r} : job'[q] = job[q]
    BY <1>4, <2>1, BegunJob
  <2>3. row[a] \in AdminRow /\ row[Item(a)] \in ItemRow
    BY <2>1, ItemFacts DEF WellTyped, TypeOK
  <2>4. JobTyped(r)'
    <3>1. new[a] \in AdminRow /\ new[Item(a)] \in ItemRow
      BY <1>2 DEF AdminRow, ItemRow
    <3>2. QED
      BY <1>2, <2>2, <2>3, <3>1, ItemFacts DEF JobTyped, WellTyped
  <2>5. ASSUME NEW b \in Admin
        PROVE  /\ ~Deletes(r, b)'
               /\ Creates(r, b)' => b = a
               /\ Saves(r, b)' => b = a
               /\ Saves(r, Item(b))' => b = a
               /\ Saves(r, a)' /\ Saves(r, Item(a))' /\ Creates(r, a)'
    BY <1>2, <2>2, ItemFacts DEF Saves, Creates, Deletes, DeletedAdmin
  <2>6. ASSUME NEW b \in Admin PROVE AccountJob(r, b)'
    <3>1. CASE b # a
      BY <2>5, <3>1 DEF AccountJob
    <3>2. CASE b = a
      <4>1. \A q \in Request \ {r} : ~Saves(q, a)' /\ ~Saves(q, Item(a))'
        BY <1>1, <2>2, FreshAccount DEF Saves
      <4>2. row'[a] = NoAdmin /\ job'[r].new[a] \notin {NoAdmin, DeletedAdmin}
        BY <1>1, <1>2, <2>1, <2>2, FoundHasRow DEF NoAdmin, DeletedAdmin
      <4>3. job'[r].new[Item(a)] # "administrator"
        BY <1>2, <2>2
      <4>4. QED
        BY <2>5, <3>2, <4>1, <4>2, <4>3 DEF AccountJob
    <3>3. QED
      BY <3>1, <3>2
  <2>7. \A t \in Store : StoreJob(r, t)'
    BY <1>2, <2>2, ItemFacts DEF StoreJob, Saves
  <2>8. \A b \in Admin, t \in Store : DeletionJob(r, b, t)'
    BY <2>5 DEF DeletionJob
  <2>9. \A k \in Consult : ConsultJob(r, k)'
    BY <1>2, <2>2, ItemFacts DEF ConsultJob, Saves
  <2>10. QED
    BY <2>4, <2>6, <2>7, <2>8, <2>9 DEF Job
<1>5. QED
  BY <1>1, <1>3, <1>4, SilentKeeps

LEMMA StoreAdministratorKeeps ==
  ASSUME DeskInv, NEW r \in Request, NEW s \in Store, NEW a \in Admin,
         StoreAdministrator(r, s, a)
  PROVE  DeskInv'
<1> DEFINE new == NewAdministrator(a, s)
<1>1. /\ Pending(r, "staff", new) /\ Silent /\ UNCHANGED <<row, history>>
      /\ ~Found(a) /\ Fresh(a) /\ row[s].storeAdminId = None
  BY DEF StoreAdministrator
<1>2. /\ DOMAIN new = {a, Item(a), s}
      /\ new[a] = [state |-> "enabled", store |-> s]
      /\ new[Item(a)] = "administrator"
  BY ItemFacts DEF NewAccount, NewAdministrator
<1>3. row[s] \in StoreRow
  BY ItemFacts DEF WellTyped, TypeOK, DeskInv
<1>4. new[s] \in StoreRow /\ new[s].storeAdminId = a /\ new[s].disabled = row[s].disabled
  <2>1. new[s] = [row[s] EXCEPT !.storeAdminId = a]
    BY ItemFacts DEF NewAdministrator
  <2>2. QED
    BY <1>3, <2>1 DEF StoreRow
<1> HIDE DEF new
<1>5. NoInsert(r, new)
  <2>1. \A q \in Request : ~Saves(q, a) /\ ~Saves(q, Item(a))
    BY <1>1, FreshAccount
  <2>2. ASSUME NEW q \in Request, NEW b \in Admin, Creates(q, b)
        PROVE  b # a
    BY <2>1, <2>2 DEF Creates
  <2>3. QED
    BY <1>2, <2>2, ItemFacts DEF NoInsert
<1>6. ASSUME Begun(r, "staff", new) PROVE Job(r)'
  <2>1. TypeOK /\ WellTyped(row) /\ row' = row
    BY <1>6 DEF DeskInv, TypeOK, Begun
  <2>2. /\ job'[r].op = "staff" /\ job'[r].new = new
        /\ job'[r].old = [x \in DOMAIN new |-> row[x]]
        /\ \A q \in Request \ {r} : job'[q] = job[q]
    BY <1>6, <2>1, BegunJob
  <2>3. row[a] \in AdminRow /\ row[Item(a)] \in ItemRow
    BY <2>1, ItemFacts DEF WellTyped, TypeOK
  <2>4. JobTyped(r)'
    <3>1. new[a] \in AdminRow /\ new[Item(a)] \in ItemRow
      BY <1>2 DEF AdminRow, ItemRow
    <3>2. QED
      BY <1>2, <1>3, <1>4, <2>2, <2>3, <3>1, ItemFacts DEF JobTyped, WellTyped
  <2>5. ASSUME NEW b \in Admin
        PROVE  /\ ~Deletes(r, b)'
               /\ Creates(r, b)' => b = a
               /\ Saves(r, b)' => b = a
               /\ Saves(r, Item(b))' => b = a
               /\ Saves(r, a)' /\ Saves(r, Item(a))' /\ Saves(r, s)' /\ Creates(r, a)'
    BY <1>2, <2>2, ItemFacts DEF Saves, Creates, Deletes, DeletedAdmin
  <2>6. ASSUME NEW b \in Admin PROVE AccountJob(r, b)'
    <3>1. CASE b # a
      BY <2>5, <3>1 DEF AccountJob
    <3>2. CASE b = a
      <4>1. \A q \in Request \ {r} : ~Saves(q, a)' /\ ~Saves(q, Item(a))'
        BY <1>1, <2>2, FreshAccount DEF Saves
      <4>2. /\ row'[a] = NoAdmin
            /\ job'[r].new[a] \notin {NoAdmin, DeletedAdmin}
            /\ job'[r].new[a].store = s
            /\ job'[r].new[s].storeAdminId = a
        <5>1. new[a] \notin {NoAdmin, DeletedAdmin} /\ new[a].store = s
          BY <1>2 DEF NoAdmin, DeletedAdmin
        <5>2. row[a] = NoAdmin
          BY <1>1, FoundHasRow
        <5>3. QED
          BY <1>4, <2>1, <2>2, <5>1, <5>2
      <4>3. QED
        BY <2>5, <3>2, <4>1, <4>2 DEF AccountJob
    <3>3. QED
      BY <3>1, <3>2
  <2>7. ASSUME NEW t \in Store PROVE StoreJob(r, t)'
    <3>1. CASE t # s
      BY <1>2, <2>2, <3>1, ItemFacts DEF StoreJob, Saves
    <3>2. CASE t = s
      <4>1. /\ job'[r].old[s].disabled = row[s].disabled
            /\ job'[r].new[s].disabled = row[s].disabled
            /\ job'[r].old[s].storeAdminId = None
            /\ job'[r].new[s].storeAdminId = a
            /\ job'[r].new[Item(a)] = "administrator"
            /\ job'[r].new[a].store = s
        <5>1. new[a].store = s
          BY <1>2
        <5>2. job'[r].old[s] = row[s]
          BY <1>2, <2>2
        <5>3. QED
          BY <1>1, <1>2, <1>4, <2>2, <5>1, <5>2
      <4>2. QED
        BY <2>5, <3>2, <4>1, ItemFacts DEF StoreJob
    <3>3. QED
      BY <3>1, <3>2
  <2>8. \A b \in Admin, t \in Store : DeletionJob(r, b, t)'
    BY <2>5 DEF DeletionJob
  <2>9. \A k \in Consult : ConsultJob(r, k)'
    BY <1>2, <2>2, ItemFacts DEF ConsultJob, Saves
  <2>10. QED
    BY <2>4, <2>6, <2>7, <2>8, <2>9 DEF Job
<1>7. QED
  BY <1>1, <1>5, <1>6, SilentKeeps

\* The deletion of accounts, with the row of a store.
LEMMA DeletionKeeps ==
  ASSUME DeskInv, NEW r \in Request, NEW as \in SUBSET Admin, NEW changed \in SUBSET Store,
         NEW sr, changed # {} => sr \in StoreRow,
         Pending(r, "staff", Deletion(as, changed, sr)), Silent, UNCHANGED <<row, history>>,
         \A a \in as : Found(a),
         \A t \in changed :
           /\ row[t].disabled => sr.disabled
           /\ \/ sr.storeAdminId = row[t].storeAdminId
              \/ sr.storeAdminId = None /\ (t \notin Disturbed => row[t].storeAdminId \in as),
         \A a \in as, t \in Store \ Disturbed : Administrator(a, t) =>
           row[t].disabled \/ (t \in changed /\ (sr.storeAdminId = None \/ sr.disabled))
  PROVE  DeskInv'
<1> DEFINE new == Deletion(as, changed, sr)
<1>1. Pending(r, "staff", new)
  OBVIOUS
<1>2. /\ \A b \in Admin : b \in DOMAIN new <=> b \in as
      /\ \A b \in Admin : Item(b) \in DOMAIN new <=> b \in as /\ row[Item(b)] # "none"
      /\ \A t \in Store : t \in DOMAIN new <=> t \in changed
      /\ \A k \in Consult : k \notin DOMAIN new
      /\ DOMAIN new \subseteq Id
      /\ \A a \in as : new[a] = DeletedAdmin
      /\ \A a \in as : Item(a) \in DOMAIN new => new[Item(a)] = "none"
      /\ \A t \in changed : new[t] = sr
  <2> DEFINE items == {Item(a) : a \in {b \in as : row[Item(b)] # "none"}}
  <2>1. DOMAIN new = as \cup items \cup changed
    BY DEF Deletion
  <2>2. \A b \in Admin : Item(b) \in items <=> b \in as /\ row[Item(b)] # "none"
    BY ItemFacts
  <2>3. items \subseteq Items
    BY ItemFacts
  <2>4. /\ \A a \in as : new[a] = DeletedAdmin
        /\ \A a \in as : Item(a) \in DOMAIN new => new[Item(a)] = "none"
        /\ \A t \in changed : new[t] = sr
    BY ItemFacts DEF Deletion
  <2> HIDE DEF items, new
  <2>6. DOMAIN new \subseteq Id
    BY <2>1, <2>3 DEF Id
  <2>7. /\ \A b \in Admin : b \in DOMAIN new <=> b \in as
        /\ \A b \in Admin : Item(b) \in DOMAIN new <=> b \in as /\ row[Item(b)] # "none"
    BY <2>1, <2>2, <2>3, ItemFacts
  <2>8. /\ \A t \in Store : t \in DOMAIN new <=> t \in changed
        /\ \A k \in Consult : k \notin DOMAIN new
    BY <2>1, <2>3, ItemFacts
  <2>10. QED
    BY <2>4, <2>6, <2>7, <2>8
<1> HIDE DEF new
<1>2a. /\ \A b \in Admin : b \in DOMAIN new <=> b \in as
       /\ \A b \in Admin : Item(b) \in DOMAIN new <=> b \in as /\ row[Item(b)] # "none"
       /\ \A t \in Store : t \in DOMAIN new <=> t \in changed
       /\ \A k \in Consult : k \notin DOMAIN new
  BY <1>2
<1>3. NoInsert(r, new)
  <2>1. ASSUME NEW q \in Request, NEW a \in Admin, Creates(q, a)
        PROVE  a \notin as
    BY <2>1, FoundIsNobodysNew
  <2>2. QED
    BY <1>2a, <2>1 DEF NoInsert
<1>4. ASSUME Begun(r, "staff", new) PROVE Job(r)'
  <2>1. /\ TypeOK /\ WellTyped(row) /\ row' = row
        /\ resaved' = resaved /\ Disturbed' = Disturbed
    BY <1>4, DisturbedStays DEF DeskInv, TypeOK, Begun
  <2>2. /\ job'[r].op = "staff" /\ job'[r].new = new
        /\ job'[r].old = [x \in DOMAIN new |-> row[x]]
        /\ \A q \in Request \ {r} : job'[q] = job[q]
    BY <1>4, <2>1, BegunJob
  <2>3. JobTyped(r)'
    <3>1. /\ \A a \in as : /\ new[a] \in AdminRow
                           /\ Item(a) \in DOMAIN new => new[Item(a)] \in ItemRow
          /\ \A t \in changed : new[t] \in StoreRow
      BY <1>2 DEF AdminRow, ItemRow
    <3>2. /\ \A a \in as : row[a] \in AdminRow /\ row[Item(a)] \in ItemRow
          /\ \A t \in changed : row[t] \in StoreRow
      BY <2>1, ItemFacts DEF WellTyped, TypeOK
    <3>3. DOMAIN new \subseteq Id \ Consult
      BY <1>2, ItemFacts
    <3>4. WellTyped(new)
      <4>1. ASSUME NEW x \in DOMAIN new, x \in Items
            PROVE  new[x] \in ItemRow
        <5>1. PICK a \in Admin : x = Item(a)
          BY <4>1 DEF Items
        <5>2. a \in as
          BY <1>2a, <4>1, <5>1
        <5>3. QED
          BY <3>1, <4>1, <5>1, <5>2
      <4>2. \A x \in DOMAIN new :
              /\ x \in Store => new[x] \in StoreRow
              /\ x \in Admin => new[x] \in AdminRow
              /\ x \notin Consult
        BY <1>2a, <3>1
      <4>3. QED
        BY <4>1, <4>2 DEF WellTyped
    <3>5. WellTyped([x \in DOMAIN new |-> row[x]])
      BY <2>1, <3>3 DEF WellTyped, TypeOK
    <3>6. QED
      BY <2>2, <3>3, <3>4, <3>5 DEF JobTyped, WellTyped
  <2>4. ASSUME NEW b \in Admin
        PROVE  /\ ~Creates(r, b)'
               /\ Deletes(r, b)' <=> b \in as
               /\ Saves(r, b)' <=> b \in as
               /\ Saves(r, Item(b))' <=> b \in as /\ row[Item(b)] # "none"
    <3>1. b \in as => new[b] = DeletedAdmin /\ (Item(b) \in DOMAIN new => new[Item(b)] = "none")
      BY <1>2
    <3>2. QED
      BY <1>2a, <2>2, <3>1 DEF Saves, Creates, Deletes
  <2>5. ASSUME NEW t \in Store PROVE Saves(r, t)' <=> t \in changed
    BY <1>2, <2>2, ItemFacts DEF Saves
  <2>6. ASSUME NEW b \in Admin PROVE AccountJob(r, b)'
    <3>1. b \in as => job'[r].new[b] # NoAdmin
      <4>1. b \in as => job'[r].new[b] = DeletedAdmin
        BY <1>2, <2>2
      <4>2. DeletedAdmin # NoAdmin
        BY DEF DeletedAdmin, NoAdmin
      <4>3. QED
        BY <4>1, <4>2
    <3>2. b \in as => row'[b] # NoAdmin
      BY <2>1, FoundHasRow
    <3>3. QED
      BY <2>1, <2>4, <3>1, <3>2 DEF AccountJob
  <2>7. ASSUME NEW t \in Store PROVE StoreJob(r, t)'
    <3>1. CASE t \notin changed
      BY <2>5, <3>1 DEF StoreJob
    <3>2. CASE t \in changed
      <4>1. job'[r].old[t] = row[t] /\ job'[r].new[t] = sr
        BY <1>2, <2>2, <3>2
      <4>2. row[t].storeAdminId \in as => Deletes(r, row[t].storeAdminId)'
        BY <2>4
      <4>3. QED
        BY <2>1, <3>2, <4>1, <4>2 DEF StoreJob
    <3>3. QED
      BY <3>1, <3>2
  <2>8. ASSUME NEW b \in Admin, NEW t \in Store \ Disturbed' PROVE DeletionJob(r, b, t)'
    <3>1. t \in changed => job'[r].new[t] = sr
      BY <1>2, <2>2
    <3>2. Administrator(b, t)' <=> Administrator(b, t)
      BY <2>1 DEF Administrator
    <3>3. QED
      BY <2>1, <2>4, <2>5, <3>1, <3>2 DEF DeletionJob
  <2>9. \A k \in Consult : ConsultJob(r, k)'
    BY <1>2, <2>2, ItemFacts DEF ConsultJob, Saves
  <2>10. QED
    BY <2>3, <2>6, <2>7, <2>8, <2>9 DEF Job
<1>5. QED
  BY <1>1, <1>3, <1>4, SilentKeeps

LEMMA DeleteAdminKeeps ==
  ASSUME DeskInv, NEW r \in Request, NEW a \in Admin, DeleteAdmin(r, a)
  PROVE  DeskInv'
<1> DEFINE s == row[a].store
           freed == {st \in Store : /\ row[Item(a)] = "administrator"
                                    /\ st = s
                                    /\ row[st].storeAdminId # None}
           sr == [row[s] EXCEPT !.storeAdminId = None]
<1>1. /\ Pending(r, "staff", Deletion({a}, freed, sr)) /\ Silent /\ UNCHANGED <<row, history>>
      /\ Found(a)
  BY DEF DeleteAdmin
<1>2. ASSUME NEW t \in freed
      PROVE  /\ t \in Store
             /\ sr \in StoreRow
             /\ sr.disabled = row[t].disabled /\ sr.storeAdminId = None
             /\ Administrator(a, t)
             /\ row[t].storeAdminId # None
  <2>1. row[t] \in StoreRow /\ t = s
    BY ItemFacts DEF WellTyped, TypeOK, DeskInv
  <2>2. QED
    BY <2>1 DEF StoreRow, Administrator
<1>3. ASSUME NEW t \in freed
      PROVE  /\ row[t].disabled => sr.disabled
             /\ sr.storeAdminId = None /\ (t \notin Disturbed => row[t].storeAdminId \in {a})
  <2>1. t \notin Disturbed => row[t].storeAdminId = a
    BY <1>2 DEF DeskInv, BoundIsTheAdministrator
  <2> HIDE DEF freed, sr
  <2>2. QED
    BY <1>2, <2>1
<1>4. ASSUME NEW b \in {a}, NEW t \in Store \ Disturbed, Administrator(b, t)
      PROVE  t \in freed
  <2>1. row[t].storeAdminId = a
    BY <1>4 DEF DeskInv, BoundIsTheAdministrator
  <2>2. QED
    BY <1>4, <2>1, ItemFacts DEF Administrator
<1>5. freed \in SUBSET Store /\ (freed # {} => sr \in StoreRow)
  <2>1. freed \subseteq Store
    OBVIOUS
  <2> HIDE DEF freed, sr
  <2>2. QED
    BY <1>2, <2>1
<1> HIDE DEF freed, sr
<1>6. QED
  BY <1>1, <1>2, <1>3, <1>4, <1>5, DeletionKeeps

LEMMA DeleteStoreKeeps ==
  ASSUME DeskInv, NEW r \in Request, NEW s \in Store, DeleteStore(r, s)
  PROVE  DeskInv'
<1> DEFINE as == {a \in Admin : row[a].store = s}
           closed == {st \in {s} : ~row[st].disabled}
           sr == [row[s] EXCEPT !.disabled = TRUE]
<1>1. Pending(r, "staff", Deletion(as, closed, sr)) /\ Silent /\ UNCHANGED <<row, history>>
  BY DEF DeleteStore
<1>2. row[s] \in StoreRow
  BY ItemFacts DEF WellTyped, TypeOK, DeskInv
<1>3. sr \in StoreRow /\ sr.disabled /\ sr.storeAdminId = row[s].storeAdminId
  BY <1>2 DEF StoreRow
<1>4. \A a \in as : Found(a)
  <2>1. \A a \in Admin : row[a] = NoAdmin => row[a].store = None
    BY DEF NoAdmin
  <2>2. QED
    BY <2>1, ItemFacts, FoundHasRow
<1>5. \A t \in closed : t = s
  OBVIOUS
<1>6. \A b \in as, t \in Store \ Disturbed : Administrator(b, t) => row[t].disabled \/ t \in closed
  BY DEF Administrator
<1>7. as \in SUBSET Admin /\ closed \in SUBSET Store
  OBVIOUS
<1> HIDE DEF as, closed, sr
<1>8. QED
  BY <1>1, <1>3, <1>4, <1>5, <1>6, <1>7, DeletionKeeps

LEMMA AddStoreKeeps ==
  ASSUME DeskInv, NEW r \in Request, NEW s \in Store, NEW sr \in StoreRow, AddStore(r, s, sr)
  PROVE  DeskInv'
<1> DEFINE new == One(s, sr)
<1>1. Pending(r, "resave", new) /\ Silent /\ UNCHANGED <<row, history>>
  BY DEF AddStore
<1>2. DOMAIN new = {s} /\ new[s] = sr
  BY DEF One
<1> HIDE DEF new
<1>3. NoInsert(r, new)
  BY <1>2, ItemFacts DEF NoInsert
<1>4. ASSUME Begun(r, "resave", new) PROVE Job(r)'
  <2>1. TypeOK /\ WellTyped(row) /\ row' = row
    BY <1>4 DEF DeskInv, TypeOK, Begun
  <2>2. /\ job'[r].op = "resave" /\ job'[r].new = new
        /\ job'[r].old = [x \in DOMAIN new |-> row[x]]
    BY <1>4, <2>1, BegunJob
  <2>3. row[s] \in StoreRow
    BY <2>1, ItemFacts DEF WellTyped, TypeOK
  <2>4. JobTyped(r)'
    BY <1>2, <2>2, <2>3, ItemFacts DEF JobTyped, WellTyped
  <2>5. ASSUME NEW a \in Admin
        PROVE  ~Saves(r, a)' /\ ~Saves(r, Item(a))' /\ ~Creates(r, a)' /\ ~Deletes(r, a)'
    BY <1>2, <2>2, ItemFacts DEF Saves, Creates, Deletes
  <2>6. \A a \in Admin : AccountJob(r, a)'
    BY <2>5 DEF AccountJob, Resaves
  <2>7. \A t \in Store : StoreJob(r, t)'
    BY <2>2 DEF StoreJob, Resaves, Saves
  <2>8. \A a \in Admin, t \in Store : DeletionJob(r, a, t)'
    BY <2>5 DEF DeletionJob
  <2>9. \A k \in Consult : ConsultJob(r, k)'
    BY <1>2, <2>2, ItemFacts DEF ConsultJob, Saves
  <2>10. QED
    BY <2>4, <2>6, <2>7, <2>8, <2>9 DEF Job
<1>5. QED
  BY <1>1, <1>3, <1>4, SilentKeeps

LEMMA ChangePasswordKeeps ==
  ASSUME DeskInv, NEW r \in Request, NEW a \in Admin, NEW copy \in copies[a],
         ChangePassword(r, a, copy)
  PROVE  DeskInv'
<1> DEFINE new == [x \in {a} \cup {i \in {Item(a)} : row[i] # copy.item} |->
                     IF x = a THEN copy.row ELSE copy.item]
<1>1. Pending(r, "resave", new) /\ Silent /\ UNCHANGED <<row, history>>
  BY DEF ChangePassword
<1>2. /\ a \in DOMAIN new /\ DOMAIN new \subseteq {a, Item(a)}
      /\ new[a] = copy.row
      /\ Item(a) \in DOMAIN new => new[Item(a)] = copy.item
  BY ItemFacts
<1>3. /\ copy.row \in AdminRow /\ copy.item \in ItemRow
      /\ copy.row # NoAdmin /\ row[a] # NoAdmin
      /\ row[a] \in AdminRow /\ row[Item(a)] \in ItemRow
  <2>1. copy \in [row : AdminRow, item : ItemRow]
    BY DEF DeskInv, TypeOK
  <2>2. copy.row # NoAdmin /\ row[a] # NoAdmin
    BY DEF DeskInv, RowsAreSound
  <2>3. QED
    BY <2>1, <2>2, FoundHasRow
<1> HIDE DEF new
<1>4. NoInsert(r, new)
  <2>1. ASSUME NEW q \in Request, NEW b \in Admin, Creates(q, b)
        PROVE  b # a
    BY <1>3, <2>1, FoundHasRow, FoundIsNobodysNew
  <2>2. QED
    BY <1>2, <2>1, ItemFacts DEF NoInsert
<1>5. ASSUME Begun(r, "resave", new) PROVE Job(r)'
  <2>1. TypeOK /\ WellTyped(row) /\ row' = row
    BY <1>5 DEF DeskInv, TypeOK, Begun
  <2>2. /\ job'[r].op = "resave" /\ job'[r].new = new
        /\ job'[r].old = [x \in DOMAIN new |-> row[x]]
    BY <1>5, <2>1, BegunJob
  <2>3. JobTyped(r)'
    <3>1. WellTyped(new) /\ WellTyped([x \in DOMAIN new |-> row[x]])
      BY <1>2, <1>3, ItemFacts DEF WellTyped
    <3>2. DOMAIN new \subseteq Id \ Consult
      BY <1>2, ItemFacts
    <3>3. QED
      BY <2>2, <3>1, <3>2 DEF JobTyped, WellTyped
  <2>4. ASSUME NEW b \in Admin
        PROVE  /\ ~Creates(r, b)' /\ ~Deletes(r, b)'
               /\ Saves(r, b)' <=> b = a
               /\ Saves(r, Item(b))' => b = a
               /\ Resaves(r, b)' <=> b = a
    BY <1>2, <2>2, ItemFacts DEF Saves, Creates, Deletes, Resaves
  <2>5. ASSUME NEW b \in Admin PROVE AccountJob(r, b)'
    <3>1. job'[r].new[a] # NoAdmin /\ row'[a] # NoAdmin
      BY <1>2, <1>3, <2>1, <2>2
    <3>2. QED
      BY <2>4, <3>1 DEF AccountJob
  <2>6. \A t \in Store : StoreJob(r, t)'
    BY <1>2, <2>2, ItemFacts DEF StoreJob, Saves
  <2>7. \A b \in Admin, t \in Store : DeletionJob(r, b, t)'
    BY <2>4 DEF DeletionJob
  <2>8. \A k \in Consult : ConsultJob(r, k)'
    BY <1>2, <2>2, ItemFacts DEF ConsultJob, Saves
  <2>9. QED
    BY <2>3, <2>5, <2>6, <2>7, <2>8 DEF Job
<1>6. QED
  BY <1>1, <1>4, <1>5, SilentKeeps

-----------------------------------------------------------------------------
(* The requests on consults. *)

\* What a request on consult k may be about to make of it, with these messages sent.
Right(op, k, c, messages) ==
  /\ op \in {"add", "allocate", "move", "update"}
  /\ c \in ConsultRow /\ c.placed
  /\ op = "add" => ~Placed(k) /\ Fresh(k)
  /\ op # "add" => Placed(k)
  /\ op \in {"add", "allocate"} => row[k].sales = None /\ ToSales(c.sales, k) \subseteq messages
  /\ op = "allocate" => c.sales # None
  /\ op = "update" => c = row[k]

LEMMA ConsultKeeps ==
  ASSUME DeskInv, NEW r \in Request, NEW k \in Consult, NEW op, NEW c, NEW messages,
         Right(op, k, c, messages), Pending(r, op, One(k, c)), UNCHANGED <<row, history>>,
         Grows, messages \subseteq notices' \cup lost', notices' \subseteq notices \cup messages,
         notices' \subseteq Notice, lost' \subseteq Notice,
         Announces(r, One(k, c), op, messages)
  PROVE  DeskInv'
<1> DEFINE new == One(k, c)
<1>1. Begun(r, op, new) /\ UNCHANGED failed
  BY DEF Begun, history
<1>2. DOMAIN new = {k} /\ new[k] = c
  BY DEF One
<1> HIDE DEF new
<1>3. NoInsert(r, new)
  <2>1. ASSUME NEW q \in Request, Saves(q, k), job[q].op = "add" PROVE FALSE
    BY <2>1, FoundIsNobodysNew DEF Right, Fresh, Saves
  <2>2. QED
    BY <1>2, <2>1, ItemFacts DEF NoInsert
<1>4. Job(r)'
  <2>1. TypeOK /\ WellTyped(row) /\ row' = row /\ moved' = moved
    BY <1>1 DEF DeskInv, TypeOK, Begun
  <2>2. /\ job'[r].op = op /\ job'[r].new = new
        /\ job'[r].old = [x \in DOMAIN new |-> row[x]]
        /\ \A q \in Request \ {r} : job'[q] = job[q]
    BY <1>1, <2>1, BegunJob
  <2>3. row[k] \in ConsultRow
    BY <2>1, ItemFacts DEF WellTyped, TypeOK
  <2>4. JobTyped(r)'
    BY <1>2, <2>2, <2>3, ItemFacts DEF JobTyped, WellTyped, Right
  <2>5. ASSUME NEW a \in Admin
        PROVE  ~Saves(r, a)' /\ ~Saves(r, Item(a))' /\ ~Creates(r, a)' /\ ~Deletes(r, a)'
    BY <1>2, <2>2, ItemFacts DEF Saves, Creates, Deletes
  <2>6. \A a \in Admin : AccountJob(r, a)'
    BY <2>5 DEF AccountJob, Resaves
  <2>7. \A t \in Store : StoreJob(r, t)'
    BY <1>2, <2>2, ItemFacts DEF StoreJob, Saves
  <2>8. \A a \in Admin, t \in Store : DeletionJob(r, a, t)'
    BY <2>5 DEF DeletionJob
  <2>9. ASSUME NEW l \in Consult PROVE ConsultJob(r, l)'
    <3>1. CASE l # k
      BY <1>2, <2>2, <3>1 DEF ConsultJob, Saves
    <3>2. CASE l = k
      <4>1. job'[r].old[k] = row[k] /\ job'[r].new[k] = c
        BY <1>2, <2>2
      <4>2. op \in {"add", "allocate"} => Told(c.sales, k)'
        BY DEF Right, Told
      <4>3. op = "add" => \A q \in Request \ {r} : ~Saves(q, k)'
        BY <2>2 DEF Right, Fresh, Saves
      <4>4. Telling(r, k)' <=> op \in {"add", "allocate"}
        BY <1>2, <2>2 DEF Telling
      <4>5. k \notin moved => Told(row[k].sales, k)'
        BY ToldStays DEF DeskInv, SalesWereTold
      <4>6. QED
        BY <2>1, <2>2, <3>2, <4>1, <4>2, <4>3, <4>4, <4>5 DEF ConsultJob, Right, Placed
    <3>3. QED
      BY <3>1, <3>2
  <2>10. QED
    BY <2>4, <2>6, <2>7, <2>8, <2>9 DEF Job
<1>5. Announces(r, new, op, messages)
  BY DEF new
<1>6. QED
  BY <1>1, <1>3, <1>4, <1>5, BegunKeeps

\* One that tells nobody.
LEMMA SilentConsultKeeps ==
  ASSUME DeskInv, NEW r \in Request, NEW k \in Consult, NEW op, NEW c,
         Right(op, k, c, {}), Pending(r, op, One(k, c)), UNCHANGED <<row, history>>, Silent
  PROVE  DeskInv'
<1>1. /\ Grows /\ {} \subseteq notices' \cup lost' /\ notices' \subseteq notices \cup {}
      /\ notices' \subseteq Notice /\ lost' \subseteq Notice
  BY DEF Silent, Grows, DeskInv, TypeOK
<1>2. Announces(r, One(k, c), op, {})
  BY DEF Announces
<1>3. QED
  BY <1>1, <1>2, ConsultKeeps

\* One that sends some messages of consult k.
LEMMA TellingConsultKeeps ==
  ASSUME DeskInv, NEW r \in Request, NEW k \in Consult, NEW op \in {"add", "allocate"}, NEW c,
         NEW b \in Admin \cup {None},
         Right(op, k, c, ToSales(c.sales, k) \cup ToAdministrator(b, k)),
         Pending(r, op, One(k, c)), UNCHANGED <<row, history>>,
         Tell(ToSales(c.sales, k) \cup ToAdministrator(b, k))
  PROVE  DeskInv'
<1> DEFINE messages == ToSales(c.sales, k) \cup ToAdministrator(b, k)
<1>1. c.sales \in Admin \cup {None}
  BY DEF Right, ConsultRow
<1>2. messages \subseteq Notice
  BY <1>1, MessagesTyped
<1>3. Announces(r, One(k, c), op, messages)
  BY DEF Announces, One, ToSales, ToAdministrator
<1>4. notices \subseteq Notice /\ lost \subseteq Notice
  BY DEF DeskInv, TypeOK
<1> HIDE DEF messages
<1>5. /\ Grows
      /\ notices' \subseteq Notice /\ lost' \subseteq Notice
      /\ messages \subseteq notices' \cup lost'
      /\ notices' \subseteq notices \cup messages
  BY <1>2, <1>4, TellGrows DEF messages
<1>6. Right(op, k, c, messages)
  BY DEF messages
<1>7. QED
  BY <1>3, <1>5, <1>6, ConsultKeeps

\* A consult that was placed, with another salesperson.
LEMMA GivenRow ==
  ASSUME DeskInv, NEW k \in Consult, NEW a \in Admin \cup {None}
  PROVE  /\ row[k] \in ConsultRow
         /\ [row[k] EXCEPT !.sales = a] \in ConsultRow
         /\ [row[k] EXCEPT !.sales = a].sales = a
         /\ [row[k] EXCEPT !.sales = a].placed = row[k].placed
<1>1. row[k] \in ConsultRow
  BY ItemFacts DEF WellTyped, TypeOK, DeskInv
<1>2. QED
  BY <1>1 DEF ConsultRow

\* add found no store after it had told the salesperson: nothing else happened.
LEMMA ToldInVain ==
  ASSUME DeskInv, NEW k \in Consult, NEW a \in Admin, Tell(ToSales(a, k)),
         failed' = failed \cup {k}, UNCHANGED <<row, job, moved, overtaken, copies, resaved>>
  PROVE  DeskInv'
<1>1. TypeOK /\ ToSales(a, k) \subseteq Notice
  BY MessagesTyped DEF DeskInv
<1>2. /\ Grows
      /\ notices' \subseteq Notice /\ lost' \subseteq Notice
      /\ notices' \subseteq notices \cup ToSales(a, k)
  BY <1>1, TellGrows DEF TypeOK
<1>3. TypeOK'
  BY <1>1, <1>2 DEF TypeOK, JobTyped, WellTyped
<1>4. RowsAreSound' /\ BoundIsTheAdministrator' /\ Disturbed' = Disturbed
  BY DisturbedStays DEF DeskInv, RowsAreSound, Copy, BoundIsTheAdministrator, Administrator
<1>5. SalesWereTold'
  BY <1>2, ToldStays DEF DeskInv, SalesWereTold, Told
<1>6. ASSUME NEW q \in Request, NEW l \in Consult PROVE ConsultJob(q, l)'
  <2>1. ConsultJob(q, l)
    BY DEF DeskInv, JobsAreSound
  <2>2. \A b : Told(b, l) => Told(b, l)'
    BY <1>2, ToldStays
  <2>3. (Saves(q, l)' <=> Saves(q, l)) /\ (Telling(q, l)' <=> Telling(q, l))
    BY DEF Saves, Telling
  <2>4. \A p \in Request : Saves(p, l)' <=> Saves(p, l)
    BY DEF Saves
  <2>5. QED
    BY <2>1, <2>2, <2>3, <2>4 DEF ConsultJob, Told
<1>7. JobsAreSound'
  BY <1>4, <1>6 DEF DeskInv, JobsAreSound, AccountJob, StoreJob, DeletionJob, Saves, Creates,
                    Deletes, Resaves, Administrator
<1>8. NoticesComeTrue'
  BY <1>2 DEF DeskInv, NoticesComeTrue, Telling, ToSales
<1>9. QED
  BY <1>3, <1>4, <1>5, <1>7, <1>8 DEF DeskInv

LEMMA AddForSalesKeeps ==
  ASSUME DeskInv, NEW r \in Request, NEW k \in Consult, NEW a \in Admin, AddForSales(r, k, a)
  PROVE  DeskInv'
<1> DEFINE s == row[a].store
           c == [placed |-> TRUE, sales |-> a]
<1>1. ~Placed(k) /\ Fresh(k) /\ UNCHANGED <<row, moved, overtaken, copies, resaved>>
  BY DEF AddForSales
<1>2. CASE s = None
  BY <1>1, <1>2, ToldInVain DEF AddForSales
<1>3. CASE s # None
  <2>1. /\ Pending(r, "add", One(k, c)) /\ UNCHANGED failed
        /\ Tell(ToSales(a, k) \cup ToAdministrator(row[s].storeAdminId, k))
    BY <1>3 DEF AddForSales
  <2>2. row[s].storeAdminId \in Admin \cup {None}
    <3>1. row[a] \in AdminRow
      BY ItemFacts DEF WellTyped, TypeOK, DeskInv
    <3>2. s \in Store
      BY <1>3, <3>1 DEF AdminRow, NoAdmin, DeletedAdmin
    <3>3. row[s] \in StoreRow
      BY <3>2, ItemFacts DEF WellTyped, TypeOK, DeskInv
    <3>4. QED
      BY <3>3 DEF StoreRow
  <2>3. row[k].sales = None
    BY <1>1 DEF DeskInv, RowsAreSound, Placed
  <2>4. c \in ConsultRow /\ c.placed /\ c.sales = a
    BY DEF ConsultRow
  <2>5. UNCHANGED <<row, history>>
    BY <1>1, <2>1 DEF history
  <2> DEFINE b == row[s].storeAdminId
  <2>6. Right("add", k, c, ToSales(c.sales, k) \cup ToAdministrator(b, k))
    BY <1>1, <2>3, <2>4 DEF Right
  <2> HIDE DEF c, b
  <2>7. QED
    BY <2>1, <2>2, <2>4, <2>5, <2>6, TellingConsultKeeps DEF b
<1>4. QED
  BY <1>2, <1>3

LEMMA AddForStoreKeeps ==
  ASSUME DeskInv, NEW r \in Request, NEW k \in Consult, AddForStore(r, k)
  PROVE  DeskInv'
<1> DEFINE c == [placed |-> TRUE, sales |-> None]
<1>1. /\ ~Placed(k) /\ Fresh(k) /\ UNCHANGED <<row, history>>
      /\ Pending(r, "add", One(k, c))
  BY DEF AddForStore
<1>2. PICK b \in {row[s].storeAdminId : s \in Store} \cup {None} : Tell(ToAdministrator(b, k))
  BY DEF AddForStore
<1>3. b \in Admin \cup {None}
  <2>1. ASSUME NEW s \in Store PROVE row[s].storeAdminId \in Admin \cup {None}
    <3>1. row[s] \in StoreRow
      BY ItemFacts DEF WellTyped, TypeOK, DeskInv
    <3>2. QED
      BY <3>1 DEF StoreRow
  <2>2. QED
    BY <1>2, <2>1
<1>4. row[k].sales = None
  BY <1>1 DEF DeskInv, RowsAreSound, Placed
<1>5. c \in ConsultRow /\ c.placed /\ c.sales = None
  BY DEF ConsultRow
<1>6. Right("add", k, c, ToSales(c.sales, k) \cup ToAdministrator(b, k))
  BY <1>1, <1>4, <1>5 DEF Right
<1>7. ToSales(c.sales, k) = {}
  BY <1>5 DEF ToSales
<1>8. Tell(ToSales(c.sales, k) \cup ToAdministrator(b, k))
  BY <1>2, <1>7
<1> HIDE DEF c
<1>9. QED
  BY <1>1, <1>3, <1>6, <1>8, TellingConsultKeeps

LEMMA AllocateKeeps ==
  ASSUME DeskInv, NEW r \in Request, NEW k \in Consult, NEW a \in Admin, Allocate(r, k, a)
  PROVE  DeskInv'
<1> DEFINE c == [row[k] EXCEPT !.sales = a]
<1>1. /\ Placed(k) /\ row[k].sales = None /\ UNCHANGED <<row, history>>
      /\ Pending(r, "allocate", One(k, c)) /\ Tell(ToSales(a, k))
  BY DEF Allocate, Unallocated
<1>2. c \in ConsultRow /\ c.sales = a /\ c.placed
  BY <1>1, GivenRow DEF Placed
<1>3. Right("allocate", k, c, ToSales(c.sales, k) \cup ToAdministrator(None, k))
  BY <1>1, <1>2, ItemFacts DEF Right
<1>4. ToAdministrator(None, k) = {}
  BY DEF ToAdministrator
<1>5. Tell(ToSales(c.sales, k) \cup ToAdministrator(None, k))
  BY <1>1, <1>2, <1>4
<1> HIDE DEF c
<1>6. QED
  BY <1>1, <1>3, <1>5, TellingConsultKeeps

\* A transfer, or an edit of the salesperson.
LEMMA MoveKeeps ==
  ASSUME DeskInv, NEW r \in Request, NEW k \in Consult, NEW a \in Admin \cup {None}, Placed(k),
         Pending(r, "move", One(k, [row[k] EXCEPT !.sales = a])), Silent,
         UNCHANGED <<row, history>>
  PROVE  DeskInv'
<1> DEFINE c == [row[k] EXCEPT !.sales = a]
<1>1. c \in ConsultRow /\ c.placed
  BY GivenRow DEF Placed
<1>2. Right("move", k, c, {})
  BY <1>1 DEF Right
<1>3. Pending(r, "move", One(k, c))
  OBVIOUS
<1> HIDE DEF c
<1>4. QED
  BY <1>2, <1>3, SilentConsultKeeps

LEMMA UpdateConsultKeeps ==
  ASSUME DeskInv, NEW r \in Request, NEW k \in Consult, UpdateConsult(r, k)
  PROVE  DeskInv'
<1>1. Placed(k) /\ Pending(r, "update", One(k, row[k])) /\ Silent /\ UNCHANGED <<row, history>>
  BY DEF UpdateConsult
<1>2. row[k] \in ConsultRow
  BY GivenRow
<1>3. Right("update", k, row[k], {})
  BY <1>1, <1>2 DEF Right, Placed
<1>4. QED
  BY <1>1, <1>3, SilentConsultKeeps

-----------------------------------------------------------------------------
(* A request ends. *)

LEMMA RollbackKeeps ==
  ASSUME DeskInv, NEW r \in Request, Rollback(r)
  PROVE  DeskInv'
<1>1. /\ TypeOK /\ JobsAreSound
      /\ UNCHANGED <<row, notices, lost, moved, overtaken, copies, resaved>>
      /\ Disturbed' = Disturbed
      /\ job' = [job EXCEPT ![r] = Idle]
  BY DisturbedStays DEF DeskInv, Rollback
<1>2. /\ job'[r] = Idle
      /\ \A q \in Request \ {r} : job'[q] = job[q]
      /\ job' = [q \in Request |-> job'[q]]
  BY <1>1 DEF TypeOK
<1>3. \A x : ~Saves(r, x)'
  BY <1>2 DEF Saves, Idle, NoRows
<1>4. /\ failed \subseteq failed' /\ failed' \subseteq Consult
      /\ job[r].op \in {"add", "allocate"} => DOMAIN job[r].new \subseteq failed'
  BY <1>1 DEF Rollback, TypeOK, JobTyped
<1>5. ASSUME NEW q \in Request \ {r} PROVE Job(q)'
  <2>1. /\ job'[q] = job[q]
        /\ \A x : Saves(q, x)' <=> Saves(q, x)
    BY <1>2 DEF Saves
  <2>2. ASSUME NEW p \in Request \ {q}, NEW x, Saves(p, x)' PROVE Saves(p, x)
    BY <1>2, <1>3, <2>2 DEF Saves
  <2>3. JobTyped(q)'
    BY <1>1, <2>1 DEF TypeOK, JobTyped, WellTyped
  <2>4. ASSUME NEW a \in Admin PROVE AccountJob(q, a)'
    BY <1>1, <2>1, <2>2 DEF JobsAreSound, AccountJob, Creates, Deletes, Resaves
  <2>5. ASSUME NEW s \in Store PROVE StoreJob(q, s)'
    BY <1>1, <2>1 DEF JobsAreSound, StoreJob, Creates, Deletes, Resaves
  <2>6. ASSUME NEW a \in Admin, NEW s \in Store \ Disturbed' PROVE DeletionJob(q, a, s)'
    BY <1>1, <2>1 DEF JobsAreSound, DeletionJob, Deletes, Administrator
  <2>7. ASSUME NEW k \in Consult PROVE ConsultJob(q, k)'
    BY <1>1, <2>1, <2>2 DEF JobsAreSound, ConsultJob, Telling, Told, Saves
  <2>8. QED
    BY <2>3, <2>4, <2>5, <2>6, <2>7 DEF Job
<1>6. \A q \in Request : Job(q)'
  BY <1>2, <1>5, IdleJob
<1>7. TypeOK' /\ JobsAreSound'
  BY <1>1, <1>2, <1>4, <1>6 DEF TypeOK, WellTyped, Job, JobsAreSound
<1>8. RowsAreSound' /\ BoundIsTheAdministrator' /\ SalesWereTold'
  BY <1>1 DEF DeskInv, RowsAreSound, Copy, BoundIsTheAdministrator, Administrator, SalesWereTold,
              Told
<1>9. NoticesComeTrue'
  <2> SUFFICES ASSUME NEW n \in notices,
                      n.consult \notin moved \cup overtaken \cup failed',
                      ~(row[n.consult].placed /\ (n.as = "sales" => row[n.consult].sales = n.to))
               PROVE  \E q \in Request :
                        /\ Telling(q, n.consult)'
                        /\ n.as = "sales" => job'[q].new[n.consult].sales = n.to
    BY <1>1 DEF NoticesComeTrue
  <2>1. PICK q \in Request :
          /\ Telling(q, n.consult)
          /\ n.as = "sales" => job[q].new[n.consult].sales = n.to
    BY <1>4 DEF DeskInv, NoticesComeTrue
  <2>2. q # r
    BY <1>4, <2>1 DEF Telling
  <2>3. QED
    BY <1>2, <2>1, <2>2 DEF Telling
<1>10. QED
  BY <1>7, <1>8, <1>9 DEF DeskInv

\* What a commit changes.
LEMMA CommitFacts ==
  ASSUME DeskInv, NEW r \in Request, Commit(r)
  PROVE  /\ \A x \in Id : Saves(r, x) => row'[x] = job[r].new[x]
         /\ \A x \in Id : ~Saves(r, x) => row'[x] = row[x]
         /\ row' = [x \in Id |-> row'[x]]
         /\ \A x \in (Store \cup Consult) \ overtaken' : Saves(r, x) => row[x] = job[r].old[x]
         /\ overtaken \subseteq overtaken' /\ overtaken' \subseteq Store \cup Consult
         /\ moved \subseteq moved' /\ moved' \subseteq Consult
         /\ job[r].op = "move" => DOMAIN job[r].new \subseteq moved'
         /\ resaved \subseteq resaved' /\ resaved' \subseteq Store \cup Admin
         /\ \A x \in Store \cup Admin : Resaves(r, x) => x \in resaved'
         /\ job'[r] = Idle
         /\ \A q \in Request \ {r} : job'[q] = job[q]
         /\ job' = [q \in Request |-> job'[q]]
         /\ UNCHANGED <<notices, lost, failed>>
<1>1. /\ TypeOK /\ JobTyped(r)
      /\ resaved' = IF job[r].op = "resave" THEN resaved \cup (DOMAIN job[r].new \ Items)
                                            ELSE resaved
  BY DEF DeskInv, TypeOK, Commit
<1>2. resaved \subseteq resaved' /\ resaved' \subseteq Store \cup Admin
  <2>1. job[r].op = "resave" => DOMAIN job[r].new \subseteq Id \ Consult
    BY <1>1 DEF JobTyped
  <2>2. QED
    BY <1>1, <2>1 DEF TypeOK, Id
<1>3. \A x \in Store \cup Admin : Resaves(r, x) => x \in resaved'
  BY <1>1, ItemFacts DEF Resaves, Saves
<1>4. QED
  BY <1>1, <1>2, <1>3 DEF DeskInv, TypeOK, Commit, Saves, Overtaken, JobTyped

\* What sessions may remember after a commit: the account as it is now, too.
LEMMA CommitCopies ==
  ASSUME DeskInv, NEW r \in Request, Commit(r)
  PROVE  /\ copies' = [a \in Admin |-> copies'[a]]
         /\ \A a \in Admin : /\ copies[a] \subseteq copies'[a]
                             /\ copies'[a] \subseteq copies[a] \cup {Copy(a)'}
                             /\ row'[a] # NoAdmin => Copy(a)' \in copies'[a]
                             /\ row'[a] = NoAdmin => copies'[a] = copies[a]
         /\ Disturbed \subseteq Disturbed'
<1>1. copies' = [a \in Admin |-> IF row'[a] = NoAdmin THEN copies[a] ELSE copies[a] \cup {Copy(a)'}]
  BY DEF Commit
<1>2. ASSUME NEW a \in Admin
      PROVE  copies'[a] = IF row'[a] = NoAdmin THEN copies[a] ELSE copies[a] \cup {Copy(a)'}
  BY <1>1
<1>3. Disturbed \subseteq Disturbed'
  <2>1. \A a \in Admin : copies[a] \subseteq copies'[a]
    BY <1>2
  <2>2. QED
    BY <2>1, CommitFacts DEF Disturbed, Resaved
<1>4. copies' = [a \in Admin |-> copies'[a]]
  BY <1>1
<1>5. QED
  BY <1>2, <1>3, <1>4

\* An account's row and its item after a commit.
LEMMA CommitAccounts ==
  ASSUME DeskInv, NEW r \in Request, Commit(r), NEW a \in Admin
  PROVE  /\ row[a] # NoAdmin => row'[a] # NoAdmin
         /\ ~Saves(r, a) => row'[a] = row[a] /\ row'[Item(a)] = row[Item(a)]
         /\ row'[a] = DeletedAdmin /\ a \notin resaved' => row'[Item(a)] = "none"
         /\ row'[Item(a)] = "administrator" /\ a \notin resaved' =>
              \/ /\ Creates(r, a)
                 /\ row'[a] = job[r].new[a]
                 /\ job[r].new[Item(a)] = "administrator"
              \/ /\ ~Saves(r, Item(a))
                 /\ row[Item(a)] = "administrator"
                 /\ row'[a] = row[a]
<1>1. /\ AccountJob(r, a)
      /\ row[a] = DeletedAdmin /\ a \notin resaved => row[Item(a)] = "none"
  BY DEF DeskInv, JobsAreSound, RowsAreSound
<1>2. a \in Id /\ Item(a) \in Id
  BY ItemFacts
<1>3. /\ Saves(r, a) => row'[a] = job[r].new[a]
      /\ ~Saves(r, a) => row'[a] = row[a]
      /\ Saves(r, Item(a)) => row'[Item(a)] = job[r].new[Item(a)]
      /\ ~Saves(r, Item(a)) => row'[Item(a)] = row[Item(a)]
  BY <1>2, CommitFacts
<1>4. Saves(r, Item(a)) => Saves(r, a)
  BY FoundIsNobodysNew
<1>5. a \notin resaved' => a \notin resaved /\ ~Resaves(r, a)
  BY CommitFacts
<1>6. /\ row[a] # NoAdmin => row'[a] # NoAdmin
      /\ ~Saves(r, a) => row'[a] = row[a] /\ row'[Item(a)] = row[Item(a)]
  BY <1>1, <1>3, <1>4 DEF AccountJob
<1>7. ASSUME a \notin resaved', Saves(r, Item(a)), ~Creates(r, a)
      PROVE  row'[Item(a)] = "none"
  BY <1>3, <1>4, <1>5, <1>7 DEF Creates, Resaves
<1>8. ASSUME a \notin resaved', row'[a] = DeletedAdmin
      PROVE  row'[Item(a)] = "none"
  <2>1. CASE ~Saves(r, a)
    BY <1>1, <1>5, <1>6, <1>8, <2>1
  <2>2. CASE Saves(r, a)
    <3>1. Deletes(r, a)
      BY <1>3, <1>5, <1>8, <2>2 DEF Deletes, Resaves
    <3>2. CASE Saves(r, Item(a))
      <4>1. ~Creates(r, a) \/ row[a] = NoAdmin
        BY <1>1 DEF AccountJob
      <4>2. CASE ~Creates(r, a)
        BY <1>7, <1>8, <3>2, <4>2
      <4>3. CASE Creates(r, a)
        BY <1>1, <3>1, <4>3 DEF AccountJob, Deletes
      <4>4. QED
        BY <4>2, <4>3
    <3>3. CASE ~Saves(r, Item(a))
      BY <1>1, <1>3, <1>5, <1>8, <3>1, <3>3 DEF AccountJob
    <3>4. QED
      BY <3>2, <3>3
  <2>3. QED
    BY <2>1, <2>2
<1>9. ASSUME a \notin resaved', row'[Item(a)] = "administrator"
      PROVE  \/ /\ Creates(r, a)
                /\ row'[a] = job[r].new[a]
                /\ job[r].new[Item(a)] = "administrator"
             \/ /\ ~Saves(r, Item(a))
                /\ row[Item(a)] = "administrator"
                /\ row'[a] = row[a]
  <2>1. CASE Saves(r, Item(a))
    BY <1>3, <1>4, <1>7, <1>9, <2>1
  <2>2. CASE ~Saves(r, Item(a))
    BY <1>1, <1>3, <1>5, <1>9, <2>2 DEF AccountJob
  <2>3. QED
    BY <2>1, <2>2
<1>10. QED
  BY <1>6, <1>8, <1>9

LEMMA CommitTyped ==
  ASSUME DeskInv, NEW r \in Request, Commit(r)
  PROVE  WellTyped(row)' /\ RowsAreSound'
<1>1. /\ WellTyped(row) /\ DOMAIN row = Id /\ WellTyped(job[r].new)
  BY DEF DeskInv, TypeOK, JobTyped
<1>2. WellTyped(row)'
  <2>1. DOMAIN row' = Id
    BY CommitFacts
  <2>2. ASSUME NEW x \in Id
        PROVE  /\ x \in Store => row'[x] \in StoreRow
               /\ x \in Admin => row'[x] \in AdminRow
               /\ x \in Items => row'[x] \in ItemRow
               /\ x \in Consult => row'[x] \in ConsultRow
    <3>1. CASE Saves(r, x)
      <4>1. row'[x] = job[r].new[x]
        BY <3>1, CommitFacts
      <4>2. QED
        BY <1>1, <3>1, <4>1 DEF WellTyped, Saves
    <3>2. CASE ~Saves(r, x)
      <4>1. row'[x] = row[x]
        BY <3>2, CommitFacts
      <4>2. QED
        BY <1>1, <4>1 DEF WellTyped
    <3>3. QED
      BY <3>1, <3>2
  <2>3. QED
    BY <2>1, <2>2 DEF WellTyped
<1>3. ASSUME NEW a \in Admin
      PROVE  /\ row'[a] = NoAdmin =>
                  row'[Item(a)] = "none" /\ copies'[a] = {} /\ a \notin resaved'
             /\ row'[a] # NoAdmin => Copy(a)' \in copies'[a]
             /\ row'[a] = DeletedAdmin /\ a \notin resaved' => row'[Item(a)] = "none"
             /\ \A c \in copies'[a] : c.row # NoAdmin
  <2>1. AccountJob(r, a)
    BY DEF DeskInv, JobsAreSound
  <2>2. /\ row[a] = NoAdmin => row[Item(a)] = "none" /\ copies[a] = {} /\ a \notin resaved
        /\ \A c \in copies[a] : c.row # NoAdmin
    BY DEF DeskInv, RowsAreSound
  <2>3. Saves(r, a) => row'[a] # NoAdmin
    BY <2>1, CommitFacts, ItemFacts DEF AccountJob
  <2>4. /\ ~Saves(r, a) => row'[a] = row[a] /\ row'[Item(a)] = row[Item(a)]
        /\ row'[a] = DeletedAdmin /\ a \notin resaved' => row'[Item(a)] = "none"
    BY CommitAccounts
  <2>5. /\ copies'[a] \subseteq copies[a] \cup {Copy(a)'}
        /\ row'[a] # NoAdmin => Copy(a)' \in copies'[a]
        /\ row'[a] = NoAdmin => copies'[a] = copies[a]
    BY CommitCopies
  <2>6. ~Saves(r, a) /\ a \notin resaved => a \notin resaved'
    BY ItemFacts DEF Commit, Saves
  <2>7. \A c \in copies'[a] : c.row # NoAdmin
    <3>1. Copy(a)'.row = row'[a]
      BY DEF Copy
    <3>2. QED
      BY <2>2, <2>5, <3>1
  <2>8. QED
    BY <2>2, <2>3, <2>4, <2>5, <2>6, <2>7
<1>4. ASSUME NEW k \in Consult PROVE row'[k].placed \/ row'[k].sales = None
  BY CommitFacts, ItemFacts DEF DeskInv, RowsAreSound, JobsAreSound, ConsultJob
<1>5. QED
  BY <1>2, <1>3, <1>4 DEF RowsAreSound

\* Who administers a store in the end and was ever replaced disturbs it.
LEMMA CommitReplaced ==
  ASSUME DeskInv, NEW r \in Request, Commit(r), NEW a \in Admin, NEW s \in Store \ Disturbed'
  PROVE  /\ Administrator(a, s)' => a \notin resaved'
         /\ Administrator(a, s) => a \notin resaved'
<1>1. \A c \in copies'[a] : a \in resaved' => c.row.store # s
  BY DEF Disturbed, Resaved
<1>2. Administrator(a, s)' => a \notin resaved'
  <2>1. row'[a] # NoAdmin => Copy(a)' \in copies'[a]
    BY CommitCopies
  <2>2. Copy(a)'.row = row'[a]
    BY DEF Copy
  <2>3. Administrator(a, s)' => row'[a] # NoAdmin /\ row'[a].store = s
    BY ItemFacts DEF Administrator, NoAdmin
  <2>4. QED
    BY <1>1, <2>1, <2>2, <2>3
<1>3. Administrator(a, s) => a \notin resaved'
  <2>1. row[a] # NoAdmin => Copy(a) \in copies'[a]
    BY CommitCopies DEF DeskInv, RowsAreSound
  <2>2. Copy(a).row = row[a]
    BY DEF Copy
  <2>3. Administrator(a, s) => row[a] # NoAdmin /\ row[a].store = s
    BY ItemFacts DEF Administrator, NoAdmin
  <2>4. QED
    BY <1>1, <2>1, <2>2, <2>3
<1>4. QED
  BY <1>2, <1>3

LEMMA CommitAdministrator ==
  ASSUME DeskInv, NEW r \in Request, Commit(r)
  PROVE  BoundIsTheAdministrator'
<1> SUFFICES ASSUME NEW s \in Store \ Disturbed', NEW a \in Admin
             PROVE  /\ Administrator(a, s)' => row'[s].storeAdminId = a
                    /\ ~row'[s].disabled /\ row'[s].storeAdminId = a => Administrator(a, s)'
  BY DEF BoundIsTheAdministrator
<1>1. /\ AccountJob(r, a) /\ StoreJob(r, s)
      /\ s \notin Disturbed /\ DeletionJob(r, a, s)
      /\ ~Resaves(r, s) /\ s \notin overtaken'
  <2>1. s \notin Disturbed
    BY CommitCopies
  <2>2. s \notin resaved' /\ s \notin overtaken'
    BY DEF Disturbed, Resaved
  <2>3. QED
    BY <2>1, <2>2, CommitFacts DEF DeskInv, JobsAreSound
<1>2. /\ Administrator(a, s) => row[s].storeAdminId = a
      /\ ~row[s].disabled /\ row[s].storeAdminId = a => Administrator(a, s)
  BY <1>1 DEF DeskInv, BoundIsTheAdministrator
<1>3. /\ Saves(r, s) => row'[s] = job[r].new[s] /\ row[s] = job[r].old[s]
      /\ ~Saves(r, s) => row'[s] = row[s]
  BY <1>1, CommitFacts, ItemFacts
<1>4. ASSUME Administrator(a, s)' PROVE row'[s].storeAdminId = a
  <2>1. CASE Creates(r, a) /\ row'[a] = job[r].new[a] /\ job[r].new[Item(a)] = "administrator"
    BY <1>1, <1>3, <1>4, <2>1 DEF AccountJob, Administrator
  <2>2. CASE ~Saves(r, Item(a)) /\ row[Item(a)] = "administrator" /\ row'[a] = row[a]
    <3>1. row[s].storeAdminId = a
      BY <1>2, <1>4, <2>2 DEF Administrator
    <3>2. a \notin resaved' /\ a \notin resaved /\ a # None
      BY <1>4, CommitFacts, CommitReplaced, ItemFacts
    <3>3. ~Deletes(r, a)
      BY <1>1, <2>2, <3>2 DEF AccountJob
    <3>4. QED
      BY <1>1, <1>3, <3>1, <3>2, <3>3 DEF StoreJob
  <2>3. a \notin resaved'
    BY <1>4, CommitReplaced
  <2>4. QED
    BY <1>4, <2>1, <2>2, <2>3, CommitAccounts DEF Administrator
<1>5. ASSUME ~row'[s].disabled, row'[s].storeAdminId = a PROVE Administrator(a, s)'
  <2>1. CASE Saves(r, s) /\ job[r].old[s].storeAdminId # job[r].new[s].storeAdminId
    <3>1. /\ Creates(r, a)
          /\ job[r].new[Item(a)] = "administrator"
          /\ job[r].new[a].store = s
      BY <1>1, <1>3, <1>5, <2>1, ItemFacts DEF StoreJob
    <3>2. row'[a] = job[r].new[a] /\ row'[Item(a)] = "administrator"
      BY <1>1, <3>1, CommitFacts, ItemFacts DEF AccountJob, Creates
    <3>3. QED
      BY <3>1, <3>2 DEF Administrator
  <2>2. CASE ~(Saves(r, s) /\ job[r].old[s].storeAdminId # job[r].new[s].storeAdminId)
    <3>1. row[s].storeAdminId = a /\ ~row[s].disabled
      BY <1>1, <1>3, <1>5, <2>2 DEF StoreJob
    <3>2. Administrator(a, s) /\ a \notin resaved'
      BY <1>2, <3>1, CommitReplaced
    <3>3. ~Deletes(r, a) /\ ~Resaves(r, a)
      BY <1>1, <1>3, <1>5, <3>1, <3>2, CommitFacts, ItemFacts DEF DeletionJob
    <3>4. ~Creates(r, a)
      BY <1>1, <3>2 DEF AccountJob, Administrator, DeskInv, RowsAreSound
    <3>5. ~Saves(r, Item(a))
      BY <1>1, <3>3, <3>4 DEF AccountJob
    <3>6. row'[Item(a)] = "administrator"
      BY <3>2, <3>5, CommitFacts, ItemFacts DEF Administrator
    <3>7. row'[a] = row[a]
      BY <3>2, <3>5, <3>6, CommitAccounts DEF Creates
    <3>8. QED
      BY <3>2, <3>6, <3>7 DEF Administrator
  <2>3. QED
    BY <2>1, <2>2
<1>6. QED
  BY <1>4, <1>5

LEMMA CommitTold ==
  ASSUME DeskInv, NEW r \in Request, Commit(r)
  PROVE  SalesWereTold' /\ NoticesComeTrue'
<1>1. \A k \in Consult :
        /\ ConsultJob(r, k)
        /\ Saves(r, k) => row'[k] = job[r].new[k]
        /\ ~Saves(r, k) => row'[k] = row[k]
        /\ Saves(r, k) /\ k \notin moved' => job[r].op # "move" /\ k \notin moved
        /\ Saves(r, k) /\ k \notin overtaken' => row[k] = job[r].old[k]
        /\ k \notin moved' => k \notin moved
        /\ k \notin overtaken' => k \notin overtaken
  BY CommitFacts, ItemFacts DEF DeskInv, JobsAreSound, Saves
<1>2. SalesWereTold'
  <2> SUFFICES ASSUME NEW k \in Consult \ moved'
               PROVE  Told(row'[k].sales, k)
    BY CommitFacts DEF SalesWereTold, Told
  <2>1. CASE ~Saves(r, k)
    BY <1>1, <2>1 DEF DeskInv, SalesWereTold
  <2>2. CASE Saves(r, k)
    BY <1>1, <2>2 DEF ConsultJob
  <2>3. QED
    BY <2>1, <2>2
<1>3. NoticesComeTrue'
  <2> SUFFICES ASSUME NEW n \in notices,
                      n.consult \notin moved' \cup overtaken' \cup failed,
                      ~\E q \in Request :
                        /\ Telling(q, n.consult)'
                        /\ n.as = "sales" => job'[q].new[n.consult].sales = n.to
               PROVE  /\ row'[n.consult].placed
                      /\ n.as = "sales" => row'[n.consult].sales = n.to
    BY CommitFacts DEF NoticesComeTrue
  <2> DEFINE k == n.consult
  <2>1. n \in Notice /\ k \in Consult /\ n.to \in Admin /\ n.to # None
    BY ItemFacts DEF DeskInv, TypeOK, Notice
  <2>2. \/ \E q \in Request : Telling(q, k) /\ (n.as = "sales" => job[q].new[k].sales = n.to)
        \/ row[k].placed /\ (n.as = "sales" => row[k].sales = n.to)
    BY <1>1, <2>1 DEF DeskInv, NoticesComeTrue
  <2>3. \A q \in Request \ {r} : Telling(q, k)' <=> Telling(q, k)
    BY CommitFacts DEF Telling
  <2>4. \/ Telling(r, k) /\ (n.as = "sales" => job[r].new[k].sales = n.to)
        \/ row[k].placed /\ (n.as = "sales" => row[k].sales = n.to)
    BY <2>2, <2>3, CommitFacts
  <2>5. CASE Telling(r, k) /\ (n.as = "sales" => job[r].new[k].sales = n.to)
    <3>1. Saves(r, k)
      BY <2>5 DEF Telling, Saves
    <3>2. QED
      BY <1>1, <2>1, <2>5, <3>1 DEF ConsultJob
  <2>6. CASE row[k].placed /\ (n.as = "sales" => row[k].sales = n.to)
    <3>1. CASE ~Saves(r, k)
      BY <1>1, <2>1, <2>6, <3>1
    <3>2. CASE Saves(r, k)
      <4>1. /\ ConsultJob(r, k) /\ row'[k] = job[r].new[k]
            /\ job[r].op # "move" /\ row[k] = job[r].old[k]
        BY <1>1, <2>1, <3>2
      <4>2. CASE Telling(r, k)
        BY <2>1, <2>6, <3>2, <4>1, <4>2 DEF ConsultJob
      <4>3. CASE ~Telling(r, k)
        BY <2>6, <3>2, <4>1, <4>3 DEF ConsultJob
      <4>4. QED
        BY <4>2, <4>3
    <3>3. QED
      BY <3>1, <3>2
  <2>7. QED
    BY <2>4, <2>5, <2>6
<1>4. QED
  BY <1>2, <1>3

LEMMA CommitJobs ==
  ASSUME DeskInv, NEW r \in Request, Commit(r), NEW q \in Request \ {r}
  PROVE  Job(q)'
<1>1. /\ job'[q] = job[q]
      /\ \A x : Saves(q, x)' <=> Saves(q, x)
  BY CommitFacts DEF Saves
<1>2. ASSUME NEW p \in Request \ {q}, NEW x, Saves(p, x)' PROVE Saves(p, x)
  BY <1>2, CommitFacts DEF Saves, Idle, NoRows
<1>3. /\ JobTyped(q)
      /\ \A a \in Admin : AccountJob(q, a) /\ AccountJob(r, a)
      /\ \A k \in Consult : ConsultJob(q, k) /\ ConsultJob(r, k)
  BY DEF DeskInv, TypeOK, JobsAreSound
<1>4. JobTyped(q)'
  BY <1>1, <1>3 DEF JobTyped, WellTyped
<1>5. ASSUME NEW a \in Admin PROVE AccountJob(q, a)'
  <2>1. /\ AccountJob(q, a) /\ AccountJob(r, a)
        /\ Creates(q, a)' <=> Creates(q, a)
        /\ Deletes(q, a)' <=> Deletes(q, a)
        /\ Resaves(q, a)' <=> Resaves(q, a)
        /\ a \notin resaved' => a \notin resaved
    BY <1>1, <1>3, CommitFacts DEF Creates, Deletes, Resaves
  <2>2. row[a] # NoAdmin => row'[a] # NoAdmin
    BY CommitAccounts
  <2>3. Creates(q, a) => row'[a] = NoAdmin
    BY <2>1, CommitAccounts DEF AccountJob
  <2>4. Creates(q, a) => \A p \in Request \ {q} : ~Saves(p, a)' /\ ~Saves(p, Item(a))'
    BY <1>2, <2>1 DEF AccountJob
  <2>5. Saves(q, a) => ~Creates(r, a)
    BY <2>1 DEF AccountJob
  <2>6. /\ Saves(q, a) /\ ~Saves(q, Item(a)) /\ ~Resaves(q, a) /\ a \notin resaved' =>
             (row'[Item(a)] = "administrator" => job[q].new[a] = row'[a])
    BY <2>1, <2>5, CommitAccounts DEF AccountJob
  <2>7. Deletes(q, a) /\ ~Saves(q, Item(a)) /\ a \notin resaved' => row'[Item(a)] = "none"
    <3>1. Deletes(q, a) /\ ~Saves(q, Item(a)) /\ a \notin resaved' =>
            /\ row[Item(a)] = "none" /\ ~Creates(r, a) /\ ~Resaves(r, a)
      BY <2>1, <2>5, CommitFacts DEF AccountJob, Deletes
    <3>2. Saves(r, Item(a)) /\ ~Creates(r, a) /\ ~Resaves(r, a) => row'[Item(a)] = "none"
      BY <2>1, CommitFacts, ItemFacts DEF AccountJob, Creates, Resaves
    <3>3. ~Saves(r, Item(a)) => row'[Item(a)] = row[Item(a)]
      BY CommitFacts, ItemFacts
    <3>4. QED
      BY <3>1, <3>2, <3>3
  <2>8. QED
    BY <1>1, <2>1, <2>2, <2>3, <2>4, <2>6, <2>7 DEF AccountJob
<1>6. ASSUME NEW s \in Store PROVE StoreJob(q, s)'
  <2>1. StoreJob(q, s) /\ (s \notin Disturbed' => s \notin Disturbed)
    BY CommitCopies DEF DeskInv, JobsAreSound
  <2>2. QED
    BY <1>1, <2>1 DEF StoreJob, Creates, Deletes, Resaves
<1>7. ASSUME NEW a \in Admin, NEW s \in Store \ Disturbed' PROVE DeletionJob(q, a, s)'
  <2>0. s \notin Disturbed /\ s \notin resaved' /\ s \notin overtaken'
    BY CommitCopies DEF Disturbed, Resaved
  <2>1. DeletionJob(q, a, s) /\ StoreJob(r, s) /\ ~Resaves(r, s)
    BY <2>0, CommitFacts DEF DeskInv, JobsAreSound
  <2>2. row[s].disabled => row'[s].disabled
    BY <2>0, <2>1, CommitFacts, ItemFacts DEF StoreJob
  <2>3. Deletes(q, a) /\ Administrator(a, s)' => Administrator(a, s)
    <3>1. Administrator(a, s)' => a \notin resaved'
      BY CommitReplaced
    <3>2. Deletes(q, a) => ~Creates(r, a)
      BY <1>3 DEF AccountJob, Deletes
    <3>3. QED
      BY <3>1, <3>2, CommitAccounts DEF Administrator
  <2>4. QED
    BY <1>1, <2>1, <2>2, <2>3 DEF DeletionJob, Deletes
<1>8. ASSUME NEW k \in Consult PROVE ConsultJob(q, k)'
  <2>1. /\ ConsultJob(q, k) /\ ConsultJob(r, k)
        /\ k \notin moved' => k \notin moved
        /\ Saves(r, k) => row'[k] = job[r].new[k]
        /\ ~Saves(r, k) => row'[k] = row[k]
        /\ UNCHANGED <<notices, lost>>
    BY <1>3, CommitFacts, ItemFacts
  <2>2. Telling(q, k)' <=> Telling(q, k)
    BY <1>1 DEF Telling
  <2>3. row[k].placed => row'[k].placed
    BY <2>1 DEF ConsultJob
  <2>4. Saves(q, k) /\ job[q].op = "add" => row'[k] = row[k]
    BY <2>1 DEF ConsultJob
  <2>5. Saves(q, k) /\ job[q].op = "add" => \A p \in Request \ {q} : ~Saves(p, k)'
    BY <1>2, <2>1 DEF ConsultJob
  <2>6. \A a : Told(a, k)' <=> Told(a, k)
    BY <2>1 DEF Told
  <2>7. QED
    BY <1>1, <2>1, <2>2, <2>3, <2>4, <2>5, <2>6 DEF ConsultJob, Told
<1>9. QED
  BY <1>4, <1>5, <1>6, <1>7, <1>8 DEF Job

LEMMA CommitKeeps ==
  ASSUME DeskInv, NEW r \in Request, Commit(r)
  PROVE  DeskInv'
<1>1. \A q \in Request : Job(q)'
  BY CommitFacts, CommitJobs, IdleJob
<1>2. TypeOK'
  <2>1. /\ row' = [x \in Id |-> row'[x]] /\ job' = [q \in Request |-> job'[q]]
        /\ overtaken' \subseteq Store \cup Consult /\ moved' \subseteq Consult
        /\ resaved' \subseteq Store \cup Admin /\ copies' = [a \in Admin |-> copies'[a]]
        /\ UNCHANGED <<notices, lost, failed>>
    BY CommitFacts, CommitCopies
  <2>2. WellTyped(row)' /\ \A q \in Request : JobTyped(q)'
    BY <1>1, CommitTyped DEF Job
  <2>3. notices \subseteq Notice /\ lost \subseteq Notice /\ failed \subseteq Consult
    BY DEF DeskInv, TypeOK
  <2>4. ASSUME NEW a \in Admin PROVE copies'[a] \subseteq [row : AdminRow, item : ItemRow]
    <3>1. row'[a] \in AdminRow /\ row'[Item(a)] \in ItemRow
      BY <2>1, <2>2, ItemFacts DEF WellTyped
    <3>2. Copy(a)' \in [row : AdminRow, item : ItemRow]
      BY <3>1 DEF Copy
    <3>3. copies[a] \subseteq [row : AdminRow, item : ItemRow]
      BY DEF DeskInv, TypeOK
    <3>4. QED
      BY <3>2, <3>3, CommitCopies
  <2>5. QED
    BY <2>1, <2>2, <2>3, <2>4 DEF TypeOK
<1>3. JobsAreSound'
  BY <1>1 DEF Job, JobsAreSound
<1>4. QED
  BY <1>2, <1>3, CommitTyped, CommitAdministrator, CommitTold DEF DeskInv

-----------------------------------------------------------------------------

LEMMA InitDesk == Init => DeskInv
<1> SUFFICES ASSUME Init PROVE DeskInv
  OBVIOUS
<1>1. /\ \A s \in Store : row[s] = [disabled |-> FALSE, storeAdminId |-> None]
      /\ \A a \in Admin : row[a] = NoAdmin /\ row[Item(a)] = "none"
      /\ \A k \in Consult : row[k] = NoConsult
      /\ \A x \in Items : row[x] = "none"
      /\ row = [x \in Id |-> row[x]]
  <2>1. row = [x \in Id |-> IF x \in Store THEN [disabled |-> FALSE, storeAdminId |-> None]
                            ELSE IF x \in Admin THEN NoAdmin
                            ELSE IF x \in Items THEN "none"
                            ELSE NoConsult]
    BY DEF Init
  <2>2. row = [x \in Id |-> row[x]]
    BY <2>1
  <2>3. ASSUME NEW s \in Store PROVE row[s] = [disabled |-> FALSE, storeAdminId |-> None]
    BY <2>1, ItemFacts
  <2>4. ASSUME NEW a \in Admin PROVE row[a] = NoAdmin
    BY <2>1, ItemFacts
  <2>5. ASSUME NEW x \in Items PROVE row[x] = "none"
    BY <2>1, ItemFacts DEF Id
  <2>6. ASSUME NEW k \in Consult PROVE row[k] = NoConsult
    BY <2>1, ItemFacts
  <2>7. QED
    BY <2>2, <2>3, <2>4, <2>5, <2>6, ItemFacts
<1>2. WellTyped(row)
  <2>1. /\ [disabled |-> FALSE, storeAdminId |-> None] \in StoreRow
        /\ NoAdmin \in AdminRow /\ "none" \in ItemRow /\ NoConsult \in ConsultRow
    BY DEF NoConsult, StoreRow, AdminRow, ItemRow, ConsultRow
  <2>2. ASSUME NEW s \in Store PROVE row[s] \in StoreRow
    <3>1. row[s] = [disabled |-> FALSE, storeAdminId |-> None]
      BY <1>1
    <3>2. QED
      BY <2>1, <3>1
  <2>3. \A a \in Admin : row[a] \in AdminRow
    BY <1>1, <2>1
  <2>4. \A x \in Items : row[x] \in ItemRow
    BY <1>1, <2>1
  <2>5. \A k \in Consult : row[k] \in ConsultRow
    BY <1>1, <2>1
  <2>6. QED
    BY <2>2, <2>3, <2>4, <2>5 DEF WellTyped
<1>3. /\ job = [r \in Request |-> Idle]
      /\ notices = {} /\ lost = {} /\ moved = {} /\ overtaken = {} /\ failed = {}
      /\ copies = [a \in Admin |-> {}] /\ resaved = {}
  BY DEF Init
<1>4. TypeOK
  BY <1>1, <1>2, <1>3 DEF TypeOK, JobTyped, Idle, NoRows, WellTyped
<1>5. RowsAreSound
  <2>1. NoAdmin # DeletedAdmin
    BY DEF NoAdmin, DeletedAdmin
  <2>2. QED
    BY <1>1, <1>3, <2>1 DEF RowsAreSound, NoConsult
<1>6. JobsAreSound
  BY <1>3 DEF JobsAreSound, AccountJob, StoreJob, DeletionJob, ConsultJob, Creates, Deletes,
              Resaves, Saves, Idle, NoRows
<1>7. BoundIsTheAdministrator
  <2>1. ASSUME NEW s \in Store PROVE row[s].storeAdminId = None
    <3>1. row[s] = [disabled |-> FALSE, storeAdminId |-> None]
      BY <1>1
    <3>2. QED
      BY <3>1
  <2>2. \A a \in Admin, s \in Store : ~Administrator(a, s)
    BY <1>1 DEF Administrator
  <2>3. QED
    BY <2>1, <2>2, ItemFacts DEF BoundIsTheAdministrator
<1>8. SalesWereTold
  BY <1>1 DEF SalesWereTold, Told, ToSales, NoConsult
<1>9. NoticesComeTrue
  BY <1>3 DEF NoticesComeTrue
<1>10. QED
  BY <1>4, <1>5, <1>6, <1>7, <1>8, <1>9 DEF DeskInv

LEMMA NextDesk == DeskInv /\ [Next]_vars => DeskInv'
<1> SUFFICES ASSUME DeskInv, [Next]_vars PROVE DeskInv'
  OBVIOUS
<1>1. CASE UNCHANGED vars
  <2>1. TypeOK'
    BY <1>1 DEF vars, DeskInv, TypeOK, JobTyped, WellTyped
  <2>0. Disturbed' = Disturbed
    BY <1>1, DisturbedStays DEF vars
  <2>2. RowsAreSound' /\ BoundIsTheAdministrator' /\ SalesWereTold'
    BY <1>1, <2>0 DEF vars, DeskInv, RowsAreSound, Copy, BoundIsTheAdministrator, Administrator,
                      SalesWereTold, Told
  <2>3. JobsAreSound'
    BY <1>1, <2>0 DEF vars, DeskInv, JobsAreSound, AccountJob, StoreJob, DeletionJob, ConsultJob,
                      Creates, Deletes, Resaves, Saves, Telling, Told, Administrator
  <2>4. NoticesComeTrue'
    BY <1>1 DEF vars, DeskInv, NoticesComeTrue, Telling
  <2>5. QED
    BY <2>1, <2>2, <2>3, <2>4 DEF DeskInv
<1>2. ASSUME NEW r \in Request, StaffNext(r) PROVE DeskInv'
  BY <1>2, StoreAdministratorKeeps, SalesConsultantKeeps, DeleteAdminKeeps, UpdateAdminKeeps,
     ModifyStoreKeeps, DeleteStoreKeeps, AddStoreKeeps, ChangePasswordKeeps DEF StaffNext
<1>3. ASSUME NEW r \in Request, ConsultNext(r) PROVE DeskInv'
  <2>1. ASSUME NEW k \in Consult, ChangeToStore(r, k) PROVE DeskInv'
    BY <2>1, MoveKeeps DEF ChangeToStore
  <2>2. ASSUME NEW k \in Consult, NEW a \in Admin, ChangeToSalesConsultant(r, k, a) PROVE DeskInv'
    BY <2>2, MoveKeeps DEF ChangeToSalesConsultant
  <2>3. ASSUME NEW k \in Consult, NEW a \in Admin, ModifySales(r, k, a) PROVE DeskInv'
    BY <2>3, MoveKeeps DEF ModifySales
  <2>4. QED
    BY <1>3, <2>1, <2>2, <2>3, AddForSalesKeeps, AddForStoreKeeps, AllocateKeeps,
       UpdateConsultKeeps DEF ConsultNext
<1>4. QED
  BY <1>1, <1>2, <1>3, CommitKeeps, RollbackKeeps DEF Next

\* What is committed stays right, and so does what the requests are about to commit.
THEOREM DeskInvariant == Spec => []DeskInv
BY InitDesk, NextDesk, PTL DEF Spec

\* The account a store is bound to is its one live administrator
\* (AdminServiceImpl.storeAdministrator and delete, StoreServiceImpl.delete), unless
\* the store's row was saved over a change that was not read, replaced by add, or one
\* of the store's accounts replaced by changePassword of an old session.
THEOREM AdministratorTheorem == Spec => []BoundIsTheAdministrator
<1>1. DeskInv => BoundIsTheAdministrator
  BY DEF DeskInv
<1>2. QED
  BY <1>1, DeskInvariant, PTL

\* Whoever a consult belongs to was told (ConsultServiceImpl.add and allocate), unless
\* the push failed or the consult was moved.
THEOREM SalesToldTheorem == Spec => []SalesWereTold
<1>1. DeskInv => SalesWereTold
  BY DEF DeskInv
<1>2. QED
  BY <1>1, DeskInvariant, PTL

\* What the staff was told is so, unless the request that told it was rolled back, or
\* the consult was moved or saved by two at once (ConsultServiceImpl.add, allocate).
THEOREM NoticesTheorem == Spec => []NoticesAreTrue
<1>1. DeskInv => NoticesAreTrue
  BY DEF DeskInv, NoticesComeTrue, NoticesAreTrue
<1>2. QED
  BY <1>1, DeskInvariant, PTL

\* No operation opens a closed store (StoreServiceImpl.modify, delete) but add, whose
\* client sends it open, unless the store's row was saved over a change not read.
THEOREM ClosedTheorem == Spec => ClosedStaysClosed
<1>1. ASSUME DeskInv, [Next]_vars
      PROVE  [\A s \in Store :
                row[s].disabled /\ ~row'[s].disabled => s \in overtaken' \cup resaved']_vars
  <2> SUFFICES ASSUME NEW s \in Store, row[s].disabled, ~row'[s].disabled
               PROVE  s \in overtaken' \cup resaved'
    OBVIOUS
  <2>1. row' # row
    OBVIOUS
  <2>2. PICK r \in Request : Commit(r)
    <3>1. ASSUME NEW r \in Request, StaffNext(r) \/ ConsultNext(r) \/ Rollback(r)
          PROVE  row' = row
      BY <3>1 DEF StaffNext, StoreAdministrator, SalesConsultant, DeleteAdmin, UpdateAdmin,
                  ModifyStore, DeleteStore, AddStore, ChangePassword, ConsultNext, AddForSales, AddForStore, Allocate,
                  ChangeToStore, ChangeToSalesConsultant, ModifySales, UpdateConsult, Rollback
    <3>2. QED
      BY <1>1, <2>1, <3>1 DEF Next, vars
  <2>3. StoreJob(r, s)
    BY <1>1 DEF DeskInv, JobsAreSound
  <2>4. QED
    BY <1>1, <2>2, <2>3, CommitFacts, ItemFacts DEF StoreJob
<1>2. QED
  BY <1>1, DeskInvariant, PTL DEF Spec, ClosedStaysClosed

-----------------------------------------------------------------------------
(* One request at a time.                                                  *)

OneRequest == \A r, q \in Request : r = q

\* What the request in progress read is what is committed, and so nothing was overtaken.
NothingOvertaken ==
  /\ overtaken = {}
  /\ \A r \in Request : \A x \in DOMAIN job[r].new : row[x] = job[r].old[x]

LEMMA AloneKeeps ==
  ASSUME OneRequest, DeskInv, NothingOvertaken, [Next]_vars
  PROVE  NothingOvertaken'
<1>0. job = [r \in Request |-> job[r]]
  BY DEF DeskInv, TypeOK
<1>1. CASE UNCHANGED vars
  BY <1>1 DEF vars, NothingOvertaken
<1>2. ASSUME NEW r \in Request, NEW op, NEW new, Pending(r, op, new),
             UNCHANGED <<row, overtaken>>
      PROVE  NothingOvertaken'
  <2>1. job'[r].new = new /\ job'[r].old = [x \in DOMAIN new |-> row[x]]
    BY <1>0, <1>2 DEF Pending
  <2>2. \A q \in Request : q = r
    BY DEF OneRequest
  <2>3. QED
    BY <1>2, <2>1, <2>2 DEF NothingOvertaken
<1>3. ASSUME NEW r \in Request, StaffNext(r) PROVE NothingOvertaken'
  BY <1>2, <1>3 DEF StaffNext, StoreAdministrator, SalesConsultant, DeleteAdmin, UpdateAdmin,
                    ModifyStore, DeleteStore, AddStore, ChangePassword, history
<1>4. ASSUME NEW r \in Request, NEW k \in Consult, NEW a \in Admin, AddForSales(r, k, a)
      PROVE  NothingOvertaken'
  <2>1. UNCHANGED <<row, overtaken>>
    BY <1>4 DEF AddForSales
  <2>2. CASE UNCHANGED job
    BY <2>1, <2>2 DEF NothingOvertaken
  <2>3. CASE Pending(r, "add", One(k, [placed |-> TRUE, sales |-> a]))
    BY <1>2, <2>1, <2>3
  <2>4. QED
    BY <1>4, <2>2, <2>3 DEF AddForSales
<1>5. ASSUME NEW r \in Request, ConsultNext(r) PROVE NothingOvertaken'
  BY <1>2, <1>4, <1>5 DEF ConsultNext, AddForStore, Allocate, ChangeToStore,
                          ChangeToSalesConsultant, ModifySales, UpdateConsult, history
<1>6. ASSUME NEW r \in Request, Commit(r) \/ Rollback(r) PROVE NothingOvertaken'
  <2>1. DOMAIN job'[r].new = {}
    <3>1. job'[r] = Idle
      BY <1>0, <1>6 DEF Commit, Rollback
    <3>2. QED
      BY <3>1 DEF Idle, NoRows
  <2>2. Overtaken(r) = {}
    BY DEF Overtaken, NothingOvertaken
  <2>3. overtaken' = {}
    BY <1>6, <2>2 DEF Commit, Rollback, NothingOvertaken
  <2>4. \A q \in Request : q = r
    BY DEF OneRequest
  <2>5. QED
    BY <2>1, <2>3, <2>4 DEF NothingOvertaken
<1>7. QED
  BY <1>1, <1>3, <1>5, <1>6 DEF Next

\* A bound account is the store's one live administrator, and an administrator of a store
\* is the one bound to it, but for what add and changePassword replaced.
Bound ==
  \A s \in Store \ Resaved :
    /\ \A a \in Admin : Administrator(a, s) => row[s].storeAdminId = a
    /\ ~row[s].disabled =>
         \A a \in Admin : row[s].storeAdminId = a => Administrator(a, s)

\* With requests that come one at a time every commit finds the role items it deletes, and
\* only what the client sends to add, or what an old session saves by changePassword, gives
\* a store an administrator but the one it is bound to, and only add opens a closed store:
\* the other exceptions of AdministratorTheorem and ClosedTheorem come of overtaking
\* (AdminServiceImpl, StoreServiceImpl).
THEOREM AloneBoundTheorem ==
  ASSUME OneRequest
  PROVE  Spec => /\ [](Bound /\ \A r \in Request : ItemsThere(r))
                 /\ [][\A s \in Store : row[s].disabled /\ ~row'[s].disabled => s \in resaved']_vars
<1>1. Init => NothingOvertaken
  <2>1. DOMAIN Idle.new = {}
    BY DEF Idle, NoRows
  <2>2. Init => overtaken = {} /\ \A r \in Request : job[r] = Idle
    BY DEF Init
  <2>3. QED
    BY <2>1, <2>2 DEF NothingOvertaken
<1>2. DeskInv /\ NothingOvertaken /\ [Next]_vars => NothingOvertaken'
  BY AloneKeeps
<1>3. DeskInv /\ NothingOvertaken => Bound /\ \A r \in Request : ItemsThere(r)
  <2>1. NothingOvertaken => Disturbed = Resaved
    BY DEF NothingOvertaken, Disturbed
  <2>2. DeskInv /\ NothingOvertaken => Bound
    BY <2>1 DEF DeskInv, BoundIsTheAdministrator, Bound
  <2>3. NothingOvertaken => \A r \in Request : ItemsThere(r)
    BY DEF NothingOvertaken, ItemsThere
  <2>4. QED
    BY <2>2, <2>3
<1>4. NothingOvertaken' /\ [\A s \in Store : row[s].disabled /\ ~row'[s].disabled =>
                              s \in overtaken' \cup resaved']_vars
        => [\A s \in Store : row[s].disabled /\ ~row'[s].disabled => s \in resaved']_vars
  BY DEF NothingOvertaken
<1>5. QED
  BY <1>1, <1>2, <1>3, <1>4, DeskInvariant, ClosedTheorem, PTL DEF Spec, ClosedStaysClosed
=============================================================================
