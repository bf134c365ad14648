------------------------- MODULE VerificationProofs -------------------------
(***************************************************************************)
(* Proofs about Verification, for any number of phones, codes and requests *)
(* at a time.  VerificationInv is inductive: what makes it so is that a    *)
(* phone's code is followed through the one getCode in progress, and a     *)
(* phone's customers through the one request about to register it.         *)
(***************************************************************************)
EXTENDS Verification, TLAPS

\* What people type.
Typed == Code \cup {NullText}

\* What one step of the thread of a request is.
LEMMA ThreadStep ==
  ASSUME NEW r \in Request, Asked(r) \/ Continue(r) \/ Fail(r)
  PROVE  \/ \E ph \in Phone, c \in Code, taken \in BOOLEAN : AskCode(r, ph, c, taken)
         \/ \E op \in {"login", "consult"}, ph \in Phone, c \in Typed : Verify(r, op, ph, c)
         \/ StoreCode(r)
         \/ CheckPhone(r)
         \/ RegisterPhone(r)
         \/ FindPhone(r)
         \/ FindSeveral(r)
         \/ Fail(r)
BY DEF Asked, Continue, Typed

LEMMA InitInv == Init => VerificationInv
BY DEF Init, VerificationInv, TypeOK, Job, Idle, JobsAreSound, StoredWasIssued, FoundAreThere,
       LatestCodeIsValid, OneCustomerPerPhone, Storing, Registering

\* Each action keeps types and the facts about jobs.
LEMMA TypesKept ==
  ASSUME TypeOK, JobsAreSound, NEW r \in Request, Asked(r) \/ Continue(r) \/ Fail(r)
  PROVE  TypeOK' /\ JobsAreSound'
<1> USE DEF TypeOK, JobsAreSound, Job, Idle
<1>1. ASSUME NEW ph \in Phone, NEW c \in Code, NEW taken \in BOOLEAN, AskCode(r, ph, c, taken)
      PROVE  TypeOK' /\ JobsAreSound'
  BY <1>1 DEF AskCode
<1>2. ASSUME NEW op \in {"login", "consult"}, NEW ph \in Phone, NEW c \in Typed,
             Verify(r, op, ph, c)
      PROVE  TypeOK' /\ JobsAreSound'
  BY <1>2 DEF Verify, Typed
<1>3. CASE StoreCode(r)
  BY <1>3, NoneAssumption DEF StoreCode, Stored
<1>4. CASE CheckPhone(r)
  BY <1>4 DEF CheckPhone
<1>5. CASE RegisterPhone(r)
  BY <1>5 DEF RegisterPhone
<1>6. CASE FindPhone(r) \/ FindSeveral(r)
  BY <1>6 DEF FindPhone, FindSeveral
<1>7. CASE Fail(r)
  BY <1>7 DEF Fail
<1> HIDE DEF TypeOK, JobsAreSound, Job, Idle
<1>8. QED
  BY <1>1, <1>2, <1>3, <1>4, <1>5, <1>6, <1>7, ThreadStep

\* The stored code of a phone was drawn for it.
LEMMA StoredKept ==
  ASSUME TypeOK, JobsAreSound, StoredWasIssued,
         NEW r \in Request, Asked(r) \/ Continue(r) \/ Fail(r)
  PROVE  StoredWasIssued'
<1>1. ASSUME NEW ph \in Phone, NEW c \in Code, NEW taken \in BOOLEAN, AskCode(r, ph, c, taken)
      PROVE  StoredWasIssued'
  BY <1>1 DEF AskCode, StoredWasIssued, TypeOK
<1>2. CASE StoreCode(r)
  BY <1>2 DEF StoreCode, Stored, StoredWasIssued, JobsAreSound, TypeOK
<1>3. CASE UNCHANGED <<code, issued>>
  BY <1>3 DEF StoredWasIssued
<1>4. QED
  BY <1>1, <1>2, <1>3, ThreadStep DEF Verify, CheckPhone, RegisterPhone, FindPhone, FindSeveral, Fail

\* Customers that a request found are not fewer later.
LEMMA FoundKept ==
  ASSUME TypeOK, JobsAreSound, FoundAreThere,
         NEW r \in Request, Asked(r) \/ Continue(r) \/ Fail(r)
  PROVE  FoundAreThere'
<1> USE DEF TypeOK, JobsAreSound, FoundAreThere, Job, Idle
<1>1. ASSUME NEW ph \in Phone, NEW c \in Code, NEW taken \in BOOLEAN, AskCode(r, ph, c, taken)
      PROVE  FoundAreThere'
  BY <1>1 DEF AskCode
<1>2. ASSUME NEW op \in {"login", "consult"}, NEW ph \in Phone, NEW c \in Typed,
             Verify(r, op, ph, c)
      PROVE  FoundAreThere'
  BY <1>2 DEF Verify
<1>3. CASE StoreCode(r)
  BY <1>3 DEF StoreCode
<1>4. CASE CheckPhone(r)
  BY <1>4 DEF CheckPhone
<1>5. CASE RegisterPhone(r)
  BY <1>5 DEF RegisterPhone
<1>6. CASE FindPhone(r) \/ FindSeveral(r) \/ Fail(r)
  BY <1>6 DEF FindPhone, FindSeveral, Fail
<1> HIDE DEF TypeOK, JobsAreSound, FoundAreThere, Job, Idle
<1>7. QED
  BY <1>1, <1>2, <1>3, <1>4, <1>5, <1>6, ThreadStep

-----------------------------------------------------------------------------

\* LatestCodeIsValid of one phone.
CodeFollowed(ph) ==
  ph \notin disturbed =>
    \/ code[ph] = latest[ph] /\ \A r \in Request : ~Storing(r, ph)
    \/ \E r \in Request : /\ Storing(r, ph)
                          /\ job[r].code = latest[ph]
                          /\ \A o \in Request : Storing(o, ph) => o = r

\* A step that neither begins nor ends a getCode leaves the codes followed.
LEMMA OthersFollow ==
  ASSUME LatestCodeIsValid, UNCHANGED <<code, latest, disturbed>>,
         \A o \in Request, ph \in Phone : Storing(o, ph)' <=> Storing(o, ph),
         \A o \in Request : job[o].step = "sent" => job'[o].code = job[o].code
  PROVE  LatestCodeIsValid'
<1> SUFFICES ASSUME NEW ph \in Phone, CodeFollowed(ph) PROVE CodeFollowed(ph)'
  BY DEF LatestCodeIsValid, CodeFollowed
<1>1. QED
  BY DEF CodeFollowed, Storing

LEMMA CodeKept ==
  ASSUME TypeOK, JobsAreSound, LatestCodeIsValid,
         NEW r \in Request, Asked(r) \/ Continue(r) \/ Fail(r)
  PROVE  LatestCodeIsValid'
<1>1. ASSUME NEW q \in Phone, NEW c \in Code, NEW taken \in BOOLEAN, AskCode(r, q, c, taken)
      PROVE  LatestCodeIsValid'
  <2> SUFFICES ASSUME NEW ph \in Phone, CodeFollowed(ph) PROVE CodeFollowed(ph)'
    BY DEF LatestCodeIsValid, CodeFollowed
  <2>1. /\ \A o \in Request \ {r} : job'[o] = job[o]
        /\ job'[r].step = "sent" /\ job'[r].phone = q /\ job'[r].code = c
        /\ job[r].step = "idle"
    BY <1>1 DEF AskCode, Idle, TypeOK
  <2>2. CASE ph = q
    BY <1>1, <2>1, <2>2 DEF AskCode, CodeFollowed, Storing, TypeOK
  <2>3. CASE ph # q
    <3>1. /\ code'[ph] = code[ph] /\ latest'[ph] = latest[ph]
          /\ ph \in disturbed' <=> ph \in disturbed
      BY <1>1, <2>3 DEF AskCode, TypeOK
    <3>2. \A o \in Request : Storing(o, ph)' <=> Storing(o, ph)
      BY <2>1, <2>3 DEF Storing
    <3>3. \A o \in Request : Storing(o, ph) => job'[o].code = job[o].code
      BY <2>1 DEF Storing
    <3>4. QED
      BY <3>1, <3>2, <3>3 DEF CodeFollowed
  <2>4. QED
    BY <2>2, <2>3
<1>2. CASE StoreCode(r)
  <2> SUFFICES ASSUME NEW ph \in Phone, CodeFollowed(ph) PROVE CodeFollowed(ph)'
    BY DEF LatestCodeIsValid, CodeFollowed
  <2>1. /\ \A o \in Request \ {r} : job'[o] = job[o]
        /\ job'[r].step = "idle"
        /\ code' = [code EXCEPT ![job[r].phone] = job[r].code]
        /\ UNCHANGED <<latest, disturbed>>
        /\ job[r].step = "sent"
    BY <1>2 DEF StoreCode, Stored, Idle, TypeOK
  <2>2. CASE ph = job[r].phone
    BY <2>1, <2>2 DEF CodeFollowed, Storing, TypeOK
  <2>3. CASE ph # job[r].phone
    BY <2>1, <2>3 DEF CodeFollowed, Storing, TypeOK
  <2>4. QED
    BY <2>2, <2>3
<1>3. CASE Fail(r)
  <2> SUFFICES ASSUME NEW ph \in Phone, CodeFollowed(ph) PROVE CodeFollowed(ph)'
    BY DEF LatestCodeIsValid, CodeFollowed
  <2>1. /\ \A o \in Request \ {r} : job'[o] = job[o]
        /\ job'[r].step = "idle"
        /\ UNCHANGED <<code, latest>>
        /\ disturbed \subseteq disturbed'
        /\ job[r].step = "sent" => job[r].phone \in disturbed'
    BY <1>3 DEF Fail, Idle, TypeOK
  <2>2. QED
    BY <2>1 DEF CodeFollowed, Storing
<1>4. ASSUME NEW op \in {"login", "consult"}, NEW ph \in Phone, NEW c \in Typed,
             Verify(r, op, ph, c)
      PROVE  LatestCodeIsValid'
  BY <1>4, OthersFollow DEF Verify, Storing, Idle, TypeOK
<1>5. CASE CheckPhone(r)
  BY <1>5, OthersFollow DEF CheckPhone, Storing, TypeOK, Job
<1>6. CASE RegisterPhone(r) \/ FindPhone(r) \/ FindSeveral(r)
  BY <1>6, OthersFollow DEF RegisterPhone, FindPhone, FindSeveral, Storing, Idle, TypeOK
<1>7. QED
  BY <1>1, <1>2, <1>3, <1>4, <1>5, <1>6, ThreadStep

-----------------------------------------------------------------------------

\* OneCustomerPerPhone of one phone.
OneCustomer(ph) ==
  ph \notin overlapped =>
    /\ customers[ph] <= 1
    /\ \A r \in Request : Registering(r, ph) =>
         /\ customers[ph] = 0
         /\ \A o \in Request : Registering(o, ph) => o = r
    /\ \A r \in Request : job[r].step = "checked" /\ job[r].phone = ph /\ job[r].found > 0 =>
         Rows(r) = 1

\* A step in which nobody is about to register or has found a customer but who was
\* before leaves a phone with one customer.
LEMMA OthersOne ==
  ASSUME TypeOK, OneCustomerPerPhone, UNCHANGED customers, overlapped \subseteq overlapped',
         \A o \in Request : job'[o].step = "checked" => job'[o] = job[o]
  PROVE  OneCustomerPerPhone'
<1> SUFFICES ASSUME NEW ph \in Phone, OneCustomer(ph) PROVE OneCustomer(ph)'
  BY DEF OneCustomerPerPhone, OneCustomer
<1>1. \A o \in Request : Registering(o, ph)' => Registering(o, ph)
  BY DEF Registering
<1>2. \A o \in Request : job'[o].step = "checked" => Rows(o)' = Rows(o)
  BY DEF Rows
<1>3. QED
  BY <1>1, <1>2 DEF OneCustomer

LEMMA OneKept ==
  ASSUME TypeOK, JobsAreSound, FoundAreThere, OneCustomerPerPhone,
         NEW r \in Request, Asked(r) \/ Continue(r) \/ Fail(r)
  PROVE  OneCustomerPerPhone'
<1>1. ASSUME NEW ph \in Phone, NEW c \in Code, NEW taken \in BOOLEAN, AskCode(r, ph, c, taken)
      PROVE  OneCustomerPerPhone'
  BY <1>1, OthersOne DEF AskCode, Idle, TypeOK
<1>2. ASSUME NEW op \in {"login", "consult"}, NEW ph \in Phone, NEW c \in Typed,
             Verify(r, op, ph, c)
      PROVE  OneCustomerPerPhone'
  BY <1>2, OthersOne DEF Verify, Idle, TypeOK
<1>3. CASE StoreCode(r) \/ FindPhone(r) \/ FindSeveral(r) \/ Fail(r)
  BY <1>3, OthersOne DEF StoreCode, FindPhone, FindSeveral, Fail, Idle, TypeOK
<1>4. CASE CheckPhone(r)
  <2> DEFINE q == job[r].phone
  <2>1. /\ \A o \in Request \ {r} : job'[o] = job[o]
        /\ job'[r].step = "checked" /\ job'[r].phone = q /\ job'[r].found = customers[q]
        /\ job[r].step = "verified" /\ q \in Phone
        /\ UNCHANGED customers
        /\ overlapped \subseteq overlapped'
        /\ customers[q] = 0 /\ (\E o \in Request : Registering(o, q)) => q \in overlapped'
    BY <1>4 DEF CheckPhone, TypeOK, Job, JobsAreSound
  <2> SUFFICES ASSUME NEW ph \in Phone, OneCustomer(ph), ph \notin overlapped'
               PROVE  OneCustomer(ph)'
    BY DEF OneCustomerPerPhone, OneCustomer
  <2>2. \A o \in Request \ {r} : /\ Registering(o, ph)' <=> Registering(o, ph)
                                 /\ Rows(o)' = Rows(o)
    BY <2>1 DEF Registering, Rows
  <2>3. Rows(r)' = customers[q]
    BY <2>1 DEF Rows
  <2>4. CASE ph = q
    <3>1. customers[ph] \in {0, 1}
      BY <2>1 DEF OneCustomer, TypeOK
    <3>2. CASE customers[ph] = 0
      <4>1. \A o \in Request : ~Registering(o, ph)
        BY <2>1, <2>4, <3>2
      <4>2. QED
        BY <2>1, <2>2, <2>3, <2>4, <3>2, <4>1 DEF OneCustomer
    <3>3. CASE customers[ph] = 1
      BY <2>1, <2>2, <2>3, <2>4, <3>3 DEF OneCustomer, Registering
    <3>4. QED
      BY <3>1, <3>2, <3>3
  <2>5. CASE ph # q
    BY <2>1, <2>2, <2>5 DEF OneCustomer, Registering
  <2>6. QED
    BY <2>4, <2>5
<1>5. CASE RegisterPhone(r)
  <2> DEFINE q == job[r].phone
  <2>1. /\ \A o \in Request \ {r} : job'[o] = job[o]
        /\ job'[r].step = "idle"
        /\ Registering(r, q) /\ q \in Phone
        /\ customers' = [customers EXCEPT ![q] = @ + 1]
        /\ UNCHANGED overlapped
    BY <1>5 DEF RegisterPhone, Decided, Idle, Registering, TypeOK, JobsAreSound
  <2> HIDE DEF q
  <2> SUFFICES ASSUME NEW ph \in Phone, OneCustomer(ph), ph \notin overlapped
               PROVE  OneCustomer(ph)'
    BY <2>1 DEF OneCustomerPerPhone, OneCustomer
  <2>2. CASE ph = q
    <3>1. /\ customers[ph] = 0
          /\ \A o \in Request : Registering(o, ph) => o = r
      BY <2>1, <2>2 DEF OneCustomer
    <3>2. customers'[ph] = 1
      BY <2>1, <2>2, <3>1 DEF TypeOK
    <3>3. \A o \in Request : ~Registering(o, ph)'
      BY <2>1, <3>1 DEF Registering
    <3>4. \A o \in Request : job'[o].step = "checked" /\ job'[o].phone = ph =>
            job'[o].found = 0
      BY <2>1, <3>1 DEF FoundAreThere, TypeOK, Job
    <3>5. QED
      BY <3>2, <3>3, <3>4 DEF OneCustomer
  <2>3. CASE ph # q
    <3>1. customers'[ph] = customers[ph]
      BY <2>1, <2>3 DEF TypeOK
    <3>2. \A o \in Request : Registering(o, ph)' => Registering(o, ph)
      BY <2>1 DEF Registering
    <3>3. \A o \in Request : job'[o].step = "checked" /\ job'[o].phone = ph =>
            job'[o] = job[o] /\ Rows(o)' = Rows(o)
      BY <2>1, <3>1 DEF Rows
    <3>4. QED
      BY <3>1, <3>2, <3>3, <2>1 DEF OneCustomer
  <2>4. QED
    BY <2>2, <2>3
<1>6. QED
  BY <1>1, <1>2, <1>3, <1>4, <1>5, ThreadStep

-----------------------------------------------------------------------------

LEMMA StutterKeeps ==
  ASSUME VerificationInv, UNCHANGED vars
  PROVE  VerificationInv'
<1>1. \A r \in Request, ph \in Phone : /\ Storing(r, ph)' <=> Storing(r, ph)
                                       /\ Registering(r, ph)' <=> Registering(r, ph)
                                       /\ Rows(r)' = Rows(r)
  BY DEF vars, Storing, Registering, Rows
<1>2. TypeOK' /\ JobsAreSound' /\ StoredWasIssued' /\ FoundAreThere'
  BY DEF VerificationInv, vars, TypeOK, JobsAreSound, StoredWasIssued, FoundAreThere
<1>3. LatestCodeIsValid'
  BY <1>1 DEF VerificationInv, vars, LatestCodeIsValid
<1>4. OneCustomerPerPhone'
  BY <1>1 DEF VerificationInv, vars, OneCustomerPerPhone
<1>5. QED
  BY <1>2, <1>3, <1>4 DEF VerificationInv

LEMMA StepKeeps == VerificationInv /\ [Next]_vars => VerificationInv'
<1> SUFFICES ASSUME VerificationInv, [Next]_vars PROVE VerificationInv'
  OBVIOUS
<1>1. CASE Next
  <2>1. PICK r \in Request : Asked(r) \/ Continue(r) \/ Fail(r)
    BY <1>1 DEF Next
  <2>2. QED
    BY <2>1, TypesKept, StoredKept, FoundKept, CodeKept, OneKept DEF VerificationInv
<1>2. QED
  BY <1>1, StutterKeeps

\* The inductive invariant, for any number of requests at a time (getCode, verify,
\* the login by phone and the registration of ConsultServiceImpl.add).
THEOREM VerificationInvariant == Spec => []VerificationInv
BY InitInv, StepKeeps, PTL DEF Spec

\* The model is type-correct.
THEOREM VerificationTypeOK == Spec => []TypeOK
<1>1. VerificationInv => TypeOK
  BY DEF VerificationInv
<1>2. QED
  BY <1>1, VerificationInvariant, PTL

\* The code last sent to a phone is valid, or about to be, unless its getCode was
\* refused, failed halfway or met another.
THEOREM LatestCodeTheorem == Spec => []LatestCodeIsValid
<1>1. VerificationInv => LatestCodeIsValid
  BY DEF VerificationInv
<1>2. QED
  BY <1>1, VerificationInvariant, PTL

\* Only two requests that find a phone free at a time register it twice: repeating
\* a request never does.
THEOREM OneCustomerTheorem == Spec => []OneCustomerPerPhone
<1>1. VerificationInv => OneCustomerPerPhone
  BY DEF VerificationInv
<1>2. QED
  BY <1>1, VerificationInvariant, PTL

-----------------------------------------------------------------------------
(* What a request does towards its end, and a code towards being valid: the *)
(* part of RequestsEnd and SentBecomesValid that does not speak of fairness. *)

\* How many steps of its own a request has before it at most.
Left(j) == CASE j.step = "verified" -> 2
             [] j.step \in {"sent", "checked"} -> 1
             [] OTHER -> 0

\* No step of anybody takes a request back or keeps it busy without an advance, and
\* its own step always advances it.
Advances(r) ==
  /\ job'[r] # job[r] /\ job[r].step # "idle" => Left(job'[r]) < Left(job[r])
  /\ Continue(r) => job'[r] # job[r] /\ job[r].step # "idle"

RequestsAdvance == [][\A r \in Request : Advances(r)]_vars

\* A request that is under way has a step of its own to take: existsByPhone, which
\* counted the phone's customers, and findByPhone, which looks for them later, do
\* not leave it between two branches.
MayGoOn(r) ==
  \/ job[r].step \in {"sent", "verified"}
  \/ job[r].step = "checked" /\ (Decided(r) \/ Rows(r) = 1 \/ Rows(r) > 1)

NeverStuck == \A r \in Request : job[r].step # "idle" => MayGoOn(r)

\* A code that was sent waits to be stored until it is, and nothing else ends the
\* waiting but what disturbs the phone's getCode.
Waits(r, ph, c) == Storing(r, ph) /\ job[r].code = c

CodeArrives(r, ph, c) ==
  Waits(r, ph, c) =>
    /\ Waits(r, ph, c)' \/ code'[ph] = c \/ ph \in disturbed'
    /\ StoreCode(r) => code'[ph] = c

CodesArrive ==
  [][\A r \in Request, ph \in Phone, c \in Code : CodeArrives(r, ph, c)]_vars

\* A step concerns the request that takes it.
LEMMA OneJob ==
  ASSUME TypeOK, NEW r \in Request, Asked(r) \/ Continue(r) \/ Fail(r)
  PROVE  \E j : job' = [job EXCEPT ![r] = j]
BY ThreadStep
   DEF AskCode, Verify, StoreCode, CheckPhone, RegisterPhone, FindPhone, FindSeveral, Fail

LEMMA ThreadAdvances ==
  ASSUME TypeOK, NEW r \in Request
  PROVE  /\ Continue(r) \/ Fail(r) =>
              job[r].step # "idle" /\ Left(job'[r]) < Left(job[r])
         /\ Asked(r) => job[r].step = "idle"
<1>1. \A j : job' = [job EXCEPT ![r] = j] => job'[r] = j
  BY DEF TypeOK
<1>2. Left(Idle) = 0 /\ \A j \in Job : j.step # "idle" => Left(j) > 0
  BY DEF Left, Idle, Job
<1>3. job[r] \in Job
  BY DEF TypeOK
<1>4. CASE CheckPhone(r)
  <2>1. job'[r].step = "checked" /\ job[r].step = "verified"
    <3> DEFINE j == [job[r] EXCEPT !.step = "checked", !.found = customers[job[r].phone]]
    <3>1. job' = [job EXCEPT ![r] = j] /\ job[r].step = "verified"
      BY <1>4 DEF CheckPhone
    <3>2. j.step = "checked"
      BY <1>3 DEF Job
    <3> HIDE DEF j
    <3>3. QED
      BY <1>1, <3>1, <3>2
  <2>2. QED
    BY <2>1 DEF Left, Asked, AskCode, Verify
<1>5. CASE StoreCode(r) \/ RegisterPhone(r) \/ FindPhone(r) \/ FindSeveral(r) \/ Fail(r)
  <2>1. job'[r] = Idle /\ job[r].step # "idle"
    BY <1>1, <1>5 DEF StoreCode, RegisterPhone, FindPhone, FindSeveral, Fail
  <2>2. QED
    BY <1>2, <1>3, <2>1 DEF Asked, AskCode, Verify
<1>6. Asked(r) => job[r].step = "idle"
  BY DEF Asked, AskCode, Verify
<1>7. QED
  BY <1>4, <1>5, <1>6 DEF Continue

\* A request is two steps of its own from its end at most, and each brings it nearer
\* (PhoneUserInfo and ConsultServiceImpl.add: nothing is tried again).
THEOREM AdvanceTheorem == Spec => RequestsAdvance
<1>1. VerificationInv /\ [Next]_vars => [\A r \in Request : Advances(r)]_vars
  <2> SUFFICES ASSUME TypeOK, Next, NEW r \in Request PROVE Advances(r)
    BY DEF VerificationInv
  <2>1. PICK o \in Request : Asked(o) \/ Continue(o) \/ Fail(o)
    BY DEF Next
  <2>2. \A q \in Request \ {o} : job'[q] = job[q]
    BY <2>1, OneJob DEF TypeOK
  <2>3. Continue(r) => job'[r] # job[r] /\ job[r].step # "idle"
    BY ThreadAdvances, \A n \in {0, 1, 2} : ~(n < n) DEF Left
  <2>4. CASE o = r
    BY <2>1, <2>3, <2>4, ThreadAdvances DEF Advances
  <2>5. CASE o # r
    BY <2>2, <2>3, <2>5 DEF Advances
  <2>6. QED
    BY <2>4, <2>5
<1>2. QED
  BY <1>1, VerificationInvariant, PTL DEF Spec, RequestsAdvance

\* In every state a request under way has a branch to take, whatever others did since
\* it looked (CustomerServiceImpl.existsByPhone and findByPhone).
THEOREM NeverStuckTheorem == Spec => []NeverStuck
<1>1. VerificationInv => NeverStuck
  <2> SUFFICES ASSUME VerificationInv, NEW r \in Request, job[r].step # "idle" PROVE MayGoOn(r)
    BY DEF NeverStuck
  <2>1. job[r] \in Job /\ job[r].phone \in Phone
    BY DEF VerificationInv, TypeOK, JobsAreSound
  <2>2. CASE job[r].step = "checked"
    <3>1. job[r].found \in Nat /\ customers[job[r].phone] \in Nat
      BY <2>1 DEF VerificationInv, TypeOK, Job
    <3>2. job[r].found <= customers[job[r].phone]
      BY <2>2 DEF VerificationInv, FoundAreThere
    <3>3. Rows(r) \in Nat /\ job[r].found <= Rows(r)
      BY <3>1, <3>2 DEF Rows
    <3>4. Decided(r) \/ Rows(r) = 1 \/ Rows(r) > 1
      BY <3>1, <3>3 DEF Decided
    <3>5. QED
      BY <2>2, <3>4 DEF MayGoOn
  <2>3. QED
    BY <2>1, <2>2 DEF MayGoOn, Job
<1>2. QED
  BY <1>1, VerificationInvariant, PTL

\* A code that was sent becomes the stored one by the next step of its getCode, and
\* until then only what disturbs its phone prevents it (VerificationServiceImpl.getCode).
THEOREM ArrivalTheorem == Spec => CodesArrive
<1>1. VerificationInv /\ [Next]_vars =>
        [\A r \in Request, ph \in Phone, c \in Code : CodeArrives(r, ph, c)]_vars
  <2> SUFFICES ASSUME TypeOK, Next, NEW r \in Request, NEW ph \in Phone, NEW c \in Code,
                      Waits(r, ph, c)
               PROVE  /\ Waits(r, ph, c)' \/ code'[ph] = c \/ ph \in disturbed'
                      /\ StoreCode(r) => code'[ph] = c
    BY DEF VerificationInv, CodeArrives
  <2>1. StoreCode(r) => code'[ph] = c
    BY DEF StoreCode, Stored, Waits, Storing, TypeOK
  <2>2. PICK o \in Request : Asked(o) \/ Continue(o) \/ Fail(o)
    BY DEF Next
  <2>3. CASE o # r
    <3>1. job'[r] = job[r]
      BY <2>2, <2>3, OneJob DEF TypeOK
    <3>2. QED
      BY <2>1, <3>1 DEF Waits, Storing
  <2>4. CASE o = r
    <3>1. StoreCode(r) \/ Fail(r)
      BY <2>2, <2>4, ThreadStep
         DEF Waits, Storing, AskCode, Verify, CheckPhone, RegisterPhone, FindPhone, FindSeveral
    <3>2. Fail(r) => ph \in disturbed'
      BY DEF Fail, Waits, Storing
    <3>3. QED
      BY <2>1, <3>1, <3>2
  <2>5. QED
    BY <2>3, <2>4
<1>2. QED
  BY <1>1, VerificationInvariant, PTL DEF Spec, CodesArrive

-----------------------------------------------------------------------------

\* The refinement mapping of Access.
Kept == {ph \in Phone : code[ph] # None}
Proofs == [r \in Request |-> ProofOf(job[r])]
Came == {ph \in Phone : customers[ph] > 0}

LEMMA AccessInit == Init => Access!Init
BY DEF Init, Access!Init, Access!NoProof, ProofOf, Idle

\* A step that leaves proofs, customers and issued codes alone is a stutter.
LEMMA AccessStutter ==
  ASSUME UNCHANGED <<code, customers, issued>>, Proofs' = Proofs
  PROVE  UNCHANGED Access!vars
BY DEF Access!vars, Proofs

\* Who is done holds no proof.
LEMMA ProofDropped ==
  ASSUME NEW r \in Request, job \in [Request -> Job], job' = [job EXCEPT ![r] = Idle]
  PROVE  Proofs' = [Proofs EXCEPT ![r] = Access!NoProof]
<1>1. \A o \in Request : job'[o] = IF o = r THEN Idle ELSE job[o]
  OBVIOUS
<1>2. ProofOf(Idle) = Access!NoProof
  BY DEF Idle, ProofOf, Access!NoProof
<1>3. QED
  BY <1>1, <1>2 DEF Proofs

LEMMA AccessStep ==
  ASSUME VerificationInv, NEW r \in Request, Asked(r) \/ Continue(r) \/ Fail(r)
  PROVE  Access!Next \/ UNCHANGED Access!vars
<1> USE DEF VerificationInv, TypeOK
<1>1. ASSUME NEW ph \in Phone, NEW c \in Code, NEW taken \in BOOLEAN, AskCode(r, ph, c, taken)
      PROVE  Access!Next
  <2>1. Proofs' = Proofs
    BY <1>1 DEF AskCode, Idle, ProofOf, Proofs
  <2>2. Access!Issue(ph, c)
    BY <1>1, <2>1 DEF AskCode, Access!Issue, Proofs
  <2>3. QED
    BY <2>2 DEF Access!Next
<1>2. ASSUME NEW op \in {"login", "consult"}, NEW ph \in Phone, NEW c \in Typed,
             Verify(r, op, ph, c)
      PROVE  Access!Next
  <2>1. /\ Proofs[r] = Access!NoProof
        /\ Proofs' = [Proofs EXCEPT ![r] = [phone |-> ph, word |-> c]]
    <3> DEFINE j == [Idle EXCEPT !.step = "verified", !.op = op, !.phone = ph, !.code = c]
    <3>1. job[r].step = "idle" /\ job' = [job EXCEPT ![r] = j]
      BY <1>2 DEF Verify
    <3>2. ProofOf(j) = [phone |-> ph, word |-> c]
      BY DEF ProofOf, Idle
    <3> HIDE DEF j
    <3>3. \A o \in Request : job'[o] = IF o = r THEN j ELSE job[o]
      BY <3>1
    <3>4. ProofOf(job[r]) = Access!NoProof
      BY <3>1 DEF ProofOf, Access!NoProof
    <3>5. QED
      BY <3>2, <3>3, <3>4 DEF Proofs
  <2>2. c \in IF ph \in Kept THEN issued[ph] ELSE {NullText}
    BY <1>2 DEF Verify, Accepts, Shown, Kept, StoredWasIssued
  <2>3. Access!Prove(r, ph, c)
    BY <1>2, <2>1, <2>2 DEF Verify, Access!Prove, Access!Words, Proofs, Kept
  <2>4. QED
    BY <2>3 DEF Access!Next, Typed
<1>3. CASE StoreCode(r)
  <2>1. PICK ph \in Phone : ph = job[r].phone
    BY <1>3 DEF StoreCode, JobsAreSound
  <2>2. /\ job[r].step = "sent"
        /\ job[r].code \in issued[ph] /\ job[r].code # None
        /\ code' = [code EXCEPT ![ph] = job[r].code]
        /\ job' = [job EXCEPT ![r] = Idle]
        /\ UNCHANGED <<customers, issued>>
    BY <1>3, <2>1, NoneAssumption DEF StoreCode, Stored, JobsAreSound
  <2>3. Proofs' = Proofs
    BY <2>2 DEF Idle, ProofOf, Proofs
  <2>4. Kept' = Kept \cup {ph}
    BY <2>2 DEF Kept
  <2>5. Access!Guard(ph)
    BY <2>2, <2>3, <2>4 DEF Access!Guard, Proofs, Kept
  <2>6. QED
    BY <2>5 DEF Access!Next
<1>4. CASE CheckPhone(r)
  <2>1. Proofs' = Proofs
    <3> DEFINE j == [job[r] EXCEPT !.step = "checked", !.found = customers[job[r].phone]]
    <3>1. job[r].step = "verified" /\ job' = [job EXCEPT ![r] = j] /\ job[r] \in Job
      BY <1>4 DEF CheckPhone
    <3>2. ProofOf(j) = ProofOf(job[r])
      BY <3>1 DEF ProofOf, Job
    <3> HIDE DEF j
    <3>3. \A o \in Request : job'[o] = IF o = r THEN j ELSE job[o]
      BY <3>1
    <3>4. QED
      BY <3>2, <3>3 DEF Proofs
  <2>2. QED
    BY <1>4, <2>1, AccessStutter DEF CheckPhone
<1>5. CASE RegisterPhone(r) \/ FindPhone(r)
  <2>1. /\ job[r].step = "checked" /\ job[r].phone \in Phone
        /\ UNCHANGED <<code, issued>>
        /\ Proofs' = [Proofs EXCEPT ![r] = Access!NoProof]
    BY <1>5, ProofDropped DEF RegisterPhone, FindPhone, JobsAreSound
  <2>2. Proofs[r].phone = job[r].phone /\ Proofs[r] # Access!NoProof
    BY <2>1, NoneAssumption DEF Proofs, ProofOf, Access!NoProof
  <2>3. CASE RegisterPhone(r)
    <3>1. Came' = Came \cup {job[r].phone}
      BY <2>1, <2>3 DEF RegisterPhone, Came
    <3>2. Access!Admit(r)
      BY <2>1, <2>2, <3>1 DEF Access!Admit, Proofs, Came, Kept
    <3>3. QED
      BY <3>2 DEF Access!Next
  <2>4. CASE FindPhone(r)
    <3>1. customers[job[r].phone] > 0
      BY <2>1, <2>4 DEF FindPhone, Decided, FoundAreThere, Job
    <3>2. Came' = Came \cup {job[r].phone}
      BY <2>1, <2>4, <3>1 DEF FindPhone, Came
    <3>3. Access!Admit(r)
      BY <2>1, <2>2, <3>2 DEF Access!Admit, Proofs, Came, Kept
    <3>4. QED
      BY <3>3 DEF Access!Next
  <2>5. QED
    BY <1>5, <2>3, <2>4
<1>6. CASE FindSeveral(r) \/ Fail(r)
  <2>1. /\ UNCHANGED <<code, customers, issued>>
        /\ Proofs' = [Proofs EXCEPT ![r] = Access!NoProof]
    BY <1>6, ProofDropped DEF FindSeveral, Fail
  <2>2. Access!Abandon(r)
    BY <2>1 DEF Access!Abandon, Proofs
  <2>3. QED
    BY <2>2 DEF Access!Next
<1> HIDE DEF VerificationInv, TypeOK
<1>7. QED
  BY <1>1, <1>2, <1>3, <1>4, <1>5, <1>6, ThreadStep

LEMMA StepMaps == VerificationInv /\ [Next]_vars => [Access!Next]_Access!vars
<1> SUFFICES ASSUME VerificationInv, [Next]_vars PROVE Access!Next \/ UNCHANGED Access!vars
  OBVIOUS
<1>1. CASE UNCHANGED vars
  BY <1>1 DEF vars, Access!vars
<1>2. CASE Next
  BY <1>2, AccessStep DEF Next
<1>3. QED
  BY <1>1, <1>2

\* Verification implements PhoneAccess: whoever comes in by a phone showed a code
\* issued for it, or the text "null" while no code was kept for it, and who is in
\* stays (VerificationServiceImpl.verify comes before all else a request does).
THEOREM AccessRefinement == Spec => ImplementsAccess
<1>1. VerificationInv /\ [Next]_vars => [Access!Next]_Access!vars
  BY StepMaps
<1>2. QED
  BY AccessInit, VerificationInvariant, <1>1, PTL DEF Spec, ImplementsAccess, Access!Spec

\* No step of PhoneAccess unguards a phone or lets in by a guarded one without a code.
LEMMA AccessGuards ==
  ASSUME Access!Next
  PROVE  Kept \subseteq Kept' /\ \A r \in Request : Access!ShowsCode(r)
<1>1. ASSUME Proofs' = Proofs, Kept \subseteq Kept'
      PROVE  Kept \subseteq Kept' /\ \A r \in Request : Access!ShowsCode(r)
  BY <1>1 DEF Access!ShowsCode, Proofs
<1>2. ASSUME NEW r \in Request, Kept' = Kept,
             Proofs' = [Proofs EXCEPT ![r] = Access!NoProof]
      PROVE  Kept \subseteq Kept' /\ \A o \in Request : Access!ShowsCode(o)
  <2>1. Access!NoProof.phone = None /\ None \notin Kept
    BY NoneAssumption DEF Access!NoProof, Kept
  <2>2. \A o \in Request : Proofs'[o] = IF o = r THEN Access!NoProof ELSE Proofs[o]
    BY <1>2 DEF Proofs
  <2>3. QED
    BY <1>2, <2>1, <2>2 DEF Access!ShowsCode, Proofs, Kept
<1>3. CASE \E ph \in Phone, c \in Code : Access!Issue(ph, c)
  BY <1>1, <1>3 DEF Access!Issue, Proofs, Kept
<1>4. CASE \E ph \in Phone : Access!Guard(ph)
  BY <1>1, <1>4 DEF Access!Guard, Proofs, Kept
<1>5. ASSUME NEW r \in Request, NEW ph \in Phone, NEW w, Access!Prove(r, ph, w)
      PROVE  Kept \subseteq Kept' /\ \A o \in Request : Access!ShowsCode(o)
  <2>1. /\ w \in IF ph \in Kept THEN issued[ph] ELSE {NullText}
        /\ Proofs' = [Proofs EXCEPT ![r] = [phone |-> ph, word |-> w]]
        /\ Kept' = Kept
    BY <1>5 DEF Access!Prove, Access!Words, Proofs, Kept
  <2>2. \A o \in Request :
          Proofs'[o] = IF o = r THEN [phone |-> ph, word |-> w] ELSE Proofs[o]
    BY <2>1 DEF Proofs
  <2>3. ASSUME NEW o \in Request, Proofs'[o] # Proofs[o], Proofs'[o].phone \in Kept
        PROVE  Proofs'[o].word \in issued[Proofs'[o].phone]
    BY <2>1, <2>2, <2>3
  <2>4. QED
    BY <2>1, <2>3 DEF Access!ShowsCode, Proofs, Kept
<1>6. ASSUME NEW r \in Request, Access!Admit(r) \/ Access!Abandon(r)
      PROVE  Kept \subseteq Kept' /\ \A o \in Request : Access!ShowsCode(o)
  BY <1>2, <1>6 DEF Access!Admit, Access!Abandon, Proofs, Kept
<1>7. QED
  BY <1>3, <1>4, <1>5, <1>6 DEF Access!Next

\* Once a code is kept for a phone it stays guarded, and only a code issued for it
\* lets anybody in: what PhoneAccess gives, carried over (VerificationServiceImpl:57).
THEOREM AccessTheorem == Spec => Access!GuardedByCodes
<1> DEFINE Guards == Kept \subseteq Kept' /\ \A r \in Request : Access!ShowsCode(r)
<1>1. VerificationInv /\ [Next]_vars => [Guards]_Access!vars
  BY StepMaps, AccessGuards
<1>2. [Guards]_Access!vars <=>
        [/\ {ph \in Phone : code[ph] # None} \subseteq {ph \in Phone : code[ph] # None}'
         /\ \A r \in Request : Access!ShowsCode(r)]_Access!vars
  BY DEF Kept
<1> HIDE DEF Guards
<1>3. QED
  BY <1>1, <1>2, VerificationInvariant, PTL DEF Spec, Access!GuardedByCodes

-----------------------------------------------------------------------------

\* With requests that come one at a time no phone is registered twice, however often
\* they fail and are repeated: only overlapping makes two customers of a phone
\* (CustomerServiceImpl.existsByPhone and register).
THEOREM AloneCustomerTheorem ==
  ASSUME \A r, q \in Request : r = q
  PROVE  Spec => [](\A ph \in Phone : customers[ph] <= 1)
<1>1. Init => overlapped = {}
  BY DEF Init
<1>2. ASSUME VerificationInv, overlapped = {}, [Next]_vars PROVE (overlapped = {})'
  <2>1. CASE UNCHANGED vars
    BY <1>2, <2>1 DEF vars
  <2>2. ASSUME NEW r \in Request, Asked(r) \/ Continue(r) \/ Fail(r) PROVE overlapped' = {}
    <3>1. CASE CheckPhone(r)
      <4>1. \A o \in Request, ph \in Phone : ~Registering(o, ph)
        BY <3>1 DEF CheckPhone, Registering
      <4>2. job[r].phone \in Phone
        BY <1>2, <3>1 DEF CheckPhone, VerificationInv, JobsAreSound
      <4>3. QED
        BY <1>2, <3>1, <4>1, <4>2 DEF CheckPhone
    <3>2. CASE ~CheckPhone(r)
      BY <1>2, <2>2, <3>2, ThreadStep
         DEF AskCode, Verify, StoreCode, RegisterPhone, FindPhone, FindSeveral, Fail
    <3>3. QED
      BY <3>1, <3>2
  <2>3. QED
    BY <1>2, <2>1, <2>2 DEF Next
<1>3. VerificationInv /\ overlapped = {} => \A ph \in Phone : customers[ph] <= 1
  BY DEF VerificationInv, OneCustomerPerPhone
<1>4. QED
  BY <1>1, <1>2, <1>3, VerificationInvariant, PTL DEF Spec
=============================================================================
