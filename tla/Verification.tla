---------------------------- MODULE Verification ----------------------------
(***************************************************************************)
(* Verification codes, and the two ways in by phone they guard: the login  *)
(* of a customer and the placing of a consult.  A code is sent by SMS and  *)
(* then stored in redis, one per phone; a request that shows the stored    *)
(* code looks whether a customer has the phone and finds that customer or  *)
(* registers one.  Requests run on threads of their own: between any two   *)
(* steps of one, others run, and at any step one can fail.                 *)
(*                                                                         *)
(* The SMS service and redis are external.  A message may arrive late, out *)
(* of order, twice or never, so what a person types is any code at all; a  *)
(* wrong one changes nothing.  Codes are model values, the six digits of a *)
(* code and the inviter of a newcomer are left out.  Redis keeps what it   *)
(* is given: no code expires.                                              *)
(***************************************************************************)
EXTENDS Naturals

CONSTANTS
  Phone,      \* the phones people type
  Code,       \* the codes createRandomNum may draw
  Request,    \* the threads that serve requests
  None,       \* what redis answers for a key it does not have
  NullText    \* the text "null"

ASSUME NoneAssumption ==
  /\ None \notin Phone \cup Code
  /\ NullText \notin Code \cup {None}

VARIABLES
  code,       \* code[ph]: what redis keeps under VERIFICATION + ph
  customers,  \* customers[ph]: how many rows of customer have phone ph
  job,        \* job[r]: where request r stands
  issued,     \* history: issued[ph], the codes drawn for ph
  latest,     \* history: latest[ph], the code last sent to ph
  disturbed,  \* history: the phones of which the last getCode was refused by
              \*   the SMS service, failed halfway or met another
  overlapped  \* history: the phones that two requests at a time found free

vars == <<code, customers, job, issued, latest, disturbed, overlapped>>

-----------------------------------------------------------------------------

\* A thread: "sent" is in getCode, its message given to the SMS service; in a
\* login or a consult "verified" has shown a code, or what passed for one, and
\* "checked" has counted the customers with the phone.
Job == [step  : {"idle", "sent", "verified", "checked"},
        op    : {"login", "consult"},
        phone : Phone \cup {None},
        code  : Code \cup {NullText, None},
        found : Nat]

Idle == [step |-> "idle", op |-> "login", phone |-> None, code |-> None, found |-> 0]

\* Request r is in getCode for ph, with its code not stored yet.
Storing(r, ph) == job[r].step = "sent" /\ job[r].phone = ph

\* Request r found nobody to have phone ph and is about to register it.
Registering(r, ph) ==
  job[r].step = "checked" /\ job[r].phone = ph /\ job[r].found = 0

-----------------------------------------------------------------------------

\* getCode, to the answer of sendSms: the service takes the message, or answers
\* other than OK, which is looked at only after an exception.
AskCode(r, ph, c, taken) ==
  /\ job[r].step = "idle"
  /\ job' = [job EXCEPT ![r] = [Idle EXCEPT !.step = "sent", !.phone = ph, !.code = c]]
  /\ issued' = [issued EXCEPT ![ph] = @ \cup {c}]
  /\ latest' = IF taken THEN [latest EXCEPT ![ph] = c] ELSE latest
  /\ disturbed' = IF taken /\ \A o \in Request : ~Storing(o, ph)
                    THEN disturbed \ {ph}
                    ELSE disturbed \cup {ph}
  /\ UNCHANGED <<code, customers, overlapped>>

\* Mutant of Stored: a code that is there is kept (setIfAbsent).
StoredFirst(ph, c) == [code EXCEPT ![ph] = IF @ = None THEN c ELSE @]

\* set replaces whatever code the phone had.
Stored(ph, c) == [code EXCEPT ![ph] = c]

\* The rest of getCode.
StoreCode(r) ==
  /\ job[r].step = "sent"
  /\ code' = Stored(job[r].phone, job[r].code)
  /\ job' = [job EXCEPT ![r] = Idle]
  /\ UNCHANGED <<customers, issued, latest, disturbed, overlapped>>

\* Mutant of Accepts: with no code stored the comparison lets any phone through.
AcceptsUnasked(ph, c) == code[ph] \in {c, None}

\* String.valueOf of what redis has for a phone.
Shown(ph) == IF code[ph] = None THEN NullText ELSE code[ph]

\* verify: what is typed equals that text; a code stays valid.
Accepts(ph, c) == Shown(ph) = c

\* A login or a consult begins.
Verify(r, op, ph, c) ==
  /\ job[r].step = "idle"
  /\ Accepts(ph, c)
  /\ job' = [job EXCEPT ![r] = [Idle EXCEPT !.step = "verified", !.op = op,
                                            !.phone = ph, !.code = c]]
  /\ UNCHANGED <<code, customers, issued, latest, disturbed, overlapped>>

\* existsByPhone.
CheckPhone(r) ==
  LET ph == job[r].phone IN
  /\ job[r].step = "verified"
  /\ job' = [job EXCEPT ![r] = [job[r] EXCEPT !.step = "checked", !.found = customers[ph]]]
  /\ overlapped' = IF customers[ph] = 0 /\ \E o \in Request : Registering(o, ph)
                     THEN overlapped \cup {ph}
                     ELSE overlapped
  /\ UNCHANGED <<code, customers, issued, latest, disturbed>>

\* Mutant of Decided: register whoever showed a code.
DecidedToRegister(r) == job[r].found >= 0

\* The branch of existsByPhone that registers.
Decided(r) == job[r].found = 0

\* register and its commit.
RegisterPhone(r) ==
  /\ job[r].step = "checked"
  /\ Decided(r)
  /\ customers' = [customers EXCEPT ![job[r].phone] = @ + 1]
  /\ job' = [job EXCEPT ![r] = Idle]
  /\ UNCHANGED <<code, issued, latest, disturbed, overlapped>>

\* The customers findByPhone finds: a login asks anew, a consult sees what the
\* transaction saw when it checked.
Rows(r) == IF job[r].op = "login" THEN customers[job[r].phone] ELSE job[r].found

\* findByPhone, and the request ends with the customer it found.
FindPhone(r) ==
  /\ job[r].step = "checked"
  /\ ~Decided(r)
  /\ Rows(r) = 1
  /\ job' = [job EXCEPT ![r] = Idle]
  /\ UNCHANGED <<code, customers, issued, latest, disturbed, overlapped>>

\* Mutant of FindSeveral: the exception is answered by looking again.
FindSeveralAgain(r) ==
  /\ job[r].step = "checked"
  /\ Rows(r) > 1
  /\ job' = [job EXCEPT ![r] = [job[r] EXCEPT !.step = "verified", !.found = 0]]
  /\ UNCHANGED <<code, customers, issued, latest, disturbed, overlapped>>

\* findByPhone expects one row at most: with several its exception ends the request.
FindSeveral(r) ==
  /\ job[r].step = "checked"
  /\ Rows(r) > 1
  /\ job' = [job EXCEPT ![r] = Idle]
  /\ UNCHANGED <<code, customers, issued, latest, disturbed, overlapped>>

\* Request r fails: an exception, a timeout or a crash; what it has written to
\* redis or sent stays, what it has in a transaction does not.
Fail(r) ==
  /\ job[r].step # "idle"
  /\ job' = [job EXCEPT ![r] = Idle]
  /\ disturbed' = IF job[r].step = "sent" THEN disturbed \cup {job[r].phone} ELSE disturbed
  /\ UNCHANGED <<code, customers, issued, latest, overlapped>>

-----------------------------------------------------------------------------

Init ==
  /\ code = [ph \in Phone |-> None]
  /\ customers = [ph \in Phone |-> 0]
  /\ job = [r \in Request |-> Idle]
  /\ issued = [ph \in Phone |-> {}]
  /\ latest = [ph \in Phone |-> None]
  /\ disturbed = {}
  /\ overlapped = {}

Asked(r) ==
  \/ \E ph \in Phone, c \in Code, taken \in BOOLEAN : AskCode(r, ph, c, taken)
  \/ \E op \in {"login", "consult"}, ph \in Phone, c \in Code \cup {NullText} :
       Verify(r, op, ph, c)

\* What the thread of request r does by itself.
Continue(r) ==
  \/ StoreCode(r)
  \/ CheckPhone(r)
  \/ RegisterPhone(r)
  \/ FindPhone(r)
  \/ FindSeveral(r)

Next == \E r \in Request : Asked(r) \/ Continue(r) \/ Fail(r)

\* A request that was accepted runs to its end: its calls to redis and the database
\* return or fail.  Nobody need ever ask for a code or log in.
Fairness == \A r \in Request : WF_vars(Continue(r))

Spec == Init /\ [][Next]_vars /\ Fairness

-----------------------------------------------------------------------------

TypeOK ==
  /\ code \in [Phone -> Code \cup {None}]
  /\ customers \in [Phone -> Nat]
  /\ job \in [Request -> Job]
  /\ issued \in [Phone -> SUBSET Code]
  /\ latest \in [Phone -> Code \cup {None}]
  /\ disturbed \subseteq Phone
  /\ overlapped \subseteq Phone

\* Where a request can stand (a lemma of the others).
JobsAreSound ==
  /\ \A r \in Request : job[r].step # "idle" => job[r].phone \in Phone
  /\ \A r \in Request : job[r].step = "sent" => job[r].code \in issued[job[r].phone]

\* The stored code was drawn for the phone it is stored for.
StoredWasIssued == \A ph \in Phone : code[ph] # None => code[ph] \in issued[ph]

\* Unless the last getCode for a phone was refused, failed halfway or met another
\* one, the code that was last sent is the one that redis has, or that is about to
\* be stored by the one getCode in progress (VerificationServiceImpl.getCode: the
\* message is out before the code is stored).  Asking once more mends it.
LatestCodeIsValid ==
  \A ph \in Phone : ph \notin disturbed =>
    \/ code[ph] = latest[ph] /\ \A r \in Request : ~Storing(r, ph)
    \/ \E r \in Request : /\ Storing(r, ph)
                          /\ job[r].code = latest[ph]
                          /\ \A o \in Request : Storing(o, ph) => o = r

\* A phone has one customer, whom every request finds, however often a code is
\* used and requests are repeated after they failed, unless two requests found it
\* free at a time (CustomerServiceImpl.existsByPhone and register, no unique
\* constraint): then there are two, and findByPhone throws from then on.
OneCustomerPerPhone ==
  \A ph \in Phone : ph \notin overlapped =>
    /\ customers[ph] <= 1
    /\ \A r \in Request : Registering(r, ph) =>
         /\ customers[ph] = 0
         /\ \A o \in Request : Registering(o, ph) => o = r
    /\ \A r \in Request : job[r].step = "checked" /\ job[r].phone = ph /\ job[r].found > 0 =>
         Rows(r) = 1

\* Customers found stay (a lemma of PhoneAccess).
FoundAreThere ==
  \A r \in Request : job[r].step = "checked" => job[r].found <= customers[job[r].phone]

VerificationInv ==
  /\ TypeOK
  /\ JobsAreSound
  /\ StoredWasIssued
  /\ FoundAreThere
  /\ LatestCodeIsValid
  /\ OneCustomerPerPhone

\* Every request ends: it is answered, with success or a failure, whatever the
\* others do and however many customers the phone has come to have.
RequestsEnd == \A r \in Request : job[r].step # "idle" ~> job[r].step = "idle"

\* A code whose message is out becomes the stored one, unless its getCode is
\* disturbed: a person who types it too early is refused, but not for long.
SentBecomesValid ==
  \A r \in Request, ph \in Phone, c \in Code :
    Storing(r, ph) /\ job[r].code = c ~> code[ph] = c \/ ph \in disturbed

-----------------------------------------------------------------------------

ProofOf(j) ==
  IF j.step \in {"verified", "checked"} THEN [phone |-> j.phone, word |-> j.code]
                                        ELSE [phone |-> None, word |-> None]

Access == INSTANCE PhoneAccess WITH
  guarded <- {ph \in Phone : code[ph] # None},
  proofs  <- [r \in Request |-> ProofOf(job[r])],
  members <- {ph \in Phone : customers[ph] > 0}

\* Verification implements PhoneAccess: a request holds a proof of its phone from
\* verify to its end, and the customers are who came in.  From the first code that
\* is stored for a phone on, only its codes let anybody in; before it, verify takes
\* the text that String.valueOf makes of nothing (VerificationServiceImpl:57).
ImplementsAccess == Access!Spec
=============================================================================
