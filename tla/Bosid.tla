-------------------------------- MODULE Bosid --------------------------------
(***************************************************************************)
(* How a row gets its id: BosidGenerator and BostypeUtils.  An id is an    *)
(* encoded random uuid and a suffix that names the class of the row.  The  *)
(* suffixes in use are kept in CLASS_ID_CACHE, a HashMap that all threads  *)
(* share and nothing synchronizes: a class is looked up, its suffix is     *)
(* compared with those of the cache, and then it is put there.             *)
(*                                                                         *)
(* One call of the HashMap is one step.  A call beside a put of another    *)
(* thread may overlook an entry that is being moved, a scan may stop with a *)
(* ConcurrentModificationException, and of two puts at a time one may undo *)
(* the other.                                                              *)
(***************************************************************************)
EXTENDS Integers

CONSTANTS
  Request,  \* what may save a row at a time
  Class,    \* the classes of rows
  Bostype,  \* Bostype[c]: the suffix in the annotation of class c
  Groups,   \* the threes of digits an id is made of: 10
  Uuid,     \* the uuids that are drawn, as sequences of hexadecimal digits
  None      \* no id

Hex == 0..15

\* No two classes of the program have the same annotation.
ASSUME BosidAssumption ==
  /\ \A c, d \in Class : Bostype[c] = Bostype[d] => c = d
  /\ Groups \in Nat
  /\ Uuid \subseteq [1..(3 * Groups + 2) -> Hex]

VARIABLES
  cache,      \* the classes in CLASS_ID_CACHE
  step,       \* step[r]: what request r does next
  class,      \* class[r]: the class of the row it saves
  meanwhile,  \* meanwhile[r]: the classes put since the put of r began
  id,         \* id[r]: the id of the row it saved, and its uuid
  overlapped  \* the requests beside which another has put a class

vars == <<cache, step, class, meanwhile, id, overlapped>>

Steps == {"idle", "look", "get", "check", "put", "draw", "saved", "failed"}
Ended == {"idle", "saved", "failed"}

-----------------------------------------------------------------------------

\* Mutant of Pair: the lower bits of the second digit are masked one too short.
PairShort(a, b, c) == <<4 * a + b \div 4, (16 * (b % 2)) + c>>

\* Three digits make two characters.  A character is given as the number that
\* getchar is called with: '0' to '9' for 0 to 9, '-' for 11.
Pair(a, b, c) == <<4 * a + b \div 4, (16 * (b % 4)) + c>>

\* The last two digits: the last character is one of '0' to '3'.
LastPair(a, b) == <<4 * a + b \div 4, b % 4>>

\* getInternalMiniuuid: the characters of a uuid.
Encoded(uuid) ==
  [i \in 1..(2 * Groups + 2) |->
     LET g == (i - 1) \div 2
         p == IF g = Groups THEN LastPair(uuid[3 * g + 1], uuid[3 * g + 2])
                            ELSE Pair(uuid[3 * g + 1], uuid[3 * g + 2], uuid[3 * g + 3])
     IN  p[2 - (i % 2)]]

\* Mutant of Usable: the first character is not looked at.
UsableInside(chars) == \A i \in DOMAIN chars : chars[i] # 11

\* getMiniuuid draws until there is no '-' and the first character is no digit.
Usable(chars) == chars[1] \notin 0..9 /\ \A i \in DOMAIN chars : chars[i] # 11

\* The ids there may be, with the uuids they were made of.
Id(uuid, c) == [uuid |-> uuid, chars |-> Encoded(uuid), suffix |-> Bostype[c]]
Ids == {Id(uuid, c) : uuid \in Uuid, c \in Class}

-----------------------------------------------------------------------------

Beside(r) == \E q \in Request \ {r} : step[q] = "put"

\* A row of class c is saved: generate is called.
Start(r, c) ==
  /\ step[r] \in Ended
  /\ step' = [step EXCEPT ![r] = "look"]
  /\ class' = [class EXCEPT ![r] = c]
  /\ id' = [id EXCEPT ![r] = None]
  /\ overlapped' = IF Beside(r) THEN overlapped \cup {r} ELSE overlapped \ {r}
  /\ UNCHANGED <<cache, meanwhile>>

\* Mutant of Knows: containsKey is asked for another name than put was.
KnowsNothing(c) == FALSE

Knows(c) == c \in cache

\* getIdByClass, containsKey.
Look(r) ==
  /\ step[r] = "look"
  /\ \/ Knows(class[r]) /\ step' = [step EXCEPT ![r] = "get"]
     \/ (~Knows(class[r]) \/ Beside(r)) /\ step' = [step EXCEPT ![r] = "check"]
  /\ UNCHANGED <<cache, class, meanwhile, id, overlapped>>

\* Its get.  Of an entry that is gone by now it returns null, which makes an id of one
\* character too many for its column.
Get(r) ==
  /\ step[r] = "get"
  /\ \/ class[r] \in cache /\ step' = [step EXCEPT ![r] = "draw"]
     \/ (class[r] \notin cache \/ Beside(r)) /\ step' = [step EXCEPT ![r] = "failed"]
  /\ UNCHANGED <<cache, class, meanwhile, id, overlapped>>

\* predicateRepeated finds the suffix neither with another class nor, put there since
\* the look, with its own.  The put begins.
Check(r) ==
  /\ step[r] = "check"
  /\ (\A c \in cache : Bostype[c] # Bostype[class[r]]) \/ Beside(r)
  /\ step' = [step EXCEPT ![r] = "put"]
  /\ overlapped' = overlapped \cup {q \in Request \ {r} : step[q] \notin Ended}
  /\ UNCHANGED <<cache, class, meanwhile, id>>

\* predicateRepeated throws, or the scan of entries does.
Repeated(r) ==
  /\ step[r] = "check"
  /\ \/ \E c \in cache : Bostype[c] = Bostype[class[r]]
     \/ cache # {} /\ Beside(r)
  /\ step' = [step EXCEPT ![r] = "failed"]
  /\ UNCHANGED <<cache, class, meanwhile, id, overlapped>>

\* The put ends: it may undo those that ended since it began, or have been undone.
Put(r) ==
  /\ step[r] = "put"
  /\ \/ \E undone \in SUBSET meanwhile[r] : cache' = (cache \ undone) \cup {class[r]}
     \/ meanwhile[r] # {} /\ UNCHANGED cache
  /\ step' = [step EXCEPT ![r] = "draw"]
  /\ meanwhile' = [q \in Request |->
       IF q = r THEN {}
       ELSE IF step[q] = "put" THEN meanwhile[q] \cup {class[r]}
       ELSE meanwhile[q]]
  /\ UNCHANGED <<class, id, overlapped>>

\* getMiniuuid's last draw; the row is saved.
Draw(r, uuid) ==
  /\ step[r] = "draw"
  /\ Usable(Encoded(uuid))
  /\ id' = [id EXCEPT ![r] = Id(uuid, class[r])]
  /\ step' = [step EXCEPT ![r] = "saved"]
  /\ UNCHANGED <<cache, class, meanwhile, overlapped>>

Init ==
  /\ cache = {}
  /\ step = [r \in Request |-> "idle"]
  /\ class \in [Request -> Class]
  /\ meanwhile = [r \in Request |-> {}]
  /\ id = [r \in Request |-> None]
  /\ overlapped = {}

Next ==
  \E r \in Request :
    \/ \E c \in Class : Start(r, c)
    \/ Look(r) \/ Get(r) \/ Check(r) \/ Repeated(r) \/ Put(r)
    \/ \E uuid \in Uuid : Draw(r, uuid)

Spec == Init /\ [][Next]_vars

-----------------------------------------------------------------------------

TypeOK ==
  /\ cache \subseteq Class
  /\ step \in [Request -> Steps]
  /\ class \in [Request -> Class]
  /\ meanwhile \in [Request -> SUBSET Class]
  /\ id \in [Request -> Ids \cup {None}]
  /\ overlapped \subseteq Request

\* A saved id ends in the suffix of its row's class and begins with no digit (the comment
\* at BosidGenerator.java:87 wants it to look like an identifier): no null of a lost entry
\* and no unusable draw is ever saved.
IdsTellTheClass ==
  \A r \in Request : step[r] = "saved" =>
    /\ id[r] \in Ids
    /\ id[r].suffix = Bostype[class[r]]
    /\ id[r].chars[1] \in 10..63

\* Whoever works beside a put is overlapped, and so is whoever took a class for unknown
\* or for known that is not so any more.
OverlapsAreSeen ==
  \A r \in Request :
    /\ step[r] \notin Ended /\ Beside(r) => r \in overlapped
    /\ step[r] = "check" /\ class[r] \in cache => r \in overlapped
    /\ step[r] = "get" /\ class[r] \notin cache => r \in overlapped

\* No two uuids have one id: the characters of a saved id are those of its uuid and of
\* no other, three digits by three, and the last two (getInternalMiniuuid shifts and
\* masks them).
OneIdPerUuid ==
  \A r \in Request : step[r] = "saved" =>
    LET uuid == id[r].uuid
        char(i) == id[r].chars[i]
        last == 3 * Groups
    IN  /\ \A g \in 0..(Groups - 1) : \A a, b, c \in Hex :
             Pair(a, b, c) = <<char(2 * g + 1), char(2 * g + 2)>> =>
               <<a, b, c>> = <<uuid[3 * g + 1], uuid[3 * g + 2], uuid[3 * g + 3]>>
        /\ \A a, b \in Hex :
             LastPair(a, b) = <<char(2 * Groups + 1), char(2 * Groups + 2)>> =>
               <<a, b>> = <<uuid[last + 1], uuid[last + 2]>>

\* Saving a row fails for its id only beside a request that puts a class there for the
\* first time, or again as its entry was undone: never alone, so that a request that
\* is repeated by itself succeeds.  As no class has the suffix of another, predicateRepeated
\* should never throw; what it finds beside a put is the class itself.
FailsOnlyOverlapped ==
  \A r \in Request : step[r] = "failed" => r \in overlapped

\* The inductive invariant: ids are encoded as they should be, and what a request found in
\* the cache is still so unless another request put a class beside it (getIdByClass).
BosidInv == TypeOK /\ IdsTellTheClass /\ OverlapsAreSeen /\ FailsOnlyOverlapped
=============================================================================
