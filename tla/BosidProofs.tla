----------------------------- MODULE BosidProofs -----------------------------
(***************************************************************************)
(* Proofs about Bosid, for any number of requests, classes and digits.     *)
(***************************************************************************)
EXTENDS Bosid, TLAPS

\* A digit is its upper two bits and its lower two.
LEMMA DigitBits ==
  ASSUME NEW b \in Hex
  PROVE  b \div 4 \in 0..3 /\ b % 4 \in 0..3 /\ b = 4 * (b \div 4) + (b % 4)
BY SMT DEF Hex

LEMMA UpperCharacter ==
  ASSUME NEW a \in Hex, NEW a2 \in Hex, NEW d \in 0..3, NEW d2 \in 0..3, 4 * a + d = 4 * a2 + d2
  PROVE  a = a2 /\ d = d2
BY SMT DEF Hex

LEMMA CharacterNumber ==
  ASSUME NEW a \in Hex, NEW d \in 0..3
  PROVE  4 * a + d \in 0..63
BY SMT DEF Hex

LEMMA LowerCharacter ==
  ASSUME NEW c \in Hex, NEW c2 \in Hex, NEW d \in 0..3, NEW d2 \in 0..3, 16 * d + c = 16 * d2 + c2
  PROVE  c = c2 /\ d = d2
BY SMT DEF Hex

\* The bits of three digits are all in their two characters.
LEMMA PairGivesBack ==
  ASSUME NEW a \in Hex, NEW b \in Hex, NEW c \in Hex,
         NEW a2 \in Hex, NEW b2 \in Hex, NEW c2 \in Hex,
         Pair(a, b, c) = Pair(a2, b2, c2)
  PROVE  <<a, b, c>> = <<a2, b2, c2>>
<1>1. 4 * a + b \div 4 = 4 * a2 + b2 \div 4
  BY DEF Pair
<1>2. (16 * (b % 4)) + c = (16 * (b2 % 4)) + c2
  BY DEF Pair
<1>3. a = a2 /\ b \div 4 = b2 \div 4
  BY <1>1, DigitBits, UpperCharacter
<1>4. b % 4 = b2 % 4 /\ c = c2
  BY <1>2, DigitBits, LowerCharacter
<1>5. b = b2
  BY <1>3, <1>4, DigitBits
<1>6. QED
  BY <1>3, <1>4, <1>5

\* So are those of the last two.
LEMMA LastPairGivesBack ==
  ASSUME NEW a \in Hex, NEW b \in Hex, NEW a2 \in Hex, NEW b2 \in Hex,
         LastPair(a, b) = LastPair(a2, b2)
  PROVE  <<a, b>> = <<a2, b2>>
<1>1. 4 * a + b \div 4 = 4 * a2 + b2 \div 4 /\ b % 4 = b2 % 4
  BY DEF LastPair
<1>2. a = a2 /\ b \div 4 = b2 \div 4
  BY <1>1, DigitBits, UpperCharacter
<1>3. b = b2
  BY <1>1, <1>2, DigitBits
<1>4. QED
  BY <1>2, <1>3

\* Where the digits of a uuid go.
LEMMA EncodedPairs ==
  ASSUME NEW uuid \in Uuid
  PROVE  /\ \A g \in 0..(Groups - 1) :
              <<Encoded(uuid)[2 * g + 1], Encoded(uuid)[2 * g + 2]>> =
                Pair(uuid[3 * g + 1], uuid[3 * g + 2], uuid[3 * g + 3])
         /\ <<Encoded(uuid)[2 * Groups + 1], Encoded(uuid)[2 * Groups + 2]>> =
              LastPair(uuid[3 * Groups + 1], uuid[3 * Groups + 2])
<1> USE BosidAssumption
<1>1. ASSUME NEW g \in 0..(Groups - 1)
      PROVE  <<Encoded(uuid)[2 * g + 1], Encoded(uuid)[2 * g + 2]>> =
                Pair(uuid[3 * g + 1], uuid[3 * g + 2], uuid[3 * g + 3])
  <2>1. /\ 2 * g + 1 \in 1..(2 * Groups + 2) /\ 2 * g + 2 \in 1..(2 * Groups + 2)
        /\ (2 * g + 1 - 1) \div 2 = g /\ (2 * g + 2 - 1) \div 2 = g
        /\ (2 * g + 1) % 2 = 1 /\ (2 * g + 2) % 2 = 0 /\ g # Groups
    OBVIOUS
  <2>2. QED
    BY <2>1 DEF Encoded, Pair
<1>2. /\ 2 * Groups + 1 \in 1..(2 * Groups + 2) /\ 2 * Groups + 2 \in 1..(2 * Groups + 2)
      /\ (2 * Groups + 1 - 1) \div 2 = Groups /\ (2 * Groups + 2 - 1) \div 2 = Groups
      /\ (2 * Groups + 1) % 2 = 1 /\ (2 * Groups + 2) % 2 = 0
  OBVIOUS
<1>3. <<Encoded(uuid)[2 * Groups + 1], Encoded(uuid)[2 * Groups + 2]>> =
              LastPair(uuid[3 * Groups + 1], uuid[3 * Groups + 2])
  BY <1>2 DEF Encoded, LastPair
<1>4. QED
  BY <1>1, <1>3

\* The first character is one getchar knows.
LEMMA FirstCharacter ==
  ASSUME NEW uuid \in Uuid
  PROVE  Encoded(uuid)[1] \in 0..63
<1> USE BosidAssumption
<1>1. uuid[1] \in Hex /\ uuid[2] \in Hex
  <2>1. 1 \in 1..(3 * Groups + 2) /\ 2 \in 1..(3 * Groups + 2)
    OBVIOUS
  <2>2. QED
    BY <2>1
<1>2. 4 * uuid[1] + uuid[2] \div 4 \in 0..63
  <2>1. uuid[2] \div 4 \in 0..3
    BY <1>1, DigitBits
  <2>2. QED
    BY <1>1, <2>1, CharacterNumber
<1>3. 1 \in 1..(2 * Groups + 2) /\ (1 - 1) \div 2 = 0 /\ 1 % 2 = 1
  OBVIOUS
<1>4. Encoded(uuid)[1] = 4 * uuid[1] + uuid[2] \div 4
  BY <1>3 DEF Encoded, Pair, LastPair
<1>5. QED
  BY <1>2, <1>4

-----------------------------------------------------------------------------

LEMMA InitInv == Init => BosidInv
BY DEF Init, BosidInv, TypeOK, Steps, IdsTellTheClass, OverlapsAreSeen, FailsOnlyOverlapped, Ended,
       Beside

\* Each step keeps types and ids.
LEMMA IdsKept ==
  ASSUME BosidInv, [Next]_vars
  PROVE  TypeOK' /\ IdsTellTheClass'
<1> USE DEF BosidInv, TypeOK, IdsTellTheClass, Steps
<1>1. ASSUME NEW r \in Request, NEW c \in Class, Start(r, c) PROVE TypeOK' /\ IdsTellTheClass'
  BY <1>1 DEF Start, Ended
<1>2. ASSUME NEW r \in Request, Look(r) PROVE TypeOK' /\ IdsTellTheClass'
  BY <1>2 DEF Look
<1>3. ASSUME NEW r \in Request, Get(r) PROVE TypeOK' /\ IdsTellTheClass'
  BY <1>3 DEF Get
<1>4. ASSUME NEW r \in Request, Check(r) PROVE TypeOK' /\ IdsTellTheClass'
  BY <1>4 DEF Check
<1>5. ASSUME NEW r \in Request, Repeated(r) PROVE TypeOK' /\ IdsTellTheClass'
  BY <1>5 DEF Repeated
<1>6. ASSUME NEW r \in Request, Put(r) PROVE TypeOK' /\ IdsTellTheClass'
  BY <1>6 DEF Put
<1>7. ASSUME NEW r \in Request, NEW uuid \in Uuid, Draw(r, uuid)
      PROVE  TypeOK' /\ IdsTellTheClass'
  <2>1. Id(uuid, class[r]) \in Ids
    BY DEF Ids
  <2>2. TypeOK' /\ step'[r] = "saved" /\ id'[r] = Id(uuid, class[r]) /\ class' = class
    BY <1>7, <2>1 DEF Draw
  <2>3. Encoded(uuid)[1] \in 10..63
    BY <1>7, FirstCharacter DEF Draw, Usable
  <2>4. /\ id'[r].suffix = Bostype[class'[r]]
        /\ id'[r].chars[1] \in 10..63
    BY <2>2, <2>3 DEF Id
  <2>5. \A q \in Request \ {r} : step'[q] = step[q] /\ id'[q] = id[q]
    BY <1>7 DEF Draw
  <2>6. QED
    BY <2>1, <2>2, <2>4, <2>5
<1>8. CASE UNCHANGED vars
  BY <1>8 DEF vars
<1>9. QED
  BY <1>1, <1>2, <1>3, <1>4, <1>5, <1>6, <1>7, <1>8 DEF Next

\* Each step keeps what requests know to be true of the cache, or to be overtaken.
LEMMA OverlapsKept ==
  ASSUME BosidInv, [Next]_vars
  PROVE  OverlapsAreSeen' /\ FailsOnlyOverlapped'
<1> USE DEF BosidInv, TypeOK, OverlapsAreSeen, FailsOnlyOverlapped, Beside, Ended
<1>1. ASSUME NEW r \in Request, NEW c \in Class, Start(r, c)
      PROVE  OverlapsAreSeen' /\ FailsOnlyOverlapped'
  BY <1>1 DEF Start
<1>2. ASSUME NEW r \in Request, Look(r) PROVE OverlapsAreSeen' /\ FailsOnlyOverlapped'
  BY <1>2 DEF Look, Knows
<1>3. ASSUME NEW r \in Request, Get(r) PROVE OverlapsAreSeen' /\ FailsOnlyOverlapped'
  BY <1>3 DEF Get
<1>4. ASSUME NEW r \in Request, Check(r) PROVE OverlapsAreSeen' /\ FailsOnlyOverlapped'
  BY <1>4 DEF Check
<1>5. ASSUME NEW r \in Request, Repeated(r)
      PROVE  OverlapsAreSeen' /\ FailsOnlyOverlapped'
  <2>1. r \in overlapped
    BY <1>5, BosidAssumption DEF Repeated
  <2>2. QED
    BY <1>5, <2>1 DEF Repeated
<1>6. ASSUME NEW r \in Request, Put(r) PROVE OverlapsAreSeen' /\ FailsOnlyOverlapped'
  <2>1. \A q \in Request \ {r} : step[q] \notin Ended => q \in overlapped
    BY <1>6 DEF Put
  <2>2. /\ step' = [step EXCEPT ![r] = "draw"]
        /\ UNCHANGED <<class, overlapped>>
    BY <1>6 DEF Put
  <2>3. step'[r] = "draw" /\ \A q \in Request \ {r} : step'[q] = step[q]
    BY <2>2
  <2>4. ASSUME NEW q \in Request
        PROVE  /\ step'[q] \notin Ended /\ Beside(q)' => q \in overlapped'
               /\ step'[q] = "check" /\ class'[q] \in cache' => q \in overlapped'
               /\ step'[q] = "get" /\ class'[q] \notin cache' => q \in overlapped'
               /\ step'[q] = "failed" => q \in overlapped'
    <3>1. CASE q = r
      <4>1. step[r] = "put"
        BY <1>6 DEF Put
      <4>2. Beside(r)' => Beside(r)
        BY <2>3
      <4>3. QED
        BY <2>2, <2>3, <3>1, <4>1, <4>2
    <3>2. CASE q # r
      <4>1. step'[q] = step[q]
        BY <2>3, <3>2
      <4>2. QED
        BY <2>1, <2>2, <3>2, <4>1
    <3>3. QED
      BY <3>1, <3>2
  <2>5. QED
    BY <2>4
<1>7. ASSUME NEW r \in Request, NEW uuid \in Uuid, Draw(r, uuid)
      PROVE  OverlapsAreSeen' /\ FailsOnlyOverlapped'
  BY <1>7 DEF Draw
<1>8. CASE UNCHANGED vars
  BY <1>8 DEF vars
<1>9. QED
  BY <1>1, <1>2, <1>3, <1>4, <1>5, <1>6, <1>7, <1>8 DEF Next

\* Ids are encoded as they should be, and what a request found in the cache is still so
\* unless another put a class beside it (BostypeUtils.getIdByClass, BosidGenerator).
THEOREM BosidInvariant == Spec => []BosidInv
<1>1. BosidInv /\ [Next]_vars => BosidInv'
  BY IdsKept, OverlapsKept DEF BosidInv
<1>2. QED
  BY InitInv, <1>1, PTL DEF Spec

\* Saving a row fails for its id only beside a request that puts a class
\* (BostypeUtils.predicateRepeated).
THEOREM FailsTheorem == Spec => []FailsOnlyOverlapped
<1>1. BosidInv => FailsOnlyOverlapped
  BY DEF BosidInv
<1>2. QED
  BY BosidInvariant, <1>1, PTL

\* However many digits an id has, it is of one uuid only
\* (BosidGenerator.getInternalMiniuuid).
THEOREM OneIdTheorem == Spec => []OneIdPerUuid
<1>1. BosidInv => OneIdPerUuid
  <2> SUFFICES ASSUME BosidInv, NEW r \in Request, step[r] = "saved"
               PROVE  LET uuid == id[r].uuid
                          char(i) == id[r].chars[i]
                          last == 3 * Groups
                      IN  /\ \A g \in 0..(Groups - 1) : \A a, b, c \in Hex :
                               Pair(a, b, c) = <<char(2 * g + 1), char(2 * g + 2)>> =>
                                 <<a, b, c>> =
                                   <<uuid[3 * g + 1], uuid[3 * g + 2], uuid[3 * g + 3]>>
                          /\ \A a, b \in Hex :
                               LastPair(a, b) =
                                   <<char(2 * Groups + 1), char(2 * Groups + 2)>> =>
                                 <<a, b>> = <<uuid[last + 1], uuid[last + 2]>>
    BY DEF OneIdPerUuid
  <2> DEFINE uuid == id[r].uuid
  <2>1. uuid \in Uuid /\ id[r].chars = Encoded(uuid)
    BY DEF BosidInv, IdsTellTheClass, Ids, Id
  <2>2. \A i \in 1..(3 * Groups + 2) : uuid[i] \in Hex
    BY <2>1, BosidAssumption
  <2> HIDE DEF uuid
  <2>3. ASSUME NEW g \in 0..(Groups - 1), NEW a \in Hex, NEW b \in Hex, NEW c \in Hex,
               Pair(a, b, c) = <<Encoded(uuid)[2 * g + 1], Encoded(uuid)[2 * g + 2]>>
        PROVE  <<a, b, c>> = <<uuid[3 * g + 1], uuid[3 * g + 2], uuid[3 * g + 3]>>
    <3>1. /\ uuid[3 * g + 1] \in Hex
          /\ uuid[3 * g + 2] \in Hex
          /\ uuid[3 * g + 3] \in Hex
      BY <2>2, BosidAssumption
    <3>2. Pair(a, b, c) = Pair(uuid[3 * g + 1], uuid[3 * g + 2], uuid[3 * g + 3])
      BY <2>1, <2>3, EncodedPairs
    <3>3. QED
      BY <3>1, <3>2, PairGivesBack
  <2>4. ASSUME NEW a \in Hex, NEW b \in Hex,
               LastPair(a, b) =
                 <<Encoded(uuid)[2 * Groups + 1], Encoded(uuid)[2 * Groups + 2]>>
        PROVE  <<a, b>> = <<uuid[3 * Groups + 1], uuid[3 * Groups + 2]>>
    <3>1. uuid[3 * Groups + 1] \in Hex /\ uuid[3 * Groups + 2] \in Hex
      BY <2>2, BosidAssumption
    <3>2. LastPair(a, b) = LastPair(uuid[3 * Groups + 1], uuid[3 * Groups + 2])
      BY <2>1, <2>4, EncodedPairs
    <3>3. QED
      BY <3>1, <3>2, LastPairGivesBack
  <2>5. QED
    BY <2>1, <2>3, <2>4 DEF uuid
<1>2. QED
  BY BosidInvariant, <1>1, PTL

-----------------------------------------------------------------------------
(* Where saving a row cannot fail.                                         *)

\* Every class was put, and nobody is about to put one.
Warm == cache = Class /\ \A r \in Request : step[r] \notin {"check", "put"}

\* From then on it stays so, and no request fails.
WarmStaysWarm ==
  [][Warm => /\ Warm'
             /\ \A r \in Request : step'[r] = "failed" => step[r] = "failed"]_vars

\* Once every class has been saved, ids are made as if threads did not share the cache
\* (BosidGenerator.getIdByClass: the failures are those of a program that has just started).
THEOREM WarmTheorem == Spec => WarmStaysWarm
<1>1. BosidInv /\ [Next]_vars =>
        [Warm => /\ Warm'
                 /\ \A r \in Request : step'[r] = "failed" => step[r] = "failed"]_vars
  <2> SUFFICES ASSUME BosidInv, Next, Warm
               PROVE  /\ Warm'
                      /\ \A r \in Request : step'[r] = "failed" => step[r] = "failed"
    OBVIOUS
  <2> USE DEF Warm
  <2>1. step \in [Request -> Steps] /\ class \in [Request -> Class]
    BY DEF BosidInv, TypeOK
  <2>2. \A r \in Request : ~Beside(r) /\ Knows(class[r]) /\ class[r] \in cache
    BY <2>1 DEF Beside, Knows
  <2>3. PICK r \in Request : \/ \E c \in Class : Start(r, c)
                             \/ Look(r) \/ Get(r) \/ Check(r) \/ Repeated(r) \/ Put(r)
                             \/ \E uuid \in Uuid : Draw(r, uuid)
    BY DEF Next
  <2>4. CASE \E c \in Class : Start(r, c)
    BY <2>1, <2>4 DEF Start
  <2>5. CASE Look(r)
    BY <2>1, <2>2, <2>5 DEF Look
  <2>6. CASE Get(r)
    BY <2>1, <2>2, <2>6 DEF Get
  <2>7. CASE Check(r) \/ Repeated(r) \/ Put(r)
    BY <2>7 DEF Check, Repeated, Put
  <2>8. CASE \E uuid \in Uuid : Draw(r, uuid)
    BY <2>1, <2>8 DEF Draw
  <2>9. QED
    BY <2>3, <2>4, <2>5, <2>6, <2>7, <2>8
<1>2. QED
  BY <1>1, BosidInvariant, PTL DEF Spec, WarmStaysWarm

\* A single thread never fails to save a row for its id, however often it saves rows of
\* however many classes: predicateRepeated throws for no two classes of the program.
THEOREM AloneSavesTheorem ==
  ASSUME \A r, q \in Request : r = q
  PROVE  Spec => [](\A r \in Request : step[r] # "failed")
<1>1. Init => overlapped = {}
  BY DEF Init
<1>2. BosidInv /\ overlapped = {} /\ [Next]_vars => (overlapped = {})'
  <2> SUFFICES ASSUME BosidInv, overlapped = {}, Next PROVE overlapped' = {}
    BY DEF vars
  <2>1. \A r \in Request : ~Beside(r) /\ Request \ {r} = {}
    BY DEF Beside
  <2>2. QED
    BY <2>1 DEF Next, Start, Look, Get, Check, Repeated, Put, Draw
<1>3. BosidInv /\ overlapped = {} => \A r \in Request : step[r] # "failed"
  BY DEF BosidInv, FailsOnlyOverlapped
<1>4. QED
  BY <1>1, <1>2, <1>3, BosidInvariant, PTL DEF Spec
=============================================================================
