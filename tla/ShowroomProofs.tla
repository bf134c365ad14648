--------------------------- MODULE ShowroomProofs ---------------------------
(***************************************************************************)
(* Proofs about Showroom, for any cars, models, batches, page sizes and    *)
(* chains of filters.  What is proved of the catalogue needs its rows'     *)
(* types, which each operation keeps; that deleted cars are hidden, only   *)
(* the way a chain is read.  What a client reads on its way through the    *)
(* pages needs to be known at every page, which is what ShowroomInv says.  *)
(***************************************************************************)
EXTENDS Showroom, FiniteSetTheorems, WellFoundedInduction, TLAPS

(***************************************************************************)
(* Induction.  The induction theorems of the library take a predicate as a *)
(* parameter; that less-than is well founded on the naturals does not, and *)
(* gives a set of naturals its least member.                               *)
(***************************************************************************)

LEMMA LeastNumber ==
  ASSUME NEW T \in SUBSET Nat, T # {}
  PROVE  \E x \in T : \A y \in T : x <= y
<1> DEFINE R == OpToRel(<, Nat)
<1>1. IsWellFoundedOn(R, Nat)
  BY NatLessThanWellFounded
<1>2. \A x, y \in Nat : y < x => <<y, x>> \in R
  BY DEF OpToRel
<1> HIDE DEF R
<1>3. PICK x \in T : \A y \in T : <<y, x>> \notin R
  BY <1>1, WFMin
<1>4. \A y \in T : ~(y < x)
  BY <1>2, <1>3
<1>5. QED
  BY <1>4

\* The greatest of some numbers up to n: the least bound of them is one of them.
LEMMA GreatestNumber ==
  ASSUME NEW n \in Nat, NEW S \in SUBSET (1..n), S # {}
  PROVE  Max(S) \in S /\ \A y \in S : y <= Max(S)
<1> DEFINE T == {m \in Nat : \A y \in S : y <= m}
<1>1. n \in T
  OBVIOUS
<1>2. PICK m \in T : \A k \in T : m <= k
  BY <1>1, LeastNumber
<1>3. m \in S
  <2> SUFFICES ASSUME m \notin S PROVE FALSE
    OBVIOUS
  <2>1. \A y \in S : y \in 1..n /\ y <= m /\ y # m
    OBVIOUS
  <2>2. \A y \in S : y <= m - 1
    BY <2>1
  <2>3. m - 1 \in Nat
    <3>1. PICK y \in S : TRUE
      OBVIOUS
    <3>2. QED
      BY <2>1, <3>1
  <2>4. m - 1 \in T
    BY <2>2, <2>3
  <2>5. QED
    BY <1>2, <2>3, <2>4
<1>4. \A y \in S : m >= y
  BY <1>2, <1>3
<1>5. QED
  <2> DEFINE greatest == CHOOSE x \in S : \A y \in S : x >= y
  <2>1. greatest \in S /\ \A y \in S : greatest >= y
    BY <1>3, <1>4
  <2>2. greatest = Max(S)
    BY DEF Max
  <2> HIDE DEF greatest
  <2>3. QED
    BY <2>1, <2>2

-----------------------------------------------------------------------------

\* A place of a batch is over the car of the model or a new row.
LEMMA PlaceDef ==
  ASSUME NEW table, NEW batch, NEW at \in Places(table, batch), NEW i \in DOMAIN batch
  PROVE  /\ at[i] \in Car
         /\ \/ OfModel(table, batch[i].model) = {at[i]}
            \/ /\ OfModel(table, batch[i].model) = {}
               /\ table[at[i]] = NoCar
               /\ \A j \in DOMAIN batch \ {i} : at[j] # at[i]
BY DEF Places, Matches

\* A list that is imported, or the one sheet of add.
IsBatch(batch) ==
  \E n \in Sizes \cup {1} : batch \in [1..n -> Sheets]

LEMMA LastPlace ==
  ASSUME NEW batch, IsBatch(batch), NEW S \in SUBSET DOMAIN batch, S # {}
  PROVE  Max(S) \in S
<1>1. PICK n \in Sizes \cup {1} : batch \in [1..n -> Sheets]
  BY DEF IsBatch
<1>2. n \in Nat /\ S \subseteq 1..n
  BY <1>1, CatalogueAssumption
<1>3. QED
  BY <1>2, GreatestNumber

LEMMA CopiedType ==
  ASSUME NEW row \in Row, NEW sheet \in Sheet
  PROVE  /\ Copied(row, sheet) \in Row
         /\ Copied(row, sheet).model = sheet.model
         /\ Copied(row, sheet).disabled = row.disabled
BY DEF Copied, Row, Sheet

LEMMA NewType ==
  ASSUME NEW sheet \in Sheet
  PROVE  /\ NewCar(sheet) \in Row
         /\ NewCar(sheet).model = sheet.model
BY DEF NewCar, Row, Sheet

LEMMA MergedType ==
  ASSUME NEW row \in Row, NEW batch, IsBatch(batch), NEW S \in SUBSET DOMAIN batch, S # {}
  PROVE  /\ Merged(row, batch, S) \in Row
         /\ Merged(row, batch, S).model = batch[Max(S)].model
         /\ row.disabled => Merged(row, batch, S).disabled
<1> DEFINE latest == batch[Max(S)]
           pictures == {i \in S : batch[i].img # "left out"}
           img == IF pictures = {} THEN "left out" ELSE batch[Max(pictures)].img
           sheet == [latest EXCEPT !.img = img]
<1>1. \A i \in DOMAIN batch : batch[i] \in Sheet
  BY CatalogueAssumption DEF IsBatch
<1>2. latest \in Sheet
  BY <1>1, LastPlace
<1>3. img \in {"empty", "picture", "left out"}
  <2>1. CASE pictures = {}
    BY <2>1
  <2>2. CASE pictures # {}
    <3>1. Max(pictures) \in pictures
      BY <2>2, LastPlace
    <3>2. QED
      BY <1>1, <2>2, <3>1 DEF Sheet
  <2>3. QED
    BY <2>1, <2>2
<1>4. Merged(row, batch, S) = IF row = NoCar THEN NewCar(latest) ELSE Copied(row, sheet)
  BY DEF Merged
<1> HIDE DEF latest, img, pictures
<1>5. sheet \in Sheet /\ sheet.model = latest.model
  BY <1>2, <1>3 DEF Sheet
<1> HIDE DEF sheet
<1>6. CASE row = NoCar
  BY <1>2, <1>4, <1>6, NewType DEF NoCar, latest
<1>7. CASE row # NoCar
  BY <1>4, <1>5, <1>7, CopiedType DEF latest
<1>8. QED
  BY <1>6, <1>7

-----------------------------------------------------------------------------

\* CatalogueInv of the cars.
CarInv == car \in [Car -> Row] /\ \A c \in Car \ Cars(car) : car[c] = NoCar

\* An import keeps the cars' types and what is deleted, and gives a model with a car
\* no second one.
LEMMA ImportedKeeps ==
  ASSUME CarInv, NEW batch, IsBatch(batch), NEW at \in Places(car, batch),
         car' = Imported(car, batch, at)
  PROVE  CarInv' /\ DeletedStays /\ SecondCarIsRenamed
<1> DEFINE S(c) == {i \in DOMAIN batch : at[i] = c}
<1>1. \A c \in Car : car'[c] = IF S(c) = {} THEN car[c] ELSE Merged(car[c], batch, S(c))
  BY DEF Imported
<1>2. \A i \in DOMAIN batch : batch[i].model \in Model
  <2>1. PICK n \in Sizes \cup {1} : batch \in [1..n -> Sheets]
    BY DEF IsBatch
  <2>2. \A i \in DOMAIN batch : batch[i] \in Sheet
    BY <2>1, CatalogueAssumption
  <2>3. QED
    BY <2>2 DEF Sheet
<1>3. ASSUME NEW c \in Car, S(c) # {} PROVE Max(S(c)) \in S(c)
  <2>1. S(c) \subseteq DOMAIN batch
    OBVIOUS
  <2> HIDE DEF S
  <2>2. QED
    BY <1>3, <2>1, LastPlace
<1>4. ASSUME NEW c \in Car
      PROVE  /\ car'[c] \in Row
             /\ car[c].disabled => car'[c].disabled
             /\ S(c) # {} => car'[c].model = batch[Max(S(c))].model
  <2>1. car[c] \in Row /\ S(c) \subseteq DOMAIN batch
    BY DEF CarInv
  <2> HIDE DEF S
  <2>2. QED
    BY <1>1, <2>1, MergedType
<1>5. CarInv'
  <2>1. car' \in [Car -> Row]
    BY <1>4 DEF Imported
  <2>2. ASSUME NEW c \in Car, car'[c].model = None PROVE car'[c] = NoCar
    <3>1. S(c) = {}
      BY <1>2, <1>3, <1>4, <2>2, CatalogueAssumption
    <3>2. QED
      BY <1>1, <2>2, <3>1 DEF CarInv, Cars
  <2>3. QED
    BY <2>1, <2>2 DEF CarInv, Cars
<1>6. DeletedStays
  BY <1>4 DEF DeletedStays
<1>7. SecondCarIsRenamed
  <2> SUFFICES ASSUME NEW m \in Model, OfModel(car, m) # {},
                      NEW c \in Car, car'[c].model = m, car[c].model # m,
                      car[c].model = None
               PROVE  FALSE
    BY DEF SecondCarIsRenamed, OfModel, Cars
  <2>1. S(c) # {}
    BY <1>1
  <2>2. PICK i \in DOMAIN batch : at[i] = c /\ i = Max(S(c))
    BY <1>3, <2>1
  <2>3. batch[i].model = m
    BY <1>4, <2>1, <2>2
  <2>4. c \in OfModel(car, m)
    BY <2>2, <2>3, PlaceDef
  <2>5. QED
    BY <2>4 DEF OfModel
<1>8. QED
  BY <1>5, <1>6, <1>7

\* So does every operation, but that modify may give a model a second car.
LEMMA OperationKeeps ==
  ASSUME CarInv, CatalogueNext
  PROVE  CarInv' /\ DeletedStays /\ SecondCarIsRenamed
<1>1. ASSUME NEW sheet \in Sheets, Add(sheet)
      PROVE  CarInv' /\ DeletedStays /\ SecondCarIsRenamed
  <2>1. IsBatch(<<sheet>>)
    BY DEF IsBatch
  <2>2. QED
    BY <1>1, <2>1, ImportedKeeps DEF Add
<1>2. ASSUME NEW batch \in Batches, AddAll(batch)
      PROVE  CarInv' /\ DeletedStays /\ SecondCarIsRenamed
  <2>1. IsBatch(batch)
    BY DEF IsBatch, Batches
  <2>2. QED
    BY <1>2, <2>1, ImportedKeeps DEF AddAll
<1>3. ASSUME NEW c \in Car, NEW sheet \in Sheets, ModifyCar(c, sheet)
      PROVE  CarInv' /\ DeletedStays /\ SecondCarIsRenamed
  <2>1. sheet \in Sheet /\ sheet.model # None /\ car[c] \in Row
    BY CatalogueAssumption DEF Sheet, CarInv
  <2>2. /\ Copied(car[c], sheet) \in Row
        /\ Copied(car[c], sheet).model = sheet.model
        /\ Copied(car[c], sheet).disabled = car[c].disabled
    BY <2>1, CopiedType
  <2>3. QED
    BY <1>3, <2>1, <2>2
       DEF ModifyCar, CarInv, Cars, OfModel, DeletedStays, SecondCarIsRenamed
<1>4. ASSUME NEW c \in Car, DeleteCar(c)
      PROVE  CarInv' /\ DeletedStays /\ SecondCarIsRenamed
  <2> DEFINE row == [car[c] EXCEPT !.disabled = TRUE, !.upperShelf = FALSE]
  <2>1. row \in Row /\ row.model = car[c].model /\ row.disabled
    BY DEF CarInv, Row
  <2>2. car' = [car EXCEPT ![c] = row] /\ c \in Cars(car)
    BY <1>4 DEF DeleteCar
  <2> HIDE DEF row
  <2>3. QED
    BY <2>1, <2>2 DEF CarInv, Cars, OfModel, DeletedStays, SecondCarIsRenamed
<1>5. ASSUME NEW c \in Car, UpperDownShelf(c)
      PROVE  CarInv' /\ DeletedStays /\ SecondCarIsRenamed
  <2> DEFINE row == [car[c] EXCEPT !.upperShelf = ~car[c].upperShelf]
  <2>1. row \in Row /\ row.model = car[c].model /\ row.disabled = car[c].disabled
    BY DEF CarInv, Row
  <2>2. car' = [car EXCEPT ![c] = row] /\ c \in Cars(car)
    BY <1>5 DEF UpperDownShelf
  <2> HIDE DEF row
  <2>3. QED
    BY <2>1, <2>2 DEF CarInv, Cars, OfModel, DeletedStays, SecondCarIsRenamed
<1>6. QED
  BY <1>1, <1>2, <1>3, <1>4, <1>5 DEF CatalogueNext

\* No operation gives a brand a second icon.
LEMMA IconsKept ==
  ASSUME icons \in [Brand -> 0..1], CatalogueNext
  PROVE  icons' \in [Brand -> 0..1]
<1>1. ASSUME NEW batch \in Batches, AddAll(batch) PROVE icons' \in [Brand -> 0..1]
  BY <1>1 DEF AddAll, WithIcons
<1>2. CASE UNCHANGED icons
  BY <1>2
<1>3. QED
  BY <1>1, <1>2 DEF CatalogueNext, Add, ModifyCar, DeleteCar, UpperDownShelf

\* A step of the showroom is one of the catalogue or leaves it alone.
LEMMA ShowroomStep ==
  ASSUME [Next]_vars
  PROVE  CatalogueNext \/ UNCHANGED catalogueVars
BY DEF Next, NextPage, Start, Restock, catalogueVars, vars

LEMMA InitKeeps ==
  ASSUME CatalogueInit
  PROVE  CatalogueInv
BY DEF CatalogueInit, CatalogueInv, Row, NoCar

\* The rows of the catalogue are well formed and no brand has two icons, for any
\* imports (CarInfoServiceImpl.addAll with CarBrandIconServiceImpl.existsByBrand).
THEOREM CatalogueInvariant == Spec => []CatalogueInv
<1>1. Init => CatalogueInv
  BY InitKeeps DEF Init
<1>2. CatalogueInv /\ [Next]_vars => CatalogueInv'
  <2> SUFFICES ASSUME CatalogueInv, [Next]_vars PROVE CatalogueInv'
    OBVIOUS
  <2>1. CASE CatalogueNext
    BY <2>1, OperationKeeps, IconsKept DEF CatalogueInv, CarInv
  <2>2. CASE UNCHANGED catalogueVars
    BY <2>2 DEF CatalogueInv, catalogueVars, Cars
  <2>3. QED
    BY <2>1, <2>2, ShowroomStep
<1>3. QED
  BY <1>1, <1>2, PTL DEF Spec

LEMMA CatalogueSteps ==
  ASSUME CatalogueInv, [Next]_vars
  PROVE  [DeletedStays]_catalogueVars /\ [SecondCarIsRenamed]_catalogueVars
<1>1. CarInv
  BY DEF CatalogueInv, CarInv
<1>2. QED
  BY <1>1, OperationKeeps, ShowroomStep

\* No import, however long its list, enables a deleted car, which the comment at
\* CarInfoServiceImpl:74 says each does, and no other operation does either
\* (BeanCopyUtil never copies disabled, and nothing else clears it).
THEOREM DeletedTheorem == Spec => [][DeletedStays]_catalogueVars
BY CatalogueInvariant, CatalogueSteps, PTL DEF Spec

\* A model that has a car gets a second one only by a modify that renames another
\* (add and addAll look the model up, deleted cars included).
THEOREM SecondCarTheorem == Spec => SecondCarOnlyByRename
BY CatalogueInvariant, CatalogueSteps, PTL DEF Spec, SecondCarOnlyByRename

-----------------------------------------------------------------------------

(* How a chain of filters is read (JpaDataFetcher.getPredicate). *)

\* With filter i it is decided whether the filters from i on select a row.
Decides(chain, i, row) ==
  /\ Joined(chain, i, "AND") => ~Matched(chain[i], row)
  /\ Joined(chain, i, "OR") => Matched(chain[i], row)

\* The first of the filters from i on that decides.
Deciding(chain, i, row) ==
  CHOOSE j \in i..Len(chain) :
    /\ Decides(chain, j, row)
    /\ \A k \in i..Len(chain) : Decides(chain, k, row) => j <= k

Reading(chain, row) ==
  [i \in 1..Len(chain) |-> Matched(chain[Deciding(chain, i, row)], row)]

\* The last filter decides, so there is one; one that does not leaves it to the next.
LEMMA DecidingDef ==
  ASSUME NEW chain, Len(chain) \in Nat, NEW row, NEW i \in 1..Len(chain)
  PROVE  /\ Deciding(chain, i, row) \in i..Len(chain)
         /\ Decides(chain, Deciding(chain, i, row), row)
         /\ \A k \in i..Len(chain) :
              Decides(chain, k, row) => Deciding(chain, i, row) <= k
<1> DEFINE T == {j \in i..Len(chain) : Decides(chain, j, row)}
<1>1. Len(chain) \in T /\ T \subseteq Nat
  BY DEF Decides, Joined
<1>2. PICK j \in T : \A k \in T : j <= k
  BY <1>1, LeastNumber
<1>3. QED
  BY <1>2 DEF Deciding

LEMMA DecidingNext ==
  ASSUME NEW chain, Len(chain) \in Nat, NEW row, NEW i \in 1..Len(chain)
  PROVE  /\ Decides(chain, i, row) => Deciding(chain, i, row) = i
         /\ ~Decides(chain, i, row) =>
              /\ i + 1 \in 1..Len(chain)
              /\ Deciding(chain, i, row) = Deciding(chain, i + 1, row)
<1> DEFINE d == Deciding(chain, i, row)
           e == Deciding(chain, i + 1, row)
           n == Len(chain)
<1>1. /\ d \in i..n /\ Decides(chain, d, row)
      /\ \A k \in i..n : Decides(chain, k, row) => d <= k
  BY DecidingDef
<1>2. ASSUME i + 1 \in 1..n
      PROVE  /\ e \in (i + 1)..n /\ Decides(chain, e, row)
             /\ \A k \in (i + 1)..n : Decides(chain, k, row) => e <= k
  BY <1>2, DecidingDef
<1>3. ~Decides(chain, i, row) => i + 1 \in 1..n
  BY DEF Decides, Joined
<1> HIDE DEF d, e
<1>4. Decides(chain, i, row) => d = i
  BY <1>1
<1>5. ASSUME ~Decides(chain, i, row) PROVE d = e
  <2>1. d # i
    BY <1>1, <1>5
  <2>2. d \in (i + 1)..n /\ e \in i..n /\ d \in Int /\ e \in Int
    BY <1>1, <1>2, <1>3, <1>5, <2>1
  <2>3. d <= e /\ e <= d
    BY <1>1, <1>2, <1>3, <1>5, <2>2
  <2>4. QED
    BY <2>2, <2>3
<1>6. QED
  BY <1>3, <1>4, <1>5 DEF d, e

\* The recursion of getPredicate.
Recursion(f, chain, row) ==
  f = [i \in 1..Len(chain) |->
         \/ Matched(chain[i], row) /\ (Joined(chain, i, "AND") => f[i + 1])
         \/ Joined(chain, i, "OR") /\ f[i + 1]]

LEMMA ReadingRecursion ==
  ASSUME NEW chain, Len(chain) \in Nat, NEW row
  PROVE  Recursion(Reading(chain, row), chain, row)
<1> DEFINE f == Reading(chain, row)
           step(i) == \/ Matched(chain[i], row) /\ (Joined(chain, i, "AND") => f[i + 1])
                      \/ Joined(chain, i, "OR") /\ f[i + 1]
<1>1. \A i \in 1..Len(chain) : f[i] = Matched(chain[Deciding(chain, i, row)], row)
  BY DEF Reading
<1>2. \A i \in 1..Len(chain) : f[i] \in BOOLEAN
  BY <1>1 DEF Matched
<1>3. ASSUME NEW i \in 1..Len(chain) PROVE f[i] <=> step(i)
  <2> HIDE DEF f
  <2>1. ~(Joined(chain, i, "AND") /\ Joined(chain, i, "OR"))
    BY DEF Joined
  <2>2. CASE Decides(chain, i, row)
    <3>1. f[i] <=> Matched(chain[i], row)
      BY <1>1, <2>2, DecidingNext
    <3>2. QED
      BY <2>1, <2>2, <3>1 DEF Decides
  <2>3. CASE ~Decides(chain, i, row)
    <3>1. f[i] = f[i + 1]
      BY <1>1, <2>3, DecidingNext
    <3>2. QED
      BY <2>1, <2>3, <3>1 DEF Decides
  <2>4. QED
    BY <2>2, <2>3
<1>4. \A i \in 1..Len(chain) : f[i] = step(i)
  BY <1>2, <1>3
<1>5. f = [i \in 1..Len(chain) |-> f[i]]
  BY DEF Reading
<1>6. [i \in 1..Len(chain) |-> f[i]] = [i \in 1..Len(chain) |-> step(i)]
  BY <1>4
<1>7. f = [i \in 1..Len(chain) |-> step(i)]
  BY <1>5, <1>6
<1>8. QED
  BY <1>7 DEF Recursion

LEMMA PredicateRecursion ==
  ASSUME NEW chain, Len(chain) \in Nat, NEW row
  PROVE  Recursion(Predicate(chain, row), chain, row)
<1>1. Predicate(chain, row) = CHOOSE f : Recursion(f, chain, row)
  BY DEF Predicate, Recursion
<1>2. QED
  BY <1>1, ReadingRecursion

\* There is one reading of a chain: two would differ at some last filter, though they
\* agree on what follows it.
LEMMA OneReading ==
  ASSUME NEW chain, Len(chain) \in Nat, NEW row,
         NEW f, Recursion(f, chain, row), NEW g, Recursion(g, chain, row)
  PROVE  f = g
<1> DEFINE n == Len(chain)
           T == {i \in 1..n : f[i] # g[i]}
           step(h, i) == \/ Matched(chain[i], row) /\ (Joined(chain, i, "AND") => h[i + 1])
                         \/ Joined(chain, i, "OR") /\ h[i + 1]
<1>1. f = [i \in 1..n |-> step(f, i)] /\ g = [i \in 1..n |-> step(g, i)]
  BY DEF Recursion
<1>2. T = {}
  <2> SUFFICES ASSUME T # {} PROVE FALSE
    OBVIOUS
  <2> DEFINE m == Max(T)
  <2>1. m \in T /\ \A i \in T : i <= m
    BY GreatestNumber
  <2> HIDE DEF m
  <2>2. ASSUME m < n PROVE f[m + 1] = g[m + 1]
    <3>1. m + 1 \in 1..n /\ ~(m + 1 <= m)
      BY <2>1, <2>2
    <3>2. QED
      BY <2>1, <3>1
  <2>3. step(f, m) = step(g, m)
    BY <2>2 DEF Joined
  <2>4. f[m] = step(f, m) /\ g[m] = step(g, m)
    BY <1>1, <2>1
  <2>5. QED
    BY <2>1, <2>3, <2>4
<1>3. \A i \in 1..n : f[i] = g[i]
  BY <1>2
<1>4. f = [i \in 1..n |-> f[i]] /\ g = [i \in 1..n |-> g[i]]
  BY <1>1
<1>5. QED
  BY <1>3, <1>4

\* However getPredicate nests the filters, the first of them that decides, does: one
\* that is not met and joined by AND, one that is met and joined by OR, or the last.
THEOREM ChainTheorem ==
  ASSUME NEW Filters, NEW chain \in Seq(Filters), chain # <<>>, NEW row
  PROVE  Selects(chain, row) <=> Matched(chain[Deciding(chain, 1, row)], row)
<1>1. Len(chain) \in Nat /\ 1 \in 1..Len(chain)
  OBVIOUS
<1>2. Predicate(chain, row) = Reading(chain, row)
  BY <1>1, PredicateRecursion, ReadingRecursion, OneReading
<1>3. QED
  BY <1>1, <1>2 DEF Selects, Reading

\* A chain that begins with a filter which does not hold and is joined by AND selects
\* nothing.
LEMMA FirstDecides ==
  ASSUME NEW Filters, NEW chain \in Seq(Filters), chain # <<>>, NEW row,
         chain[1].combinator = "AND", ~Matched(chain[1], row)
  PROVE  ~Selects(chain, row)
<1>1. Len(chain) \in Nat /\ 1 \in 1..Len(chain)
  OBVIOUS
<1>2. Decides(chain, 1, row)
  BY DEF Decides, Joined
<1>3. Deciding(chain, 1, row) = 1
  BY <1>1, <1>2, DecidingNext
<1>4. QED
  BY <1>3, ChainTheorem

\* No query shows a deleted car unless its first filter asks for them
\* (CollectionJpaDataFetcher.extractQueryFilter, JpaDataFetcher.getPredicate).
THEOREM HiddenTheorem == Spec => []DeletedAreHidden
<1>1. DeletedAreHidden
  <2> SUFFICES ASSUME NEW chain \in Chains, ~AsksFor(chain, "OR"), ~AsksFor(chain, "AND"),
                      NEW c \in Car, car[c].disabled
               PROVE  ~Selects(Extracted(chain), car[c])
    BY DEF DeletedAreHidden, Shown, Selected, Cars
  <2> DEFINE whole == <<NotDisabled>> \o chain
  <2>1. Extracted(chain) = whole
    BY DEF Extracted
  <2> DEFINE Filters == {NotDisabled} \cup {chain[i] : i \in DOMAIN chain}
  <2>2. whole \in Seq(Filters) /\ whole[1] = NotDisabled /\ Len(whole) >= 1
    <3> DEFINE Sent == {chain[i] : i \in DOMAIN chain}
    <3>1. chain \in Seq(Sent) /\ Sent \subseteq Filters /\ NotDisabled \in Filters
      BY ChainsAssumption
    <3> HIDE DEF Sent, Filters
    <3>2. chain \in Seq(Filters) /\ <<NotDisabled>> \in Seq(Filters)
      BY <3>1
    <3>3. QED
      BY <3>2
  <2>3. ~Matched(NotDisabled, car[c])
    BY DEF Matched, NotDisabled
  <2>4. whole # <<>>
    BY <2>2
  <2> HIDE DEF whole
  <2>5. QED
    BY <2>1, <2>2, <2>3, <2>4, FirstDecides DEF NotDisabled
<1>2. QED
  BY <1>1, PTL
-----------------------------------------------------------------------------
(* A list of cars that is sent again. *)

\* No model is named twice in the list.
Distinct(batch) ==
  \A i, j \in DOMAIN batch : batch[i].model = batch[j].model => i = j

LEMMA BatchSheets ==
  ASSUME NEW batch, IsBatch(batch), NEW i \in DOMAIN batch
  PROVE  batch[i] \in Sheet /\ batch[i].model \in Model /\ batch[i].model # None
<1>1. batch[i] \in Sheet
  BY CatalogueAssumption DEF IsBatch
<1>2. QED
  BY <1>1, CatalogueAssumption DEF Sheet

\* The sheets of such a list go to a car each.
LEMMA OwnPlaces ==
  ASSUME NEW table, NEW batch, Distinct(batch), NEW at \in Places(table, batch),
         NEW i \in DOMAIN batch, NEW j \in DOMAIN batch, at[i] = at[j]
  PROVE  i = j
<1>1. CASE OfModel(table, batch[i].model) = {at[i]} /\ OfModel(table, batch[j].model) = {at[j]}
  BY <1>1 DEF OfModel, Distinct
<1>2. CASE \A k \in DOMAIN batch \ {i} : at[k] # at[i]
  BY <1>2
<1>3. CASE \A k \in DOMAIN batch \ {j} : at[k] # at[j]
  BY <1>3
<1>4. QED
  BY <1>1, <1>2, <1>3, PlaceDef

LEMMA OnlyOne ==
  ASSUME NEW i \in Nat \ {0}
  PROVE  Max({i}) = i
<1>1. {i} \in SUBSET (1..i)
  OBVIOUS
<1>2. QED
  BY <1>1, GreatestNumber

\* A car that one sheet went to is the sheet's, and stays so when it goes there again.
LEMMA MergedOnce ==
  ASSUME NEW row \in Row, NEW batch, IsBatch(batch), NEW i \in DOMAIN batch
  PROVE  /\ Merged(row, batch, {i}).model = batch[i].model
         /\ Merged(Merged(row, batch, {i}), batch, {i}) = Merged(row, batch, {i})
<1> DEFINE sheet == batch[i]
<1>1. sheet \in Sheet /\ sheet.model # None /\ i \in Nat \ {0}
  <2>1. PICK n \in Sizes \cup {1} : batch \in [1..n -> Sheets]
    BY DEF IsBatch
  <2>2. n \in Nat /\ i \in 1..n
    BY <2>1, CatalogueAssumption
  <2>3. QED
    BY <2>2, BatchSheets
<1>2. ASSUME NEW r
      PROVE  Merged(r, batch, {i}) = IF r = NoCar THEN NewCar(sheet) ELSE Copied(r, sheet)
  <2> DEFINE pictures == {k \in {i} : batch[k].img # "left out"}
             img == IF pictures = {} THEN "left out" ELSE batch[Max(pictures)].img
  <2>1. img = sheet.img
    <3>1. CASE sheet.img = "left out"
      BY <3>1
    <3>2. CASE sheet.img # "left out"
      <4>1. pictures = {i}
        BY <3>2
      <4> HIDE DEF pictures
      <4>2. QED
        BY <1>1, <4>1, OnlyOne
    <3>3. QED
      BY <3>1, <3>2
  <2>2. Merged(r, batch, {i})
          = IF r = NoCar THEN NewCar(batch[Max({i})])
                         ELSE Copied(r, [batch[Max({i})] EXCEPT !.img = img])
    BY DEF Merged
  <2> HIDE DEF img
  <2>3. [sheet EXCEPT !.img = img] = sheet
    BY <1>1, <2>1 DEF Sheet
  <2>4. QED
    BY <1>1, <2>2, <2>3, OnlyOne
<1>3. CASE row = NoCar
  <2>1. NewCar(sheet) # NoCar
    BY <1>1 DEF NewCar, NoCar
  <2>2. Copied(NewCar(sheet), sheet) = NewCar(sheet)
    <3> DEFINE new == NewCar(sheet)
    <3>1. /\ new \in Row /\ new.model = sheet.model /\ new.brand = sheet.brand
          /\ new.img <=> sheet.img = "picture"
      BY <1>1, NewType DEF NewCar
    <3> HIDE DEF new
    <3>2. Copied(new, sheet).img = new.img
      BY <1>1, <3>1 DEF Copied, Row
    <3>3. QED
      BY <1>1, <3>1, <3>2 DEF Copied, Row, new
  <2>3. QED
    BY <1>2, <1>3, <2>1, <2>2 DEF NewCar
<1>4. CASE row # NoCar
  <2> DEFINE copy == Copied(row, sheet)
  <2>1. copy # NoCar /\ copy.model = sheet.model
    BY <1>1, CopiedType DEF NoCar
  <2>2. Copied(copy, sheet) = copy
    BY <1>1 DEF Copied, Row, Sheet
  <2> HIDE DEF copy
  <2>3. Merged(row, batch, {i}) = copy
    BY <1>2, <1>4 DEF copy
  <2>4. QED
    BY <1>2, <2>1, <2>2, <2>3
<1>5. QED
  BY <1>3, <1>4

\* The table after such a list: its cars are as the sheets have them, the others as
\* they were, and each model of the list has one car.
Settled(once, batch, at) ==
  /\ once \in [Car -> Row]
  /\ \A i \in DOMAIN batch : once[at[i]] = Merged(car[at[i]], batch, {i})
  /\ \A c \in Car : (\A i \in DOMAIN batch : at[i] # c) => once[c] = car[c]
  /\ \A i \in DOMAIN batch : OfModel(once, batch[i].model) = {at[i]}

LEMMA OnceImported ==
  ASSUME CarInv, NEW batch, IsBatch(batch), Distinct(batch), NEW at \in Places(car, batch)
  PROVE  Settled(Imported(car, batch, at), batch, at)
<1> DEFINE once == Imported(car, batch, at)
           S(c) == {i \in DOMAIN batch : at[i] = c}
<1>1. \A c \in Car : once[c] = IF S(c) = {} THEN car[c] ELSE Merged(car[c], batch, S(c))
  BY DEF Imported
<1>2. ASSUME NEW i \in DOMAIN batch
      PROVE  at[i] \in Car /\ S(at[i]) = {i}
  BY OwnPlaces, PlaceDef
<1>3. \A i \in DOMAIN batch : once[at[i]] = Merged(car[at[i]], batch, {i})
  BY <1>1, <1>2
<1>4. \A c \in Car : (\A i \in DOMAIN batch : at[i] # c) => once[c] = car[c]
  BY <1>1
<1>5. once \in [Car -> Row]
  <2>1. ASSUME NEW c \in Car PROVE once[c] \in Row
    <3>1. car[c] \in Row /\ S(c) \subseteq DOMAIN batch
      BY DEF CarInv
    <3> HIDE DEF S, once
    <3>2. QED
      BY <1>1, <3>1, MergedType
  <2>2. QED
    BY <2>1 DEF Imported
<1> HIDE DEF S, once
<1>6. ASSUME NEW i \in DOMAIN batch
      PROVE  OfModel(once, batch[i].model) = {at[i]}
  <2>1. \A j \in DOMAIN batch : once[at[j]].model = batch[j].model
    <3>1. \A j \in DOMAIN batch : car[at[j]] \in Row
      BY <1>2 DEF CarInv
    <3>2. ASSUME NEW j \in DOMAIN batch PROVE once[at[j]].model = batch[j].model
      <4>1. Merged(car[at[j]], batch, {j}).model = batch[j].model
        BY <3>1, MergedOnce
      <4>2. QED
        BY <1>3, <4>1
    <3>3. QED
      BY <3>2
  <2>2. ASSUME NEW c \in Car, once[c].model = batch[i].model
        PROVE  c = at[i]
    <3>1. CASE \E j \in DOMAIN batch : at[j] = c
      BY <2>1, <2>2, <3>1 DEF Distinct
    <3>2. CASE \A j \in DOMAIN batch : at[j] # c
      <4>1. c \in OfModel(car, batch[i].model)
        BY <1>4, <2>2, <3>2 DEF OfModel
      <4>2. QED
        BY <4>1, PlaceDef
    <3>3. QED
      BY <3>1, <3>2
  <2>3. at[i] \in OfModel(once, batch[i].model)
    BY <1>2, <2>1 DEF OfModel
  <2>4. QED
    BY <2>2, <2>3 DEF OfModel
<1>7. QED
  BY <1>3, <1>4, <1>5, <1>6 DEF Settled, once

\* So there is one place for the list when it comes again, and it changes nothing there.
LEMMA ImportedAgain ==
  ASSUME CarInv, NEW batch, IsBatch(batch), Distinct(batch), NEW at \in Places(car, batch),
         NEW once, once = Imported(car, batch, at)
  PROVE  Places(once, batch) = {at} /\ Imported(once, batch, at) = once
<1> DEFINE S(c) == {i \in DOMAIN batch : at[i] = c}
<1>1. /\ once \in [Car -> Row]
      /\ \A i \in DOMAIN batch : once[at[i]] = Merged(car[at[i]], batch, {i})
      /\ \A i \in DOMAIN batch : OfModel(once, batch[i].model) = {at[i]}
  <2>1. Settled(once, batch, at)
    BY OnceImported
  <2>2. QED
    BY <2>1 DEF Settled
<1>2. Imported(once, batch, at)
        = [c \in Car |-> IF S(c) = {} THEN once[c] ELSE Merged(once[c], batch, S(c))]
  BY DEF Imported
<1>3. \A i \in DOMAIN batch : at[i] \in Car /\ S(at[i]) = {i}
  BY OwnPlaces, PlaceDef
<1>4. at \in [DOMAIN batch -> Car]
  BY DEF Places
<1>5. Places(once, batch) = {at}
  <2>1. at \in Places(once, batch)
    BY <1>1, <1>4 DEF Places, Matches
  <2>2. ASSUME NEW again \in Places(once, batch) PROVE again = at
    <3>1. again \in [DOMAIN batch -> Car]
      BY DEF Places
    <3>2. ASSUME NEW i \in DOMAIN batch PROVE again[i] = at[i]
      <4>1. \/ OfModel(once, batch[i].model) = {again[i]}
            \/ OfModel(once, batch[i].model) = {}
        BY PlaceDef
      <4>2. OfModel(once, batch[i].model) = {at[i]}
        BY <1>1
      <4>3. QED
        BY <4>1, <4>2
    <3>3. QED
      BY <1>4, <3>1, <3>2
  <2>3. QED
    BY <2>1, <2>2
<1>6. ASSUME NEW c \in Car, S(c) # {}
      PROVE  Merged(once[c], batch, S(c)) = once[c]
  <2>1. PICK i \in DOMAIN batch : at[i] = c
    BY <1>6
  <2>2. S(c) = {i} /\ car[c] \in Row
    BY <1>3, <2>1 DEF CarInv
  <2> HIDE DEF S
  <2>3. once[c] = Merged(car[c], batch, {i})
    BY <1>1, <2>1
  <2>4. QED
    BY <2>2, <2>3, MergedOnce
<1> HIDE DEF S
<1>7. Imported(once, batch, at) = once
  BY <1>1, <1>2, <1>6
<1>8. QED
  BY <1>5, <1>7

\* A list that is sent again changes nothing, however many cars it has, what it leaves out
\* and which cars are deleted (CarInfoServiceImpl.addAll; existsByModel and
\* existsByBrand look again before they insert).
THEOREM ResentTheorem == Spec => []ResentChangesNothing
<1>1. CatalogueInv => ResentChangesNothing
  <2> SUFFICES ASSUME CatalogueInv, NEW batch \in Batches,
                      \A i, j \in DOMAIN batch : batch[i].model = batch[j].model => i = j,
                      NEW at \in Places(car, batch)
               PROVE  LET once == Imported(car, batch, at)
                          icon == WithIcons(icons, batch)
                      IN  /\ \A again \in Places(once, batch) :
                               Imported(once, batch, again) = once
                          /\ Places(once, batch) # {}
                          /\ WithIcons(icon, batch) = icon
    BY DEF ResentChangesNothing
  <2>1. CarInv /\ IsBatch(batch) /\ Distinct(batch)
    BY DEF CatalogueInv, CarInv, Batches, IsBatch, Distinct
  <2>2. LET once == Imported(car, batch, at)
        IN  Places(once, batch) = {at} /\ Imported(once, batch, at) = once
    BY <2>1, ImportedAgain
  <2>3. LET icon == WithIcons(icons, batch) IN WithIcons(icon, batch) = icon
    BY DEF WithIcons
  <2>4. QED
    BY <2>2, <2>3
<1>2. QED
  BY <1>1, CatalogueInvariant, PTL

-----------------------------------------------------------------------------
(* The pages of a list, and the client that walks through them. *)

\* The pages that are announced hold the whole list, and none is empty.
LEMMA CeilPages ==
  ASSUME NEW total \in Nat, NEW size \in Nat \ {0}, NEW page \in Nat
  PROVE  /\ TotalPages(total, size) \in Nat
         /\ page < TotalPages(total, size) => page * size < total
         /\ page >= TotalPages(total, size) => total <= page * size
<1> DEFINE pages == (total + size - 1) \div size
<1>1. /\ pages \in Nat
      /\ size * pages >= total
      /\ total > 0 => size * (pages - 1) < total
  OBVIOUS
<1>2. total = 0 => pages = 0
  OBVIOUS
<1>3. pages = TotalPages(total, size)
  BY DEF TotalPages
<1> HIDE DEF pages
<1>4. \A a, b \in Nat : a <= b => a * size <= b * size
  OBVIOUS
<1>5. ASSUME page < pages PROVE page * size < total
  <2>1. pages - 1 \in Nat /\ page <= pages - 1 /\ total > 0
    BY <1>1, <1>2, <1>5
  <2>2. page * size <= (pages - 1) * size
    BY <1>4, <2>1
  <2>3. (pages - 1) * size = size * (pages - 1)
    BY <2>1
  <2>4. page * size \in Nat /\ (pages - 1) * size \in Nat
    BY <2>1
  <2>5. QED
    BY <1>1, <2>1, <2>2, <2>3, <2>4
<1>6. ASSUME page >= pages PROVE total <= page * size
  <2>1. pages * size <= page * size
    BY <1>1, <1>4, <1>6
  <2>2. pages * size = size * pages
    BY <1>1
  <2>3. page * size \in Nat /\ pages * size \in Nat
    BY <1>1
  <2>4. QED
    BY <1>1, <2>1, <2>2, <2>3
<1>7. QED
  BY <1>1, <1>3, <1>5, <1>6

\* The first row of a page is the product itself, while that is an int.
LEMMA FirstRowExact ==
  ASSUME NEW page \in Nat, NEW size \in Nat, page * size <= MAX_VALUE
  PROVE  FirstRow(page + 1, size) = page * size
<1> DEFINE n == page * size
<1>1. n \in Nat /\ ((page + 1) - 1) * size = n
  OBVIOUS
<1> HIDE DEF n
<1>2. ASSUME n <= MAX_VALUE PROVE ToInt(n) = n
  BY <1>1, <1>2, MaxValueAssumption DEF ToInt
<1>3. n <= MAX_VALUE
  BY DEF n
<1>4. QED
  BY <1>1, <1>2, <1>3 DEF FirstRow, n

\* A row has fewer rows before it than there are, and no more in a smaller list.
LEMMA BeforeBounds ==
  ASSUME NEW rows \in SUBSET Car, NEW x
  PROVE  /\ Cardinality(rows) \in 0..MAX_VALUE
         /\ Before(rows, x) \in Nat
         /\ x \in rows => Before(rows, x) < Cardinality(rows)
         /\ \A fewer \in SUBSET rows : Before(fewer, x) <= Before(rows, x)
<1> DEFINE earlier(some) == {y \in some : y < x}
<1>1. IsFiniteSet(rows) /\ Cardinality(rows) <= Cardinality(Car) /\ Cardinality(Car) \in Nat
  BY TableAssumption, FS_Subset, FS_CardinalityType
<1>2. IsFiniteSet(earlier(rows)) /\ Cardinality(earlier(rows)) \in Nat
  BY <1>1, FS_Subset, FS_CardinalityType
<1>3. Cardinality(rows) \in Nat
  BY <1>1, FS_CardinalityType
<1>4. ASSUME x \in rows PROVE Cardinality(earlier(rows)) < Cardinality(rows)
  <2>1. earlier(rows) \in SUBSET rows /\ x \notin earlier(rows)
    BY <1>4, CatalogueAssumption
  <2>2. earlier(rows) # rows
    BY <1>4, <2>1
  <2> HIDE DEF earlier
  <2>3. /\ Cardinality(earlier(rows)) <= Cardinality(rows)
        /\ Cardinality(earlier(rows)) # Cardinality(rows)
    BY <1>1, <2>1, <2>2, FS_Subset
  <2>4. QED
    BY <1>2, <1>3, <2>3
<1>5. ASSUME NEW fewer \in SUBSET rows
      PROVE  Cardinality(earlier(fewer)) <= Cardinality(earlier(rows))
  <2>1. earlier(fewer) \in SUBSET earlier(rows)
    OBVIOUS
  <2> HIDE DEF earlier
  <2>2. QED
    BY <1>2, <2>1, FS_Subset
<1>6. QED
  BY <1>1, <1>2, <1>3, <1>4, <1>5, TableAssumption, MaxValueAssumption DEF Before

LEMMA WalkType ==
  ASSUME walk \in Walk
  PROVE  /\ walk.size \in Nat \ {0} /\ walk.size \in Size
         /\ walk.page \in Nat /\ walk.pages \in Nat
         /\ walk.seen \subseteq Car /\ walk.twice \subseteq Car /\ walk.stayed \subseteq Car
         /\ walk.gained \in BOOLEAN /\ walk.lost \in BOOLEAN
         /\ Read \in Nat
         /\ List \subseteq Car
<1>1. /\ walk.size \in Size /\ walk.page \in Nat /\ walk.pages \in Nat
      /\ walk.seen \subseteq Car /\ walk.twice \subseteq Car /\ walk.stayed \subseteq Car
      /\ walk.gained \in BOOLEAN /\ walk.lost \in BOOLEAN
  BY DEF Walk
<1>2. walk.size \in Nat \ {0}
  <2>1. \A s \in 1..MAX_VALUE : s \in Nat \ {0}
    BY MaxValueAssumption
  <2>2. QED
    BY <1>1, <2>1, SizeAssumption
<1>3. Read \in Nat
  BY <1>1, <1>2 DEF Read
<1>4. List \subseteq Car
  BY DEF List, Shown, Selected, Cars
<1>5. QED
  BY <1>1, <1>2, <1>3, <1>4

\* A walk that has not begun has all of the invariant.
LEMMA FreshWalk ==
  ASSUME walk \in Walk, walk = NewWalk(walk.chain, walk.size)
  PROVE  /\ PagesAreInts /\ SeenTwiceOnlyIfGained /\ SeenAreBehind /\ UnseenAreAhead
         /\ StillListIsAsRead
<1>1. walk.page = 0 /\ walk.seen = {} /\ walk.twice = {} /\ walk.stayed = {}
  BY DEF NewWalk
<1>2. Read = 0
  BY <1>1, WalkType DEF Read
<1>3. QED
  BY <1>1, <1>2, MaxValueAssumption
     DEF PagesAreInts, SeenTwiceOnlyIfGained, SeenAreBehind, UnseenAreAhead, StillListIsAsRead

\* What the client has read is not what is read next, and the last page ends the list.
LEMMA NextPageKeeps ==
  ASSUME ShowroomInv, NextPage
  PROVE  ShowroomInv'
<1> DEFINE rows    == List
           size    == walk.size
           content == OnPage(rows, walk.page + 1, size)
           pages   == TotalPages(Cardinality(rows), size)
<1>1. walk \in Walk /\ ~Over
  <2>1. walk \in Walk
    BY DEF ShowroomInv
  <2>2. QED
    BY <2>1, WalkType DEF NextPage, Over
<1>2. /\ size \in Nat \ {0} /\ walk.page \in Nat /\ walk.pages \in Nat /\ Read \in Nat
      /\ walk.seen \subseteq Car /\ walk.twice \subseteq Car /\ walk.stayed \subseteq Car
      /\ walk.gained \in BOOLEAN /\ walk.lost \in BOOLEAN /\ rows \subseteq Car
  BY <1>1, WalkType
<1>3. content = {c \in rows : Read <= Before(rows, c) /\ Before(rows, c) < Read + size}
  <2>1. FirstRow(walk.page + 1, size) = Read
    BY <1>1, <1>2, FirstRowExact DEF ShowroomInv, PagesAreInts, Read
  <2>2. QED
    BY <2>1 DEF OnPage
<1>4. /\ Cardinality(rows) \in 0..MAX_VALUE
      /\ \A c \in rows : Before(rows, c) \in Nat /\ Before(rows, c) < Cardinality(rows)
  BY <1>2, BeforeBounds
<1>5. walk' = [walk EXCEPT !.page   = walk.page + 1,
                           !.pages  = pages,
                           !.seen   = @ \cup content,
                           !.twice  = @ \cup (walk.seen \cap content),
                           !.stayed = IF walk.page = 0 THEN rows ELSE @]
  <2>1. walk' = [walk EXCEPT !.page   = walk.page + 1,
                             !.pages  = pages,
                             !.seen   = @ \cup content,
                             !.twice  = @ \cup (walk.seen \cap content),
                             !.stayed = IF walk.page + 1 = 1 THEN rows ELSE @]
    BY DEF NextPage, ReadPage, List
  <2>2. walk.page + 1 = 1 <=> walk.page = 0
    BY <1>2
  <2> HIDE DEF rows, size, content, pages
  <2>3. QED
    BY <2>1, <2>2
<1>6. CatalogueInv' /\ rows' = rows
  <2>1. walk'.chain = walk.chain /\ UNCHANGED catalogueVars
    BY <1>1, <1>5 DEF Walk, NextPage
  <2>2. QED
    BY <2>1 DEF ShowroomInv, CatalogueInv, catalogueVars, Cars, List, Shown, Selected
<1>7. pages \in Nat
  BY <1>2, <1>4, CeilPages
<1>8. /\ walk'.page = walk.page + 1 /\ walk'.pages = pages /\ walk'.size = size
      /\ walk'.seen = walk.seen \cup content
      /\ walk'.twice = walk.twice \cup (walk.seen \cap content)
      /\ walk'.stayed = IF walk.page = 0 THEN rows ELSE walk.stayed
      /\ walk'.gained = walk.gained /\ walk'.lost = walk.lost
      /\ walk' \in Walk
  <2>1. content \subseteq Car
    BY <1>2, <1>3
  <2> HIDE DEF rows, size, content, pages
  <2>2. walk'.seen \in SUBSET Car /\ walk'.twice \in SUBSET Car
    BY <1>1, <1>2, <1>5, <2>1 DEF Walk
  <2>3. /\ walk'.page = walk.page + 1 /\ walk'.pages = pages /\ walk'.size = size
        /\ walk'.seen = walk.seen \cup content
        /\ walk'.twice = walk.twice \cup (walk.seen \cap content)
        /\ walk'.stayed = IF walk.page = 0 THEN rows ELSE walk.stayed
        /\ walk'.gained = walk.gained /\ walk'.lost = walk.lost
        /\ walk'.chain = walk.chain
    BY <1>1, <1>5 DEF Walk, size
  <2>4. walk'.stayed \in SUBSET Car
    BY <1>2, <2>3
  <2>5. walk' \in Walk
    <3> DEFINE stayed == IF walk.page = 0 THEN rows ELSE walk.stayed
               seen   == walk.seen \cup content
               twice  == walk.twice \cup (walk.seen \cap content)
    <3>1. /\ walk.page + 1 \in Nat
          /\ stayed \in SUBSET Car /\ seen \in SUBSET Car /\ twice \in SUBSET Car
      BY <1>2, <2>1
    <3>2. walk' = [walk EXCEPT !.page = walk.page + 1, !.pages = pages, !.seen = seen,
                               !.twice = twice, !.stayed = stayed]
      BY <1>1, <1>5 DEF Walk
    <3> HIDE DEF stayed, seen, twice
    <3>3. QED
      BY <1>1, <1>7, <3>1, <3>2 DEF Walk
  <2>6. QED
    BY <2>3, <2>5
<1>9. Read' = Read + size /\ Read' \in Nat
  BY <1>2, <1>8 DEF Read
<1>10. /\ ~Over' => Read' < Cardinality(rows)
       /\ Over' => Cardinality(rows) <= Read'
  <2>1. Over' <=> walk.page + 1 >= pages
    BY <1>2, <1>8 DEF Over
  <2>2. Read' = (walk.page + 1) * size
    BY <1>8 DEF Read
  <2> HIDE DEF rows, size, pages
  <2>3. /\ walk.page + 1 < pages => (walk.page + 1) * size < Cardinality(rows)
        /\ walk.page + 1 >= pages => Cardinality(rows) <= (walk.page + 1) * size
    <3>1. walk.page + 1 \in Nat /\ Cardinality(rows) \in Nat
      BY <1>2, <1>4
    <3>2. QED
      BY <1>2, <3>1, CeilPages DEF pages
  <2>4. QED
    BY <1>2, <1>7, <2>1, <2>2, <2>3
<1> HIDE DEF rows, size, content, pages
<1>11. PagesAreInts'
  BY <1>4, <1>9, <1>10, MaxValueAssumption DEF PagesAreInts
<1>12. SeenTwiceOnlyIfGained'
  <2>1. ~walk.gained => walk.seen \cap content = {}
    BY <1>1, <1>2, <1>3, <1>4 DEF ShowroomInv, SeenAreBehind, rows
  <2>2. QED
    BY <1>8, <2>1 DEF ShowroomInv, SeenTwiceOnlyIfGained
<1>13. SeenAreBehind'
  <2> SUFFICES ASSUME ~walk.gained, NEW c \in (walk.seen \cup content) \cap rows
               PROVE  Before(rows, c) < Read'
    BY <1>6, <1>8 DEF SeenAreBehind, rows
  <2>1. CASE c \in walk.seen
    BY <1>1, <1>2, <1>4, <1>9, <2>1 DEF ShowroomInv, SeenAreBehind, rows
  <2>2. CASE c \in content
    BY <1>3, <1>9, <2>2
  <2>3. QED
    BY <2>1, <2>2
<1>14. UnseenAreAhead'
  <2> SUFFICES ASSUME ~walk.lost, NEW c \in walk'.stayed, c \notin walk.seen, c \notin content
               PROVE  ~Over' /\ c \in rows /\ Read' <= Before(rows, c)
    BY <1>6, <1>8 DEF UnseenAreAhead, rows
  <2>1. c \in rows /\ Read <= Before(rows, c)
    <3>1. CASE walk.page = 0
      <4>1. Read = 0
        BY <1>2, <3>1 DEF Read, size
      <4>2. QED
        BY <1>4, <1>8, <3>1, <4>1
    <3>2. CASE walk.page # 0
      BY <1>8, <3>2 DEF ShowroomInv, UnseenAreAhead, rows
    <3>3. QED
      BY <3>1, <3>2
  <2>2. Read' <= Before(rows, c)
    BY <1>2, <1>3, <1>4, <1>9, <2>1
  <2>3. QED
    BY <1>4, <1>9, <1>10, <2>1, <2>2
<1>15. StillListIsAsRead'
  <2> SUFFICES ASSUME ~walk.gained, ~walk.lost
               PROVE  walk.seen \cup content \subseteq walk'.stayed /\ walk'.stayed = rows
    BY <1>6, <1>8 DEF StillListIsAsRead, rows
  <2>1. content \subseteq rows
    BY <1>3
  <2>2. CASE walk.page = 0
    <3>1. walk.seen = {}
      BY <2>2 DEF ShowroomInv, NewWalk
    <3>2. QED
      BY <1>8, <2>1, <2>2, <3>1
  <2>3. CASE walk.page # 0
    BY <1>1, <1>2, <1>8, <2>1, <2>3 DEF ShowroomInv, StillListIsAsRead, rows
  <2>4. QED
    BY <2>2, <2>3
<1>16. walk'.page # 0
  BY <1>2, <1>8
<1>17. QED
  BY <1>6, <1>8, <1>11, <1>12, <1>13, <1>14, <1>15, <1>16 DEF ShowroomInv

\* A new walk begins where all of the invariant holds.
LEMMA StartKeeps ==
  ASSUME ShowroomInv, NEW chain \in Chains, NEW size \in Size, Start(chain, size)
  PROVE  ShowroomInv'
<1>1. CatalogueInv'
  BY DEF Start, ShowroomInv, CatalogueInv, catalogueVars, Cars
<1>2. walk' = NewWalk(chain, size) /\ walk' \in Walk /\ walk'.page = 0
  BY DEF Start, NewWalk, Walk
<1>3. walk' = NewWalk(walk'.chain, walk'.size)
  BY <1>2 DEF NewWalk
<1>4. /\ PagesAreInts' /\ SeenTwiceOnlyIfGained' /\ SeenAreBehind' /\ UnseenAreAhead'
      /\ StillListIsAsRead'
  <2>1. /\ walk'.seen = {} /\ walk'.twice = {} /\ walk'.stayed = {}
        /\ walk'.size \in Nat
    <3>1. size \in Nat
      BY SizeAssumption, MaxValueAssumption
    <3>2. QED
      BY <1>2, <3>1 DEF NewWalk
  <2>2. Read' = 0
    BY <1>2, <2>1 DEF Read
  <2>3. QED
    BY <1>2, <2>1, <2>2, MaxValueAssumption
       DEF PagesAreInts, SeenTwiceOnlyIfGained, SeenAreBehind, UnseenAreAhead,
           StillListIsAsRead
<1>5. QED
  BY <1>1, <1>2, <1>3, <1>4 DEF ShowroomInv

\* A car that leaves the list moves those after it forward, one that enters it moves
\* them back, and the client notes which of the two happened.
LEMMA RestockKeeps ==
  ASSUME ShowroomInv, Restock
  PROVE  ShowroomInv'
<1>1. CatalogueInv' /\ walk \in Walk
  BY OperationKeeps, IconsKept DEF Restock, ShowroomInv, CatalogueInv, CarInv
<1>2. /\ walk.size \in Nat \ {0} /\ walk.page \in Nat /\ walk.pages \in Nat /\ Read \in Nat
      /\ walk.seen \subseteq Car /\ walk.twice \subseteq Car /\ walk.stayed \subseteq Car
      /\ walk.gained \in BOOLEAN /\ walk.lost \in BOOLEAN /\ List \subseteq Car
  BY <1>1, WalkType
<1>3. CASE walk.page = 0
  <2>1. walk' = walk
    BY <1>3 DEF Restock
  <2>2. /\ walk.seen = {} /\ walk.twice = {} /\ walk.stayed = {}
        /\ walk = NewWalk(walk.chain, walk.size)
    BY <1>3 DEF ShowroomInv, NewWalk
  <2>3. Read' = 0
    BY <1>2, <1>3, <2>1 DEF Read
  <2>4. QED
    BY <1>1, <1>3, <2>1, <2>2, <2>3, MaxValueAssumption
       DEF ShowroomInv, PagesAreInts, SeenTwiceOnlyIfGained, SeenAreBehind, UnseenAreAhead,
           StillListIsAsRead
<1>4. CASE walk.page # 0 /\ Over
  <2>1. walk' = walk
    BY <1>4 DEF Restock
  <2>2. Over'
    BY <1>4, <2>1 DEF Over
  <2>3. ~walk.lost => walk.stayed \ walk.seen = {}
    BY <1>4 DEF ShowroomInv, UnseenAreAhead
  <2>4. PagesAreInts' /\ SeenAreBehind' /\ UnseenAreAhead'
    BY <2>1, <2>2, <2>3 DEF PagesAreInts, SeenAreBehind, UnseenAreAhead
  <2>5. SeenTwiceOnlyIfGained' /\ StillListIsAsRead'
    BY <2>1, <2>2 DEF ShowroomInv, SeenTwiceOnlyIfGained, StillListIsAsRead
  <2>6. QED
    BY <1>1, <1>4, <2>1, <2>4, <2>5 DEF ShowroomInv
<1>5. CASE walk.page # 0 /\ ~Over
  <2> DEFINE before == List
             after  == Shown(car', walk.chain)
  <2>1. walk' = [walk EXCEPT !.stayed = @ \cap after,
                             !.gained = @ \/ after \ before # {},
                             !.lost   = @ \/ before \ after # {}]
    BY <1>5 DEF Restock, List
  <2>2. after \subseteq Car
    BY DEF Shown, Selected, Cars
  <2> HIDE DEF before, after
  <2>3. /\ walk'.page = walk.page /\ walk'.pages = walk.pages /\ walk'.size = walk.size
        /\ walk'.chain = walk.chain
        /\ walk'.seen = walk.seen /\ walk'.twice = walk.twice
        /\ walk'.stayed = walk.stayed \cap after
        /\ ~walk'.gained => ~walk.gained /\ after \subseteq before
        /\ ~walk'.lost => ~walk.lost /\ before \subseteq after
    BY <1>1, <2>1 DEF Walk
  <2>4. walk' \in Walk
    <3> DEFINE stayed == walk.stayed \cap after
               gained == walk.gained \/ after \ before # {}
               lost   == walk.lost \/ before \ after # {}
    <3>1. stayed \in SUBSET Car /\ gained \in BOOLEAN /\ lost \in BOOLEAN
      BY <1>2
    <3>2. walk' = [walk EXCEPT !.stayed = stayed, !.gained = gained, !.lost = lost]
      BY <2>1
    <3> HIDE DEF stayed, gained, lost
    <3>3. QED
      BY <1>1, <3>1, <3>2 DEF Walk
  <2>5. List' = after /\ Read' = Read /\ ~Over'
    BY <1>5, <2>3 DEF List, Read, Over, after
  <2>6. \A c \in Car : /\ Before(before, c) \in Nat /\ Before(after, c) \in Nat
                       /\ after \subseteq before => Before(after, c) <= Before(before, c)
                       /\ before \subseteq after => Before(before, c) <= Before(after, c)
    <3>1. before \subseteq Car
      BY <1>2 DEF before
    <3>2. QED
      BY <2>2, <3>1, BeforeBounds
  <2>7. PagesAreInts' /\ SeenTwiceOnlyIfGained'
    BY <1>5, <2>3, <2>5 DEF ShowroomInv, PagesAreInts, SeenTwiceOnlyIfGained
  <2>8. SeenAreBehind'
    <3> SUFFICES ASSUME ~walk'.gained, NEW c \in walk.seen \cap after
                 PROVE  Before(after, c) < Read
      BY <2>3, <2>5 DEF SeenAreBehind
    <3>1. c \in Car /\ c \in walk.seen \cap before /\ Before(after, c) <= Before(before, c)
      BY <2>2, <2>3, <2>6
    <3>2. Before(before, c) < Read
      BY <1>5, <2>3, <3>1 DEF ShowroomInv, SeenAreBehind, before
    <3>3. QED
      BY <1>2, <2>6, <3>1, <3>2
  <2>9. UnseenAreAhead'
    <3> SUFFICES ASSUME ~walk'.lost, NEW c \in (walk.stayed \cap after) \ walk.seen
                 PROVE  Read <= Before(after, c)
      BY <2>3, <2>5 DEF UnseenAreAhead
    <3>1. c \in Car /\ Read <= Before(before, c)
      BY <1>2, <2>3 DEF ShowroomInv, UnseenAreAhead, before
    <3>2. Before(before, c) <= Before(after, c)
      BY <2>3, <2>6, <3>1
    <3>3. QED
      BY <1>2, <2>6, <3>1, <3>2
  <2>10. StillListIsAsRead'
    <3> SUFFICES ASSUME ~walk'.gained, ~walk'.lost
                 PROVE  walk.seen \subseteq walk.stayed \cap after /\ walk.stayed \cap after = after
      BY <2>3, <2>5 DEF StillListIsAsRead
    <3>1. after = before
      BY <2>3
    <3>2. walk.seen \subseteq walk.stayed /\ walk.stayed = before
      BY <1>2, <1>5, <2>3 DEF ShowroomInv, StillListIsAsRead, before
    <3>3. QED
      BY <3>1, <3>2
  <2>11. QED
    BY <1>1, <1>5, <2>3, <2>4, <2>7, <2>8, <2>9, <2>10 DEF ShowroomInv
<1>6. QED
  BY <1>3, <1>4, <1>5

\* Where the client stands between the pages it has read and those to come, whatever
\* the staff does meanwhile (PaginatorFactory.getResult counts rows; it keeps no
\* place in the list from one request to the next).
THEOREM ShowroomInvariant == Spec => []ShowroomInv
<1>1. Init => ShowroomInv
  <2> SUFFICES ASSUME Init PROVE ShowroomInv
    OBVIOUS
  <2>1. CatalogueInv
    BY InitKeeps DEF Init
  <2>2. walk \in Walk /\ walk = NewWalk(walk.chain, walk.size)
    <3>1. PICK chain \in Chains, size \in Size : walk = NewWalk(chain, size)
      BY DEF Init
    <3>2. walk \in Walk
      BY <3>1 DEF NewWalk, Walk
    <3>3. walk.chain = chain /\ walk.size = size
      BY <3>1 DEF NewWalk
    <3>4. QED
      BY <3>1, <3>2, <3>3
  <2>3. QED
    BY <2>1, <2>2, FreshWalk DEF ShowroomInv
<1>2. ShowroomInv /\ [Next]_vars => ShowroomInv'
  <2> SUFFICES ASSUME ShowroomInv, [Next]_vars PROVE ShowroomInv'
    OBVIOUS
  <2>1. CASE UNCHANGED vars
    BY <2>1 DEF vars, ShowroomInv, CatalogueInv, Cars, PagesAreInts, SeenTwiceOnlyIfGained,
                SeenAreBehind, UnseenAreAhead, StillListIsAsRead, Over, Read, List, Shown,
                Selected
  <2>2. QED
    BY <2>1, NextPageKeeps, StartKeeps, RestockKeeps DEF Next
<1>3. QED
  BY <1>1, <1>2, PTL DEF Spec

\* A client reads a car twice only if its list gained one meanwhile: pages are cut by
\* position, and what leaves the list moves the rest to earlier pages only.
THEOREM SeenTwiceTheorem == Spec => []SeenTwiceOnlyIfGained
<1>1. ShowroomInv => SeenTwiceOnlyIfGained
  BY DEF ShowroomInv
<1>2. QED
  BY <1>1, ShowroomInvariant, PTL

\* A client that reached the last page has read every car that was in its list all
\* along, unless the list lost one meanwhile.
THEOREM MissedTheorem == Spec => []MissedOnlyIfLost
<1>1. ShowroomInv => MissedOnlyIfLost
  BY DEF ShowroomInv, UnseenAreAhead, MissedOnlyIfLost
<1>2. QED
  BY <1>1, ShowroomInvariant, PTL

\* A list that neither gains nor loses a car is read as it is: each car of it on one
\* page, and nothing else.
ReadAsItIs ==
  Over /\ ~walk.gained /\ ~walk.lost => walk.seen = walk.stayed /\ walk.twice = {}

\* However cars change meanwhile, if none enters or leaves the list then the pages
\* are the list of page 1, cut into pieces (PaginatorFactory.getResult).
THEOREM ReadAsItIsTheorem == Spec => []ReadAsItIs
<1>1. ShowroomInv => ReadAsItIs
  BY DEF ShowroomInv, SeenTwiceOnlyIfGained, UnseenAreAhead, StillListIsAsRead, Over, Walk,
         ReadAsItIs
<1>2. QED
  BY <1>1, ShowroomInvariant, PTL

=============================================================================
