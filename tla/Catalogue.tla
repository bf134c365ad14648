------------------------------ MODULE Catalogue ------------------------------
(***************************************************************************)
(* The cars on sale: CarInfoServiceImpl and the icons of brands that an    *)
(* import creates.  A car is found by its model when it is sent again: the *)
(* model is meant to be unique, which the code looks after by hand.  What  *)
(* is sent may leave a property out (null), and then the car keeps it.     *)
(*                                                                         *)
(* Each operation is one transaction.  Prices, files, weights and financial *)
(* schemes decide nothing here; of the picture only counts whether there   *)
(* is one.  A new car is sent without an id, neither disabled nor on the  *)
(* shelf.                                                                  *)
(***************************************************************************)
EXTENDS Sequences, FiniteSetsExt

CONSTANTS
  Car,      \* the cars there may ever be, numbered as a query lists them
  Model, Brand,
  Sheets,   \* the cars as they are sent
  Sizes,    \* how many cars a list that is imported may have
  None      \* a property that is not sent, or a car not inserted

VARIABLES
  car,      \* car[c]: the row of car c
  icons     \* icons[b]: how many icon rows brand b has

catalogueVars == <<car, icons>>

-----------------------------------------------------------------------------

Row == [model      : Model \cup {None},
        brand      : Brand \cup {None},
        img        : BOOLEAN,
        upperShelf : BOOLEAN,
        disabled   : BOOLEAN]

NoCar == [model |-> None, brand |-> None, img |-> FALSE, upperShelf |-> FALSE,
          disabled |-> FALSE]

\* A car as it is sent: its img is empty, a picture or left out.
Sheet == [model : Model, brand : Brand, img : {"empty", "picture", "left out"}]

ASSUME CatalogueAssumption ==
  /\ Car \subseteq Nat
  /\ Sheets \subseteq Sheet
  /\ Sizes \subseteq Nat \ {0}
  /\ None \notin Model \cup Brand

\* The cars of a table, and those of one model.
Cars(table) == {c \in Car : table[c].model # None}
OfModel(table, m) == {c \in Car : table[c].model = m}

\* A list of sheets is a batch.
Batches == UNION {[1..n -> Sheets] : n \in Sizes}

\* Mutants of Matches: existsByModel overlooks the cars that are not on the shelf, or
\* those deleted.
MatchesShown(table, m) == {c \in OfModel(table, m) : table[c].upperShelf}
MatchesLive(table, m) == {c \in OfModel(table, m) : ~table[c].disabled}

\* existsByModel and findByModel: deleted cars count.
Matches(table, m) == OfModel(table, m)

\* Where the cars of a batch go: over the one car of the model, or, if the table
\* had none when the import looked, to a row of their own.  findByModel throws when
\* it finds several, and then there is no place.
Places(table, batch) ==
  {at \in [DOMAIN batch -> Car] : \A i \in DOMAIN batch :
     \/ Matches(table, batch[i].model) = {at[i]}
     \/ /\ Matches(table, batch[i].model) = {}
        /\ table[at[i]] = NoCar
        /\ \A j \in DOMAIN batch \ {i} : at[j] # at[i]}

\* copyProperties, without upperShelf, what is left out and what BeanCopyUtil
\* always ignores, disabled among them.
Copied(row, sheet) ==
  [row EXCEPT !.model = sheet.model, !.brand = sheet.brand,
              !.img = IF sheet.img = "left out" THEN @ ELSE sheet.img = "picture"]

NewCar(sheet) ==
  [model |-> sheet.model, brand |-> sheet.brand, img |-> sheet.img = "picture",
   upperShelf |-> FALSE, disabled |-> FALSE]

\* The row of a car after the sheets i \in S of a batch went to it: of two for one
\* car the later wins, property by property.
Merged(row, batch, S) ==
  LET latest   == batch[Max(S)]
      pictures == {i \in S : batch[i].img # "left out"}
      img      == IF pictures = {} THEN "left out" ELSE batch[Max(pictures)].img
  IN  IF row = NoCar THEN NewCar(latest) ELSE Copied(row, [latest EXCEPT !.img = img])

\* The table after a batch went to its places.
Imported(table, batch, at) ==
  [c \in Car |->
     LET S == {i \in DOMAIN batch : at[i] = c}
     IN  IF S = {} THEN table[c] ELSE Merged(table[c], batch, S)]

\* Mutant of WithIcons: every brand of the batch gets an icon.
WithIconsAgain(old, batch) ==
  [b \in Brand |-> old[b] + IF \E i \in DOMAIN batch : batch[i].brand = b THEN 1 ELSE 0]

\* The icons after an import: one for each brand of the batch that had none.
WithIcons(old, batch) ==
  [b \in Brand |->
     IF old[b] = 0 /\ \E i \in DOMAIN batch : batch[i].brand = b THEN 1 ELSE old[b]]

-----------------------------------------------------------------------------

\* add.
Add(sheet) ==
  /\ \E at \in Places(car, <<sheet>>) : car' = Imported(car, <<sheet>>, at)
  /\ UNCHANGED icons

\* addAll.
AddAll(batch) ==
  /\ \E at \in Places(car, batch) : car' = Imported(car, batch, at)
  /\ icons' = WithIcons(icons, batch)

\* modify: any property of the car, its model too, which is not looked up.
ModifyCar(c, sheet) ==
  /\ c \in Cars(car)
  /\ car' = [car EXCEPT ![c] = Copied(car[c], sheet)]
  /\ UNCHANGED icons

\* delete takes the car off the shelf.
DeleteCar(c) ==
  /\ c \in Cars(car)
  /\ car' = [car EXCEPT ![c] = [car[c] EXCEPT !.disabled = TRUE, !.upperShelf = FALSE]]
  /\ UNCHANGED icons

\* upperDownShelf, of a deleted car too: down, or up if there is a picture (the
\* financial schemes of a stored car are never null).
UpperDownShelf(c) ==
  /\ c \in Cars(car)
  /\ car[c].upperShelf \/ car[c].img
  /\ car' = [car EXCEPT ![c] = [car[c] EXCEPT !.upperShelf = ~car[c].upperShelf]]
  /\ UNCHANGED icons

CatalogueInit ==
  /\ car = [c \in Car |-> NoCar]
  /\ icons = [b \in Brand |-> 0]

CatalogueNext ==
  \/ \E sheet \in Sheets : Add(sheet)
  \/ \E batch \in Batches : AddAll(batch)
  \/ \E c \in Car, sheet \in Sheets : ModifyCar(c, sheet)
  \/ \E c \in Car : DeleteCar(c) \/ UpperDownShelf(c)

-----------------------------------------------------------------------------

\* No import gives a brand a second icon (CarBrandIconServiceImpl.existsByBrand).
CatalogueInv ==
  /\ car \in [Car -> Row]
  /\ \A c \in Car \ Cars(car) : car[c] = NoCar
  /\ icons \in [Brand -> 0..1]

\* A batch that is sent again, its first answer having been lost, changes nothing,
\* neither cars nor icons, unless it names a model twice or some model of it has
\* several cars already (CarInfoServiceImpl.addAll, existsByModel, existsByBrand).
ResentChangesNothing ==
  \A batch \in Batches :
    (\A i, j \in DOMAIN batch : batch[i].model = batch[j].model => i = j) =>
      \A at \in Places(car, batch) :
        LET once == Imported(car, batch, at)
            icon == WithIcons(icons, batch)
        IN  /\ \A again \in Places(once, batch) : Imported(once, batch, again) = once
            /\ Places(once, batch) # {}
            /\ WithIcons(icon, batch) = icon

\* A model with a car gets a second one only when another car is renamed to it, by
\* modify: add and addAll, however often repeated, go to the car that is there.
SecondCarIsRenamed ==
  \A m \in Model :
    OfModel(car, m) # {} =>
      \A c \in OfModel(car', m) \ OfModel(car, m) : c \in Cars(car)

SecondCarOnlyByRename == [][SecondCarIsRenamed]_catalogueVars

\* "覆盖后重新启用" (CarInfoServiceImpl:74): a car that is sent again is enabled
\* again; addAll clears the flag of what is sent, which BeanCopyUtil never copies.
ResentIsEnabled ==
  \A batch \in Batches :
    \A at \in Places(car, batch) :
      \A i \in DOMAIN batch : ~Imported(car, batch, at)[at[i]].disabled

\* What the operations do instead: none of them enables a deleted car.
DeletedStays ==
  \A c \in Car : car[c].disabled => car'[c].disabled
=============================================================================
