------------------------------ MODULE Showroom ------------------------------
(***************************************************************************)
(* The catalogue as a client sees it: page after page of the cars that a   *)
(* query selects, each page a request of its own, while the staff goes on  *)
(* adding, changing and deleting cars.  The client begins at page 1 and    *)
(* stops at the number of pages that the last answer announced.            *)
(***************************************************************************)
EXTENDS Catalogue, Query

CONSTANTS
  Chains,   \* the chains of filters clients send
  Size      \* the page sizes clients ask for

ASSUME SizeAssumption == Size \subseteq 1..MAX_VALUE

ASSUME ChainsAssumption ==
  \A chain \in Chains : chain \in Seq({chain[i] : i \in DOMAIN chain})

\* All the cars there may ever be can be counted by an int.
ASSUME TableAssumption == IsFiniteSet(Car) /\ Cardinality(Car) <= MAX_VALUE

VARIABLE walk   \* the client's walk through the pages

vars == <<car, icons, walk>>

\* page is 0 before the first answer; pages is what the last one announced, seen are
\* the cars of all so far and twice those of more than one.  Of the time since page 1
\* was read: stayed are the cars selected all along, gained and lost whether some
\* became or ceased to be.
Walk == [chain  : Chains,
         size   : Size,
         page   : Nat,
         pages  : Nat,
         seen   : SUBSET Car,
         twice  : SUBSET Car,
         stayed : SUBSET Car,
         gained : BOOLEAN,
         lost   : BOOLEAN]

\* A new walk's chain and size.
NewWalk(chain, size) ==
  [chain |-> chain, size |-> size, page |-> 0, pages |-> 0, seen |-> {}, twice |-> {},
   stayed |-> {}, gained |-> FALSE, lost |-> FALSE]

\* The cars the chain selects.
Shown(table, chain) == Selected(table, Cars(table), chain)

\* getResult: the number of pages and the content are read in one transaction.
ReadPage(page) ==
  LET rows    == Shown(car, walk.chain)
      content == OnPage(rows, page, walk.size)
  IN  walk' = [walk EXCEPT
        !.page   = page,
        !.pages  = TotalPages(Cardinality(rows), walk.size),
        !.seen   = @ \cup content,
        !.twice  = @ \cup (walk.seen \cap content),
        !.stayed = IF page = 1 THEN rows ELSE @]

NextPage ==
  /\ walk.page = 0 \/ walk.page < walk.pages
  /\ ReadPage(walk.page + 1)
  /\ UNCHANGED catalogueVars

\* The client has read the last page there was.
Over == walk.page > 0 /\ walk.page >= walk.pages

\* Another walk begins.
Start(chain, size) ==
  /\ Over
  /\ walk' = NewWalk(chain, size)
  /\ UNCHANGED catalogueVars

\* The staff changes the catalogue; what the client has read is as it was.
Restock ==
  /\ CatalogueNext
  /\ LET before == Shown(car, walk.chain)
         after  == Shown(car', walk.chain)
     IN  walk' = IF walk.page = 0 \/ Over THEN walk
                 ELSE [walk EXCEPT !.stayed = @ \cap after,
                                   !.gained = @ \/ after \ before # {},
                                   !.lost   = @ \/ before \ after # {}]

Init ==
  /\ CatalogueInit
  /\ walk \in {NewWalk(chain, size) : chain \in Chains, size \in Size}

Next ==
  \/ NextPage
  \/ \E chain \in Chains, size \in Size : Start(chain, size)
  \/ Restock

Spec == Init /\ [][Next]_vars

-----------------------------------------------------------------------------

\* A client sees a car twice only if some car came into its list while it walked:
\* what leaves the list, or changes in it, never moves a car to a later page.
SeenTwiceOnlyIfGained == walk.twice # {} => walk.gained

\* A client that reached the last page missed a car that was in its list all along
\* only if some car left the list meanwhile and pulled it to a page already read.
MissedOnlyIfLost == Over /\ ~walk.lost => walk.stayed \subseteq walk.seen

\* No query shows a deleted car unless its first filter asks for them, however its
\* filters are combined (CollectionJpaDataFetcher.extractQueryFilter: a car that is
\* deleted may well be on the shelf, CarInfoServiceImpl.upperDownShelf).
DeletedAreHidden ==
  \A chain \in Chains :
    ~AsksFor(chain, "OR") /\ ~AsksFor(chain, "AND") =>
      \A c \in Shown(car, chain) : ~car[c].disabled

-----------------------------------------------------------------------------
(* What makes these inductive. *)

\* The client's list, and the rows of it that the pages read so far would have.
List == Shown(car, walk.chain)
Read == walk.page * walk.size

\* A client that goes on does not leave the range of an int.
PagesAreInts == ~Over => Read <= MAX_VALUE

\* Unless the list gained a car, what was seen of it is on the pages that were read.
SeenAreBehind ==
  ~walk.gained /\ ~Over => \A c \in walk.seen \cap List : Before(List, c) < Read

\* Unless it lost one, what stayed and was not seen is on the pages to come.
UnseenAreAhead ==
  ~walk.lost =>
    \A c \in walk.stayed \ walk.seen : ~Over /\ c \in List /\ Read <= Before(List, c)

\* If it did neither, it is what it was when page 1 was read, and nothing else was seen.
StillListIsAsRead ==
  walk.page > 0 /\ ~walk.gained /\ ~walk.lost =>
    /\ walk.seen \subseteq walk.stayed
    /\ ~Over => walk.stayed = List

ShowroomInv ==
  /\ CatalogueInv
  /\ walk \in Walk
  /\ walk.page = 0 => walk = NewWalk(walk.chain, walk.size)
  /\ PagesAreInts
  /\ SeenTwiceOnlyIfGained
  /\ SeenAreBehind
  /\ UnseenAreAhead
  /\ StillListIsAsRead
=============================================================================
