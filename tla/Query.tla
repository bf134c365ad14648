-------------------------------- MODULE Query --------------------------------
(***************************************************************************)
(* The pure part of the GraphQL queries: which rows a chain of filters     *)
(* selects, and which of them are on a page.                               *)
(*                                                                         *)
(* A filter is [key, value, combinator], a chain a sequence of filters.    *)
(* A filter without a combinator, or with one that getPredicate does not   *)
(* know (NOT), ends the chain.  The only operator modelled is equality.    *)
(***************************************************************************)
EXTENDS Sequences, FiniteSetsExt

CONSTANT MAX_VALUE   \* the greatest int: 2^31 - 1

ASSUME MaxValueAssumption == MAX_VALUE \in Nat \ {0}

\* Two's complement: what an int makes of n.
ToInt(n) == LET half == MAX_VALUE + 1 IN ((n + half) % (2 * half)) - half

Matched(filter, row) == row[filter.key] = filter.value

\* The combinator joins filter i to all that follow it.
Joined(chain, i, combinator) == i < Len(chain) /\ chain[i].combinator = combinator

\* getPredicate: whether a row has what the filters of a chain ask for, from each on.
Predicate(chain, row) ==
  LET holds[i \in 1..Len(chain)] ==
        \/ Matched(chain[i], row) /\ (Joined(chain, i, "AND") => holds[i + 1])
        \/ Joined(chain, i, "OR") /\ holds[i + 1]
  IN  holds

\* Without a filter every row is selected.
Selects(chain, row) == chain = <<>> \/ Predicate(chain, row)[1]

\* isDisabledEntityAllowed and isOnlyDisabledEntityAllowed.
AsksFor(chain, combinator) ==
  chain # <<>> /\ chain[1] = [key |-> "disabled", value |-> TRUE, combinator |-> combinator]

NotDisabled == [key |-> "disabled", value |-> FALSE, combinator |-> "AND"]

\* Mutant of Extracted: the condition comes after the client's, as merge adds one.
ExtractedLast(chain) ==
  IF AsksFor(chain, "OR") THEN Tail(chain)
  ELSE IF AsksFor(chain, "AND") THEN chain
  ELSE chain \o <<NotDisabled>>

\* extractQueryFilter: deleted rows are left out unless the first filter asks for
\* them too, or for nothing but them.
Extracted(chain) ==
  IF AsksFor(chain, "OR") THEN Tail(chain)
  ELSE IF AsksFor(chain, "AND") THEN chain
  ELSE <<NotDisabled>> \o chain

\* The rows of a table, a function to rows, that a query with the chain selects.
Selected(table, rows, chain) == {x \in rows : Selects(Extracted(chain), table[x])}

-----------------------------------------------------------------------------

\* Mutant of TotalPages: the last, incomplete page is not announced.
TotalPagesDown(total, size) == total \div size

\* totalPages: the ceiling of a division in double precision, which is exact for
\* as many rows as there may be.
TotalPages(total, size) == (total + size - 1) \div size

\* setFirstResult, an int.
FirstRow(page, size) == ToInt((page - 1) * size)

\* How many of the rows are listed before row x.
Before(rows, x) == Cardinality({y \in rows : y < x})

\* Mutant of OnPage: one row more than a page has.
OnPageAndNext(rows, page, size) ==
  {x \in rows : /\ FirstRow(page, size) <= Before(rows, x)
                /\ Before(rows, x) <= FirstRow(page, size) + size}

\* The rows of a page, of rows that are listed in the order of their numbers.
OnPage(rows, page, size) ==
  {x \in rows : /\ FirstRow(page, size) <= Before(rows, x)
                /\ Before(rows, x) < FirstRow(page, size) + size}
=============================================================================
