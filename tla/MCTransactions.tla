--------------------------- MODULE MCTransactions ---------------------------
(* Small instances of Transactions for TLC. *)
EXTENDS Transactions, TLC

CONSTANTS r1, r2, c1, c2, MaxRecorded

Symmetry == Permutations(Request) \cup Permutations(Customer)

\* What customers spend: the interface takes a negative amount as well.
Spent == {1, -2}

Recorded(c) == ledger[c].credit + ledger[c].debit + ledger[c].refund

\* At most so many points in the records of both customers together.
BoundedRecords == Recorded(c1) + Recorded(c2) <= MaxRecorded

\* Consults that an administrator invited to are left as they are: finish, the
\* one operation that looks at the inviter, refuses them.
CustomersInvite == \A k \in Consult : consult[k].invitedId \notin Admin
=============================================================================
