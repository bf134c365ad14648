----------------------------- MODULE MCCarMall -----------------------------
(* Small instances of CarMall for TLC. *)
EXTENDS CarMall, FiniteSets, Functions, TLC

CONSTANTS s1, s2, m1, w1, w2, n0, n1, n2, n3, c1, c2, k1, k2, MaxRecorded

\* The recorded sums grow for ever: those of all customers together are bounded.
BoundedRecords ==
  FoldFunction(LAMBDA l, sum : l.credit + l.debit + l.refund + sum, 0, ledger)
    <= MaxRecorded

\* A point is spent, or two are given back by a negative amount.
Spent == {1, -2}

\* At most two people of the staff, or two copies of one, at work at a time.
FewSessions == Cardinality(session) <= 2

\* What follows once a client sent the binding of a store is left to Accounts.
NothingIsSent == sent = {}

\* Nothing tells the customers of a branch apart.
Symmetry == Permutations(Customer)

-----------------------------------------------------------------------------
(* A branch at work: store s1 with its administrator m1 and its salespeople  *)
(* w1 and w2, all in session, and a second store.  A reachable state of the  *)
(* staff, and every operation from there on customers and consults, but for  *)
(* the two that only hide a row from queries.                                *)

Staff(role, s, name) ==
  [role |-> role, store |-> s, username |-> name, disabled |-> FALSE]

BranchAdmin ==
  [a \in Admin |-> CASE a = Root -> Staff("super", None, n0)
                     [] a = m1   -> Staff("store", s1, n1)
                     [] a = w1   -> Staff("sales", s1, n2)
                     [] a = w2   -> Staff("sales", s1, n3)]

BranchInit ==
  /\ store = [s \in Store |-> "open"]
  /\ storeAdminId = [s \in Store |-> IF s = s1 THEN m1 ELSE None]
  /\ admin = BranchAdmin
  /\ session = {[id |-> a, row |-> BranchAdmin[a]] : a \in Admin}
  /\ sent = {}
  /\ Pts!Init
  /\ customer = [c \in Customer |-> NoCustomer]
  /\ consult = [k \in Consult |-> NoConsult]
  /\ bonus = [k \in Consult |-> 0]

BranchNext == CustomerNext \/ StoreNext \/ SalesNext

BranchSpec == BranchInit /\ [][BranchNext]_vars
=============================================================================
