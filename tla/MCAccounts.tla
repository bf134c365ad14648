----------------------------- MODULE MCAccounts -----------------------------
(* Small instances of Accounts for TLC. *)
EXTENDS Accounts, TLC

CONSTANTS s1, s2, a1, a2, n0, n1, n2

MCStore == {s1, s2}
MCAdmin == {Root, a1, a2}
MCUsername == {n0, n1, n2}

\* Root and its name are fixed; the other ids and names are interchangeable.
Symmetry ==
  Permutations({s1, s2}) \cup Permutations({a1, a2}) \cup Permutations({n1, n2})

\* A binding changes only together with an account: no client sends one.
NoBindingIsSent == storeAdminId' # storeAdminId => admin' # admin
=============================================================================
