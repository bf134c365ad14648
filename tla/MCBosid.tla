------------------------------- MODULE MCBosid -------------------------------
(* A small instance of Bosid for TLC. *)
EXTENDS Bosid, TLC

CONSTANTS r1, r2, r3, c1, c2

\* The annotations C01 and C02, and so on.
MCBostype == c1 :> "01" @@ c2 :> "02"

\* A uuid that begins with a digit, one with '-', and two of neither.
MCUuid == {<<0, 15, 0, 0, 1>>, <<15, 0, 0, 2, 15>>, <<3, 8, 2, 4, 9>>,
           <<9, 7, 15, 13, 6>>}

Symmetry == Permutations({r1, r2, r3})
=============================================================================
