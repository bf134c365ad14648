--------------------------- MODULE MCVerification ---------------------------
(* A small instance of Verification for TLC. *)
EXTENDS Verification
=============================================================================
