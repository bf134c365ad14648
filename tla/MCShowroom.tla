----------------------------- MODULE MCShowroom -----------------------------
(* A small instance of Showroom for TLC. *)
EXTENDS Showroom

Filter(key, value, combinator) == [key |-> key, value |-> value, combinator |-> combinator]

\* The cars of a model or on the shelf; and the deleted ones on the shelf.
MCChains ==
  {<<Filter("model", "m1", "OR"), Filter("upperShelf", TRUE, "none")>>,
   <<Filter("disabled", TRUE, "AND"), Filter("upperShelf", TRUE, "none")>>}

\* Two models of one brand.
Sent(model, img) == [model |-> model, brand |-> "b1", img |-> img]
MCSheets == {Sent("m1", "picture"), Sent("m1", "left out"), Sent("m2", "empty")}
=============================================================================
