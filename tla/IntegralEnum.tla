---------------------------- MODULE IntegralEnum ----------------------------
(* The point values of IntegralEnum, and the int they are counted in.       *)
EXTENDS Integers

CONSTANTS
  REGISTER,        \* points for registering, and for inviting who registers
  FINISH_CONSULT,  \* points for inviting the customer of a finished consult
  UPPER_LIMIT,     \* no balance is raised above it
  MAX_INT,         \* Integer.MAX_VALUE
  Amount           \* the amounts customers spend: an API parameter of any sign

\* The values of Java's int.
Int32 == (-MAX_INT - 1) .. MAX_INT

ASSUME PointsAssumption ==
  /\ REGISTER \in Nat
  /\ FINISH_CONSULT \in Nat
  /\ UPPER_LIMIT \in Nat
  /\ MAX_INT \in Nat
  /\ UPPER_LIMIT + REGISTER <= MAX_INT
  /\ UPPER_LIMIT + FINISH_CONSULT <= MAX_INT
  /\ Amount \subseteq Int32

\* The int a sum or difference of two ints comes out as.
ToInt32(x) ==
  IF x > MAX_INT THEN x - 2 * (MAX_INT + 1)
                 ELSE IF x \in Int32 THEN x ELSE x + 2 * (MAX_INT + 1)
=============================================================================
