--------------------------- MODULE IntegralProofs ---------------------------
(* Proofs about Integral, for any customers, point values and limit.       *)
EXTENDS Integral, TLAPS

USE PointsAssumption

\* The sum of two ints comes out as an int, and never as more than the sum unless
\* that is below every int.
LEMMA ToInt32Bounds ==
  ASSUME NEW x \in (-2 * (MAX_INT + 1)) .. (2 * MAX_INT + 1)
  PROVE  /\ ToInt32(x) \in Int32
         /\ x >= -MAX_INT - 1 => ToInt32(x) <= x
         /\ x \in Int32 => ToInt32(x) = x
BY DEF ToInt32, Int32

\* modifyIntegral keeps an int an int and adds at most n points; a balance within
\* the limit it keeps there and never lowers, and one up to the limit it never
\* lowers either.
LEMMA RaisedBounds ==
  ASSUME NEW balance \in Int32, NEW n \in Nat, UPPER_LIMIT + n <= MAX_INT
  PROVE  /\ Raised(balance, n) \in Int32
         /\ Raised(balance, n) <= balance + n
         /\ balance \in 0..UPPER_LIMIT => Raised(balance, n) \in 0..UPPER_LIMIT
         /\ balance <= UPPER_LIMIT => Raised(balance, n) >= balance
<1> DEFINE sum == ToInt32(balance + n)
<1>1. /\ sum \in Int32 /\ sum <= balance + n
      /\ balance <= UPPER_LIMIT => sum = balance + n
  BY ToInt32Bounds DEF Int32
<1>2. Raised(balance, n) = IF sum > UPPER_LIMIT THEN UPPER_LIMIT ELSE sum
  BY DEF Raised
<1> HIDE DEF sum
<1>3. QED
  BY <1>1, <1>2 DEF Int32

\* Spending an amount up to the balance leaves an int, which is at most the
\* difference, and is the difference of a balance that is not negative and an
\* amount that is not, either.
LEMMA SpentBounds ==
  ASSUME NEW balance \in Int32, NEW n \in Int32, balance >= n
  PROVE  /\ ToInt32(balance - n) \in Int32
         /\ ToInt32(balance - n) <= balance - n
         /\ n >= 0 => ToInt32(balance - n) = balance - n
BY ToInt32Bounds DEF Int32

\* Of n and -n at most one is positive.
LEMMA PositiveSign ==
  ASSUME NEW n \in Int
  PROVE  /\ Positive(n) \in Nat /\ Positive(-n) \in Nat
         /\ n = Positive(n) - Positive(-n)
         /\ n >= 0 <=> Positive(-n) = 0
BY DEF Positive

\* The fields of a customer's records after one more record.
LEMMA IncreasedFields ==
  ASSUME NEW records \in Records, NEW n \in Nat, NEW b \in Int32
  PROVE  /\ Increased(records, n, b).credit = records.credit + n
         /\ Increased(records, n, b).debit = records.debit
         /\ Increased(records, n, b).refund = records.refund
         /\ Increased(records, n, b).balance = b
         /\ Increased(records, n, b) \in Records
BY DEF Increased, Records

LEMMA ReducedFields ==
  ASSUME NEW records \in Records, NEW n \in Int, NEW b \in Int32
  PROVE  /\ Reduced(records, n, b).credit = records.credit
         /\ Reduced(records, n, b).debit = records.debit + Positive(n)
         /\ Reduced(records, n, b).refund = records.refund + Positive(-n)
         /\ Reduced(records, n, b).balance = b
         /\ Reduced(records, n, b) \in Records
BY PositiveSign DEF Reduced, Records

\* What each customer has after customers received n points.
LEMMA CreditedRow ==
  ASSUME TypeOK, NEW cs, NEW n \in Nat, UPPER_LIMIT + n <= MAX_INT, Credited(cs, n),
         NEW c \in Customer
  PROVE  \/ integral'[c] = integral[c] /\ ledger'[c] = ledger[c]
         \/ /\ integral'[c] = Raised(integral[c], n)
            /\ integral'[c] \in Int32
            /\ ledger'[c] \in Records
            /\ ledger'[c].credit = ledger[c].credit + n
            /\ ledger'[c].debit = ledger[c].debit
            /\ ledger'[c].refund = ledger[c].refund
            /\ ledger'[c].balance = integral'[c]
<1>1. integral[c] \in Int32 /\ ledger[c] \in Records
  BY DEF TypeOK
<1>2. Raised(integral[c], n) \in Int32
  BY <1>1, RaisedBounds
<1>3. QED
  BY <1>1, <1>2, IncreasedFields DEF Credited

\* What customer c has after spending n, and that nobody else is touched.
LEMMA ConsumerRow ==
  ASSUME TypeOK, NEW c \in Customer, NEW n \in Amount, ConsumerIntegral(c, n)
  PROVE  /\ integral'[c] = ToInt32(integral[c] - n)
         /\ integral'[c] \in Int32
         /\ ledger'[c] \in Records
         /\ ledger'[c].credit = ledger[c].credit
         /\ ledger'[c].debit = ledger[c].debit + Positive(n)
         /\ ledger'[c].refund = ledger[c].refund + Positive(-n)
         /\ ledger'[c].balance = integral'[c]
         /\ \A d \in Customer \ {c} : integral'[d] = integral[d] /\ ledger'[d] = ledger[d]
<1>1. /\ integral[c] \in Int32 /\ ledger[c] \in Records
      /\ n \in Int32 /\ n \in Int /\ integral[c] >= n
  BY DEF TypeOK, ConsumerIntegral, Int32
<1>2. ToInt32(integral[c] - n) \in Int32
  BY <1>1, SpentBounds
<1>3. /\ integral'[c] = ToInt32(integral[c] - n)
      /\ ledger'[c] = Reduced(ledger[c], n, ToInt32(integral[c] - n))
      /\ \A d \in Customer \ {c} : integral'[d] = integral[d] /\ ledger'[d] = ledger[d]
  BY DEF TypeOK, ConsumerIntegral
<1> DEFINE left == ToInt32(integral[c] - n)
<1> HIDE DEF left
<1>4. left \in Int32
  BY <1>2 DEF left
<1>5. /\ Reduced(ledger[c], n, left).credit = ledger[c].credit
      /\ Reduced(ledger[c], n, left).debit = ledger[c].debit + Positive(n)
      /\ Reduced(ledger[c], n, left).refund = ledger[c].refund + Positive(-n)
      /\ Reduced(ledger[c], n, left).balance = left
      /\ Reduced(ledger[c], n, left) \in Records
  BY <1>1, <1>4, ReducedFields
<1>6. QED
  BY <1>3, <1>4, <1>5 DEF left

\* Crediting any customers keeps the types.
LEMMA CreditedType ==
  ASSUME TypeOK, NEW cs, NEW n \in Nat, UPPER_LIMIT + n <= MAX_INT, Credited(cs, n),
         member' \subseteq Customer
  PROVE  TypeOK'
<1>1. \A c \in Customer : integral'[c] \in Int32 /\ ledger'[c] \in Records
  BY CreditedRow DEF TypeOK
<1>2. QED
  BY <1>1 DEF TypeOK, Credited

\* So does spending any amount, negative or not.
LEMMA ConsumerIntegralType ==
  ASSUME TypeOK, NEW c \in Customer, NEW n \in Amount, ConsumerIntegral(c, n)
  PROVE  TypeOK'
<1>1. \A d \in Customer : integral'[d] \in Int32 /\ ledger'[d] \in Records
  BY ConsumerRow DEF TypeOK
<1>2. QED
  BY <1>1 DEF ConsumerIntegral, TypeOK

\* Every reachable state of Integral is well typed.
THEOREM IntegralTypeOK == Spec => []TypeOK
<1>1. Init => TypeOK
  BY DEF Init, TypeOK, NoRecords, Records, Int32
<1>2. TypeOK /\ [Next]_integralVars => TypeOK'
  <2> SUFFICES ASSUME TypeOK, [Next]_integralVars PROVE TypeOK'
    OBVIOUS
  <2>1. ASSUME NEW c \in Customer, NEW i \in Customer \cup {None}, Join(c, i)
        PROVE  TypeOK'
    BY <2>1, CreditedType DEF Join, TypeOK
  <2>2. ASSUME NEW i \in member, Bonus(i)
        PROVE  TypeOK'
    BY <2>2, CreditedType DEF Bonus, TypeOK
  <2>3. CASE UNCHANGED integralVars
    BY <2>3 DEF integralVars, TypeOK
  <2>4. QED
    BY <2>1, <2>2, <2>3, ConsumerIntegralType DEF Next
<1>3. QED
  BY <1>1, <1>2, PTL DEF Spec

-----------------------------------------------------------------------------

\* Crediting any customers keeps the points and the records of all in order.
LEMMA CreditedInv ==
  ASSUME IntegralInv, NEW cs, NEW n \in Nat, UPPER_LIMIT + n <= MAX_INT,
         Credited(cs, n), member' \subseteq Customer
  PROVE  IntegralInv'
<1>1. TypeOK'
  BY CreditedType DEF IntegralInv
<1>2. ASSUME NEW c \in Customer
      PROVE  /\ ledger'[c].refund = 0 => integral'[c] \in 0..UPPER_LIMIT
             /\ integral'[c] <= ledger'[c].credit + ledger'[c].refund - ledger'[c].debit
             /\ integral'[c] = ledger'[c].balance
  <2>1. /\ integral[c] \in Int32 /\ ledger[c].credit \in Nat
        /\ ledger[c].debit \in Nat /\ ledger[c].refund \in Nat
        /\ ledger[c].refund = 0 => integral[c] \in 0..UPPER_LIMIT
        /\ integral[c] <= ledger[c].credit + ledger[c].refund - ledger[c].debit
        /\ integral[c] = ledger[c].balance
    BY DEF IntegralInv, TypeOK, Records, PointsWithinLimit, RecordsExplainBalance
  <2>2. /\ Raised(integral[c], n) \in Int32
        /\ Raised(integral[c], n) <= integral[c] + n
        /\ integral[c] \in 0..UPPER_LIMIT => Raised(integral[c], n) \in 0..UPPER_LIMIT
    BY <2>1, RaisedBounds
  <2>3. QED
    BY <2>1, <2>2, CreditedRow DEF IntegralInv, Int32
<1>3. QED
  BY <1>1, <1>2 DEF IntegralInv, PointsWithinLimit, RecordsExplainBalance

\* So does a deduction of any amount.
LEMMA ConsumerIntegralInv ==
  ASSUME IntegralInv, NEW c \in Customer, NEW n \in Amount, ConsumerIntegral(c, n)
  PROVE  IntegralInv'
<1>1. TypeOK'
  BY ConsumerIntegralType DEF IntegralInv
<1>2. /\ ledger'[c].refund = 0 => integral'[c] \in 0..UPPER_LIMIT
      /\ integral'[c] <= ledger'[c].credit + ledger'[c].refund - ledger'[c].debit
      /\ integral'[c] = ledger'[c].balance
  <2>1. /\ integral[c] \in Int32 /\ ledger[c].credit \in Nat
        /\ ledger[c].debit \in Nat /\ ledger[c].refund \in Nat
        /\ ledger[c].refund = 0 => integral[c] \in 0..UPPER_LIMIT
        /\ integral[c] <= ledger[c].credit + ledger[c].refund - ledger[c].debit
        /\ n \in Int32 /\ integral[c] >= n
    BY DEF IntegralInv, TypeOK, Records, PointsWithinLimit, RecordsExplainBalance,
           ConsumerIntegral
  <2>2. /\ ToInt32(integral[c] - n) <= integral[c] - n
        /\ n >= 0 => ToInt32(integral[c] - n) = integral[c] - n
        /\ ToInt32(integral[c] - n) \in Int32
    BY <2>1, SpentBounds
  <2>3. /\ Positive(n) \in Nat /\ Positive(-n) \in Nat /\ n = Positive(n) - Positive(-n)
        /\ n >= 0 <=> Positive(-n) = 0
    BY <2>1, PositiveSign DEF Int32
  <2>4. QED
    BY <2>1, <2>2, <2>3, ConsumerRow DEF IntegralInv, Int32
<1>3. QED
  BY <1>1, <1>2, ConsumerRow
     DEF IntegralInv, PointsWithinLimit, RecordsExplainBalance

\* IntegralInv holds at the start,
LEMMA IntegralInvInit == Init => IntegralInv
BY DEF Init, IntegralInv, TypeOK, PointsWithinLimit, RecordsExplainBalance, NoRecords,
       Records, Int32

\* and every operation on points preserves it.
LEMMA IntegralInvStep ==
  ASSUME IntegralInv, [Next]_integralVars
  PROVE  IntegralInv'
<1>1. ASSUME NEW c \in Customer, NEW i \in Customer \cup {None}, Join(c, i)
      PROVE  IntegralInv'
  BY <1>1, CreditedInv DEF Join, IntegralInv, TypeOK
<1>2. ASSUME NEW i \in member, Bonus(i)
      PROVE  IntegralInv'
  BY <1>2, CreditedInv DEF Bonus, IntegralInv, TypeOK
<1>3. ASSUME NEW c \in Customer, NEW n \in Amount, ConsumerIntegral(c, n)
      PROVE  IntegralInv'
  BY <1>3, ConsumerIntegralInv
<1>4. CASE UNCHANGED integralVars
  BY <1>4 DEF integralVars, IntegralInv, TypeOK, PointsWithinLimit,
              RecordsExplainBalance
<1>5. QED
  BY <1>1, <1>2, <1>3, <1>4 DEF Next

\* Whatever amounts are spent, only the balance of a customer who spent a negative
\* one leaves 0..UPPER_LIMIT.
THEOREM PointsTheorem == Spec => []PointsWithinLimit
<1>1. IntegralInv => PointsWithinLimit
  BY DEF IntegralInv
<1>2. IntegralInv /\ [Next]_integralVars => IntegralInv'
  BY IntegralInvStep
<1>3. QED
  BY <1>1, <1>2, IntegralInvInit, PTL DEF Spec

\* Whatever amounts are spent, the records account for every balance.
THEOREM RecordsTheorem == Spec => []RecordsExplainBalance
<1>1. IntegralInv => RecordsExplainBalance
  BY DEF IntegralInv
<1>2. IntegralInv /\ [Next]_integralVars => IntegralInv'
  BY IntegralInvStep
<1>3. QED
  BY <1>1, <1>2, IntegralInvInit, PTL DEF Spec

\* Points leave a customer whose balance is within the limit only by a deduction of
\* the same amount, or by a negative one that no int can hold.
THEOREM FallsTheorem == Spec => FallsAreRecorded
<1>1. IntegralInv /\ [Next]_integralVars => \A c \in Customer : FallIsRecorded(c)
  <2> SUFFICES ASSUME IntegralInv, [Next]_integralVars, NEW c \in Customer,
                      integral'[c] < integral[c], ~(integral[c] > UPPER_LIMIT)
               PROVE  \/ ledger'[c].debit - ledger[c].debit = integral[c] - integral'[c]
                      \/ ledger'[c].refund > ledger[c].refund
    BY DEF FallIsRecorded
  <2>1. /\ integral[c] \in Int32 /\ integral[c] \in Int
        /\ ledger[c].debit \in Nat /\ ledger[c].refund \in Nat
    BY DEF IntegralInv, TypeOK, Records, Int32
  <2>2. ASSUME NEW cs, NEW n \in Nat, UPPER_LIMIT + n <= MAX_INT, Credited(cs, n)
        PROVE  FALSE
    <3>1. integral'[c] = Raised(integral[c], n) \/ integral'[c] = integral[c]
      BY <2>2 DEF Credited
    <3>2. Raised(integral[c], n) >= integral[c] /\ Raised(integral[c], n) \in Int32
      BY <2>1, <2>2, RaisedBounds
    <3>3. QED
      BY <2>1, <3>1, <3>2 DEF Int32
  <2>3. ASSUME NEW d \in Customer, NEW n \in Amount, ConsumerIntegral(d, n)
        PROVE  \/ ledger'[c].debit - ledger[c].debit = integral[c] - integral'[c]
               \/ ledger'[c].refund > ledger[c].refund
    <3>1. /\ d = c
          /\ integral'[c] = ToInt32(integral[c] - n)
          /\ ledger'[c].debit = ledger[c].debit + Positive(n)
          /\ ledger'[c].refund = ledger[c].refund + Positive(-n)
      <4>1. IntegralInv => TypeOK
        BY DEF IntegralInv
      <4>2. d = c
        BY <2>1, <2>3, <4>1, ConsumerRow
      <4>3. QED
        BY <2>3, <4>1, <4>2, ConsumerRow
    <3>2. n \in Int32 /\ n \in Int /\ integral[c] >= n
      BY <2>3, <3>1 DEF ConsumerIntegral, Int32
    <3>3. n >= 0 => ToInt32(integral[c] - n) = integral[c] - n
      BY <2>1, <3>2, SpentBounds
    <3>4. /\ Positive(n) \in Nat /\ Positive(-n) \in Nat /\ n = Positive(n) - Positive(-n)
          /\ n >= 0 <=> Positive(-n) = 0
      BY <3>2, PositiveSign
    <3>5. QED
      BY <2>1, <3>1, <3>2, <3>3, <3>4
  <2>4. ASSUME NEW d \in Customer, NEW i \in Customer \cup {None}, Join(d, i)
        PROVE  FALSE
    BY <2>2, <2>4 DEF Join
  <2>5. ASSUME NEW i \in member, Bonus(i)
        PROVE  FALSE
    BY <2>2, <2>5 DEF Bonus
  <2>6. CASE UNCHANGED integralVars
    BY <2>1, <2>6 DEF integralVars
  <2>7. QED
    BY <2>3, <2>4, <2>5, <2>6 DEF Next
<1>2. IntegralInv /\ [Next]_integralVars => IntegralInv'
  BY IntegralInvStep
<1>3. QED
  BY <1>1, <1>2, IntegralInvInit, PTL DEF Spec, FallsAreRecorded
=============================================================================
