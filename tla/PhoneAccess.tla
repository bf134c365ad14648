----------------------------- MODULE PhoneAccess -----------------------------
(***************************************************************************)
(* What the verification of phones promises to the rest of the system:     *)
(* once a code is kept for a phone, a person comes in as its owner only by *)
(* a code that was issued for it, finds one place however many requests    *)
(* ask for it, and keeps it.  Before that the phone is not guarded: one    *)
(* word lets everybody in.  How codes are sent, stored and compared is     *)
(* left to Verification, which implements this module.                     *)
(***************************************************************************)
CONSTANTS Phone, Code, Request, None, NullText

VARIABLES
  issued,   \* issued[ph]: the codes drawn for ph so far
  guarded,  \* the phones a code is kept for
  proofs,   \* proofs[r]: the phone request r came in by, and the word it showed
  members   \* the phones somebody came in by

vars == <<issued, guarded, proofs, members>>

NoProof == [phone |-> None, word |-> None]

\* What may be shown for ph.
Words(ph) == IF ph \in guarded THEN issued[ph] ELSE {NullText}

Init ==
  /\ issued = [ph \in Phone |-> {}]
  /\ guarded = {}
  /\ proofs = [r \in Request |-> NoProof]
  /\ members = {}

\* A code is drawn for a phone.
Issue(ph, c) ==
  /\ issued' = [issued EXCEPT ![ph] = @ \cup {c}]
  /\ UNCHANGED <<guarded, proofs, members>>

\* One of them is kept, from now on.
Guard(ph) ==
  /\ issued[ph] # {}
  /\ guarded' = guarded \cup {ph}
  /\ UNCHANGED <<issued, proofs, members>>

\* Request r shows w as the owner of ph.
Prove(r, ph, w) ==
  /\ proofs[r] = NoProof
  /\ w \in Words(ph)
  /\ proofs' = [proofs EXCEPT ![r] = [phone |-> ph, word |-> w]]
  /\ UNCHANGED <<issued, guarded, members>>

\* Request r comes in: as who is there already, or as a newcomer.
Admit(r) ==
  /\ proofs[r] # NoProof
  /\ members' = members \cup {proofs[r].phone}
  /\ proofs' = [proofs EXCEPT ![r] = NoProof]
  /\ UNCHANGED <<issued, guarded>>

\* Request r fails.
Abandon(r) ==
  /\ proofs' = [proofs EXCEPT ![r] = NoProof]
  /\ UNCHANGED <<issued, guarded, members>>

Next ==
  \/ \E ph \in Phone, c \in Code : Issue(ph, c)
  \/ \E ph \in Phone : Guard(ph)
  \/ \E r \in Request :
       \/ \E ph \in Phone, w \in Code \cup {NullText} : Prove(r, ph, w)
       \/ Admit(r)
       \/ Abandon(r)

Spec == Init /\ [][Next]_vars

-----------------------------------------------------------------------------

ShowsCode(r) ==
  proofs'[r] # proofs[r] /\ proofs'[r].phone \in guarded =>
    proofs'[r].word \in issued[proofs'[r].phone]

\* A phone stays guarded, and while it is, nobody is on the way in by it anew but
\* with a code that was issued for it.
GuardedByCodes ==
  [][guarded \subseteq guarded' /\ \A r \in Request : ShowsCode(r)]_vars
=============================================================================
