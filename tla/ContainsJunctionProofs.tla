------------------------ MODULE ContainsJunctionProofs ------------------------
(***************************************************************************)
(* Proofs about the containsJunctionInSystem walk of ContainsJunction.tla,*)
(* for every junction file and every set of input alignments.             *)
(***************************************************************************)
EXTENDS ContainsJunction, TLAPS

USE TrustedAssumption, InputsAssumption

\* The operation under the loop index is an operation of the CIGAR.
LEMMA OpType ==
    ASSUME TypeOK, i <= Len(al.cigar)
    PROVE  Op.length \in Nat
<1>1. al.cigar \in Seq(CigarOps)
  BY DEF TypeOK, Alignments
<1>2. al.cigar[i] \in CigarOps
  BY <1>1 DEF TypeOK
<1>. QED
  BY <1>2 DEF Op, CigarOps

THEOREM InitTypeOK == Init => TypeOK
<1>. SUFFICES ASSUME Init PROVE TypeOK
  OBVIOUS
<1>1. al \in Alignments(RefIds)
  BY DEF Init, SplicedInputs
<1>2. al.cigar \in Seq(CigarOps)
  BY <1>1 DEF Alignments
<1>3. lEnd \in Int
  BY <1>1 DEF Init, Alignments
<1>4. i \in 1 .. Len(al.cigar) + 1
  BY <1>2 DEF Init
<1>. QED
  BY <1>1, <1>3, <1>4 DEF Init, TypeOK

\* Each iteration moves the index by one, within 1 .. Len + 1, and the
\* cursor by an operation length; the returns change neither.
THEOREM StepTypeOK == TypeOK /\ [Next]_vars => TypeOK'
<1>. SUFFICES ASSUME TypeOK, [Next]_vars PROVE TypeOK'
  OBVIOUS
<1>1. CASE FoundJunction
  BY <1>1 DEF FoundJunction, TypeOK
<1>2. CASE MissedJunction
  BY <1>2 DEF MissedJunction, Iterating, TypeOK
<1>3. CASE ConsumeReference
  <2>1. Op.length \in Nat
    BY <1>3, OpType DEF ConsumeReference, Iterating
  <2>. QED
    BY <1>3, <2>1 DEF ConsumeReference, Iterating, TypeOK
<1>4. CASE OtherOp
  BY <1>4 DEF OtherOp, Iterating, TypeOK
<1>5. CASE Exhausted
  BY <1>5 DEF Exhausted, TypeOK
<1>6. CASE Returned
  BY <1>6 DEF Returned, vars, TypeOK
<1>7. CASE UNCHANGED vars
  BY <1>7 DEF vars, TypeOK
<1>. QED
  BY <1>1, <1>2, <1>3, <1>4, <1>5, <1>6, <1>7 DEF Next

\* The walk keeps an alignment of the input, an index within the CIGAR or
\* one past it, and an integer cursor, whatever the junction file holds.
THEOREM TypeCorrect == Spec => []TypeOK
BY InitTypeOK, StepTypeOK, PTL DEF Spec
=============================================================================
