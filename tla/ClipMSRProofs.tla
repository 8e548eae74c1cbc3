---------------------------- MODULE ClipMSRProofs ----------------------------
(***************************************************************************)
(* Proofs about the clipMSR loop of ClipMSR.tla, for every junction file  *)
(* and every set of input alignments.                                     *)
(***************************************************************************)
EXTENDS ClipMSR, TLAPS

USE TrustedAssumption, InputsAssumption

(***************************************************************************)
(* ShapePreserved is not inductive by itself: a bad skip clips [from,     *)
(* i - 1] and the tail clips [opStart, Len], and neither may hold a skip. *)
(* The region [opStart, i) that the walk has passed but not decided on    *)
(* contains no skip, since opStart is moved past every skip the walk      *)
(* meets; and a clip range always lies inside that region.                *)
(***************************************************************************)
OpenRegionSkipFree ==
    /\ opStart <= i
    /\ \A j \in opStart .. i - 1 : al.cigar[j].type # REFSKIP

IInv == TypeOK /\ ShapePreserved /\ OpenRegionSkipFree

\* The clip operation is an operation type.
LEMMA ModOpType == \A m \in ClipModes : ModOp(m) \in OpTypes
BY DEF ModOp, OpTypes, HARDCLIP, SOFTCLIP, DEL

\* Clipping a range with no skip in it keeps the copy's type and shape.
LEMMA ClipRangeKeepsShape ==
    ASSUME TypeOK, ShapePreserved,
           NEW from \in Int, NEW to \in Int,
           \A j \in 1 .. Len(al.cigar) :
               (from <= j /\ j <= to) => al.cigar[j].type # REFSKIP
    PROVE  /\ ClipRange(modified, from, to) \in [1 .. Len(al.cigar) -> CigarOps]
           /\ \A j \in 1 .. Len(al.cigar) :
                 /\ ClipRange(modified, from, to)[j].length = al.cigar[j].length
                 /\ ClipRange(modified, from, to)[j].type = REFSKIP
                       <=> al.cigar[j].type = REFSKIP
<1>1. al.cigar \in Seq(CigarOps)
  BY DEF TypeOK, Alignments
<1>2. ModOp(clipMode) \in OpTypes
  BY ModOpType DEF TypeOK, ClipModes
<1>3. ModOp(clipMode) # REFSKIP
  BY DEF ModOp, REFSKIP, HARDCLIP, SOFTCLIP, DEL
<1>4. DOMAIN modified = 1 .. Len(al.cigar)
  BY DEF TypeOK
<1>. QED
  BY <1>1, <1>2, <1>3, <1>4 DEF TypeOK, ShapePreserved, ClipRange, CigarOp, CigarOps

THEOREM InitIInv == Init => IInv
<1>. SUFFICES ASSUME Init PROVE IInv
  OBVIOUS
<1>1. al \in Alignments(RefIds)
  BY DEF Init, MSRInputs
<1>2. al.cigar \in Seq(CigarOps)
  BY <1>1 DEF Alignments
<1>3. modified \in [1 .. Len(al.cigar) -> CigarOps]
  BY <1>2 DEF Init
<1>4. /\ i \in 1 .. Len(al.cigar) + 1
      /\ opStart \in 1 .. Len(al.cigar) + 1
  BY <1>2 DEF Init
<1>5. lEnd \in Int
  BY <1>1 DEF Init, Alignments
<1>6. TypeOK
  BY <1>1, <1>3, <1>4, <1>5 DEF Init, TypeOK
<1>. QED
  BY <1>6 DEF Init, IInv, ShapePreserved, OpenRegionSkipFree

\* The operation under the loop index is an operation of the CIGAR.
LEMMA OpType ==
    ASSUME TypeOK, i <= Len(al.cigar)
    PROVE  /\ Op \in CigarOps
           /\ Op.length \in Nat
<1>1. al.cigar \in Seq(CigarOps)
  BY DEF TypeOK, Alignments
<1>2. al.cigar[i] \in CigarOps
  BY <1>1 DEF TypeOK
<1>. QED
  BY <1>2 DEF Op, CigarOps

\* TypeOK in the next state, from the type of each variable there.
LEMMA TypeOKPrime ==
    ASSUME TypeOK, al' = al, clipMode' = clipMode,
           i' \in 1 .. Len(al.cigar) + 1, opStart' \in 1 .. Len(al.cigar) + 1,
           lEnd' \in Int, lastGood' \in BOOLEAN, ab' \in BOOLEAN,
           modified' \in [1 .. Len(al.cigar) -> CigarOps], pc' \in {"loop", "done"}
    PROVE  TypeOK'
BY DEF TypeOK

THEOREM StepIInv == IInv /\ [Next]_vars => IInv'
<1>. SUFFICES ASSUME IInv, [Next]_vars PROVE IInv'
  OBVIOUS
<1>. USE DEF IInv
<1>1. al.cigar \in Seq(CigarOps)
  BY DEF TypeOK, Alignments
<1>. USE <1>1
<1>2. CASE GoodJunction
  <2>1. TypeOK'
    <3>1. i + 1 \in 1 .. Len(al.cigar) + 1
      BY <1>2 DEF GoodJunction, Iterating, TypeOK
    <3>. QED  BY <1>2, <3>1, TypeOKPrime DEF GoodJunction, TypeOK
  <2>2. ShapePreserved'
    BY <1>2 DEF GoodJunction, ShapePreserved
  <2>3. OpenRegionSkipFree'
    BY <1>2 DEF GoodJunction, OpenRegionSkipFree
  <2>. QED  BY <2>1, <2>2, <2>3
<1>3. CASE BadJunction
  <2>. DEFINE from == IF lastGood THEN i ELSE opStart
  <2>1. from \in Int /\ i - 1 \in Int
    BY DEF TypeOK
  <2>2. \A j \in 1 .. Len(al.cigar) :
            (from <= j /\ j <= i - 1) => al.cigar[j].type # REFSKIP
    BY DEF OpenRegionSkipFree, TypeOK
  <2>3. modified' = ClipRange(modified, from, i - 1)
    BY <1>3 DEF BadJunction
  <2>4. /\ modified' \in [1 .. Len(al.cigar) -> CigarOps]
        /\ \A j \in 1 .. Len(al.cigar) :
              /\ modified'[j].length = al.cigar[j].length
              /\ modified'[j].type = REFSKIP <=> al.cigar[j].type = REFSKIP
    BY <2>1, <2>2, <2>3, ClipRangeKeepsShape DEF TypeOK
  <2>5. TypeOK'
    <3>1. i + 1 \in 1 .. Len(al.cigar) + 1
      BY <1>3 DEF BadJunction, Iterating, TypeOK
    <3>. QED  BY <1>3, <2>4, <3>1, TypeOKPrime DEF BadJunction, TypeOK
  <2>6. ShapePreserved'
    BY <1>3, <2>4 DEF BadJunction, ShapePreserved
  <2>7. OpenRegionSkipFree'
    BY <1>3 DEF BadJunction, OpenRegionSkipFree
  <2>. QED  BY <2>5, <2>6, <2>7
<1>4. CASE ConsumeReference
  <2>1. Op.length \in Nat
    BY <1>4, OpType DEF ConsumeReference, Iterating
  <2>2. TypeOK'
    <3>1. i + 1 \in 1 .. Len(al.cigar) + 1 /\ lEnd + Op.length \in Int
      BY <1>4, <2>1 DEF ConsumeReference, Iterating, TypeOK
    <3>. QED  BY <1>4, <3>1, TypeOKPrime DEF ConsumeReference, TypeOK
  <2>3. ShapePreserved'
    BY <1>4 DEF ConsumeReference, ShapePreserved
  <2>4. OpenRegionSkipFree'
    BY <1>4 DEF ConsumeReference, OpenRegionSkipFree, Op, TypeOK
  <2>. QED  BY <2>2, <2>3, <2>4
<1>5. CASE OtherOp
  <2>1. TypeOK'
    <3>1. i + 1 \in 1 .. Len(al.cigar) + 1
      BY <1>5 DEF OtherOp, Iterating, TypeOK
    <3>. QED  BY <1>5, <3>1, TypeOKPrime DEF OtherOp, TypeOK
  <2>2. ShapePreserved'
    BY <1>5 DEF OtherOp, ShapePreserved
  <2>3. OpenRegionSkipFree'
    BY <1>5 DEF OtherOp, OpenRegionSkipFree, Op, TypeOK
  <2>. QED  BY <2>1, <2>2, <2>3
<1>6. CASE ClipTail
  <2>1. i = Len(al.cigar) + 1
    BY <1>6 DEF ClipTail, TypeOK
  <2>2. \A j \in 1 .. Len(al.cigar) :
            (opStart <= j /\ j <= Len(al.cigar)) => al.cigar[j].type # REFSKIP
    BY <2>1 DEF OpenRegionSkipFree, TypeOK
  <2>3. modified' = ClipRange(modified, opStart, Len(al.cigar))
    BY <1>6 DEF ClipTail
  <2>4. /\ modified' \in [1 .. Len(al.cigar) -> CigarOps]
        /\ \A j \in 1 .. Len(al.cigar) :
              /\ modified'[j].length = al.cigar[j].length
              /\ modified'[j].type = REFSKIP <=> al.cigar[j].type = REFSKIP
    BY <2>2, <2>3, ClipRangeKeepsShape DEF TypeOK
  <2>5. TypeOK'
    BY <1>6, <2>4, TypeOKPrime DEF ClipTail, TypeOK
  <2>6. ShapePreserved'
    BY <1>6, <2>4 DEF ClipTail, ShapePreserved
  <2>7. OpenRegionSkipFree'
    BY <1>6 DEF ClipTail, OpenRegionSkipFree
  <2>. QED  BY <2>5, <2>6, <2>7
<1>7. CASE KeepTail
  BY <1>7 DEF KeepTail, TypeOK, ShapePreserved, OpenRegionSkipFree
<1>8. CASE Returned \/ UNCHANGED vars
  BY <1>8 DEF Returned, vars, TypeOK, ShapePreserved, OpenRegionSkipFree
<1>. QED
  BY <1>2, <1>3, <1>4, <1>5, <1>6, <1>7, <1>8 DEF Next

\* Every state of clipMSR is well typed.
THEOREM TypeCorrect == Spec => []TypeOK
BY InitIInv, StepIInv, PTL DEF Spec, IInv

\* At every point of clipMSR the copy has the original's operation count
\* and lengths, and its skips are exactly the original's.
THEOREM ShapeTheorem == Spec => []ShapePreserved
BY InitIInv, StepIInv, PTL DEF Spec, IInv
=============================================================================
