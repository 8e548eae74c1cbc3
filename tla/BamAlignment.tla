---------------------------- MODULE BamAlignment ----------------------------
(***************************************************************************)
(* The alignment record the filter works on: a CIGAR (a sequence of        *)
(* operations, each a type and a length), the reference it is aligned to   *)
(* and its 0-based leftmost position (bam_alignment.hpp).  Only the fields *)
(* the filter reads are kept; flags, mates, sequence and qualities are     *)
(* never consulted by bam_filter.cc and are left out.                      *)
(*                                                                         *)
(* Sequences are 1-based here where the code's vectors are 0-based: the    *)
(* code's operation i is the model's operation i + 1.                      *)
(***************************************************************************)
EXTENDS Integers, Sequences, FiniteSets

\* The CIGAR operation characters (BAM_CIGAR_*_CHAR).
MATCH    == "M"
INS      == "I"
DEL      == "D"
REFSKIP  == "N"
SOFTCLIP == "S"
HARDCLIP == "H"
PAD      == "P"
EQUAL    == "="
DIFF     == "X"
BACK     == "B"

OpTypes == {MATCH, INS, DEL, REFSKIP, SOFTCLIP, HARDCLIP, PAD, EQUAL, DIFF, BACK}

\* struct CigarOp: an operation type and its (non-negative) length.
CigarOp(type, length) == [type |-> type, length |-> length]

CigarOps == [type : OpTypes, length : Nat]

\* CigarOp::opConsumesQuery and CigarOp::opConsumesReference.
OpConsumesQuery(t) == t \in {MATCH, INS, SOFTCLIP, EQUAL, DIFF}

OpConsumesReference(t) == t \in {MATCH, DEL, REFSKIP, EQUAL, DIFF}

\* A BamAlignment as the filter sees it.
Alignments(RefIds) ==
    [refId : RefIds, position : Nat, cigar : Seq(CigarOps)]

(***************************************************************************)
(* Read classification: the indices of the reference skips, their number  *)
(* (getNbJunctionsInRead), isSplicedRead and isMultiplySplicedRead.       *)
(***************************************************************************)
SkipIndices(cigar) == {k \in 1 .. Len(cigar) : cigar[k].type = REFSKIP}

GetNbJunctionsInRead(al) == Cardinality(SkipIndices(al.cigar))

IsSplicedRead(al) == SkipIndices(al.cigar) # {}

IsMultiplySplicedRead(al) == GetNbJunctionsInRead(al) > 1

(***************************************************************************)
(* Reference geometry.  RefOffset(cigar, k) is the number of reference    *)
(* bases consumed by the operations before operation k, i.e. the offset   *)
(* of operation k from the alignment's position; RefOffset(cigar,         *)
(* Len(cigar) + 1) is the aligned length, from which getEnd derives the   *)
(* alignment's last reference base.                                       *)
(***************************************************************************)
RefOffset(cigar, k) ==
    LET off[n \in 0 .. Len(cigar)] ==
            IF n = 0 THEN 0
            ELSE off[n - 1] + IF OpConsumesReference(cigar[n].type)
                              THEN cigar[n].length ELSE 0
    IN  off[k - 1]

AlignedLength(cigar) == RefOffset(cigar, Len(cigar) + 1)

GetEnd(al) == al.position + AlignedLength(al.cigar) - 1
=============================================================================
