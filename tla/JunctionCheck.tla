---------------------------- MODULE JunctionCheck ----------------------------
(***************************************************************************)
(* How bam_filter.cc derives the junction a reference skip implies, and   *)
(* BamFilter::containsJunctionInSystem.  Both containsJunctionInSystem    *)
(* and clipMSR walk the CIGAR with a cursor lEnd that starts at the       *)
(* alignment's position and is advanced by every reference-consuming      *)
(* operation in the `else if` branch -- which a REFSKIP never reaches, so *)
(* the cursor is NOT advanced over a skip.  The intron of skip k is        *)
(* [lEnd, lEnd + length - 1] for the cursor value at k.                   *)
(***************************************************************************)
EXTENDS BamAlignment, JunctionSystem

\* lEnd - position when the walk reaches operation k.
LEndOffset(cigar, k) ==
    LET off[n \in 0 .. Len(cigar)] ==
            IF n = 0 THEN 0
            ELSE off[n - 1] + IF /\ cigar[n].type # REFSKIP
                                 /\ OpConsumesReference(cigar[n].type)
                              THEN cigar[n].length ELSE 0
    IN  off[k - 1]

\* The intron `location` built for skip k: rStart = lEnd + length, end rStart - 1.
DerivedIntron(al, k) ==
    LET lEnd == al.position + LEndOffset(al.cigar, k)
    IN  Intron(al.refId, lEnd, lEnd + al.cigar[k].length - 1)

\* Whether the junction derived for skip k is in the junction system.
GoodSkip(al, k) == GetJunction(DerivedIntron(al, k))

\* containsJunctionInSystem: the walk returns true at the first skip whose
\* derived intron is found, false after the last operation.
ContainsJunctionInSystem(al) == \E k \in SkipIndices(al.cigar) : GoodSkip(al, k)
=============================================================================
