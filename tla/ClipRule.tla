------------------------------ MODULE ClipRule ------------------------------
(***************************************************************************)
(* What BamFilter::clipMSR computes, stated without its loop.  The        *)
(* segments of a CIGAR are the runs of operations between consecutive     *)
(* reference skips (and before the first and after the last).  A segment *)
(* is rewritten to the clip operation exactly when neither skip that      *)
(* bounds it has a trusted derived junction; the skips themselves and     *)
(* every length are left as they are.  allBad holds when no skip is       *)
(* trusted.                                                               *)
(***************************************************************************)
EXTENDS JunctionCheck

CONSTANT Inputs     \* the alignments the BAM file may hold

ASSUME InputsAssumption == Inputs \subseteq Alignments(RefIds)

\* ClipMode (bam_filter.hpp) and the clip operation clipMSR substitutes.
HARD     == "HARD"
SOFT     == "SOFT"
COMPLETE == "COMPLETE"
ClipModes == {HARD, SOFT, COMPLETE}

ModOp(clipMode) ==
    IF clipMode = HARD THEN HARDCLIP
    ELSE IF clipMode = SOFT THEN SOFTCLIP
    ELSE DEL

\* Skip k bounds the segment of operation j: no skip lies strictly between.
Bounds(cigar, k, j) ==
    \A m \in SkipIndices(cigar) : ~(k < m /\ m < j) /\ ~(j < m /\ m < k)

\* Operation j is clipped: it is no skip and no skip bounding it is trusted.
Clipped(al, j) ==
    /\ j \notin SkipIndices(al.cigar)
    /\ ~\E k \in SkipIndices(al.cigar) : GoodSkip(al, k) /\ Bounds(al.cigar, k, j)

ClipResult(al, clipMode) ==
    [j \in 1 .. Len(al.cigar) |->
        IF Clipped(al, j) THEN CigarOp(ModOp(clipMode), al.cigar[j].length)
                          ELSE al.cigar[j]]

AllBad(al) == ~ContainsJunctionInSystem(al)

\* The alignments containsJunctionInSystem is called with: spliced ones.
SplicedInputs == {a \in Inputs : IsSplicedRead(a)}

\* The alignments clipMSR is called with: multiply spliced, HARD or SOFT.
MSRInputs == {a \in Inputs : IsSplicedRead(a) /\ IsMultiplySplicedRead(a)}
=============================================================================
