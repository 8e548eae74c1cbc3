----------------------------- MODULE ClipMSRSpec -----------------------------
(***************************************************************************)
(* The abstract clipMSR: from the call to the return in one atomic step,  *)
(* producing ClipRule's clipped copy and allBad.  Before the step the     *)
(* caller's allBad holds its initial false (bam_filter.cc:205).           *)
(* ClipMSR.tla, the code's loop, is shown to implement this module.       *)
(***************************************************************************)
EXTENDS ClipRule

VARIABLES al, clipMode, result, allBad, done

vars == <<al, clipMode, result, allBad, done>>

Init ==
    /\ al \in MSRInputs
    /\ clipMode \in {HARD, SOFT}
    /\ result = al.cigar
    /\ allBad = FALSE
    /\ done = FALSE

Clip ==
    /\ ~done
    /\ result' = ClipResult(al, clipMode)
    /\ allBad' = AllBad(al)
    /\ done' = TRUE
    /\ UNCHANGED <<al, clipMode>>

Terminating == done /\ UNCHANGED vars

Next == Clip \/ Terminating

Spec == Init /\ [][Next]_vars
=============================================================================
