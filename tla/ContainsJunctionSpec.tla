------------------------- MODULE ContainsJunctionSpec -------------------------
(***************************************************************************)
(* The abstract containsJunctionInSystem: from the call to the return in  *)
(* one step, answering whether some skip of the alignment derives a       *)
(* trusted junction (JunctionCheck).  ContainsJunction.tla, the code's    *)
(* loop with its early return, is shown to implement this module.        *)
(***************************************************************************)
EXTENDS ClipRule

VARIABLES al, found, done

vars == <<al, found, done>>

Init ==
    /\ al \in SplicedInputs
    /\ found = FALSE
    /\ done = FALSE

Check ==
    /\ ~done
    /\ found' = ContainsJunctionInSystem(al)
    /\ done' = TRUE
    /\ UNCHANGED al

Terminating == done /\ UNCHANGED vars

Next == Check \/ Terminating

Spec == Init /\ [][Next]_vars
=============================================================================
