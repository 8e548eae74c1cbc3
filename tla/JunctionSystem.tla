--------------------------- MODULE JunctionSystem ---------------------------
(***************************************************************************)
(* The trusted junction set the filter is given (JunctionSystem, loaded   *)
(* once from the junction file before any alignment is read and never     *)
(* changed afterwards) and the exact-coordinate lookup getJunction.  An   *)
(* Intron is a reference id with a 0-based inclusive start and end; two   *)
(* introns are the same junction exactly when all three agree.            *)
(***************************************************************************)
EXTENDS Integers

CONSTANTS
    RefIds,     \* ids of the reference sequences in the BAM header
    Trusted     \* the introns of the junction file

Intron(refId, start, end) == [ref |-> refId, start |-> start, end |-> end]

Introns == [ref : RefIds, start : Int, end : Int]

ASSUME TrustedAssumption == Trusted \subseteq Introns

\* js.getJunction(location) != nullptr
GetJunction(location) == location \in Trusted
=============================================================================
