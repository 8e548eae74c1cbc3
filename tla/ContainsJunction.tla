--------------------------- MODULE ContainsJunction ---------------------------
(***************************************************************************)
(* BamFilter::containsJunctionInSystem (bam_filter.cc:75-99), one loop    *)
(* iteration per step.  The walk returns true at the first skip whose     *)
(* derived intron the junction system holds, and false once every         *)
(* operation has been seen.  As in clipMSR, the cursor lEnd is advanced   *)
(* only in the `else if` branch, which a skip never reaches.  i is        *)
(* 1-based (code index + 1).                                              *)
(***************************************************************************)
EXTENDS ClipRule

VARIABLES
    al,         \* the alignment the check was called with
    i,          \* the loop index
    lEnd,       \* the reference cursor
    found,      \* the value returned
    pc          \* "loop" while iterating, "done" once it has returned

vars == <<al, i, lEnd, found, pc>>

\* The operation at the loop index and the intron built for it (lines 84-88).
Op == al.cigar[i]

Location == Intron(al.refId, lEnd, lEnd + Op.length - 1)

Init ==
    /\ al \in SplicedInputs
    /\ i = 1
    /\ lEnd = al.position
    /\ found = FALSE
    /\ pc = "loop"

Iterating == pc = "loop" /\ i <= Len(al.cigar)

\* A trusted junction: return true at once (lines 85-92).
FoundJunction ==
    /\ Iterating
    /\ Op.type = REFSKIP
    /\ GetJunction(Location)
    /\ found' = TRUE
    /\ pc' = "done"
    /\ UNCHANGED <<al, i, lEnd>>

(***************************************************************************)
(* Plausible bugs, each defined just before the action it alters.         *)
(***************************************************************************)
\* The index advanced twice past an untrusted skip.
MissedJunctionSkipsTwo ==
    /\ Iterating
    /\ Op.type = REFSKIP
    /\ ~GetJunction(Location)
    /\ i' = i + 2
    /\ UNCHANGED <<al, lEnd, found, pc>>

\* `return false` at the first untrusted skip instead of walking on.
MissedJunctionReturns ==
    /\ Iterating
    /\ Op.type = REFSKIP
    /\ ~GetJunction(Location)
    /\ pc' = "done"
    /\ UNCHANGED <<al, i, lEnd, found>>

\* An untrusted junction: the walk goes on (lines 85-93).
MissedJunction ==
    /\ Iterating
    /\ Op.type = REFSKIP
    /\ ~GetJunction(Location)
    /\ i' = i + 1
    /\ UNCHANGED <<al, lEnd, found, pc>>

\* Any other reference-consuming operation advances the cursor (94-96).
ConsumeReference ==
    /\ Iterating
    /\ Op.type # REFSKIP
    /\ OpConsumesReference(Op.type)
    /\ lEnd' = lEnd + Op.length
    /\ i' = i + 1
    /\ UNCHANGED <<al, found, pc>>

\* The loop body without its increment: an operation that consumes no
\* reference is seen again and again.
OtherOpStalls ==
    /\ Iterating
    /\ Op.type # REFSKIP
    /\ ~OpConsumesReference(Op.type)
    /\ UNCHANGED vars

\* An operation that consumes no reference is passed over.
OtherOp ==
    /\ Iterating
    /\ Op.type # REFSKIP
    /\ ~OpConsumesReference(Op.type)
    /\ i' = i + 1
    /\ UNCHANGED <<al, lEnd, found, pc>>

\* Every operation seen and none trusted: return false (line 98).
Exhausted ==
    /\ pc = "loop"
    /\ i > Len(al.cigar)
    /\ pc' = "done"
    /\ UNCHANGED <<al, i, lEnd, found>>

Returned == pc = "done" /\ UNCHANGED vars

Next ==
    \/ FoundJunction
    \/ MissedJunction
    \/ ConsumeReference
    \/ OtherOp
    \/ Exhausted
    \/ Returned

Spec == Init /\ [][Next]_vars

\* The check runs on the filter's single thread: once called, each of its
\* statements is executed in turn, so a step that can be taken is taken.
FairSpec == Spec /\ WF_vars(Next)

-----------------------------------------------------------------------------
(***************************************************************************)
(* Properties.                                                             *)
(***************************************************************************)

TypeOK ==
    /\ al \in Alignments(RefIds)
    /\ i \in 1 .. Len(al.cigar) + 1
    /\ lEnd \in Int
    /\ found \in BOOLEAN
    /\ pc \in {"loop", "done"}

\* The early-returning walk implements the atomic check: when it returns,
\* found is true exactly when some skip, at the cursor the walk keeps,
\* derives a trusted junction -- the later skips it never reached
\* included; before, the caller has no answer.
Abstract == INSTANCE ContainsJunctionSpec WITH
    found <- pc = "done" /\ found,
    done  <- pc = "done"

ImplementsContainsJunctionSpec == Abstract!Spec

\* Every call returns: the walk over a finite CIGAR ends, by the early
\* return or after the last operation.
CheckReturns == <>(pc = "done")
=============================================================================
