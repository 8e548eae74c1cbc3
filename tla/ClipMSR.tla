------------------------------- MODULE ClipMSR -------------------------------
(***************************************************************************)
(* BamFilter::clipMSR (bam_filter.cc:101-149), one loop iteration per     *)
(* step.  The walk keeps the cursor lEnd, the first operation of the      *)
(* current untested region opStart, whether the last skip was trusted     *)
(* (lastGood) and whether no skip has been trusted so far (ab).  A        *)
(* trusted skip leaves the region before it alone; an untrusted one       *)
(* clips the region [opStart, i) -- or nothing, when the previous skip    *)
(* was trusted, since opStart is then moved to i.  After the loop, the    *)
(* operations after the last skip are clipped unless that skip was       *)
(* trusted.  i and opStart are 1-based (code index + 1).                  *)
(***************************************************************************)
EXTENDS ClipRule

VARIABLES
    al,         \* the alignment clipMSR was called with
    clipMode,   \* the filter's clip mode
    i,          \* the loop index
    lEnd,       \* the reference cursor
    opStart,    \* first operation of the region not yet decided
    lastGood,   \* the last skip seen was trusted
    ab,         \* no trusted skip seen yet (returned as allBad)
    modified,   \* the CIGAR of modifiedAlignment, the copy being clipped
    pc          \* "loop" while iterating, "done" once clipMSR has returned

vars == <<al, clipMode, i, lEnd, opStart, lastGood, ab, modified, pc>>

\* The operation at the loop index and the intron built for it (lines 119-121).
Op == al.cigar[i]

Location == Intron(al.refId, lEnd, lEnd + Op.length - 1)

\* setCigarOpAt(j, CigarOp(modOp, al.getCigarOpAt(j).length)) for j in [from, to].
ClipRange(cigar, from, to) ==
    [j \in DOMAIN cigar |->
        IF from <= j /\ j <= to THEN CigarOp(ModOp(clipMode), al.cigar[j].length)
                                ELSE cigar[j]]

Init ==
    /\ al \in MSRInputs
    /\ clipMode \in {HARD, SOFT}
    /\ i = 1
    /\ lEnd = al.position
    /\ opStart = 1
    /\ lastGood = FALSE
    /\ ab = TRUE
    /\ modified = al.cigar
    /\ pc = "loop"

Iterating == pc = "loop" /\ i <= Len(al.cigar)

(***************************************************************************)
(* Plausible bugs in the loop body, each defined just before the action   *)
(* it alters; a property that none of them breaks says nothing.           *)
(***************************************************************************)
\* opStart moved one operation too far after a trusted skip.
GoodJunctionSkipsTwo ==
    /\ Iterating
    /\ Op.type = REFSKIP
    /\ GetJunction(Location)
    /\ ab' = FALSE
    /\ lastGood' = TRUE
    /\ opStart' = i + 2
    /\ i' = i + 1
    /\ UNCHANGED <<al, clipMode, lEnd, modified, pc>>

\* A skip whose junction is trusted (lines 118-126, 136).
GoodJunction ==
    /\ Iterating
    /\ Op.type = REFSKIP
    /\ GetJunction(Location)
    /\ ab' = FALSE
    /\ lastGood' = TRUE
    /\ opStart' = i + 1
    /\ i' = i + 1
    /\ UNCHANGED <<al, clipMode, lEnd, modified, pc>>

\* The clipped region taken as [from, i], the untrusted skip included.
BadJunctionInclusive ==
    /\ Iterating
    /\ Op.type = REFSKIP
    /\ ~GetJunction(Location)
    /\ LET from == IF lastGood THEN i ELSE opStart
       IN  modified' = ClipRange(modified, from, i)
    /\ lastGood' = FALSE
    /\ opStart' = i + 1
    /\ i' = i + 1
    /\ UNCHANGED <<al, clipMode, lEnd, ab, pc>>

\* The `if (lastGood) opStart = i;` of line 128 left out.
BadJunctionNoLastGood ==
    /\ Iterating
    /\ Op.type = REFSKIP
    /\ ~GetJunction(Location)
    /\ modified' = ClipRange(modified, opStart, i - 1)
    /\ lastGood' = FALSE
    /\ opStart' = i + 1
    /\ i' = i + 1
    /\ UNCHANGED <<al, clipMode, lEnd, ab, pc>>

\* A skip whose junction is not trusted (lines 118-121, 127-136).
BadJunction ==
    /\ Iterating
    /\ Op.type = REFSKIP
    /\ ~GetJunction(Location)
    /\ LET from == IF lastGood THEN i ELSE opStart
       IN  modified' = ClipRange(modified, from, i - 1)
    /\ lastGood' = FALSE
    /\ opStart' = i + 1
    /\ i' = i + 1
    /\ UNCHANGED <<al, clipMode, lEnd, ab, pc>>

\* Any other reference-consuming operation advances the cursor (138-140).
ConsumeReference ==
    /\ Iterating
    /\ Op.type # REFSKIP
    /\ OpConsumesReference(Op.type)
    /\ lEnd' = lEnd + Op.length
    /\ i' = i + 1
    /\ UNCHANGED <<al, clipMode, opStart, lastGood, ab, modified, pc>>

\* The loop body without its increment: an operation that consumes no
\* reference is seen again and again.
OtherOpStalls ==
    /\ Iterating
    /\ Op.type # REFSKIP
    /\ ~OpConsumesReference(Op.type)
    /\ UNCHANGED vars

\* An operation that consumes no reference is passed over.
OtherOp ==
    /\ Iterating
    /\ Op.type # REFSKIP
    /\ ~OpConsumesReference(Op.type)
    /\ i' = i + 1
    /\ UNCHANGED <<al, clipMode, lEnd, opStart, lastGood, ab, modified, pc>>

\* Loop exit (lines 142-148): clip the tail unless the last skip was trusted.
ClipTail ==
    /\ pc = "loop"
    /\ i > Len(al.cigar)
    /\ ~lastGood
    /\ modified' = ClipRange(modified, opStart, Len(al.cigar))
    /\ pc' = "done"
    /\ UNCHANGED <<al, clipMode, i, lEnd, opStart, lastGood, ab>>

KeepTail ==
    /\ pc = "loop"
    /\ i > Len(al.cigar)
    /\ lastGood
    /\ pc' = "done"
    /\ UNCHANGED <<al, clipMode, i, lEnd, opStart, lastGood, ab, modified>>

Returned == pc = "done" /\ UNCHANGED vars

Next ==
    \/ GoodJunction
    \/ BadJunction
    \/ ConsumeReference
    \/ OtherOp
    \/ ClipTail
    \/ KeepTail
    \/ Returned

Spec == Init /\ [][Next]_vars

\* clipMSR runs on the filter's single thread: once called, each of its
\* statements is executed in turn, so a step that can be taken is taken.
FairSpec == Spec /\ WF_vars(Next)

-----------------------------------------------------------------------------
(***************************************************************************)
(* Properties.                                                             *)
(***************************************************************************)

TypeOK ==
    /\ al \in Alignments(RefIds)
    /\ clipMode \in {HARD, SOFT}
    /\ i \in 1 .. Len(al.cigar) + 1
    /\ lEnd \in Int
    /\ opStart \in 1 .. Len(al.cigar) + 1
    /\ lastGood \in BOOLEAN
    /\ ab \in BOOLEAN
    /\ modified \in [1 .. Len(al.cigar) -> CigarOps]
    /\ pc \in {"loop", "done"}

\* Clipping rewrites only operation types: at every point of the walk the
\* copy has the original's operation count and lengths, and its reference
\* skips are exactly the original's (spec 8: "only kinds differ").
ShapePreserved ==
    \A j \in 1 .. Len(al.cigar) :
        /\ modified[j].length = al.cigar[j].length
        /\ modified[j].type = REFSKIP <=> al.cigar[j].type = REFSKIP

\* The loop implements ClipMSRSpec: when clipMSR returns, the copy and
\* allBad are what the segment rule prescribes; before, the caller still
\* sees its own allBad = false and no result.
Abstract == INSTANCE ClipMSRSpec WITH
    result <- IF pc = "done" THEN modified ELSE al.cigar,
    allBad <- IF pc = "done" THEN ab ELSE FALSE,
    done   <- pc = "done"

ImplementsClipMSRSpec == Abstract!Spec

\* Every call returns: the walk over a finite CIGAR ends and the caller
\* gets its clipped copy and allBad.
ClipReturns == <>(pc = "done")

-----------------------------------------------------------------------------
(***************************************************************************)
(* What the spec says of clipMSR and the code does not do; each is the    *)
(* property of a run expected to be violated.                             *)
(***************************************************************************)

\* Spec 4.4/4.5: the cursor is advanced by every reference-consuming
\* operation, skips included, so that each skip's junction is looked up at
\* its true reference coordinates.  The code advances lEnd only in the
\* `else if` that a REFSKIP never reaches (bam_filter.cc:118, 138).
CursorTracksReference ==
    pc = "loop" => lEnd = al.position + RefOffset(al.cigar, i)

\* Spec 1, 4.5 and the worked example of spec 8: an untrusted junction is
\* clipped out, so a read kept by clipMSR (allBad false) keeps only skips
\* whose junction is trusted.  The code clips [opStart, i) and never the
\* skip at i itself (bam_filter.cc:131).
UntrustedJunctionsClipped ==
    (pc = "done" /\ ~ab) =>
        \A k \in SkipIndices(modified) : GoodSkip(al, k)

\* Spec 8: clipping never changes the reference span of the alignment.  The
\* code rewrites reference-consuming operations to H or S, which consume
\* no reference, and leaves the position as it was (bam_filter.cc:132, 144).
SpanPreserved ==
    pc = "done" => AlignedLength(modified) = AlignedLength(al.cigar)
=============================================================================
