---------------------------- MODULE ClipRuleProofs ----------------------------
(***************************************************************************)
(* Facts about the clipping rule of ClipRule.tla -- what clipMSR returns  *)
(* -- for every alignment, clip mode and junction file.                   *)
(***************************************************************************)
EXTENDS ClipRule, TLAPS

USE TrustedAssumption

\* The clip operation of every clip mode is an operation type, and no skip.
LEMMA ModOpNoSkip ==
    ASSUME NEW cm \in ClipModes
    PROVE  ModOp(cm) \in OpTypes /\ ModOp(cm) # REFSKIP
BY DEF ModOp, ClipModes, OpTypes, HARDCLIP, SOFTCLIP, DEL, REFSKIP

\* The clipped copy (setCigarOpAt, bam_filter.cc:132 and 144) has the
\* original's operation count and lengths, and a reference skip exactly
\* where the original has one: clipping rewrites kinds only, and never
\* turns a skip into a clip or a clip into a skip.
THEOREM ClipResultShape ==
    ASSUME NEW a \in Alignments(RefIds), NEW cm \in ClipModes
    PROVE  /\ ClipResult(a, cm) \in Seq(CigarOps)
           /\ Len(ClipResult(a, cm)) = Len(a.cigar)
           /\ \A j \in 1 .. Len(a.cigar) :
                 /\ ClipResult(a, cm)[j].length = a.cigar[j].length
                 /\ ClipResult(a, cm)[j].type = REFSKIP <=> a.cigar[j].type = REFSKIP
<1>1. a.cigar \in Seq(CigarOps)
  BY DEF Alignments
<1>2. \A j \in 1 .. Len(a.cigar) :
          /\ ClipResult(a, cm)[j] \in CigarOps
          /\ ClipResult(a, cm)[j].length = a.cigar[j].length
          /\ ClipResult(a, cm)[j].type = REFSKIP <=> a.cigar[j].type = REFSKIP
  <2>. SUFFICES ASSUME NEW j \in 1 .. Len(a.cigar)
                PROVE  /\ ClipResult(a, cm)[j] \in CigarOps
                       /\ ClipResult(a, cm)[j].length = a.cigar[j].length
                       /\ ClipResult(a, cm)[j].type = REFSKIP
                            <=> a.cigar[j].type = REFSKIP
    OBVIOUS
  <2>1. a.cigar[j] \in CigarOps
    BY <1>1
  <2>2. CASE Clipped(a, j)
    <3>1. a.cigar[j].type # REFSKIP
      BY <2>2 DEF Clipped, SkipIndices
    <3>2. ClipResult(a, cm)[j] = CigarOp(ModOp(cm), a.cigar[j].length)
      BY <2>2 DEF ClipResult
    <3>. QED
      BY <2>1, <3>1, <3>2, ModOpNoSkip DEF CigarOp, CigarOps
  <2>3. CASE ~Clipped(a, j)
    BY <2>1, <2>3 DEF ClipResult
  <2>. QED
    BY <2>2, <2>3
<1>3. ClipResult(a, cm) \in [1 .. Len(a.cigar) -> CigarOps]
  BY <1>2 DEF ClipResult
<1>. QED
  BY <1>1, <1>2, <1>3

\* With allBad (no skip of the read derives a trusted junction), clipMSR
\* clips every operation that is not a skip: every segment of the read is
\* bounded by untrusted skips only.
THEOREM AllBadClipsEverySegment ==
    ASSUME NEW a \in Alignments(RefIds), NEW cm \in ClipModes, AllBad(a),
           NEW j \in 1 .. Len(a.cigar), a.cigar[j].type # REFSKIP
    PROVE  ClipResult(a, cm)[j] = CigarOp(ModOp(cm), a.cigar[j].length)
<1>1. ~\E k \in SkipIndices(a.cigar) : GoodSkip(a, k)
  BY DEF AllBad, ContainsJunctionInSystem
<1>2. Clipped(a, j)
  BY <1>1 DEF Clipped, SkipIndices
<1>. QED
  BY <1>2 DEF ClipResult

\* A trusted junction keeps what it bounds: every operation of the two
\* segments on either side of a skip whose derived junction is in the
\* junction system is written as it was read (bam_filter.cc:122-126).
THEOREM TrustedSkipKeepsSegments ==
    ASSUME NEW a \in Alignments(RefIds), NEW cm \in ClipModes,
           NEW k \in SkipIndices(a.cigar), GoodSkip(a, k),
           NEW j \in 1 .. Len(a.cigar), Bounds(a.cigar, k, j)
    PROVE  ClipResult(a, cm)[j] = a.cigar[j]
<1>1. ~Clipped(a, j)
  BY DEF Clipped
<1>. QED
  BY <1>1 DEF ClipResult
=============================================================================
