--------------------------- MODULE BamFilterProofs ---------------------------
(***************************************************************************)
(* Proofs about BamFilter::filter (BamFilter.tla), for every junction     *)
(* file, every set of alignments and every length of BAM file.            *)
(***************************************************************************)
EXTENDS BamFilter, FiniteSetTheorems, TLAPS

USE TrustedAssumption, InputsAssumption, MaxReadsAssumption

(***************************************************************************)
(* The routing invariant is stated of the alignments read so far; to be   *)
(* inductive it needs that every record written came from one of them.    *)
(* The counter invariant needs the same to know that the record appended  *)
(* now is the only new one.                                               *)
(***************************************************************************)
SourcesRead == \A m \in DOMAIN out : out[m].src \in 1 .. next - 1

IInv == TypeOK /\ SourcesRead /\ KeptIffTrusted /\ CountersMatchOutput

\* Whether the alignment under the reader is written, whatever its route.
Kept(a) == ~IsSplicedRead(a) \/ ContainsJunctionInSystem(a)

\* The clip operation is an operation type.
LEMMA ModOpType == \A m \in ClipModes : ModOp(m) \in OpTypes
BY DEF ModOp, OpTypes, HARDCLIP, SOFTCLIP, DEL, ClipModes

\* clipMSR's copy is an alignment.
LEMMA ClippedCopyType ==
    ASSUME NEW a \in Alignments(RefIds), NEW cm \in ClipModes
    PROVE  [a EXCEPT !.cigar = ClipResult(a, cm)] \in Alignments(RefIds)
<1>1. a.cigar \in Seq(CigarOps)
  BY DEF Alignments
<1>2. ModOp(cm) \in OpTypes
  BY ModOpType
<1>3. \A j \in 1 .. Len(a.cigar) :
          /\ a.cigar[j] \in CigarOps
          /\ CigarOp(ModOp(cm), a.cigar[j].length) \in CigarOps
  <2>. SUFFICES ASSUME NEW j \in 1 .. Len(a.cigar)
               PROVE  /\ a.cigar[j] \in CigarOps
                      /\ CigarOp(ModOp(cm), a.cigar[j].length) \in CigarOps
    OBVIOUS
  <2>1. a.cigar[j] \in CigarOps
    BY <1>1
  <2>2. a.cigar[j].length \in Nat
    BY <2>1 DEF CigarOps
  <2>. QED
    BY <1>2, <2>1, <2>2 DEF CigarOp, CigarOps
<1>4. ClipResult(a, cm) \in [1 .. Len(a.cigar) -> CigarOps]
  BY <1>3 DEF ClipResult
<1>5. ClipResult(a, cm) \in Seq(CigarOps)
  BY <1>1, <1>4
<1>. QED
  BY <1>5 DEF Alignments

\* A record appended to an output adds its source to the output's sources.
LEMMA SourcesAppend ==
    ASSUME NEW s \in Seq(OutRecords), NEW w \in OutRecords
    PROVE  Sources(Append(s, w)) = Sources(s) \cup {w.src}
<1>1. /\ DOMAIN Append(s, w) = 1 .. Len(s) + 1
      /\ \A m \in 1 .. Len(s) : Append(s, w)[m] = s[m]
      /\ Append(s, w)[Len(s) + 1] = w
      /\ DOMAIN s = 1 .. Len(s)
  OBVIOUS
<1>. QED
  BY <1>1 DEF Sources

\* The records of an output that the clipping route wrote, and how
\* appending one record changes them.
ClipSet(s) == {m \in DOMAIN s : ClipRouted(bam[s[m].src])}

LEMMA ClipSetAppend ==
    ASSUME NEW s \in Seq(OutRecords), NEW w \in OutRecords
    PROVE  /\ IsFiniteSet(ClipSet(s))
           /\ Len(s) + 1 \notin ClipSet(s)
           /\ ClipSet(Append(s, w)) =
                 IF ClipRouted(bam[w.src]) THEN ClipSet(s) \cup {Len(s) + 1}
                                           ELSE ClipSet(s)
<1>1. ClipSet(s) \subseteq 1 .. Len(s)
  BY DEF ClipSet
<1>2. IsFiniteSet(ClipSet(s))
  BY <1>1, FS_Interval, FS_Subset
<1>. QED
  BY <1>1, <1>2 DEF ClipSet


THEOREM InitIInv == Init => IInv
<1>. SUFFICES ASSUME Init PROVE IInv
  OBVIOUS
<1>1. bam \in Seq(Inputs)
  BY DEF Init
<1>2. TypeOK
  BY <1>1 DEF Init, TypeOK, ClipModes
<1>3. ClipSet(out) = {}
  BY DEF Init, ClipSet
<1>4. CountersMatchOutput
  BY <1>3, FS_EmptySet DEF Init, CountersMatchOutput, ClipSet
<1>. QED
  BY <1>2, <1>4 DEF Init, IInv, SourcesRead, KeptIffTrusted, Sources


\* An alignment read and written: the invariant is kept, whatever record
\* (the alignment or clipMSR's copy) is written for it.
LEMMA KeepStep ==
    ASSUME IInv, Reading,
           NEW x \in Alignments(RefIds),
           out' = Append(out, [src |-> next, rec |-> x]),
           Kept(bam[next]),
           nbReadsOut' = nbReadsOut + 1,
           nbReadsModifiedOut' = IF ClipRouted(bam[next])
                                 THEN nbReadsModifiedOut + 1
                                 ELSE nbReadsModifiedOut,
           mod' \in Seq(OutRecords), unmod' \in Seq(OutRecords)
    PROVE  IInv'
<1>. DEFINE w == [src |-> next, rec |-> x]
<1>1. /\ next \in 1 .. Len(bam)
      /\ next' = next + 1
      /\ bam' = bam /\ clipMode' = clipMode /\ saveMSRs' = saveMSRs
      /\ phase' = phase /\ nbReadsIn' = nbReadsIn + 1
  BY DEF Reading, IInv, TypeOK
<1>2. w \in OutRecords /\ out \in Seq(OutRecords)
  BY <1>1 DEF OutRecords, IInv, TypeOK
<1>3. TypeOK'
  BY <1>1, <1>2 DEF IInv, TypeOK
<1>4. /\ DOMAIN out' = 1 .. Len(out) + 1
      /\ \A m \in 1 .. Len(out) : out'[m] = out[m]
      /\ out'[Len(out) + 1] = w
      /\ DOMAIN out = 1 .. Len(out)
  BY <1>2
<1>5. SourcesRead'
  BY <1>1, <1>4 DEF IInv, SourcesRead
<1>6. KeptIffTrusted'
  <2>1. Sources(out') = Sources(out) \cup {next}
    BY <1>2, SourcesAppend
  <2>2. \A k \in 1 .. next - 1 : k \in Sources(out) <=> Kept(bam[k])
    BY DEF IInv, KeptIffTrusted, Kept
  <2>3. \A k \in 1 .. next'- 1 : k \in Sources(out') <=> Kept(bam[k])
    BY <1>1, <2>1, <2>2
  <2>4. \A m, n \in DOMAIN out' : m < n => out'[m].src < out'[n].src
    <3>. SUFFICES ASSUME NEW m \in DOMAIN out', NEW n \in DOMAIN out', m < n
                  PROVE  out'[m].src < out'[n].src
      OBVIOUS
    <3>1. m \in 1 .. Len(out) /\ out'[m] = out[m]
      BY <1>4
    <3>2. CASE n = Len(out) + 1
      <4>1. out[m].src \in 1 .. next - 1
        BY <1>4, <3>1 DEF IInv, SourcesRead
      <4>2. out'[n].src = next
        BY <1>4, <3>2
      <4>. QED  BY <1>1, <3>1, <4>1, <4>2
    <3>3. CASE n # Len(out) + 1
      <4>1. n \in 1 .. Len(out) /\ out'[n] = out[n]
        BY <1>4, <3>3
      <4>. QED  BY <3>1, <4>1 DEF IInv, KeptIffTrusted
    <3>. QED  BY <3>2, <3>3
  <2>. QED
    BY <1>1, <2>3, <2>4 DEF KeptIffTrusted, Kept
<1>7. CountersMatchOutput'
  <2>1. ClipSet(out)' = ClipSet(out')
    BY <1>1 DEF ClipSet, ClipRouted, CheckedByContainment
  <2>2. /\ IsFiniteSet(ClipSet(out))
        /\ Len(out) + 1 \notin ClipSet(out)
        /\ ClipSet(out') = IF ClipRouted(bam[next]) THEN ClipSet(out) \cup {Len(out) + 1}
                                                    ELSE ClipSet(out)
    BY <1>2, ClipSetAppend
  <2>3. Cardinality(ClipSet(out)') =
           IF ClipRouted(bam[next]) THEN Cardinality(ClipSet(out)) + 1
                                    ELSE Cardinality(ClipSet(out))
    <3>1. CASE ClipRouted(bam[next])
      <4>1. ClipSet(out') = ClipSet(out) \cup {Len(out) + 1}
        BY <2>2, <3>1
      <4>2. Cardinality(ClipSet(out')) = Cardinality(ClipSet(out)) + 1
        BY <2>2, <4>1, FS_AddElement
      <4>. QED  BY <2>1, <3>1, <4>2
    <3>2. CASE ~ClipRouted(bam[next])
      BY <2>1, <2>2, <3>2
    <3>. QED  BY <3>1, <3>2
  <2>4. nbReadsModifiedOut = Cardinality(ClipSet(out))
    BY DEF IInv, CountersMatchOutput, ClipSet
  <2>5. nbReadsModifiedOut' = Cardinality(ClipSet(out)')
    <3>1. CASE ClipRouted(bam[next])
      BY <2>3, <2>4, <3>1
    <3>2. CASE ~ClipRouted(bam[next])
      BY <2>3, <2>4, <3>2
    <3>. QED  BY <3>1, <3>2
  <2>6. nbReadsIn' = next' - 1 /\ nbReadsOut' = Len(out')
    BY <1>1, <1>4 DEF IInv, CountersMatchOutput
  <2>. QED
    BY <2>5, <2>6 DEF CountersMatchOutput, ClipSet
<1>. QED
  BY <1>3, <1>5, <1>6, <1>7 DEF IInv


\* An alignment read and discarded.
LEMMA DropStep ==
    ASSUME IInv, Reading, ~Kept(bam[next]),
           UNCHANGED <<out, mod, unmod, nbReadsOut, nbReadsModifiedOut>>
    PROVE  IInv'
<1>1. /\ next \in 1 .. Len(bam)
      /\ next' = next + 1
      /\ bam' = bam /\ clipMode' = clipMode /\ saveMSRs' = saveMSRs
      /\ phase' = phase /\ nbReadsIn' = nbReadsIn + 1
  BY DEF Reading, IInv, TypeOK
<1>2. TypeOK'
  BY <1>1 DEF IInv, TypeOK
<1>3. SourcesRead'
  BY <1>1 DEF IInv, SourcesRead
<1>4. next \notin Sources(out)
  BY DEF IInv, SourcesRead, Sources
<1>5. KeptIffTrusted'
  BY <1>1, <1>4 DEF IInv, KeptIffTrusted, Kept
<1>6. CountersMatchOutput'
  BY <1>1 DEF IInv, CountersMatchOutput, ClipRouted, CheckedByContainment
<1>. QED
  BY <1>2, <1>3, <1>5, <1>6 DEF IInv

\* A step that changes only the phase.
LEMMA PhaseStep ==
    ASSUME IInv,
           UNCHANGED <<clipMode, saveMSRs, bam, next, out, mod, unmod,
                       nbReadsIn, nbReadsOut, nbReadsModifiedOut>>,
           phase' \in {"setup", "filtering", "indexing", "done", "failed"}
    PROVE  IInv'
<1>1. TypeOK'
  BY DEF IInv, TypeOK
<1>2. SourcesRead' /\ KeptIffTrusted'
  BY DEF IInv, SourcesRead, KeptIffTrusted, Sources
<1>3. CountersMatchOutput'
  BY DEF IInv, CountersMatchOutput, ClipRouted, CheckedByContainment
<1>. QED
  BY <1>1, <1>2, <1>3 DEF IInv


THEOREM StepIInv == IInv /\ [Next]_vars => IInv'
<1>. SUFFICES ASSUME IInv, [Next]_vars PROVE IInv'
  OBVIOUS
<1>1. ASSUME Reading
      PROVE  /\ Current \in Alignments(RefIds)
             /\ Written(Current) \in OutRecords
             /\ Written(ClippedCopy(Current)) \in OutRecords
  <2>1. next \in 1 .. Len(bam) /\ bam \in Seq(Inputs)
    BY <1>1 DEF Reading, IInv, TypeOK
  <2>2. Current \in Alignments(RefIds)
    BY <2>1 DEF Current
  <2>3. ClippedCopy(Current) \in Alignments(RefIds)
    BY <2>2, ClippedCopyType DEF ClippedCopy, IInv, TypeOK
  <2>. QED
    BY <2>1, <2>2, <2>3 DEF Written, OutRecords
<1>2. ASSUME NEW r \in OutRecords PROVE Append(mod, r) \in Seq(OutRecords)
                                     /\ Append(unmod, r) \in Seq(OutRecords)
  BY DEF IInv, TypeOK
<1>3. CASE PassUnspliced
  <2>1. Kept(bam[next]) /\ ~ClipRouted(bam[next])
    BY <1>3 DEF PassUnspliced, Kept, ClipRouted, Current
  <2>. QED
    BY <1>1, <1>3, <2>1, KeepStep DEF PassUnspliced, Written, Current, IInv, TypeOK
<1>4. CASE KeepJunction
  <2>1. Kept(bam[next]) /\ ~ClipRouted(bam[next])
    BY <1>4 DEF KeepJunction, Kept, ClipRouted, Current
  <2>. QED
    BY <1>1, <1>4, <2>1, KeepStep DEF KeepJunction, Written, Current, IInv, TypeOK
<1>5. CASE KeepClipped
  <2>1. Kept(bam[next]) /\ ClipRouted(bam[next])
    BY <1>5 DEF KeepClipped, Kept, ClipRouted, AllBad, Current
  <2>2. mod' \in Seq(OutRecords) /\ unmod' \in Seq(OutRecords)
    BY <1>1, <1>2, <1>5 DEF KeepClipped, IInv, TypeOK
  <2>3. Reading /\ out' = Append(out, [src |-> next, rec |-> ClippedCopy(Current)])
    BY <1>5 DEF KeepClipped, Written
  <2>4. ClippedCopy(Current) \in Alignments(RefIds)
    BY <1>1, <2>3 DEF Written, OutRecords
  <2>5. nbReadsOut' = nbReadsOut + 1 /\ nbReadsModifiedOut' = nbReadsModifiedOut + 1
    BY <1>5 DEF KeepClipped
  <2>. QED
    BY <2>1, <2>2, <2>3, <2>4, <2>5, KeepStep
<1>6. CASE DropJunction
  BY <1>6, DropStep DEF DropJunction, Kept, Current
<1>7. CASE DropClipped
  BY <1>7, DropStep DEF DropClipped, Kept, AllBad, Current
<1>8. CASE SetupFailed \/ Setup \/ EndOfInput \/ IndexResult
  BY <1>8, PhaseStep DEF SetupFailed, Setup, EndOfInput, IndexResult
<1>9. CASE Terminating \/ UNCHANGED vars
  BY <1>9, PhaseStep DEF Terminating, vars, IInv, TypeOK
<1>. QED
  BY <1>3, <1>4, <1>5, <1>6, <1>7, <1>8, <1>9 DEF Next

\* Every state of filter() is well typed.
THEOREM TypeCorrect == Spec => []TypeOK
BY InitIInv, StepIInv, PTL DEF Spec, IInv

\* For every junction file, clip mode and BAM file: of the alignments read
\* so far, exactly those unspliced or with a trusted junction (at the
\* cursor the code keeps) were written, once each and in input order --
\* through the containment check and through clipMSR's allBad alike.
THEOREM RoutingTheorem == Spec => []KeptIffTrusted
BY InitIInv, StepIInv, PTL DEF Spec, IInv

\* For every input, the counters filter() prints are the alignments read,
\* the records written and the records the clipping route wrote.
THEOREM CountersTheorem == Spec => []CountersMatchOutput
BY InitIInv, StepIInv, PTL DEF Spec, IInv


(***************************************************************************)
(* The side channels.  SideChannelsLockstep refers to the output and the  *)
(* counter, so its step is proved on top of IInv.                         *)
(***************************************************************************)
SInv == IInv /\ SideChannelsLockstep

\* A step that leaves the side channels, saveMSRs, the input, the clip
\* mode and the modified counter alone and only extends the output.
LEMMA SideUnchanged ==
    ASSUME SInv,
           UNCHANGED <<mod, unmod, saveMSRs, bam, clipMode, nbReadsModifiedOut>>,
           \E r : out' = out \/ out' = Append(out, r)
    PROVE  SideChannelsLockstep'
<1>1. out \in Seq(OutRecords)
  BY DEF SInv, IInv, TypeOK
<1>2. \A n \in DOMAIN out : n \in DOMAIN out' /\ out'[n] = out[n]
  BY <1>1
<1>. QED
  BY <1>2 DEF SInv, SideChannelsLockstep, ClipRouted, CheckedByContainment

THEOREM StepSInv == SInv /\ [Next]_vars => SInv'
<1>. SUFFICES ASSUME SInv, [Next]_vars PROVE SInv'
  OBVIOUS
<1>1. IInv'
  BY StepIInv DEF SInv
<1>2. CASE KeepClipped
  <2>. DEFINE c == Written(ClippedCopy(Current))
              o == Written(Current)
  <2>1. out \in Seq(OutRecords) /\ mod \in Seq(OutRecords) /\ unmod \in Seq(OutRecords)
    BY DEF SInv, IInv, TypeOK
  <2>2. /\ out' = Append(out, c)
        /\ nbReadsModifiedOut' = nbReadsModifiedOut + 1
        /\ UNCHANGED <<saveMSRs, bam, clipMode>>
        /\ Current = bam[next] /\ ClipRouted(bam[next])
        /\ c.src = next /\ o.src = next /\ o.rec = bam[next]
    BY <1>2 DEF KeepClipped, Reading, Current, ClipRouted, Written
  <2>3. \A n \in DOMAIN out : n \in DOMAIN out' /\ out'[n] = out[n]
    BY <2>1, <2>2
  <2>4. ASSUME saveMSRs PROVE SideChannelsLockstep'
    <3>1. mod' = Append(mod, c) /\ unmod' = Append(unmod, o)
      BY <1>2, <2>4 DEF KeepClipped
    <3>2. Len(out) + 1 \in DOMAIN out' /\ out'[Len(out) + 1] = c
      BY <2>1, <2>2
    <3>3. Len(mod') = Len(unmod') /\ Len(mod') = nbReadsModifiedOut'
      BY <2>1, <2>2, <2>4, <3>1 DEF SInv, SideChannelsLockstep
    <3>4. \A m \in DOMAIN mod' :
              /\ mod'[m].src = unmod'[m].src
              /\ unmod'[m].rec = bam[unmod'[m].src]
              /\ ClipRouted(unmod'[m].rec)
              /\ \E n \in DOMAIN out' : out'[n] = mod'[m]
      <4>. SUFFICES ASSUME NEW m \in DOMAIN mod'
                    PROVE  /\ mod'[m].src = unmod'[m].src
                           /\ unmod'[m].rec = bam[unmod'[m].src]
                           /\ ClipRouted(unmod'[m].rec)
                           /\ \E n \in DOMAIN out' : out'[n] = mod'[m]
        OBVIOUS
      <4>1. CASE m \in DOMAIN mod
        <5>1. mod'[m] = mod[m] /\ unmod'[m] = unmod[m] /\ m \in DOMAIN unmod
          BY <2>1, <3>1, <4>1 DEF SInv, SideChannelsLockstep
        <5>. QED
          BY <2>3, <4>1, <5>1 DEF SInv, SideChannelsLockstep
      <4>2. CASE m = Len(mod) + 1
        <5>1. mod'[m] = c /\ unmod'[m] = o
          BY <2>1, <3>1, <4>2 DEF SInv, SideChannelsLockstep
        <5>. QED
          BY <2>2, <3>2, <5>1
      <4>3. DOMAIN mod' = 1 .. Len(mod) + 1 /\ DOMAIN mod = 1 .. Len(mod)
        BY <2>1, <3>1
      <4>. QED
        BY <4>1, <4>2, <4>3
    <3>. QED
      BY <2>4, <2>2, <3>3, <3>4 DEF SideChannelsLockstep, ClipRouted, CheckedByContainment
  <2>5. ASSUME ~saveMSRs PROVE SideChannelsLockstep'
    <3>1. mod' = mod /\ unmod' = unmod /\ mod = <<>> /\ unmod = <<>>
      BY <1>2, <2>1, <2>5 DEF KeepClipped, SInv, SideChannelsLockstep
    <3>. QED
      BY <2>2, <2>5, <3>1 DEF SideChannelsLockstep
  <2>6. SideChannelsLockstep'
    BY <2>4, <2>5
  <2>. QED
    BY <1>1, <2>6 DEF SInv
<1>3. CASE PassUnspliced \/ KeepJunction
  <2>1. UNCHANGED <<mod, unmod, saveMSRs, bam, clipMode, nbReadsModifiedOut>>
    BY <1>3 DEF PassUnspliced, KeepJunction, Reading
  <2>2. \E r : out' = out \/ out' = Append(out, r)
    BY <1>3 DEF PassUnspliced, KeepJunction
  <2>. QED
    BY <1>1, <2>1, <2>2, SideUnchanged DEF SInv
<1>4. CASE DropJunction \/ DropClipped \/ SetupFailed \/ Setup \/ EndOfInput
              \/ IndexResult \/ Terminating \/ UNCHANGED vars
  <2>1. UNCHANGED <<out, mod, unmod, saveMSRs, bam, clipMode, nbReadsModifiedOut>>
    BY <1>4 DEF DropJunction, DropClipped, Reading, SetupFailed, Setup,
                EndOfInput, IndexResult, Terminating, vars
  <2>. QED
    BY <1>1, <2>1, SideUnchanged DEF SInv
<1>. QED
  BY <1>2, <1>3, <1>4 DEF Next

THEOREM InitSInv == Init => SInv
BY InitIInv DEF Init, SInv, SideChannelsLockstep

\* For every input and both values of saveMSRs: .mod.bam and .unmod.bam
\* stay in lockstep, holding the clipped copy and the original of exactly
\* the clipped MSRs written to the output (filter(), lines 207-213).
THEOREM SideChannelsTheorem == Spec => []SideChannelsLockstep
BY InitSInv, StepSInv, PTL DEF Spec, SInv
=============================================================================
