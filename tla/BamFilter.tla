------------------------------ MODULE BamFilter ------------------------------
(***************************************************************************)
(* BamFilter::filter (bam_filter.cc:152-244) with the checks of the       *)
(* constructor (46-66): one step per alignment read from the BAM file.    *)
(* Each alignment is routed by its splicing: unspliced reads are written; *)
(* spliced reads in COMPLETE mode, and singly spliced reads in any mode,  *)
(* are written unchanged if containsJunctionInSystem finds one of their   *)
(* junctions; multiply spliced reads in HARD or SOFT mode are clipped by  *)
(* clipMSR (used through ClipRule, which ClipMSR.tla shows the loop       *)
(* implements) and written unless allBad.  The three writers, the         *)
(* counters and the final indexing call are kept; file names, messages   *)
(* and timing are left out.  Each record in the outputs carries the index *)
(* of the input alignment it was written for (src), a history field the  *)
(* code does not store, used only to state properties.                    *)
(***************************************************************************)
EXTENDS ClipRule

CONSTANT MaxReads   \* longest BAM file

ASSUME MaxReadsAssumption == MaxReads \in Nat

VARIABLES
    clipMode,           \* setClipMode, fixed before filter() runs
    saveMSRs,           \* setSaveMSRs
    bam,                \* the alignments of the BAM file, in order
    next,               \* index of the next alignment reader.next() yields
    out,                \* records written to the filtered BAM (writer)
    mod,                \* records written to the .mod.bam side channel
    unmod,              \* records written to the .unmod.bam side channel
    nbReadsIn,
    nbReadsOut,
    nbReadsModifiedOut,
    phase               \* "setup", "filtering", "indexing", "done", "failed"

vars == <<clipMode, saveMSRs, bam, next, out, mod, unmod,
          nbReadsIn, nbReadsOut, nbReadsModifiedOut, phase>>

\* An output record: the alignment written and the input it came from.
Written(rec) == [src |-> next, rec |-> rec]

Init ==
    /\ clipMode \in ClipModes
    /\ saveMSRs \in BOOLEAN
    /\ bam \in UNION {[1 .. n -> Inputs] : n \in 0 .. MaxReads}
    /\ next = 1
    /\ out = <<>>
    /\ mod = <<>>
    /\ unmod = <<>>
    /\ nbReadsIn = 0
    /\ nbReadsOut = 0
    /\ nbReadsModifiedOut = 0
    /\ phase = "setup"

\* The junction file or the BAM is missing, or the output directory cannot
\* be made (lines 57-65, 165-174): an exception before any record is read.
SetupFailed ==
    /\ phase = "setup"
    /\ phase' = "failed"
    /\ UNCHANGED <<clipMode, saveMSRs, bam, next, out, mod, unmod,
                   nbReadsIn, nbReadsOut, nbReadsModifiedOut>>

\* Junctions loaded, reader and writers opened (lines 153-186).
Setup ==
    /\ phase = "setup"
    /\ phase' = "filtering"
    /\ UNCHANGED <<clipMode, saveMSRs, bam, next, out, mod, unmod,
                   nbReadsIn, nbReadsOut, nbReadsModifiedOut>>

(***************************************************************************)
(* Plausible bugs, each defined just before the definition it alters.     *)
(***************************************************************************)
\* The reader advanced twice per alignment.
ReadingSkipsOne ==
    /\ phase = "filtering"
    /\ next <= Len(bam)
    /\ next' = next + 2
    /\ nbReadsIn' = nbReadsIn + 1
    /\ UNCHANGED <<clipMode, saveMSRs, bam, phase>>

\* reader.next() yields the alignment al = reader.current(); nbReadsIn++
\* (lines 190-192).  Every routing action below starts with this guard.
Reading ==
    /\ phase = "filtering"
    /\ next <= Len(bam)
    /\ next' = next + 1
    /\ nbReadsIn' = nbReadsIn + 1
    /\ UNCHANGED <<clipMode, saveMSRs, bam, phase>>

\* reader.current()
Current == bam[next]

\* The containment-check route (line 197).
CheckedByContainment(a) == clipMode = COMPLETE \/ ~IsMultiplySplicedRead(a)

\* nbReadsOut++ left out of the unspliced branch.
PassUnsplicedUncounted ==
    /\ Reading
    /\ ~IsSplicedRead(Current)
    /\ out' = Append(out, Written(Current))
    /\ UNCHANGED <<mod, unmod, nbReadsOut, nbReadsModifiedOut>>

\* Unspliced: written as is (lines 218-221).
PassUnspliced ==
    /\ Reading
    /\ ~IsSplicedRead(Current)
    /\ out' = Append(out, Written(Current))
    /\ nbReadsOut' = nbReadsOut + 1
    /\ UNCHANGED <<mod, unmod, nbReadsModifiedOut>>

\* Spliced, containment route, a junction found: written (lines 197-201).
KeepJunction ==
    /\ Reading
    /\ IsSplicedRead(Current)
    /\ CheckedByContainment(Current)
    /\ ContainsJunctionInSystem(Current)
    /\ out' = Append(out, Written(Current))
    /\ nbReadsOut' = nbReadsOut + 1
    /\ UNCHANGED <<mod, unmod, nbReadsModifiedOut>>

\* Spliced, containment route, no junction found: discarded.
DropJunction ==
    /\ Reading
    /\ IsSplicedRead(Current)
    /\ CheckedByContainment(Current)
    /\ ~ContainsJunctionInSystem(Current)
    /\ UNCHANGED <<out, mod, unmod, nbReadsOut, nbReadsModifiedOut>>

\* The alignment clipMSR returns.
ClippedCopy(a) == [a EXCEPT !.cigar = ClipResult(a, clipMode)]

\* The `if (!allBad)` of line 207 left out.
KeepClippedAllBad ==
    /\ Reading
    /\ IsSplicedRead(Current)
    /\ ~CheckedByContainment(Current)
    /\ out' = Append(out, Written(ClippedCopy(Current)))
    /\ mod' = IF saveMSRs THEN Append(mod, Written(ClippedCopy(Current))) ELSE mod
    /\ unmod' = IF saveMSRs THEN Append(unmod, Written(Current)) ELSE unmod
    /\ nbReadsModifiedOut' = nbReadsModifiedOut + 1
    /\ nbReadsOut' = nbReadsOut + 1

\* The side channels swapped: the original to .mod, the clipped copy to .unmod.
KeepClippedSwapped ==
    /\ Reading
    /\ IsSplicedRead(Current)
    /\ ~CheckedByContainment(Current)
    /\ ~AllBad(Current)
    /\ out' = Append(out, Written(ClippedCopy(Current)))
    /\ mod' = IF saveMSRs THEN Append(mod, Written(Current)) ELSE mod
    /\ unmod' = IF saveMSRs THEN Append(unmod, Written(ClippedCopy(Current))) ELSE unmod
    /\ nbReadsModifiedOut' = nbReadsModifiedOut + 1
    /\ nbReadsOut' = nbReadsOut + 1

\* MSR in HARD or SOFT mode, clipped and not allBad: the clipped copy is
\* written, and with saveMSRs also to both side channels (lines 203-215).
KeepClipped ==
    /\ Reading
    /\ IsSplicedRead(Current)
    /\ ~CheckedByContainment(Current)
    /\ ~AllBad(Current)
    /\ out' = Append(out, Written(ClippedCopy(Current)))
    /\ mod' = IF saveMSRs THEN Append(mod, Written(ClippedCopy(Current))) ELSE mod
    /\ unmod' = IF saveMSRs THEN Append(unmod, Written(Current)) ELSE unmod
    /\ nbReadsModifiedOut' = nbReadsModifiedOut + 1
    /\ nbReadsOut' = nbReadsOut + 1

\* MSR in HARD or SOFT mode with allBad: nothing is written.
DropClipped ==
    /\ Reading
    /\ IsSplicedRead(Current)
    /\ ~CheckedByContainment(Current)
    /\ AllBad(Current)
    /\ UNCHANGED <<out, mod, unmod, nbReadsOut, nbReadsModifiedOut>>

\* The end of the input not detected: the loop is never left.
EndOfInputMissed ==
    /\ phase = "filtering"
    /\ next > Len(bam)
    /\ UNCHANGED vars

\* reader.next() is false: the files are closed and the index command run
\* (lines 223-241); a non-zero exit code throws after the output is written.
EndOfInput ==
    /\ phase = "filtering"
    /\ next > Len(bam)
    /\ phase' = "indexing"
    /\ UNCHANGED <<clipMode, saveMSRs, bam, next, out, mod, unmod,
                   nbReadsIn, nbReadsOut, nbReadsModifiedOut>>

IndexResult ==
    /\ phase = "indexing"
    /\ phase' \in {"done", "failed"}
    /\ UNCHANGED <<clipMode, saveMSRs, bam, next, out, mod, unmod,
                   nbReadsIn, nbReadsOut, nbReadsModifiedOut>>

Terminating == phase \in {"done", "failed"} /\ UNCHANGED vars

Next ==
    \/ SetupFailed
    \/ Setup
    \/ PassUnspliced
    \/ KeepJunction
    \/ DropJunction
    \/ KeepClipped
    \/ DropClipped
    \/ EndOfInput
    \/ IndexResult
    \/ Terminating

Spec == Init /\ [][Next]_vars

\* filter() runs on a single thread with no waiting but blocking I/O on
\* the reader, the writers and the index command, which the model takes
\* to return: a step that can be taken is taken.
FairSpec == Spec /\ WF_vars(Next)

-----------------------------------------------------------------------------
(***************************************************************************)
(* Properties.                                                             *)
(***************************************************************************)

OutRecords == [src : Nat \ {0}, rec : Alignments(RefIds)]

TypeOK ==
    /\ clipMode \in ClipModes
    /\ saveMSRs \in BOOLEAN
    /\ bam \in Seq(Inputs)
    /\ next \in 1 .. Len(bam) + 1
    /\ out \in Seq(OutRecords)
    /\ mod \in Seq(OutRecords)
    /\ unmod \in Seq(OutRecords)
    /\ nbReadsIn \in Nat
    /\ nbReadsOut \in Nat
    /\ nbReadsModifiedOut \in Nat
    /\ phase \in {"setup", "filtering", "indexing", "done", "failed"}

\* The inputs some record was written for.
Sources(s) == {s[m].src : m \in DOMAIN s}

\* The MSRs that take the clipping route.
ClipRouted(a) == IsSplicedRead(a) /\ ~CheckedByContainment(a)

\* Routing (spec 4.6, 8): of the alignments read so far, exactly those that
\* are unspliced or have a junction in the junction system were written,
\* each once -- whichever route (containment check or clipMSR's allBad)
\* the clip mode and the number of junctions sent it down.
KeptIffTrusted ==
    /\ \A k \in 1 .. next - 1 :
           k \in Sources(out)
             <=> ~IsSplicedRead(bam[k]) \/ ContainsJunctionInSystem(bam[k])
    /\ \A m, n \in DOMAIN out : m < n => out[m].src < out[n].src

\* The side channels (lines 209-212): with saveMSRs, .mod.bam and
\* .unmod.bam hold, in lockstep, the clipped copy and the original of
\* exactly the clipped MSRs written to the output, and the modified counter
\* counts them; without saveMSRs both stay empty.  A read written
\* unchanged by the containment route never reaches them.
SideChannelsLockstep ==
    /\ Len(mod) = Len(unmod)
    /\ saveMSRs => Len(mod) = nbReadsModifiedOut
    /\ ~saveMSRs => mod = <<>>
    /\ \A m \in DOMAIN mod :
           /\ mod[m].src = unmod[m].src
           /\ unmod[m].rec = bam[unmod[m].src]
           /\ ClipRouted(unmod[m].rec)
           /\ \E n \in DOMAIN out : out[n] = mod[m]

\* The counters printed at the end (line 231) match what was read and
\* written: reads in, reads out, and reads written by the clipping route.
CountersMatchOutput ==
    /\ nbReadsIn = next - 1
    /\ nbReadsOut = Len(out)
    /\ nbReadsModifiedOut =
           Cardinality({m \in DOMAIN out : ClipRouted(bam[out[m].src])})

\* Once records are being read, the run ends -- with the index built or
\* the index command failed -- and only after every alignment of the BAM
\* file has been read (the while loop of lines 190-222 is left only at
\* the end of the input).
FilterCompletes ==
    phase = "filtering" ~> (phase \in {"done", "failed"} /\ nbReadsIn = Len(bam))

\* The "Modified" count printed at line 231 counts records written with a
\* rewritten CIGAR (spec 4.6: records emitted-as-modified).  The code
\* increments it for every kept MSR, also when all its junctions are
\* trusted and clipMSR changed nothing (line 213).
ModifiedCountIsModified ==
    nbReadsModifiedOut =
        Cardinality({m \in DOMAIN out : out[m].rec # bam[out[m].src]})

\* Spec 4.5 (clip-kind selection): in COMPLETE mode "a read with any
\* untrusted junction among multiple is entirely discarded", so every MSR
\* written in COMPLETE mode has only trusted junctions.  The code sends
\* COMPLETE-mode MSRs to containsJunctionInSystem, which keeps a read when
\* any one junction is trusted (bam_filter.cc:197-198), as spec 4.6 says.
CompleteModeDropsUntrustedMSRs ==
    clipMode = COMPLETE =>
        \A m \in DOMAIN out :
            IsMultiplySplicedRead(out[m].rec) =>
                \A k \in SkipIndices(out[m].rec.cigar) : GoodSkip(out[m].rec, k)
=============================================================================
