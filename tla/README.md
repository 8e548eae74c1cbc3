# TLA+ models of portcullis `bamfilt`

This directory holds a formal model of the BAM junction filter of portcullis. That filter is `BamFilter` in
`src/src/bam_filter.cc`, together with the CIGAR/alignment model in
`src/lib/include/portcullis/bam/bam_alignment.hpp` that it reads. The directory contains:
- TLA+ modules of each part;
- TLC configurations that model-check them on small instances;
- TLAPS proofs that hold for every junction file and every input.

## The system

`bamfilt` reads a coordinate-sorted BAM file and a file of trusted junctions. It writes a filtered
BAM, and optionally two side files, `.mod.bam` and `.unmod.bam`, holding the clipped and
original multiply spliced reads (MSRs). It then indexes the output with an external command.

Its parts and how they interact:

| Part | Source | Module |
|---|---|---|
| CIGAR model: operation types, consumes-reference/query, alignment fields, `getEnd`, `isMultiplySplicedRead` | `bam_alignment.hpp:46-117, 177-183, 221-223, 310-316` | `BamAlignment` |
| Junction index: an immutable set of trusted introns with exact (ref, start, end) lookup | built at `bam_filter.cc:155`, implementation outside `src/` | `JunctionSystem` |
| Junction derivation and `containsJunctionInSystem` | `bam_filter.cc:75-99` | `JunctionCheck` (what it answers), `ContainsJunctionSpec` (atomic), `ContainsJunction` (the loop) |
| `clipMSR`, the segment clipper | `bam_filter.cc:101-149` | `ClipRule` (what it computes), `ClipMSRSpec` (atomic), `ClipMSR` (the loop) |
| `filter()`: routing, writers, counters, indexing; constructor checks | `bam_filter.cc:46-66, 152-244` | `BamFilter` |
| Command line `main` | `bam_filter.cc:247-321` | not modelled |
| `BamReader`/`BamWriter`, samtools index | outside `src/` | not modelled (see below) |

`filter()` reads alignments in order and routes each one:
- an unspliced read is written;
- a spliced read in COMPLETE mode, or a singly spliced read in any mode, is written unchanged if
  `containsJunctionInSystem` finds one of its junctions;
- an MSR in HARD or SOFT mode goes to `clipMSR`. The clipped copy is written unless `allBad`, and with
  `saveMSRs` also to the side files.

Both junction walks derive the intron of a skip from a cursor `lEnd`. The cursor starts at the
position and is advanced in an `else if` branch that a skip never reaches.

## Modules

- `BamAlignment`: CIGAR operations as records `[type, length]` with the code's operation characters. It also defines:
  - `OpConsumesReference` and `OpConsumesQuery` (switches of the header);
  - alignments as `[refId, position, cigar]`, the only fields the filter reads;
  - the junction count and the predicates spliced and multiply spliced;
  - the reference span `AlignedLength`. This is a recursive *function*, not a RECURSIVE operator, so that modules with proofs may use it.
- `JunctionSystem`: the constant `Trusted` set of introns. `GetJunction(l) == l \in Trusted`.
- `JunctionCheck`: `LEndOffset` is the code's cursor, which is not advanced over `N`. `DerivedIntron(al, k)` is the intron built for skip `k`. `ContainsJunctionInSystem` is the any-match walk.
- `ContainsJunctionSpec`: `containsJunctionInSystem` as one atomic step.
- `ContainsJunction`: the walk one iteration per step. `FoundJunction` is the early `return true` (85-92), `MissedJunction` walks on past an untrusted skip, `ConsumeReference` and `OtherOp` are the `else if` (94-96) and `Exhausted` is the final `return false`. It is shown to implement `ContainsJunctionSpec` with `found <- pc = "done" /\ found` and `done <- pc = "done"`.
- `ClipRule`: what `clipMSR` computes, written declaratively. An operation that is not a skip is clipped iff no skip bounding its segment (the nearest skip on either side) is trusted. `AllBad` holds iff no skip is trusted. `ModOp` is the clip character.
- `ClipMSRSpec`: `clipMSR` as one atomic step from call to return.
- `ClipMSR`: the loop, one iteration per step. Its state is `i`, `lEnd`, `opStart`, `lastGood`, `ab`, the copy `modified` and `pc`. Each action is one branch:
  - `GoodJunction` and `BadJunction` (lines 118-136), with the `if (lastGood) opStart = i` reset and the clip of `[opStart, i)`;
  - `ConsumeReference` and `OtherOp` (138-140);
  - `ClipTail` and `KeepTail` (142-148).

  The loop is shown to implement `ClipMSRSpec` through the refinement mapping `result <- modified`, `allBad <- ab`, `done <- pc = "done"`, each taken once the loop has returned.
- `BamFilter`: one action per branch of the loop body of `filter()`:
  - `PassUnspliced`, `KeepJunction`, `DropJunction`, `KeepClipped`, `DropClipped`, each one iteration of `while (reader.next())`;
  - the setup and its failures (`SetupFailed`: missing files, output directory);
  - `EndOfInput` and `IndexResult`, where the index command either succeeds or throws.

  The outputs are sequences of records. Each record also carries the index of the input it came from; that is a history field used only by properties. A clipped MSR is written as `ClipResult`, which `ClipMSR` is checked to compute.
- `MCClipMSR`, `MCContainsJunction`, `MCBamFilter`: the instances for TLC.
- `ClipRuleProofs`, `ContainsJunctionProofs`, `ClipMSRProofs`, `BamFilterProofs`: the TLAPS proofs.

## Runs

| Run | Config | Expect | Checks |
|---|---|---|---|
| `clipmsr_loop` | `MCClipMSR.cfg` | pass | `TypeOK`, `ShapePreserved` (clipping rewrites only operation kinds, never a skip or a length), `ImplementsClipMSRSpec` (the loop refines the segment rule), `ClipReturns` (every call returns) |
| `contains_junction_loop` | `MCContainsJunction.cfg` | pass | `TypeOK`, `ImplementsContainsJunctionSpec` (the early-returning walk answers the any-match question, including for a trusted skip after an untrusted one), `CheckReturns` |
| `clipmsr_cursor` | `MCClipMSR_CursorTracksReference.cfg` | violation | the cursor equals the true reference offset |
| `clipmsr_untrusted_kept` | `MCClipMSR_UntrustedJunctionsClipped.cfg` | violation | a kept MSR holds only trusted skips |
| `clipmsr_span` | `MCClipMSR_SpanPreserved.cfg` | violation | clipping keeps the reference span |
| `filter_pipeline` | `MCBamFilter.cfg` | pass | `TypeOK`; `KeptIffTrusted` (a read is written, once and in order, iff it is unspliced or has a trusted junction, whichever route it takes); `SideChannelsLockstep`; `CountersMatchOutput`; `FilterCompletes` (once reading starts, the run ends, indexed or failed, only after every alignment has been read) |
| `filter_complete_mode` | `MCBamFilter_CompleteMode.cfg` | violation | in COMPLETE mode every written MSR has only trusted junctions (spec 4.5) |
| `filter_modified_count` | `MCBamFilter_ModifiedCount.cfg` | violation | the Modified counter counts reads whose CIGAR changed |

Bounds, and why they are enough:

- **`MCClipMSR`.** It explores every CIGAR of 2 to 5 operations drawn from M, I, D and N with lengths 1–2, at position 0. This gives about 180k states. Three trusted introns, (1,1), (2,3) and (3,3), sit at the offsets a first and a second skip reach. This holds both with the cursor the code uses and with the true one.
  - Every order of trusted and untrusted skips up to three skips is reached.
  - So are leading, inner and trailing segments, and the tail rule.
  - Both clip modes are explored.
- **`MCContainsJunction`.** It explores every CIGAR of 1 to 4 operations from the same alphabet, with the same trusted introns (about 17k states). Walks that return at the first, second or third skip occur, as do walks that return false after an untrusted skip.
- **`MCBamFilter`.** It explores BAM files of up to 2 reads, each a CIGAR of 1 to 4 operations from {1M, 1N, 2N}, in all clip modes and both `saveMSRs` values (about 700k states). Unspliced, singly spliced and multiply spliced reads, trusted or not, meet every route.

Each property of a passing run is broken by a mutant of the code, listed in `PROJECT.json`. Each mutant is a plausible bug:
- `opStart` advanced one too far;
- the untrusted skip included in its clip range;
- the `lastGood` reset dropped;
- the reader advanced twice;
- `allBad` ignored;
- side files swapped;
- a missing counter increment;
- `containsJunctionInSystem` returning false at the first untrusted skip;
- a loop body without its increment;
- the end of input missed.

**Fairness.** The passing runs use `FairSpec == Spec /\ WF_vars(Next)`. The filter is single-threaded: each statement runs in turn, and the only waits are blocking calls to the reader, the writers and the index command, which the model takes to return. Weak fairness of the whole next-state relation is therefore justified. No stronger fairness is needed, since no action is only intermittently enabled. Under that fairness:
- every call of `clipMSR` and of `containsJunctionInSystem` returns (`ClipReturns`, `CheckReturns`);
- a started run ends only after reading the whole input (`FilterCompletes`).

The mutants that break these properties are a loop body that loses its increment (`OtherOpStalls`) and a loop that misses the end of input (`EndOfInputMissed`).

## Findings

1. **The cursor is not advanced over a skip** (`bam_filter.cc:138`, and `:94` in `containsJunctionInSystem`). Every junction after the first is looked up at a start too small by the lengths of the earlier skips.
   - For `1N 1N` at 0, the second intron is looked up as (0,0), not (1,1).
   - Trusted later junctions are therefore clipped. An untrusted one can match a different trusted intron.
2. **An untrusted junction survives clipping** (`:131`, `:128`). `clipMSR` clips `[opStart, i)` but never the skip itself. After a trusted skip it clips nothing before an untrusted one. For `1M 1N(trusted) 2N(untrusted)`, the kept read still carries `2N`.
   - The spec's worked example, `50M 200N(ok) 30M 500N(bad) 20M`, becomes `50M 200N 30M 500N 20H` in the code, not `... 30H 500H 20H`.
3. **Clipping changes the reference span** (`:132`). M/D become H/S, which consume no reference. The position is not moved, so the written record's span, and for a clipped leading segment the coordinates of its skips, change.
4. **"Modified" counts unchanged reads** (`:213`). Every kept MSR is counted and copied to the side files, including one with only trusted junctions that `clipMSR` left as it was.
5. **COMPLETE mode keeps MSRs with untrusted junctions** (`:197-198`). Spec 4.5 says that in COMPLETE mode a multiply spliced read with any untrusted junction is discarded. Spec 4.6, and the code, keep it when one junction is trusted. The spec contradicts itself, and the code follows 4.6.

## Proofs

### `BamFilterProofs`

Four results are proved for every junction set, clip mode, `saveMSRs` value and BAM file:
- `TypeCorrect`;
- `RoutingTheorem`: `Spec => []KeptIffTrusted`;
- `CountersTheorem`: `Spec => []CountersMatchOutput`;
- `SideChannelsTheorem`: `Spec => []SideChannelsLockstep`.

The assumptions are the constant assumptions of `JunctionSystem`, `ClipRule` and `BamFilter`.

The inductive invariant adds `SourcesRead`: every record written came from an alignment already read. Without it, the step that reads alignment `next` could not know that `next` is not already among the sources, and could not know that the record appended now is the only one that is new.

The proof is organised by lemmas:
- `KeepStep`: any write of any record for the current alignment, when the alignment should be kept, preserves the invariant;
- `DropStep`: a discard preserves it;
- `PhaseStep`: setup, end of input and indexing preserve it.

Each routing action is one case of `StepIInv`, discharged by one of these lemmas. The counter step uses `ClipSetAppend` and `FS_AddElement` from `FiniteSetTheorems`. `ClippedCopyType` shows that `clipMSR`'s copy is an alignment.

`SideChannelsLockstep` is proved on top of that invariant, as `SInv == IInv /\ SideChannelsLockstep`. Its step needs `IInv` for the types of the outputs and for the counter. In `KeepClipped` with `saveMSRs`, the record appended to `.mod` is the one appended to the output. Every other step leaves the side channels alone and only extends the output (`SideUnchanged`).

### `ContainsJunctionProofs`

`TypeCorrect` proves `Spec => []TypeOK` for the `containsJunctionInSystem` walk, for every junction set and every set of input alignments. Its answer is checked only by TLC, through the refinement `ImplementsContainsJunctionSpec`.

### `ClipRuleProofs`

Three facts about the declarative clipping rule, for every alignment, clip mode and junction set:
- `ClipResultShape`: the clipped copy has the original's operation count and lengths, and a skip exactly where the original has one;
- `AllBadClipsEverySegment`: with `allBad`, every operation that is not a skip is rewritten to the clip operation;
- `TrustedSkipKeepsSegments`: every operation of a segment bounded by a trusted skip is kept as read.

### `ClipMSRProofs`

Two results are proved for every junction set and every set of input alignments:
- `TypeCorrect`: `Spec => []TypeOK` for the `clipMSR` loop;
- `ShapeTheorem`: `Spec => []ShapePreserved`. At every step, the copy has the original's operation count and lengths, and its skips are exactly the original's.

The assumptions are `TrustedAssumption` (Trusted is a set of introns) and `InputsAssumption` (the inputs are alignments).

`ShapePreserved` is not inductive by itself. A clip of `[from, i-1]` or of the tail would break it if that range held a skip. The inductive invariant therefore adds `OpenRegionSkipFree`: `opStart <= i`, and no skip lies in `[opStart, i)`. This holds because `opStart` is moved past every skip the walk meets.

The lemmas are:
- `ClipRangeKeepsShape`: clipping a skip-free range keeps type and shape;
- `TypeOKPrime` and `OpType`.

`StepIInv` has one case per action, and under each, one step per conjunct.

**Only model-checked:**
- the refinements `ImplementsClipMSRSpec` and `ImplementsContainsJunctionSpec`;
- the liveness properties, which are beyond the prover;
- the violations.

Both refinements relate a loop to a quantified statement over the CIGAR, through the cursor `LEndOffset`, a recursive function. Proving them would need the recursion equation of that function (`off[n] = off[n-1] + ...`). That equation comes only from the library's induction theorems (`FiniteNatInductiveDef` and the like). Those take an operator parameter (`NEW Def(_,_)`), and neither Z3 nor Zenon instantiates it, even with an explicit `LAMBDA`. The refinement also rests on what `ClipResult` computes. `ClipResult` quantifies over the segments, and proving it would need a loop invariant relating `modified` on `[1, opStart)` to the segment rule.

## Not modelled

- **Output of the clipped CIGAR.** `setCigarOpAt` (`bam_alignment.hpp:177`) changes the `cigar` vector but not the raw `bam1_t`. `BamWriter::write` and the copy constructor are outside `src/`, so whether the clipped CIGAR reaches the file cannot be decided from the sources. The model assumes it does.
- **Unchecked `refs[refId]`** (`bam_filter.cc:77, 103`). Every modelled alignment has a valid reference id.
- **Integer widths.** Coordinates are unbounded integers; BAM stores positions and reference lengths as int32, so an intron end derived from a valid record is a coordinate of the reference and stays in range.
- **uint32 truncation** of `diff` (`:230`). It is only printed.
- **CIGAR parsing and formatting, option parsing, logging and timing.** None of them changes the filter's state.

## Plan for later work

1. Model the missing reference-list bound check (`refs[refId]`) as undefined behaviour: a crash or an arbitrary lookup. Against spec 7b, that would be a violation run.
