----------------------------- MODULE MCBamFilter -----------------------------
(***************************************************************************)
(* filter() over BAM files of up to MaxReads alignments, each a CIGAR of  *)
(* up to four operations from M and N of length 1 or 2, at position 0    *)
(* of one reference: unspliced, singly and multiply spliced reads with    *)
(* every mix of trusted and untrusted junctions, in all three clip modes  *)
(* with and without the side channels.                                    *)
(***************************************************************************)
EXTENDS BamFilter

CONSTANT r1         \* the single reference sequence

MCMaxReads == 2

MCOps == {CigarOp(MATCH, 1), CigarOp(REFSKIP, 1), CigarOp(REFSKIP, 2)}

MCInputs ==
    [refId : {r1}, position : {0}, cigar : UNION {[1 .. n -> MCOps] : n \in 1 .. 4}]

MCTrusted == {Intron(r1, 1, 1), Intron(r1, 2, 3)}
=============================================================================
