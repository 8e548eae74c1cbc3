------------------------------ MODULE MCClipMSR ------------------------------
(***************************************************************************)
(* clipMSR on every CIGAR of 2 to MaxOps operations drawn from M, I, D    *)
(* and N of length 1 or 2, at position 0 of one reference, against a      *)
(* junction file whose introns are hit, missed and hit again by the       *)
(* skips of those CIGARs, so that every pattern of trusted and untrusted *)
(* skips of up to four skips occurs.                                       *)
(***************************************************************************)
EXTENDS ClipMSR

CONSTANT r1         \* the single reference sequence

MaxOps == 5         \* longest CIGAR

MCOps == {CigarOp(t, l) : t \in {MATCH, INS, DEL, REFSKIP}, l \in 1 .. 2}

MCInputs ==
    [refId : {r1}, position : {0}, cigar : UNION {[1 .. n -> MCOps] : n \in 2 .. MaxOps}]

MCTrusted == {Intron(r1, 1, 1), Intron(r1, 2, 3), Intron(r1, 3, 3)}
=============================================================================
