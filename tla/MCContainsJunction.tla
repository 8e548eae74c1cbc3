-------------------------- MODULE MCContainsJunction --------------------------
(***************************************************************************)
(* containsJunctionInSystem on every spliced CIGAR of 1 to MaxOps         *)
(* operations drawn from M, I, D and N of length 1 or 2 at position 0,    *)
(* against introns that a first, a second and a third skip can derive.    *)
(***************************************************************************)
EXTENDS ContainsJunction

CONSTANT r1         \* the single reference sequence

MaxOps == 4         \* longest CIGAR

MCOps == {CigarOp(t, l) : t \in {MATCH, INS, DEL, REFSKIP}, l \in 1 .. 2}

MCInputs ==
    [refId : {r1}, position : {0}, cigar : UNION {[1 .. n -> MCOps] : n \in 1 .. MaxOps}]

MCTrusted == {Intron(r1, 1, 1), Intron(r1, 2, 3), Intron(r1, 3, 3)}
=============================================================================
