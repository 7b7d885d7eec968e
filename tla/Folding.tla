-------------------------------- MODULE Folding --------------------------------
(***************************************************************************)
(* A choice of a sequence's elements, as the fold that theorems can be     *)
(* proved about (FoldTheorems).                                            *)
(***************************************************************************)
EXTENDS SequencesExt

\* The elements of a sequence that are in S, in their order.
Chosen(seq, S) ==
    LET out[i \in 0..Len(seq)] ==
            IF i = 0 THEN <<>>
            ELSE IF seq[i] \in S THEN Append(out[i - 1], seq[i]) ELSE out[i - 1]
    IN  out[Len(seq)]
================================================================================
