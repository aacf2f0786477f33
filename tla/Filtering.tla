----------------------------- MODULE Filtering ------------------------------
(***************************************************************************)
(* What the loops of the code that copy some elements of a list return.  A *)
(* recursive function, as proofs can look into it and not into SelectSeq.  *)
(***************************************************************************)
EXTENDS Naturals, Sequences

\* The elements of a sequence that are in S, in their order.
Only(seq, S) ==
  LET taken[i \in 0..Len(seq)] ==
        IF i = 0 THEN <<>>
        ELSE IF seq[i] \in S THEN Append(taken[i - 1], seq[i]) ELSE taken[i - 1]
  IN  taken[Len(seq)]
=============================================================================
