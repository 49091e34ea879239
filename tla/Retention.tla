----------------------------- MODULE Retention ------------------------------
(***************************************************************************)
(* Filtering a sequence by position, for the filters and retains of the    *)
(* supervisor.  It is SelectSeq with the test given as a set, so that      *)
(* facts about it can be proved and cited (module DataInduction).          *)
(***************************************************************************)
EXTENDS Integers, Sequences

\* What is left of seq when the elements at the positions in keep are retained, in
\* their order.
Retained(seq, keep) ==
  LET upto[i \in 0..Len(seq)] ==
        IF i = 0 THEN <<>>
        ELSE IF i \in keep THEN Append(upto[i - 1], seq[i]) ELSE upto[i - 1]
  IN upto[Len(seq)]
=============================================================================
