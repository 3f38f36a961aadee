------------------------------ MODULE Filtering ------------------------------
(* The loop that copies the elements to keep from one slice to another.     *)
EXTENDS Integers, Sequences

\* The elements of seq at the positions of keep, in their order.
Filtered(seq, keep) ==
  LET copied[i \in 0..Len(seq)] ==
        IF i = 0 THEN <<>>
        ELSE IF i \in keep THEN Append(copied[i - 1], seq[i]) ELSE copied[i - 1]
  IN copied[Len(seq)]
=============================================================================
