------------------------------ MODULE Selection ------------------------------
(***************************************************************************)
(* What the loops compute that go through a slice and append to a new one what *)
(* passes a test.  A test is given as the set of positions that pass it, and    *)
(* the loop is a recursive function, which can be reasoned about                *)
(* (SelectionProofs); SelectSeq and the folds cannot.                        *)
(***************************************************************************)
EXTENDS Integers, SequencesExt

\* The elements of s at the positions I, in their order.
Selected(s, I) ==
  LET appended[i \in 0..Len(s)] ==
        IF i = 0 THEN <<>>
        ELSE IF i \in I THEN Append(appended[i-1], s[i])
        ELSE appended[i-1]
  IN appended[Len(s)]

\* Each element is appended if it is not there yet.
WithoutDuplicates(s) ==
  Selected(s, {i \in DOMAIN s : \A j \in 1..i-1 : s[j] # s[i]})
=============================================================================
