----------------------------- MODULE Filtering -----------------------------
(***************************************************************************)
(* The elements of a sequence that lie in a set, in their order: SelectSeq  *)
(* with a set in the place of its test, so that what it yields can be       *)
(* proved for every sequence (module FilterProofs).                         *)
(***************************************************************************)
EXTENDS Naturals, Sequences

\* kept[i] is what is kept of the first i elements.
Filter(s, T) ==
  LET kept[i \in 0 .. Len(s)] ==
        IF i = 0 THEN <<>>
        ELSE IF s[i] \in T THEN Append(kept[i - 1], s[i]) ELSE kept[i - 1]
  IN kept[Len(s)]
=============================================================================
