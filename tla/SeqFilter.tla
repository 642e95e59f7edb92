------------------------------- MODULE SeqFilter -------------------------------
(* Array.filter(), with the elements to keep given as a set.  A fold, unlike *)
(* SelectSeq, can be reasoned about: see StoreLemmas.                         *)
EXTENDS SequencesExt

Only(seq, S) ==
  FoldLeft(LAMBDA kept, x : IF x \in S THEN Append(kept, x) ELSE kept, <<>>, seq)
=============================================================================
