------------------------------- MODULE MCClient -------------------------------
(* Small instances of Client for TLC. *)
EXTENDS Client, TLC

\* Goroutines are interchangeable; so are install ids, drawn at random.
Interchangeable == Permutations(Workers) \cup Permutations(Ids)
=============================================================================
