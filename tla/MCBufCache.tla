----------------------------- MODULE MCBufCache -----------------------------
(* The buffer cache for TLC: threads, blocks and values are interchangeable. *)
EXTENDS BufCache, TLC

Symmetry == Permutations(Thread) \cup Permutations(Block) \cup Permutations(Value)
=============================================================================
