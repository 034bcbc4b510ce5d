------------------------------ MODULE MCInodes ------------------------------
(* Inodes for TLC: a relative path of one name and an absolute path of two. *)
EXTENDS Inodes, TLC

MCPath == {<<"a">>, <<"/", "a", "b">>}
Symmetry == Permutations(Thread)
=============================================================================
