--------------------------- MODULE MCContentDedup ---------------------------
(***************************************************************************)
(* Small instances of ContentDedup: a few uploads of the same bytes.       *)
(***************************************************************************)
EXTENDS ContentDedup, TLC

\* Requests that differ in nothing but their name.
PlainSymmetry == Permutations(Requests \ Override)
=============================================================================
