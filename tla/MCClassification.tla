-------------------------- MODULE MCClassification --------------------------
(***************************************************************************)
(* Small instances of Classification.                                      *)
(***************************************************************************)
EXTENDS Classification, TLC
=============================================================================
