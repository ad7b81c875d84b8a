--------------------------- MODULE MCTaskCallback ---------------------------
(***************************************************************************)
(* Small instances of TaskCallback.                                        *)
(***************************************************************************)
EXTENDS TaskCallback, TLC
=============================================================================
