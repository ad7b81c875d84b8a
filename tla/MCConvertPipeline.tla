-------------------------- MODULE MCConvertPipeline --------------------------
(***************************************************************************)
(* Small instances of ConvertPipeline.  The tick constants keep the order  *)
(* of the deployed ones: visibility 30 min = HTTP timeout 30 min < watchdog*)
(* cutoff 35 min.                                                          *)
(***************************************************************************)
EXTENDS ConvertPipeline, TLC

WorkerSymmetry == Permutations(Workers)

\* Documents are small numbers, and the table is scanned in their order.
ScanOrder == [d \in Docs |-> d]

OneOffice  == [d \in Docs |-> "office"]
\* One document of every kind.
EveryKind  == [d \in Docs |-> CASE d = 1 -> "other" [] d = 2 -> "dwg"
                                [] d = 3 -> "malformed" [] OTHER -> "office"]
\* A row that is not a conversion comes first in the table.
OtherFirst == [d \in Docs |-> IF d = 1 THEN "other" ELSE "office"]
=============================================================================
