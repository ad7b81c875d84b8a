----------------------------- MODULE HashRecord -----------------------------
(***************************************************************************)
(* What the content-hashes table promises to its readers about the record  *)
(* of one content (domain-entities.md of the persistence unit): created    *)
(* once, counted up by one per hit, replaced as a whole and only for       *)
(* another policy version, gone only by the TTL.  The other version may be *)
(* an older one: a task may have read its configuration before a change.   *)
(***************************************************************************)
EXTENDS Naturals

CONSTANTS
  Documents,  \* documents of the workspace with this content
  Versions,   \* policy versions
  None        \* there is no record

VARIABLE record

\* A record that starts now; when, is up to the document.
Started(d, v) ==
  /\ record' # None
  /\ record' = [first |-> d, policy |-> v, firstSeen |-> record'.firstSeen, hits |-> 0]

Init == record = None

Create  == record = None /\ \E d \in Documents, v \in Versions : Started(d, v)
Hit     == record # None /\ record' = [record EXCEPT !.hits = @ + 1]
Refresh == /\ record # None
           /\ \E d \in Documents, v \in Versions \ {record.policy} : Started(d, v)
Expire  == record # None /\ record' = None

Next == Create \/ Hit \/ Refresh \/ Expire

Spec == Init /\ [][Next]_record
=============================================================================
