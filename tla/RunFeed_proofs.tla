----------------------------- MODULE RunFeed_proofs -----------------------------
(***************************************************************************)
(* Proofs about RunFeed, for any number of documents, workspaces, pages,   *)
(* polls under way and faults.                                             *)
(***************************************************************************)
EXTENDS RunFeed, FiniteSetTheorems, TLAPS

\* A Put that landed stays so, and the browser hears of none that is due.
PutKept ==
  /\ \A d \in Docs : put[d] = "landed" => Present(d)
  /\ \A d \in told : put[d] # "due"

IInv == TypeOK /\ PutKept

LEMMA InitInv == Init => IInv
<1> SUFFICES ASSUME Init PROVE IInv
  OBVIOUS
<1>1. TypeOK
  <2>1. IsFiniteSet(Docs) /\ MaxFaults \in Nat
    BY FeedAssumption
  <2>2. Cardinality(Docs) \in Nat
    BY <2>1, FS_CardinalityType
  <2> QED
    BY <2>1, <2>2 DEF Init, TypeOK, Nothing, Snapshot, Statuses, Slots, NoAnswer
<1>2. PutKept
  BY DEF Init, PutKept
<1> QED
  BY <1>1, <1>2 DEF IInv

LEMMA OneFault ==
  ASSUME TypeOK, Fault
  PROVE  faults' \in 0..MaxFaults
BY FeedAssumption DEF TypeOK, Fault

\* The next stamp is within bounds, as the document itself has none yet.
LEMMA NextStamp ==
  ASSUME TypeOK, NEW d \in Docs, ts[d] = 0
  PROVE  1 + Cardinality({e \in Docs : ts[e] > 0}) \in 0..Cardinality(Docs)
<1> DEFINE S == {e \in Docs : ts[e] > 0}
<1>1. IsFiniteSet(Docs)
  BY FeedAssumption
<1>2. S \subseteq Docs /\ d \notin S
  OBVIOUS
<1>3. IsFiniteSet(S) /\ Cardinality(S) \in Nat /\ Cardinality(Docs) \in Nat
  BY <1>1, <1>2, FS_Subset, FS_CardinalityType
<1>4. Cardinality(S \cup {d}) = Cardinality(S) + 1
  BY <1>2, <1>3, FS_AddElement
<1>5. Cardinality(S \cup {d}) <= Cardinality(Docs)
  <2>1. S \cup {d} \subseteq Docs
    BY <1>2
  <2> QED
    BY <2>1, <1>1, FS_Subset
<1> HIDE DEF S
<1>6. 1 + Cardinality(S) \in 0..Cardinality(Docs)
  BY <1>3, <1>4, <1>5
<1> QED
  BY <1>6 DEF S

(***************************************************************************)
(* TypeOK                                                                  *)
(***************************************************************************)
LEMMA RouteTypes ==
  ASSUME TypeOK, NEW d \in Docs, Classify(d)
  PROVE  TypeOK'
<1>1. CASE Stamp(d)
  <2>1. 1 + Cardinality({e \in Docs : ts[e] > 0}) \in 0..Cardinality(Docs)
    BY <1>1, NextStamp DEF Stamp
  <2>2. ts' \in [Docs -> 0..Cardinality(Docs)]
    BY <1>1, <2>1 DEF Stamp, TypeOK
  <2>3. dispatch' \in [Docs -> {"none", "queued", "failed"}]
    BY <1>1 DEF Stamp, TypeOK, Outcomes
  <2> QED
    BY <1>1, <2>2, <2>3 DEF Stamp, TypeOK, rows, pages
<1>2. CASE Record(d)
  <2>1. faults' \in 0..MaxFaults
    BY <1>2, OneFault DEF Record, TypeOK
  <2>2. status' \in Snapshot
    BY <1>2 DEF Record, PutRow, TypeOK, Snapshot, Statuses
  <2>3. put' \in [Docs -> {"due", "landed", "lost", "expired"}]
    BY <1>2 DEF Record, TypeOK
  <2> QED
    BY <1>2, <2>1, <2>2, <2>3 DEF Record, TypeOK, pages
<1>3. CASE Answer(d)
  <2>1. faults' \in 0..MaxFaults
    BY <1>3, OneFault DEF Answer, TypeOK
  <2>2. told' \subseteq Docs /\ open' \in [Docs -> BOOLEAN]
    BY <1>3 DEF Answer, TypeOK
  <2> QED
    BY <1>3, <2>1, <2>2 DEF Answer, TypeOK, pages
<1>4. CASE RecordAnswerLost(d)
  <2>1. faults' \in 0..MaxFaults
    BY <1>4, OneFault DEF RecordAnswerLost
  <2>2. status' \in Snapshot
    BY <1>4 DEF RecordAnswerLost, PutRow, TypeOK, Snapshot, Statuses
  <2> QED
    BY <1>4, <2>1, <2>2 DEF RecordAnswerLost, TypeOK, route, pages
<1> QED
  BY <1>1, <1>2, <1>3, <1>4 DEF Classify

LEMMA WorkTypes ==
  ASSUME TypeOK, NEW d \in Docs, Work(d)
  PROVE  TypeOK'
<1>1. CASE Convert(d)
  <2>1. status' \in Snapshot
    BY <1>1 DEF Convert, TypeOK, Snapshot, Statuses
  <2> QED
    BY <1>1, <2>1 DEF Convert, TypeOK, route, pages
<1>2. CASE Expire(d)
  <2>1. status' \in Snapshot
    BY <1>2 DEF Expire, TypeOK, Snapshot, Statuses
  <2>2. put' \in [Docs -> {"due", "landed", "lost", "expired"}]
    BY <1>2 DEF Expire, TypeOK
  <2> QED
    BY <1>2, <2>1, <2>2 DEF Expire, TypeOK, pages
<1> QED
  BY <1>1, <1>2 DEF Work

LEMMA KeptIsSnapshot ==
  ASSUME NEW p, NEW s \in Snapshot
  PROVE  Kept(p, s) \in Snapshot
BY DEF Kept, Snapshot, Statuses

PageStep(p) ==
  \/ Poll(p) \/ ViewInDocuments(p)
  \/ \E i \in Slots : Shows(p, i) \/ PollLost(p, i)

LEMMA PageTypes ==
  ASSUME TypeOK, NEW p \in Pages, PageStep(p)
  PROVE  TypeOK'
<1> DEFINE Flights == [Pages -> [Slots -> Snapshot \cup {NoAnswer}]]
<1>0. flights \in Flights /\ status \in Snapshot
  BY DEF TypeOK
<1>a. Nothing \in Snapshot
  BY DEF Nothing, Snapshot, Statuses
<1>1. CASE Poll(p)
  <2>1. RecentRow \in Snapshot
    BY <1>0 DEF RecentRow, Snapshot, Statuses
  <2>2. flights' \in Flights
    <3>1. PICK i \in Slots, s \in Snapshot : flights' = [flights EXCEPT ![p][i] = s]
      BY <1>1, <2>1, <1>a DEF Poll, Free
    <3> QED
      BY <3>1, <1>0
  <2>3. faults' \in 0..MaxFaults
    BY <1>1, OneFault DEF Poll, TypeOK
  <2> QED
    BY <1>1, <2>2, <2>3 DEF Poll, TypeOK, rows, route
<1>2. CASE ViewInDocuments(p)
  <2>1. flights' \in Flights
    BY <1>2, <1>0 DEF ViewInDocuments
  <2>2. kind' \in [Pages -> {"wizard", "monitor"}]
    BY <1>2 DEF ViewInDocuments, TypeOK
  <2>3. shown' \in [Pages -> Snapshot]
    BY <1>2, <1>a DEF ViewInDocuments, TypeOK
  <2> QED
    BY <1>2, <2>1, <2>2, <2>3 DEF ViewInDocuments, TypeOK, rows, route
<1>3. ASSUME NEW i \in Slots, Shows(p, i)
      PROVE  TypeOK'
  <2>1. flights[p][i] \in Snapshot
    BY <1>3, <1>0 DEF Shows
  <2>2. Kept(p, flights[p][i]) \in Snapshot
    BY <2>1, KeptIsSnapshot
  <2>3. shown' \in [Pages -> Snapshot]
    BY <1>3, <2>2 DEF Shows, TypeOK
  <2>4. flights' \in Flights
    <3>1. \/ flights' = [flights EXCEPT ![p] = [j \in Slots |-> NoAnswer]]
          \/ flights' = [flights EXCEPT ![p][i] = NoAnswer]
      BY <1>3 DEF Shows
    <3> QED
      BY <3>1, <1>0
  <2> QED
    BY <1>3, <2>3, <2>4 DEF Shows, TypeOK, rows, route
<1>4. ASSUME NEW i \in Slots, PollLost(p, i)
      PROVE  TypeOK'
  <2>1. flights' \in Flights
    BY <1>4, <1>0 DEF PollLost
  <2>2. faults' \in 0..MaxFaults
    BY <1>4, OneFault DEF PollLost
  <2> QED
    BY <1>4, <2>1, <2>2 DEF PollLost, TypeOK, rows, route
<1> QED
  BY <1>1, <1>2, <1>3, <1>4 DEF PageStep

LEMMA TypeStep ==
  ASSUME TypeOK, [Next]_vars
  PROVE  TypeOK'
<1>1. CASE UNCHANGED vars
  BY <1>1 DEF TypeOK, vars, rows, route, pages
<1>2. ASSUME NEW d \in Docs, Classify(d) \/ Work(d)
      PROVE  TypeOK'
  BY <1>2, RouteTypes, WorkTypes
<1>3. ASSUME NEW p \in Pages, PageStep(p)
      PROVE  TypeOK'
  BY <1>3, PageTypes
<1> QED
  BY <1>1, <1>2, <1>3 DEF Next, PageStep

(***************************************************************************)
(* The invariant                                                           *)
(***************************************************************************)
LEMMA PutStep ==
  ASSUME TypeOK, PutKept, NEW d \in Docs, Classify(d) \/ Work(d)
  PROVE  PutKept'
<1>1. CASE Stamp(d)
  BY <1>1 DEF Stamp, PutKept, Present, rows
<1>2. CASE Record(d)
  BY <1>2 DEF Record, PutRow, PutKept, Present, TypeOK, Snapshot
<1>3. CASE Answer(d)
  BY <1>3 DEF Answer, PutKept, Present
<1>4. CASE RecordAnswerLost(d)
  BY <1>4 DEF RecordAnswerLost, PutRow, PutKept, Present, TypeOK, Snapshot, route
<1>5. CASE Convert(d)
  BY <1>5 DEF Convert, PutKept, Present, TypeOK, Snapshot, route
<1>6. CASE Expire(d)
  BY <1>6 DEF Expire, PutKept, Present, TypeOK, Snapshot
<1> QED
  BY <1>1, <1>2, <1>3, <1>4, <1>5, <1>6 DEF Classify, Work

LEMMA NextInv == IInv /\ [Next]_vars => IInv'
<1> SUFFICES ASSUME IInv, [Next]_vars PROVE IInv'
  OBVIOUS
<1>1. TypeOK'
  BY TypeStep DEF IInv
<1>2. CASE UNCHANGED vars
  BY <1>1, <1>2 DEF IInv, PutKept, Present, vars, rows, route, pages
<1>3. ASSUME NEW d \in Docs, Classify(d) \/ Work(d)
      PROVE  IInv'
  BY <1>1, <1>3, PutStep DEF IInv
<1>4. ASSUME NEW p \in Pages, PageStep(p)
      PROVE  IInv'
  <2>1. UNCHANGED <<status, put, told>>
    BY <1>4 DEF PageStep, Poll, ViewInDocuments, Shows, PollLost, rows, route
  <2> QED
    BY <1>1, <2>1 DEF IInv, PutKept, Present
<1> QED
  BY <1>2, <1>3, <1>4 DEF Next, PageStep

LEMMA Invariance == Spec => []IInv
BY InitInv, NextInv, PTL DEF Spec

\* The variables of rows, route and pages keep their types.
THEOREM TypeCorrect == Spec => []TypeOK
<1>1. IInv => TypeOK
  BY DEF IInv
<1> QED
  BY <1>1, Invariance, PTL

\* A document the browser was told of is among the recent ones of its
\* workspace, unless its Put failed, its time is up, or enough rows are newer.
THEOREM ToldAreListed == Spec => []ToldIsListed
<1>1. IInv => ToldIsListed
  <2> SUFFICES ASSUME IInv, NEW d \in told \cap Default,
                      put[d] \notin {"lost", "expired"}, ~(Cardinality(Newer(d)) >= Limit)
               PROVE  d \in Recent
    BY DEF ToldIsListed
  <2>1. d \in Docs /\ put[d] = "landed" /\ Present(d)
    BY DEF IInv, TypeOK, PutKept
  <2>2. Cardinality(Newer(d)) \in Nat
    <3>1. IsFiniteSet(Docs) /\ Newer(d) \subseteq Docs
      BY FeedAssumption DEF Newer
    <3> QED
      BY <3>1, FS_Subset, FS_CardinalityType
  <2>3. Limit \in Nat
    BY FeedAssumption
  <2>4. Cardinality(Newer(d)) < Limit
    BY <2>2, <2>3
  <2> QED
    BY <2>1, <2>4 DEF Recent
<1> QED
  BY <1>1, Invariance, PTL
==============================================================================
