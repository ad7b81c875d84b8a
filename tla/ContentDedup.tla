---------------------------- MODULE ContentDedup ----------------------------
(***************************************************************************)
(* Deduplication in the classification service: the tasks that classify    *)
(* byte-identical uploads of one workspace race on the record of their     *)
(* content hash in the content-hashes table (dedupDecide in                *)
(* src/application/ClassificationService.ts, the DynamoDB adapter in       *)
(* src/adapters/dynamo-content-hashes).                                    *)
(*                                                                         *)
(* One (workspaceId, contentHash) key; other keys never meet it.  Every    *)
(* await is a step boundary: a DynamoDB call takes effect in one step,     *)
(* with the code up to the next await.                                     *)
(***************************************************************************)
EXTENDS Integers, FiniteSets

CONSTANTS
  Requests,        \* classification tasks, one per uploaded document
  Override,        \* the requests with context.overrideDuplicateCheck
  Policies,        \* bound: policy versions 1..Policies of the workspace
  MaxInvocations,  \* bound: Lambda invocations per task
  MaxFaults        \* bound: DynamoDB calls that fail or lose their answer, and
                   \* tasks that are invoked again after their end

ASSUME DedupAssumption ==
  /\ IsFiniteSet(Requests) /\ Override \subseteq Requests
  /\ {Policies, MaxInvocations} \subseteq Nat \ {0}
  /\ MaxFaults \in Nat

VARIABLES
  table,   \* the item of the key, or Absent
  older,   \* values that an eventually consistent read may still return
  policy,  \* policyVersion in the workspace's configuration
  req,     \* Requests -> the state of the task
  clock,   \* the last timestamp a request has taken
  faults,  \* DynamoDB faults so far
  expired,   \* history: has the TTL taken a record
  written,   \* history: what put and replace have stored
  reinvoked  \* history: how often a task was invoked again after its end

vars == <<table, older, policy, req, clock, faults, expired, written, reinvoked>>

Absent == [state |-> "absent"]
Record == [state : {"present"}, first : Requests, policy : 1..Policies,
           firstSeen : Nat, lastSeen : Nat, hits : Nat]
Item   == Record \union {Absent}
Present(item) == item.state = "present"

Phases  == {"idle", "hashing", "get", "put", "replace", "hit", "done", "failed"}
Request == [phase : Phases,
            policy : 0..Policies,       \* of the configuration it has read
            now : Nat,                  \* its timestamp
            read : Item,                \* what its get has returned
            runs : 1..MaxInvocations,   \* Lambda invocations so far
            answer : {"none", "fresh", "duplicate", "conditional"}]

\* Who has written a record of which version, and if it was over another one.
Writing == [first : Requests, policy : 1..Policies, over : BOOLEAN]

TypeOK ==
  /\ table  \in Item
  /\ older  \subseteq Item
  /\ policy \in 1..Policies
  /\ req    \in [Requests -> Request]
  /\ clock  \in Nat
  /\ faults \in 0..MaxFaults
  /\ expired \in BOOLEAN
  /\ written \subseteq Writing
  /\ reinvoked \in 0..MaxFaults

Init ==
  /\ table  = Absent
  /\ older  = {}
  /\ policy = 1
  /\ req    = [r \in Requests |->
                 [phase |-> "idle", policy |-> 0, now |-> 0, read |-> Absent,
                  runs |-> 1, answer |-> "none"]]
  /\ clock  = 0
  /\ faults = 0
  /\ expired = FALSE
  /\ written = {}
  /\ reinvoked = 0

MayFail == faults + reinvoked < MaxFaults

Fault == MayFail /\ faults' = faults + 1

Store(item) == table' = item /\ older' = older \union {table}

Goto(r, phase) == req' = [req EXCEPT ![r].phase = phase]

\* isDuplicate, or the error that fails the task for good, once it is known.
Answer(r, phase, answer) ==
  req' = [req EXCEPT ![r].phase = phase, ![r].answer = answer]

Answered(r)    == req[r].answer \in {"fresh", "duplicate"}
Duplicate(r)   == req[r].answer = "duplicate"

\* The next invocation knows nothing of the one before.
InvokedAgain(r) ==
  req' = [req EXCEPT ![r] = [phase |-> "idle", policy |-> 0, now |-> 0, read |-> Absent,
                             runs |-> @.runs + 1, answer |-> "none"]]

\* An error that is not about the condition: a transient or throttled call
\* makes the Lambda throw, and Step Functions may invoke it again; any other
\* error fails the task.
GiveUp(r) ==
  \/ /\ req[r].runs < MaxInvocations
     /\ InvokedAgain(r)
  \/ Goto(r, "failed")

\* Step 2: the configuration is read, strongly consistent, long before the
\* record is, with the content still to be streamed and hashed in between.
ReadConfig(r) ==
  /\ req[r].phase = "idle"
  /\ req' = [req EXCEPT ![r].phase = "hashing", ![r].policy = policy]
  /\ UNCHANGED <<table, older, policy, clock, faults, expired, written, reinvoked>>

\* A step before the deduplication fails.
StepFails(r) ==
  /\ req[r].phase = "hashing" /\ Fault
  /\ GiveUp(r)
  /\ UNCHANGED <<table, older, policy, clock, expired, written, reinvoked>>

\* Step 12 begins: nowProvider(), then the get is sent.
Stamp(r) ==
  /\ req[r].phase = "hashing"
  /\ clock' = clock + 1
  /\ req' = [req EXCEPT ![r].phase = "get", ![r].now = clock']
  /\ UNCHANGED <<table, older, policy, faults, expired, written, reinvoked>>

\* What dedupDecide does with the item it has read, cases A, C and D ...
NextWrite(r, item) == IF ~Present(item) THEN "put"
                      ELSE IF item.policy # req[r].policy THEN "replace" ELSE "hit"

\* Slip: the override is looked at before the record.
OverrideFirst(r, item) == r \in Override

\* ... and case B, an override of a record that exists, which writes nothing.
OverrideHit(r, item) == Present(item) /\ r \in Override

\* The read is eventually consistent.
Get(r) ==
  /\ req[r].phase = "get"
  /\ \/ /\ \E item \in older \union {table} :
             \/ OverrideHit(r, item) /\ Answer(r, "done", "duplicate")
             \/ /\ ~OverrideHit(r, item)
                /\ req' = [req EXCEPT ![r].phase = NextWrite(r, item), ![r].read = item]
        /\ UNCHANGED faults
     \/ Fault /\ GiveUp(r)
  /\ UNCHANGED <<table, older, policy, clock, expired, written, reinvoked>>

\* One attempt at a conditional write.  An attempt without an answer may have
\* been carried out or not; the SDK sends it again or gives up.
Write(r, condition, store, onDone, onRefused) ==
  \/ condition /\ store /\ onDone /\ UNCHANGED faults
  \/ ~condition /\ onRefused /\ UNCHANGED <<table, older, written, faults>>
  \/ /\ Fault
     /\ \/ condition /\ store
        \/ UNCHANGED <<table, older, written>>
     /\ GiveUp(r) \/ UNCHANGED req

NewRecord(r) == [state |-> "present", first |-> r, policy |-> req[r].policy,
                 firstSeen |-> req[r].now, lastSeen |-> req[r].now, hits |-> 0]

Entry(r) == [first |-> r, policy |-> req[r].policy, over |-> Present(table)]

StartRecord(r) == Store(NewRecord(r)) /\ written' = written \union {Entry(r)}

\* ConditionExpression attribute_not_exists(contentHash)
PutAllowed == ~Present(table)

\* Case A.  "written" and "already-existed" are both answered isDuplicate: false.
PutIfAbsent(r) ==
  /\ req[r].phase = "put"
  /\ Write(r, PutAllowed, StartRecord(r),
           Answer(r, "done", "fresh"), Answer(r, "done", "fresh"))
  /\ UNCHANGED <<policy, clock, expired, reinvoked>>

\* Slip: any record is replaced.
ReplaceAny(r) == Present(table)

\* Slip: the condition names the version to be written.
ReplaceIfCurrent(r) == Present(table) /\ table.policy = req[r].policy

\* ConditionExpression policyVersion = :stalePolicyVersion
ReplaceAllowed(r) == Present(table) /\ table.policy = req[r].read.policy

\* Case C.
ReplaceOnPolicyMismatch(r) ==
  /\ req[r].phase = "replace"
  /\ Write(r, ReplaceAllowed(r), StartRecord(r),
           Answer(r, "done", "fresh"), Answer(r, "failed", "conditional"))
  /\ UNCHANGED <<policy, clock, expired, reinvoked>>

\* Slip: read, add one, write back.
HitFromRead(r) == [table EXCEPT !.lastSeen = req[r].now, !.hits = req[r].read.hits + 1]

\* SET lastSeenAt = :now ADD hitCount :one
HitRecord(r) == [table EXCEPT !.lastSeen = req[r].now, !.hits = @ + 1]

CountHit(r) == Store(HitRecord(r)) /\ UNCHANGED written

\* Slip: without attribute_exists, an ADD revives an item without its fields.
HitRevives(r) ==
  LET revived == [state |-> "present", lastSeen |-> req[r].now, hits |-> 1]
  IN  /\ req[r].phase = "hit"
      /\ Write(r, TRUE, /\ Store(IF Present(table) THEN HitRecord(r) ELSE revived)
                        /\ UNCHANGED written,
               Answer(r, "done", "duplicate"), FALSE)
      /\ UNCHANGED <<policy, clock, expired, reinvoked>>

\* ConditionExpression attribute_exists(contentHash)
HitAllowed == Present(table)

\* Case D.
UpdateOnDuplicateHit(r) ==
  /\ req[r].phase = "hit"
  /\ Write(r, HitAllowed, CountHit(r),
           Answer(r, "done", "duplicate"), Answer(r, "failed", "conditional"))
  /\ UNCHANGED <<policy, clock, expired, reinvoked>>

\* The handler has its answer, but SendTaskSuccess or SendTaskFailure fails, or
\* the function is killed on the way: Step Functions invokes the task again,
\* which knows nothing of the answer.  (A kill in the middle of a call is a
\* fault.)
Reinvoke(r) ==
  /\ req[r].phase \in {"done", "failed"} /\ req[r].runs < MaxInvocations /\ MayFail
  /\ InvokedAgain(r)
  /\ reinvoked' = reinvoked + 1
  /\ UNCHANGED <<table, older, policy, clock, faults, expired, written>>

\* DynamoDB: a replica catches up, the TTL of a workspace that has one
\* (hashTtlDays) deletes the item.
Converge ==
  /\ \E item \in older : older' = older \ {item}
  /\ UNCHANGED <<table, policy, req, clock, faults, expired, written, reinvoked>>

Expire ==
  /\ Present(table)
  /\ Store(Absent)
  /\ expired' = TRUE
  /\ UNCHANGED <<policy, req, clock, faults, written, reinvoked>>

\* An administrator gives the workspace a new policy version.
UpgradePolicy ==
  /\ policy < Policies
  /\ policy' = policy + 1
  /\ UNCHANGED <<table, older, req, clock, faults, expired, written, reinvoked>>

Next ==
  \/ \E r \in Requests :
       \/ ReadConfig(r) \/ StepFails(r) \/ Stamp(r) \/ Get(r)
       \/ PutIfAbsent(r) \/ ReplaceOnPolicyMismatch(r) \/ UpdateOnDuplicateHit(r)
       \/ Reinvoke(r)
  \/ Converge \/ Expire \/ UpgradePolicy

Spec == Init /\ [][Next]_vars

(***************************************************************************)
(* Safety                                                                  *)
(***************************************************************************)
\* Once any task has been told whether its document is a duplicate, the
\* content has a record, until the TTL takes it: no order of cases A to D,
\* failure or stale read answers without one (dedupDecide).
AnsweredIsRecorded ==
  ~expired => \A r \in Requests : Answered(r) => Present(table)

NonOverrideDuplicates == {r \in Requests \ Override : Duplicate(r)}

\* No duplicate hit is lost, however the updates overlap, and the counter runs
\* ahead of the documents called duplicates by no more than the lost answers and
\* the second invocations, each of which may count one hit again (ADD hitCount;
\* BR-2-CR-2).  For one record: until the TTL or a new policy version starts
\* another.
HitsCounted ==
  ~expired /\ policy = 1 /\ Present(table) =>
    LET duplicates == Cardinality(NonOverrideDuplicates)
    IN  table.hits \in duplicates .. duplicates + faults + reinvoked

\* A record changes its first document only by passing from one policy
\* version to another: racing first sightings, racing refreshes and re-sent
\* writes never take it over (putIfAbsent, replaceOnPolicyMismatch).
FirstDocumentKept ==
  [][Present(table) /\ Present(table)' /\ table'.first # table.first
       => table'.policy # table.policy]_vars

\* A task that DynamoDB has left without an answer, or that runs again.
Repeats(r) ==
  \/ req[r].runs > 1
  \/ faults > 0 /\ req[r].phase \in {"put", "replace", "failed"}

\* A document is called a duplicate only of a record that another document has
\* written: a task is a duplicate of itself only when it was invoked again.  And
\* whoever wrote it has gone through as the original, unless it is in trouble
\* itself: a content has no original only where a call was lost or a task was
\* invoked again (dedupDecide, cases A to D).
OriginalGoesThrough ==
  \A r \in Requests : Duplicate(r) =>
    \E w \in written : /\ w.first # r \/ req[r].runs > 1
                       /\ req[w.first].answer = "fresh" \/ Repeats(w.first)

\* Until the TTL takes a record, a task fails on a condition only because the
\* record was refreshed to a version that is not the one it had read, by another
\* task or by an earlier try of its own: the work is done, if not by the call
\* that failed (updateOnDuplicateHit, replaceOnPolicyMismatch).
RefusedForACause ==
  ~expired =>
    \A r \in Requests : req[r].answer = "conditional" =>
      \E w \in written : /\ w.over /\ w.policy # req[r].read.policy
                         /\ w.first # r \/ Repeats(r)

\* What the readers of the table see of the record: all but lastSeenAt.
Visible == IF Present(table)
           THEN [first |-> table.first, policy |-> table.policy,
                 firstSeen |-> table.firstSeen, hits |-> table.hits]
           ELSE Absent

Abstract == INSTANCE HashRecord WITH
  Documents <- Requests, Versions <- 1..Policies, None <- Absent, record <- Visible

\* The four cases of dedupDecide, however they race, fail and are sent again,
\* do to the record what one of HashRecord's operations does.
RecordOperations == Abstract!Spec
=============================================================================
