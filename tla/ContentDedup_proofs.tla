------------------------ MODULE ContentDedup_proofs ------------------------
(***************************************************************************)
(* Theorems about ContentDedup, for any number of requests, policy         *)
(* versions, invocations and faults.                                       *)
(***************************************************************************)
EXTENDS ContentDedup, FiniteSetTheorems, TLAPS

\* A task that is on its way has read a policy version.
PolicyRead ==
  \A r \in Requests : req[r].phase \in {"hashing", "get", "put", "replace", "hit"}
                        => req[r].policy \in 1..Policies

TypeInv == TypeOK /\ PolicyRead

LEMMA Bounds == /\ Policies \in Nat /\ Policies >= 1
                /\ MaxInvocations \in Nat /\ MaxInvocations >= 1
                /\ MaxFaults \in Nat
  BY DedupAssumption

LEMMA Shapes ==
  /\ ~Present(Absent)
  /\ \A item \in Item : Present(item) => item \in Record
  /\ \A item \in Record : item \in Item /\ Present(item)
  BY DEF Present, Item, Record, Absent

LEMMA InitType == Init => TypeInv
<1> SUFFICES ASSUME Init PROVE TypeInv
  OBVIOUS
<1>1. Absent \in Item /\ 1 \in 1..Policies /\ 0 \in 0..Policies
      /\ 1 \in 1..MaxInvocations /\ 0 \in 0..MaxFaults
  BY Bounds DEF Item
<1>2. req \in [Requests -> Request]
  BY <1>1 DEF Init, Request, Phases
<1>. QED  BY <1>1, <1>2 DEF Init, TypeInv, TypeOK, PolicyRead

LEMMA FaultType == TypeOK /\ Fault => faults' \in 0..MaxFaults
  BY Bounds DEF TypeOK, Fault, MayFail

\* Requests are records of type Request, with a policy while they are busy.
Good(q) == /\ q \in Request
           /\ q.phase \in {"hashing", "get", "put", "replace", "hit"}
                => q.policy \in 1..Policies

LEMMA StepOfOne ==
  ASSUME TypeInv, NEW r \in Requests, NEW q, Good(q), req' = [req EXCEPT ![r] = q]
  PROVE  req' \in [Requests -> Request] /\ PolicyRead'
  BY DEF TypeInv, TypeOK, PolicyRead, Good

LEMMA GotoType ==
  ASSUME TypeInv, NEW r \in Requests, NEW p \in Phases, Goto(r, p),
         req[r].policy \in 1..Policies
  PROVE  req' \in [Requests -> Request] /\ PolicyRead'
<1>1. Good([req[r] EXCEPT !.phase = p])
  BY DEF Good, Request, TypeInv, TypeOK
<1>. QED  BY <1>1, StepOfOne DEF Goto

LEMMA AnswerType ==
  ASSUME TypeInv, NEW r \in Requests, NEW p \in {"done", "failed"},
         NEW a \in {"fresh", "duplicate", "conditional"}, Answer(r, p, a)
  PROVE  req' \in [Requests -> Request] /\ PolicyRead'
<1>1. Good([req[r] EXCEPT !.phase = p, !.answer = a])
  BY DEF Good, Request, Phases, TypeInv, TypeOK
<1>. QED  BY <1>1, StepOfOne DEF Answer

LEMMA InvokedAgainType ==
  ASSUME TypeInv, NEW r \in Requests, InvokedAgain(r), req[r].runs < MaxInvocations
  PROVE  req' \in [Requests -> Request] /\ PolicyRead'
<1>1. req[r].runs + 1 \in 1..MaxInvocations
  BY Bounds DEF TypeInv, TypeOK, Request
<1>2. Good([phase |-> "idle", policy |-> 0, now |-> 0, read |-> Absent,
            runs |-> req[r].runs + 1, answer |-> "none"])
  BY <1>1, Bounds DEF Good, Request, Phases, Item
<1>. QED  BY <1>2, StepOfOne DEF InvokedAgain, TypeInv, TypeOK

LEMMA GiveUpType ==
  ASSUME TypeInv, NEW r \in Requests, GiveUp(r)
  PROVE  req' \in [Requests -> Request] /\ PolicyRead'
<1>1. CASE Goto(r, "failed")
  <2>1. Good([req[r] EXCEPT !.phase = "failed"])
    BY DEF Good, Request, Phases, TypeInv, TypeOK
  <2>. QED  BY <1>1, <2>1, StepOfOne DEF Goto
<1>. QED  BY <1>1, InvokedAgainType DEF GiveUp

LEMMA StoreType ==
  ASSUME TypeInv, NEW item \in Item, Store(item)
  PROVE  table' \in Item /\ older' \subseteq Item
  BY DEF Store, TypeInv, TypeOK

LEMMA NewRecordType ==
  ASSUME TypeInv, NEW r \in Requests, req[r].policy \in 1..Policies
  PROVE  NewRecord(r) \in Record /\ NewRecord(r).policy = req[r].policy
                                 /\ NewRecord(r).first = r
  BY DEF NewRecord, Record, TypeInv, TypeOK, Request

\* What puts and replacements store, and log.
LEMMA StartRecordType ==
  ASSUME TypeInv, NEW r \in Requests, req[r].policy \in 1..Policies, StartRecord(r)
  PROVE  table' \in Item /\ older' \subseteq Item /\ written' \subseteq Writing
<1>1. NewRecord(r) \in Item
  BY NewRecordType, Shapes
<1>2. Entry(r) \in Writing
  BY DEF Entry, Writing, Present
<1>. QED  BY <1>1, <1>2, StoreType DEF StartRecord, TypeInv, TypeOK

LEMMA HitRecordType ==
  ASSUME TypeInv, NEW r \in Requests, Present(table)
  PROVE  /\ HitRecord(r) \in Record
         /\ HitRecord(r).first = table.first /\ HitRecord(r).policy = table.policy
<1>1. table \in Record
  BY Shapes DEF TypeInv, TypeOK
<1>2. table.hits + 1 \in Nat /\ req[r].now \in Nat
  BY <1>1 DEF Record, TypeInv, TypeOK, Request
<1>. QED  BY <1>1, <1>2 DEF HitRecord, Record

\* What a write does when it is told what to store and how to answer.
LEMMA WriteType ==
  ASSUME TypeInv, NEW r \in Requests, NEW condition \in BOOLEAN, NEW store,
         NEW onDone, NEW onRefused, Write(r, condition, store, onDone, onRefused),
         condition /\ store =>
           table' \in Item /\ older' \subseteq Item /\ written' \subseteq Writing,
         onDone => req' \in [Requests -> Request] /\ PolicyRead',
         onRefused => req' \in [Requests -> Request] /\ PolicyRead'
  PROVE  /\ table' \in Item /\ older' \subseteq Item /\ written' \subseteq Writing
         /\ faults' \in 0..MaxFaults
         /\ req' \in [Requests -> Request] /\ PolicyRead'
<1>1. table \in Item /\ older \subseteq Item /\ req \in [Requests -> Request]
      /\ faults \in 0..MaxFaults /\ written \subseteq Writing /\ PolicyRead
  BY DEF TypeInv, TypeOK
<1>2. CASE condition /\ store /\ onDone /\ UNCHANGED faults
  BY <1>1, <1>2
<1>3. CASE ~condition /\ onRefused /\ UNCHANGED <<table, older, written, faults>>
  BY <1>1, <1>3
<1>4. CASE /\ Fault
           /\ \/ condition /\ store
              \/ UNCHANGED <<table, older, written>>
           /\ GiveUp(r) \/ UNCHANGED req
  <2>1. table' \in Item /\ older' \subseteq Item /\ written' \subseteq Writing
    BY <1>1, <1>4
  <2>2. req' \in [Requests -> Request] /\ PolicyRead'
    BY <1>1, <1>4, GiveUpType DEF PolicyRead
  <2>. QED  BY <1>4, <2>1, <2>2, FaultType DEF TypeInv
<1>. QED  BY <1>2, <1>3, <1>4 DEF Write

LEMMA TypeStep == TypeInv /\ [Next]_vars => TypeInv'
<1> SUFFICES ASSUME TypeInv, [Next]_vars PROVE TypeInv'
  OBVIOUS
<1> USE DEF TypeInv
<1>1. ASSUME NEW r \in Requests, ReadConfig(r) PROVE TypeInv'
  <2>2. req[r] \in Request /\ policy \in 1..Policies
    BY DEF TypeOK
  <2>3. policy \in 0..Policies
    BY <2>2, Bounds
  <2>4. Good([req[r] EXCEPT !.phase = "hashing", !.policy = policy])
    BY <2>2, <2>3 DEF Good, Request, Phases
  <2>5. req' = [req EXCEPT ![r] = [req[r] EXCEPT !.phase = "hashing", !.policy = policy]]
    BY <1>1 DEF ReadConfig, TypeOK
  <2>6. req' \in [Requests -> Request] /\ PolicyRead'
    BY <2>4, <2>5, StepOfOne
  <2>. QED  BY <1>1, <2>6 DEF ReadConfig, TypeOK
<1>2. ASSUME NEW r \in Requests, StepFails(r) PROVE TypeInv'
  BY <1>2, GiveUpType, FaultType DEF StepFails, TypeOK
<1>3. ASSUME NEW r \in Requests, Stamp(r) PROVE TypeInv'
  <2>1. req[r] \in Request /\ clock' \in Nat /\ req[r].policy \in 1..Policies
    BY <1>3 DEF Stamp, TypeOK, PolicyRead
  <2>2. Good([req[r] EXCEPT !.phase = "get", !.now = clock'])
    BY <2>1 DEF Good, Request, Phases
  <2>3. req' = [req EXCEPT ![r] = [req[r] EXCEPT !.phase = "get", !.now = clock']]
    BY <1>3 DEF Stamp, TypeOK
  <2>4. req' \in [Requests -> Request] /\ PolicyRead'
    BY <2>2, <2>3, StepOfOne
  <2>. QED  BY <1>3, <2>1, <2>4 DEF Stamp, TypeOK
<1>4. ASSUME NEW r \in Requests, Get(r) PROVE TypeInv'
  <2>1. CASE Fault /\ GiveUp(r)
    BY <1>4, <2>1, GiveUpType, FaultType DEF Get, TypeOK
  <2>2. CASE /\ \E item \in older \union {table} :
                  \/ OverrideHit(r, item) /\ Answer(r, "done", "duplicate")
                  \/ /\ ~OverrideHit(r, item)
                     /\ req' = [req EXCEPT ![r].phase = NextWrite(r, item),
                                           ![r].read = item]
             /\ UNCHANGED faults
    <3>1. PICK item \in older \union {table} :
                  \/ OverrideHit(r, item) /\ Answer(r, "done", "duplicate")
                  \/ /\ ~OverrideHit(r, item)
                     /\ req' = [req EXCEPT ![r].phase = NextWrite(r, item),
                                           ![r].read = item]
      BY <2>2
    <3>2. item \in Item /\ req[r] \in Request /\ req[r].policy \in 1..Policies
      BY <1>4 DEF Get, TypeOK, PolicyRead
    <3>3. NextWrite(r, item) \in {"put", "replace", "hit"}
      BY DEF NextWrite
    <3>4. Good([req[r] EXCEPT !.phase = NextWrite(r, item), !.read = item])
      BY <3>2, <3>3 DEF Good, Request, Phases
    <3>5. req' \in [Requests -> Request] /\ PolicyRead'
      <4>1. CASE Answer(r, "done", "duplicate")
        BY <4>1, AnswerType
      <4>2. CASE req' = [req EXCEPT ![r].phase = NextWrite(r, item), ![r].read = item]
        <5>1. req' = [req EXCEPT ![r] = [req[r] EXCEPT !.phase = NextWrite(r, item),
                                                      !.read = item]]
          BY <4>2 DEF TypeOK
        <5>. QED  BY <3>4, <5>1, StepOfOne
      <4>. QED  BY <3>1, <4>1, <4>2
    <3>. QED  BY <1>4, <2>2, <3>5 DEF Get, TypeOK
  <2>. QED  BY <1>4, <2>1, <2>2 DEF Get
<1>5. ASSUME NEW r \in Requests, PutIfAbsent(r) PROVE TypeInv'
  <2>1. PutAllowed \in BOOLEAN /\ req[r].policy \in 1..Policies
    BY <1>5 DEF PutIfAbsent, PolicyRead, PutAllowed, Present
  <2>2. Answer(r, "done", "fresh") => req' \in [Requests -> Request] /\ PolicyRead'
    BY AnswerType
  <2>3. /\ table' \in Item /\ older' \subseteq Item /\ written' \subseteq Writing
        /\ faults' \in 0..MaxFaults
        /\ req' \in [Requests -> Request] /\ PolicyRead'
    BY <1>5, <2>1, <2>2, StartRecordType, WriteType DEF PutIfAbsent
  <2>. QED  BY <1>5, <2>3 DEF PutIfAbsent, TypeOK
<1>6. ASSUME NEW r \in Requests, ReplaceOnPolicyMismatch(r) PROVE TypeInv'
  <2>1. ReplaceAllowed(r) \in BOOLEAN /\ req[r].policy \in 1..Policies
    BY <1>6 DEF ReplaceOnPolicyMismatch, PolicyRead, ReplaceAllowed, Present
  <2>2. Answer(r, "done", "fresh") => req' \in [Requests -> Request] /\ PolicyRead'
    BY AnswerType
  <2>3. Answer(r, "failed", "conditional")
          => req' \in [Requests -> Request] /\ PolicyRead'
    BY AnswerType
  <2>4. /\ table' \in Item /\ older' \subseteq Item /\ written' \subseteq Writing
        /\ faults' \in 0..MaxFaults
        /\ req' \in [Requests -> Request] /\ PolicyRead'
    BY <1>6, <2>1, <2>2, <2>3, StartRecordType, WriteType DEF ReplaceOnPolicyMismatch
  <2>. QED  BY <1>6, <2>4 DEF ReplaceOnPolicyMismatch, TypeOK
<1>7. ASSUME NEW r \in Requests, UpdateOnDuplicateHit(r) PROVE TypeInv'
  <2>1. HitAllowed \in BOOLEAN
    BY DEF Present, HitAllowed
  <2>2. Answer(r, "done", "duplicate") => req' \in [Requests -> Request] /\ PolicyRead'
    BY AnswerType
  <2>3. Answer(r, "failed", "conditional")
          => req' \in [Requests -> Request] /\ PolicyRead'
    BY AnswerType
  <2>4. HitAllowed /\ CountHit(r) =>
          table' \in Item /\ older' \subseteq Item /\ written' \subseteq Writing
    BY HitRecordType, StoreType, Shapes DEF HitAllowed, CountHit, TypeOK
  <2>5. Write(r, HitAllowed, CountHit(r),
              Answer(r, "done", "duplicate"), Answer(r, "failed", "conditional"))
    BY <1>7 DEF UpdateOnDuplicateHit
  <2>6. /\ table' \in Item /\ older' \subseteq Item /\ written' \subseteq Writing
        /\ faults' \in 0..MaxFaults
        /\ req' \in [Requests -> Request] /\ PolicyRead'
    BY <2>1, <2>2, <2>3, <2>4, <2>5, WriteType, SMTT(30)
  <2>. QED  BY <1>7, <2>6 DEF UpdateOnDuplicateHit, TypeOK
<1>12. ASSUME NEW r \in Requests, Reinvoke(r) PROVE TypeInv'
  <2>1. req' \in [Requests -> Request] /\ PolicyRead'
    BY <1>12, InvokedAgainType DEF Reinvoke
  <2>2. reinvoked' \in 0..MaxFaults
    BY <1>12, Bounds DEF Reinvoke, MayFail, TypeOK
  <2>. QED  BY <1>12, <2>1, <2>2 DEF Reinvoke, TypeOK
<1>8. CASE Converge
  BY <1>8 DEF Converge, TypeOK, PolicyRead
<1>9. CASE Expire
  BY <1>9, StoreType DEF Expire, TypeOK, PolicyRead, Item
<1>10. CASE UpgradePolicy
  BY <1>10, Bounds DEF UpgradePolicy, TypeOK, PolicyRead
<1>11. CASE UNCHANGED vars
  BY <1>11 DEF vars, TypeOK, PolicyRead
<1>. QED
  BY <1>1, <1>2, <1>3, <1>4, <1>5, <1>6, <1>7, <1>8, <1>9, <1>10, <1>11, <1>12 DEF Next

\* The variables keep their types in every reachable state.
THEOREM TypeCorrect == Spec => []TypeOK
<1>1. TypeInv /\ [Next]_vars => TypeInv'
  BY TypeStep
<1>. QED  BY InitType, <1>1, PTL DEF Spec, TypeInv

-----------------------------------------------------------------------------
(***************************************************************************)
(* What a step may do to the item and to the one request it is a step of.  *)
(* The theorems below are argued by cases on these.                        *)
(***************************************************************************)
Keeps == UNCHANGED <<table, older, written>>
Told(r, phase, answer) == req'[r] = [req[r] EXCEPT !.phase = phase, !.answer = answer]

\* The item is stored, with or without an answer.
Stores(r) ==
  \/ req[r].phase = "put" /\ ~Present(table) /\ StartRecord(r)
  \/ req[r].phase = "replace" /\ ReplaceAllowed(r) /\ StartRecord(r)
  \/ req[r].phase = "hit" /\ Present(table) /\ CountHit(r)

\* Nothing is answered yet: the invocation goes on, gives up, or is followed by
\* another one.
Moves(r)    == /\ req[r].phase \in {"idle", "hashing"}
               /\ req'[r].phase \in {"hashing", "get"}
               /\ req'[r].answer = req[r].answer /\ req'[r].read = req[r].read
               /\ req'[r].runs = req[r].runs
Abandons(r) == /\ req'[r].phase = "failed" /\ faults' > faults
               /\ req'[r].answer = req[r].answer /\ req'[r].read = req[r].read
               /\ req'[r].runs = req[r].runs
Again(r)    == /\ req'[r].phase = "idle" /\ req'[r].answer = "none"
               /\ req'[r].read = Absent /\ req'[r].policy = 0 /\ req'[r].runs > 1
Restarts(r) == Moves(r) \/ Abandons(r) \/ Again(r)
Reads(r)    == /\ req[r].phase = "get" /\ Keeps
               /\ \E item \in older \union {table} :
                    /\ ~OverrideHit(r, item)
                    /\ req'[r] = [req[r] EXCEPT !.phase = NextWrite(r, item),
                                                !.read = item]

ToldByOverride(r) == /\ req[r].phase = "get" /\ Told(r, "done", "duplicate") /\ Keeps
                     /\ r \in Override
                     /\ \E item \in older \union {table} : Present(item)
ToldByPut(r)      == /\ req[r].phase = "put" /\ Told(r, "done", "fresh")
                     /\ (Present(table) /\ Keeps) \/ Stores(r)
ToldByReplace(r)  == /\ req[r].phase = "replace" /\ Told(r, "done", "fresh")
                     /\ Stores(r)
ToldByHit(r)      == /\ req[r].phase = "hit" /\ Told(r, "done", "duplicate")
                     /\ Stores(r)
Conflicts(r)      == /\ Told(r, "failed", "conditional") /\ Keeps
                     /\ \/ req[r].phase = "replace" /\ ~ReplaceAllowed(r)
                        \/ req[r].phase = "hit" /\ ~Present(table)

StepOf(r) ==
  /\ \A q \in Requests \ {r} : req'[q] = req[q]
  /\ req[r].phase \notin {"done", "failed"}
  /\ UNCHANGED <<policy, expired, reinvoked>>
  /\ \/ /\ req'[r] = req[r] \/ Restarts(r)
        /\ Keeps \/ (Stores(r) /\ faults' > faults)
     \/ Reads(r)
     \/ ToldByOverride(r) \/ ToldByPut(r) \/ ToldByReplace(r) \/ ToldByHit(r)
     \/ Conflicts(r)

\* A task that had ended is invoked again.
RunsAgain(r) ==
  /\ \A q \in Requests \ {r} : req'[q] = req[q]
  /\ req[r].phase \in {"done", "failed"} /\ Again(r) /\ Keeps
  /\ reinvoked' = reinvoked + 1
  /\ UNCHANGED <<policy, expired, faults>>

OtherStep == /\ UNCHANGED <<req, written, reinvoked>>
             /\ policy' >= policy
             /\ \/ UNCHANGED <<table, expired>> /\ older' \subseteq older
                \/ expired' /\ Store(Absent)

LEMMA AgainStep ==
  ASSUME TypeInv, NEW r \in Requests, InvokedAgain(r)
  PROVE  Again(r) /\ \A q \in Requests \ {r} : req'[q] = req[q]
<1>1. req[r].runs + 1 > 1
  BY Bounds DEF TypeInv, TypeOK, Request
<1>. QED  BY <1>1 DEF InvokedAgain, Again, TypeInv, TypeOK

LEMMA GiveUpStep ==
  ASSUME TypeInv, NEW r \in Requests, GiveUp(r), faults' > faults
  PROVE  Restarts(r) /\ \A q \in Requests \ {r} : req'[q] = req[q]
<1>1. CASE Goto(r, "failed")
  BY <1>1 DEF Goto, Restarts, Abandons, TypeInv, TypeOK, Request
<1>. QED  BY <1>1, AgainStep DEF GiveUp, Restarts

LEMMA AnswerStep ==
  ASSUME TypeInv, NEW r \in Requests, NEW p, NEW a, Answer(r, p, a)
  PROVE  Told(r, p, a) /\ \A q \in Requests \ {r} : req'[q] = req[q]
  BY DEF Answer, Told, TypeInv, TypeOK, Request

LEMMA FaultStep == TypeInv /\ Fault => faults' > faults
  BY Bounds DEF Fault, MayFail, TypeInv, TypeOK

LEMMA WriteStep ==
  ASSUME TypeInv, NEW r \in Requests, NEW condition, NEW store,
         NEW onDone, NEW onRefused, Write(r, condition, store, onDone, onRefused)
  PROVE  \/ condition /\ store /\ onDone
         \/ ~condition /\ onRefused /\ Keeps
         \/ /\ Keeps \/ (condition /\ store /\ faults' > faults)
            /\ req'[r] = req[r] \/ Restarts(r)
            /\ \A q \in Requests \ {r} : req'[q] = req[q]
  BY GiveUpStep, FaultStep DEF Write, Keeps

LEMMA Steps ==
  TypeInv /\ [Next]_vars => OtherStep \/ \E r \in Requests : StepOf(r) \/ RunsAgain(r)
<1> SUFFICES ASSUME TypeInv, [Next]_vars
             PROVE  OtherStep \/ \E r \in Requests : StepOf(r) \/ RunsAgain(r)
  OBVIOUS
<1>1. ASSUME NEW r \in Requests, ReadConfig(r) \/ Stamp(r) PROVE StepOf(r)
  BY <1>1 DEF ReadConfig, Stamp, StepOf, Restarts, Moves, Keeps, TypeInv, TypeOK, Request
<1>2. ASSUME NEW r \in Requests, StepFails(r) PROVE StepOf(r)
  BY <1>2, GiveUpStep, FaultStep DEF StepFails, StepOf, Keeps
<1>3. ASSUME NEW r \in Requests, Get(r) PROVE StepOf(r)
  <2>1. CASE Fault /\ GiveUp(r)
    BY <1>3, <2>1, GiveUpStep, FaultStep DEF Get, StepOf, Keeps
  <2>2. ASSUME NEW item \in older \union {table},
               OverrideHit(r, item), Answer(r, "done", "duplicate")
        PROVE  StepOf(r)
    BY <1>3, <2>2, AnswerStep DEF Get, OverrideHit, StepOf, ToldByOverride, Keeps
  <2>3. ASSUME NEW item \in older \union {table}, ~OverrideHit(r, item),
               req' = [req EXCEPT ![r].phase = NextWrite(r, item), ![r].read = item]
        PROVE  StepOf(r)
    <3>1. req'[r] = [req[r] EXCEPT !.phase = NextWrite(r, item), !.read = item]
      BY <2>3 DEF TypeInv, TypeOK
    <3>2. \A q \in Requests \ {r} : req'[q] = req[q]
      BY <2>3 DEF TypeInv, TypeOK
    <3>. QED  BY <1>3, <2>3, <3>1, <3>2 DEF Get, StepOf, Reads, Keeps
  <2>. QED  BY <1>3, <2>1, <2>2, <2>3 DEF Get
<1>4. ASSUME NEW r \in Requests, PutIfAbsent(r) PROVE StepOf(r)
  <2>1. req[r].phase = "put"
    BY <1>4 DEF PutIfAbsent
  <2>2. \/ PutAllowed /\ StartRecord(r) /\ Answer(r, "done", "fresh")
        \/ ~PutAllowed /\ Answer(r, "done", "fresh") /\ Keeps
        \/ /\ Keeps \/ (PutAllowed /\ StartRecord(r) /\ faults' > faults)
           /\ req'[r] = req[r] \/ Restarts(r)
           /\ \A q \in Requests \ {r} : req'[q] = req[q]
    BY <1>4, WriteStep DEF PutIfAbsent
  <2>. QED  BY <1>4, <2>1, <2>2, AnswerStep
            DEF PutIfAbsent, PutAllowed, StepOf, Stores, ToldByPut
<1>5. ASSUME NEW r \in Requests, ReplaceOnPolicyMismatch(r) PROVE StepOf(r)
  <2>1. req[r].phase = "replace"
    BY <1>5 DEF ReplaceOnPolicyMismatch
  <2>2. \/ ReplaceAllowed(r) /\ StartRecord(r) /\ Answer(r, "done", "fresh")
        \/ ~ReplaceAllowed(r) /\ Answer(r, "failed", "conditional") /\ Keeps
        \/ /\ Keeps \/ (ReplaceAllowed(r) /\ StartRecord(r) /\ faults' > faults)
           /\ req'[r] = req[r] \/ Restarts(r)
           /\ \A q \in Requests \ {r} : req'[q] = req[q]
    BY <1>5, WriteStep DEF ReplaceOnPolicyMismatch
  <2>. QED  BY <1>5, <2>1, <2>2, AnswerStep
            DEF ReplaceOnPolicyMismatch, StepOf, Stores, ToldByReplace, Conflicts
<1>6. ASSUME NEW r \in Requests, UpdateOnDuplicateHit(r) PROVE StepOf(r)
  <2>1. req[r].phase = "hit"
    BY <1>6 DEF UpdateOnDuplicateHit
  <2>2. \/ HitAllowed /\ CountHit(r) /\ Answer(r, "done", "duplicate")
        \/ ~HitAllowed /\ Answer(r, "failed", "conditional") /\ Keeps
        \/ /\ Keeps \/ (HitAllowed /\ CountHit(r) /\ faults' > faults)
           /\ req'[r] = req[r] \/ Restarts(r)
           /\ \A q \in Requests \ {r} : req'[q] = req[q]
    BY <1>6, WriteStep DEF UpdateOnDuplicateHit
  <2>. QED  BY <1>6, <2>1, <2>2, AnswerStep
            DEF UpdateOnDuplicateHit, HitAllowed, StepOf, Stores, ToldByHit, Conflicts
<1>7. CASE Converge \/ Expire \/ UpgradePolicy \/ UNCHANGED vars
  <2>1. policy \in Nat
    BY Bounds DEF TypeInv, TypeOK
  <2>. QED  BY <1>7, <2>1 DEF Converge, Expire, UpgradePolicy, vars, OtherStep
<1>8. ASSUME NEW r \in Requests, Reinvoke(r) PROVE RunsAgain(r)
  BY <1>8, AgainStep DEF Reinvoke, RunsAgain, Keeps
<1>. QED  BY <1>1, <1>2, <1>3, <1>4, <1>5, <1>6, <1>7, <1>8 DEF Next

-----------------------------------------------------------------------------
(***************************************************************************)
(* A record gets a new first document only with a new policy version: a    *)
(* request replaces what it has found to be of another version than its    *)
(* own, and the condition holds it to that version.                        *)
(***************************************************************************)
ReplacesStale ==
  \A r \in Requests : req[r].phase = "replace" => req[r].read.policy # req[r].policy

LEMMA ReplacesStaleStep == TypeInv /\ ReplacesStale /\ [Next]_vars => ReplacesStale'
<1> SUFFICES ASSUME TypeInv, ReplacesStale, [Next]_vars,
                    NEW q \in Requests, req'[q].phase = "replace"
             PROVE  req'[q].read.policy # req'[q].policy
  BY DEF ReplacesStale
<1>1. CASE req'[q] = req[q]
  BY <1>1 DEF ReplacesStale
<1>2. CASE Reads(q)
  BY <1>2 DEF Reads, NextWrite, TypeInv, TypeOK, Request
<1>3. req'[q] = req[q] \/ Reads(q)
  <2>1. req[q] \in Request
    BY DEF TypeInv, TypeOK
  <2>2. ~Restarts(q) /\ \A p \in {"done", "failed"} : \A a : ~Told(q, p, a)
    BY <2>1 DEF Restarts, Moves, Abandons, Again, Told, Request
  <2>. QED  BY <2>2, Steps DEF OtherStep, StepOf, RunsAgain, Restarts, ToldByOverride,
                               ToldByPut, ToldByReplace, ToldByHit, Conflicts
<1>. QED  BY <1>1, <1>2, <1>3

\* Racing first sightings and refreshes never take a record over.
THEOREM FirstDocumentKeptAlways == Spec => FirstDocumentKept
<1>1. Init => ReplacesStale
  BY DEF Init, ReplacesStale
<1>2. TypeInv /\ ReplacesStale /\ [Next]_vars =>
        [Present(table) /\ Present(table)' /\ table'.first # table.first
           => table'.policy # table.policy]_vars
  <2> SUFFICES ASSUME TypeInv, ReplacesStale, [Next]_vars, Present(table),
                      Present(table'), table'.first # table.first
               PROVE  table'.policy # table.policy
    BY DEF Present
  <2>1. PICK r \in Requests : Stores(r)
    <3>1. ~OtherStep
      BY DEF OtherStep, Store, Present, Absent
    <3>2. ~Keeps
      BY DEF Keeps
    <3>. QED  BY <3>1, <3>2, Steps DEF StepOf, RunsAgain, Reads, ToldByOverride,
                                       ToldByPut, ToldByReplace, ToldByHit, Conflicts
  <2>2. req[r].phase # "hit"
    BY <2>1, HitRecordType DEF Stores, CountHit, Store
  <2>3. req[r].phase = "replace" /\ ReplaceAllowed(r) /\ table' = NewRecord(r)
    BY <2>1, <2>2 DEF Stores, StartRecord, Store
  <2>. QED  BY <2>3, NewRecordType DEF ReplaceAllowed, ReplacesStale, TypeInv, PolicyRead
<1>. QED  BY InitType, TypeStep, <1>1, ReplacesStaleStep, <1>2, PTL
          DEF Spec, FirstDocumentKept

-----------------------------------------------------------------------------
(***************************************************************************)
(* Until the TTL takes a record, an answer implies a record, and a record  *)
(* that any read may still return implies that there is one.               *)
(***************************************************************************)
Recorded == ~expired => /\ \A item \in older : Present(item) => Present(table)
                        /\ \A r \in Requests : Answered(r) => Present(table)

LEMMA StoresPresent ==
  ASSUME TypeInv, NEW r \in Requests, Stores(r)
  PROVE  Present(table') /\ older' = older \union {table}
  BY HitRecordType, NewRecordType, Shapes
     DEF Stores, StartRecord, CountHit, Store, TypeInv, PolicyRead

LEMMA RecordedStep == TypeInv /\ Recorded /\ [Next]_vars => Recorded'
<1> SUFFICES ASSUME TypeInv, Recorded, [Next]_vars, ~expired'
             PROVE  /\ \A item \in older' : Present(item) => Present(table')
                    /\ \A r \in Requests : Answered(r)' => Present(table')
  BY DEF Recorded, Present
<1>1. CASE OtherStep
  BY <1>1 DEF OtherStep, Recorded, Answered
<1>2. ASSUME NEW r \in Requests, StepOf(r)
      PROVE  /\ \A item \in older' : Present(item) => Present(table')
             /\ \A q \in Requests : Answered(q)' => Present(table')
  <2>0. ~expired
    BY <1>2 DEF StepOf
  <2>1. CASE Stores(r)
    BY <2>1, StoresPresent
  <2>2. CASE Keeps /\ ToldByOverride(r)
    BY <2>0, <2>2 DEF Keeps, ToldByOverride, Recorded
  <2>3. CASE Keeps /\ ToldByPut(r) /\ ~Stores(r)
    BY <2>3 DEF Keeps, ToldByPut
  <2>4. CASE Keeps /\ \A q \in Requests : Answered(q)' => Answered(q)
    BY <2>0, <2>4 DEF Keeps, Recorded
  <2>5. Reads(r) \/ Restarts(r) \/ Conflicts(r) \/ req'[r] = req[r] =>
          \A q \in Requests : Answered(q)' => Answered(q)
    <3>1. req[r] \in Request
      BY DEF TypeInv, TypeOK
    <3>2. Reads(r) => req'[r].answer = req[r].answer
      BY <3>1 DEF Reads, Request
    <3>3. Conflicts(r) => req'[r].answer = "conditional"
      BY <3>1 DEF Conflicts, Told, Request
    <3>. QED  BY <1>2, <3>2, <3>3
              DEF Restarts, Moves, Abandons, Again, Answered, StepOf
  <2>. QED  BY <1>2, <2>1, <2>2, <2>3, <2>4, <2>5
            DEF StepOf, ToldByOverride, ToldByPut, ToldByReplace, ToldByHit, Reads,
                Conflicts
<1>3. ASSUME NEW r \in Requests, RunsAgain(r)
      PROVE  /\ \A item \in older' : Present(item) => Present(table')
             /\ \A q \in Requests : Answered(q)' => Present(table')
  BY <1>3 DEF RunsAgain, Again, Keeps, Recorded, Answered
<1>. QED  BY <1>1, <1>2, <1>3, Steps

\* Nobody is told anything about content that has no record.
THEOREM AnsweredIsRecordedAlways == Spec => []AnsweredIsRecorded
<1>1. Init => Recorded
  BY DEF Init, Recorded, Answered
<1>2. Recorded => AnsweredIsRecorded
  BY DEF Recorded, AnsweredIsRecorded
<1>. QED  BY InitType, TypeStep, <1>1, RecordedStep, <1>2, PTL DEF Spec

-----------------------------------------------------------------------------
(***************************************************************************)
(* A task that is on its way has told nobody anything, overrides never get *)
(* as far as counting a hit, and while there is one policy version it is   *)
(* never replaced.                                                         *)
(***************************************************************************)
Unanswered == \A r \in Requests :
                req[r].phase \notin {"done", "failed"} => req[r].answer = "none"
PlainHits  == \A r \in Requests : req[r].phase = "hit" => r \notin Override
FirstPolicy ==
  policy = 1 =>
    /\ \A item \in older \union {table} : Present(item) => item.policy = 1
    /\ \A r \in Requests : req[r].policy \in {0, 1} /\ req[r].phase # "replace"

ControlInv == Unanswered /\ PlainHits /\ FirstPolicy

LEMMA PolicyStep ==
  TypeInv /\ ControlInv /\ [Next]_vars /\ policy' = 1 =>
    /\ policy = 1
    /\ \A r \in Requests : req'[r].policy \in {req[r].policy, 0, 1}
<1> SUFFICES ASSUME TypeInv, ControlInv, [Next]_vars, policy' = 1
             PROVE  /\ policy = 1
                    /\ \A r \in Requests : req'[r].policy \in {req[r].policy, 0, 1}
  OBVIOUS
<1>1. policy = 1
  BY Steps, Bounds DEF OtherStep, StepOf, RunsAgain, TypeInv, TypeOK
<1>2. req \in [Requests -> Request]
  BY DEF TypeInv, TypeOK
<1>3. ASSUME NEW q \in Requests, NEW p, Goto(q, p)
      PROVE  \A r \in Requests : req'[r].policy = req[r].policy
  BY <1>2, <1>3 DEF Goto, Request
<1>4. ASSUME NEW q \in Requests, NEW p, NEW a, Answer(q, p, a)
      PROVE  \A r \in Requests : req'[r].policy = req[r].policy
  BY <1>2, <1>4 DEF Answer, Request
<1>11. ASSUME NEW q \in Requests, InvokedAgain(q)
      PROVE  \A r \in Requests : req'[r].policy \in {req[r].policy, 0}
  BY <1>2, <1>11 DEF InvokedAgain, Request
<1>5. ASSUME NEW q \in Requests, GiveUp(q)
      PROVE  \A r \in Requests : req'[r].policy \in {req[r].policy, 0}
  BY <1>2, <1>3, <1>5, <1>11 DEF GiveUp, Request
<1>6. ASSUME NEW q \in Requests, ReadConfig(q)
      PROVE  \A r \in Requests : req'[r].policy \in {req[r].policy, 1}
  BY <1>1, <1>2, <1>6 DEF ReadConfig, Request
<1>7. ASSUME NEW q \in Requests, Stamp(q)
      PROVE  \A r \in Requests : req'[r].policy = req[r].policy
  BY <1>2, <1>7 DEF Stamp, Request
<1>8. ASSUME NEW q \in Requests, Get(q)
      PROVE  \A r \in Requests : req'[r].policy \in {req[r].policy, 0}
  <2>1. ASSUME NEW item, req' = [req EXCEPT ![q].phase = NextWrite(q, item), ![q].read = item]
        PROVE  \A r \in Requests : req'[r].policy = req[r].policy
    <3>1. \A r \in Requests \ {q} : req'[r] = req[r]
      BY <1>2, <2>1
    <3>2. req'[q] = [req[q] EXCEPT !.phase = NextWrite(q, item), !.read = item]
      BY <1>2, <2>1
    <3>3. req[q] \in Request
      BY <1>2
    <3>4. req'[q].policy = req[q].policy
      BY <3>2, <3>3 DEF Request
    <3>. QED  BY <3>1, <3>4
  <2>. QED  BY <1>4, <1>5, <1>8, <2>1 DEF Get
<1>9. ASSUME NEW q \in Requests,
             \/ StepFails(q) \/ PutIfAbsent(q) \/ ReplaceOnPolicyMismatch(q)
             \/ UpdateOnDuplicateHit(q) \/ Reinvoke(q)
      PROVE  \A r \in Requests : req'[r].policy \in {req[r].policy, 0}
  BY <1>4, <1>5, <1>9, <1>11 DEF StepFails, PutIfAbsent, ReplaceOnPolicyMismatch,
                                 UpdateOnDuplicateHit, Reinvoke, Write
<1>10. CASE Converge \/ Expire \/ UpgradePolicy \/ UNCHANGED vars
  BY <1>1, <1>10 DEF Converge, Expire, UpgradePolicy, vars
<1>. QED  BY <1>1, <1>6, <1>7, <1>8, <1>9, <1>10 DEF Next

LEMMA ControlStep == TypeInv /\ ControlInv /\ [Next]_vars => ControlInv'
<1> SUFFICES ASSUME TypeInv, ControlInv, [Next]_vars PROVE ControlInv'
  OBVIOUS
<1>1. ASSUME NEW r \in Requests
      PROVE  /\ req'[r].phase \notin {"done", "failed"} => req'[r].answer = "none"
             /\ req'[r].phase = "hit" => r \notin Override
             /\ policy' = 1 => req'[r].phase # "replace"
  <2>1. req[r] \in Request
    BY DEF TypeInv, TypeOK
  <2>2. policy' = 1 => policy = 1
    BY Steps, Bounds DEF OtherStep, StepOf, RunsAgain, TypeInv, TypeOK
  <2>3. CASE req'[r] = req[r]
    BY <2>2, <2>3 DEF ControlInv, Unanswered, PlainHits, FirstPolicy
  <2>4. CASE Restarts(r) /\ (Again(r) \/ req[r].phase \notin {"done", "failed"})
    BY <2>4 DEF Restarts, Moves, Abandons, Again, ControlInv, Unanswered
  <2>5. CASE Reads(r)
    <3>1. PICK item \in older \union {table} :
                 /\ ~OverrideHit(r, item)
                 /\ req'[r] = [req[r] EXCEPT !.phase = NextWrite(r, item), !.read = item]
      BY <2>5 DEF Reads
    <3>2. req'[r].phase = NextWrite(r, item) /\ req'[r].answer = "none"
      BY <2>1, <2>5, <3>1 DEF Reads, Request, ControlInv, Unanswered
    <3>3. NextWrite(r, item) = "hit" => r \notin Override
      BY <3>1 DEF NextWrite, OverrideHit
    <3>4. req[r].policy \in 1..Policies
      BY <2>5 DEF Reads, TypeInv, PolicyRead
    <3>5. policy = 1 /\ Present(item) => item.policy = req[r].policy
      BY <3>4, Bounds DEF ControlInv, FirstPolicy
    <3>6. policy = 1 => NextWrite(r, item) # "replace"
      BY <3>5 DEF NextWrite
    <3>. QED  BY <2>2, <3>2, <3>3, <3>6
  <2>6. ASSUME NEW p \in {"done", "failed"}, NEW a, Told(r, p, a)
        PROVE  req'[r].phase = p
    BY <2>1, <2>6 DEF Told, Request
  <2>. QED  BY <2>3, <2>4, <2>5, <2>6, Steps
            DEF OtherStep, StepOf, RunsAgain, Restarts, ToldByOverride, ToldByPut,
                ToldByReplace, ToldByHit, Conflicts
<1>2. ASSUME policy' = 1, NEW item \in older' \union {table'}, Present(item)
      PROVE  item.policy = 1
  <2>1. policy = 1
    BY <1>2, Steps, Bounds DEF OtherStep, StepOf, RunsAgain, TypeInv, TypeOK
  <2>2. CASE item \in older \union {table}
    BY <1>2, <2>1, <2>2 DEF ControlInv, FirstPolicy
  <2>3. ASSUME NEW r \in Requests, Stores(r), item = table' PROVE item.policy = 1
    <3>1. CASE table' = HitRecord(r) /\ Present(table)
      BY <2>1, <2>3, <3>1, HitRecordType DEF ControlInv, FirstPolicy
    <3>2. CASE /\ table' = NewRecord(r) /\ req[r].policy \in 1..Policies
      BY <2>1, <2>3, <3>2, NewRecordType, Bounds DEF ControlInv, FirstPolicy
    <3>. QED  BY <2>3, <3>1, <3>2 DEF Stores, StartRecord, CountHit, Store,
                                      TypeInv, PolicyRead
  <2>4. OtherStep => item \in older \union {table}
    BY <1>2 DEF OtherStep, Store, Present, Absent
  <2>5. ASSUME NEW r \in Requests, StepOf(r)
        PROVE  item \in older \union {table} \/ (Stores(r) /\ item = table')
    BY <2>5 DEF StepOf, Keeps, Reads, ToldByOverride, ToldByPut, ToldByReplace,
                ToldByHit, Conflicts, Stores, StartRecord, CountHit, Store
  <2>6. ASSUME NEW r \in Requests, RunsAgain(r) PROVE item \in older \union {table}
    BY <2>6 DEF RunsAgain, Keeps
  <2>. QED  BY <2>2, <2>3, <2>4, <2>5, <2>6, Steps
<1>3. ASSUME policy' = 1, NEW r \in Requests PROVE req'[r].policy \in {0, 1}
  BY <1>3, PolicyStep DEF ControlInv, FirstPolicy
<1>. QED  BY <1>1, <1>2, <1>3 DEF ControlInv, Unanswered, PlainHits, FirstPolicy, Present

LEMMA InitControl == Init => ControlInv
  BY DEF Init, ControlInv, Unanswered, PlainHits, FirstPolicy, Present, Absent

-----------------------------------------------------------------------------
(***************************************************************************)
(* The hit counter against the set of documents called duplicates.         *)
(***************************************************************************)
CountInv == TypeInv /\ Recorded /\ ControlInv /\ HitsCounted

LEMMA DuplicatesFinite ==
  /\ IsFiniteSet(NonOverrideDuplicates) /\ IsFiniteSet(NonOverrideDuplicates')
  /\ Cardinality(NonOverrideDuplicates) \in Nat
  BY DedupAssumption, FS_Subset, FS_CardinalityType DEF NonOverrideDuplicates

LEMMA CountersGrow ==
  TypeInv /\ [Next]_vars => /\ faults \in Nat /\ faults' \in Nat /\ faults' >= faults
                            /\ reinvoked \in Nat /\ reinvoked' \in Nat
<1>. SUFFICES ASSUME TypeInv, [Next]_vars
              PROVE  /\ faults \in Nat /\ faults' \in Nat /\ faults' >= faults
                     /\ reinvoked \in Nat /\ reinvoked' \in Nat
  OBVIOUS
<1>1. faults \in Nat /\ faults' \in Nat /\ reinvoked \in Nat /\ reinvoked' \in Nat
  BY TypeStep, Bounds DEF TypeInv, TypeOK
<1>2. UNCHANGED faults \/ Fault
  BY DEF Next, vars, ReadConfig, StepFails, Stamp, Get, PutIfAbsent,
         ReplaceOnPolicyMismatch, UpdateOnDuplicateHit, Reinvoke, Write, Converge,
         Expire, UpgradePolicy
<1>. QED  BY <1>1, <1>2 DEF Fault

LEMMA CountStep == CountInv /\ [Next]_vars => HitsCounted'
<1> DEFINE D == NonOverrideDuplicates
<1> SUFFICES ASSUME CountInv, [Next]_vars, ~expired', policy' = 1, Present(table')
    PROVE  table'.hits \in Cardinality(D') .. Cardinality(D') + faults' + reinvoked'
  BY DEF HitsCounted, Present
<1>0. ~expired /\ policy = 1
  BY Steps, PolicyStep
     DEF CountInv, OtherStep, StepOf, RunsAgain, Store, Present, Absent
<1>1. /\ Present(table) =>
           table.hits \in Cardinality(D) .. Cardinality(D) + faults + reinvoked
      /\ ~Present(table) => D = {}
  BY <1>0 DEF CountInv, HitsCounted, Recorded, NonOverrideDuplicates, Duplicate, Answered
<1>2. /\ faults \in Nat /\ faults' \in Nat /\ faults' >= faults
      /\ reinvoked \in Nat /\ reinvoked' \in Nat
      /\ Cardinality(D) \in Nat /\ IsFiniteSet(D)
  BY CountersGrow, DuplicatesFinite DEF CountInv
<1>3. Present(table) => table.hits \in Nat
  BY Shapes DEF CountInv, TypeInv, TypeOK, Record
<1>4. CASE UNCHANGED <<table, reinvoked>> /\ D' = D
  BY <1>1, <1>2, <1>4
<1>5. CASE OtherStep
  <2>1. D' = D /\ UNCHANGED <<table, reinvoked>>
    BY <1>5 DEF OtherStep, NonOverrideDuplicates, Duplicate, Store, Present, Absent
  <2>. QED  BY <1>4, <2>1
<1>6. ASSUME NEW r \in Requests, StepOf(r)
      PROVE  table'.hits \in Cardinality(D') .. Cardinality(D') + faults' + reinvoked'
  <2>0. UNCHANGED reinvoked
    BY <1>6 DEF StepOf
  <2>1. req[r] \in Request /\ req[r].answer = "none"
    BY <1>6 DEF CountInv, ControlInv, Unanswered, StepOf, TypeInv, TypeOK
  <2>2. r \notin D
    BY <2>1 DEF NonOverrideDuplicates, Duplicate
  <2>3. req'[r].answer # "duplicate" \/ r \in Override => D' = D
    BY <1>6, <2>1 DEF NonOverrideDuplicates, Duplicate, StepOf
  <2>4. ~ToldByHit(r) => D' = D
    <3>1. Reads(r) => req'[r].answer = "none"
      BY <2>1 DEF Reads, Request
    <3>2. \A p, a : Told(r, p, a) => req'[r].answer = a
      BY <2>1 DEF Told, Request
    <3>3. Restarts(r) => req'[r].answer = "none"
      BY <2>1 DEF Restarts, Moves, Abandons, Again
    <3>. QED  BY <1>6, <2>1, <2>3, <3>1, <3>2, <3>3
              DEF StepOf, ToldByOverride, ToldByPut, ToldByReplace, Conflicts
  <2>5. req[r].phase # "replace"
    BY <1>0 DEF CountInv, ControlInv, FirstPolicy
  <2>6. CASE req[r].phase = "put" /\ Stores(r)
    <3>1. ~Present(table) /\ table' = NewRecord(r) /\ ~ToldByHit(r)
      BY <2>6 DEF Stores, StartRecord, Store, ToldByHit
    <3>2. table'.hits = 0 /\ D' = {}
      BY <1>1, <2>4, <3>1 DEF NewRecord
    <3>. QED  BY <1>2, <3>2, FS_EmptySet
  <2>7. CASE req[r].phase = "hit" /\ Stores(r)
    <3>1. Present(table) /\ table' = HitRecord(r)
      BY <2>7 DEF Stores, CountHit, Store
    <3>2. table'.hits = table.hits + 1
      BY <3>1, Shapes DEF HitRecord, Record, CountInv, TypeInv, TypeOK
    <3>3. CASE ToldByHit(r)
      <4>1. r \in D'
        BY <2>1, <2>7, <3>3 DEF ToldByHit, Told, Request, NonOverrideDuplicates,
                         Duplicate, CountInv, ControlInv, PlainHits
      <4>2. D' = D \union {r}
        BY <1>6, <4>1 DEF StepOf, NonOverrideDuplicates, Duplicate
      <4>3. Cardinality(D') = Cardinality(D) + 1
        BY <1>2, <2>2, <4>2, FS_AddElement
      <4>. QED  BY <1>1, <1>2, <1>3, <2>0, <3>1, <3>2, <4>3
    <3>4. CASE ~ToldByHit(r)
      <4>1. D' = D
        BY <2>4, <3>4
      <4>2. ~Keeps
        BY <1>3, <3>1, <3>2 DEF Keeps
      <4>3. req[r].phase = "hit"
        BY <2>7
      <4>4. faults' > faults
        BY <1>6, <3>4, <4>2, <4>3
           DEF StepOf, Reads, ToldByOverride, ToldByPut, ToldByReplace, Conflicts
      <4>. QED  BY <1>1, <1>2, <1>3, <2>0, <3>1, <3>2, <4>1, <4>4
    <3>. QED  BY <3>3, <3>4
  <2>8. CASE ~Stores(r)
    <3>1. UNCHANGED table /\ ~ToldByHit(r)
      BY <1>6, <2>8 DEF StepOf, Keeps, Reads, ToldByOverride, ToldByPut,
                        ToldByReplace, ToldByHit, Conflicts
    <3>. QED  BY <1>4, <2>0, <2>4, <3>1
  <2>. QED  BY <2>5, <2>6, <2>7, <2>8 DEF Stores
<1>7. ASSUME NEW r \in Requests, RunsAgain(r)
      PROVE  table'.hits \in Cardinality(D') .. Cardinality(D') + faults' + reinvoked'
  <2>1. UNCHANGED <<table, faults>> /\ reinvoked' = reinvoked + 1
    BY <1>7 DEF RunsAgain, Keeps
  <2>2. D' = D \ {r}
    BY <1>7 DEF RunsAgain, Again, NonOverrideDuplicates, Duplicate
  <2>3. CASE r \in D
    <3>1. Cardinality(D') = Cardinality(D) - 1
      BY <1>2, <2>2, <2>3, FS_RemoveElement
    <3>. QED  BY <1>1, <1>2, <1>3, <2>1, <3>1
  <2>4. CASE r \notin D
    <3>1. D' = D
      BY <2>2, <2>4
    <3>. QED  BY <1>1, <1>2, <1>3, <2>1, <3>1
  <2>. QED  BY <2>3, <2>4
<1>. QED  BY <1>5, <1>6, <1>7, Steps DEF CountInv

\* No hit is lost, and one is counted again only for a lost answer or a task
\* that was invoked again.
THEOREM HitsCountedAlways == Spec => []HitsCounted
<1>1. Init => CountInv
  BY InitType, InitControl DEF Init, CountInv, Recorded, Answered, HitsCounted,
                               Present, Absent
<1>2. CountInv /\ [Next]_vars => CountInv'
  BY TypeStep, RecordedStep, ControlStep, CountStep DEF CountInv
<1>3. CountInv => HitsCounted
  BY DEF CountInv
<1>. QED  BY <1>1, <1>2, <1>3, PTL DEF Spec

-----------------------------------------------------------------------------
(***************************************************************************)
(* Every record that a read may return was written by a task, and whoever  *)
(* has written one is answered "fresh" or runs again.                      *)
(***************************************************************************)
Sourced  == \A item \in older \union {table} :
              Present(item) => \E w \in written : w.first = item.first
Credited == \A w \in written : req[w.first].answer = "fresh" \/ Repeats(w.first)

OriginalInv == Sourced /\ Credited /\ OriginalGoesThrough

LEMMA StoresEntry ==
  ASSUME NEW r \in Requests, Stores(r)
  PROVE  /\ older' = older \union {table}
         /\ \/ /\ req[r].phase \in {"put", "replace"} /\ table' = NewRecord(r)
               /\ written' = written \union {Entry(r)}
            \/ /\ req[r].phase = "hit" /\ Present(table) /\ table' = HitRecord(r)
               /\ UNCHANGED written
  BY DEF Stores, StartRecord, CountHit, Store

LEMMA StepStores ==
  ASSUME NEW r \in Requests, StepOf(r)
  PROVE  Keeps \/ Stores(r)
  BY DEF StepOf, Reads, ToldByOverride, ToldByPut, ToldByReplace, ToldByHit, Conflicts

LEMMA WrittenStep ==
  ASSUME TypeInv, [Next]_vars
  PROVE  /\ written \subseteq written'
         /\ \A w \in written' : \/ w \in written
                                \/ \E r \in Requests : /\ StepOf(r) /\ Stores(r)
                                                       /\ req[r].phase \in {"put", "replace"}
                                                       /\ w = Entry(r)
<1>1. CASE OtherStep
  BY <1>1 DEF OtherStep
<1>2. ASSUME NEW r \in Requests, RunsAgain(r) PROVE written' = written
  BY <1>2 DEF RunsAgain, Keeps
<1>3. ASSUME NEW r \in Requests, StepOf(r)
      PROVE  \/ written' = written
             \/ /\ Stores(r) /\ req[r].phase \in {"put", "replace"}
                /\ written' = written \union {Entry(r)}
  BY <1>3, StepStores, StoresEntry DEF Keeps
<1>. QED  BY <1>1, <1>2, <1>3, Steps

\* Trouble is not forgotten, and ends in another answer or in none.
LEMMA RepeatsStep ==
  ASSUME TypeInv, ControlInv, [Next]_vars, NEW q \in Requests,
         req[q].answer = "fresh" \/ Repeats(q)
  PROVE  req'[q].answer = "fresh" \/ Repeats(q)'
<1>0. /\ req[q] \in Request /\ req[q].runs \in Nat
      /\ faults \in Nat /\ faults' \in Nat /\ faults' >= faults
  BY CountersGrow, Bounds DEF TypeInv, TypeOK, Request
<1>1. CASE req'[q] = req[q]
  BY <1>0, <1>1 DEF Repeats
<1>2. CASE Again(q)
  BY <1>2 DEF Again, Repeats
<1>3. CASE StepOf(q) /\ ~Again(q) /\ req'[q] # req[q]
  <2>1. req[q].answer = "none" /\ Repeats(q)
    BY <1>3 DEF StepOf, ControlInv, Unanswered
  <2>2. \A p, a : Told(q, p, a) => /\ req'[q].answer = a /\ req'[q].phase = p
                                   /\ req'[q].runs = req[q].runs
    BY <1>0 DEF Told, Request
  <2>3. Reads(q) => req'[q].runs = req[q].runs /\ req[q].phase = "get"
    BY <1>0 DEF Reads, Request
  <2>4. CASE req[q].runs > 1
    <3>1. req'[q].runs = req[q].runs
      BY <1>3, <2>2, <2>3
         DEF StepOf, Restarts, Moves, Abandons, ToldByOverride, ToldByPut, ToldByReplace,
             ToldByHit, Conflicts
    <3>. QED  BY <2>4, <3>1 DEF Repeats
  <2>5. CASE faults > 0 /\ req[q].phase \in {"put", "replace"}
    <3>1. req'[q].answer = "fresh" \/ req'[q].phase = "failed"
      BY <1>3, <2>2, <2>3, <2>5
         DEF StepOf, Restarts, Moves, Abandons, ToldByPut, ToldByReplace,
             ToldByHit, Conflicts, ToldByOverride
    <3>. QED  BY <1>0, <2>5, <3>1 DEF Repeats
  <2>. QED  BY <1>3, <2>1, <2>4, <2>5 DEF Repeats, StepOf
<1>. QED  BY <1>1, <1>2, <1>3, Steps DEF OtherStep, StepOf, RunsAgain

LEMMA OriginalStep ==
  TypeInv /\ ControlInv /\ OriginalInv /\ [Next]_vars => OriginalInv'
<1> SUFFICES ASSUME TypeInv, ControlInv, OriginalInv, [Next]_vars PROVE OriginalInv'
  OBVIOUS
<1>0. /\ written \subseteq written' /\ written \subseteq Writing
      /\ faults \in Nat /\ faults' \in Nat /\ faults' >= faults
  BY WrittenStep, CountersGrow DEF TypeInv, TypeOK
<1>1. ASSUME NEW r \in Requests
      PROVE  /\ Entry(r).first = r
             /\ NewRecord(r).first = r
  BY DEF Entry, NewRecord
<1>2. Sourced'
  <2>1. ASSUME NEW item \in older' \union {table'}, Present(item)
        PROVE  \E w \in written' : w.first = item.first
    <3>1. CASE item \in older \union {table}
      BY <1>0, <2>1, <3>1 DEF OriginalInv, Sourced
    <3>2. ASSUME NEW r \in Requests, Stores(r), item = table'
          PROVE  \E w \in written' : w.first = item.first
      <4>1. CASE table' = NewRecord(r) /\ written' = written \union {Entry(r)}
        BY <1>1, <3>2, <4>1
      <4>2. CASE Present(table) /\ table' = HitRecord(r)
        BY <1>0, <3>2, <4>2, HitRecordType DEF OriginalInv, Sourced
      <4>. QED  BY <3>2, <4>1, <4>2, StoresEntry
    <3>3. OtherStep => item \in older \union {table}
      BY <2>1 DEF OtherStep, Store, Present, Absent
    <3>4. \A r \in Requests : RunsAgain(r) => item \in older \union {table}
      BY DEF RunsAgain, Keeps
    <3>5. ASSUME NEW r \in Requests, StepOf(r)
          PROVE  item \in older \union {table} \/ (Stores(r) /\ item = table')
      BY <3>5, StepStores, StoresEntry DEF Keeps
    <3>. QED  BY <3>1, <3>2, <3>3, <3>4, <3>5, Steps
  <2>. QED  BY <2>1 DEF Sourced, Present
<1>3. Credited'
  <2>1. ASSUME NEW w \in written' PROVE req'[w.first].answer = "fresh" \/ Repeats(w.first)'
    <3>1. CASE w \in written
      <4>1. w.first \in Requests
        BY <1>0, <3>1 DEF Writing
      <4>. QED  BY <3>1, <4>1, RepeatsStep DEF OriginalInv, Credited
    <3>2. ASSUME NEW r \in Requests, StepOf(r), w = Entry(r), w \notin written,
                 req[r].phase \in {"put", "replace"}
          PROVE  req'[r].answer = "fresh" \/ Repeats(r)'
      <4>1. req[r] \in Request /\ ~Keeps
        BY <3>2 DEF Keeps, TypeInv, TypeOK
      <4>2. \A p, a : Told(r, p, a) => req'[r].answer = a
        BY <4>1 DEF Told, Request
      <4>3. CASE ToldByPut(r) \/ ToldByReplace(r)
        BY <4>2, <4>3 DEF ToldByPut, ToldByReplace
      <4>4. CASE faults' > faults /\ (req'[r] = req[r] \/ Restarts(r))
        BY <1>0, <3>2, <4>4 DEF Repeats, Restarts, Moves, Abandons, Again
      <4>. QED  BY <3>2, <4>1, <4>3, <4>4
                DEF StepOf, Reads, ToldByOverride, ToldByHit, Conflicts
    <3>. QED  BY <1>1, <3>1, <3>2, WrittenStep
  <2>. QED  BY <2>1 DEF Credited
<1>4. OriginalGoesThrough'
  <2>1. ASSUME NEW q \in Requests, req'[q].answer = "duplicate"
        PROVE  \E w \in written' : w.first # q \/ req'[q].runs > 1
    <3>1. CASE req'[q] = req[q]
      BY <1>0, <2>1, <3>1 DEF OriginalInv, OriginalGoesThrough, Duplicate
    <3>2. CASE req'[q] # req[q]
      <4>1. StepOf(q)
        BY <2>1, <3>2, Steps DEF OtherStep, StepOf, RunsAgain, Again
      <4>2. req[q] \in Request /\ req[q].answer = "none"
        BY <4>1 DEF StepOf, ControlInv, Unanswered, TypeInv, TypeOK
      <4>3. \A p, a : Told(q, p, a) => req'[q].answer = a /\ req'[q].runs = req[q].runs
        BY <4>2 DEF Told, Request
      <4>4. Reads(q) => req'[q].answer = "none"
        BY <4>2 DEF Reads, Request
      <4>5. ToldByOverride(q) \/ ToldByHit(q)
        BY <2>1, <3>2, <4>1, <4>2, <4>3, <4>4
           DEF StepOf, Restarts, Moves, Abandons, Again, ToldByPut, ToldByReplace, Conflicts
      <4>6. PICK item \in older \union {table} : Present(item)
        BY <4>5, StoresEntry DEF ToldByOverride, ToldByHit
      <4>7. PICK w \in written : w.first = item.first
        BY <4>6 DEF OriginalInv, Sourced
      <4>8. req[q].phase \in {"get", "hit"} /\ req'[q].runs = req[q].runs
        BY <4>3, <4>5 DEF ToldByOverride, ToldByHit
      <4>9. w.first = q => req[q].runs > 1
        BY <4>2, <4>7, <4>8 DEF OriginalInv, Credited, Repeats
      <4>. QED  BY <1>0, <4>7, <4>8, <4>9
    <3>. QED  BY <3>1, <3>2
  <2>. QED  BY <1>3, <2>1 DEF OriginalGoesThrough, Duplicate, Credited
<1>. QED  BY <1>2, <1>3, <1>4 DEF OriginalInv

\* A duplicate is one of another task's record, or of a task invoked again, and
\* whoever has written it is the original unless it is in trouble itself.
THEOREM OriginalGoesThroughAlways == Spec => []OriginalGoesThrough
<1>1. Init => OriginalInv
  BY DEF Init, OriginalInv, Sourced, Credited, OriginalGoesThrough, Duplicate,
         Present, Absent
<1>2. OriginalInv => OriginalGoesThrough
  BY DEF OriginalInv
<1>. QED  BY InitType, TypeStep, InitControl, ControlStep, OriginalStep, <1>1, <1>2, PTL
          DEF Spec

-----------------------------------------------------------------------------
(***************************************************************************)
(* Refused conditions.  Until the TTL takes a record, what any task has    *)
(* read is of the version of the record, or the record has been refreshed  *)
(* to its version.                                                         *)
(***************************************************************************)
\* A task that is to write to a record has read one.
HasRead == \A r \in Requests :
             req[r].phase \in {"replace", "hit"} => Present(req[r].read)

Known == older \union {table} \union {req[r].read : r \in Requests}

OneVersion ==
  ~expired =>
    /\ \A item \in Known : Present(item) => Present(table)
    /\ Present(table) =>
         \/ \E w \in written : w.over /\ w.policy = table.policy
         \/ \A item \in Known : Present(item) => item.policy = table.policy

RefusedInv == HasRead /\ OneVersion /\ Credited /\ RefusedForACause

LEMMA HasReadStep == TypeInv /\ HasRead /\ [Next]_vars => HasRead'
<1> SUFFICES ASSUME TypeInv, HasRead, [Next]_vars, NEW q \in Requests,
                    req'[q].phase \in {"replace", "hit"}
             PROVE  Present(req'[q].read)
  BY DEF HasRead, Present
<1>1. req[q] \in Request
  BY DEF TypeInv, TypeOK
<1>2. ~Restarts(q) /\ \A p \in {"done", "failed"} : \A a : ~Told(q, p, a)
  BY <1>1 DEF Restarts, Moves, Abandons, Again, Told, Request
<1>3. req'[q] = req[q] \/ Reads(q)
  BY <1>2, Steps DEF OtherStep, StepOf, RunsAgain, Restarts, ToldByOverride, ToldByPut,
                     ToldByReplace, ToldByHit, Conflicts
<1>4. CASE Reads(q)
  BY <1>1, <1>4 DEF Reads, NextWrite, Request
<1>. QED  BY <1>3, <1>4 DEF HasRead

LEMMA OneVersionStep ==
  TypeInv /\ HasRead /\ OneVersion /\ [Next]_vars => OneVersion'
<1> SUFFICES ASSUME TypeInv, HasRead, OneVersion, [Next]_vars, ~expired'
             PROVE  OneVersion'
  BY DEF OneVersion
<1>0. written \subseteq written'
  BY WrittenStep
<1>1. CASE OtherStep
  <2>1. ~expired /\ UNCHANGED <<table, req, written>> /\ older' \subseteq older
    BY <1>1 DEF OtherStep
  <2>2. Known' \subseteq Known
    BY <2>1 DEF Known
  <2>. QED  BY <2>1, <2>2 DEF OneVersion, Present
<1>2. ASSUME ~expired, Keeps,
             \A q \in Requests : req'[q].read \in Known \union {Absent}
      PROVE  OneVersion'
  <2>1. \A item \in Known' : item \in Known \/ item = Absent
    BY <1>2 DEF Keeps, Known
  <2>. QED  BY <1>2, <2>1, Shapes DEF Keeps, OneVersion, Present
<1>3. ASSUME NEW r \in Requests, RunsAgain(r) PROVE OneVersion'
  BY <1>2, <1>3 DEF RunsAgain, Again, Known
<1>4. ASSUME NEW r \in Requests, StepOf(r) PROVE OneVersion'
  <2>0. ~expired
    BY <1>4 DEF StepOf
  <2>1. req[r] \in Request
    BY DEF TypeInv, TypeOK
  <2>2. \A p, a : Told(r, p, a) => req'[r].read = req[r].read
    BY <2>1 DEF Told, Request
  <2>3. Reads(r) => req'[r].read \in older \union {table}
    BY <2>1 DEF Reads, Request
  <2>4. req'[r].read \in Known \union {Absent}
    BY <1>4, <2>2, <2>3 DEF StepOf, Restarts, Moves, Abandons, Again, ToldByOverride,
                            ToldByPut, ToldByReplace, ToldByHit, Conflicts, Known
  <2>5. \A q \in Requests : req'[q].read \in Known \union {Absent}
    BY <1>4, <2>4 DEF StepOf, Known
  <2>6. CASE Keeps
    BY <1>2, <2>0, <2>5, <2>6
  <2>7. CASE Stores(r) /\ req[r].phase = "put"
    <3>1. ~Present(table) /\ table' = NewRecord(r) /\ older' = older \union {table}
      BY <2>7 DEF Stores, StartRecord, Store
    <3>2. \A item \in Known : ~Present(item)
      BY <2>0, <3>1 DEF OneVersion
    <3>3. \A item \in Known' : Present(item) => item = table'
      BY <2>5, <3>1, <3>2, Shapes DEF Known
    <3>4. Present(table')
      BY <3>1 DEF NewRecord, Present
    <3>. QED  BY <3>3, <3>4 DEF OneVersion, Present
  <2>8. CASE Stores(r) /\ req[r].phase = "replace"
    <3>1. table' = NewRecord(r) /\ Entry(r) \in written'
      BY <2>8, StoresEntry
    <3>2. Present(table)
      BY <2>8 DEF Stores, ReplaceAllowed
    <3>3. Entry(r).over /\ Entry(r).policy = table'.policy /\ Present(table')
      BY <3>1, <3>2 DEF Entry, NewRecord, Present
    <3>. QED  BY <3>1, <3>3 DEF OneVersion, Present
  <2>9. CASE Stores(r) /\ req[r].phase = "hit"
    <3>1. Present(table) /\ table' = HitRecord(r) /\ older' = older \union {table}
      BY <2>9, StoresEntry
    <3>2. Present(table') /\ table'.policy = table.policy
      BY <3>1, Shapes, HitRecordType
    <3>3. \A item \in Known' : item = table' \/ item \in Known \/ ~Present(item)
      BY <2>5, <3>1, Shapes DEF Known
    <3>. QED  BY <1>0, <2>0, <3>1, <3>2, <3>3 DEF OneVersion, Present
  <2>. QED  BY <1>4, <2>6, <2>7, <2>8, <2>9, StepStores, StoresEntry
<1>. QED  BY <1>1, <1>3, <1>4, Steps

LEMMA RefusedStep ==
  TypeInv /\ ControlInv /\ RefusedInv /\ [Next]_vars => RefusedForACause'
<1> SUFFICES ASSUME TypeInv, ControlInv, RefusedInv, [Next]_vars, ~expired',
                    NEW q \in Requests, req'[q].answer = "conditional"
             PROVE  \E w \in written' : /\ w.over /\ w.policy # req'[q].read.policy
                                        /\ w.first # q \/ Repeats(q)'
  BY DEF RefusedForACause
<1>0. ~expired /\ written \subseteq written'
  BY WrittenStep, Steps DEF OtherStep, StepOf, RunsAgain
<1>1. /\ req[q] \in Request /\ faults \in Nat /\ faults' \in Nat /\ faults' >= faults
  BY CountersGrow DEF TypeInv, TypeOK
<1>2. CASE req'[q] = req[q]
  <2>1. PICK w \in written : /\ w.over /\ w.policy # req[q].read.policy
                             /\ w.first # q \/ Repeats(q)
    BY <1>0, <1>2 DEF RefusedInv, RefusedForACause
  <2>2. Repeats(q) => Repeats(q)'
    BY <1>1, <1>2 DEF Repeats
  <2>. QED  BY <1>0, <1>2, <2>1, <2>2
<1>3. CASE req'[q] # req[q]
  <2>1. StepOf(q)
    BY <1>3, Steps DEF OtherStep, StepOf, RunsAgain, Again
  <2>2. req[q].answer = "none"
    BY <2>1 DEF StepOf, ControlInv, Unanswered
  <2>3. \A p, a : Told(q, p, a) => /\ req'[q].answer = a /\ req'[q].phase = p
                                   /\ req'[q].read = req[q].read
                                   /\ req'[q].runs = req[q].runs
    BY <1>1 DEF Told, Request
  <2>4. Reads(q) => req'[q].answer = "none"
    BY <1>1, <2>2 DEF Reads, Request
  <2>5. Conflicts(q)
    BY <1>3, <2>1, <2>2, <2>3, <2>4
       DEF StepOf, Restarts, Moves, Abandons, Again, ToldByOverride, ToldByPut,
           ToldByReplace, ToldByHit
  <2>6. /\ Present(req[q].read) /\ req[q].read \in Known
        /\ req'[q].read = req[q].read /\ req'[q].phase = "failed"
        /\ req'[q].runs = req[q].runs
    BY <2>3, <2>5 DEF Conflicts, RefusedInv, HasRead, Known
  <2>7. Present(table)
    BY <1>0, <2>6 DEF RefusedInv, OneVersion
  <2>8. table.policy # req[q].read.policy
    BY <2>5, <2>7 DEF Conflicts, ReplaceAllowed
  <2>9. PICK w \in written : w.over /\ w.policy = table.policy
    BY <1>0, <2>6, <2>7, <2>8 DEF RefusedInv, OneVersion
  <2>10. w.first # q \/ Repeats(q)'
    <3>1. w.first = q => Repeats(q)
      BY <2>2 DEF RefusedInv, Credited
    <3>. QED  BY <1>1, <2>6, <3>1 DEF Repeats
  <2>. QED  BY <1>0, <2>6, <2>8, <2>9, <2>10
<1>. QED  BY <1>2, <1>3

\* A task fails on a condition only because the record has been refreshed, by
\* another task or by an earlier try of its own.
THEOREM RefusedForACauseAlways == Spec => []RefusedForACause
<1>1. Init => HasRead /\ OneVersion /\ RefusedForACause /\ OriginalInv
  BY DEF Init, HasRead, OneVersion, Known, RefusedForACause, OriginalInv, Sourced,
         Credited, OriginalGoesThrough, Duplicate, Present, Absent
<1>2. TypeInv /\ ControlInv /\ OriginalInv /\ HasRead /\ OneVersion /\ RefusedForACause
        /\ [Next]_vars => RefusedForACause'
  BY RefusedStep DEF RefusedInv, OriginalInv
<1>. QED  BY InitType, TypeStep, InitControl, ControlStep, OriginalStep, HasReadStep,
             OneVersionStep, <1>1, <1>2, PTL DEF Spec

-----------------------------------------------------------------------------
(***************************************************************************)
(* HashRecord: an item that is stored is a record created, counted up or   *)
(* refreshed, and lastSeenAt is all that is not part of it.                *)
(***************************************************************************)
LEMMA StoresRecord ==
  ASSUME TypeInv, ReplacesStale, NEW r \in Requests, Stores(r)
  PROVE  Abstract!Next
<1>1. CASE req[r].phase \in {"put", "replace"}
  <2>1. table' = NewRecord(r) /\ req[r].policy \in 1..Policies
    BY <1>1 DEF Stores, StartRecord, Store, TypeInv, PolicyRead
  <2>2. Visible' = [first |-> r, policy |-> req[r].policy,
                    firstSeen |-> req[r].now, hits |-> 0]
    BY <2>1 DEF Visible, NewRecord, Present
  <2>3. Visible' # Absent /\ Visible'.firstSeen = req[r].now
    BY <2>2 DEF Absent
  <2>4. Abstract!Started(r, req[r].policy)
    BY <2>2, <2>3 DEF Abstract!Started
  <2>5. CASE ~Present(table)
    BY <2>1, <2>4, <2>5 DEF Abstract!Next, Abstract!Create, Visible
  <2>6. CASE Present(table)
    <3>1. table.policy # req[r].policy
      BY <1>1, <2>6 DEF Stores, ReplaceAllowed, ReplacesStale
    <3>2. Visible # Absent /\ Visible.policy = table.policy
      BY <2>6 DEF Visible, Absent
    <3>. QED  BY <2>1, <2>4, <3>1, <3>2 DEF Abstract!Next, Abstract!Refresh
  <2>. QED  BY <2>5, <2>6
<1>2. CASE req[r].phase = "hit"
  <2>1. Present(table) /\ table' = HitRecord(r)
    BY <1>2 DEF Stores, CountHit, Store
  <2>2. table \in Record /\ Present(table')
    BY <2>1, Shapes, HitRecordType DEF TypeInv, TypeOK
  <2>3. Visible' = [Visible EXCEPT !.hits = @ + 1] /\ Visible # Absent
    BY <2>1, <2>2 DEF Visible, HitRecord, Record, Absent
  <2>. QED  BY <2>3 DEF Abstract!Next, Abstract!Hit
<1>. QED  BY <1>1, <1>2 DEF Stores

\* Every step of the tasks is an operation on the record, or none.
THEOREM RecordOperationsRefined == Spec => RecordOperations
<1>1. Init => ReplacesStale /\ Abstract!Init
  BY DEF Init, ReplacesStale, Abstract!Init, Visible, Present, Absent
<1>2. TypeInv /\ ReplacesStale /\ [Next]_vars => [Abstract!Next]_Visible
  <2> SUFFICES ASSUME TypeInv, ReplacesStale, [Next]_vars
               PROVE  Abstract!Next \/ UNCHANGED Visible
    OBVIOUS
  <2>1. CASE UNCHANGED table
    BY <2>1 DEF Visible, Present
  <2>2. CASE Store(Absent)
    <3>1. Visible' = Absent
      BY <2>2 DEF Store, Visible, Present, Absent
    <3>2. Visible = Absent \/ Abstract!Expire
      BY <3>1 DEF Abstract!Expire
    <3>. QED  BY <3>1, <3>2 DEF Abstract!Next
  <2>3. ASSUME NEW r \in Requests, Stores(r) PROVE Abstract!Next
    BY <2>3, StoresRecord
  <2>. QED  BY <2>1, <2>2, <2>3, Steps
            DEF OtherStep, StepOf, RunsAgain, Keeps, Reads, ToldByOverride, ToldByPut,
                ToldByReplace, ToldByHit, Conflicts
<1>. QED  BY InitType, TypeStep, <1>1, ReplacesStaleStep, <1>2, PTL
          DEF Spec, RecordOperations, Abstract!Spec

=============================================================================
