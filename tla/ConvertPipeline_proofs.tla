----------------------- MODULE ConvertPipeline_proofs -----------------------
(***************************************************************************)
(* Type correctness, the safety properties of ConvertPipeline and the      *)
(* refinement of RunLifecycle, for every number of documents, replicas,    *)
(* faults and crashes and every setting of the timeouts; only              *)
(* FirstCallSafe asks for more, CallTimeout <= StuckAfter.                 *)
(***************************************************************************)
EXTENDS ConvertPipeline, FiniteSetTheorems, TLAPS

\* A worker that is not idle holds a claim.
HoldsClaim == \A w \in Workers : worker[w].phase # "idle" => worker[w].msg \in Msgs

TypeInv == TypeOK /\ HoldsClaim

-----------------------------------------------------------------------------
\* The claims a worker may hold are pairs of a document and a copy.
LEMMA MsgShape == ASSUME NEW m \in Msgs PROVE Doc(m) \in Docs
  BY DEF Msgs, Doc

LEMMA Bounds ==
  /\ MaxReceive \in Nat /\ MaxReceive > 0
  /\ Visibility \in Nat /\ Visibility > 0
  /\ CallTimeout \in Nat /\ CallTimeout > 0
  /\ StuckAfter \in Nat /\ StuckAfter > 0
  /\ MaxFaults \in Nat /\ MaxCrashes \in Nat
  BY ConstantsAssumption

\* The rows the code builds are rows of the table.
LEMMA RowShapes ==
  /\ \A s \in Statuses \union {"absent"} : NewRow(s) \in Row
  /\ \A r \in Row, e \in {"none", "dwg", "caller", "watchdog"} : FailedRow(r, e) \in Row
  /\ \A r \in Row, a \in 0..MaxReceive : ConvertingRow(r, a) \in Row
  /\ \A r \in Row : [r EXCEPT !.status = "done", !.key = TRUE] \in Row
<1>1. \A s \in Statuses \union {"absent"} : NewRow(s) \in Row
  BY Bounds DEF NewRow, Row, Unset
<1>2. \A r \in Row, e \in {"none", "dwg", "caller", "watchdog"} : FailedRow(r, e) \in Row
  BY DEF FailedRow, Row, Statuses
<1>3. ASSUME NEW r \in Row, NEW a \in 0..MaxReceive PROVE ConvertingRow(r, a) \in Row
  <2>1. (IF r.age = Unset THEN 0 ELSE r.age) \in Unset..(StuckAfter + 1)
    BY Bounds DEF Row, Unset
  <2>2. "converting" \in Statuses
    BY DEF Statuses
  <2>. QED  BY <2>1, <2>2 DEF ConvertingRow, Row
<1>4. \A r \in Row : [r EXCEPT !.status = "done", !.key = TRUE] \in Row
  BY DEF Row, Statuses
<1>. QED  BY <1>1, <1>2, <1>3, <1>4

\* The worker states the code builds are states of a worker.
LEMMA WorkerShapes ==
  /\ Idle \in Worker
  /\ \A k \in Worker, p \in Phases : [k EXCEPT !.phase = p] \in Worker
  BY Bounds DEF Idle, Worker, Phases

\* The claim states the queue builds are states of a claim.
LEMMA MsgShapes ==
  /\ \A t \in {"none", "visible", "dlq", "deleted"}, n \in 0..MaxReceive :
       AtRest(t, n) \in Msg
  /\ \A k \in Msg : k.receives \in 0..MaxReceive
  /\ 0 \in 0..MaxReceive
  BY Bounds DEF AtRest, Msg

LEMMA FaultType == ASSUME TypeOK, Fault PROVE faults' \in 0..MaxFaults
  BY Bounds DEF TypeOK, Fault

LEMMA CrashType == ASSUME TypeOK, Crash PROVE crashes' \in 0..MaxCrashes
  BY Bounds DEF TypeOK, Crash

LEMMA InitType == Init => TypeInv
<1> SUFFICES ASSUME Init PROVE TypeInv
  OBVIOUS
<1>1. NoRow \in Row
  BY RowShapes DEF NoRow, Statuses
<1>2. AtRest("none", 0) \in Msg
  BY MsgShapes
<1>3. Idle \in Worker
  BY WorkerShapes
<1>4. TypeOK
  BY <1>1, <1>2, <1>3, Bounds DEF Init, TypeOK
<1>5. HoldsClaim
  BY DEF Init, HoldsClaim, Idle
<1>. QED  BY <1>4, <1>5 DEF TypeInv

\* Giving the claim up, or moving on with it, keeps the workers well-typed.
LEMMA RedriveType ==
  ASSUME TypeInv, NEW w \in Workers, Redrive(w)
  PROVE  worker' \in [Workers -> Worker] /\ HoldsClaim'
  BY WorkerShapes DEF TypeInv, TypeOK, HoldsClaim, Redrive, Idle

LEMMA GotoType ==
  ASSUME TypeInv, NEW w \in Workers, worker[w].phase # "idle",
         NEW p \in Phases, Goto(w, p)
  PROVE  worker' \in [Workers -> Worker] /\ HoldsClaim'
<1>1. worker[w] \in Worker /\ worker' = [worker EXCEPT ![w] = [worker[w] EXCEPT !.phase = p]]
  BY DEF TypeInv, TypeOK, Goto
<1>2. [worker[w] EXCEPT !.phase = p] \in Worker
  BY <1>1, WorkerShapes
<1>3. worker' \in [Workers -> Worker]
  BY <1>1, <1>2 DEF TypeInv, TypeOK
<1>4. \A v \in Workers : worker'[v].phase # "idle" => worker'[v].msg \in Msgs
  BY <1>1 DEF TypeInv, TypeOK, HoldsClaim, Worker
<1>. QED  BY <1>3, <1>4 DEF HoldsClaim

\* The steps of the worker's poller that may change its control state.
LEMMA UpdateType ==
  ASSUME TypeInv, NEW w \in Workers, worker[w].phase # "idle",
         NEW r, Exists(Current(w)) => r \in Row,
         NEW p \in Phases \ {"idle"}, NEW onMissing,
         onMissing => Redrive(w) \/ Goto(w, "deleting"),
         Update(w, r, p, onMissing)
  PROVE  /\ row' \in [Docs -> Row]
         /\ worker' \in [Workers -> Worker]
         /\ HoldsClaim'
         /\ faults' \in 0..MaxFaults
<1>1. Current(w) \in Docs
  BY MsgShape DEF TypeInv, HoldsClaim, Current
<1>2. row' = row \/ (Exists(Current(w)) /\ row' = [row EXCEPT ![Current(w)] = r])
  BY DEF Update, UpdateAllowed
<1>3. row' \in [Docs -> Row]
  BY <1>1, <1>2 DEF TypeInv, TypeOK
<1>4. Redrive(w) \/ \E q \in Phases \ {"idle"} : Goto(w, q)
  BY DEF Update, Phases
<1>5. worker' \in [Workers -> Worker] /\ HoldsClaim'
  BY <1>4, RedriveType, GotoType DEF TypeInv
<1>6. faults' \in 0..MaxFaults
  BY FaultType DEF Update, TypeInv, TypeOK
<1>. QED  BY <1>3, <1>5, <1>6

LEMMA TypeStep == TypeInv /\ [Next]_vars => TypeInv'
<1> SUFFICES ASSUME TypeInv, [Next]_vars PROVE TypeInv'
  OBVIOUS
<1> USE DEF TypeInv
<1>1. ASSUME NEW d \in Docs, SkipDispatch(d) \/ ExcludeDwg(d) PROVE TypeInv'
  BY <1>1 DEF SkipDispatch, ExcludeDwg, Dispatched, TypeOK, HoldsClaim
<1>2. ASSUME NEW d \in Docs, Dispatch(d) PROVE TypeInv'
  <2>1. msg' \in [Msgs -> Msg]
    BY <1>2, MsgShapes DEF Dispatch, Sent, TypeOK
  <2>. QED  BY <1>2, <2>1, FaultType DEF Dispatch, Dispatched, TypeOK, HoldsClaim
<1>3. ASSUME NEW d \in Docs, DispatchAnswerLost(d) PROVE TypeInv'
  <2>1. msg' \in [Msgs -> Msg]
    BY <1>3, MsgShapes DEF DispatchAnswerLost, Sent, TypeOK
  <2>. QED  BY <1>3, <2>1, FaultType DEF DispatchAnswerLost, TypeOK, HoldsClaim
<1>4. ASSUME NEW d \in Docs, RecordRun(d) \/ RecordAnswerLost(d) PROVE TypeInv'
  <2>1. NewRow(InitialStatus(dispatch[d])) \in Row
    BY RowShapes DEF InitialStatus, Statuses, TypeOK
  <2>2. row' \in [Docs -> Row]
    BY <1>4, <2>1 DEF RecordRun, RecordAnswerLost, PutRow, TypeOK
  <2>. QED  BY <1>4, <2>2, FaultType DEF RecordRun, RecordAnswerLost, TypeOK, HoldsClaim
<1>5. ASSUME NEW d \in Docs, RouteCrash(d) PROVE TypeInv'
  BY <1>5, CrashType DEF RouteCrash, TypeOK, HoldsClaim
<1>6. ASSUME NEW m \in Msgs, ManualSend(m) \/ MoveToDlq(m) \/ RedeliverEarly(m)
      PROVE TypeInv'
  <2>1. msg[m] \in Msg
    BY DEF TypeOK
  <2>3. msg' \in [Msgs -> Msg]
    BY <1>6, <2>1, MsgShapes DEF ManualSend, MoveToDlq, RedeliverEarly, Sent, TypeOK
  <2>. QED  BY <1>6, <2>3, FaultType DEF ManualSend, MoveToDlq, RedeliverEarly, TypeOK, HoldsClaim
<1>7. ASSUME NEW w \in Workers, NEW m \in Msgs, Receive(w, m) PROVE TypeInv'
  <2>1. msg[m].receives \in 0..MaxReceive /\ msg[m].receives < MaxReceive
    BY <1>7 DEF Receive, TypeOK, Msg
  <2>2. msg' \in [Msgs -> Msg]
    BY <1>7, <2>1, Bounds DEF Receive, TypeOK, Msg
  <2>3. [phase |-> "received", msg |-> m, attempts |-> msg[m].receives + 1,
         timer |-> 0] \in Worker
    BY <2>1, Bounds DEF Worker, Phases
  <2>4. contended' \subseteq Docs
    BY <1>7, MsgShape DEF Receive, TypeOK
  <2>. QED  BY <1>7, <2>2, <2>3, <2>4 DEF Receive, TypeOK, HoldsClaim
<1>8. ASSUME NEW w \in Workers, ParseFailed(w) \/ CallerError(w) PROVE TypeInv'
  <2>1. worker[w].phase # "idle" /\ (Goto(w, "deleting") \/ Goto(w, "markFailed"))
    BY <1>8 DEF ParseFailed, CallerError
  <2>2. worker' \in [Workers -> Worker] /\ HoldsClaim'
    BY <2>1, GotoType DEF Phases
  <2>. QED  BY <1>8, <2>2 DEF ParseFailed, CallerError, TypeOK
<1>9. ASSUME NEW w \in Workers, CallSucceeds(w) PROVE TypeInv'
  <2>1. worker' \in [Workers -> Worker] /\ HoldsClaim'
    BY <1>9, GotoType DEF CallSucceeds, Phases
  <2>. QED  BY <1>9, <2>1 DEF CallSucceeds, TypeOK
<1>10. ASSUME NEW w \in Workers, CallFails(w) PROVE TypeInv'
  <2>1. worker' \in [Workers -> Worker] /\ HoldsClaim'
    BY <1>10, RedriveType DEF CallFails
  <2>. QED  BY <1>10, <2>1 DEF CallFails, LeavesAnyPdf, TypeOK
<1>11. ASSUME NEW w \in Workers,
              DwgShortCircuit(w) \/ MarkConverting(w) \/ MarkDone(w) \/ MarkFailed(w)
       PROVE TypeInv'
  <2>1. worker[w].phase # "idle" /\ worker[w].attempts \in 0..MaxReceive
    BY <1>11 DEF DwgShortCircuit, MarkConverting, MarkDone, MarkFailed, TypeOK, Worker
  <2>2. Current(w) \in Docs /\ row[Current(w)] \in Row
    BY <2>1, MsgShape DEF HoldsClaim, Current, TypeOK
  <2>3. \E r \in Row, p \in Phases \ {"idle"} :
           Update(w, r, p, Redrive(w)) \/ Update(w, r, p, Goto(w, "deleting"))
    BY <1>11, <2>1, <2>2, RowShapes
       DEF DwgShortCircuit, MarkConverting, MarkDone, MarkFailed, Phases
  <2>4. /\ row' \in [Docs -> Row] /\ worker' \in [Workers -> Worker]
        /\ HoldsClaim' /\ faults' \in 0..MaxFaults
    BY <2>1, <2>3, UpdateType
  <2>. QED  BY <1>11, <2>4
            DEF DwgShortCircuit, MarkConverting, MarkDone, MarkFailed, TypeOK
<1>12. ASSUME NEW w \in Workers, Delete(w) PROVE TypeInv'
  <2>1. worker' \in [Workers -> Worker] /\ HoldsClaim'
    BY <1>12, RedriveType DEF Delete
  <2>2. msg' \in [Msgs -> Msg]
    BY <1>12, MsgShapes DEF Delete, TypeOK
  <2>. QED  BY <1>12, <2>1, <2>2, FaultType DEF Delete, TypeOK
<1>13. ASSUME NEW w \in Workers, WorkerCrash(w) PROVE TypeInv'
  <2>1. worker' \in [Workers -> Worker] /\ HoldsClaim'
    BY <1>13, RedriveType DEF WorkerCrash
  <2>2. pdf' \in [Docs -> BOOLEAN]
    BY <1>13 DEF WorkerCrash, LeavesAnyPdf, TypeOK
  <2>. QED  BY <1>13, <2>1, <2>2, CrashType DEF WorkerCrash, TypeOK
<1>14. CASE WatchdogScan
  BY <1>14 DEF WatchdogScan, FirstOf, ScanPage, TypeOK, HoldsClaim
<1>15. ASSUME NEW d \in Docs, WatchdogReap(d) PROVE TypeInv'
  <2>1. FailedRow(row[d], "watchdog") \in Row
    BY RowShapes DEF TypeOK
  <2>. QED  BY <1>15, <2>1, FaultType DEF WatchdogReap, TypeOK, HoldsClaim
<1>16. CASE WatchdogCrash
  BY <1>16, CrashType DEF WatchdogCrash, TypeOK, HoldsClaim
<1>17. ASSUME NEW d \in Docs, RemoveRow(d) PROVE TypeInv'
  <2>1. NoRow \in Row
    BY RowShapes DEF NoRow
  <2>. QED  BY <1>17, <2>1, FaultType DEF RemoveRow, TypeOK, HoldsClaim
<1>18. CASE Tick
  <2>1. ASSUME NEW d \in Docs PROVE row'[d] \in Row
    <3>1. row[d] \in Row
      BY DEF TypeOK
    <3>2. row[d].age \in 0..StuckAfter => row[d].age + 1 \in Unset..(StuckAfter + 1)
      BY <3>1, Bounds DEF Row, Unset
    <3>3. row[d].age \in 0..StuckAfter => [row[d] EXCEPT !.age = row[d].age + 1] \in Row
      BY <3>1, <3>2 DEF Row
    <3>. QED  BY <1>18, <3>1, <3>3 DEF Tick
  <2>2. row' \in [Docs -> Row]
    BY <1>18, <2>1 DEF Tick
  <2>3. ASSUME NEW m \in Msgs PROVE msg'[m] \in Msg
    <3>1. msg[m] \in Msg
      BY DEF TypeOK
    <3>2. msg[m].timer > 1 => [msg[m] EXCEPT !.timer = msg[m].timer - 1] \in Msg
      BY <3>1, Bounds DEF Msg
    <3>. QED  BY <1>18, <3>1, <3>2, MsgShapes DEF Tick
  <2>4. msg' \in [Msgs -> Msg]
    BY <1>18, <2>3 DEF Tick
  <2>5. ASSUME NEW w \in Workers
        PROVE worker'[w] \in Worker /\ worker'[w].phase = worker[w].phase
                                    /\ worker'[w].msg = worker[w].msg
    <3>1. worker[w] \in Worker
      BY DEF TypeOK
    <3>2. worker[w].phase = "calling" => worker[w].timer < CallTimeout
      <4>1. worker[w] = Idle \/ worker[w].timer < CallTimeout
        BY <1>18 DEF Tick, Prompt
      <4>2. worker[w] = Idle => worker[w].phase = "idle"
        BY DEF Idle
      <4>. QED  BY <4>1, <4>2
    <3>3. worker[w].phase = "calling" =>
            [worker[w] EXCEPT !.timer = worker[w].timer + 1] \in Worker
      BY <3>1, <3>2, Bounds DEF Worker
    <3>. QED  BY <1>18, <3>1, <3>3 DEF Tick, Worker
  <2>6. worker' \in [Workers -> Worker]
    BY <1>18, <2>5 DEF Tick
  <2>7. HoldsClaim'
    BY <2>5 DEF HoldsClaim
  <2>. QED  BY <1>18, <2>2, <2>4, <2>6, <2>7 DEF Tick, TypeOK
<1>19. CASE UNCHANGED vars
  BY <1>19 DEF vars, TypeOK, HoldsClaim
<1>. QED
  BY <1>1, <1>2, <1>3, <1>4, <1>5, <1>6, <1>7, <1>8, <1>9, <1>10, <1>11, <1>12,
     <1>13, <1>14, <1>15, <1>16, <1>17, <1>18, <1>19
     DEF Next, RouteStep, WorkerStep, CallEnds

\* In every reachable state the variables have their types, and a worker
\* that is busy holds a claim of some document.
THEOREM TypeCorrect == Spec => [](TypeOK /\ HoldsClaim)
<1>1. TypeInv /\ [Next]_vars => TypeInv'
  BY TypeStep
<1>. QED  BY InitType, <1>1, PTL DEF Spec, TypeInv

-----------------------------------------------------------------------------
(***************************************************************************)
(* What a step may do to a row.  Every property of rows below is argued by *)
(* cases on these seven ways in which a row changes.                       *)
(***************************************************************************)
Holds(w, phase, d) == worker[w].phase = phase /\ Current(w) = d

Recorded(d) == route[d] = "record" /\ row'[d] = NewRow(InitialStatus(dispatch[d]))
Started(d)  == /\ Exists(d)
               /\ \E w \in Workers : /\ Holds(w, "received", d)
                                     /\ row'[d] = ConvertingRow(row[d], worker[w].attempts)
Finished(d) == /\ Exists(d)
               /\ \E w \in Workers : Holds(w, "markDone", d)
               /\ row'[d] = [row[d] EXCEPT !.status = "done", !.key = TRUE]
GaveUp(d)   == Exists(d) /\ \E e \in {"dwg", "caller"} : row'[d] = FailedRow(row[d], e)
TimedOut(d) == /\ d \in batch /\ row[d].status = "converting"
               /\ row'[d] = FailedRow(row[d], "watchdog")
Removed(d)  == Exists(d) /\ route[d] = "done" /\ row'[d] = NoRow
Aged(d)     == /\ Tick /\ row[d].age \in 0..StuckAfter
               /\ row'[d] = [row[d] EXCEPT !.age = @ + 1]

RowStep(d) == \/ row'[d] = row[d] \/ Recorded(d) \/ Started(d) \/ Finished(d)
              \/ GaveUp(d) \/ TimedOut(d) \/ Removed(d) \/ Aged(d)

\* The fields of the rows these steps build.
LEMMA RowFields ==
  ASSUME NEW r \in Row
  PROVE  /\ \A e : /\ FailedRow(r, e).status = "failed"
                   /\ FailedRow(r, e).error = e
                   /\ FailedRow(r, e).age = r.age
         /\ \A n : /\ ConvertingRow(r, n).status = "converting"
                   /\ ConvertingRow(r, n).error = r.error
                   /\ ConvertingRow(r, n).age = IF r.age = Unset THEN 0 ELSE r.age
         /\ LET f == [r EXCEPT !.status = "done", !.key = TRUE]
            IN  f.status = "done" /\ f.key /\ f.error = r.error /\ f.age = r.age
         /\ LET f == [r EXCEPT !.age = r.age + 1]
            IN  /\ f.age = r.age + 1
                /\ f.status = r.status /\ f.error = r.error /\ f.key = r.key
<1>1. \A e : /\ FailedRow(r, e).status = "failed" /\ FailedRow(r, e).error = e
             /\ FailedRow(r, e).age = r.age
  BY DEF FailedRow, Row
<1>2. \A n : /\ ConvertingRow(r, n).status = "converting"
             /\ ConvertingRow(r, n).error = r.error
             /\ ConvertingRow(r, n).age = IF r.age = Unset THEN 0 ELSE r.age
  BY DEF ConvertingRow, Row
<1>3. LET f == [r EXCEPT !.status = "done", !.key = TRUE]
      IN  f.status = "done" /\ f.key /\ f.error = r.error /\ f.age = r.age
  BY DEF Row
<1>4. LET f == [r EXCEPT !.age = r.age + 1]
      IN  /\ f.age = r.age + 1
          /\ f.status = r.status /\ f.error = r.error /\ f.key = r.key
  BY DEF Row
<1>. QED  BY <1>1, <1>2, <1>3, <1>4

\* A worker's conditional update leaves every row but its own alone.
LEMMA UpdateRow ==
  ASSUME TypeInv, NEW w \in Workers, NEW r, NEW p, NEW onMissing,
         Update(w, r, p, onMissing), NEW d \in Docs
  PROVE  row'[d] = row[d] \/ (Exists(d) /\ d = Current(w) /\ row'[d] = r)
  BY DEF Update, UpdateAllowed, TypeInv, TypeOK

LEMMA RowSteps == TypeInv /\ [Next]_vars => \A d \in Docs : RowStep(d)
<1> SUFFICES ASSUME TypeInv, [Next]_vars, NEW d \in Docs PROVE RowStep(d)
  OBVIOUS
<1>1. ASSUME NEW c \in Docs, RecordRun(c) \/ RecordAnswerLost(c) PROVE RowStep(d)
  BY <1>1 DEF RecordRun, RecordAnswerLost, PutRow, RowStep, Recorded, TypeInv, TypeOK
<1>2. ASSUME NEW w \in Workers, DwgShortCircuit(w) PROVE RowStep(d)
  <2>1. row'[d] = row[d] \/ (/\ Exists(d) /\ d = Current(w)
                            /\ row'[d] = FailedRow(row[Current(w)], "dwg"))
    BY <1>2, UpdateRow DEF DwgShortCircuit
  <2>. QED  BY <2>1 DEF RowStep, GaveUp
<1>3. ASSUME NEW w \in Workers, MarkConverting(w) PROVE RowStep(d)
  <2>1. row'[d] = row[d] \/
        (/\ Exists(d) /\ d = Current(w)
         /\ row'[d] = ConvertingRow(row[Current(w)], worker[w].attempts))
    BY <1>3, UpdateRow DEF MarkConverting
  <2>. QED  BY <1>3, <2>1 DEF MarkConverting, RowStep, Started, Holds
<1>4. ASSUME NEW w \in Workers, MarkDone(w) PROVE RowStep(d)
  <2>1. row'[d] = row[d] \/
        (/\ Exists(d) /\ d = Current(w)
         /\ row'[d] = [row[Current(w)] EXCEPT !.status = "done", !.key = TRUE])
    BY <1>4, UpdateRow DEF MarkDone
  <2>. QED  BY <1>4, <2>1 DEF MarkDone, RowStep, Finished, Holds
<1>5. ASSUME NEW w \in Workers, MarkFailed(w) PROVE RowStep(d)
  <2>1. row'[d] = row[d] \/ (/\ Exists(d) /\ d = Current(w)
                            /\ row'[d] = FailedRow(row[Current(w)], "caller"))
    BY <1>5, UpdateRow DEF MarkFailed
  <2>. QED  BY <2>1 DEF RowStep, GaveUp
<1>6. ASSUME NEW c \in Docs, WatchdogReap(c) PROVE RowStep(d)
  BY <1>6 DEF WatchdogReap, ReapAllowed, FirstOf, RowStep, TimedOut, TypeInv, TypeOK
<1>7. ASSUME NEW c \in Docs, RemoveRow(c) PROVE RowStep(d)
  BY <1>7 DEF RemoveRow, RowStep, Removed, TypeInv, TypeOK
<1>8. CASE Tick
  BY <1>8 DEF Tick, RowStep, Aged
<1>9. CASE UNCHANGED row
  BY <1>9 DEF RowStep
<1>. QED
  BY <1>1, <1>2, <1>3, <1>4, <1>5, <1>6, <1>7, <1>8, <1>9
     DEF Next, RouteStep, WorkerStep, CallEnds, vars, SkipDispatch, ExcludeDwg,
         Dispatch, DispatchAnswerLost, RouteCrash, ManualSend, MoveToDlq,
         RedeliverEarly, Receive, ParseFailed, CallSucceeds, CallerError,
         CallFails, Delete, WorkerCrash, WatchdogScan, WatchdogCrash

-----------------------------------------------------------------------------
(***************************************************************************)
(* What a step may do to a worker: nothing, drop the claim, take one, move *)
(* on with the claim it has, or let its call grow older.                   *)
(***************************************************************************)
Took(w, m) == /\ Receive(w, m)
              /\ worker'[w] = [phase |-> "received", msg |-> m,
                               attempts |-> msg[m].receives + 1, timer |-> 0]
Moved(w, from, to) == /\ worker[w].phase = from
                      /\ worker'[w] = [worker[w] EXCEPT !.phase = to]
Waited(w) == /\ Tick /\ worker[w].phase = "calling"
             /\ worker'[w] = [worker[w] EXCEPT !.timer = @ + 1]

WorkerMove(w) ==
  \/ worker'[w] = worker[w]
  \/ worker'[w] = Idle
  \/ \E m \in Msgs : Took(w, m)
  \/ \E p \in {"received", "markDone", "markFailed"} : Moved(w, p, "deleting")
  \/ Moved(w, "received", "calling") /\ MarkConverting(w)
  \/ Moved(w, "calling", "markDone") /\ CallSucceeds(w)
  \/ Moved(w, "calling", "markFailed")
  \/ Waited(w)

LEMMA UpdateWorker ==
  ASSUME TypeInv, NEW v \in Workers, NEW r, NEW p, NEW onMissing,
         onMissing => Redrive(v) \/ Goto(v, "deleting"),
         Update(v, r, p, onMissing), NEW w \in Workers
  PROVE  \/ worker'[w] = worker[w] \/ worker'[w] = Idle
         \/ w = v /\ worker'[w] = [worker[w] EXCEPT !.phase = p]
         \/ w = v /\ worker'[w] = [worker[w] EXCEPT !.phase = "deleting"]
  BY DEF Update, Goto, Redrive, TypeInv, TypeOK

LEMMA WorkerMoves == TypeInv /\ [Next]_vars => \A w \in Workers : WorkerMove(w)
<1> SUFFICES ASSUME TypeInv, [Next]_vars, NEW w \in Workers PROVE WorkerMove(w)
  OBVIOUS
<1> USE DEF TypeInv, TypeOK
<1>1. ASSUME NEW v \in Workers, NEW m \in Msgs, Receive(v, m) PROVE WorkerMove(w)
  BY <1>1 DEF Receive, WorkerMove, Took
<1>2. ASSUME NEW v \in Workers, ParseFailed(v) \/ CallerError(v) \/ CallSucceeds(v)
      PROVE WorkerMove(w)
  BY <1>2 DEF ParseFailed, CallerError, CallSucceeds, Goto, WorkerMove, Moved
<1>3. ASSUME NEW v \in Workers, CallFails(v) \/ Delete(v) \/ WorkerCrash(v)
      PROVE WorkerMove(w)
  BY <1>3 DEF CallFails, Delete, WorkerCrash, Redrive, WorkerMove
<1>4. ASSUME NEW v \in Workers, DwgShortCircuit(v) PROVE WorkerMove(w)
  <2>0. Update(v, FailedRow(row[Current(v)], "dwg"), "deleting", Redrive(v))
    BY <1>4 DEF DwgShortCircuit
  <2>1. \/ worker'[w] = worker[w] \/ worker'[w] = Idle
        \/ w = v /\ worker'[w] = [worker[w] EXCEPT !.phase = "deleting"]
    BY <2>0, UpdateWorker
  <2>. QED  BY <1>4, <2>1 DEF DwgShortCircuit, WorkerMove, Moved
<1>5. ASSUME NEW v \in Workers, MarkConverting(v) PROVE WorkerMove(w)
  <2>0. Update(v, ConvertingRow(row[Current(v)], worker[v].attempts), "calling",
               Goto(v, "deleting"))
    BY <1>5 DEF MarkConverting
  <2>1. \/ worker'[w] = worker[w] \/ worker'[w] = Idle
        \/ w = v /\ worker'[w] = [worker[w] EXCEPT !.phase = "calling"]
        \/ w = v /\ worker'[w] = [worker[w] EXCEPT !.phase = "deleting"]
    BY <2>0, UpdateWorker
  <2>2. worker[v].phase = "received"
    BY <1>5 DEF MarkConverting
  <2>. QED  BY <1>5, <2>1, <2>2 DEF WorkerMove, Moved
<1>6. ASSUME NEW v \in Workers, MarkDone(v) PROVE WorkerMove(w)
  <2>0. Update(v, [row[Current(v)] EXCEPT !.status = "done", !.key = TRUE],
               "deleting", Redrive(v))
    BY <1>6 DEF MarkDone
  <2>1. \/ worker'[w] = worker[w] \/ worker'[w] = Idle
        \/ w = v /\ worker'[w] = [worker[w] EXCEPT !.phase = "deleting"]
    BY <2>0, UpdateWorker
  <2>. QED  BY <1>6, <2>1 DEF MarkDone, WorkerMove, Moved
<1>7. ASSUME NEW v \in Workers, MarkFailed(v) PROVE WorkerMove(w)
  <2>0. Update(v, FailedRow(row[Current(v)], "caller"), "deleting", Redrive(v))
    BY <1>7 DEF MarkFailed
  <2>1. \/ worker'[w] = worker[w] \/ worker'[w] = Idle
        \/ w = v /\ worker'[w] = [worker[w] EXCEPT !.phase = "deleting"]
    BY <2>0, UpdateWorker
  <2>. QED  BY <1>7, <2>1 DEF MarkFailed, WorkerMove, Moved
<1>8. CASE Tick
  BY <1>8 DEF Tick, WorkerMove, Waited
<1>9. CASE UNCHANGED worker
  BY <1>9 DEF WorkerMove
<1>. QED
  BY <1>1, <1>2, <1>3, <1>4, <1>5, <1>6, <1>7, <1>8, <1>9
     DEF Next, RouteStep, WorkerStep, CallEnds, vars, SkipDispatch, ExcludeDwg,
         Dispatch, DispatchAnswerLost, RecordRun, RecordAnswerLost, RouteCrash,
         ManualSend, MoveToDlq, RedeliverEarly, WatchdogScan, WatchdogReap,
         WatchdogCrash, RemoveRow

-----------------------------------------------------------------------------
(***************************************************************************)
(* DoneHasPdf is not inductive.  Until two replicas meet at a document it  *)
(* needs to know that a worker about to mark the row "done" has seen the   *)
(* PDF written, and that the row is not "done" while a call is running:    *)
(* the worker that calls has set it to "converting", and nobody else marks *)
(* it "done" meanwhile.                                                    *)
(***************************************************************************)
MeetingsKnown ==
  \A v, w \in Workers :
    /\ v # w /\ worker[v].phase # "idle" /\ worker[w].phase # "idle"
    /\ Current(v) = Current(w)
    => Current(w) \in contended

MarkDoneHasPdf ==
  \A w \in Workers : worker[w].phase = "markDone" =>
                       pdf[Current(w)] \/ Current(w) \in contended

CallingNotDone ==
  \A w \in Workers : worker[w].phase = "calling" =>
                       row[Current(w)].status # "done" \/ Current(w) \in contended

PdfInv == MeetingsKnown /\ DoneHasPdf /\ MarkDoneHasPdf /\ CallingNotDone

\* No document stops being contended, and only Receive adds one.
LEMMA ContendedSteps ==
  [Next]_vars =>
    \/ contended' = contended
    \/ \E w \in Workers, m \in Msgs :
         /\ Receive(w, m)
         /\ contended' = contended \union {d \in {Doc(m)} : Busy(d) # {}}
  BY DEF Next, RouteStep, WorkerStep, CallEnds, vars, SkipDispatch, ExcludeDwg, Dispatch,
         DispatchAnswerLost, RecordRun, RecordAnswerLost, RouteCrash, ManualSend,
         MoveToDlq, RedeliverEarly, Receive, ParseFailed, DwgShortCircuit,
         MarkConverting, CallSucceeds, CallerError, CallFails, MarkDone, MarkFailed,
         Delete, WorkerCrash, WatchdogScan, WatchdogReap, WatchdogCrash, RemoveRow, Tick

\* What a step may do to a PDF: nothing, complete it, or leave it in any
\* state when a call for it is given up.
PdfMove(d) ==
  \/ pdf'[d] = pdf[d]
  \/ pdf'[d]
  \/ \E w \in Workers : Holds(w, "calling", d) /\ worker'[w] = Idle

LEMMA PdfMoves == TypeInv /\ [Next]_vars => \A d \in Docs : PdfMove(d)
<1> SUFFICES ASSUME TypeInv, [Next]_vars, NEW d \in Docs PROVE PdfMove(d)
  OBVIOUS
<1>0. pdf \in [Docs -> BOOLEAN] /\ worker \in [Workers -> Worker]
  BY DEF TypeInv, TypeOK
<1>1. ASSUME NEW w \in Workers, CallSucceeds(w) PROVE PdfMove(d)
  BY <1>0, <1>1 DEF CallSucceeds, PdfMove
<1>2. ASSUME NEW w \in Workers, CallFails(w) \/ WorkerCrash(w) PROVE PdfMove(d)
  <2>1. worker'[w] = Idle
    BY <1>0, <1>2 DEF CallFails, WorkerCrash, Redrive
  <2>2. UNCHANGED pdf \/ (worker[w].phase = "calling" /\ LeavesAnyPdf(w))
    BY <1>2 DEF CallFails, WorkerCrash
  <2>. QED  BY <1>0, <2>1, <2>2 DEF LeavesAnyPdf, PdfMove, Holds
<1>3. CASE UNCHANGED pdf
  BY <1>3 DEF PdfMove
<1>. QED
  BY <1>1, <1>2, <1>3
     DEF Next, RouteStep, WorkerStep, CallEnds, vars, SkipDispatch, ExcludeDwg,
         Dispatch, DispatchAnswerLost, RecordRun, RecordAnswerLost, RouteCrash,
         ManualSend, MoveToDlq, RedeliverEarly, Receive, ParseFailed,
         DwgShortCircuit, MarkConverting, CallerError, MarkDone, MarkFailed, Delete,
         WatchdogScan, WatchdogReap, WatchdogCrash, RemoveRow, Tick

\* A worker that goes on with its claim, or takes one.
LEMMA WorkerGoesOn ==
  ASSUME TypeInv, [Next]_vars, NEW w \in Workers, worker'[w].phase # "idle"
  PROVE  \/ \E m \in Msgs : Took(w, m)
         \/ worker[w].phase # "idle" /\ worker'[w].msg = worker[w].msg
<1>1. WorkerMove(w) /\ worker[w] \in Worker
  BY WorkerMoves DEF TypeInv, TypeOK
<1>2. worker'[w] # Idle
  BY DEF Idle
<1>. QED  BY <1>1, <1>2 DEF WorkerMove, Moved, Waited, Worker

LEMMA MeetingsStep == TypeInv /\ MeetingsKnown /\ [Next]_vars => MeetingsKnown'
<1> SUFFICES ASSUME TypeInv, MeetingsKnown, [Next]_vars,
                    NEW v \in Workers, NEW w \in Workers, v # w,
                    worker'[v].phase # "idle", worker'[w].phase # "idle",
                    Doc(worker'[v].msg) = Doc(worker'[w].msg)
             PROVE  Doc(worker'[w].msg) \in contended'
  BY DEF MeetingsKnown, Current
<1>0. worker \in [Workers -> Worker]
  BY DEF TypeInv, TypeOK
<1>1. ASSUME NEW u \in Workers, NEW x \in Workers, u # x, NEW m \in Msgs, Took(u, m),
             worker'[x].phase # "idle", Doc(worker'[x].msg) = Doc(m)
      PROVE  Doc(m) \in contended'
  <2>1. worker'[x] = worker[x]
    BY <1>0, <1>1 DEF Took, Receive
  <2>2. x \in Busy(Doc(m))
    BY <1>1, <2>1 DEF Busy, Current
  <2>3. contended' = contended \union {d \in {Doc(m)} : Busy(d) # {}}
    BY <1>1 DEF Took, Receive
  <2>. QED  BY <2>2, <2>3
<1>2. \A u \in Workers, m \in Msgs : Took(u, m) => worker'[u].msg = m
  BY DEF Took
<1>3. CASE \E m \in Msgs : Took(v, m)
  BY <1>1, <1>2, <1>3
<1>4. CASE \E m \in Msgs : Took(w, m)
  BY <1>1, <1>2, <1>4
<1>5. CASE /\ worker[v].phase # "idle" /\ worker'[v].msg = worker[v].msg
           /\ worker[w].phase # "idle" /\ worker'[w].msg = worker[w].msg
  <2>1. Doc(worker'[w].msg) \in contended
    BY <1>5 DEF MeetingsKnown, Current
  <2>. QED  BY <2>1, ContendedSteps
<1>. QED  BY <1>3, <1>4, <1>5, WorkerGoesOn

\* A worker that is in phase p after a step was there before, or came there.
LEMMA PhaseReached ==
  ASSUME TypeInv, [Next]_vars, NEW w \in Workers
  PROVE  /\ worker'[w].phase = "markDone" =>
              /\ worker[w].phase # "idle" /\ worker'[w].msg = worker[w].msg
              /\ worker[w].phase = "markDone" \/ CallSucceeds(w)
         /\ worker'[w].phase = "calling" =>
              /\ worker[w].phase # "idle" /\ worker'[w].msg = worker[w].msg
              /\ \/ worker[w].phase = "calling"
                 \/ worker[w].phase = "received" /\ MarkConverting(w)
<1>1. WorkerMove(w) /\ worker[w] \in Worker
  BY WorkerMoves DEF TypeInv, TypeOK
<1>2. Idle.phase = "idle"
  BY DEF Idle
<1>3. \A m \in Msgs : Took(w, m) => worker'[w].phase = "received"
  BY DEF Took
<1>4. \A p, q : Moved(w, p, q) => /\ worker[w].phase = p /\ worker'[w].phase = q
                                  /\ worker'[w].msg = worker[w].msg
  BY <1>1 DEF Moved, Worker
<1>5. Waited(w) => /\ worker[w].phase = "calling" /\ worker'[w].phase = "calling"
                   /\ worker'[w].msg = worker[w].msg
  BY <1>1 DEF Waited, Worker
<1>6. CASE \/ worker'[w] = worker[w] \/ worker'[w] = Idle \/ \E m \in Msgs : Took(w, m)
           \/ Waited(w)
  BY <1>2, <1>3, <1>5, <1>6
<1>7. CASE \/ \E p \in {"received", "markDone", "markFailed"} : Moved(w, p, "deleting")
           \/ Moved(w, "calling", "markFailed")
  BY <1>4, <1>7
<1>8. CASE Moved(w, "received", "calling") /\ MarkConverting(w)
  BY <1>4, <1>8
<1>9. CASE Moved(w, "calling", "markDone") /\ CallSucceeds(w)
  BY <1>4, <1>9
<1>. QED  BY <1>1, <1>6, <1>7, <1>8, <1>9 DEF WorkerMove

\* A row that is "done" after a step was "done" before, or has been finished.
LEMMA BecomesDone ==
  ASSUME TypeInv, [Next]_vars, NEW d \in Docs, row'[d].status = "done"
  PROVE  \/ row[d].status = "done" /\ row'[d].key = row[d].key
         \/ Finished(d) /\ row'[d].key
<1>1. RowStep(d) /\ row[d] \in Row
  BY RowSteps DEF TypeInv, TypeOK
<1>2. ~Recorded(d) /\ ~Removed(d)
  BY DEF Recorded, Removed, NewRow, NoRow, InitialStatus
<1>3. ~Started(d)
  BY <1>1 DEF Started, ConvertingRow, Row
<1>4. ~GaveUp(d) /\ ~TimedOut(d)
  BY <1>1 DEF GaveUp, TimedOut, FailedRow, Row
<1>5. Finished(d) => row'[d].key
  BY <1>1 DEF Finished, Row
<1>6. Aged(d) => row'[d].status = row[d].status /\ row'[d].key = row[d].key
  BY <1>1 DEF Aged, Row
<1>. QED  BY <1>1, <1>2, <1>3, <1>4, <1>5, <1>6 DEF RowStep

LEMMA PdfStep == TypeInv /\ PdfInv /\ [Next]_vars => PdfInv'
<1> SUFFICES ASSUME TypeInv, PdfInv, [Next]_vars PROVE PdfInv'
  OBVIOUS
<1> USE DEF PdfInv
<1>0. /\ worker \in [Workers -> Worker]
      /\ \A w \in Workers : worker[w].phase # "idle" => Current(w) \in Docs
  BY MsgShape DEF TypeInv, TypeOK, HoldsClaim, Current
<1>1. MeetingsKnown' /\ contended \subseteq contended'
  BY MeetingsStep, ContendedSteps
\* Two workers at one document make it contended.
<1>2. ASSUME NEW v \in Workers, NEW w \in Workers, NEW p, NEW q, NEW d \in Docs,
             p # q, p # "idle", q # "idle", Holds(v, p, d), Holds(w, q, d)
      PROVE  d \in contended'
  BY <1>1, <1>2 DEF Holds, MeetingsKnown
<1>3. ASSUME NEW d \in Docs, row'[d].status = "done"
      PROVE  row'[d].key /\ (pdf'[d] \/ d \in contended')
  <2>1. PdfMove(d)
    BY PdfMoves
  <2>2. CASE row[d].status = "done" /\ row'[d].key = row[d].key
    <3>1. row[d].key /\ (pdf[d] \/ d \in contended)
      BY <2>2 DEF DoneHasPdf
    <3>2. ASSUME NEW w \in Workers, Holds(w, "calling", d) PROVE d \in contended
      BY <2>2, <3>2 DEF Holds, CallingNotDone
    <3>. QED  BY <1>1, <2>1, <2>2, <3>1, <3>2 DEF PdfMove
  <2>3. CASE Finished(d) /\ row'[d].key
    <3>1. PICK v \in Workers : Holds(v, "markDone", d)
      BY <2>3 DEF Finished
    <3>2. pdf[d] \/ d \in contended
      BY <3>1 DEF Holds, MarkDoneHasPdf
    <3>3. ASSUME NEW w \in Workers, Holds(w, "calling", d) PROVE d \in contended'
      BY <1>2, <3>1, <3>3
    <3>. QED  BY <1>1, <2>1, <2>3, <3>2, <3>3 DEF PdfMove
  <2>. QED  BY <1>3, <2>2, <2>3, BecomesDone
<1>4. ASSUME NEW w \in Workers, worker'[w].phase = "markDone"
      PROVE  pdf'[Doc(worker'[w].msg)] \/ Doc(worker'[w].msg) \in contended'
  <2> DEFINE d == Current(w)
  <2>1. d \in Docs /\ Doc(worker'[w].msg) = d
    BY <1>0, <1>4, PhaseReached DEF Current
  <2>2. CASE CallSucceeds(w)
    BY <2>1, <2>2 DEF CallSucceeds, TypeInv, TypeOK
  <2>3. CASE worker[w].phase = "markDone"
    <3>1. pdf[d] \/ d \in contended
      BY <2>3 DEF MarkDoneHasPdf
    <3>2. ASSUME NEW v \in Workers, Holds(v, "calling", d) PROVE d \in contended'
      BY <1>2, <2>1, <2>3, <3>2 DEF Holds
    <3>. QED  BY <1>1, <2>1, <3>1, <3>2, PdfMoves DEF PdfMove
  <2>. QED  BY <1>4, <2>2, <2>3, PhaseReached
<1>5. ASSUME NEW w \in Workers, worker'[w].phase = "calling",
             row'[Doc(worker'[w].msg)].status = "done"
      PROVE  Doc(worker'[w].msg) \in contended'
  <2> DEFINE d == Current(w)
  <2>1. d \in Docs /\ Doc(worker'[w].msg) = d
    BY <1>0, <1>5, PhaseReached DEF Current
  <2>2. CASE worker[w].phase = "calling"
    <3>1. row[d].status = "done" => d \in contended
      BY <2>2 DEF CallingNotDone
    <3>2. ASSUME NEW v \in Workers, Holds(v, "markDone", d) PROVE d \in contended'
      BY <1>2, <2>1, <2>2, <3>2 DEF Holds
    <3>. QED  BY <1>1, <1>5, <2>1, <3>1, <3>2, BecomesDone DEF Finished
  <2>3. CASE worker[w].phase = "received" /\ MarkConverting(w)
    <3>1. worker'[w] # Idle /\ worker'[w].phase # "deleting"
      BY <1>5 DEF Idle
    <3>2. row' = [row EXCEPT ![d] = ConvertingRow(row[d], worker[w].attempts)]
      BY <1>0, <2>3, <3>1 DEF MarkConverting, Update, Goto, Redrive, Worker
    <3>3. row[d] \in Row /\ row'[d] = ConvertingRow(row[d], worker[w].attempts)
      BY <2>1, <3>2 DEF TypeInv, TypeOK
    <3>4. row'[d].status = "converting"
      BY <3>3, RowFields
    <3>. QED  BY <1>5, <2>1, <3>4
  <2>. QED  BY <1>5, <2>2, <2>3, PhaseReached
<1>. QED  BY <1>1, <1>3, <1>4, <1>5
          DEF DoneHasPdf, MarkDoneHasPdf, CallingNotDone, Current

\* PdfInv holds initially: there is no row and nobody is at work.
LEMMA InitPdf == Init => PdfInv
  BY DEF Init, PdfInv, MeetingsKnown, DoneHasPdf, MarkDoneHasPdf, CallingNotDone,
         NoRow, NewRow, Idle

\* A row that says "done" has a whole PDF behind it, in every state, unless
\* two replicas have been busy with its document at one time.
THEOREM DoneHasPdfAlways == Spec => []DoneHasPdf
<1>1. TypeInv /\ PdfInv /\ [Next]_vars => TypeInv' /\ PdfInv'
  BY TypeStep, PdfStep
<1>2. PdfInv => DoneHasPdf
  BY DEF PdfInv
<1>. QED  BY InitType, InitPdf, <1>1, <1>2, PTL DEF Spec

\* Only recordRun creates a row.
THEOREM NoPhantomRowEver == Spec => NoPhantomRow
<1>1. TypeInv /\ [Next]_vars =>
        [\A d \in Docs : ~Exists(d) /\ Exists(d)' => route[d] = "record"]_vars
  <2> SUFFICES ASSUME TypeInv, [Next]_vars, NEW d \in Docs, ~Exists(d), Exists(d)'
               PROVE  route[d] = "record"
    OBVIOUS
  <2>1. RowStep(d) /\ row[d] \in Row
    BY RowSteps DEF TypeInv, TypeOK
  <2>. QED  BY <2>1 DEF RowStep, Recorded, Started, Finished, GaveUp, TimedOut,
                        Removed, Aged, Exists, Row
<1>. QED  BY InitType, TypeStep, <1>1, PTL DEF Spec, NoPhantomRow

\* convertStartedAt survives every redelivery.
THEOREM StartedAtKeptAlways == Spec => StartedAtKept
<1>1. TypeInv /\ [Next]_vars =>
        [\A d \in Docs : route[d] = "done" /\ Exists(d)' =>
                            row'[d].age >= row[d].age]_vars
  <2> SUFFICES ASSUME TypeInv, [Next]_vars, NEW d \in Docs,
                      route[d] = "done", Exists(d)'
               PROVE  row'[d].age >= row[d].age
    OBVIOUS
  <2>1. RowStep(d) /\ row[d] \in Row /\ row[d].age \in Int
    BY RowSteps, Bounds DEF TypeInv, TypeOK, Row, Unset
  <2>2. ~Recorded(d) /\ ~Removed(d)
    BY DEF Recorded, Removed, Exists, NoRow, NewRow
  <2>3. CASE row'[d] = row[d] \/ Finished(d) \/ GaveUp(d) \/ TimedOut(d)
    <3>1. Finished(d) => row'[d].age = row[d].age
      BY <2>1, RowFields DEF Finished
    <3>2. GaveUp(d) \/ TimedOut(d) => row'[d].age = row[d].age
      BY <2>1, RowFields DEF GaveUp, TimedOut
    <3>. QED  BY <2>1, <2>3, <3>1, <3>2
  <2>5. CASE Started(d)
    <3>1. row'[d].age = IF row[d].age = Unset THEN 0 ELSE row[d].age
      BY <2>1, <2>5, RowFields DEF Started
    <3>. QED  BY <2>1, <3>1 DEF Unset
  <2>6. CASE Aged(d)
    <3>1. row'[d].age = row[d].age + 1
      BY <2>1, <2>6, RowFields DEF Aged
    <3>. QED  BY <2>1, <3>1
  <2>. QED  BY <2>1, <2>2, <2>3, <2>5, <2>6 DEF RowStep
<1>. QED  BY InitType, TypeStep, <1>1, PTL DEF Spec, StartedAtKept

-----------------------------------------------------------------------------
(***************************************************************************)
(* The refinement.  A step of the pipeline is one step of RunLifecycle, or *)
(* none: the four lemmas say what each kind of step looks like up there.   *)
(***************************************************************************)
StatusOf == [d \in Docs |-> row[d].status]
OpenOf   == [d \in Docs |-> route[d] # "done"]

LEMMA StatusSet ==
  ASSUME TypeInv, NEW d \in Docs, NEW r \in Row, row' = [row EXCEPT ![d] = r]
  PROVE  StatusOf' = [StatusOf EXCEPT ![d] = r.status]
  BY DEF TypeInv, TypeOK, StatusOf

LEMMA OpenKept ==
  ASSUME TypeInv, NEW d \in Docs, NEW p \in {"classify", "sending", "record"},
         route[d] # "done", route' = [route EXCEPT ![d] = p]
  PROVE  OpenOf' = OpenOf
<1>1. \A c \in Docs : route'[c] # "done" <=> route[c] # "done"
  BY DEF TypeInv, TypeOK
<1>. QED  BY <1>1 DEF OpenOf

LEMMA OpenCloses ==
  ASSUME TypeInv, NEW d \in Docs, route' = [route EXCEPT ![d] = "done"]
  PROVE  OpenOf' = [OpenOf EXCEPT ![d] = FALSE]
<1>1. \A c \in Docs : route'[c] # "done" <=> IF c = d THEN FALSE ELSE route[c] # "done"
  BY DEF TypeInv, TypeOK
<1>2. \A c \in Docs : OpenOf'[c] = [OpenOf EXCEPT ![d] = FALSE][c]
  BY <1>1 DEF OpenOf
<1>. QED  BY <1>2 DEF OpenOf

\* The rows the pipeline writes, with the status each carries.
LEMMA Written ==
  /\ \E q \in Row : q = NoRow /\ q.status = "absent"
  /\ \A s \in Statuses : \E q \in Row : q = NewRow(s) /\ q.status = s
  /\ \A r \in Row, e \in {"none", "dwg", "caller", "watchdog"} :
       \E q \in Row : q = FailedRow(r, e) /\ q.status = "failed"
  /\ \A r \in Row, n \in 0..MaxReceive :
       \E q \in Row : q = ConvertingRow(r, n) /\ q.status = "converting"
  /\ \A r \in Row :
       \E q \in Row : /\ q = [r EXCEPT !.status = "done", !.key = TRUE]
                      /\ q.status = "done"
<1>1. \A s \in Statuses \union {"absent"} : \E q \in Row : q = NewRow(s) /\ q.status = s
  <2>1. \A s : NewRow(s).status = s
    BY DEF NewRow
  <2>. QED  BY <2>1, RowShapes
<1>2. ASSUME NEW r \in Row, NEW e \in {"none", "dwg", "caller", "watchdog"}
      PROVE  \E q \in Row : q = FailedRow(r, e) /\ q.status = "failed"
  <2>1. FailedRow(r, e) \in Row
    BY RowShapes
  <2>2. FailedRow(r, e).status = "failed"
    BY DEF FailedRow, Row
  <2>. QED  BY <2>1, <2>2
<1>3. ASSUME NEW r \in Row, NEW n \in 0..MaxReceive
      PROVE  \E q \in Row : q = ConvertingRow(r, n) /\ q.status = "converting"
  <2>1. ConvertingRow(r, n) \in Row
    BY RowShapes
  <2>2. ConvertingRow(r, n).status = "converting"
    BY DEF ConvertingRow, Row
  <2>. QED  BY <2>1, <2>2
<1>4. ASSUME NEW r \in Row
      PROVE  \E q \in Row : /\ q = [r EXCEPT !.status = "done", !.key = TRUE]
                            /\ q.status = "done"
  <2>1. [r EXCEPT !.status = "done", !.key = TRUE] \in Row
    BY RowShapes
  <2>2. [r EXCEPT !.status = "done", !.key = TRUE].status = "done"
    BY DEF Row
  <2>. QED  BY <2>1, <2>2
<1>5. \E q \in Row : q = NoRow /\ q.status = "absent"
  BY <1>1 DEF NoRow
<1>6. \A s \in Statuses : \E q \in Row : q = NewRow(s) /\ q.status = s
  BY <1>1
<1>. QED  BY <1>2, <1>3, <1>4, <1>5, <1>6

\* A worker's update is a step Convert of the lifecycle, or no step.
LEMMA UpdateRefines ==
  ASSUME TypeInv, NEW w \in Workers, worker[w].phase # "idle",
         NEW r, Exists(Current(w)) => r \in Row,
         NEW s \in {"converting", "done", "failed"},
         Exists(Current(w)) => r.status = s,
         s = "done" => pdf[Current(w)] \/ Current(w) \in contended,
         NEW p, NEW onMissing, Update(w, r, p, onMissing),
         UNCHANGED <<route, pdf, contended>>
  PROVE  [Lifecycle!Next]_Lifecycle!vars
<1>1. Current(w) \in Docs
  BY MsgShape DEF TypeInv, HoldsClaim, Current
<1>2. OpenOf' = OpenOf
  BY DEF OpenOf
<1>3. CASE UNCHANGED row
  BY <1>2, <1>3 DEF Lifecycle!vars, StatusOf, OpenOf
<1>4. CASE Exists(Current(w)) /\ row' = [row EXCEPT ![Current(w)] = r]
  <2>1. StatusOf' = [StatusOf EXCEPT ![Current(w)] = s]
    BY <1>1, <1>4, StatusSet
  <2>2. Lifecycle!Convert(Current(w), s)
    BY <1>1, <1>2, <1>4, <2>1 DEF Lifecycle!Convert, StatusOf, OpenOf, Exists
  <2>. QED  BY <1>1, <2>2 DEF Lifecycle!Next
<1>. QED  BY <1>3, <1>4 DEF Update, UpdateAllowed

LEMMA LifecycleStep ==
  TypeInv /\ PdfInv /\ [Next]_vars => [Lifecycle!Next]_Lifecycle!vars
<1> SUFFICES ASSUME TypeInv, PdfInv, [Next]_vars
             PROVE  [Lifecycle!Next]_Lifecycle!vars
  OBVIOUS
<1>0. ASSUME StatusOf' = StatusOf, OpenOf' = OpenOf, UNCHANGED <<pdf, contended>>
      PROVE  UNCHANGED Lifecycle!vars
  BY <1>0 DEF Lifecycle!vars, StatusOf, OpenOf
<1>1. ASSUME NEW d \in Docs,
             SkipDispatch(d) \/ ExcludeDwg(d) \/ Dispatch(d) \/ DispatchAnswerLost(d)
      PROVE  UNCHANGED Lifecycle!vars
  <2>1. OpenOf' = OpenOf
    BY <1>1, OpenKept DEF SkipDispatch, ExcludeDwg, Dispatch, DispatchAnswerLost, Dispatched
  <2>2. StatusOf' = StatusOf /\ UNCHANGED <<pdf, contended>>
    BY <1>1 DEF SkipDispatch, ExcludeDwg, Dispatch, DispatchAnswerLost, StatusOf
  <2>. QED  BY <1>0, <2>1, <2>2
<1>2. ASSUME NEW d \in Docs, route[d] = "record", PutRow(d),
             UNCHANGED <<pdf, contended>>,
             OpenOf' = OpenOf \/ OpenOf' = [OpenOf EXCEPT ![d] = FALSE]
      PROVE  Lifecycle!Next
  <2>1. PICK s \in {"none", "queued", "failed"} : s = InitialStatus(dispatch[d])
    BY DEF InitialStatus
  <2>2. PICK r \in Row : r = NewRow(s) /\ r.status = s
    <3>1. s \in Statuses
      BY DEF Statuses
    <3>. QED  BY <3>1, Written
  <2>6. row' = [row EXCEPT ![d] = r]
    BY <1>2, <2>1, <2>2 DEF PutRow
  <2>3. StatusOf' = [StatusOf EXCEPT ![d] = s]
    BY <2>2, <2>6, StatusSet
  <2>4. OpenOf[d]
    BY <1>2 DEF OpenOf
  <2>5. Lifecycle!Record(d)
    BY <1>2, <2>3, <2>4 DEF Lifecycle!Record, StatusOf, OpenOf
  <2>. QED  BY <2>5 DEF Lifecycle!Next
<1>3. ASSUME NEW d \in Docs, route[d] # "done", StatusOf' = StatusOf,
             UNCHANGED <<pdf, contended>>, OpenOf' = [OpenOf EXCEPT ![d] = FALSE]
      PROVE  Lifecycle!Next
  <2>1. Lifecycle!Close(d)
    BY <1>3 DEF Lifecycle!Close, StatusOf, OpenOf
  <2>. QED  BY <2>1 DEF Lifecycle!Next
<1>4. ASSUME NEW d \in Docs, RecordRun(d) PROVE Lifecycle!Next
  <2>1. OpenOf' = [OpenOf EXCEPT ![d] = FALSE]
    BY <1>4, OpenCloses DEF RecordRun
  <2>2. UNCHANGED row => StatusOf' = StatusOf
    BY DEF StatusOf
  <2>. QED  BY <1>2, <1>3, <1>4, <2>1, <2>2 DEF RecordRun
<1>5. ASSUME NEW d \in Docs, RecordAnswerLost(d) PROVE Lifecycle!Next
  <2>1. OpenOf' = OpenOf
    BY <1>5 DEF RecordAnswerLost, OpenOf
  <2>. QED  BY <1>2, <1>5, <2>1 DEF RecordAnswerLost
<1>6. ASSUME NEW d \in Docs, RouteCrash(d) PROVE Lifecycle!Next
  <2>1. OpenOf' = [OpenOf EXCEPT ![d] = FALSE] /\ StatusOf' = StatusOf
    BY <1>6, OpenCloses DEF RouteCrash, StatusOf
  <2>. QED  BY <1>3, <1>6, <2>1 DEF RouteCrash
<1>7. CASE UNCHANGED <<route, row, pdf, contended>>
  BY <1>0, <1>7 DEF StatusOf, OpenOf
<1>8. ASSUME NEW w \in Workers, worker[w].phase # "idle"
      PROVE  Current(w) \in Docs /\ row[Current(w)] \in Row
                                 /\ worker[w].attempts \in 0..MaxReceive
  BY <1>8, MsgShape DEF TypeInv, TypeOK, HoldsClaim, Current, Worker
<1>9. ASSUME NEW w \in Workers, DwgShortCircuit(w) PROVE [Lifecycle!Next]_Lifecycle!vars
  <2>1. worker[w].phase # "idle" /\ UNCHANGED <<route, pdf, contended>>
    BY <1>9 DEF DwgShortCircuit
  <2>2. PICK r \in Row : r = FailedRow(row[Current(w)], "dwg") /\ r.status = "failed"
    BY <1>8, <2>1, Written
  <2>3. Update(w, r, "deleting", Redrive(w))
    BY <1>9, <2>2 DEF DwgShortCircuit
  <2>. QED  BY <2>1, <2>2, <2>3, UpdateRefines
<1>10. ASSUME NEW w \in Workers, MarkConverting(w) PROVE [Lifecycle!Next]_Lifecycle!vars
  <2>1. worker[w].phase # "idle" /\ UNCHANGED <<route, pdf, contended>>
    BY <1>10 DEF MarkConverting
  <2>2. PICK r \in Row : /\ r = ConvertingRow(row[Current(w)], worker[w].attempts)
                         /\ r.status = "converting"
    <3>1. row[Current(w)] \in Row /\ worker[w].attempts \in 0..MaxReceive
      BY <1>8, <2>1
    <3>. HIDE DEF ConvertingRow
    <3>. QED  BY <3>1, Written
  <2>3. Update(w, r, "calling", Goto(w, "deleting"))
    BY <1>10, <2>2 DEF MarkConverting
  <2>. QED  BY <2>1, <2>2, <2>3, UpdateRefines
<1>11. ASSUME NEW w \in Workers, MarkDone(w) PROVE [Lifecycle!Next]_Lifecycle!vars
  <2>1. pdf[Current(w)] \/ Current(w) \in contended
    BY <1>11 DEF MarkDone, PdfInv, MarkDoneHasPdf
  <2>4. worker[w].phase # "idle" /\ UNCHANGED <<route, pdf, contended>>
    BY <1>11 DEF MarkDone
  <2>2. PICK r \in Row : /\ r = [row[Current(w)] EXCEPT !.status = "done", !.key = TRUE]
                         /\ r.status = "done"
    BY <1>8, <2>4, Written
  <2>3. Update(w, r, "deleting", Redrive(w))
    BY <1>11, <2>2 DEF MarkDone
  <2>. QED  BY <2>1, <2>2, <2>3, <2>4, UpdateRefines
<1>12. ASSUME NEW w \in Workers, MarkFailed(w) PROVE [Lifecycle!Next]_Lifecycle!vars
  <2>1. worker[w].phase # "idle" /\ UNCHANGED <<route, pdf, contended>>
    BY <1>12 DEF MarkFailed
  <2>2. PICK r \in Row : r = FailedRow(row[Current(w)], "caller") /\ r.status = "failed"
    BY <1>8, <2>1, Written
  <2>3. Update(w, r, "deleting", Redrive(w))
    BY <1>12, <2>2 DEF MarkFailed
  <2>. QED  BY <2>1, <2>2, <2>3, UpdateRefines
<1>13. ASSUME NEW w \in Workers, CallSucceeds(w) \/ CallFails(w) \/ WorkerCrash(w)
       PROVE  [Lifecycle!Next]_Lifecycle!vars
  <2>1. UNCHANGED <<route, row, contended>>
    BY <1>13 DEF CallSucceeds, CallFails, WorkerCrash
  <2>2. \/ UNCHANGED pdf
        \/ worker[w].phase = "calling"
             /\ \E whole \in BOOLEAN : pdf' = [pdf EXCEPT ![Current(w)] = whole]
    BY <1>13 DEF CallSucceeds, CallFails, WorkerCrash, LeavesAnyPdf
  <2>3. CASE worker[w].phase = "calling" /\ pdf' = [pdf EXCEPT ![Current(w)] = TRUE]
    <3>1. Lifecycle!Publish(Current(w))
      BY <2>1, <2>3 DEF Lifecycle!Publish
    <3>. QED  BY <1>8, <2>3, <3>1 DEF Lifecycle!Next
  <2>4. CASE worker[w].phase = "calling" /\ pdf' = [pdf EXCEPT ![Current(w)] = FALSE]
    <3>1. StatusOf[Current(w)] = "done" => Current(w) \in contended
      BY <1>8, <2>4 DEF StatusOf, PdfInv, CallingNotDone
    <3>2. Lifecycle!Truncate(Current(w))
      BY <2>1, <2>4, <3>1 DEF Lifecycle!Truncate, StatusOf
    <3>. QED  BY <1>8, <2>4, <3>2 DEF Lifecycle!Next
  <2>. QED  BY <1>7, <2>1, <2>2, <2>3, <2>4
<1>14. ASSUME NEW d \in Docs, WatchdogReap(d) PROVE [Lifecycle!Next]_Lifecycle!vars
  <2>1. OpenOf' = OpenOf /\ UNCHANGED <<route, pdf, contended>>
    BY <1>14 DEF WatchdogReap, OpenOf
  <2>2. CASE ReapAllowed(d) /\ row' = [row EXCEPT ![d] = FailedRow(row[d], "watchdog")]
    <3>1. StatusOf' = [StatusOf EXCEPT ![d] = "failed"] /\ Exists(d)
      <4>1. PICK r \in Row : r = FailedRow(row[d], "watchdog") /\ r.status = "failed"
        BY Written DEF TypeInv, TypeOK
      <4>2. row' = [row EXCEPT ![d] = r]
        BY <2>2, <4>1
      <4>3. StatusOf' = [StatusOf EXCEPT ![d] = "failed"]
        BY <4>1, <4>2, StatusSet
      <4>. QED  BY <2>2, <4>3 DEF ReapAllowed, Exists
    <3>2. Lifecycle!Convert(d, "failed")
      BY <2>1, <3>1 DEF Lifecycle!Convert, StatusOf, OpenOf, Exists
    <3>. QED  BY <3>2 DEF Lifecycle!Next
  <2>. QED  BY <1>7, <1>14, <2>1, <2>2 DEF WatchdogReap
<1>15. ASSUME NEW d \in Docs, RemoveRow(d) PROVE Lifecycle!Next
  <2>1. StatusOf' = [StatusOf EXCEPT ![d] = "absent"]
    <3>1. PICK r \in Row : r = NoRow /\ r.status = "absent"
      BY Written
    <3>2. row' = [row EXCEPT ![d] = r]
      BY <1>15, <3>1 DEF RemoveRow
    <3>. QED  BY <3>1, <3>2, StatusSet
  <2>2. Lifecycle!Remove(d)
    BY <1>15, <2>1 DEF RemoveRow, Lifecycle!Remove, StatusOf, OpenOf, Exists
  <2>. QED  BY <2>2 DEF Lifecycle!Next
<1>16. CASE Tick
  <2>1. \A d \in Docs : row'[d].status = row[d].status
    BY <1>16, RowFields DEF Tick, TypeInv, TypeOK, Row
  <2>. QED  BY <1>0, <1>16, <2>1 DEF Tick, StatusOf, OpenOf
<1>17. ASSUME NEW w \in Workers, NEW m \in Msgs, Receive(w, m)
       PROVE  [Lifecycle!Next]_Lifecycle!vars
  <2>1. UNCHANGED <<route, row, pdf>> /\ Doc(m) \in Docs
    BY <1>17, MsgShape DEF Receive
  <2>2. CASE Busy(Doc(m)) = {}
    <3>1. contended' = contended
      BY <1>17, <2>2 DEF Receive
    <3>. QED  BY <1>7, <2>1, <3>1
  <2>3. CASE Busy(Doc(m)) # {}
    <3>1. contended' = contended \union {Doc(m)}
      BY <1>17, <2>3 DEF Receive
    <3>2. Lifecycle!Contend(Doc(m))
      BY <2>1, <3>1 DEF Lifecycle!Contend
    <3>. QED  BY <2>1, <3>2 DEF Lifecycle!Next
  <2>. QED  BY <2>2, <2>3
<1>. QED
  BY <1>1, <1>4, <1>5, <1>6, <1>7, <1>9, <1>10, <1>11, <1>12, <1>13, <1>14, <1>15,
     <1>16, <1>17
     DEF Next, RouteStep, WorkerStep, CallEnds, vars, ManualSend, MoveToDlq,
         RedeliverEarly, ParseFailed, CallerError, Delete,
         WatchdogScan, WatchdogCrash

\* The pipeline implements the lifecycle its readers rely on: every step of
\* route, queue, worker and watchdog is a step of RunLifecycle or none.
THEOREM LifecycleRefined == Spec => RowLifecycle
<1>1. Init => Lifecycle!Init
  BY DEF Init, Lifecycle!Init, NoRow, NewRow
<1>2. TypeInv /\ PdfInv /\ [Next]_vars => TypeInv' /\ PdfInv'
  BY TypeStep, PdfStep
<1>. QED  BY InitType, InitPdf, <1>1, <1>2, LifecycleStep, PTL
          DEF Spec, RowLifecycle, Lifecycle!Spec

-----------------------------------------------------------------------------
(***************************************************************************)
(* AckAfterOutcome needs one more fact: no row ever exists for an          *)
(* unreadable claim, since its document never went through the route.      *)
(***************************************************************************)
MalformedNoRow ==
  \A d \in Docs : Kind[d] = "malformed" => route[d] = "done" /\ ~Exists(d)

\* A request that has ended stays ended, and only the route's own steps move
\* it: what every invariant about the route below rests on.
RouteMove(d) ==
  \/ route'[d] = route[d]
  \/ route[d] \in {"classify", "sending"} /\ route'[d] = "record"
  \/ route[d] = "classify" /\ route'[d] = "sending" /\ DispatchAnswerLost(d)
  \/ route'[d] = "done"

LEMMA RouteMoves == TypeInv /\ [Next]_vars => \A d \in Docs : RouteMove(d)
<1> SUFFICES ASSUME TypeInv, [Next]_vars, NEW d \in Docs PROVE RouteMove(d)
  OBVIOUS
<1> USE DEF TypeInv, TypeOK
<1>1. ASSUME NEW c \in Docs, SkipDispatch(c) \/ ExcludeDwg(c) \/ Dispatch(c)
      PROVE  RouteMove(d)
  BY <1>1 DEF SkipDispatch, ExcludeDwg, Dispatch, Dispatched, RouteMove
<1>2. ASSUME NEW c \in Docs, DispatchAnswerLost(c) PROVE RouteMove(d)
  BY <1>2 DEF DispatchAnswerLost, RouteMove
<1>3. ASSUME NEW c \in Docs, RecordRun(c) \/ RouteCrash(c) PROVE RouteMove(d)
  BY <1>3 DEF RecordRun, RouteCrash, RouteMove
<1>4. CASE UNCHANGED route
  BY <1>4 DEF RouteMove
<1>. QED
  BY <1>1, <1>2, <1>3, <1>4
     DEF Next, RouteStep, WorkerStep, CallEnds, vars, RecordAnswerLost, ManualSend,
         MoveToDlq, RedeliverEarly, Receive, ParseFailed, DwgShortCircuit,
         MarkConverting, CallSucceeds, CallerError, CallFails, MarkDone, MarkFailed,
         Delete, WorkerCrash, WatchdogScan, WatchdogReap, WatchdogCrash, RemoveRow, Tick

\* A row appears only while its request is recording it.
LEMMA RowAppears ==
  TypeInv /\ [Next]_vars =>
    \A d \in Docs : Exists(d)' => Exists(d) \/ Recorded(d)
<1> SUFFICES ASSUME TypeInv, [Next]_vars, NEW d \in Docs, Exists(d)', ~Exists(d)
             PROVE  Recorded(d)
  OBVIOUS
<1>1. RowStep(d) /\ row[d] \in Row
  BY RowSteps DEF TypeInv, TypeOK
<1>. QED  BY <1>1 DEF RowStep, Started, Finished, GaveUp, TimedOut, Removed, Aged, Exists, Row

LEMMA MalformedStep == TypeInv /\ MalformedNoRow /\ [Next]_vars => MalformedNoRow'
<1> SUFFICES ASSUME TypeInv, MalformedNoRow, [Next]_vars,
                    NEW d \in Docs, Kind[d] = "malformed"
             PROVE  route'[d] = "done" /\ ~Exists(d)'
  BY DEF MalformedNoRow
<1>1. route[d] = "done" /\ ~Exists(d)
  BY DEF MalformedNoRow
<1>2. route'[d] = "done"
  BY <1>1, RouteMoves DEF RouteMove
<1>3. ~Exists(d)'
  BY <1>1, RowAppears DEF Recorded
<1>. QED  BY <1>2, <1>3

\* A worker's update that takes it to the delete has written its row, or
\* found none.
LEMMA UpdateOutcome ==
  ASSUME TypeInv, NEW v \in Workers, NEW r, NEW p, NEW onMissing,
         onMissing => Redrive(v) \/ Goto(v, "deleting"),
         Update(v, r, p, onMissing),
         NEW w \in Workers, worker[w].phase # "deleting", worker'[w].phase = "deleting",
         worker[v].phase # "idle"
  PROVE  /\ v = w
         /\ \/ row'[Current(w)].status = "absent"
            \/ p = "deleting" /\ row'[Current(w)] = r
<1>1. Current(v) \in Docs /\ worker[v] \in Worker /\ worker[w] \in Worker
  BY MsgShape DEF TypeInv, TypeOK, HoldsClaim, Current
<1>2. ~Redrive(v)
  BY <1>1 DEF Redrive, Idle, TypeInv, TypeOK
<1>3. \/ Exists(Current(v)) /\ row' = [row EXCEPT ![Current(v)] = r] /\ Goto(v, p)
      \/ ~Exists(Current(v)) /\ UNCHANGED row /\ Goto(v, "deleting")
  BY <1>2 DEF Update, UpdateAllowed
<1>4. v = w
  BY <1>1, <1>3 DEF Goto, TypeInv, TypeOK
<1>5. Goto(v, p) => p = "deleting"
  BY <1>1, <1>4 DEF Goto, TypeInv, TypeOK, Worker
<1>6. row \in [Docs -> Row]
  BY DEF TypeInv, TypeOK
<1>. QED  BY <1>1, <1>3, <1>4, <1>5, <1>6 DEF Exists

LEMMA AckStep ==
  ASSUME TypeInv, MalformedNoRow, [Next]_vars, NEW w \in Workers,
         worker[w].phase # "deleting", worker'[w].phase = "deleting"
  PROVE  row'[Current(w)].status \in Terminal \union {"absent"}
<1> USE DEF TypeInv, TypeOK
<1>1. ASSUME NEW v \in Workers, ParseFailed(v)
      PROVE  row'[Current(w)].status = "absent"
  <2>1. v = w
    BY <1>1 DEF ParseFailed, Goto
  <2>2. Current(w) \in Docs /\ Kind[Current(w)] = "malformed" /\ UNCHANGED row
    BY <1>1, <2>1, MsgShape DEF ParseFailed, HoldsClaim, Current
  <2>. QED  BY <2>2 DEF MalformedNoRow, Exists
<1>2. ASSUME NEW v \in Workers, worker[v].phase # "idle"
      PROVE  row[Current(v)] \in Row
  BY <1>2, MsgShape DEF HoldsClaim, Current
<1>3. ASSUME NEW v \in Workers, DwgShortCircuit(v)
      PROVE  row'[Current(w)].status \in {"failed", "absent"}
  <2>1. worker[v].phase # "idle"
    BY <1>3 DEF DwgShortCircuit
  <2>2. PICK r \in Row : r = FailedRow(row[Current(v)], "dwg") /\ r.status = "failed"
    BY <1>2, <2>1, Written
  <2>3. Update(v, r, "deleting", Redrive(v))
    BY <1>3, <2>2 DEF DwgShortCircuit
  <2>4. row'[Current(w)].status = "absent" \/ row'[Current(w)] = r
    BY <2>1, <2>3, UpdateOutcome
  <2>. QED  BY <2>2, <2>4
<1>4. ASSUME NEW v \in Workers, MarkConverting(v)
      PROVE  row'[Current(w)].status = "absent"
  <2>1. worker[v].phase # "idle"
    BY <1>4 DEF MarkConverting
  <2>2. Update(v, ConvertingRow(row[Current(v)], worker[v].attempts), "calling",
               Goto(v, "deleting"))
    BY <1>4 DEF MarkConverting
  <2>. QED  BY <2>1, <2>2, UpdateOutcome
<1>5. ASSUME NEW v \in Workers, MarkDone(v)
      PROVE  row'[Current(w)].status \in {"done", "absent"}
  <2>1. worker[v].phase # "idle"
    BY <1>5 DEF MarkDone
  <2>2. PICK r \in Row : /\ r = [row[Current(v)] EXCEPT !.status = "done", !.key = TRUE]
                         /\ r.status = "done"
    BY <1>2, <2>1, Written
  <2>3. Update(v, r, "deleting", Redrive(v))
    BY <1>5, <2>2 DEF MarkDone
  <2>4. row'[Current(w)].status = "absent" \/ row'[Current(w)] = r
    BY <2>1, <2>3, UpdateOutcome
  <2>. QED  BY <2>2, <2>4
<1>6. ASSUME NEW v \in Workers, MarkFailed(v)
      PROVE  row'[Current(w)].status \in {"failed", "absent"}
  <2>1. worker[v].phase # "idle"
    BY <1>6 DEF MarkFailed
  <2>2. PICK r \in Row : r = FailedRow(row[Current(v)], "caller") /\ r.status = "failed"
    BY <1>2, <2>1, Written
  <2>3. Update(v, r, "deleting", Redrive(v))
    BY <1>6, <2>2 DEF MarkFailed
  <2>4. row'[Current(w)].status = "absent" \/ row'[Current(w)] = r
    BY <2>1, <2>3, UpdateOutcome
  <2>. QED  BY <2>2, <2>4
<1>7. ASSUME NEW v \in Workers,
             CallEnds(v) \/ Delete(v) \/ WorkerCrash(v) \/ \E m \in Msgs : Receive(v, m)
      PROVE  FALSE
  BY <1>7 DEF CallEnds, CallSucceeds, CallerError, CallFails, Delete, WorkerCrash,
              Receive, Goto, Redrive, Idle, Worker
<1>8. CASE Tick
  BY <1>8 DEF Tick, Worker
<1>9. worker' # worker
  OBVIOUS
<1>. QED
  BY <1>1, <1>3, <1>4, <1>5, <1>6, <1>7, <1>8, <1>9
     DEF Next, RouteStep, WorkerStep, vars, SkipDispatch, ExcludeDwg, Dispatch,
         DispatchAnswerLost, RecordRun, RecordAnswerLost, RouteCrash, ManualSend,
         MoveToDlq, RedeliverEarly, WatchdogScan, WatchdogReap, WatchdogCrash,
         RemoveRow, Terminal

\* A claim is acknowledged only once its outcome is in the row, or when there
\* is no row for it: whatever fails, the claim outlives the missing outcome.
THEOREM AckAfterOutcomeAlways == Spec => AckAfterOutcome
<1>1. Init => MalformedNoRow
  BY DEF Init, MalformedNoRow, Exists, NoRow, NewRow
<1>2. TypeInv /\ MalformedNoRow /\ [Next]_vars => TypeInv' /\ MalformedNoRow'
  BY TypeStep, MalformedStep
<1>3. TypeInv /\ MalformedNoRow /\ [Next]_vars =>
        [\A w \in Workers :
           worker[w].phase # "deleting" /\ worker'[w].phase = "deleting" =>
             LET d == Current(w)
             IN  row'[d].status \in Terminal \union {"absent"}]_vars
  BY AckStep
<1>. QED  BY InitType, <1>1, <1>2, <1>3, PTL DEF Spec, AckAfterOutcome

-----------------------------------------------------------------------------
(***************************************************************************)
(* ReapsOnlyStuckRows: what the Scan saw still holds at the update.  A row *)
(* in the batch is past the cutoff, its request is over, so nobody creates *)
(* it anew, and no step winds its clock back.                              *)
(***************************************************************************)
AgeInv ==
  \A d \in Docs : /\ route[d] \in {"classify", "sending"} => ~Exists(d)
                  /\ route[d] = "record" => row[d].age <= 0
                  /\ ~Exists(d) => row[d].age = Unset

BatchInv ==
  \A d \in batch : route[d] = "done" /\ (Exists(d) => row[d].age > StuckAfter)

\* The age of a row after a step.
LEMMA AgeSteps ==
  ASSUME TypeInv, NEW d \in Docs, RowStep(d)
  PROVE  /\ row[d].age \in Int /\ row'[d].age \in Int
         /\ \/ row'[d].age = row[d].age
            \/ (Recorded(d) \/ Removed(d)) /\ row'[d].age = Unset
            \/ Started(d) /\ row[d].age = Unset /\ row'[d].age = 0
            \/ Aged(d) /\ row'[d].age = row[d].age + 1
<1>1. row[d] \in Row /\ row[d].age \in Int
  BY Bounds DEF TypeInv, TypeOK, Row, Unset
<1>2. Recorded(d) \/ Removed(d) => row'[d].age = Unset
  BY DEF Recorded, Removed, NoRow, NewRow
<1>3. Started(d) => row'[d].age = IF row[d].age = Unset THEN 0 ELSE row[d].age
  BY <1>1, RowFields DEF Started
<1>4. Finished(d) => row'[d].age = row[d].age
  BY <1>1, RowFields DEF Finished
<1>5. GaveUp(d) \/ TimedOut(d) => row'[d].age = row[d].age
  BY <1>1, RowFields DEF GaveUp, TimedOut
<1>6. Aged(d) => row'[d].age = row[d].age + 1
  BY <1>1, RowFields DEF Aged
<1>. QED  BY <1>1, <1>2, <1>3, <1>4, <1>5, <1>6 DEF RowStep, Unset

LEMMA AgeStep == TypeInv /\ AgeInv /\ [Next]_vars => AgeInv'
<1> SUFFICES ASSUME TypeInv, AgeInv, [Next]_vars, NEW d \in Docs
             PROVE  /\ route'[d] \in {"classify", "sending"} => ~Exists(d)'
                    /\ route'[d] = "record" => row'[d].age <= 0
                    /\ ~Exists(d)' => row'[d].age = Unset
  BY DEF AgeInv
<1>1. RowStep(d) /\ RouteMove(d)
  BY RowSteps, RouteMoves
<1>2. ASSUME route'[d] \in {"classify", "sending"} PROVE ~Exists(d)'
  <2>1. route[d] \in {"classify", "sending"}
    BY <1>1, <1>2 DEF RouteMove
  <2>. QED  BY <2>1, RowAppears DEF AgeInv, Recorded
<1>3. ASSUME route'[d] = "record" PROVE row'[d].age <= 0
  <2>1. route[d] \in {"classify", "sending", "record"}
    BY <1>1, <1>3 DEF RouteMove
  <2>2. row[d].age <= 0
    BY <2>1 DEF AgeInv, Unset
  <2>3. ~Aged(d)
    BY <1>3 DEF Aged, Tick, Prompt
  <2>. QED  BY <1>1, <2>2, <2>3, AgeSteps DEF Unset
<1>4. ASSUME ~Exists(d)' PROVE row'[d].age = Unset
  <2>1. row[d] \in Row
    BY DEF TypeInv, TypeOK
  <2>2. ~Recorded(d)
    BY <1>4 DEF Recorded, Exists, NewRow, InitialStatus
  <2>3. ~Started(d) /\ ~Finished(d)
    <3>1. Started(d) => row'[d].status = "converting"
      BY <2>1, RowFields DEF Started
    <3>2. Finished(d) => row'[d].status = "done"
      BY <2>1, RowFields DEF Finished
    <3>. QED  BY <1>4, <3>1, <3>2 DEF Exists
  <2>4. ~GaveUp(d) /\ ~TimedOut(d)
    BY <1>4, <2>1, RowFields DEF GaveUp, TimedOut, Exists
  <2>5. Removed(d) => row'[d].age = Unset
    BY DEF Removed, NoRow, NewRow
  <2>6. Aged(d) => ~Exists(d) /\ row[d].age # Unset
    BY <1>4, <2>1, RowFields, Bounds DEF Aged, Exists, Unset
  <2>. QED  BY <1>1, <1>4, <2>2, <2>3, <2>4, <2>5, <2>6 DEF RowStep, AgeInv, Exists
<1>. QED  BY <1>2, <1>3, <1>4

LEMMA BatchStep == TypeInv /\ AgeInv /\ BatchInv /\ [Next]_vars => BatchInv'
<1> SUFFICES ASSUME TypeInv, AgeInv, BatchInv, [Next]_vars, NEW d \in batch'
             PROVE  route'[d] = "done" /\ (Exists(d)' => row'[d].age > StuckAfter)
  BY DEF BatchInv
<1>1. d \in batch \/ WatchdogScan
  BY DEF Next, RouteStep, WorkerStep, CallEnds, vars, SkipDispatch, ExcludeDwg,
         Dispatch, DispatchAnswerLost, RecordRun, RecordAnswerLost, RouteCrash,
         ManualSend, MoveToDlq, RedeliverEarly, Receive, ParseFailed,
         DwgShortCircuit, MarkConverting, CallSucceeds, CallerError, CallFails,
         MarkDone, MarkFailed, Delete, WorkerCrash, WatchdogReap, WatchdogCrash,
         RemoveRow, Tick
<1>2. CASE d \in batch
  <2>1. d \in Docs /\ route[d] = "done" /\ (Exists(d) => row[d].age > StuckAfter)
    BY <1>2 DEF BatchInv, TypeInv, TypeOK
  <2>2. RowStep(d) /\ RouteMove(d)
    BY <2>1, RowSteps, RouteMoves
  <2>3. route'[d] = "done"
    BY <2>1, <2>2 DEF RouteMove
  <2>4. ASSUME Exists(d)' PROVE row'[d].age > StuckAfter
    <3>2. ~Recorded(d)
      BY <2>1 DEF Recorded
    <3>3. ~Removed(d)
      BY <2>4 DEF Removed, Exists, NoRow, NewRow
    <3>1. Exists(d) /\ ~Recorded(d) /\ ~Removed(d)
      BY <2>1, <2>4, <3>2, <3>3, RowAppears
    <3>. QED  BY <2>1, <2>2, <3>1, AgeSteps, Bounds DEF Unset
  <2>. QED  BY <2>3, <2>4
<1>3. CASE WatchdogScan
  <2>1. d \in Docs /\ Stuck(d) /\ row' = row /\ route' = route
    BY <1>3 DEF WatchdogScan, FirstOf, ScanPage
  <2>2. Exists(d) /\ row[d].age > 0 /\ row[d].age > StuckAfter
    BY <2>1, Bounds DEF Stuck, Exists, TypeInv, TypeOK, Row, Unset
  <2>3. route[d] = "done"
    BY <2>1, <2>2 DEF AgeInv, TypeInv, TypeOK, Row
  <2>. QED  BY <2>1, <2>2, <2>3
<1>. QED  BY <1>1, <1>2, <1>3

\* A reap is an update of a row of the batch, still "converting".
LEMMA ReapIsTimedOut ==
  ASSUME TypeInv, [Next]_vars, NEW d \in Docs, Reaped(d)
  PROVE  TimedOut(d)
<1>1. RowStep(d) /\ row[d] \in Row
  BY RowSteps DEF TypeInv, TypeOK
<1>2. row[d].error # "watchdog" /\ row'[d].error = "watchdog"
  BY DEF Reaped
<1>3. ~Recorded(d) /\ ~Removed(d)
  BY <1>2 DEF Recorded, Removed, NoRow, NewRow
<1>4. ~Started(d) /\ ~Finished(d)
  <2>1. Started(d) => row'[d].error = row[d].error
    BY <1>1, RowFields DEF Started
  <2>2. Finished(d) => row'[d].error = row[d].error
    BY <1>1, RowFields DEF Finished
  <2>. QED  BY <1>2, <2>1, <2>2
<1>5. ~GaveUp(d)
  BY <1>1, <1>2, RowFields DEF GaveUp
<1>6. ~Aged(d)
  <2>1. Aged(d) => row'[d].error = row[d].error
    BY <1>1 DEF Aged, Row
  <2>. QED  BY <1>2, <2>1
<1>. QED  BY <1>1, <1>2, <1>3, <1>4, <1>5, <1>6 DEF RowStep

ReapInv == AgeInv /\ BatchInv

LEMMA InitReap == Init => ReapInv
  BY DEF Init, ReapInv, AgeInv, BatchInv, Exists, NoRow, NewRow, Unset

LEMMA ReapStep == TypeInv /\ ReapInv /\ [Next]_vars => ReapInv'
  BY AgeStep, BatchStep DEF ReapInv

\* The watchdog fails a row only in "converting" and past the cutoff at the
\* moment of the update, whatever happened since its Scan.
THEOREM ReapsOnlyStuck == Spec => ReapsOnlyStuckRows
<1>1. TypeInv /\ ReapInv /\ [Next]_vars => TypeInv' /\ ReapInv'
  BY TypeStep, ReapStep
<1>2. TypeInv /\ ReapInv /\ [Next]_vars => [\A d \in Docs : Reaped(d) => Stuck(d)]_vars
  BY ReapIsTimedOut DEF TimedOut, Stuck, Exists, ReapInv, BatchInv
<1>. QED  BY InitType, InitReap, <1>1, <1>2, PTL DEF Spec, ReapsOnlyStuckRows

-----------------------------------------------------------------------------
(***************************************************************************)
(* FirstCallNotReaped.  Two clocks run side by side, the timer of the call *)
(* and the age of the row.  While a document's claim has been received     *)
(* only once, the row's clock starts at that delivery's markConverting,    *)
(* so it cannot be ahead of the timer, and the call ends before either     *)
(* reaches the cutoff.                                                     *)
(***************************************************************************)
\* A claim that is yet to be sent has never been received.
FreshClaims ==
  /\ \A m \in Msgs : msg[m].state = "none" => msg[m].receives = 0
  /\ \A d \in Docs, m \in Msgs : Doc(m) = d =>
       /\ route[d] = "classify" /\ m[2] \in {"sent", "resent"} => msg[m].state = "none"
       /\ route[d] = "sending" /\ m[2] = "resent" => msg[m].state = "none"

\* What a busy worker holds has been received, as often as it says or more.
HeldReceived ==
  \A w \in Workers : worker[w].phase # "idle" =>
    1 <= worker[w].attempts /\ worker[w].attempts <= msg[worker[w].msg].receives

Untouched(d) == \A m \in Msgs : Doc(m) = d => msg[m].receives = 0

\* The clock of a row starts with a delivery.
ClockStarts == \A d \in Docs : Untouched(d) => row[d].age = Unset

\* The worker holds the first delivery of its document's claims.
Alone(w) ==
  /\ worker[w].phase \in {"received", "calling"} /\ worker[w].attempts = 1
  /\ \A m \in Msgs : Doc(m) = Current(w) /\ m # worker[w].msg => msg[m].receives = 0

ClocksAgree ==
  \A w \in Workers : Alone(w) =>
    /\ worker[w].phase = "received" => row[Current(w)].age <= 0
    /\ worker[w].phase = "calling" => row[Current(w)].age <= worker[w].timer

ClockInv == FreshClaims /\ HeldReceived /\ ClockStarts /\ ClocksAgree

(***************************************************************************)
(* What a step may do to a claim: nothing, send it for the first time,     *)
(* receive it once more, or move it about with its count.                  *)
(***************************************************************************)
FirstSend(m) ==
  /\ msg'[m] = AtRest("visible", 0)
  /\ \/ m = NextCopy(Doc(m)) /\ route[Doc(m)] \in {"classify", "sending"}
                             /\ route'[Doc(m)] # route[Doc(m)]
     \/ msg[m].state = "none" /\ m[2] = "manual"

MsgMove(m) ==
  \/ msg'[m] = msg[m]
  \/ FirstSend(m)
  \/ /\ msg[m].state # "none" /\ msg'[m].state # "none"
     /\ \/ msg'[m].receives = msg[m].receives
        \/ msg'[m].receives = msg[m].receives + 1

LEMMA AtRestFields ==
  \A s, n : AtRest(s, n).state = s /\ AtRest(s, n).receives = n
  BY DEF AtRest

LEMMA MsgMoves == TypeInv /\ [Next]_vars => \A m \in Msgs : MsgMove(m)
<1> SUFFICES ASSUME TypeInv, [Next]_vars, NEW m \in Msgs PROVE MsgMove(m)
  OBVIOUS
<1>0. msg \in [Msgs -> Msg] /\ route \in [Docs -> {"classify", "sending", "record", "done"}]
  BY DEF TypeInv, TypeOK
<1>1. ASSUME NEW d \in Docs, route[d] \in {"classify", "sending"}, NextCopy(d) \in Msgs,
             Sent(NextCopy(d)),
             \/ route' = [route EXCEPT ![d] = "record"]
             \/ route[d] = "classify" /\ route' = [route EXCEPT ![d] = "sending"]
      PROVE  MsgMove(m)
  <2>1. Doc(NextCopy(d)) = d
    BY DEF NextCopy, Doc
  <2>2. route'[d] # route[d]
    BY <1>0, <1>1
  <2>3. CASE m = NextCopy(d)
    <3>1. msg'[m] = AtRest("visible", 0)
      BY <1>0, <1>1, <2>3 DEF Sent
    <3>. QED  BY <1>1, <2>1, <2>2, <2>3, <3>1 DEF FirstSend, MsgMove
  <2>4. CASE m # NextCopy(d)
    BY <1>0, <1>1, <2>4 DEF Sent, MsgMove
  <2>. QED  BY <2>3, <2>4
<1>2. ASSUME NEW d \in Docs, Dispatch(d) PROVE MsgMove(m)
  <2>1. UNCHANGED msg \/ (NextCopy(d) \in Msgs /\ Sent(NextCopy(d)))
    BY <1>2 DEF Dispatch
  <2>2. route[d] \in {"classify", "sending"} /\ route' = [route EXCEPT ![d] = "record"]
    BY <1>2 DEF Dispatch, Dispatched
  <2>3. CASE NextCopy(d) \in Msgs /\ Sent(NextCopy(d))
    BY <1>1, <2>2, <2>3
  <2>4. CASE UNCHANGED msg
    BY <2>4 DEF MsgMove
  <2>. QED  BY <2>1, <2>3, <2>4
<1>3. ASSUME NEW d \in Docs, DispatchAnswerLost(d) PROVE MsgMove(m)
  <2>1. /\ route[d] = "classify" /\ route' = [route EXCEPT ![d] = "sending"]
        /\ Sent(NextCopy(d))
    BY <1>3 DEF DispatchAnswerLost
  <2>2. CASE NextCopy(d) \in Msgs
    BY <1>1, <2>1, <2>2
  <2>3. CASE NextCopy(d) \notin Msgs
    BY <1>0, <2>1, <2>3 DEF Sent, MsgMove
  <2>. QED  BY <2>2, <2>3
<1>4. ASSUME NEW n \in Msgs, ManualSend(n) PROVE MsgMove(m)
  <2>1. msg' = [msg EXCEPT ![n] = AtRest("visible", 0)]
    BY <1>4 DEF ManualSend, Sent
  <2>2. msg[n].state = "none" /\ n[2] = "manual"
    BY <1>4 DEF ManualSend
  <2>3. CASE m = n
    <3>1. msg'[m] = AtRest("visible", 0)
      BY <1>0, <2>1, <2>3
    <3>. QED  BY <2>2, <2>3, <3>1 DEF MsgMove, FirstSend
  <2>4. CASE m # n
    BY <1>0, <2>1, <2>4 DEF MsgMove
  <2>. QED  BY <2>3, <2>4
<1>5. ASSUME NEW n \in Msgs, MoveToDlq(n) \/ RedeliverEarly(n) PROVE MsgMove(m)
  <2>1. \E s \in {"dlq", "visible"} : msg' = [msg EXCEPT ![n] = AtRest(s, msg[n].receives)]
    BY <1>5 DEF MoveToDlq, RedeliverEarly
  <2>2. msg[n].state # "none"
    BY <1>5 DEF MoveToDlq, RedeliverEarly
  <2>. QED  BY <1>0, <2>1, <2>2, AtRestFields DEF MsgMove
<1>6. ASSUME NEW w \in Workers, NEW n \in Msgs, Receive(w, n) PROVE MsgMove(m)
  <2>1. msg[n].state = "visible" /\ msg' = [msg EXCEPT ![n] =
          [state |-> "inflight", receives |-> msg[n].receives + 1, timer |-> Visibility]]
    BY <1>6 DEF Receive
  <2>2. CASE m = n
    <3>1. msg'[m] = [state |-> "inflight", receives |-> msg[m].receives + 1,
                     timer |-> Visibility]
      BY <1>0, <2>1, <2>2
    <3>. QED  BY <2>1, <2>2, <3>1 DEF MsgMove
  <2>3. CASE m # n
    BY <1>0, <2>1, <2>3 DEF MsgMove
  <2>. QED  BY <2>2, <2>3
<1>7. ASSUME NEW w \in Workers, Delete(w) PROVE MsgMove(m)
  <2>1. UNCHANGED msg \/ (/\ Live(worker[w].msg)
                          /\ msg' = [msg EXCEPT ![worker[w].msg] =
                                       AtRest("deleted", msg[worker[w].msg].receives)])
    BY <1>7 DEF Delete
  <2>. QED  BY <1>0, <2>1, AtRestFields DEF MsgMove, Live
<1>8. CASE Tick
  <2>1. \/ msg'[m] = msg[m]
        \/ msg[m].state = "inflight" /\ msg'[m] = [msg[m] EXCEPT !.timer = @ - 1]
        \/ msg[m].state = "inflight" /\ msg'[m] = AtRest("visible", msg[m].receives)
    BY <1>8 DEF Tick
  <2>2. msg[m] \in Msg
    BY <1>0
  <2>3. msg'[m] = [msg[m] EXCEPT !.timer = @ - 1] =>
          msg'[m].state = msg[m].state /\ msg'[m].receives = msg[m].receives
    BY <2>2 DEF Msg
  <2>. QED  BY <2>1, <2>3, AtRestFields DEF MsgMove
<1>9. CASE UNCHANGED msg
  BY <1>9 DEF MsgMove
<1>. QED
  BY <1>2, <1>3, <1>4, <1>5, <1>6, <1>7, <1>8, <1>9
     DEF Next, RouteStep, WorkerStep, CallEnds, vars, SkipDispatch, ExcludeDwg,
         RecordRun, RecordAnswerLost, RouteCrash, ParseFailed, DwgShortCircuit,
         MarkConverting, CallSucceeds, CallerError, CallFails, MarkDone, MarkFailed,
         WorkerCrash, WatchdogScan, WatchdogReap, WatchdogCrash, RemoveRow

LEMMA CopyName == \A d, c : <<d, c>>[2] = c
  OBVIOUS

\* A worker that moves on, or waits, keeps its claim and its count.
LEMMA WorkerKeeps ==
  ASSUME TypeInv, NEW w \in Workers
  PROVE  /\ \A p, q : Moved(w, p, q) =>
                 /\ worker[w].phase = p /\ worker'[w].phase = q
                 /\ worker'[w].msg = worker[w].msg
                 /\ worker'[w].attempts = worker[w].attempts
                 /\ worker'[w].timer = worker[w].timer
         /\ Waited(w) => /\ worker[w].phase = "calling" /\ worker'[w].phase = "calling"
                         /\ worker'[w].msg = worker[w].msg
                         /\ worker'[w].attempts = worker[w].attempts
                         /\ worker'[w].timer = worker[w].timer + 1
<1>1. worker[w] \in Worker
  BY DEF TypeInv, TypeOK
<1>2. ASSUME NEW p, NEW q, Moved(w, p, q)
      PROVE  /\ worker[w].phase = p /\ worker'[w].phase = q
             /\ worker'[w].msg = worker[w].msg
             /\ worker'[w].attempts = worker[w].attempts
             /\ worker'[w].timer = worker[w].timer
  BY <1>1, <1>2 DEF Moved, Worker
<1>3. Waited(w) => /\ worker[w].phase = "calling" /\ worker'[w].phase = "calling"
                   /\ worker'[w].msg = worker[w].msg
                   /\ worker'[w].attempts = worker[w].attempts
                   /\ worker'[w].timer = worker[w].timer + 1
  BY <1>1 DEF Waited, Worker
<1>. QED  BY <1>2, <1>3

LEMMA FreshStep == TypeInv /\ FreshClaims /\ [Next]_vars => FreshClaims'
<1> SUFFICES ASSUME TypeInv, FreshClaims, [Next]_vars PROVE FreshClaims'
  OBVIOUS
<1>1. ASSUME NEW m \in Msgs, msg'[m].state = "none" PROVE msg'[m].receives = 0
  <2>1. MsgMove(m)
    BY MsgMoves
  <2>2. ~FirstSend(m)
    BY <1>1, AtRestFields DEF FirstSend
  <2>. QED  BY <1>1, <2>1, <2>2 DEF MsgMove, FreshClaims
<1>2. ASSUME NEW m \in Msgs,
             \/ route'[Doc(m)] = "classify" /\ m[2] \in {"sent", "resent"}
             \/ route'[Doc(m)] = "sending" /\ m[2] = "resent"
      PROVE  msg'[m].state = "none"
  <2>1. MsgMove(m) /\ RouteMove(Doc(m)) /\ Doc(m) \in Docs
    BY MsgMoves, RouteMoves, MsgShape
  <2>2. route'[Doc(m)] = "classify" => route[Doc(m)] = "classify"
    BY <2>1 DEF RouteMove
  <2>3. route'[Doc(m)] = "sending" => route[Doc(m)] \in {"classify", "sending"}
    BY <2>1 DEF RouteMove
  <2>4. msg[m].state = "none"
    BY <1>2, <2>1, <2>2, <2>3 DEF FreshClaims
  <2>5. ~FirstSend(m)
    <3>1. m[2] # "manual"
      BY <1>2
    <3>2. ASSUME FirstSend(m) PROVE FALSE
      <4>1. m = NextCopy(Doc(m)) /\ route'[Doc(m)] # route[Doc(m)]
        BY <3>1, <3>2 DEF FirstSend
      <4>2. route[Doc(m)] = "classify" /\ route'[Doc(m)] = "sending"
        BY <1>2, <2>2, <2>3, <4>1
      <4>3. m = <<Doc(m), "sent">>
        BY <4>1, <4>2 DEF NextCopy
      <4>4. m[2] = "sent"
        BY <4>3, CopyName
      <4>. QED  BY <1>2, <4>2, <4>4
    <3>. QED  BY <3>2
  <2>. QED  BY <2>1, <2>4, <2>5 DEF MsgMove
<1>3. \A m \in Msgs : msg'[m].state = "none" => msg'[m].receives = 0
  BY <1>1
<1>4. \A d \in Docs, m \in Msgs : Doc(m) = d =>
        /\ route'[d] = "classify" /\ m[2] \in {"sent", "resent"} => msg'[m].state = "none"
        /\ route'[d] = "sending" /\ m[2] = "resent" => msg'[m].state = "none"
  BY <1>2
<1>. QED  BY <1>3, <1>4 DEF FreshClaims

\* No step takes a receive back.
LEMMA ReceivesGrow ==
  ASSUME TypeInv, FreshClaims, [Next]_vars, NEW m \in Msgs
  PROVE  /\ msg[m].receives \in Nat /\ msg'[m].receives \in Nat
         /\ msg[m].receives <= msg'[m].receives
<1>1. MsgMove(m) /\ msg[m] \in Msg /\ msg[m].receives \in Nat /\ Doc(m) \in Docs
  BY MsgMoves, MsgShape, Bounds DEF TypeInv, TypeOK, Msg
<1>2. ASSUME FirstSend(m) PROVE msg[m].receives = 0 /\ msg'[m].receives = 0
  <2>1. msg[m].state = "none"
    <3>1. CASE m = NextCopy(Doc(m)) /\ route[Doc(m)] \in {"classify", "sending"}
      <4>1. m[2] = IF route[Doc(m)] = "classify" THEN "sent" ELSE "resent"
        BY <3>1, CopyName DEF NextCopy
      <4>. QED  BY <1>1, <3>1, <4>1 DEF FreshClaims
    <3>. QED  BY <1>2, <3>1 DEF FirstSend
  <2>. QED  BY <1>2, <2>1, AtRestFields DEF FirstSend, FreshClaims
<1>. QED  BY <1>1, <1>2 DEF MsgMove

LEMMA HeldStep == TypeInv /\ FreshClaims /\ HeldReceived /\ [Next]_vars => HeldReceived'
<1> SUFFICES ASSUME TypeInv, FreshClaims, HeldReceived, [Next]_vars,
                    NEW w \in Workers, worker'[w].phase # "idle"
             PROVE  /\ 1 <= worker'[w].attempts
                    /\ worker'[w].attempts <= msg'[worker'[w].msg].receives
  BY DEF HeldReceived
<1>1. WorkerMove(w) /\ worker[w] \in Worker
  BY WorkerMoves DEF TypeInv, TypeOK
<1>2. worker'[w] # Idle
  BY DEF Idle
<1>3. CASE \E m \in Msgs : Took(w, m)
  <2>1. PICK m \in Msgs : Took(w, m)
    BY <1>3
  <2>2. msg[m].receives \in Nat /\ msg' = [msg EXCEPT ![m] =
          [state |-> "inflight", receives |-> msg[m].receives + 1, timer |-> Visibility]]
    BY <2>1, Bounds DEF Took, Receive, TypeInv, TypeOK, Msg
  <2>3. msg'[m] = [state |-> "inflight", receives |-> msg[m].receives + 1, timer |-> Visibility]
    BY <2>2 DEF TypeInv, TypeOK
  <2>4. msg'[m].receives = msg[m].receives + 1
    BY <2>3
  <2>5. worker'[w].msg = m /\ worker'[w].attempts = msg[m].receives + 1
    BY <2>1 DEF Took
  <2>. QED  BY <2>2, <2>4, <2>5
<1>4. CASE /\ worker[w].phase # "idle" /\ worker'[w].msg = worker[w].msg
           /\ worker'[w].attempts = worker[w].attempts
  <2>1. worker[w].msg \in Msgs /\ worker[w].attempts \in Nat
    BY <1>1, <1>4, Bounds DEF TypeInv, HoldsClaim, Worker
  <2>. QED  BY <1>4, <2>1, ReceivesGrow DEF HeldReceived
<1>. QED  BY <1>1, <1>2, <1>3, <1>4, WorkerKeeps DEF WorkerMove

\* A tick ages a row by one at most.
LEMMA TickAges ==
  ASSUME TypeInv, Tick, NEW d \in Docs
  PROVE  row'[d].age = row[d].age \/ row'[d].age = row[d].age + 1
<1>1. row[d] \in Row
  BY DEF TypeInv, TypeOK
<1>2. row'[d] = row[d] \/ row'[d] = [row[d] EXCEPT !.age = row[d].age + 1]
  BY DEF Tick
<1>. QED  BY <1>1, <1>2 DEF Row

LEMMA ClockStartsStep ==
  TypeInv /\ FreshClaims /\ HeldReceived /\ ClockStarts /\ [Next]_vars => ClockStarts'
<1> SUFFICES ASSUME TypeInv, FreshClaims, HeldReceived, ClockStarts, [Next]_vars,
                    NEW d \in Docs, Untouched(d)'
             PROVE  row'[d].age = Unset
  BY DEF ClockStarts
<1>1. Untouched(d)
  <2>1. ASSUME NEW m \in Msgs, Doc(m) = d PROVE msg[m].receives = 0
    <3>1. msg'[m].receives = 0
      BY <2>1 DEF Untouched
    <3>. QED  BY <3>1, ReceivesGrow
  <2>. QED  BY <2>1 DEF Untouched
<1>2. row[d].age = Unset /\ RowStep(d)
  BY <1>1, RowSteps DEF ClockStarts
<1>3. ASSUME Started(d) PROVE FALSE
  <2>1. PICK w \in Workers : Holds(w, "received", d)
    BY <1>3 DEF Started
  <2>2. worker[w].phase # "idle" /\ Doc(worker[w].msg) = d
    BY <2>1 DEF Holds, Current
  <2>3. worker[w].msg \in Msgs /\ worker[w].attempts \in Nat
    BY <2>2, Bounds DEF TypeInv, TypeOK, HoldsClaim, Worker
  <2>4. msg[worker[w].msg].receives = 0
    BY <1>1, <2>2, <2>3 DEF Untouched
  <2>. QED  BY <2>2, <2>3, <2>4 DEF HeldReceived
<1>4. ~Aged(d)
  BY <1>2, Bounds DEF Aged, Unset
<1>. QED  BY <1>2, <1>3, <1>4, AgeSteps

LEMMA ClocksAgreeStep == TypeInv /\ ClockInv /\ [Next]_vars => ClocksAgree'
<1> SUFFICES ASSUME TypeInv, ClockInv, [Next]_vars, NEW w \in Workers, Alone(w)'
             PROVE  /\ worker'[w].phase = "received" => row'[Doc(worker'[w].msg)].age <= 0
                    /\ worker'[w].phase = "calling" =>
                         row'[Doc(worker'[w].msg)].age <= worker'[w].timer
  BY DEF ClocksAgree, Current
<1> DEFINE d == Doc(worker'[w].msg)
<1> USE DEF ClockInv
<1>1. WorkerMove(w) /\ worker[w] \in Worker /\ TypeInv'
  BY WorkerMoves, TypeStep DEF TypeInv, TypeOK
<1>2. /\ worker'[w].phase \in {"received", "calling"} /\ worker'[w].attempts = 1
      /\ \A m \in Msgs : Doc(m) = d /\ m # worker'[w].msg => msg'[m].receives = 0
  BY DEF Alone, Current
<1>3. worker'[w].msg \in Msgs /\ d \in Docs
  BY <1>1, <1>2, MsgShape DEF TypeInv, HoldsClaim
<1>4. RowStep(d) /\ row[d].age \in Int /\ row'[d].age \in Int
  BY <1>3, RowSteps, AgeSteps
<1>5. \A m \in Msgs : Doc(m) = d /\ m # worker'[w].msg => msg[m].receives = 0
  BY <1>2, ReceivesGrow
<1>6. CASE \E m \in Msgs : Took(w, m)
  <2>1. PICK m \in Msgs : Took(w, m)
    BY <1>6
  <2>2. worker'[w].msg = m /\ worker'[w].phase = "received" /\ row' = row
        /\ worker'[w].attempts = msg[m].receives + 1
    BY <2>1 DEF Took, Receive
  <2>3. msg[m].receives = 0
    BY <1>2, <2>2, ReceivesGrow
  <2>4. Untouched(d)
    BY <1>5, <2>2, <2>3 DEF Untouched
  <2>. QED  BY <1>3, <2>2, <2>4 DEF ClockStarts, Unset
<1>7. ASSUME worker'[w].msg = worker[w].msg, worker[w].attempts = 1,
             worker[w].phase \in {"received", "calling"}
      PROVE  /\ worker[w].phase = "received" => row[d].age <= 0
             /\ worker[w].phase = "calling" => row[d].age <= worker[w].timer
  BY <1>5, <1>7 DEF Alone, ClocksAgree, Current
<1>8. worker[w].timer \in Nat /\ worker[w].timer >= 0
  BY <1>1, Bounds DEF Worker
<1>9. CASE Tick
  <2>1. worker[w].phase # "received"
    BY <1>9 DEF Tick, Prompt, Idle
  <2>2. row'[d].age <= row[d].age + 1
    BY <1>3, <1>4, <1>9, AgeSteps, TickAges
  <2>3. Waited(w) \/ (worker[w].phase # "calling" /\ worker'[w] = worker[w])
    BY <1>9 DEF Tick, Waited
  <2>4. Waited(w)
    BY <1>2, <2>1, <2>3
  <2>5. /\ worker[w].phase = "calling" /\ worker'[w].phase = "calling"
        /\ worker'[w].msg = worker[w].msg /\ worker[w].attempts = 1
        /\ worker'[w].timer = worker[w].timer + 1
    BY <1>2, <2>4, WorkerKeeps
  <2>. QED  BY <1>4, <1>7, <1>8, <2>2, <2>5
<1>10. CASE ~Tick
  <2>1. row'[d].age = row[d].age \/ row'[d].age <= 0
    <3>1. ~Aged(d)
      BY <1>10 DEF Aged
    <3>2. \/ row'[d].age = row[d].age \/ row'[d].age = Unset \/ row'[d].age = 0
          \/ Aged(d)
      BY <1>3, <1>4, AgeSteps
    <3>. QED  BY <3>1, <3>2 DEF Unset
  <2>2. CASE worker'[w] = worker[w]
    BY <1>2, <1>4, <1>7, <1>8, <2>1, <2>2
  <2>3. CASE Moved(w, "received", "calling")
    <3>1. /\ worker[w].phase = "received" /\ worker'[w].phase = "calling"
          /\ worker'[w].msg = worker[w].msg /\ worker[w].attempts = 1
          /\ worker'[w].timer = worker[w].timer
      BY <1>2, <2>3, WorkerKeeps
    <3>. QED  BY <1>4, <1>7, <1>8, <2>1, <3>1
  <2>4. /\ worker'[w] # Idle /\ ~Waited(w)
        /\ ~Moved(w, "calling", "markDone") /\ ~Moved(w, "calling", "markFailed")
        /\ \A p : ~Moved(w, p, "deleting")
    <3>1. worker'[w] # Idle
      BY <1>2 DEF Idle
    <3>2. \A p, q : Moved(w, p, q) => worker'[w].phase = q
      BY WorkerKeeps
    <3>3. ~Waited(w)
      BY <1>10 DEF Waited
    <3>. QED  BY <1>2, <3>1, <3>2, <3>3
  <2>5. worker'[w] = worker[w] \/ (\E m \in Msgs : Took(w, m)) \/ Moved(w, "received", "calling")
    BY <1>1, <2>4 DEF WorkerMove
  <2>. QED  BY <1>6, <2>2, <2>3, <2>5
<1>. QED  BY <1>9, <1>10

LEMMA InitClock == Init => ClockInv
<1> SUFFICES ASSUME Init PROVE ClockInv
  OBVIOUS
<1>1. FreshClaims
  BY AtRestFields DEF Init, FreshClaims
<1>2. HeldReceived /\ ClocksAgree
  BY DEF Init, HeldReceived, ClocksAgree, Alone, Idle
<1>3. ClockStarts
  BY DEF Init, ClockStarts, NoRow, NewRow
<1>. QED  BY <1>1, <1>2, <1>3 DEF ClockInv

LEMMA ClockStep == TypeInv /\ ClockInv /\ [Next]_vars => ClockInv'
  BY FreshStep, HeldStep, ClockStartsStep, ClocksAgreeStep DEF ClockInv

\* With the HTTP timeout no longer than the watchdog's cutoff (30 minutes
\* against 35), the watchdog never fails a row while the first delivery
\* of its only claim is still at office-convert.
THEOREM FirstCallSafe ==
  ASSUME CallTimeout <= StuckAfter PROVE Spec => FirstCallNotReaped
<1>1. TypeInv /\ ReapInv /\ ClockInv /\ [Next]_vars => TypeInv' /\ ReapInv' /\ ClockInv'
  BY TypeStep, ReapStep, ClockStep
<1>2. TypeInv /\ ReapInv /\ ClockInv /\ [Next]_vars =>
        [\A d \in Docs, w \in Workers :
           /\ Reaped(d)
           /\ worker[w].phase = "calling" /\ Current(w) = d
           => worker[w].attempts > 1 \/ \E m \in Msgs :
                Doc(m) = d /\ m # worker[w].msg /\ msg[m].receives > 0]_vars
  <2> SUFFICES ASSUME TypeInv, ReapInv, ClockInv, [Next]_vars,
                      NEW d \in Docs, NEW w \in Workers,
                      Reaped(d), worker[w].phase = "calling", Current(w) = d,
                      ~(worker[w].attempts > 1),
                      \A m \in Msgs : Doc(m) = d /\ m # worker[w].msg =>
                                        ~(msg[m].receives > 0)
               PROVE  FALSE
    OBVIOUS
  <2>1. TimedOut(d)
    BY ReapIsTimedOut
  <2>2. row[d].age > StuckAfter
    BY <2>1 DEF TimedOut, ReapInv, BatchInv, Exists
  <2>3. worker[w].attempts = 1 /\ worker[w].timer \in Int /\ worker[w].timer <= CallTimeout
    BY Bounds DEF TypeInv, TypeOK, Worker, ClockInv, HeldReceived
  <2>4. \A m \in Msgs : msg[m].receives \in Nat
    BY Bounds DEF TypeInv, TypeOK, Msg
  <2>5. Alone(w)
    BY <2>3, <2>4 DEF Alone
  <2>6. row[d].age <= worker[w].timer /\ row[d].age \in Int
    BY <2>5, Bounds DEF ClockInv, ClocksAgree, TypeInv, TypeOK, Row, Unset
  <2>. QED  BY <2>2, <2>3, <2>6, Bounds
<1>. QED  BY InitType, InitReap, InitClock, <1>1, <1>2, PTL DEF Spec, FirstCallNotReaped

(***************************************************************************)
(* Overlapping deliveries.  The visibility timer of a claim starts with    *)
(* its receive and runs together with the timer of the call, and nothing   *)
(* else in handling a claim lasts a tick.  So what remains of the one and  *)
(* what has passed of the other add up to the visibility timeout, and the  *)
(* claim is visible again only when the call has lasted that long.         *)
(***************************************************************************)
Expired(w) == worker[w].timer >= Visibility

\* The worker's claim is still hidden, or gone, or its time is over.
Leased(w) ==
  LET m == worker[w].msg
  IN  \/ Expired(w)
      \/ msg[m].state = "deleted"
      \/ msg[m].state = "inflight" /\ msg[m].timer + worker[w].timer >= Visibility

LeaseInv == faults = 0 => \A w \in Workers : worker[w].phase # "idle" => Leased(w)

\* What a step may do to a claim, as long as the queue makes no fault.
LeaseMove(m) ==
  \/ msg'[m] = msg[m]
  \/ msg[m].state \in {"none", "visible"}
  \/ msg'[m].state = "deleted"
  \/ Tick

LEMMA FaultsGrow ==
  TypeInv /\ [Next]_vars => /\ faults \in Nat /\ faults' \in Nat /\ faults <= faults'
                            /\ (\E m \in Msgs : RedeliverEarly(m)) => faults' # 0
<1> SUFFICES ASSUME TypeInv, [Next]_vars
             PROVE  /\ faults \in Nat /\ faults' \in Nat /\ faults <= faults'
                    /\ (\E m \in Msgs : RedeliverEarly(m)) => faults' # 0
  OBVIOUS
<1>1. faults \in Nat
  BY Bounds DEF TypeInv, TypeOK
<1>2. faults' = faults \/ Fault
  <2>1. ASSUME NEW d \in Docs, Dispatch(d) \/ DispatchAnswerLost(d) PROVE faults' = faults \/ Fault
    BY <2>1 DEF Dispatch, DispatchAnswerLost
  <2>2. ASSUME NEW d \in Docs, RecordRun(d) \/ RecordAnswerLost(d) \/ WatchdogReap(d) \/ RemoveRow(d)
        PROVE faults' = faults \/ Fault
    BY <2>2 DEF RecordRun, RecordAnswerLost, WatchdogReap, RemoveRow
  <2>3. ASSUME NEW w \in Workers, DwgShortCircuit(w) \/ MarkConverting(w) \/ MarkDone(w)
                                  \/ MarkFailed(w) \/ Delete(w)
        PROVE faults' = faults \/ Fault
    BY <2>3 DEF DwgShortCircuit, MarkConverting, MarkDone, MarkFailed, Delete, Update
  <2>4. CASE \E m \in Msgs : RedeliverEarly(m)
    BY <2>4 DEF RedeliverEarly
  <2>5. CASE UNCHANGED faults
    BY <2>5
  <2>. QED
    BY <2>1, <2>2, <2>3, <2>4, <2>5
       DEF Next, RouteStep, WorkerStep, CallEnds, vars, SkipDispatch, ExcludeDwg,
           RouteCrash, ManualSend, MoveToDlq, WatchdogScan, WatchdogCrash, Receive,
           ParseFailed, CallSucceeds, CallerError, CallFails, WorkerCrash, Tick
<1>3. Fault => faults' = faults + 1
  BY DEF Fault
<1>4. \A m \in Msgs : RedeliverEarly(m) => Fault
  BY DEF RedeliverEarly
<1>. QED  BY <1>1, <1>2, <1>3, <1>4

LEMMA LeaseMoves ==
  TypeInv /\ FreshClaims /\ [Next]_vars /\ faults' = 0 => \A m \in Msgs : LeaseMove(m)
<1> SUFFICES ASSUME TypeInv, FreshClaims, [Next]_vars, faults' = 0, NEW m \in Msgs
             PROVE  LeaseMove(m)
  OBVIOUS
<1>0. msg \in [Msgs -> Msg] /\ route \in [Docs -> {"classify", "sending", "record", "done"}]
  BY DEF TypeInv, TypeOK
<1>1. ASSUME NEW d \in Docs, route[d] \in {"classify", "sending"}, Sent(NextCopy(d))
      PROVE  LeaseMove(m)
  <2>1. CASE m = NextCopy(d)
    <3>1. Doc(m) = d /\ m[2] = IF route[d] = "classify" THEN "sent" ELSE "resent"
      BY <2>1, CopyName DEF NextCopy, Doc
    <3>2. msg[m].state = "none"
      BY <1>1, <3>1 DEF FreshClaims
    <3>. QED  BY <3>2 DEF LeaseMove
  <2>2. CASE m # NextCopy(d)
    BY <1>0, <1>1, <2>2 DEF Sent, LeaseMove
  <2>. QED  BY <2>1, <2>2
<1>2. ASSUME NEW d \in Docs, Dispatch(d) \/ DispatchAnswerLost(d) PROVE LeaseMove(m)
  <2>1. route[d] \in {"classify", "sending"} /\ (Sent(NextCopy(d)) \/ UNCHANGED msg)
    BY <1>2 DEF Dispatch, DispatchAnswerLost
  <2>. QED  BY <1>1, <2>1 DEF LeaseMove
<1>3. ASSUME NEW n \in Msgs, ManualSend(n) \/ MoveToDlq(n) PROVE LeaseMove(m)
  <2>1. msg[n].state \in {"none", "visible"} /\ \E k : msg' = [msg EXCEPT ![n] = k]
    BY <1>3 DEF ManualSend, Sent, MoveToDlq
  <2>. QED  BY <1>0, <2>1 DEF LeaseMove
<1>8. ASSUME NEW w \in Workers, NEW n \in Msgs, Receive(w, n) PROVE LeaseMove(m)
  BY <1>0, <1>8 DEF Receive, LeaseMove
<1>4. ASSUME NEW w \in Workers, Delete(w) PROVE LeaseMove(m)
  <2>1. UNCHANGED msg \/ msg' = [msg EXCEPT ![worker[w].msg] =
                                   AtRest("deleted", msg[worker[w].msg].receives)]
    BY <1>4 DEF Delete
  <2>. QED  BY <1>0, <2>1, AtRestFields DEF LeaseMove
<1>5. CASE Tick
  BY <1>5 DEF LeaseMove
<1>6. CASE UNCHANGED msg
  BY <1>6 DEF LeaseMove
<1>7. ASSUME NEW n \in Msgs, RedeliverEarly(n) PROVE LeaseMove(m)
  BY <1>7, FaultsGrow
<1>9. ASSUME NEW w \in Workers, WorkerStep(w) \/ WorkerCrash(w) PROVE LeaseMove(m)
  BY <1>4, <1>6, <1>9
     DEF WorkerStep, CallEnds, ParseFailed, DwgShortCircuit, MarkConverting, CallSucceeds,
         CallerError, CallFails, MarkDone, MarkFailed, WorkerCrash
<1>10. ASSUME NEW d \in Docs,
              \/ RouteStep(d) \/ DispatchAnswerLost(d) \/ RecordAnswerLost(d)
              \/ RouteCrash(d) \/ WatchdogReap(d) \/ RemoveRow(d)
       PROVE  LeaseMove(m)
  BY <1>2, <1>6, <1>10
     DEF RouteStep, SkipDispatch, ExcludeDwg, RecordRun, RecordAnswerLost, RouteCrash,
         WatchdogReap, RemoveRow
<1>11. CASE WatchdogScan \/ WatchdogCrash
  BY <1>6, <1>11 DEF WatchdogScan, WatchdogCrash
<1>. QED  BY <1>3, <1>5, <1>6, <1>7, <1>8, <1>9, <1>10, <1>11 DEF Next, vars

\* A worker that goes on with its claim, or waits for its call.
Keeps(w) ==
  /\ worker[w].phase # "idle" /\ worker'[w].msg = worker[w].msg
  /\ \/ worker'[w].timer = worker[w].timer /\ ~Tick
     \/ worker'[w].timer = worker[w].timer + 1 /\ Tick

\* Time passes only for those that are at office-convert.
LEMMA HolderMoves ==
  ASSUME TypeInv, [Next]_vars, NEW w \in Workers, worker'[w].phase # "idle"
  PROVE  Keeps(w) \/ (~Tick /\ \E m \in Msgs : Took(w, m))
<1>0. /\ worker \in [Workers -> Worker] /\ worker[w] \in Worker
      /\ worker[w].phase # "idle" => worker[w].timer \in Nat
  BY Bounds DEF TypeInv, TypeOK, Worker
<1>1. worker'[w] # Idle
  BY DEF Idle
<1>2. CASE Tick
  <2>1. worker[w].phase = "calling" /\ Waited(w)
    <3>1. worker[w] = Idle \/ worker[w].phase = "calling"
      BY <1>2 DEF Tick, Prompt
    <3>2. worker'[w] = IF worker[w].phase = "calling"
                       THEN [worker[w] EXCEPT !.timer = @ + 1] ELSE worker[w]
      BY <1>2 DEF Tick
    <3>. QED  BY <1>1, <1>2, <3>1, <3>2 DEF Waited, Idle
  <2>. QED  BY <1>2, <2>1, WorkerKeeps DEF Keeps
<1>3. CASE ~Tick
  <2>1. WorkerMove(w)
    BY WorkerMoves
  <2>2. CASE worker'[w] = worker[w]
    BY <1>3, <2>2 DEF Keeps
  <2>3. CASE \E p, q : p # "idle" /\ Moved(w, p, q)
    BY <1>3, <2>3, WorkerKeeps DEF Keeps
  <2>. QED  BY <1>1, <1>3, <2>1, <2>2, <2>3 DEF WorkerMove, Waited
<1>. QED  BY <1>2, <1>3

LEMMA LeaseStep ==
  TypeInv /\ FreshClaims /\ HeldReceived /\ LeaseInv /\ [Next]_vars => LeaseInv'
<1> SUFFICES ASSUME TypeInv, FreshClaims, HeldReceived, LeaseInv, [Next]_vars,
                    faults' = 0, NEW w \in Workers, worker'[w].phase # "idle"
             PROVE  Leased(w)'
  BY DEF LeaseInv
<1>0. faults = 0 /\ msg \in [Msgs -> Msg] /\ worker[w] \in Worker
  BY FaultsGrow DEF TypeInv, TypeOK
<1>1. ASSUME NEW m \in Msgs, Took(w, m) PROVE Leased(w)'
  <2>1. msg' = [msg EXCEPT ![m] = [state |-> "inflight", receives |-> msg[m].receives + 1,
                                   timer |-> Visibility]]
    BY <1>1 DEF Took, Receive
  <2>2. msg'[m].state = "inflight" /\ msg'[m].timer = Visibility
    BY <1>0, <2>1
  <2>3. worker'[w].msg = m /\ worker'[w].timer = 0
    BY <1>1 DEF Took
  <2>. QED  BY <2>2, <2>3, Bounds DEF Leased
<1>2. CASE Keeps(w)
  <2> DEFINE m == worker[w].msg
  <2>0. m \in Msgs /\ worker[w].timer \in Nat /\ worker'[w].msg = m
    BY <1>0, <1>2, Bounds DEF Keeps, TypeInv, HoldsClaim, Worker
  <2>1. worker'[w].timer \in Nat /\ worker'[w].timer >= worker[w].timer
    BY <1>2, <2>0 DEF Keeps
  <2>2. Leased(w)
    BY <1>0, <1>2 DEF LeaseInv, Keeps
  <2>3. msg[m] \in Msg /\ msg[m].timer \in Nat /\ msg[m].state # "none"
    <3>1. 1 <= msg[m].receives
      BY <1>0, <1>2, <2>0, Bounds DEF HeldReceived, Keeps, Worker, TypeInv, TypeOK, Msg
    <3>. QED  BY <1>0, <2>0, <3>1, Bounds DEF FreshClaims, Msg
  <2>4. CASE Expired(w)
    BY <2>0, <2>1, <2>4, Bounds DEF Expired, Leased
  <2>5. CASE msg[m].state # "visible" /\ ~Tick
    <3>1. LeaseMove(m) /\ worker'[w].timer = worker[w].timer
      BY <1>2, <2>0, <2>5, LeaseMoves DEF Keeps
    <3>. QED  BY <2>0, <2>2, <2>3, <2>5, <3>1 DEF LeaseMove, Leased, Expired
  <2>6. CASE Tick
    <3>1. worker'[w].timer = worker[w].timer + 1
      BY <1>2, <2>6 DEF Keeps
    <3>2. CASE msg[m].state = "inflight"
      <4>1. msg'[m] = IF msg[m].timer > 1 THEN [msg[m] EXCEPT !.timer = @ - 1]
                      ELSE AtRest("visible", msg[m].receives)
        BY <2>0, <2>6, <3>2 DEF Tick
      <4>2. CASE msg[m].timer > 1
        <5>1. msg'[m].state = "inflight" /\ msg'[m].timer = msg[m].timer - 1
          BY <2>3, <3>2, <4>1, <4>2 DEF Msg
        <5>. QED  BY <2>0, <2>2, <2>3, <3>1, <3>2, <5>1, Bounds DEF Leased, Expired
      <4>3. CASE ~(msg[m].timer > 1)
        BY <2>0, <2>2, <2>3, <3>1, <3>2, <4>3, Bounds DEF Leased, Expired
      <4>. QED  BY <4>2, <4>3
    <3>3. CASE msg[m].state # "inflight"
      <4>1. msg'[m] = msg[m]
        BY <2>0, <2>6, <3>3 DEF Tick
      <4>. QED  BY <2>0, <2>2, <2>4, <3>3, <4>1 DEF Leased, Expired
    <3>. QED  BY <3>2, <3>3
  <2>. QED  BY <2>2, <2>4, <2>5, <2>6 DEF Leased
<1>. QED  BY <1>1, <1>2, HolderMoves

LEMMA OverlapStep ==
  /\ TypeInv /\ LeaseInv /\ OverlapOnlyAtVisibility /\ [Next]_vars
  => OverlapOnlyAtVisibility'
<1> SUFFICES ASSUME TypeInv, LeaseInv, OverlapOnlyAtVisibility, [Next]_vars,
                    faults' = 0, NEW v \in Workers, NEW w \in Workers, Shared(v, w)'
             PROVE  Expired(v)' \/ Expired(w)'
  BY DEF OverlapOnlyAtVisibility, Expired
<1>0. /\ faults = 0 /\ worker \in [Workers -> Worker] /\ v # w
      /\ worker'[v].phase # "idle" /\ worker'[w].phase # "idle"
      /\ worker'[v].msg = worker'[w].msg
  BY FaultsGrow DEF TypeInv, TypeOK, Shared
<1>1. \A u \in Workers : /\ worker[u].timer \in Nat
                         /\ Keeps(u) /\ Expired(u) => Expired(u)'
  BY <1>0, Bounds DEF Worker, Keeps, Expired
\* Whoever takes the claim finds it visible, so the other's time is over.
<1>2. ASSUME NEW u \in Workers, NEW x \in Workers, u # x, NEW m \in Msgs, Took(u, m),
             worker'[x].phase # "idle", worker'[x].msg = worker'[u].msg
      PROVE  Expired(x)'
  <2>1. msg[m].state = "visible" /\ worker'[u].msg = m /\ worker'[x] = worker[x]
    BY <1>0, <1>2 DEF Took, Receive
  <2>2. Leased(x) /\ worker[x].msg = m
    BY <1>0, <1>2, <2>1 DEF LeaseInv
  <2>. QED  BY <2>1, <2>2 DEF Leased, Expired
<1>3. CASE Keeps(v) /\ Keeps(w)
  <2>1. Shared(v, w)
    BY <1>0, <1>3 DEF Keeps, Shared
  <2>. QED  BY <1>0, <1>1, <1>3, <2>1 DEF OverlapOnlyAtVisibility, Expired
<1>. QED  BY <1>0, <1>2, <1>3, HolderMoves

\* A claim that is being worked on reaches a second replica only when the
\* call of one of the two has lasted the whole visibility timeout, for every
\* number of replicas, documents and crashes and every setting of the timeouts.
THEOREM OverlapOnlyAtVisibilityAlways == Spec => []OverlapOnlyAtVisibility
<1>1. Init => LeaseInv /\ OverlapOnlyAtVisibility
  BY DEF Init, LeaseInv, OverlapOnlyAtVisibility, Shared, Idle
<1>2. /\ TypeInv /\ ClockInv /\ LeaseInv /\ OverlapOnlyAtVisibility /\ [Next]_vars
      => TypeInv' /\ ClockInv' /\ LeaseInv' /\ OverlapOnlyAtVisibility'
  BY TypeStep, ClockStep, LeaseStep, OverlapStep DEF ClockInv
<1>. QED  BY InitType, InitClock, <1>1, <1>2, PTL DEF Spec
=============================================================================
