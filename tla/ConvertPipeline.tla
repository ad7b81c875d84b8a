--------------------------- MODULE ConvertPipeline ---------------------------
(***************************************************************************)
(* The convert fan-out of the classification service: the classify route   *)
(* (ui/app/api/classify/route.ts) drops a claim-check on the convert queue *)
(* and then records the run; the convert workers (worker/src) consume the  *)
(* claims, drive office-convert and write convertStatus back to the row;   *)
(* the watchdog route fails rows stuck in "converting".                    *)
(*                                                                         *)
(* One run row, and a few copies of one claim, exist per document.  Time   *)
(* is counted in ticks, about five minutes each; single SDK calls take far *)
(* less than a tick, so Tick waits for them (see Prompt).                  *)
(***************************************************************************)
EXTENDS Integers, FiniteSets

CONSTANTS
  Docs,         \* documents; each names its run row (workspaceId, runId)
  Kind,         \* Docs -> Kinds: what the upload turns out to be
  Workers,      \* convert-worker replicas
  Copies,       \* copies of a claim that may exist, a subset of CopyNames
  NoMsg,        \* an idle worker holds no message
  Pos,          \* Docs -> Nat: the order in which a Scan meets the rows
  MaxReceive,   \* maxReceiveCount of the queue's redrive policy
  Visibility,   \* visibility timeout, in ticks
  CallTimeout,  \* office-convert HTTP timeout, in ticks
  StuckAfter,   \* the watchdog's STUCK_AFTER_MS, in ticks
  ScanLimit,    \* Limit of the watchdog's Scan
  MaxRows,      \* the watchdog's MAX_ROWS
  MaxFaults,    \* bound: SDK calls that fail or lose their answer
  MaxCrashes    \* bound: processes killed in the middle of their work

Kinds     == {"office", "dwg", "other", "malformed"}
CopyNames == {"sent", "resent", "manual"}
Msgs      == Docs \X Copies
Unset     == -1
Doc(m)    == m[1]
IsDwg(d)  == Kind[d] = "dwg"

ASSUME ConstantsAssumption ==
  /\ Kind \in [Docs -> Kinds]
  /\ Copies \subseteq CopyNames
  /\ NoMsg \notin Msgs
  /\ Pos \in [Docs -> Nat]
  /\ \A d, e \in Docs : Pos[d] = Pos[e] => d = e
  /\ {MaxReceive, Visibility, CallTimeout, StuckAfter} \subseteq Nat \ {0}
  /\ {ScanLimit, MaxRows, MaxFaults, MaxCrashes} \subseteq Nat
  /\ IsFiniteSet(Docs)

VARIABLES
  route,     \* Docs -> where the classify request of the document stands
  dispatch,  \* Docs -> the convertDispatch outcome the request will record
  row,       \* Docs -> the row of the classifications table
  msg,       \* Msgs -> the claim as the queue sees it
  worker,    \* Workers -> control state of the poller's current message
  pdf,       \* Docs -> is converted/{documentId}.pdf there, and whole
  batch,     \* rows the running watchdog still has to update
  faults,    \* SDK faults so far
  crashes,   \* crashes so far
  contended  \* history: documents two replicas have worked on at one time

vars == <<route, dispatch, row, msg, worker, pdf, batch, faults, crashes, contended>>

Statuses == {"none", "queued", "converting", "done", "failed"}
Terminal == {"done", "failed"}

\* A row of the table; status "absent" stands for "no such item".
Row == [status   : Statuses \union {"absent"},
        age      : Unset..(StuckAfter + 1),  \* ticks since convertStartedAt
        attempts : 0..MaxReceive,
        error    : {"none", "dwg", "caller", "watchdog"},
        key      : BOOLEAN]                  \* convertS3Bucket/Key are set

NewRow(s) == [status |-> s, age |-> Unset, attempts |-> 0,
              error |-> "none", key |-> FALSE]
NoRow     == NewRow("absent")
Exists(d) == row[d].status # "absent"

Msg   == [state    : {"none", "visible", "inflight", "dlq", "deleted"},
          receives : 0..MaxReceive,
          timer    : 0..Visibility]
\* A claim in state s, received n times, that no visibility timer runs for.
AtRest(s, n) == [state |-> s, receives |-> n, timer |-> 0]
Live(m)   == msg[m].state \in {"visible", "inflight"}

Phases == {"idle", "received", "calling", "markDone", "markFailed", "deleting"}
Worker == [phase : Phases, msg : Msgs \union {NoMsg},
           attempts : 0..MaxReceive, timer : 0..CallTimeout]
Idle   == [phase |-> "idle", msg |-> NoMsg, attempts |-> 0, timer |-> 0]

TypeOK ==
  /\ route    \in [Docs -> {"classify", "sending", "record", "done"}]
  /\ dispatch \in [Docs -> {"skipped", "ok", "failed", "dwg-excluded"}]
  /\ row      \in [Docs -> Row]
  /\ msg      \in [Msgs -> Msg]
  /\ worker   \in [Workers -> Worker]
  /\ pdf      \in [Docs -> BOOLEAN]
  /\ batch    \subseteq Docs
  /\ faults   \in 0..MaxFaults
  /\ crashes  \in 0..MaxCrashes
  /\ contended \subseteq Docs

Init ==
  /\ route    = [d \in Docs |-> IF Kind[d] = "malformed" THEN "done" ELSE "classify"]
  /\ dispatch = [d \in Docs |-> "skipped"]
  /\ row      = [d \in Docs |-> NoRow]
  /\ msg      = [m \in Msgs |-> AtRest("none", 0)]
  /\ worker   = [w \in Workers |-> Idle]
  /\ pdf      = [d \in Docs |-> FALSE]
  /\ batch    = {}
  /\ faults   = 0
  /\ crashes  = 0
  /\ contended = {}

Fault == faults < MaxFaults /\ faults' = faults + 1
Crash == crashes < MaxCrashes /\ crashes' = crashes + 1

(***************************************************************************)
(* The classify route                                                      *)
(***************************************************************************)
Sent(m) == msg' = [msg EXCEPT ![m] = AtRest("visible", 0)]

Dispatched(d, outcome) ==
  /\ dispatch' = [dispatch EXCEPT ![d] = outcome]
  /\ route' = [route EXCEPT ![d] = "record"]

\* Upload or classification failed, the category is not "convert", or no
\* convert queue is configured: the row gets no convertStatus.
SkipDispatch(d) ==
  /\ route[d] = "classify"
  /\ Dispatched(d, "skipped")
  /\ UNCHANGED <<row, msg, worker, pdf, batch, faults, crashes, contended>>

ExcludeDwg(d) ==
  /\ route[d] = "classify" /\ IsDwg(d)
  /\ Dispatched(d, "dwg-excluded")
  /\ UNCHANGED <<row, msg, worker, pdf, batch, faults, crashes, contended>>

\* The copy of the claim that the next SendMessage attempt puts on the queue.
NextCopy(d) == <<d, IF route[d] = "classify" THEN "sent" ELSE "resent">>

Dispatch(d) ==
  /\ Kind[d] = "office" /\ route[d] \in {"classify", "sending"}
  /\ \/ /\ NextCopy(d) \in Msgs
        /\ Sent(NextCopy(d))
        /\ Dispatched(d, "ok")
        /\ UNCHANGED faults
     \/ /\ Fault                       \* refused, or given up on after 5 s:
        /\ \/ UNCHANGED msg            \* the claim may be on the queue or not
           \/ NextCopy(d) \in Msgs /\ Sent(NextCopy(d))
        /\ Dispatched(d, "failed")
  /\ UNCHANGED <<row, worker, pdf, batch, crashes, contended>>

\* The claim is accepted but the answer is lost, and the SDK will send again.
DispatchAnswerLost(d) ==
  /\ Kind[d] = "office" /\ route[d] = "classify" /\ Fault
  /\ <<d, "resent">> \in Msgs /\ Sent(NextCopy(d))
  /\ route' = [route EXCEPT ![d] = "sending"]
  /\ UNCHANGED <<dispatch, row, worker, pdf, batch, crashes, contended>>

\* recordSuccess: the convertStatus a dispatch outcome starts with.
InitialStatus(outcome) ==
  CASE outcome = "ok"      -> "queued"
    [] outcome = "skipped" -> "none"
    [] OTHER               -> "failed"

PutRow(d) == row' = [row EXCEPT ![d] = NewRow(InitialStatus(dispatch[d]))]

\* recordRun: an unconditional Put, whose errors are logged and swallowed.
RecordRun(d) ==
  /\ route[d] = "record"
  /\ \/ PutRow(d) /\ UNCHANGED faults
     \/ Fault /\ UNCHANGED row
  /\ route' = [route EXCEPT ![d] = "done"]
  /\ UNCHANGED <<dispatch, msg, worker, pdf, batch, crashes, contended>>

\* The Put lands, its answer is lost, and the SDK will put the item again.
RecordAnswerLost(d) ==
  /\ route[d] = "record" /\ Fault
  /\ PutRow(d)
  /\ UNCHANGED <<route, dispatch, msg, worker, pdf, batch, crashes, contended>>

RouteCrash(d) ==
  /\ route[d] # "done" /\ Crash
  /\ route' = [route EXCEPT ![d] = "done"]
  /\ UNCHANGED <<dispatch, row, msg, worker, pdf, batch, faults, contended>>

(***************************************************************************)
(* The queue                                                               *)
(***************************************************************************)
\* An operator sends a claim by hand, as the observability runbook does.
ManualSend(m) ==
  /\ m[2] = "manual" /\ msg[m].state = "none" /\ route[Doc(m)] = "done"
  /\ Sent(m)
  /\ UNCHANGED <<route, dispatch, row, worker, pdf, batch, faults, crashes, contended>>

\* Slip: the redrive policy counts one receive too many.
MoveToDlqLate(m) ==
  /\ msg[m].state = "visible" /\ msg[m].receives > MaxReceive
  /\ msg' = [msg EXCEPT ![m] = AtRest("dlq", @.receives)]
  /\ UNCHANGED <<route, dispatch, row, worker, pdf, batch, faults, crashes, contended>>

\* A claim received MaxReceive times goes to the DLQ instead of a receiver.
MoveToDlq(m) ==
  /\ msg[m].state = "visible" /\ msg[m].receives = MaxReceive
  /\ msg' = [msg EXCEPT ![m] = AtRest("dlq", @.receives)]
  /\ UNCHANGED <<route, dispatch, row, worker, pdf, batch, faults, crashes, contended>>

\* At-least-once delivery: the queue shows a claim again before its timeout.
RedeliverEarly(m) ==
  /\ msg[m].state = "inflight" /\ Fault
  /\ msg' = [msg EXCEPT ![m] = AtRest("visible", @.receives)]
  /\ UNCHANGED <<route, dispatch, row, worker, pdf, batch, crashes, contended>>

(***************************************************************************)
(* The convert worker                                                      *)
(***************************************************************************)
Goto(w, phase) == worker' = [worker EXCEPT ![w].phase = phase]
Redrive(w)     == worker' = [worker EXCEPT ![w] = Idle]
Current(w)     == Doc(worker[w].msg)

\* Slip: the worker's updates without their condition.
NoCondition(d) == TRUE

\* ConditionExpression attribute_exists(workspaceId) of the worker's updates.
UpdateAllowed(d) == Exists(d)

\* A conditional UpdateItem turning w's row into r.  An
\* error, which the write may have survived or not, leaves the claim alone.
Update(w, r, next, onMissing) ==
  LET d == Current(w) IN
  \/ /\ UpdateAllowed(d)
     /\ row' = [row EXCEPT ![d] = r]
     /\ Goto(w, next)
     /\ UNCHANGED faults
  \/ ~UpdateAllowed(d) /\ onMissing /\ UNCHANGED <<row, faults>>
  \/ /\ Fault /\ Redrive(w)
     /\ \/ UNCHANGED row
        \/ UpdateAllowed(d) /\ row' = [row EXCEPT ![d] = r]

\* The replicas that are busy with a claim of document d.
Busy(d) == {w \in Workers : worker[w].phase # "idle" /\ Current(w) = d}

Receive(w, m) ==
  /\ worker[w] = Idle
  /\ msg[m].state = "visible" /\ msg[m].receives < MaxReceive
  /\ msg' = [msg EXCEPT ![m] = [state |-> "inflight", receives |-> @.receives + 1,
                                timer |-> Visibility]]
  /\ worker' = [worker EXCEPT ![w] = [phase |-> "received", msg |-> m,
                                      attempts |-> msg[m].receives + 1,
                                      timer |-> 0]]
  /\ contended' = contended \union {d \in {Doc(m)} : Busy(d) # {}}
  /\ UNCHANGED <<route, dispatch, row, pdf, batch, faults, crashes>>

\* An unparseable body is terminal: straight to the delete.
ParseFailed(w) ==
  /\ worker[w].phase = "received" /\ Kind[Current(w)] = "malformed"
  /\ Goto(w, "deleting")
  /\ UNCHANGED <<route, dispatch, row, msg, pdf, batch, faults, crashes, contended>>

FailedRow(r, error) == [r EXCEPT !.status = "failed", !.error = error]

DwgShortCircuit(w) ==
  /\ worker[w].phase = "received" /\ IsDwg(Current(w))
  /\ Update(w, FailedRow(row[Current(w)], "dwg"), "deleting", Redrive(w))
  /\ UNCHANGED <<route, dispatch, msg, pdf, batch, crashes, contended>>

\* Slip: SET convertStartedAt without if_not_exists.
RestartedRow(r, attempts) ==
  [r EXCEPT !.status = "converting", !.attempts = attempts, !.age = 0]

ConvertingRow(r, attempts) ==
  [r EXCEPT !.status = "converting", !.attempts = attempts,
            !.age = IF @ = Unset THEN 0 ELSE @]

\* A missing row is terminal: the claim is deleted.
MarkConverting(w) ==
  /\ worker[w].phase = "received" /\ Kind[Current(w)] \in {"office", "other"}
  /\ Update(w, ConvertingRow(row[Current(w)], worker[w].attempts), "calling",
            Goto(w, "deleting"))
  /\ UNCHANGED <<route, dispatch, msg, pdf, batch, crashes, contended>>

\* Slip: the 200 status line is taken for the end of the conversion.
CallSucceedsUndrained(w) ==
  /\ worker[w].phase = "calling"
  /\ Goto(w, "markDone")
  /\ UNCHANGED <<route, dispatch, row, msg, pdf, batch, faults, crashes, contended>>

\* office-convert answers 200 and its body, written to S3 on the way, drains.
CallSucceeds(w) ==
  /\ worker[w].phase = "calling"
  /\ pdf' = [pdf EXCEPT ![Current(w)] = TRUE]
  /\ Goto(w, "markDone")
  /\ UNCHANGED <<route, dispatch, row, msg, batch, faults, crashes, contended>>

CallerError(w) ==
  /\ worker[w].phase = "calling"
  /\ Goto(w, "markFailed")
  /\ UNCHANGED <<route, dispatch, row, msg, pdf, batch, faults, crashes, contended>>

\* Slip: a transient failure is taken for a final one.
CallFailsFinal(w) ==
  /\ worker[w].phase = "calling"
  /\ Goto(w, "deleting")
  /\ UNCHANGED <<route, dispatch, row, msg, pdf, batch, faults, crashes, contended>>

\* office-convert writes the object while it streams its response, so a call
\* that is given up leaves what was at the key, a truncated PDF or a whole one.
LeavesAnyPdf(w) == \E whole \in BOOLEAN : pdf' = [pdf EXCEPT ![Current(w)] = whole]

\* A 5xx, a broken connection or the local timeout.
CallFails(w) ==
  /\ worker[w].phase = "calling"
  /\ LeavesAnyPdf(w)
  /\ Redrive(w)
  /\ UNCHANGED <<route, dispatch, row, msg, batch, faults, crashes, contended>>

MarkDone(w) ==
  /\ worker[w].phase = "markDone"
  /\ Update(w, [row[Current(w)] EXCEPT !.status = "done", !.key = TRUE],
            "deleting", Redrive(w))
  /\ UNCHANGED <<route, dispatch, msg, pdf, batch, crashes, contended>>

MarkFailed(w) ==
  /\ worker[w].phase = "markFailed"
  /\ Update(w, FailedRow(row[Current(w)], "caller"), "deleting", Redrive(w))
  /\ UNCHANGED <<route, dispatch, msg, pdf, batch, crashes, contended>>

\* deleteSafely: errors are swallowed; the receipt handle of an earlier
\* receive may or may not delete, and none reaches into the DLQ.
Delete(w) ==
  LET m == worker[w].msg IN
  /\ worker[w].phase = "deleting"
  /\ \/ /\ Live(m)
        /\ msg' = [msg EXCEPT ![m] = AtRest("deleted", @.receives)]
        /\ UNCHANGED faults
     \/ /\ ~Live(m) \/ msg[m].receives # worker[w].attempts
        /\ UNCHANGED <<msg, faults>>
     \/ Fault /\ UNCHANGED msg
  /\ Redrive(w)
  /\ UNCHANGED <<route, dispatch, row, pdf, batch, crashes, contended>>

\* Killed outright (OOM, or SIGTERM's grace period runs out during the call).
WorkerCrash(w) ==
  /\ worker[w] # Idle /\ Crash
  /\ \/ worker[w].phase = "calling" /\ LeavesAnyPdf(w)
     \/ worker[w].phase # "calling" /\ UNCHANGED pdf
  /\ Redrive(w)
  /\ UNCHANGED <<route, dispatch, row, msg, batch, faults, contended>>

(***************************************************************************)
(* The watchdog, the table's housekeeping, and time                        *)
(***************************************************************************)
FirstOf(S, n) == {d \in S : Cardinality({e \in S : Pos[e] < Pos[d]}) < n}

\* Slips: the cutoff is forgotten, or compared the wrong way round.
StuckAtAnyAge(d) == row[d].status = "converting"
StuckIfFresh(d)  == row[d].status = "converting" /\ row[d].age < StuckAfter

Stuck(d) == row[d].status = "converting" /\ row[d].age > StuckAfter

\* One Scan page: Limit counts the rows read, before the filter is applied.
ScanPage == FirstOf({d \in Docs : Exists(d)}, ScanLimit)

WatchdogScan ==
  /\ batch = {}
  /\ batch' = FirstOf({d \in ScanPage : Stuck(d)}, MaxRows)
  /\ UNCHANGED <<route, dispatch, row, msg, worker, pdf, faults, crashes, contended>>

\* Slip: the update without its condition.
ReapAnyRow(d) == Exists(d)

\* ConditionExpression convertStatus = :converting of the watchdog's update.
ReapAllowed(d) == row[d].status = "converting"

\* The conditional update of the next row; every error is swallowed.
WatchdogReap(d) ==
  /\ batch # {} /\ d \in FirstOf(batch, 1)
  /\ \/ /\ ReapAllowed(d)
        /\ row' = [row EXCEPT ![d] = FailedRow(@, "watchdog")]
        /\ UNCHANGED faults
     \/ ~ReapAllowed(d) /\ UNCHANGED <<row, faults>>
     \/ Fault /\ UNCHANGED row
  /\ batch' = batch \ {d}
  /\ UNCHANGED <<route, dispatch, msg, worker, pdf, crashes, contended>>

WatchdogCrash ==
  /\ batch # {} /\ Crash
  /\ batch' = {}
  /\ UNCHANGED <<route, dispatch, row, msg, worker, pdf, faults, contended>>

\* "TTL? manual cleanup?": the row disappears under the pipeline.
RemoveRow(d) ==
  /\ Exists(d) /\ route[d] = "done" /\ Fault
  /\ row' = [row EXCEPT ![d] = NoRow]
  /\ UNCHANGED <<route, dispatch, msg, worker, pdf, batch, crashes, contended>>

\* Slip: claims of one receive wait behind the conversion of the first.
PromptButForBatch ==
  /\ batch = {}
  /\ \A d \in Docs : route[d] \in {"classify", "done"}
  /\ \A w \in Workers :
       \/ worker[w].phase \in {"idle", "received"}
       \/ worker[w].phase = "calling" /\ worker[w].timer < CallTimeout

\* Slip: the conversion call has no timeout.
PromptButForCalls ==
  /\ batch = {}
  /\ \A d \in Docs : route[d] \in {"classify", "done"}
  /\ \A w \in Workers : worker[w] = Idle \/ worker[w].phase = "calling"

\* SDK calls and the steps around them take no tick, and a conversion call
\* is aborted before it outlives its timeout.
Prompt ==
  /\ batch = {}
  /\ \A d \in Docs : route[d] \in {"classify", "done"}
  /\ \A w \in Workers :
       \/ worker[w] = Idle
       \/ worker[w].phase = "calling" /\ worker[w].timer < CallTimeout

Tick ==
  /\ Prompt
  /\ row' = [d \in Docs |->
               IF row[d].age \in 0..StuckAfter
               THEN [row[d] EXCEPT !.age = @ + 1] ELSE row[d]]
  /\ msg' = [m \in Msgs |->
               IF msg[m].state # "inflight" THEN msg[m]
               ELSE IF msg[m].timer > 1 THEN [msg[m] EXCEPT !.timer = @ - 1]
               ELSE AtRest("visible", msg[m].receives)]
  /\ worker' = [w \in Workers |->
                  IF worker[w].phase = "calling"
                  THEN [worker[w] EXCEPT !.timer = @ + 1] ELSE worker[w]]
  /\ UNCHANGED <<route, dispatch, pdf, batch, faults, crashes, contended>>

RouteStep(d)  == SkipDispatch(d) \/ ExcludeDwg(d) \/ Dispatch(d) \/ RecordRun(d)
CallEnds(w)   == CallSucceeds(w) \/ CallerError(w) \/ CallFails(w)
WorkerStep(w) == \/ ParseFailed(w) \/ DwgShortCircuit(w) \/ MarkConverting(w)
                 \/ CallEnds(w) \/ MarkDone(w) \/ MarkFailed(w) \/ Delete(w)

Next ==
  \/ \E d \in Docs : \/ RouteStep(d) \/ DispatchAnswerLost(d)
                     \/ RecordAnswerLost(d) \/ RouteCrash(d)
                     \/ WatchdogReap(d) \/ RemoveRow(d)
  \/ \E m \in Msgs : ManualSend(m) \/ MoveToDlq(m) \/ RedeliverEarly(m)
  \/ \E w \in Workers : \/ \E m \in Msgs : Receive(w, m)
                        \/ WorkerStep(w) \/ WorkerCrash(w)
  \/ WatchdogScan \/ WatchdogCrash
  \/ Tick

Spec == Init /\ [][Next]_vars

\* Requests run to their end, replicas poll and work, the CronJob keeps
\* firing, the queue enforces its redrive policy and time passes.  Nobody
\* owes us a fault, a crash, a manual claim or an answer before the timeout.
Fairness ==
  /\ WF_vars(Tick) /\ WF_vars(WatchdogScan)
  /\ \A d \in Docs : WF_vars(RouteStep(d)) /\ WF_vars(WatchdogReap(d))
  /\ \A m \in Msgs : WF_vars(MoveToDlq(m))
  /\ \A w \in Workers : WF_vars(WorkerStep(w)) /\ WF_vars(\E m \in Msgs : Receive(w, m))

FairSpec == Spec /\ Fairness

(***************************************************************************)
(* Safety                                                                  *)
(***************************************************************************)
\* A row that says "done", which makes runs/[documentId] hand out a download
\* link, names a PDF that is there and whole, however often attempts fail
\* half-way, lose their answer or are repeated (handler.ts, steps 2 to 4): an
\* attempt takes "done" back before it writes to the key again.  Attempts that
\* overlap are the exception: they write to one key, and one given up in
\* mid-stream truncates the PDF the other has reported (office-convert-client.ts).
DoneHasPdf ==
  \A d \in Docs : row[d].status = "done" =>
                    row[d].key /\ (pdf[d] \/ d \in contended)

\* Only recordRun creates a row: an update racing the row's removal never
\* brings a phantom back (ddb-update.ts, header comment).
NoPhantomRow ==
  [][\A d \in Docs : ~Exists(d) /\ Exists(d)' => route[d] = "record"]_vars

\* A claim is acknowledged only after its outcome is in the row, or when
\* there is no row or no readable body to work on (handler.ts, poller.ts).
AckAfterOutcome ==
  [][\A w \in Workers :
       worker[w].phase # "deleting" /\ worker'[w].phase = "deleting" =>
         LET d == Current(w)
         IN  row'[d].status \in Terminal \union {"absent"}]_vars

Reaped(d) == row[d].error # "watchdog" /\ row'[d].error = "watchdog"

\* The watchdog fails a row only if it is in "converting", and past the
\* cutoff, at the very moment of the update: between Scan and update nobody
\* can have ended the conversion or restarted its clock (watchdog route).
ReapsOnlyStuckRows == [][\A d \in Docs : Reaped(d) => Stuck(d)]_vars

\* While the first delivery of a document's only claim is at office-convert,
\* the watchdog leaves the row alone: the HTTP timeout, counted from after
\* markConverting, ends before the cutoff, counted from convertStartedAt.
FirstCallNotReaped ==
  [][\A d \in Docs, w \in Workers :
       /\ Reaped(d)
       /\ worker[w].phase = "calling" /\ Current(w) = d
       => worker[w].attempts > 1 \/ \E m \in Msgs :
            Doc(m) = d /\ m # worker[w].msg /\ msg[m].receives > 0]_vars

\* convertStartedAt survives every redelivery: once the request that creates
\* the row has ended, its clock only moves forward (markConverting).
StartedAtKept ==
  [][\A d \in Docs : route[d] = "done" /\ Exists(d)' =>
                        row'[d].age >= row[d].age]_vars

\* Two replicas hold one claim.
Shared(v, w) ==
  /\ v # w /\ worker[v].phase # "idle" /\ worker[w].phase # "idle"
  /\ worker[v].msg = worker[w].msg

\* Unless the queue itself redelivers early, a claim that is being worked on
\* reaches a second replica only when the call of one of them has lasted the
\* whole visibility timeout: nothing else in handling a claim takes long.
OverlapOnlyAtVisibility ==
  faults = 0 => \A v, w \in Workers : Shared(v, w) =>
                  worker[v].timer >= Visibility \/ worker[w].timer >= Visibility

Lifecycle == INSTANCE RunLifecycle WITH
  status <- [d \in Docs |-> row[d].status],
  open   <- [d \in Docs |-> route[d] # "done"]

\* The pipeline keeps the promises RunLifecycle makes to the readers of a
\* row: no status out of nowhere, none taken back to "queued" once the request
\* is over (until then its late Put may), and until two replicas meet at a
\* document, "done" only over a whole PDF, which nobody writes to again before
\* the row has left "done".
RowLifecycle == Lifecycle!Spec

(***************************************************************************)
(* Liveness                                                                *)
(***************************************************************************)
\* Every claim leaves the queue, deleted or to the DLQ, whatever becomes of
\* its conversions and deletes (poller.ts, and the queue's redrive policy).
ClaimsSettle == \A m \in Msgs : Live(m) ~> ~Live(m) /\ msg[m].state # "none"

\* No row shows "converting" for good, nor again and again: from some point
\* on every row is out of it (the purpose of the watchdog route).
ConversionsEnd == \A d \in Docs : <>[](row[d].status # "converting")

(***************************************************************************)
(* What the documentation says and the code does not do                    *)
(***************************************************************************)
\* "The worker then transitions it through converting -> done | failed"
\* (ddb-update.ts): a queued row does not stay queued.
QueuedMovesOn == \A d \in Docs : row[d].status = "queued" ~> row[d].status # "queued"
=============================================================================
