---------------------------- MODULE TaskCallback ----------------------------
(***************************************************************************)
(* The Lambda handler (src/handler/lambda.ts) and the task token it has to *)
(* answer: one Step Functions task, attempted again after failures, each   *)
(* attempt with a token and an invocation of its own.  An invocation whose *)
(* attempt has timed out runs on next to those of later attempts.          *)
(*                                                                         *)
(* What classify returns is left open (Classification and ContentDedup say *)
(* what it is), and so is the state machine's choice between another       *)
(* attempt and giving up, which is not in the repository.  Every call may  *)
(* fail, or be carried out and lose its answer.                            *)
(***************************************************************************)
EXTENDS Integers

CONSTANTS
  MaxAttempts,   \* attempts the state machine makes at the task
  MaxFaults,     \* calls that fail, invocations killed, and task timeouts
  Wired,         \* ZIP_EXTRACTION_QUEUE_URL is set
  TimesOut       \* the state machine's task has a timeout

ASSUME CallbackAssumption ==
  MaxAttempts \in Nat \ {0} /\ MaxFaults \in Nat /\ Wired \in BOOLEAN /\ TimesOut \in BOOLEAN

VARIABLES
  input,     \* what the state machine passes: "valid", "malformed", "tokenless"
  token,     \* per attempt, what became of its token
  pc,        \* per attempt, where its invocation is
  found,     \* per attempt, what classify returned
  claims,    \* per attempt, its messages on the zip-extraction queue
  trouble,   \* per attempt, what has gone wrong outside the code
  faults,    \* how often something has
  gaveUp     \* the state machine makes no more attempts

vars == <<input, token, pc, found, claims, trouble, faults, gaveUp>>

Attempts == 1..MaxAttempts

\* How often the SDK makes a call to the queue before it gives up (lambda.ts:86).
SendAttempts == 3

(***************************************************************************)
(* Results and their codes                                                 *)
(***************************************************************************)
\* What can be the matter with a call to S3: InternalError or ServiceUnavailable is
\* "unavailable", SlowDown "throttling", ECONNRESET "reset", ENOTFOUND "unreachable".
S3Causes == {"missing", "denied", "timeout", "unavailable", "throttling", "reset",
             "unreachable", "other"}
StoreReasons == {"not-found", "conditional-check-failed", "transient", "throttled", "unknown"}

\* The first window of the object is read with getRange.
MapS3Error(cause) ==
  CASE cause = "missing" -> "object-not-found"
    [] cause = "denied"  -> "access-denied"
    [] cause \in {"timeout", "unavailable", "reset", "unreachable"} -> "transient"
    [] cause = "throttling" -> "throttled"
    [] cause = "other"   -> "unknown"

\* All of it is streamed and hashed, and errors are sorted by another table.
ClassifyStreamError(cause) ==
  CASE cause = "missing" -> "object-not-found"
    [] cause = "denied"  -> "access-denied"
    [] cause \in {"timeout", "reset"} -> "transient"
    [] cause \in {"unavailable", "throttling", "unreachable", "other"} -> "unknown"

Result(k, r, c) == [kind |-> k, reason |-> r, cause |-> c]

Failures ==
  {Result("s3", MapS3Error(c), c) : c \in S3Causes}
    \cup {Result("s3", ClassifyStreamError(c), c) : c \in S3Causes}
    \cup {Result("store", r, r) : r \in StoreReasons}
Documents == {Result("ok", r, "none") : r \in {"archive", "document"}}
Thrown    == Result("throws", "none", "none")
Nothing   == Result("none", "none", "none")

\* Slip: throttling taken for a verdict.
TransientOnly(f) == f \in Failures /\ f.reason = "transient"

IsTransientOrThrottled(f) == f \in Failures /\ f.reason \in {"transient", "throttled"}

\* Slip: no code for what is unknown.
MapKnownReasons(f) ==
  CASE f.reason = "object-not-found" -> "S3_OBJECT_NOT_FOUND"
    [] f.reason = "access-denied"    -> "S3_ACCESS_DENIED"
    [] f.reason = "not-found"        -> "WORKSPACE_NOT_FOUND"
    [] f.reason = "conditional-check-failed" -> "DDB_CONDITION_FAILED"
    [] OTHER -> "undefined"

\* The codes of transient failures are there, and are never sent.
MapFailureToErrorCode(f) ==
  CASE f.reason = "object-not-found" -> "S3_OBJECT_NOT_FOUND"
    [] f.reason = "access-denied"    -> "S3_ACCESS_DENIED"
    [] f.reason = "not-found"        -> "WORKSPACE_NOT_FOUND"
    [] f.reason = "conditional-check-failed" -> "DDB_CONDITION_FAILED"
    [] f.reason = "transient" -> IF f.kind = "s3" THEN "S3_TRANSIENT" ELSE "DDB_TRANSIENT"
    [] f.reason = "throttled" -> IF f.kind = "s3" THEN "S3_THROTTLED" ELSE "DDB_THROTTLED"
    [] f.reason = "unknown"   -> "INTERNAL_ERROR"

Codes == {"S3_OBJECT_NOT_FOUND", "S3_ACCESS_DENIED", "WORKSPACE_NOT_FOUND",
          "DDB_CONDITION_FAILED", "S3_TRANSIENT", "DDB_TRANSIENT", "S3_THROTTLED",
          "DDB_THROTTLED", "INTERNAL_ERROR", "INPUT_VALIDATION_FAILED", "UNEXPECTED_ERROR"}

Unused     == [state |-> "unused", code |-> "none"]
Open       == [state |-> "open", code |-> "none"]
Success(f) == [state |-> "success", code |-> f.reason]
Failure(c) == [state |-> "failure", code |-> c]
Broken(c)  == [state |-> "broken", code |-> c]   \* settled by Step Functions itself

(***************************************************************************)
(* The state machine                                                       *)
(***************************************************************************)
Init ==
  /\ input \in {"valid", "malformed", "tokenless"}
  /\ token   = [k \in Attempts |-> Unused]
  /\ pc      = [k \in Attempts |-> "idle"]
  /\ found   = [k \in Attempts |-> Nothing]
  /\ claims  = [k \in Attempts |-> 0]
  /\ trouble = [k \in Attempts |-> {}]
  /\ faults = 0 /\ gaveUp = FALSE

Lost(k) == token[k].state \in {"failure", "broken"}

\* The first attempt, or one after a failed one.
Attempt(k) ==
  /\ token[k] = Unused /\ ~gaveUp
  /\ k > 1 => Lost(k - 1)
  /\ token' = [token EXCEPT ![k] = Open]
  /\ pc' = [pc EXCEPT ![k] = "start"]
  /\ UNCHANGED <<input, found, claims, trouble, faults, gaveUp>>

\* The last attempt has failed and its error is not retried.
GiveUp ==
  /\ ~gaveUp
  /\ \E k \in Attempts : Lost(k) /\ (k < MaxAttempts => token[k + 1] = Unused)
  /\ gaveUp' = TRUE
  /\ UNCHANGED <<input, token, pc, found, claims, trouble, faults>>

Fault(k, what) ==
  /\ faults < MaxFaults
  /\ faults' = faults + 1
  /\ trouble' = [trouble EXCEPT ![k] = @ \cup {what}]

NoFault == UNCHANGED <<faults, trouble>>

\* An invocation that ends with an error ends its attempt.
InvocationFails(k) ==
  /\ pc[k] \in {"thrown", "killed"} /\ token[k] = Open
  /\ token' = [token EXCEPT ![k] = Broken("Lambda.Error")]
  /\ UNCHANGED <<input, pc, found, claims, trouble, faults, gaveUp>>

TimeOut(k) ==
  /\ TimesOut /\ token[k] = Open /\ Fault(k, "timeout")
  /\ token' = [token EXCEPT ![k] = Broken("States.Timeout")]
  /\ UNCHANGED <<input, pc, found, claims, gaveUp>>

(***************************************************************************)
(* The handler                                                             *)
(***************************************************************************)
\* A signal to the task token: taken, refused because the token is settled, or
\* answered by an error, behind which it may have been taken.
Signal(k, result, next, onError) ==
  /\ \/ /\ token[k] = Open /\ NoFault
        /\ token' = [token EXCEPT ![k] = result]
        /\ pc' = [pc EXCEPT ![k] = next]
     \/ /\ token[k] # Open /\ NoFault
        /\ UNCHANGED token
        /\ pc' = [pc EXCEPT ![k] = onError]
     \/ /\ Fault(k, "signal")
        /\ \/ UNCHANGED token
           \/ token[k] = Open /\ token' = [token EXCEPT ![k] = result]
        /\ pc' = [pc EXCEPT ![k] = onError]
  /\ UNCHANGED <<input, found, claims, gaveUp>>

\* Without a token to be found in the event there is nothing to signal.
Validate(k) ==
  /\ pc[k] = "start"
  /\ pc' = [pc EXCEPT ![k] = CASE input = "valid"     -> "classify"
                               [] input = "malformed" -> "reject"
                               [] input = "tokenless" -> "thrown"]
  /\ UNCHANGED <<input, token, found, claims, trouble, faults, gaveUp>>

\* Whatever becomes of this signal, the handler returns.
Reject(k) ==
  pc[k] = "reject" /\ Signal(k, Failure("INPUT_VALIDATION_FAILED"), "returned", "returned")

\* Slip: the category is compared with the format's name, which it never has.
StepAfterFormat(f) ==
  CASE f.kind = "ok" -> IF Wired /\ f.reason = "zip" THEN "dispatch" ELSE "succeed"
    [] IsTransientOrThrottled(f) \/ f = Thrown -> "caught"
    [] OTHER -> "fail"

StepAfter(f) ==
  CASE f.kind = "ok" -> IF Wired /\ f.reason = "archive" THEN "dispatch" ELSE "succeed"
    [] IsTransientOrThrottled(f) \/ f = Thrown -> "caught"
    [] OTHER -> "fail"

Classify(k) ==
  /\ pc[k] = "classify"
  /\ \E f \in Documents \cup Failures \cup {Thrown} :
       /\ found' = [found EXCEPT ![k] = f]
       /\ pc' = [pc EXCEPT ![k] = StepAfter(f)]
  /\ UNCHANGED <<input, token, claims, trouble, faults, gaveUp>>

\* Slip: a failed dispatch is thrown.
DispatchOrThrow(k) ==
  /\ pc[k] = "dispatch"
  /\ \E n \in 0..SendAttempts :
       /\ claims' = [claims EXCEPT ![k] = n]
       /\ IF n = 1 THEN NoFault ELSE Fault(k, "dispatch")
       /\ pc' = [pc EXCEPT ![k] = IF n = 1 THEN "succeed" ELSE "caught"]
  /\ UNCHANGED <<input, token, found, gaveUp>>

\* The claim is sent once, or never, or several times when the SDK repeats it
\* after lost answers.  The handler does not look at the result.
Dispatch(k) ==
  /\ pc[k] = "dispatch"
  /\ \E n \in 0..SendAttempts :
       /\ claims' = [claims EXCEPT ![k] = n]
       /\ (n = 1 /\ NoFault) \/ Fault(k, "dispatch")
  /\ pc' = [pc EXCEPT ![k] = "succeed"]
  /\ UNCHANGED <<input, token, found, gaveUp>>

Succeed(k) == pc[k] = "succeed" /\ Signal(k, Success(found[k]), "returned", "caught")

Fail(k) ==
  pc[k] = "fail" /\ Signal(k, Failure(MapFailureToErrorCode(found[k])), "returned", "caught")

\* Slip: the error is swallowed once the failure is reported.
Swallowed(k) ==
  pc[k] = "caught" /\ Signal(k, Failure("UNEXPECTED_ERROR"), "returned", "returned")

\* The catch block: report, then throw again.
Caught(k) ==
  pc[k] = "caught" /\ Signal(k, Failure("UNEXPECTED_ERROR"), "thrown", "thrown")

\* The function's timeout of 30 s, or the end of its environment.
Killed(k) ==
  /\ pc[k] \notin {"idle", "returned", "thrown", "killed"} /\ Fault(k, "killed")
  /\ pc' = [pc EXCEPT ![k] = "killed"]
  /\ UNCHANGED <<input, token, found, claims, gaveUp>>

Handle(k) ==
  \/ Validate(k) \/ Reject(k) \/ Classify(k) \/ Dispatch(k)
  \/ Succeed(k) \/ Fail(k) \/ Caught(k)

Ended == gaveUp \/ \E k \in Attempts : token[k].state = "success"

Next ==
  \/ \E k \in Attempts : \/ Attempt(k) \/ Handle(k) \/ Killed(k)
                         \/ InvocationFails(k) \/ TimeOut(k)
  \/ GiveUp

Spec == Init /\ [][Next]_vars

\* Invocations run, Step Functions notices those that end with an error, and
\* tries again or gives up.
FairSpec ==
  /\ Spec
  /\ \A k \in Attempts : WF_vars(Handle(k)) /\ WF_vars(InvocationFails(k))
  /\ WF_vars(GiveUp \/ \E k \in Attempts : Attempt(k))

(***************************************************************************)
(* Properties                                                              *)
(***************************************************************************)
TypeOK ==
  /\ input \in {"valid", "malformed", "tokenless"}
  /\ token \in [Attempts -> [state : {"unused", "open", "success", "failure", "broken"},
                             code : Codes \cup {"none", "archive", "document",
                                                "Lambda.Error", "States.Timeout"}]]
  /\ pc \in [Attempts -> {"idle", "start", "reject", "classify", "dispatch", "succeed",
                          "fail", "caught", "returned", "thrown", "killed"}]
  /\ found \in [Attempts -> Documents \cup Failures \cup {Thrown, Nothing}]
  /\ claims \in [Attempts -> 0..SendAttempts]
  /\ trouble \in [Attempts -> SUBSET {"signal", "dispatch", "killed", "timeout"}]
  /\ faults \in 0..MaxFaults /\ gaveUp \in BOOLEAN

\* A task ends with what its own attempt found, whatever older invocations still
\* do: a success with its output, a verdict with the verdict's code (BR-3-RT-2),
\* and UNEXPECTED_ERROR only for what is worth another attempt, or when a
\* signal went wrong - never because of the archive queue (lambda.ts:146-148).
OwnOutcome ==
  \A k \in Attempts :
    /\ token[k].state = "success" =>
         found[k] \in Documents /\ token[k] = Success(found[k])
    /\ token[k].state = "failure" =>
         \/ token[k].code = "INPUT_VALIDATION_FAILED" /\ input = "malformed"
         \/ /\ found[k] \in Failures /\ found[k].reason \notin {"transient", "throttled"}
            /\ token[k].code = MapFailureToErrorCode(found[k])
         \/ /\ token[k].code = "UNEXPECTED_ERROR"
            /\ \/ found[k] = Thrown \/ "signal" \in trouble[k]
               \/ found[k] \in Failures /\ found[k].reason \in {"transient", "throttled"}

\* An archive is reported as classified only after its claim is on the queue, or
\* the queue has answered with an error.
ArchiveHandedOver ==
  \A k \in Attempts :
    Wired /\ token[k].state = "success" /\ token[k].code = "archive"
      => claims[k] > 0 \/ "dispatch" \in trouble[k]

\* There is a second claim for an archive only after trouble of a kind.  Within
\* an attempt it is trouble with the queue, whose lost answers the SDK meets with
\* another send; but that trouble never makes the task try again (lambda.ts:146-148):
\* an attempt that follows a claimed one is due to a lost signal, a kill or a
\* timeout.
ArchiveRepeatedByTrouble ==
  /\ \A j \in Attempts : claims[j] > 1 => "dispatch" \in trouble[j]
  /\ \A j, k \in Attempts :
       claims[j] > 0 /\ j < k /\ token[k] # Unused
         => trouble[j] \cap {"signal", "killed", "timeout"} # {}

\* A handler that returns has settled its token, so that Step Functions waits for no
\* one (the rethrow at lambda.ts:204 is for this): only a malformed input whose
\* report failed is left open.
ReturnedIsSettled ==
  \A k \in Attempts :
    pc[k] = "returned" /\ token[k] = Open => input = "malformed" /\ "signal" \in trouble[k]

\* Every task ends without the help of a timeout, except where the report of a
\* malformed input is lost.
TasksEnd ==
  <>(Ended \/ \E k \in Attempts : input = "malformed" /\ "signal" \in trouble[k])

\* What BR-3-RT-3 says of transient trouble that outlasts the SDK's retries: it
\* surfaces to the state machine's retry, never as a verdict about the document.
TroubleIsRetried ==
  \A k \in Attempts :
    token[k].state = "failure" /\ token[k].code # "UNEXPECTED_ERROR"
      => found[k].cause \notin {"unavailable", "throttling", "unreachable"}
=============================================================================
