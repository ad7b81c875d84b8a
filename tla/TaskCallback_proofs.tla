------------------------ MODULE TaskCallback_proofs ------------------------
(***************************************************************************)
(* Proofs about TaskCallback, for any number of attempts and faults.       *)
(* Good says of one attempt what the place of its invocation means for the *)
(* rest: what classify has returned, what has become of the claim and of   *)
(* the token, and why an invocation is in the catch block.                 *)
(***************************************************************************)
EXTENDS TaskCallback, TLAPS

Retriable(f) == f = Thrown \/ (f \in Failures /\ f.reason \in {"transient", "throttled"})
Verdict(f)   == f \in Failures /\ f.reason \notin {"transient", "throttled"}

\* Trouble between the claim and the end of the callback.
Late(tr) == tr \cap {"signal", "killed", "timeout"} # {}

\* i, tok, p, f, c, tr: the input, and an attempt's token, pc, found, claims, trouble.
Good(i, tok, p, f, c, tr) ==
  /\ tok = Unused <=> p = "idle"
  /\ tok.state = "open" => tok = Open
  /\ tok.state = "unused" => tok = Unused
  /\ p \in {"idle", "start", "reject", "classify"} => f = Nothing
  /\ p \in {"idle", "start", "reject", "classify", "dispatch", "succeed", "fail"}
       => tok.state \notin {"success", "failure"}
  /\ p = "reject" => i = "malformed"
  /\ p = "classify" \/ f # Nothing => i = "valid"
  /\ p = "dispatch" \/ c > 0 => f \in Documents
  /\ c > 1 => "dispatch" \in tr
  /\ p = "succeed" => f \in Documents
  /\ (p = "succeed" \/ tok.state = "success") /\ Wired /\ f.reason = "archive"
       => c > 0 \/ "dispatch" \in tr
  /\ p = "fail" => Verdict(f)
  /\ p = "caught" => tok.state # "open" \/ Retriable(f) \/ "signal" \in tr
  /\ p \in {"caught", "thrown"} /\ f \in Documents => Late(tr)
  /\ p = "killed" => Late(tr)
  /\ p = "returned" /\ tok = Open => i = "malformed" /\ "signal" \in tr
  /\ tok.state = "broken" => Late(tr) \/ (p = "thrown" /\ f \notin Documents)
  /\ tok.state = "success" => f \in Documents /\ tok = Success(f)
  /\ tok.state = "failure" =>
       \/ tok.code = "INPUT_VALIDATION_FAILED" /\ i = "malformed"
       \/ Verdict(f) /\ tok.code = MapFailureToErrorCode(f)
       \/ tok.code = "UNEXPECTED_ERROR" /\ (Retriable(f) \/ "signal" \in tr)

AllGood ==
  \A k \in Attempts : Good(input, token[k], pc[k], found[k], claims[k], trouble[k])

\* Attempts are made one after another, each after the failure of the one before.
InOrder == \A j, k \in Attempts : j < k /\ token[k] # Unused => Lost(j)

IInv == TypeOK /\ AllGood /\ InOrder

\* A settled token stays as it is.
TokenStep(k) == \/ token'[k] = token[k]
                \/ token[k] = Open
                \/ Attempt(k) /\ token[k] = Unused /\ token'[k] = Open

LEMMA ReasonsInRange ==
  \A f \in Failures : /\ f.kind \in {"s3", "store"}
                      /\ f.reason \in {"object-not-found", "access-denied"} \cup StoreReasons
<1> SUFFICES ASSUME NEW f \in Failures
             PROVE  /\ f.kind \in {"s3", "store"}
                    /\ f.reason \in {"object-not-found", "access-denied"} \cup StoreReasons
  OBVIOUS
<1>1. CASE \E r \in StoreReasons : f = Result("store", r, r)
  BY <1>1 DEF Result
<1>2. CASE \E c \in S3Causes : f = Result("s3", MapS3Error(c), c)
  <2>1. PICK c \in S3Causes : f = Result("s3", MapS3Error(c), c)
    BY <1>2
  <2>2. MapS3Error(c) \in {"object-not-found", "access-denied"} \cup StoreReasons
    BY DEF MapS3Error, S3Causes, StoreReasons
  <2>. QED  BY <2>1, <2>2 DEF Result
<1>3. CASE \E c \in S3Causes : f = Result("s3", ClassifyStreamError(c), c)
  <2>1. PICK c \in S3Causes : f = Result("s3", ClassifyStreamError(c), c)
    BY <1>3
  <2>2. ClassifyStreamError(c) \in {"object-not-found", "access-denied"} \cup StoreReasons
    BY DEF ClassifyStreamError, S3Causes, StoreReasons
  <2>. QED  BY <2>1, <2>2 DEF Result
<1>. QED  BY <1>1, <1>2, <1>3 DEF Failures

LEMMA CodesInRange == \A f \in Failures : MapFailureToErrorCode(f) \in Codes
<1> SUFFICES ASSUME NEW f \in Failures PROVE MapFailureToErrorCode(f) \in Codes
  OBVIOUS
<1>1. f.reason \in {"object-not-found", "access-denied"} \cup StoreReasons
  BY ReasonsInRange
<1>. QED  BY <1>1 DEF MapFailureToErrorCode, Codes, StoreReasons

Tokens == [state : {"unused", "open", "success", "failure", "broken"},
           code : Codes \cup {"none", "archive", "document", "Lambda.Error", "States.Timeout"}]
Places == {"idle", "start", "reject", "classify", "dispatch", "succeed",
           "fail", "caught", "returned", "thrown", "killed"}

LEMMA TokensInRange ==
  /\ Open \in Tokens /\ Unused \in Tokens
  /\ \A f \in Documents : Success(f) \in Tokens
  /\ \A c \in Codes : Failure(c) \in Tokens
  /\ \A c \in {"Lambda.Error", "States.Timeout"} : Broken(c) \in Tokens
  BY DEF Open, Unused, Success, Failure, Broken, Tokens, Documents, Result

Troubles == {"signal", "dispatch", "killed", "timeout"}

LEMMA FaultTypes ==
  ASSUME TypeOK, NEW k \in Attempts, NEW what \in Troubles, Fault(k, what)
  PROVE  trouble' \in [Attempts -> SUBSET Troubles] /\ faults' \in 0..MaxFaults
<1>1. trouble \in [Attempts -> SUBSET Troubles] /\ faults \in 0..MaxFaults
  BY DEF TypeOK, Troubles
<1>2. trouble[k] \cup {what} \in SUBSET Troubles
  BY <1>1
<1>3. trouble' = [trouble EXCEPT ![k] = trouble[k] \cup {what}]
  BY DEF Fault
<1>4. faults' \in 0..MaxFaults
  BY <1>1, CallbackAssumption DEF Fault
<1>. QED  BY <1>1, <1>2, <1>3, <1>4

LEMMA NoFaultTypes ==
  ASSUME TypeOK, NoFault
  PROVE  trouble' \in [Attempts -> SUBSET Troubles] /\ faults' \in 0..MaxFaults
  BY DEF TypeOK, NoFault, Troubles

\* A signal keeps the types.
LEMMA SignalTypes ==
  ASSUME TypeOK, NEW k \in Attempts, NEW result \in Tokens, NEW next \in Places,
         NEW onError \in Places, Signal(k, result, next, onError)
  PROVE  TypeOK'
<1>0. token \in [Attempts -> Tokens] /\ pc \in [Attempts -> Places]
  BY DEF TypeOK, Tokens, Places
<1>1. token' = token \/ token' = [token EXCEPT ![k] = result]
  BY DEF Signal
<1>2. pc' = [pc EXCEPT ![k] = next] \/ pc' = [pc EXCEPT ![k] = onError]
  BY DEF Signal
<1>3. token' \in [Attempts -> Tokens]
  BY <1>0, <1>1
<1>4. pc' \in [Attempts -> Places]
  BY <1>0, <1>2
<1>5. trouble' \in [Attempts -> SUBSET Troubles] /\ faults' \in 0..MaxFaults
  <2>1. NoFault \/ Fault(k, "signal")
    BY DEF Signal
  <2>2. "signal" \in Troubles
    BY DEF Troubles
  <2>. QED  BY <2>1, <2>2, NoFaultTypes, FaultTypes
<1>. QED  BY <1>3, <1>4, <1>5 DEF Signal, TypeOK, Tokens, Places, Troubles

LEMMA StepTypes == TypeOK /\ AllGood /\ [Next]_vars => TypeOK'
<1> SUFFICES ASSUME TypeOK, AllGood, [Next]_vars PROVE TypeOK'
  OBVIOUS
<1>0. /\ token \in [Attempts -> Tokens] /\ pc \in [Attempts -> Places]
      /\ trouble \in [Attempts -> SUBSET Troubles]
      /\ \A k \in Attempts : found[k] \in Documents \cup Failures \cup {Thrown, Nothing}
  BY DEF TypeOK, Tokens, Places, Troubles
<1>1. ASSUME NEW k \in Attempts, Attempt(k) PROVE TypeOK'
  <2>1. token' \in [Attempts -> Tokens]
    BY <1>0, <1>1, TokensInRange DEF Attempt
  <2>2. pc' \in [Attempts -> Places]
    BY <1>0, <1>1 DEF Attempt, Places
  <2>. QED  BY <1>1, <2>1, <2>2 DEF Attempt, TypeOK, Tokens, Places
<1>2. ASSUME NEW k \in Attempts, Handle(k) PROVE TypeOK'
  <2>1. CASE Validate(k)
    <3>1. pc' \in [Attempts -> Places]
      BY <1>0, <2>1 DEF Validate, Places, TypeOK
    <3>. QED  BY <2>1, <3>1 DEF Validate, TypeOK, Places
  <2>2. CASE Reject(k)
    <3>1. Failure("INPUT_VALIDATION_FAILED") \in Tokens /\ "returned" \in Places
      BY TokensInRange DEF Codes, Places
    <3>. QED  BY <2>2, <3>1, SignalTypes DEF Reject
  <2>3. CASE Classify(k)
    <3>1. PICK f \in Documents \cup Failures \cup {Thrown} :
            found' = [found EXCEPT ![k] = f] /\ pc' = [pc EXCEPT ![k] = StepAfter(f)]
      BY <2>3 DEF Classify
    <3>2. StepAfter(f) \in Places
      BY DEF StepAfter, Places
    <3>3. pc' \in [Attempts -> Places]
      BY <1>0, <3>1, <3>2
    <3>4. found' \in [Attempts -> Documents \cup Failures \cup {Thrown, Nothing}]
      BY <3>1 DEF TypeOK
    <3>. QED  BY <2>3, <3>3, <3>4 DEF Classify, TypeOK, Places
  <2>4. CASE Dispatch(k)
    <3>1. pc' \in [Attempts -> Places]
      BY <1>0, <2>4 DEF Dispatch, Places
    <3>2. claims' \in [Attempts -> 0..SendAttempts]
      BY <2>4 DEF Dispatch, TypeOK
    <3>3. trouble' \in [Attempts -> SUBSET Troubles] /\ faults' \in 0..MaxFaults
      <4>1. NoFault \/ Fault(k, "dispatch")
        BY <2>4 DEF Dispatch
      <4>2. "dispatch" \in Troubles
        BY DEF Troubles
      <4>. QED  BY <4>1, <4>2, NoFaultTypes, FaultTypes
    <3>. QED  BY <2>4, <3>1, <3>2, <3>3 DEF Dispatch, TypeOK, Places, Troubles
  <2>5. CASE Succeed(k)
    <3>1. found[k] \in Documents
      BY <2>5 DEF Succeed, AllGood, Good
    <3>2. Success(found[k]) \in Tokens
      BY <3>1, TokensInRange
    <3>. QED  BY <2>5, <3>2, SignalTypes DEF Succeed, Places
  <2>6. CASE Fail(k)
    <3>1. found[k] \in Failures
      BY <2>6 DEF Fail, AllGood, Good, Verdict
    <3>2. Failure(MapFailureToErrorCode(found[k])) \in Tokens
      BY <3>1, CodesInRange, TokensInRange
    <3>. QED  BY <2>6, <3>2, SignalTypes DEF Fail, Places
  <2>7. CASE Caught(k)
    <3>1. Failure("UNEXPECTED_ERROR") \in Tokens /\ "thrown" \in Places
      BY TokensInRange DEF Codes, Places
    <3>. QED  BY <2>7, <3>1, SignalTypes DEF Caught
  <2>. QED  BY <1>2, <2>1, <2>2, <2>3, <2>4, <2>5, <2>6, <2>7 DEF Handle
<1>3. ASSUME NEW k \in Attempts, Killed(k) PROVE TypeOK'
  <2>1. pc' \in [Attempts -> Places]
    BY <1>0, <1>3 DEF Killed, Places
  <2>2. trouble' \in [Attempts -> SUBSET Troubles] /\ faults' \in 0..MaxFaults
    BY <1>3, FaultTypes DEF Killed, Troubles
  <2>. QED  BY <1>3, <2>1, <2>2 DEF Killed, TypeOK, Places, Troubles
<1>4. ASSUME NEW k \in Attempts, InvocationFails(k) PROVE TypeOK'
  <2>1. token' \in [Attempts -> Tokens]
    BY <1>0, <1>4, TokensInRange DEF InvocationFails
  <2>. QED  BY <1>4, <2>1 DEF InvocationFails, TypeOK, Tokens
<1>5. ASSUME NEW k \in Attempts, TimeOut(k) PROVE TypeOK'
  <2>1. token' \in [Attempts -> Tokens]
    BY <1>0, <1>5, TokensInRange DEF TimeOut
  <2>2. trouble' \in [Attempts -> SUBSET Troubles] /\ faults' \in 0..MaxFaults
    BY <1>5, FaultTypes DEF TimeOut, Troubles
  <2>. QED  BY <1>5, <2>1, <2>2 DEF TimeOut, TypeOK, Tokens, Troubles
<1>6. CASE GiveUp
  BY <1>6 DEF GiveUp, TypeOK
<1>7. CASE UNCHANGED vars
  BY <1>7 DEF vars, TypeOK
<1>. QED  BY <1>1, <1>2, <1>3, <1>4, <1>5, <1>6, <1>7 DEF Next

\* A step of one attempt leaves the others alone.
LEMMA Local ==
  ASSUME AllGood, NEW k \in Attempts, input' = input,
         \A j \in Attempts : j # k =>
           /\ token'[j] = token[j] /\ pc'[j] = pc[j] /\ found'[j] = found[j]
           /\ claims'[j] = claims[j] /\ trouble'[j] = trouble[j],
         Good(input, token'[k], pc'[k], found'[k], claims'[k], trouble'[k])
  PROVE  AllGood'
<1> SUFFICES ASSUME NEW j \in Attempts
             PROVE  Good(input', token'[j], pc'[j], found'[j], claims'[j], trouble'[j])
  BY DEF AllGood
<1>1. CASE j = k
  BY <1>1
<1>2. CASE j # k
  BY <1>2 DEF AllGood
<1>. QED  BY <1>1, <1>2

\* What a signal may do to its attempt.
LEMMA SignalEnds ==
  ASSUME TypeOK, NEW k \in Attempts, NEW result, NEW next, NEW onError,
         Signal(k, result, next, onError)
  PROVE  /\ UNCHANGED <<input, found, claims>>
         /\ \A j \in Attempts : j # k =>
              token'[j] = token[j] /\ pc'[j] = pc[j] /\ trouble'[j] = trouble[j]
         /\ \/ /\ token[k] = Open /\ token'[k] = result
               /\ pc'[k] = next /\ trouble'[k] = trouble[k]
            \/ /\ token[k] # Open /\ token'[k] = token[k]
               /\ pc'[k] = onError /\ trouble'[k] = trouble[k]
            \/ /\ trouble'[k] = trouble[k] \cup {"signal"} /\ pc'[k] = onError
               /\ token'[k] = token[k] \/ (token[k] = Open /\ token'[k] = result)
<1>1. CASE /\ token[k] = Open /\ NoFault
           /\ token' = [token EXCEPT ![k] = result]
           /\ pc' = [pc EXCEPT ![k] = next]
  BY <1>1 DEF Signal, TypeOK, NoFault
<1>2. CASE /\ token[k] # Open /\ NoFault /\ UNCHANGED token
           /\ pc' = [pc EXCEPT ![k] = onError]
  BY <1>2 DEF Signal, TypeOK, NoFault
<1>3. CASE /\ Fault(k, "signal")
           /\ UNCHANGED token \/ (token[k] = Open /\ token' = [token EXCEPT ![k] = result])
           /\ pc' = [pc EXCEPT ![k] = onError]
  BY <1>3 DEF Signal, TypeOK, Fault
<1>. QED  BY <1>1, <1>2, <1>3 DEF Signal

LEMMA SignalGood ==
  ASSUME TypeOK, AllGood, NEW k \in Attempts, NEW result, NEW next, NEW onError,
         Signal(k, result, next, onError),
         token[k] = Open => Good(input, result, next, found[k], claims[k], trouble[k]),
         token[k] # Open => Good(input, token[k], onError, found[k], claims[k], trouble[k]),
         Good(input, token[k], onError, found[k], claims[k], trouble[k] \cup {"signal"}),
         token[k] = Open =>
           Good(input, result, onError, found[k], claims[k], trouble[k] \cup {"signal"})
  PROVE  AllGood'
<1>1. /\ input' = input /\ found' = found /\ claims' = claims
      /\ \A j \in Attempts : j # k =>
           token'[j] = token[j] /\ pc'[j] = pc[j] /\ trouble'[j] = trouble[j]
  BY SignalEnds
<1>2. Good(input, token'[k], pc'[k], found'[k], claims'[k], trouble'[k])
  <2>1. \/ /\ token[k] = Open /\ token'[k] = result
           /\ pc'[k] = next /\ trouble'[k] = trouble[k]
        \/ /\ token[k] # Open /\ token'[k] = token[k]
           /\ pc'[k] = onError /\ trouble'[k] = trouble[k]
        \/ /\ trouble'[k] = trouble[k] \cup {"signal"} /\ pc'[k] = onError
           /\ token'[k] = token[k] \/ (token[k] = Open /\ token'[k] = result)
    BY SignalEnds
  <2>. QED  BY <1>1, <2>1
<1>. QED  BY <1>1, <1>2, Local

LEMMA Kinds ==
  /\ \A f \in Documents : f.kind = "ok"
  /\ \A f \in Failures : f.kind \in {"s3", "store"}
  /\ Thrown.kind = "throws" /\ Nothing.kind = "none"
<1>1. \A f \in Documents : f.kind = "ok"
  BY DEF Documents, Result
<1>2. Thrown.kind = "throws" /\ Nothing.kind = "none"
  BY DEF Thrown, Nothing, Result
<1>. QED  BY <1>1, <1>2, ReasonsInRange

LEMMA Distinct ==
  /\ Nothing \notin Documents /\ Nothing # Thrown /\ Nothing \notin Failures
  /\ Thrown \notin Documents /\ Thrown \notin Failures /\ Documents \cap Failures = {}
  /\ Open # Unused
  /\ \A f : Success(f) # Unused /\ Failure(f) # Unused /\ Broken(f) # Unused
<1>1. /\ Nothing \notin Documents /\ Nothing # Thrown /\ Nothing \notin Failures
      /\ Thrown \notin Documents /\ Thrown \notin Failures /\ Documents \cap Failures = {}
  BY Kinds
<1>. QED  BY <1>1 DEF Open, Unused, Success, Failure, Broken

LEMMA StepGood == TypeOK /\ AllGood /\ [Next]_vars => AllGood'
<1> SUFFICES ASSUME TypeOK, AllGood, [Next]_vars PROVE AllGood'
  OBVIOUS
<1>0. \A k \in Attempts : Good(input, token[k], pc[k], found[k], claims[k], trouble[k])
  BY DEF AllGood
<1>1. ASSUME NEW k \in Attempts, Attempt(k) PROVE AllGood'
  <2>1. /\ token'[k] = Open /\ pc'[k] = "start" /\ found'[k] = found[k]
        /\ claims'[k] = claims[k] /\ trouble'[k] = trouble[k] /\ token[k] = Unused
    BY <1>1 DEF Attempt, TypeOK
  <2>2. Good(input, Open, "start", found[k], claims[k], trouble[k])
    BY <1>0, <2>1, Distinct DEF Good, Open
  <2>. QED  BY <1>1, <2>1, <2>2, Local DEF Attempt, TypeOK
<1>2. ASSUME NEW k \in Attempts, Validate(k) PROVE AllGood'
  <2>1. /\ pc'[k] = CASE input = "valid"     -> "classify"
                      [] input = "malformed" -> "reject"
                      [] input = "tokenless" -> "thrown"
        /\ token' = token /\ found' = found /\ claims' = claims /\ trouble' = trouble
        /\ pc[k] = "start"
    BY <1>2 DEF Validate, TypeOK
  <2>2. Good(input, token[k], pc'[k], found[k], claims[k], trouble[k])
    <3>1. Good(input, token[k], "start", found[k], claims[k], trouble[k])
      BY <1>0, <2>1
    <3>2. \/ input = "valid" /\ pc'[k] = "classify"
          \/ input = "malformed" /\ pc'[k] = "reject"
          \/ input = "tokenless" /\ pc'[k] = "thrown"
      BY <2>1 DEF TypeOK
    <3>. QED  BY <3>1, <3>2, Distinct DEF Good
  <2>. QED  BY <1>2, <2>1, <2>2, Local DEF Validate, TypeOK
<1>3. ASSUME NEW k \in Attempts, Reject(k) PROVE AllGood'
  <2> DEFINE bad == Failure("INPUT_VALIDATION_FAILED")
  <2>1. Good(input, token[k], "reject", found[k], claims[k], trouble[k])
    BY <1>0, <1>3 DEF Reject
  <2>2. token[k] # Open => Good(input, token[k], "returned", found[k], claims[k], trouble[k])
    BY <2>1, Distinct DEF Good
  <2>3. Good(input, bad, "returned", found[k], claims[k], trouble[k])
    BY <2>1, Distinct DEF Good, Failure, Open
  <2>4. Good(input, token[k], "returned", found[k], claims[k], trouble[k] \cup {"signal"})
    BY <2>1, Distinct DEF Good, Late
  <2>5. Good(input, bad, "returned", found[k], claims[k], trouble[k] \cup {"signal"})
    BY <2>3 DEF Good, Late
  <2>. QED  BY <1>3, <2>2, <2>3, <2>4, <2>5, SignalGood DEF Reject
<1>4. ASSUME NEW k \in Attempts, Classify(k) PROVE AllGood'
  <2>1. PICK f \in Documents \cup Failures \cup {Thrown} :
          found' = [found EXCEPT ![k] = f] /\ pc' = [pc EXCEPT ![k] = StepAfter(f)]
    BY <1>4 DEF Classify
  <2>2. found'[k] = f /\ pc'[k] = StepAfter(f)
    BY <2>1 DEF TypeOK
  <2>3. Good(input, token[k], "classify", found[k], claims[k], trouble[k])
    BY <1>0, <1>4 DEF Classify
  <2>4. claims[k] = 0
    BY <2>3, Distinct DEF Good, TypeOK
  <2>5. \/ /\ f \in Documents
           /\ StepAfter(f) = IF Wired /\ f.reason = "archive" THEN "dispatch" ELSE "succeed"
        \/ Retriable(f) /\ StepAfter(f) = "caught" /\ f \notin Documents
        \/ Verdict(f) /\ StepAfter(f) = "fail" /\ f \notin Documents
    <3>1. CASE f \in Documents
      <4>1. f.kind = "ok" /\ ~IsTransientOrThrottled(f) /\ f # Thrown
        BY <3>1, Kinds, Distinct DEF IsTransientOrThrottled
      <4>2. StepAfter(f) = IF Wired /\ f.reason = "archive" THEN "dispatch" ELSE "succeed"
        BY <4>1 DEF StepAfter
      <4>. QED  BY <3>1, <4>2
    <3>2. CASE f \in Failures
      <4>1. f.kind # "ok" /\ f # Thrown /\ f \notin Documents
        BY <3>2, Kinds, Distinct
      <4>2. StepAfter(f) = IF IsTransientOrThrottled(f) THEN "caught" ELSE "fail"
        BY <4>1 DEF StepAfter
      <4>. QED
        BY <3>2, <4>1, <4>2 DEF Retriable, Verdict, IsTransientOrThrottled
    <3>3. CASE f = Thrown
      BY <3>3, Kinds, Distinct DEF StepAfter, Retriable, IsTransientOrThrottled
    <3>. QED  BY <3>1, <3>2, <3>3
  <2>6. f # Nothing
    BY Distinct
  <2>7. Good(input, token[k], StepAfter(f), f, claims[k], trouble[k])
    BY <2>3, <2>4, <2>5, <2>6 DEF Good
  <2>. QED  BY <1>4, <2>1, <2>2, <2>7, Local DEF Classify, TypeOK
<1>5. ASSUME NEW k \in Attempts, Dispatch(k) PROVE AllGood'
  <2>1. Good(input, token[k], "dispatch", found[k], claims[k], trouble[k])
    BY <1>0, <1>5 DEF Dispatch
  <2>2. PICK n \in 0..SendAttempts :
          /\ claims' = [claims EXCEPT ![k] = n]
          /\ (n = 1 /\ NoFault) \/ Fault(k, "dispatch")
    BY <1>5 DEF Dispatch
  <2>3. /\ pc'[k] = "succeed" /\ claims'[k] = n /\ token' = token /\ found' = found
        /\ \A j \in Attempts : j # k => pc'[j] = pc[j] /\ claims'[j] = claims[j]
    BY <1>5, <2>2 DEF Dispatch, TypeOK
  <2>4. \A j \in Attempts : j # k => trouble'[j] = trouble[j]
    BY <2>2 DEF TypeOK, Fault, NoFault
  <2>5. \/ n = 1 /\ trouble'[k] = trouble[k]
        \/ trouble'[k] = trouble[k] \cup {"dispatch"}
    BY <2>2 DEF TypeOK, Fault, NoFault
  <2>6. Good(input, token[k], "succeed", found[k], n, trouble'[k])
    BY <2>1, <2>5 DEF Good, Late
  <2>. QED  BY <1>5, <2>3, <2>4, <2>6, Local DEF Dispatch
<1>6. ASSUME NEW k \in Attempts, Succeed(k) PROVE AllGood'
  <2> DEFINE won == Success(found[k])
             with == trouble[k] \cup {"signal"}
  <2>1. Good(input, token[k], "succeed", found[k], claims[k], trouble[k])
    BY <1>0, <1>6 DEF Succeed
  <2>2. found[k] \in Documents /\ ~Retriable(found[k]) /\ ~Verdict(found[k])
    BY <2>1, Distinct DEF Good, Retriable, Verdict
  <2>3. token[k] = Open => Good(input, won, "returned", found[k], claims[k], trouble[k])
    BY <2>1, <2>2, Distinct DEF Good, Success
  <2>4. token[k] # Open => Good(input, token[k], "caught", found[k], claims[k], trouble[k])
    <3>1. token[k] # Open => token[k].state # "open" /\ token[k].state # "unused"
      BY <2>1 DEF Good, TypeOK, Unused, Open
    <3>2. token[k] # Open => token[k].state = "broken"
      BY <2>1, <3>1 DEF Good, TypeOK
    <3>3. token[k] # Open => Late(trouble[k])
      BY <2>1, <3>2 DEF Good
    <3>. QED  BY <2>1, <2>2, <3>2, <3>3 DEF Good
  <2>5. Good(input, token[k], "caught", found[k], claims[k], with)
    BY <2>1, <2>2 DEF Good, Late
  <2>6. token[k] = Open => Good(input, won, "caught", found[k], claims[k], with)
    BY <2>1, <2>2, Distinct DEF Good, Success, Late
  <2>. QED  BY <1>6, <2>3, <2>4, <2>5, <2>6, SignalGood DEF Succeed
<1>7. ASSUME NEW k \in Attempts, Fail(k) PROVE AllGood'
  <2> DEFINE bad == Failure(MapFailureToErrorCode(found[k]))
             with == trouble[k] \cup {"signal"}
  <2>1. Good(input, token[k], "fail", found[k], claims[k], trouble[k])
    BY <1>0, <1>7 DEF Fail
  <2>2. Verdict(found[k]) /\ found[k] \notin Documents
    BY <2>1, Distinct DEF Good, Verdict
  <2>3. token[k] = Open => Good(input, bad, "returned", found[k], claims[k], trouble[k])
    BY <2>1, <2>2, Distinct DEF Good, Failure
  <2>4. token[k] # Open => Good(input, token[k], "caught", found[k], claims[k], trouble[k])
    BY <2>1, <2>2 DEF Good
  <2>5. Good(input, token[k], "caught", found[k], claims[k], with)
    BY <2>1, <2>2 DEF Good, Late
  <2>6. token[k] = Open => Good(input, bad, "caught", found[k], claims[k], with)
    BY <2>1, <2>2, Distinct DEF Good, Failure, Late
  <2>. QED  BY <1>7, <2>3, <2>4, <2>5, <2>6, SignalGood DEF Fail
<1>8. ASSUME NEW k \in Attempts, Caught(k) PROVE AllGood'
  <2> DEFINE bad == Failure("UNEXPECTED_ERROR")
             with == trouble[k] \cup {"signal"}
  <2>1. Good(input, token[k], "caught", found[k], claims[k], trouble[k])
    BY <1>0, <1>8 DEF Caught
  <2>2. token[k] = Open => Retriable(found[k]) \/ "signal" \in trouble[k]
    BY <2>1 DEF Good, Open
  <2>3. token[k] = Open => Good(input, bad, "thrown", found[k], claims[k], trouble[k])
    BY <2>1, <2>2, Distinct DEF Good, Failure
  <2>4. token[k] # Open => Good(input, token[k], "thrown", found[k], claims[k], trouble[k])
    BY <2>1 DEF Good
  <2>5. Good(input, token[k], "thrown", found[k], claims[k], with)
    BY <2>1 DEF Good, Late
  <2>6. token[k] = Open => Good(input, bad, "thrown", found[k], claims[k], with)
    BY <2>1, Distinct DEF Good, Failure, Late
  <2>. QED  BY <1>8, <2>3, <2>4, <2>5, <2>6, SignalGood DEF Caught
<1>9. ASSUME NEW k \in Attempts, Killed(k) PROVE AllGood'
  <2>1. /\ pc'[k] = "killed" /\ trouble'[k] = trouble[k] \cup {"killed"} /\ pc[k] # "idle"
        /\ token' = token /\ found' = found /\ claims' = claims
        /\ \A j \in Attempts : j # k => pc'[j] = pc[j] /\ trouble'[j] = trouble[j]
    BY <1>9 DEF Killed, Fault, TypeOK
  <2>2. Good(input, token[k], "killed", found[k], claims[k], trouble'[k])
    BY <1>0, <2>1 DEF Good, Late
  <2>. QED  BY <1>9, <2>1, <2>2, Local DEF Killed
<1>10. ASSUME NEW k \in Attempts, InvocationFails(k) PROVE AllGood'
  <2>1. /\ token[k] = Open /\ token'[k] = Broken("Lambda.Error")
        /\ pc' = pc /\ found' = found /\ claims' = claims /\ trouble' = trouble
        /\ \A j \in Attempts : j # k => token'[j] = token[j]
        /\ pc[k] \in {"thrown", "killed"}
    BY <1>10 DEF InvocationFails, TypeOK
  <2>2. Good(input, Broken("Lambda.Error"), pc[k], found[k], claims[k], trouble[k])
    BY <1>0, <2>1, Distinct DEF Good, Broken
  <2>. QED  BY <1>10, <2>1, <2>2, Local DEF InvocationFails
<1>11. ASSUME NEW k \in Attempts, TimeOut(k) PROVE AllGood'
  <2>1. /\ token[k] = Open /\ token'[k] = Broken("States.Timeout")
        /\ trouble'[k] = trouble[k] \cup {"timeout"}
        /\ pc' = pc /\ found' = found /\ claims' = claims
        /\ \A j \in Attempts : j # k => token'[j] = token[j] /\ trouble'[j] = trouble[j]
    BY <1>11 DEF TimeOut, Fault, TypeOK
  <2>2. Good(input, Broken("States.Timeout"), pc[k], found[k], claims[k], trouble'[k])
    BY <1>0, <2>1, Distinct DEF Good, Broken, Late
  <2>. QED  BY <1>11, <2>1, <2>2, Local DEF TimeOut
<1>12. CASE GiveUp \/ UNCHANGED vars
  BY <1>12 DEF GiveUp, vars, AllGood
<1>. QED  BY <1>1, <1>2, <1>3, <1>4, <1>5, <1>6, <1>7, <1>8, <1>9, <1>10, <1>11, <1>12
             DEF Next, Handle

LEMMA TokenSteps ==
  ASSUME TypeOK, [Next]_vars, NEW j \in Attempts
  PROVE  TokenStep(j)
<1>1. ASSUME NEW k \in Attempts, Attempt(k) PROVE TokenStep(j)
  BY <1>1 DEF Attempt, TypeOK, TokenStep
<1>2. ASSUME NEW k \in Attempts, NEW r, NEW n, NEW e, Signal(k, r, n, e) PROVE TokenStep(j)
  <2>1. token' = token \/ (token[k] = Open /\ token' = [token EXCEPT ![k] = r])
    BY <1>2 DEF Signal
  <2>. QED  BY <2>1 DEF TypeOK, TokenStep
<1>3. ASSUME NEW k \in Attempts, Handle(k) PROVE TokenStep(j)
  <2>1. CASE Validate(k) \/ Classify(k) \/ Dispatch(k)
    BY <2>1 DEF Validate, Classify, Dispatch, TokenStep
  <2>2. CASE Reject(k) \/ Succeed(k) \/ Fail(k) \/ Caught(k)
    BY <1>2, <2>2 DEF Reject, Succeed, Fail, Caught
  <2>. QED  BY <1>3, <2>1, <2>2 DEF Handle
<1>4. ASSUME NEW k \in Attempts, InvocationFails(k) \/ TimeOut(k) PROVE TokenStep(j)
  BY <1>4 DEF InvocationFails, TimeOut, TypeOK, TokenStep
<1>5. ASSUME NEW k \in Attempts, Killed(k) PROVE TokenStep(j)
  BY <1>5 DEF Killed, TokenStep
<1>6. CASE GiveUp \/ UNCHANGED vars
  BY <1>6 DEF GiveUp, vars, TokenStep
<1>. QED  BY <1>1, <1>3, <1>4, <1>5, <1>6 DEF Next

LEMMA StepInOrder == IInv /\ [Next]_vars => InOrder'
<1> SUFFICES ASSUME IInv, [Next]_vars, NEW j \in Attempts, NEW k \in Attempts,
                    j < k, token'[k] # Unused
             PROVE  Lost(j)'
  BY DEF InOrder, Unused
<1>1. Lost(j)
  <2>1. CASE token[k] # Unused
    BY <2>1 DEF IInv, InOrder
  <2>2. CASE token[k] = Unused
    <3>1. Attempt(k)
      BY <2>2, TokenSteps, Distinct DEF IInv, TokenStep
    <3>2. k - 1 \in Attempts /\ Lost(k - 1)
      BY <3>1, CallbackAssumption DEF Attempt, Attempts
    <3>3. token[k - 1] # Unused
      BY <3>2 DEF Lost, Unused
    <3>4. j = k - 1 \/ j < k - 1
      BY CallbackAssumption DEF Attempts
    <3>. QED  BY <3>2, <3>3, <3>4 DEF IInv, InOrder
  <2>. QED  BY <2>1, <2>2
<1>2. token'[j] = token[j]
  BY <1>1, TokenSteps DEF IInv, TokenStep, Lost, Open, Unused
<1>. QED  BY <1>1, <1>2 DEF Lost

LEMMA IInvAlways == Spec => []IInv
<1>1. Init => IInv
  <2> SUFFICES ASSUME Init PROVE IInv
    OBVIOUS
  <2>1. TypeOK
    <3>1. token \in [Attempts -> Tokens]
      BY TokensInRange DEF Init
    <3>2. found \in [Attempts -> Documents \cup Failures \cup {Thrown, Nothing}]
      BY DEF Init
    <3>3. pc \in [Attempts -> Places] /\ claims \in [Attempts -> 0..SendAttempts]
      BY DEF Init, Places, SendAttempts
    <3>4. trouble \in [Attempts -> SUBSET Troubles]
      BY DEF Init
    <3>5. faults \in 0..MaxFaults
      <4>1. faults = 0 /\ MaxFaults \in Nat
        BY CallbackAssumption DEF Init
      <4>. QED  BY <4>1
    <3>6. gaveUp \in BOOLEAN /\ input \in {"valid", "malformed", "tokenless"}
      BY DEF Init
    <3>. QED
      BY <3>1, <3>2, <3>3, <3>4, <3>5, <3>6 DEF TypeOK, Tokens, Places, Troubles
  <2>2. AllGood
    BY Distinct DEF Init, AllGood, Good, Unused
  <2>3. InOrder
    BY DEF Init, InOrder
  <2>. QED  BY <2>1, <2>2, <2>3 DEF IInv
<1>2. IInv /\ [Next]_vars => IInv'
  BY StepTypes, StepGood, StepInOrder DEF IInv
<1>. QED  BY <1>1, <1>2, PTL DEF Spec

\* Every variable keeps its type; no code outside the table is ever sent.
THEOREM TypeCorrect == Spec => []TypeOK
  BY IInvAlways, PTL DEF IInv

\* A task ends with what its own attempt found.
THEOREM OwnOutcomeAlways == Spec => []OwnOutcome
<1>1. IInv => OwnOutcome
  BY DEF IInv, AllGood, Good, OwnOutcome, Retriable, Verdict
<1>. QED  BY <1>1, IInvAlways, PTL

\* An archive is not reported before it is handed over.
THEOREM ArchiveHandedOverAlways == Spec => []ArchiveHandedOver
<1>1. ASSUME IInv, NEW k \in Attempts, Wired,
             token[k].state = "success", token[k].code = "archive"
      PROVE  claims[k] > 0 \/ "dispatch" \in trouble[k]
  <2>1. Good(input, token[k], pc[k], found[k], claims[k], trouble[k])
    BY <1>1 DEF IInv, AllGood
  <2>2. found[k].reason = "archive"
    <3>1. token[k] = Success(found[k])
      BY <1>1, <2>1 DEF Good
    <3>. QED  BY <1>1, <3>1 DEF Success
  <2>. QED  BY <1>1, <2>1, <2>2 DEF Good
<1>2. IInv => ArchiveHandedOver
  BY <1>1 DEF ArchiveHandedOver
<1>. QED  BY <1>2, IInvAlways, PTL

\* A second claim follows trouble with the queue within an attempt, and a second
\* attempt after a claim only what went wrong with the callback.
THEOREM ArchiveRepeatedByTroubleAlways == Spec => []ArchiveRepeatedByTrouble
<1>1. ASSUME IInv, NEW j \in Attempts, NEW k \in Attempts,
             claims[j] > 0, j < k, token[k] # Unused
      PROVE  Late(trouble[j])
  <2>1. Lost(j)
    BY <1>1 DEF IInv, InOrder
  <2>2. Good(input, token[j], pc[j], found[j], claims[j], trouble[j])
    BY <1>1 DEF IInv, AllGood
  <2>3. found[j] \in Documents /\ found[j] # Nothing
    BY <1>1, <2>2, Distinct DEF Good
  <2>4. ~Retriable(found[j]) /\ ~Verdict(found[j]) /\ input = "valid"
    BY <2>2, <2>3, Distinct DEF Good, Retriable, Verdict
  <2>. QED  BY <2>1, <2>2, <2>3, <2>4 DEF Good, Lost, Late
<1>2. ASSUME IInv, NEW j \in Attempts, claims[j] > 1
      PROVE  "dispatch" \in trouble[j]
  BY <1>2 DEF IInv, AllGood, Good
<1>3. IInv => ArchiveRepeatedByTrouble
  BY <1>1, <1>2 DEF ArchiveRepeatedByTrouble, Late
<1>. QED  BY <1>3, IInvAlways, PTL

\* A handler that returns has settled its token.
THEOREM ReturnedIsSettledAlways == Spec => []ReturnedIsSettled
<1>1. IInv => ReturnedIsSettled
  BY DEF IInv, AllGood, Good, ReturnedIsSettled
<1>. QED  BY <1>1, IInvAlways, PTL
=============================================================================
