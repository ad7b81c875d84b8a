\* Two plain requests and an override, two policy versions, a fault, the TTL.
SPECIFICATION Spec
CONSTANTS
  Requests = {r1, r2, o1}
  Override = {o1}
  Policies = 2
  MaxInvocations = 2
  MaxFaults = 1
INVARIANT TypeOK
INVARIANT AnsweredIsRecorded
INVARIANT HitsCounted
INVARIANT OriginalGoesThrough
INVARIANT RefusedForACause
PROPERTY RecordOperations
SYMMETRY PlainSymmetry
CHECK_DEADLOCK FALSE
