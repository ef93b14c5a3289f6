\* A timeout races an approval.
SPECIFICATION Spec
CONSTANTS
  q1 = q1  c1 = c1  c2 = c2  c3 = c3
  Requests = {q1}
  Actors = {c1, c2, c3}
  AboutOf <- OneRequest
  Managed = FALSE
  Events = {}
INVARIANTS ExecutingMeansExecuted
CHECK_DEADLOCK FALSE
