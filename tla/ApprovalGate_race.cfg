\* Three actors race about one request, everything may fail.
SPECIFICATION Spec
CONSTANTS
  q1 = q1  c1 = c1  c2 = c2  c3 = c3
  Requests = {q1}
  Actors = {c1, c2, c3}
  AboutOf <- OneRequest
  Managed = FALSE
  Events = {"code", "noChannel", "postFails", "redrawFails", "stepFails", "crash"}
SYMMETRY SameRequest
INVARIANTS TypeOK AnswerAgrees 
PROPERTIES PermissionSpec
CHECK_DEADLOCK FALSE
