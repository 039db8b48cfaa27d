CONSTANTS
  Requests <- SmallRequests
  Kind <- SmallKind
  NameOf <- SmallNameOf
  Grace = 1
  Credentials <- SmallCredentials
  Files <- SmallFiles
  Lines <- SmallLines
  Nil = Nil
SPECIFICATION RouterSpec
INVARIANTS RouterTypeOK CutOnlyAfterDeadline NothingUncounted Admission
PROPERTY InterruptEnds
\* The process ends.
CHECK_DEADLOCK FALSE
