\* Two failed submissions on a two-slot pool: each leaks a permit of
\* empty_sem, after which a caller waits on it forever.  Deadlock checking
\* is off so that TLC reports the stuck caller as a liveness violation.
CONSTANTS
  j1 = j1
  j2 = j2
  j3 = j3
  Jobs <- TwoJobs
  TaskNum = 2
  MaxCalls = 2
  MaxSubmitFail = 2
  MaxDrainFail = 0
  SpuriousResume = FALSE
  LateCompletion = TRUE
  NoOp = NoOp

SPECIFICATION Spec

PROPERTY AllCallsReturn
CHECK_DEADLOCK FALSE
