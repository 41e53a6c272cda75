\* Base configuration: two jobs, two slots, three calls each, one failed
\* submission (which leaves one permit of empty_sem for the two jobs) and
\* one fatal drain, after which the queue drops the requests it held and
\* the poll thread resolves their ops as failed (spec.md 8, "fatal drain").
\* Paused jobs are only resumed by a wake.  No symmetry: the run checks
\* liveness.
CONSTANTS
  j1 = j1
  j2 = j2
  j3 = j3
  Jobs <- TwoJobs
  TaskNum = 2
  MaxCalls = 3
  MaxSubmitFail = 1
  MaxDrainFail = 1
  SpuriousResume = FALSE
  LateCompletion = FALSE
  NoOp = NoOp

SPECIFICATION Spec

INVARIANT TypeOK
INVARIANT SlotOwnership
INVARIANT BoundedInFlight

PROPERTY AllCallsReturn
PROPERTY ImplementsDoCrypto
