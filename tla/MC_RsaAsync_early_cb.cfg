\* A request completes, from a drain triggered by another job, before its
\* submitter has registered on its slot; the slot is reused and the late
\* registration leaves a stale task entry.  One drain fails and the queue
\* drops the requests it resolves (no late completion).
CONSTANTS
  j1 = j1
  j2 = j2
  j3 = j3
  Jobs <- ThreeJobs
  TaskNum = 2
  MaxCalls = 2
  MaxSubmitFail = 0
  MaxDrainFail = 1
  SpuriousResume = FALSE
  LateCompletion = FALSE
  NoOp = NoOp

SPECIFICATION Spec
SYMMETRY JobSymmetry

INVARIANT CallbackOnLiveFrame
