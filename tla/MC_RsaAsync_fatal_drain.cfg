\* One drain fails: the poll thread resolves the slot's op as failed, the
\* job returns, and the accelerator later returns the abandoned request.
CONSTANTS
  j1 = j1
  j2 = j2
  j3 = j3
  Jobs <- OneJob
  TaskNum = 2
  MaxCalls = 2
  MaxSubmitFail = 0
  MaxDrainFail = 1
  SpuriousResume = FALSE
  LateCompletion = TRUE
  NoOp = NoOp

SPECIFICATION Spec

INVARIANT CallbackOnLiveFrame

