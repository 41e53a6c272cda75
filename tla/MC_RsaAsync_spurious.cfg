\* The application resumes a paused job before its event fd is written:
\* the job sees op.done = 1 and returns while uadk_e_rsa_cb still has to
\* read op->idx and op->job.
CONSTANTS
  j1 = j1
  j2 = j2
  j3 = j3
  Jobs <- TwoJobs
  TaskNum = 2
  MaxCalls = 2
  MaxSubmitFail = 0
  MaxDrainFail = 0
  SpuriousResume = TRUE
  LateCompletion = TRUE
  NoOp = NoOp

SPECIFICATION Spec

INVARIANT CallbackOnLiveFrame

