CONSTANTS
  j1 = j1
  j2 = j2
  j3 = j3
  NoJob = NoJob
  Jobs <- MCJobs3
  MaxRequests = 2
  Reenter = TRUE
  CallsAfterLongjmp = TRUE
  Stoppers = {"main", "other"}
SPECIFICATION FairSpec
INVARIANTS
  IInv
  ServedWorkerWaits
  AnswerMatchesRequest
  UnloadedMeansGone
PROPERTIES
  ImplementsJobService
  EveryDispatchReturns
  ShutdownReturns
  WorkerRecovers
\* R may stop calling into the package at any time.
CHECK_DEADLOCK FALSE
