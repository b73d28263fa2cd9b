CONSTANTS
  j1 = j1
  j2 = j2
  j3 = j3
  NoJob = NoJob
  Jobs <- MCJobs2
  MaxRequests = 2
  Reenter = FALSE
  CallsAfterLongjmp = TRUE
  Stoppers = {}
SPECIFICATION FairSpec
PROPERTY RequestsAreAnswered
CHECK_DEADLOCK FALSE
