SPECIFICATION FairSpec
CONSTANTS
  j1 = j1
  j2 = j2
  j3 = j3
  r1 = r1
  r2 = r2
  Wake = Wake
  Jobs <- MCTwoJobs
  Reloaders <- MCReloaders
  NumThreads = 1
  NumModels = 1
  Present <- MCSecondary
INVARIANTS TypeOK ReloadIsExclusive NoWakeDuringReload LoadMeetsOnlyLeftJobs
PROPERTIES SubmittedIsAnswered ReloadReturns SilenceEnds
