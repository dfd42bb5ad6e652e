CONSTANTS
  j1 = j1
  j2 = j2
  u1 = u1
  w1 = w1
  w2 = w2
  NoJob = NoJob
  Jobs <- MCAllJobs
  Routable <- MCRoutable
  Workers <- MCWorkers
  MaxAttempts = 2
  BatchLimit = 2
  Settings <- MCCrash
SPECIFICATION FairSpec
PROPERTY SurvivesRestarts
