SPECIFICATION FairSpec
CONSTANTS
  NoTask = NoTask
  Tasks = {t1, t2, t3}
  Workers = {w1, w2}
  MaxRetries = 1
  MaxFailures = 4
CHECK_DEADLOCK FALSE
INVARIANTS TypeOK OneWorkerPerTask NoTaskLost CountedIffFailing
PROPERTY EveryTaskSettles ImplementsLedger
