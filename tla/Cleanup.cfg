SPECIFICATION FairSpec
CONSTANTS
  Token = {t1, t2}
  Process = {p1, p2}
  Night = {n1}
  Consumed = {"celery"}
  MaxRetries = 3
  None = None
INVARIANTS
  TypeOK
  RunsPruneApart
PROPERTIES
  TaskSurvivesWorkerCrash
  ExpiredPruned
