CONSTANTS
  Tasks = {t1, t2}
  Ids = {1}
  MaxFailures = 2
  MaxStores = 2
SPECIFICATION FairSpec
INVARIANTS TypeOK FailedIsNotHealthy
PROPERTIES Returns
