\* Nothing fails; two tasks of one terraform apply.
SPECIFICATION Spec
CONSTANTS
  t1 = t1
  t2 = t2
  Tasks = {t1, t2}
  Configs <- OutputConfigs
  Parallelism = 1
  ReadsFail = FALSE
  MaxResults = 0
  MaxFailures = 0
  MaxCrashes = 0
PROPERTIES AppliedRunsScript
