\* Every configuration, two pods; two failures and a crash of the provider.
SPECIFICATION Spec
CONSTANTS
  t1 = t1
  Tasks = {t1}
  Configs <- AllConfigs
  Parallelism = 2
  ReadsFail = TRUE
  MaxResults = 1
  MaxFailures = 2
  MaxCrashes = 1
INVARIANTS TypeOK NoOrphans JobHasVolumes QuietAfterPull
PROPERTIES AppliedRunsScript DestroyDownloads
