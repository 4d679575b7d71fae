SPECIFICATION Spec
CONSTANTS
  None = None
  Runners = {r1, r2}
  Tasks = {t1, t2}
  ScanOnStartValues = {TRUE}
  MaxCfg = 2
  MaxFolders = 2
SYMMETRY Interchangeable
INVARIANTS
  TypeOK
  ScansNeverOverlap
  RunnerServesQueue
  LatestConfigurationShown
  LatestFoldersIndexed
  LatestFoldersShown
