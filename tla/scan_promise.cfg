SPECIFICATION FairSpec
CONSTANTS
  None = None
  Runners = {r1}
  Tasks = {t1, t2}
  ScanOnStartValues = {TRUE, FALSE}
  MaxCfg = 0
  MaxFolders = 1
PROPERTIES
  CoalescesRequests
  InitialIndexingEnds
