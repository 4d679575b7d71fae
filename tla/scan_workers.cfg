SPECIFICATION FairSpec
CONSTANTS
  f1 = f1
  f2 = f2
  f3 = f3
  f4 = f4
  out = out
  Files <- MCFiles
  Others <- MCOthers
  Ignored <- MCIgnored
  Editable <- MCEditable
  Workers = {w1, w2}
  Procs = 2
  Limit = 3
  MaxCount = 2
  Revisions = {r1}
  None = None
INVARIANTS TypeOK TotalAccounted CappedOnlyWhenFull NoFileForgotten ProgressAccounted ScanSettles
PROPERTIES UnfinishedKept ScanEnds
