SPECIFICATION FairSpec
CONSTANTS
  None = None
  Dispatcher = Dispatcher
  Uris = {u1}
  Outside = {}
  Works = {w1, w2}
  Texts = {faulty}
  Faulty = {faulty}
  MaxVersion = 2
  MaxWorkers = 1
  Modes = {"onType"}
  SaveCallbacks = 2
  ScanModes = {}
PROPERTIES
  HandlersFinish
  EveryTextAnalysed
CHECK_DEADLOCK FALSE
