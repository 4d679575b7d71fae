SPECIFICATION Spec
CONSTANTS
  None = None
  Dispatcher = Dispatcher
  Uris = {u1}
  Outside = {u1}
  Works = {w1, w2}
  Texts = {clean, faulty}
  Faulty = {faulty}
  MaxVersion = 2
  MaxWorkers = 2
  Modes = {"onType"}
  SaveCallbacks = 2
  ScanModes = {}
INVARIANTS
  ClosedOutsideDocumentsRemoved
CHECK_DEADLOCK FALSE
