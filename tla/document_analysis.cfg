SPECIFICATION Spec
CONSTANTS
  None = None
  Dispatcher = Dispatcher
  Uris = {u1}
  Outside = {}
  Works = {w1, w2}
  Texts = {clean, faulty}
  Faulty = {faulty}
  MaxVersion = 2
  MaxWorkers = 2
  Modes = {"onType", "onSave"}
  SaveCallbacks = 1
  ScanModes = {"onSave"}
SYMMETRY InterchangeableWorks
INVARIANTS
  TypeOK
  TimersOwnArmedWork
  ArmedWorkIsCurrent
  SlotsHeldInside
  LatestTextAnalysed
  SavedTextShown
CHECK_DEADLOCK FALSE
