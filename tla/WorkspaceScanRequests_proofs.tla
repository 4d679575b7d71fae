-------------------- MODULE WorkspaceScanRequests_proofs --------------------
(***************************************************************************)
(* Proofs about WorkspaceScanRequests, for any number of goroutines,       *)
(* configuration changes and folder changes.  ScanInv is inductive; each   *)
(* of its conjuncts has a lemma with one step per action.                  *)
(***************************************************************************)
EXTENDS WorkspaceScanRequests, TLAPS

USE GoroutinesAssumption, SwitchAssumption, BoundAssumption
    DEF Goroutines, Labels, RunnerLabels, ScanLabels, IndexLabels, TaskLabels, Kinds,
        FolderRevs, requestVars, cfgVars, folderVars, initialVars, clientVars

(* A goroutine that ends leaves well-typed locals behind.                  *)
LEMMA ForgetTypes ==
  ASSUME TypeOK, NEW g \in Goroutines, Forget(g)
  PROVE  /\ flag' \in [Goroutines -> BOOLEAN]
         /\ usedCfg' \in [Goroutines -> 0..MaxCfg]
         /\ files' \in [Goroutines -> FolderRevs]
BY DEF TypeOK, Forget

(* ScanInv holds initially.                                                *)
LEMMA InitEstablishes == Init => ScanInv
<1> SUFFICES ASSUME Init PROVE ScanInv
  OBVIOUS
<1>1. TypeOK
  <2>1. /\ queued \in BOOLEAN /\ wantIndex \in BOOLEAN /\ active \in BOOLEAN
        /\ enable \in BOOLEAN /\ scanOnStart \in BOOLEAN
        /\ initialized \in BOOLEAN /\ initialIndexing \in BOOLEAN
        /\ initialIndexDone \in BOOLEAN
    BY Zenon DEF Init
  <2>2. flag \in [Goroutines -> BOOLEAN]
    BY DEF Init
  <2>3. pc \in [Goroutines -> Labels] /\ kind \in [Tasks -> Kinds]
    BY DEF Init
  <2>4. usedCfg \in [Goroutines -> 0..MaxCfg] /\ files \in [Goroutines -> FolderRevs]
    BY DEF Init
  <2> QED
    BY <2>1, <2>2, <2>3, <2>4 DEF Init, TypeOK
<1>2. LabelsByKind /\ OwnerInPlace /\ RunnerServesQueue
  BY DEF Init, LabelsByKind, OwnerInPlace, RunnerServesQueue
<1>3. ScansNeverOverlap /\ ConfigurationInFlight
  BY DEF Init, ScansNeverOverlap, Scanning, ConfigurationInFlight, WillPublish, WillRead
<1> QED
  BY <1>1, <1>2, <1>3 DEF ScanInv

(* Taking a request moves one flag into the runner's local.                *)
LEMMA TakeTypes ==
  ASSUME TypeOK, NEW r \in Runners, TakeRequest(r)
  PROVE  TypeOK'
<1>1. flag' \in [Goroutines -> BOOLEAN]
  BY DEF TypeOK, TakeRequest
<1>2. pc' \in [Goroutines -> Labels]
  BY DEF TypeOK, TakeRequest
<1>3. queued' \in BOOLEAN /\ wantIndex' \in BOOLEAN
  BY DEF TakeRequest
<1>4. UNCHANGED <<active, scanMu, indexMu, kind, usedCfg, files, cfgVars, folderVars,
                  initialVars, dispatcher, clientVars>>
  BY DEF TakeRequest
<1> QED
  BY <1>1, <1>2, <1>3, <1>4 DEF TypeOK

(* Entering a scan keeps the locals' types.                                *)
LEMMA LockTypes ==
  ASSUME TypeOK, NEW g \in Goroutines, LockScan(g)
  PROVE  flag' \in [Goroutines -> BOOLEAN] /\ usedCfg' \in [Goroutines -> 0..MaxCfg]
<1>1. CASE g \in Runners
  BY <1>1 DEF TypeOK, LockScan
<1>2. CASE g \notin Runners
  <2>1. flag' = [flag EXCEPT ![g] = ~enable] /\ usedCfg' = [usedCfg EXCEPT ![g] = cfg]
    BY <1>2 DEF LockScan
  <2>2. (~enable) \in BOOLEAN
    OBVIOUS
  <2> QED
    BY <2>1, <2>2 DEF TypeOK
<1> QED
  BY <1>1, <1>2

(* Every action keeps the types.                                           *)
LEMMA TypePreserved ==
  ASSUME ScanInv, [Next]_vars
  PROVE  TypeOK'
<1> USE DEF ScanInv, TypeOK
<1>1. ASSUME Initialized PROVE TypeOK'
  BY <1>1 DEF Initialized, Spawn
<1>2. ASSUME DidChangeConfiguration PROVE TypeOK'
  BY <1>2 DEF DidChangeConfiguration
<1>3. ASSUME RequestAfterConfiguration PROVE TypeOK'
  BY <1>3 DEF RequestAfterConfiguration, Request
<1>4. ASSUME DidChangeWorkspaceFolders PROVE TypeOK'
  BY <1>4 DEF DidChangeWorkspaceFolders, Spawn
<1>5. ASSUME IndexCommand PROVE TypeOK'
  BY <1>5 DEF IndexCommand, Spawn
<1>6. ASSUME ScanCommand PROVE TypeOK'
  BY <1>6 DEF ScanCommand, Request
<1>7. ASSUME NEW r \in Runners, TakeRequest(r) PROVE TypeOK'
  BY <1>7, TakeTypes DEF ScanInv
<1>8. ASSUME NEW r \in Runners, StopRunner(r) PROVE TypeOK'
  <2>1. pc' \in [Goroutines -> Labels]
    BY <1>8 DEF StopRunner
  <2>2. Forget(r)
    BY <1>8 DEF StopRunner
  <2>3. flag' \in [Goroutines -> BOOLEAN] /\ usedCfg' \in [Goroutines -> 0..MaxCfg]
          /\ files' \in [Goroutines -> FolderRevs]
    BY <2>2, ForgetTypes
  <2>4. /\ active' \in BOOLEAN
        /\ UNCHANGED <<queued, wantIndex, scanMu, indexMu, kind, cfgVars,
                         folderVars, initialVars, dispatcher, clientVars>>
    BY <1>8 DEF StopRunner
  <2> QED
    BY <2>1, <2>3, <2>4
<1>9. ASSUME NEW g \in Goroutines, LockScan(g) PROVE TypeOK'
  <2>1. pc' \in [Goroutines -> Labels]
    BY <1>9 DEF LockScan
  <2>2. flag' \in [Goroutines -> BOOLEAN] /\ usedCfg' \in [Goroutines -> 0..MaxCfg]
    BY <1>9, LockTypes
  <2>3. started' \in 0..1
    BY <1>9 DEF LockScan, ScansNeverOverlap
  <2> QED
    BY <1>9, <2>1, <2>2, <2>3 DEF LockScan
<1>10. ASSUME NEW g \in Goroutines, LockIndex(g) PROVE TypeOK'
  BY <1>10 DEF LockIndex
<1>11. ASSUME NEW g \in Goroutines, StoreFiles(g) PROVE TypeOK'
  BY <1>11 DEF StoreFiles
<1>12. ASSUME NEW g \in Goroutines, UnlockIndex(g) PROVE TypeOK'
  <2>1. AfterIndex(g) \in Labels
    BY DEF AfterIndex
  <2>2. pc' \in [Goroutines -> Labels]
    BY <1>12, <2>1 DEF UnlockIndex
  <2> QED
    BY <1>12, <2>2, ForgetTypes DEF UnlockIndex
<1>13. ASSUME NEW g \in Goroutines, ReadProvider(g) PROVE TypeOK'
  BY <1>13 DEF ReadProvider
<1>14. ASSUME NEW g \in Goroutines, CollectFiles(g) PROVE TypeOK'
  BY <1>14 DEF CollectFiles, WorkspaceFileURIs
<1>15. ASSUME NEW g \in Goroutines, PublishScan(g) PROVE TypeOK'
  BY <1>15 DEF PublishScan
<1>16. ASSUME NEW g \in Goroutines, ClearPublished(g) PROVE TypeOK'
  BY <1>16 DEF ClearPublished
<1>17. ASSUME NEW g \in Goroutines, FinishScan(g) PROVE TypeOK'
  BY <1>17 DEF FinishScan, ScansNeverOverlap, Scanning, Forget
<1>18. ASSUME NEW t \in Tasks, StartInitial(t) PROVE TypeOK'
  BY <1>18 DEF StartInitial
<1>19. ASSUME NEW t \in Tasks, FinishInitial(t) PROVE TypeOK'
  <2>1. pc' \in [Goroutines -> Labels]
    BY <1>19 DEF FinishInitial
  <2>2. Forget(t)
    BY <1>19 DEF FinishInitial
  <2>3. flag' \in [Goroutines -> BOOLEAN] /\ usedCfg' \in [Goroutines -> 0..MaxCfg]
          /\ files' \in [Goroutines -> FolderRevs]
    BY <2>2, ForgetTypes
  <2>4. /\ initialIndexing' \in BOOLEAN /\ initialIndexDone' \in BOOLEAN
        /\ UNCHANGED <<requestVars, scanMu, indexMu, kind, cfgVars,
                         folderVars, initialized, dispatcher, clientVars>>
    BY <1>19 DEF FinishInitial
  <2> QED
    BY <2>1, <2>3, <2>4
<1>20. ASSUME NEW t \in Tasks, RequestAfterFolders(t) PROVE TypeOK'
  BY <1>20 DEF RequestAfterFolders, Request, Forget
<1>21. ASSUME NEW t \in Tasks, ListFiles(t) PROVE TypeOK'
  BY <1>21 DEF ListFiles, WorkspaceFileURIs
<1>22. ASSUME NEW t \in Tasks, ClearDiagnosticsOutsideWorkspace(t) PROVE TypeOK'
  BY <1>22 DEF ClearDiagnosticsOutsideWorkspace, Forget
<1>23. CASE UNCHANGED vars
  BY <1>23 DEF vars, requestVars, cfgVars, folderVars, initialVars, clientVars
<1>24. QED
  BY <1>1, <1>2, <1>3, <1>4, <1>5, <1>6, <1>7, <1>8, <1>9, <1>10, <1>11, <1>12, <1>13, <1>14, <1>15, <1>16, <1>17, <1>18, <1>19, <1>20, <1>21, <1>22, <1>23 DEF Next, Dispatch, RunnerStep, LockStep, WorkStep, TaskStep

(* Runners and tasks keep to their labels.                                 *)
LEMMA LabelsPreserved ==
  ASSUME ScanInv, [Next]_vars
  PROVE  LabelsByKind'
<1> USE DEF ScanInv, TypeOK, LabelsByKind
<1>1. ASSUME Initialized PROVE LabelsByKind'
  BY <1>1 DEF Initialized, Spawn
<1>2. ASSUME DidChangeConfiguration PROVE LabelsByKind'
  BY <1>2 DEF DidChangeConfiguration
<1>3. ASSUME RequestAfterConfiguration PROVE LabelsByKind'
  BY <1>3 DEF RequestAfterConfiguration, Request
<1>4. ASSUME DidChangeWorkspaceFolders PROVE LabelsByKind'
  BY <1>4 DEF DidChangeWorkspaceFolders, Spawn
<1>5. ASSUME IndexCommand PROVE LabelsByKind'
  BY <1>5 DEF IndexCommand, Spawn
<1>6. ASSUME ScanCommand PROVE LabelsByKind'
  BY <1>6 DEF ScanCommand, Request
<1>7. ASSUME NEW r \in Runners, TakeRequest(r) PROVE LabelsByKind'
  BY <1>7 DEF TakeRequest
<1>8. ASSUME NEW r \in Runners, StopRunner(r) PROVE LabelsByKind'
  BY <1>8 DEF StopRunner, Forget
<1>9. ASSUME NEW g \in Goroutines, LockScan(g) PROVE LabelsByKind'
  BY <1>9 DEF LockScan
<1>10. ASSUME NEW g \in Goroutines, LockIndex(g) PROVE LabelsByKind'
  BY <1>10 DEF LockIndex
<1>11. ASSUME NEW g \in Goroutines, StoreFiles(g) PROVE LabelsByKind'
  BY <1>11 DEF StoreFiles
<1>12. ASSUME NEW g \in Goroutines, UnlockIndex(g) PROVE LabelsByKind'
  BY <1>12 DEF UnlockIndex, AfterIndex, Forget
<1>13. ASSUME NEW g \in Goroutines, ReadProvider(g) PROVE LabelsByKind'
  BY <1>13 DEF ReadProvider
<1>14. ASSUME NEW g \in Goroutines, CollectFiles(g) PROVE LabelsByKind'
  BY <1>14 DEF CollectFiles, WorkspaceFileURIs
<1>15. ASSUME NEW g \in Goroutines, PublishScan(g) PROVE LabelsByKind'
  BY <1>15 DEF PublishScan
<1>16. ASSUME NEW g \in Goroutines, ClearPublished(g) PROVE LabelsByKind'
  BY <1>16 DEF ClearPublished
<1>17. ASSUME NEW g \in Goroutines, FinishScan(g) PROVE LabelsByKind'
  BY <1>17 DEF FinishScan, Forget
<1>18. ASSUME NEW t \in Tasks, StartInitial(t) PROVE LabelsByKind'
  BY <1>18 DEF StartInitial
<1>19. ASSUME NEW t \in Tasks, FinishInitial(t) PROVE LabelsByKind'
  BY <1>19 DEF FinishInitial, Forget
<1>20. ASSUME NEW t \in Tasks, RequestAfterFolders(t) PROVE LabelsByKind'
  BY <1>20 DEF RequestAfterFolders, Request, Forget
<1>21. ASSUME NEW t \in Tasks, ListFiles(t) PROVE LabelsByKind'
  BY <1>21 DEF ListFiles, WorkspaceFileURIs
<1>22. ASSUME NEW t \in Tasks, ClearDiagnosticsOutsideWorkspace(t) PROVE LabelsByKind'
  BY <1>22 DEF ClearDiagnosticsOutsideWorkspace, Forget
<1>23. CASE UNCHANGED vars
  BY <1>23 DEF vars, requestVars, cfgVars, folderVars, initialVars, clientVars
<1>24. QED
  BY <1>1, <1>2, <1>3, <1>4, <1>5, <1>6, <1>7, <1>8, <1>9, <1>10, <1>11, <1>12, <1>13, <1>14, <1>15, <1>16, <1>17, <1>18, <1>19, <1>20, <1>21, <1>22, <1>23 DEF Next, Dispatch, RunnerStep, LockStep, WorkStep, TaskStep

(* The owner of workspaceDiagnosticsMu stays inside its scan.              *)
LEMMA OwnerPreserved ==
  ASSUME ScanInv, [Next]_vars
  PROVE  OwnerInPlace'
<1> USE DEF ScanInv, TypeOK, LabelsByKind, OwnerInPlace, ScansNeverOverlap,
           Scanning
<1>1. ASSUME Initialized PROVE OwnerInPlace'
  BY <1>1 DEF Initialized, Spawn
<1>2. ASSUME DidChangeConfiguration PROVE OwnerInPlace'
  BY <1>2 DEF DidChangeConfiguration
<1>3. ASSUME RequestAfterConfiguration PROVE OwnerInPlace'
  BY <1>3 DEF RequestAfterConfiguration, Request
<1>4. ASSUME DidChangeWorkspaceFolders PROVE OwnerInPlace'
  BY <1>4 DEF DidChangeWorkspaceFolders, Spawn
<1>5. ASSUME IndexCommand PROVE OwnerInPlace'
  BY <1>5 DEF IndexCommand, Spawn
<1>6. ASSUME ScanCommand PROVE OwnerInPlace'
  BY <1>6 DEF ScanCommand, Request
<1>7. ASSUME NEW r \in Runners, TakeRequest(r) PROVE OwnerInPlace'
  BY <1>7 DEF TakeRequest
<1>8. ASSUME NEW r \in Runners, StopRunner(r) PROVE OwnerInPlace'
  BY <1>8 DEF StopRunner, Forget
<1>9. ASSUME NEW g \in Goroutines, LockScan(g) PROVE OwnerInPlace'
  BY <1>9 DEF LockScan
<1>10. ASSUME NEW g \in Goroutines, LockIndex(g) PROVE OwnerInPlace'
  BY <1>10 DEF LockIndex
<1>11. ASSUME NEW g \in Goroutines, StoreFiles(g) PROVE OwnerInPlace'
  BY <1>11 DEF StoreFiles
<1>12. ASSUME NEW g \in Goroutines, UnlockIndex(g) PROVE OwnerInPlace'
  BY <1>12 DEF UnlockIndex, AfterIndex, Forget
<1>13. ASSUME NEW g \in Goroutines, ReadProvider(g) PROVE OwnerInPlace'
  BY <1>13 DEF ReadProvider
<1>14. ASSUME NEW g \in Goroutines, CollectFiles(g) PROVE OwnerInPlace'
  BY <1>14 DEF CollectFiles, WorkspaceFileURIs
<1>15. ASSUME NEW g \in Goroutines, PublishScan(g) PROVE OwnerInPlace'
  BY <1>15 DEF PublishScan
<1>16. ASSUME NEW g \in Goroutines, ClearPublished(g) PROVE OwnerInPlace'
  BY <1>16 DEF ClearPublished
<1>17. ASSUME NEW g \in Goroutines, FinishScan(g) PROVE OwnerInPlace'
  BY <1>17 DEF FinishScan, Forget
<1>18. ASSUME NEW t \in Tasks, StartInitial(t) PROVE OwnerInPlace'
  BY <1>18 DEF StartInitial
<1>19. ASSUME NEW t \in Tasks, FinishInitial(t) PROVE OwnerInPlace'
  BY <1>19 DEF FinishInitial, Forget
<1>20. ASSUME NEW t \in Tasks, RequestAfterFolders(t) PROVE OwnerInPlace'
  BY <1>20 DEF RequestAfterFolders, Request, Forget
<1>21. ASSUME NEW t \in Tasks, ListFiles(t) PROVE OwnerInPlace'
  BY <1>21 DEF ListFiles, WorkspaceFileURIs
<1>22. ASSUME NEW t \in Tasks, ClearDiagnosticsOutsideWorkspace(t) PROVE OwnerInPlace'
  BY <1>22 DEF ClearDiagnosticsOutsideWorkspace, Forget
<1>23. CASE UNCHANGED vars
  BY <1>23 DEF vars, requestVars, cfgVars, folderVars, initialVars, clientVars
<1>24. QED
  BY <1>1, <1>2, <1>3, <1>4, <1>5, <1>6, <1>7, <1>8, <1>9, <1>10, <1>11, <1>12, <1>13, <1>14, <1>15, <1>16, <1>17, <1>18, <1>19, <1>20, <1>21, <1>22, <1>23 DEF Next, Dispatch, RunnerStep, LockStep, WorkStep, TaskStep

(* Scans, and index passes, exclude each other.                            *)
LEMMA OverlapPreserved ==
  ASSUME ScanInv, [Next]_vars
  PROVE  ScansNeverOverlap'
<1> USE DEF ScanInv, TypeOK, LabelsByKind, OwnerInPlace, ScansNeverOverlap,
           Scanning
<1>1. ASSUME Initialized PROVE ScansNeverOverlap'
  BY <1>1 DEF Initialized, Spawn
<1>2. ASSUME DidChangeConfiguration PROVE ScansNeverOverlap'
  BY <1>2 DEF DidChangeConfiguration
<1>3. ASSUME RequestAfterConfiguration PROVE ScansNeverOverlap'
  BY <1>3 DEF RequestAfterConfiguration, Request
<1>4. ASSUME DidChangeWorkspaceFolders PROVE ScansNeverOverlap'
  BY <1>4 DEF DidChangeWorkspaceFolders, Spawn
<1>5. ASSUME IndexCommand PROVE ScansNeverOverlap'
  BY <1>5 DEF IndexCommand, Spawn
<1>6. ASSUME ScanCommand PROVE ScansNeverOverlap'
  BY <1>6 DEF ScanCommand, Request
<1>7. ASSUME NEW r \in Runners, TakeRequest(r) PROVE ScansNeverOverlap'
  BY <1>7 DEF TakeRequest
<1>8. ASSUME NEW r \in Runners, StopRunner(r) PROVE ScansNeverOverlap'
  BY <1>8 DEF StopRunner, Forget
<1>9. ASSUME NEW g \in Goroutines, LockScan(g) PROVE ScansNeverOverlap'
  BY <1>9 DEF LockScan
<1>10. ASSUME NEW g \in Goroutines, LockIndex(g) PROVE ScansNeverOverlap'
  BY <1>10 DEF LockIndex
<1>11. ASSUME NEW g \in Goroutines, StoreFiles(g) PROVE ScansNeverOverlap'
  BY <1>11 DEF StoreFiles
<1>12. ASSUME NEW g \in Goroutines, UnlockIndex(g) PROVE ScansNeverOverlap'
  BY <1>12 DEF UnlockIndex, AfterIndex, Forget
<1>13. ASSUME NEW g \in Goroutines, ReadProvider(g) PROVE ScansNeverOverlap'
  BY <1>13 DEF ReadProvider
<1>14. ASSUME NEW g \in Goroutines, CollectFiles(g) PROVE ScansNeverOverlap'
  BY <1>14 DEF CollectFiles, WorkspaceFileURIs
<1>15. ASSUME NEW g \in Goroutines, PublishScan(g) PROVE ScansNeverOverlap'
  BY <1>15 DEF PublishScan
<1>16. ASSUME NEW g \in Goroutines, ClearPublished(g) PROVE ScansNeverOverlap'
  BY <1>16 DEF ClearPublished
<1>17. ASSUME NEW g \in Goroutines, FinishScan(g) PROVE ScansNeverOverlap'
  BY <1>17 DEF FinishScan, Forget
<1>18. ASSUME NEW t \in Tasks, StartInitial(t) PROVE ScansNeverOverlap'
  BY <1>18 DEF StartInitial
<1>19. ASSUME NEW t \in Tasks, FinishInitial(t) PROVE ScansNeverOverlap'
  BY <1>19 DEF FinishInitial, Forget
<1>20. ASSUME NEW t \in Tasks, RequestAfterFolders(t) PROVE ScansNeverOverlap'
  BY <1>20 DEF RequestAfterFolders, Request, Forget
<1>21. ASSUME NEW t \in Tasks, ListFiles(t) PROVE ScansNeverOverlap'
  BY <1>21 DEF ListFiles, WorkspaceFileURIs
<1>22. ASSUME NEW t \in Tasks, ClearDiagnosticsOutsideWorkspace(t) PROVE ScansNeverOverlap'
  BY <1>22 DEF ClearDiagnosticsOutsideWorkspace, Forget
<1>23. CASE UNCHANGED vars
  BY <1>23 DEF vars, requestVars, cfgVars, folderVars, initialVars, clientVars
<1>24. QED
  BY <1>1, <1>2, <1>3, <1>4, <1>5, <1>6, <1>7, <1>8, <1>9, <1>10, <1>11, <1>12, <1>13, <1>14, <1>15, <1>16, <1>17, <1>18, <1>19, <1>20, <1>21, <1>22, <1>23 DEF Next, Dispatch, RunnerStep, LockStep, WorkStep, TaskStep

(* No request is left without its runner.                                  *)
LEMMA QueuePreserved ==
  ASSUME ScanInv, [Next]_vars
  PROVE  RunnerServesQueue'
<1> USE DEF ScanInv, TypeOK, LabelsByKind, RunnerServesQueue
<1>1. ASSUME Initialized PROVE RunnerServesQueue'
  BY <1>1 DEF Initialized, Spawn
<1>2. ASSUME DidChangeConfiguration PROVE RunnerServesQueue'
  BY <1>2 DEF DidChangeConfiguration
<1>3. ASSUME RequestAfterConfiguration PROVE RunnerServesQueue'
  BY <1>3 DEF RequestAfterConfiguration, Request
<1>4. ASSUME DidChangeWorkspaceFolders PROVE RunnerServesQueue'
  BY <1>4 DEF DidChangeWorkspaceFolders, Spawn
<1>5. ASSUME IndexCommand PROVE RunnerServesQueue'
  BY <1>5 DEF IndexCommand, Spawn
<1>6. ASSUME ScanCommand PROVE RunnerServesQueue'
  BY <1>6 DEF ScanCommand, Request
<1>7. ASSUME NEW r \in Runners, TakeRequest(r) PROVE RunnerServesQueue'
  BY <1>7 DEF TakeRequest
<1>8. ASSUME NEW r \in Runners, StopRunner(r) PROVE RunnerServesQueue'
  BY <1>8 DEF StopRunner, Forget
<1>9. ASSUME NEW g \in Goroutines, LockScan(g) PROVE RunnerServesQueue'
  BY <1>9 DEF LockScan
<1>10. ASSUME NEW g \in Goroutines, LockIndex(g) PROVE RunnerServesQueue'
  BY <1>10 DEF LockIndex
<1>11. ASSUME NEW g \in Goroutines, StoreFiles(g) PROVE RunnerServesQueue'
  BY <1>11 DEF StoreFiles
<1>12. ASSUME NEW g \in Goroutines, UnlockIndex(g) PROVE RunnerServesQueue'
  BY <1>12 DEF UnlockIndex, AfterIndex, Forget
<1>13. ASSUME NEW g \in Goroutines, ReadProvider(g) PROVE RunnerServesQueue'
  BY <1>13 DEF ReadProvider
<1>14. ASSUME NEW g \in Goroutines, CollectFiles(g) PROVE RunnerServesQueue'
  BY <1>14 DEF CollectFiles, WorkspaceFileURIs
<1>15. ASSUME NEW g \in Goroutines, PublishScan(g) PROVE RunnerServesQueue'
  BY <1>15 DEF PublishScan
<1>16. ASSUME NEW g \in Goroutines, ClearPublished(g) PROVE RunnerServesQueue'
  BY <1>16 DEF ClearPublished
<1>17. ASSUME NEW g \in Goroutines, FinishScan(g) PROVE RunnerServesQueue'
  BY <1>17 DEF FinishScan, Forget
<1>18. ASSUME NEW t \in Tasks, StartInitial(t) PROVE RunnerServesQueue'
  BY <1>18 DEF StartInitial
<1>19. ASSUME NEW t \in Tasks, FinishInitial(t) PROVE RunnerServesQueue'
  BY <1>19 DEF FinishInitial, Forget
<1>20. ASSUME NEW t \in Tasks, RequestAfterFolders(t) PROVE RunnerServesQueue'
  BY <1>20 DEF RequestAfterFolders, Request, Forget
<1>21. ASSUME NEW t \in Tasks, ListFiles(t) PROVE RunnerServesQueue'
  BY <1>21 DEF ListFiles, WorkspaceFileURIs
<1>22. ASSUME NEW t \in Tasks, ClearDiagnosticsOutsideWorkspace(t) PROVE RunnerServesQueue'
  BY <1>22 DEF ClearDiagnosticsOutsideWorkspace, Forget
<1>23. CASE UNCHANGED vars
  BY <1>23 DEF vars, requestVars, cfgVars, folderVars, initialVars, clientVars
<1>24. QED
  BY <1>1, <1>2, <1>3, <1>4, <1>5, <1>6, <1>7, <1>8, <1>9, <1>10, <1>11, <1>12, <1>13, <1>14, <1>15, <1>16, <1>17, <1>18, <1>19, <1>20, <1>21, <1>22, <1>23 DEF Next, Dispatch, RunnerStep, LockStep, WorkStep, TaskStep

(* A configuration change is never forgotten.                              *)
LEMMA ConfigurationPreserved ==
  ASSUME ScanInv, [Next]_vars
  PROVE  ConfigurationInFlight'
<1> USE DEF ScanInv, TypeOK, LabelsByKind, OwnerInPlace, ScansNeverOverlap,
           Scanning, RunnerServesQueue, ConfigurationInFlight, WillPublish, WillRead
<1>1. ASSUME Initialized PROVE ConfigurationInFlight'
  BY <1>1 DEF Initialized, Spawn
<1>2. ASSUME DidChangeConfiguration PROVE ConfigurationInFlight'
  BY <1>2 DEF DidChangeConfiguration
<1>3. ASSUME RequestAfterConfiguration PROVE ConfigurationInFlight'
  BY <1>3 DEF RequestAfterConfiguration, Request
<1>4. ASSUME DidChangeWorkspaceFolders PROVE ConfigurationInFlight'
  BY <1>4 DEF DidChangeWorkspaceFolders, Spawn
<1>5. ASSUME IndexCommand PROVE ConfigurationInFlight'
  BY <1>5 DEF IndexCommand, Spawn
<1>6. ASSUME ScanCommand PROVE ConfigurationInFlight'
  BY <1>6 DEF ScanCommand, Request
<1>7. ASSUME NEW r \in Runners, TakeRequest(r) PROVE ConfigurationInFlight'
  BY <1>7 DEF TakeRequest
<1>8. ASSUME NEW r \in Runners, StopRunner(r) PROVE ConfigurationInFlight'
  BY <1>8 DEF StopRunner, Forget
<1>9. ASSUME NEW g \in Goroutines, LockScan(g) PROVE ConfigurationInFlight'
  BY <1>9 DEF LockScan
<1>10. ASSUME NEW g \in Goroutines, LockIndex(g) PROVE ConfigurationInFlight'
  BY <1>10 DEF LockIndex
<1>11. ASSUME NEW g \in Goroutines, StoreFiles(g) PROVE ConfigurationInFlight'
  BY <1>11 DEF StoreFiles
<1>12. ASSUME NEW g \in Goroutines, UnlockIndex(g) PROVE ConfigurationInFlight'
  BY <1>12 DEF UnlockIndex, AfterIndex, Forget
<1>13. ASSUME NEW g \in Goroutines, ReadProvider(g) PROVE ConfigurationInFlight'
  BY <1>13 DEF ReadProvider
<1>14. ASSUME NEW g \in Goroutines, CollectFiles(g) PROVE ConfigurationInFlight'
  BY <1>14 DEF CollectFiles, WorkspaceFileURIs
<1>15. ASSUME NEW g \in Goroutines, PublishScan(g) PROVE ConfigurationInFlight'
  BY <1>15 DEF PublishScan
<1>16. ASSUME NEW g \in Goroutines, ClearPublished(g) PROVE ConfigurationInFlight'
  BY <1>16 DEF ClearPublished
<1>17. ASSUME NEW g \in Goroutines, FinishScan(g) PROVE ConfigurationInFlight'
  BY <1>17 DEF FinishScan, Forget
<1>18. ASSUME NEW t \in Tasks, StartInitial(t) PROVE ConfigurationInFlight'
  BY <1>18 DEF StartInitial
<1>19. ASSUME NEW t \in Tasks, FinishInitial(t) PROVE ConfigurationInFlight'
  BY <1>19 DEF FinishInitial, Forget
<1>20. ASSUME NEW t \in Tasks, RequestAfterFolders(t) PROVE ConfigurationInFlight'
  BY <1>20 DEF RequestAfterFolders, Request, Forget
<1>21. ASSUME NEW t \in Tasks, ListFiles(t) PROVE ConfigurationInFlight'
  BY <1>21 DEF ListFiles, WorkspaceFileURIs
<1>22. ASSUME NEW t \in Tasks, ClearDiagnosticsOutsideWorkspace(t) PROVE ConfigurationInFlight'
  BY <1>22 DEF ClearDiagnosticsOutsideWorkspace, Forget
<1>23. CASE UNCHANGED vars
  BY <1>23 DEF vars, requestVars, cfgVars, folderVars, initialVars, clientVars
<1>24. QED
  BY <1>1, <1>2, <1>3, <1>4, <1>5, <1>6, <1>7, <1>8, <1>9, <1>10, <1>11, <1>12, <1>13, <1>14, <1>15, <1>16, <1>17, <1>18, <1>19, <1>20, <1>21, <1>22, <1>23 DEF Next, Dispatch, RunnerStep, LockStep, WorkStep, TaskStep

(* Every step keeps ScanInv.                                               *)
LEMMA StepPreserves == ScanInv /\ [Next]_vars => ScanInv'
<1>1. SUFFICES ASSUME ScanInv, [Next]_vars PROVE ScanInv'
  OBVIOUS
<1>2. TypeOK' /\ LabelsByKind' /\ OwnerInPlace'
  BY <1>1, TypePreserved, LabelsPreserved, OwnerPreserved
<1>3. ScansNeverOverlap' /\ RunnerServesQueue' /\ ConfigurationInFlight'
  BY <1>1, OverlapPreserved, QueuePreserved, ConfigurationPreserved
<1> QED
  BY <1>2, <1>3 DEF ScanInv

(* ScanInv is an invariant of the specification.                           *)
THEOREM Invariance == Spec => []ScanInv
<1>1. Init => ScanInv
  BY InitEstablishes
<1>2. ScanInv /\ [Next]_vars => ScanInv'
  BY StepPreserves
<1> QED
  BY <1>1, <1>2, PTL DEF Spec

(* Types, for every value of the constants.                                *)
THEOREM TypeCorrect == Spec => []TypeOK
<1>1. ScanInv => TypeOK
  BY DEF ScanInv
<1> QED
  BY <1>1, Invariance, PTL

(* Whatever goroutines run, the client sees Started and Finished alternate *)
(* and a scan's goroutine is alone between them.                           *)
THEOREM Exclusion == Spec => []ScansNeverOverlap
<1>1. ScanInv => ScansNeverOverlap
  BY DEF ScanInv
<1> QED
  BY <1>1, Invariance, PTL

(* A queued request always has exactly one runner.                         *)
THEOREM NoRequestStranded == Spec => []RunnerServesQueue
<1>1. ScanInv => RunnerServesQueue
  BY DEF ScanInv
<1> QED
  BY <1>1, Invariance, PTL

(* Once everything has settled the client shows the latest configuration.  *)
THEOREM ConfigurationSettles == Spec => []LatestConfigurationShown
<1>1. ScanInv => LatestConfigurationShown
  <2>1. SUFFICES ASSUME ScanInv, Quiet PROVE shownCfg = cfg
    BY DEF LatestConfigurationShown
  <2>2. ~WillRead
    BY <2>1 DEF Quiet, ScanInv, RunnerServesQueue, WillRead
  <2>3. \A g \in Goroutines : ~WillPublish(g)
    BY <2>1 DEF Quiet, WillPublish
  <2> QED
    BY <2>1, <2>2, <2>3 DEF ScanInv, ConfigurationInFlight
<1> QED
  BY <1>1, Invariance, PTL

-----------------------------------------------------------------------------
(***************************************************************************)
(* The two mutexes.                                                        *)
(***************************************************************************)
(* workspaceIndexMu is released by the label that follows its last use.    *)
LEMMA HolderPreserved ==
  ASSUME LockInv, [Next]_vars
  PROVE  IndexOwnerInPlace'
<1> USE DEF LockInv, IndexOwnerInPlace,
           ScanInv, TypeOK, LabelsByKind, ScansNeverOverlap
<1>1. ASSUME Initialized PROVE IndexOwnerInPlace'
  BY <1>1 DEF Initialized, Spawn
<1>2. ASSUME DidChangeConfiguration PROVE IndexOwnerInPlace'
  BY <1>2 DEF DidChangeConfiguration
<1>3. ASSUME RequestAfterConfiguration PROVE IndexOwnerInPlace'
  BY <1>3 DEF RequestAfterConfiguration, Request
<1>4. ASSUME DidChangeWorkspaceFolders PROVE IndexOwnerInPlace'
  BY <1>4 DEF DidChangeWorkspaceFolders, Spawn
<1>5. ASSUME IndexCommand PROVE IndexOwnerInPlace'
  BY <1>5 DEF IndexCommand, Spawn
<1>6. ASSUME ScanCommand PROVE IndexOwnerInPlace'
  BY <1>6 DEF ScanCommand, Request
<1>7. ASSUME NEW r \in Runners, TakeRequest(r) PROVE IndexOwnerInPlace'
  BY <1>7 DEF TakeRequest
<1>8. ASSUME NEW r \in Runners, StopRunner(r) PROVE IndexOwnerInPlace'
  BY <1>8 DEF StopRunner, Forget
<1>9. ASSUME NEW g \in Goroutines, LockScan(g) PROVE IndexOwnerInPlace'
  BY <1>9 DEF LockScan
<1>10. ASSUME NEW g \in Goroutines, LockIndex(g) PROVE IndexOwnerInPlace'
  BY <1>10 DEF LockIndex
<1>11. ASSUME NEW g \in Goroutines, StoreFiles(g) PROVE IndexOwnerInPlace'
  BY <1>11 DEF StoreFiles
<1>12. ASSUME NEW g \in Goroutines, UnlockIndex(g) PROVE IndexOwnerInPlace'
  BY <1>12 DEF UnlockIndex, AfterIndex, Forget
<1>13. ASSUME NEW g \in Goroutines, ReadProvider(g) PROVE IndexOwnerInPlace'
  BY <1>13 DEF ReadProvider
<1>14. ASSUME NEW g \in Goroutines, CollectFiles(g) PROVE IndexOwnerInPlace'
  BY <1>14 DEF CollectFiles, WorkspaceFileURIs
<1>15. ASSUME NEW g \in Goroutines, PublishScan(g) PROVE IndexOwnerInPlace'
  BY <1>15 DEF PublishScan
<1>16. ASSUME NEW g \in Goroutines, ClearPublished(g) PROVE IndexOwnerInPlace'
  BY <1>16 DEF ClearPublished
<1>17. ASSUME NEW g \in Goroutines, FinishScan(g) PROVE IndexOwnerInPlace'
  BY <1>17 DEF FinishScan, Forget
<1>18. ASSUME NEW t \in Tasks, StartInitial(t) PROVE IndexOwnerInPlace'
  BY <1>18 DEF StartInitial
<1>19. ASSUME NEW t \in Tasks, FinishInitial(t) PROVE IndexOwnerInPlace'
  BY <1>19 DEF FinishInitial, Forget
<1>20. ASSUME NEW t \in Tasks, RequestAfterFolders(t) PROVE IndexOwnerInPlace'
  BY <1>20 DEF RequestAfterFolders, Request, Forget
<1>21. ASSUME NEW t \in Tasks, ListFiles(t) PROVE IndexOwnerInPlace'
  BY <1>21 DEF ListFiles, WorkspaceFileURIs
<1>22. ASSUME NEW t \in Tasks, ClearDiagnosticsOutsideWorkspace(t) PROVE IndexOwnerInPlace'
  BY <1>22 DEF ClearDiagnosticsOutsideWorkspace, Forget
<1>23. CASE UNCHANGED vars
  BY <1>23 DEF vars
<1> QED
  BY <1>1, <1>2, <1>3, <1>4, <1>5, <1>6, <1>7, <1>8, <1>9, <1>10, <1>11,
     <1>12, <1>13, <1>14, <1>15, <1>16, <1>17, <1>18, <1>19, <1>20, <1>21,
     <1>22, <1>23
     DEF Next, Dispatch, RunnerStep, LockStep, WorkStep, TaskStep

(* ScanInv and the place of the index mutex's owner hold together.         *)
LEMMA LocksInvariance == Spec => []LockInv
<1>1. Init => LockInv
  BY InitEstablishes DEF LockInv, IndexOwnerInPlace, Init
<1>2. LockInv /\ [Next]_vars => LockInv'
  BY StepPreserves, HolderPreserved DEF LockInv
<1> QED
  BY <1>1, <1>2, PTL DEF Spec

(* No goroutine waits in a circle for the scan and the index mutex: behind *)
(* every goroutine that waits there is one that can take its next step.    *)
THEOREM LockOrder == Spec => []NoCircularWait
<1>1. LockInv => NoCircularWait
  <2> SUFFICES ASSUME LockInv, NEW g \in Goroutines, WaitsFor(g) # None
               PROVE  /\ WaitsFor(g) \in Goroutines /\ WaitsFor(g) # g
                      /\ \/ WaitsFor(WaitsFor(g)) = None
                         \/ /\ pc[g] = "lock"
                            /\ WaitsFor(WaitsFor(g)) = indexMu
                            /\ WaitsFor(WaitsFor(WaitsFor(g))) = None
    BY DEF NoCircularWait
  <2> USE DEF LockInv, ScanInv
  <2>1. indexMu # None => /\ indexMu \in Goroutines
                          /\ pc[indexMu] \in {"storeFiles", "indexed"}
                          /\ WaitsFor(indexMu) = None
    BY DEF IndexOwnerInPlace, WaitsFor, TypeOK
  <2>2. CASE pc[g] = "indexLock"
    <3>1. WaitsFor(g) = indexMu
      BY <2>2 DEF WaitsFor
    <3> QED
      BY <2>1, <2>2, <3>1
  <2>3. CASE pc[g] = "lock"
    <3>1. WaitsFor(g) = scanMu
      BY <2>3 DEF WaitsFor
    <3>2. scanMu \in Goroutines /\ pc[scanMu] \in ScanLabels \cup IndexLabels
      BY <3>1 DEF TypeOK, OwnerInPlace
    <3>3. CASE pc[scanMu] = "indexLock"
      <4>1. WaitsFor(scanMu) = indexMu
        BY <3>3 DEF WaitsFor
      <4>2. CASE indexMu = None
        BY <3>1, <3>2, <3>3, <2>3, <4>1, <4>2
      <4>3. CASE indexMu # None
        BY <2>1, <2>3, <3>1, <3>2, <3>3, <4>1, <4>3
      <4> QED
        BY <4>2, <4>3
    <3>4. CASE pc[scanMu] # "indexLock"
      <4>1. WaitsFor(scanMu) = None
        BY <3>2, <3>4 DEF WaitsFor
      <4> QED
        BY <2>3, <3>1, <3>2, <4>1
    <3> QED
      BY <3>3, <3>4
  <2> QED
    BY <2>2, <2>3 DEF WaitsFor
<1> QED
  BY <1>1, LocksInvariance, PTL

-----------------------------------------------------------------------------
(***************************************************************************)
(* Folder changes.                                                         *)
(***************************************************************************)
(* The index lock keeps older file lists from being stored last.           *)
LEMMA FoldersPreserved ==
  ASSUME FolderInv, [Next]_vars
  PROVE  FoldersInFlight'
<1> USE DEF FolderInv, FoldersInFlight, FolderTaskAt,
           ScanInv, TypeOK, LabelsByKind, ScansNeverOverlap
<1>1. ASSUME Initialized PROVE FoldersInFlight'
  BY <1>1 DEF Initialized, Spawn
<1>2. ASSUME DidChangeConfiguration PROVE FoldersInFlight'
  BY <1>2 DEF DidChangeConfiguration
<1>3. ASSUME RequestAfterConfiguration PROVE FoldersInFlight'
  BY <1>3 DEF RequestAfterConfiguration, Request
<1>4. ASSUME DidChangeWorkspaceFolders PROVE FoldersInFlight'
  BY <1>4 DEF DidChangeWorkspaceFolders, Spawn
<1>5. ASSUME IndexCommand PROVE FoldersInFlight'
  BY <1>5 DEF IndexCommand, Spawn
<1>6. ASSUME ScanCommand PROVE FoldersInFlight'
  BY <1>6 DEF ScanCommand, Request
<1>7. ASSUME NEW r \in Runners, TakeRequest(r) PROVE FoldersInFlight'
  BY <1>7 DEF TakeRequest
<1>8. ASSUME NEW r \in Runners, StopRunner(r) PROVE FoldersInFlight'
  BY <1>8 DEF StopRunner, Forget
<1>9. ASSUME NEW g \in Goroutines, LockScan(g) PROVE FoldersInFlight'
  BY <1>9 DEF LockScan
<1>10. ASSUME NEW g \in Goroutines, LockIndex(g) PROVE FoldersInFlight'
  BY <1>10 DEF LockIndex
<1>11. ASSUME NEW g \in Goroutines, StoreFiles(g) PROVE FoldersInFlight'
  BY <1>11 DEF StoreFiles
<1>12. ASSUME NEW g \in Goroutines, UnlockIndex(g) PROVE FoldersInFlight'
  BY <1>12 DEF UnlockIndex, AfterIndex, Forget
<1>13. ASSUME NEW g \in Goroutines, ReadProvider(g) PROVE FoldersInFlight'
  BY <1>13 DEF ReadProvider
<1>14. ASSUME NEW g \in Goroutines, CollectFiles(g) PROVE FoldersInFlight'
  BY <1>14 DEF CollectFiles, WorkspaceFileURIs
<1>15. ASSUME NEW g \in Goroutines, PublishScan(g) PROVE FoldersInFlight'
  BY <1>15 DEF PublishScan
<1>16. ASSUME NEW g \in Goroutines, ClearPublished(g) PROVE FoldersInFlight'
  BY <1>16 DEF ClearPublished
<1>17. ASSUME NEW g \in Goroutines, FinishScan(g) PROVE FoldersInFlight'
  BY <1>17 DEF FinishScan, Forget
<1>18. ASSUME NEW t \in Tasks, StartInitial(t) PROVE FoldersInFlight'
  BY <1>18 DEF StartInitial
<1>19. ASSUME NEW t \in Tasks, FinishInitial(t) PROVE FoldersInFlight'
  BY <1>19 DEF FinishInitial, Forget
<1>20. ASSUME NEW t \in Tasks, RequestAfterFolders(t) PROVE FoldersInFlight'
  BY <1>20 DEF RequestAfterFolders, Request, Forget
<1>21. ASSUME NEW t \in Tasks, ListFiles(t) PROVE FoldersInFlight'
  BY <1>21 DEF ListFiles, WorkspaceFileURIs
<1>22. ASSUME NEW t \in Tasks, ClearDiagnosticsOutsideWorkspace(t) PROVE FoldersInFlight'
  BY <1>22 DEF ClearDiagnosticsOutsideWorkspace, Forget
<1>23. CASE UNCHANGED vars
  BY <1>23 DEF vars
<1> QED
  BY <1>1, <1>2, <1>3, <1>4, <1>5, <1>6, <1>7, <1>8, <1>9, <1>10, <1>11,
     <1>12, <1>13, <1>14, <1>15, <1>16, <1>17, <1>18, <1>19, <1>20, <1>21,
     <1>22, <1>23
     DEF Next, Dispatch, RunnerStep, LockStep, WorkStep, TaskStep

(* A folder change's goroutine keeps what it read of scanOnStart.          *)
LEMMA AskPreserved ==
  ASSUME FolderInv, [Next]_vars
  PROVE  FolderTasksAsk'
<1> USE DEF FolderInv, FolderTasksAsk,
           ScanInv, TypeOK, LabelsByKind, ScansNeverOverlap
<1>1. ASSUME Initialized PROVE FolderTasksAsk'
  BY <1>1 DEF Initialized, Spawn
<1>2. ASSUME DidChangeConfiguration PROVE FolderTasksAsk'
  BY <1>2 DEF DidChangeConfiguration
<1>3. ASSUME RequestAfterConfiguration PROVE FolderTasksAsk'
  BY <1>3 DEF RequestAfterConfiguration, Request
<1>4. ASSUME DidChangeWorkspaceFolders PROVE FolderTasksAsk'
  BY <1>4 DEF DidChangeWorkspaceFolders, Spawn
<1>5. ASSUME IndexCommand PROVE FolderTasksAsk'
  BY <1>5 DEF IndexCommand, Spawn
<1>6. ASSUME ScanCommand PROVE FolderTasksAsk'
  BY <1>6 DEF ScanCommand, Request
<1>7. ASSUME NEW r \in Runners, TakeRequest(r) PROVE FolderTasksAsk'
  BY <1>7 DEF TakeRequest
<1>8. ASSUME NEW r \in Runners, StopRunner(r) PROVE FolderTasksAsk'
  BY <1>8 DEF StopRunner, Forget
<1>9. ASSUME NEW g \in Goroutines, LockScan(g) PROVE FolderTasksAsk'
  BY <1>9 DEF LockScan
<1>10. ASSUME NEW g \in Goroutines, LockIndex(g) PROVE FolderTasksAsk'
  BY <1>10 DEF LockIndex
<1>11. ASSUME NEW g \in Goroutines, StoreFiles(g) PROVE FolderTasksAsk'
  BY <1>11 DEF StoreFiles
<1>12. ASSUME NEW g \in Goroutines, UnlockIndex(g) PROVE FolderTasksAsk'
  BY <1>12 DEF UnlockIndex, AfterIndex, Forget
<1>13. ASSUME NEW g \in Goroutines, ReadProvider(g) PROVE FolderTasksAsk'
  BY <1>13 DEF ReadProvider
<1>14. ASSUME NEW g \in Goroutines, CollectFiles(g) PROVE FolderTasksAsk'
  BY <1>14 DEF CollectFiles, WorkspaceFileURIs
<1>15. ASSUME NEW g \in Goroutines, PublishScan(g) PROVE FolderTasksAsk'
  BY <1>15 DEF PublishScan
<1>16. ASSUME NEW g \in Goroutines, ClearPublished(g) PROVE FolderTasksAsk'
  BY <1>16 DEF ClearPublished
<1>17. ASSUME NEW g \in Goroutines, FinishScan(g) PROVE FolderTasksAsk'
  BY <1>17 DEF FinishScan, Forget
<1>18. ASSUME NEW t \in Tasks, StartInitial(t) PROVE FolderTasksAsk'
  BY <1>18 DEF StartInitial
<1>19. ASSUME NEW t \in Tasks, FinishInitial(t) PROVE FolderTasksAsk'
  BY <1>19 DEF FinishInitial, Forget
<1>20. ASSUME NEW t \in Tasks, RequestAfterFolders(t) PROVE FolderTasksAsk'
  BY <1>20 DEF RequestAfterFolders, Request, Forget
<1>21. ASSUME NEW t \in Tasks, ListFiles(t) PROVE FolderTasksAsk'
  BY <1>21 DEF ListFiles, WorkspaceFileURIs
<1>22. ASSUME NEW t \in Tasks, ClearDiagnosticsOutsideWorkspace(t) PROVE FolderTasksAsk'
  BY <1>22 DEF ClearDiagnosticsOutsideWorkspace, Forget
<1>23. CASE UNCHANGED vars
  BY <1>23 DEF vars
<1> QED
  BY <1>1, <1>2, <1>3, <1>4, <1>5, <1>6, <1>7, <1>8, <1>9, <1>10, <1>11,
     <1>12, <1>13, <1>14, <1>15, <1>16, <1>17, <1>18, <1>19, <1>20, <1>21,
     <1>22, <1>23
     DEF Next, Dispatch, RunnerStep, LockStep, WorkStep, TaskStep

(* Until a fresh list is taken, what will be shown is of the latest folders. *)
LEMMA ShownPreserved ==
  ASSUME ShownInv, ScanOnStartValues = {TRUE}, [Next]_vars
  PROVE  ShownInFlight'
<1> USE DEF ShownInv, FolderInv, FoldersInFlight, FolderTasksAsk, FolderTaskAt,
           ShownInFlight, WillList, Scanning,
           ScanInv, TypeOK, LabelsByKind, ScansNeverOverlap
<1>1. ASSUME Initialized PROVE ShownInFlight'
  BY <1>1 DEF Initialized, Spawn
<1>2. ASSUME DidChangeConfiguration PROVE ShownInFlight'
  BY <1>2 DEF DidChangeConfiguration
<1>3. ASSUME RequestAfterConfiguration PROVE ShownInFlight'
  BY <1>3 DEF RequestAfterConfiguration, Request
<1>4. ASSUME DidChangeWorkspaceFolders PROVE ShownInFlight'
  BY <1>4 DEF DidChangeWorkspaceFolders, Spawn
<1>5. ASSUME IndexCommand PROVE ShownInFlight'
  BY <1>5 DEF IndexCommand, Spawn
<1>6. ASSUME ScanCommand PROVE ShownInFlight'
  BY <1>6 DEF ScanCommand, Request
<1>7. ASSUME NEW r \in Runners, TakeRequest(r) PROVE ShownInFlight'
  BY <1>7 DEF TakeRequest
<1>8. ASSUME NEW r \in Runners, StopRunner(r) PROVE ShownInFlight'
  BY <1>8 DEF StopRunner, Forget
<1>9. ASSUME NEW g \in Goroutines, LockScan(g) PROVE ShownInFlight'
  BY <1>9 DEF LockScan
<1>10. ASSUME NEW g \in Goroutines, LockIndex(g) PROVE ShownInFlight'
  BY <1>10 DEF LockIndex
<1>11. ASSUME NEW g \in Goroutines, StoreFiles(g) PROVE ShownInFlight'
  BY <1>11 DEF StoreFiles
<1>12. ASSUME NEW g \in Goroutines, UnlockIndex(g) PROVE ShownInFlight'
  <2>1. pc[g] = "indexed" /\ pc'[g] # "publish"
          /\ \A h \in Goroutines : h # g => pc'[h] = pc[h] /\ files'[h] = files[h]
    BY <1>12 DEF UnlockIndex, AfterIndex, Forget
  <2>2. UNCHANGED <<queued, kind, shownFiles, folders>>
    BY <1>12 DEF UnlockIndex
  <2>3. CASE g \in Runners
    <3>1. pc'[g] = "scan"
      BY <1>12, <2>3 DEF UnlockIndex, AfterIndex
    <3> QED
      BY <2>3, <3>1
  <2>4. CASE g \in Tasks /\ kind[g] = "folders"
    <3>1. pc'[g] = "ask" /\ kind'[g] = "folders"
      BY <1>12, <2>4 DEF UnlockIndex, AfterIndex
    <3> QED
      BY <2>4, <3>1
  <2>5. CASE g \in Tasks /\ kind[g] # "folders"
    <3>1. WillList => WillList'
      BY <2>1, <2>2, <2>5
    <3>2. CASE ~WillList
      BY <2>1, <2>2, <2>5, <3>2
    <3> QED
      BY <3>1, <3>2
  <2> QED
    BY <2>3, <2>4, <2>5
<1>13. ASSUME NEW g \in Goroutines, ReadProvider(g) PROVE ShownInFlight'
  BY <1>13 DEF ReadProvider
<1>14. ASSUME NEW g \in Goroutines, CollectFiles(g) PROVE ShownInFlight'
  BY <1>14 DEF CollectFiles, WorkspaceFileURIs
<1>15. ASSUME NEW g \in Goroutines, PublishScan(g) PROVE ShownInFlight'
  BY <1>15 DEF PublishScan
<1>16. ASSUME NEW g \in Goroutines, ClearPublished(g) PROVE ShownInFlight'
  BY <1>16 DEF ClearPublished
<1>17. ASSUME NEW g \in Goroutines, FinishScan(g) PROVE ShownInFlight'
  BY <1>17 DEF FinishScan, Forget
<1>18. ASSUME NEW t \in Tasks, StartInitial(t) PROVE ShownInFlight'
  BY <1>18 DEF StartInitial
<1>19. ASSUME NEW t \in Tasks, FinishInitial(t) PROVE ShownInFlight'
  BY <1>19 DEF FinishInitial, Forget
<1>20. ASSUME NEW t \in Tasks, RequestAfterFolders(t) PROVE ShownInFlight'
  BY <1>20 DEF RequestAfterFolders, Request, Forget
<1>21. ASSUME NEW t \in Tasks, ListFiles(t) PROVE ShownInFlight'
  BY <1>21 DEF ListFiles, WorkspaceFileURIs
<1>22. ASSUME NEW t \in Tasks, ClearDiagnosticsOutsideWorkspace(t) PROVE ShownInFlight'
  BY <1>22 DEF ClearDiagnosticsOutsideWorkspace, Forget
<1>23. CASE UNCHANGED vars
  BY <1>23 DEF vars
<1> QED
  BY <1>1, <1>2, <1>3, <1>4, <1>5, <1>6, <1>7, <1>8, <1>9, <1>10, <1>11,
     <1>12, <1>13, <1>14, <1>15, <1>16, <1>17, <1>18, <1>19, <1>20, <1>21,
     <1>22, <1>23
     DEF Next, Dispatch, RunnerStep, LockStep, WorkStep, TaskStep
(* FolderInv and ShownInv hold initially.                                  *)
LEMMA FoldersInit == Init => FolderInv /\ ShownInFlight
<1> SUFFICES ASSUME Init PROVE FolderInv /\ ShownInFlight
  OBVIOUS
<1>1. ScanInv
  BY InitEstablishes
<1>2. FoldersInFlight /\ FolderTasksAsk
  BY DEF Init, FoldersInFlight, FolderTasksAsk
<1>3. ShownInFlight
  BY DEF Init, ShownInFlight
<1> QED
  BY <1>1, <1>2, <1>3 DEF FolderInv

(* Whatever index passes overlap a folder change, only the goroutine of    *)
(* the latest change can leave the stored list stale, and only until it    *)
(* has stored its own.                                                     *)
THEOREM FoldersInvariance == Spec => []FolderInv
<1>1. Init => FolderInv
  BY FoldersInit
<1>2. FolderInv /\ [Next]_vars => FolderInv'
  <2> SUFFICES ASSUME FolderInv, [Next]_vars PROVE FolderInv'
    OBVIOUS
  <2>1. ScanInv'
    BY StepPreserves DEF FolderInv
  <2>2. FoldersInFlight' /\ FolderTasksAsk'
    BY FoldersPreserved, AskPreserved
  <2> QED
    BY <2>1, <2>2 DEF FolderInv
<1> QED
  BY <1>1, <1>2, PTL DEF Spec

(* Once everything has settled the stored file list is that of the latest  *)
(* workspace folders.                                                      *)
THEOREM FoldersSettle == Spec => []LatestFoldersIndexed
<1>1. FolderInv => LatestFoldersIndexed
  <2>1. SUFFICES ASSUME FolderInv, Quiet PROVE WorkspaceFileURIs = folders
    BY DEF LatestFoldersIndexed
  <2>2. ~FolderTaskAt({"indexLock", "storeFiles"})
    BY <2>1 DEF Quiet, FolderTaskAt
  <2> QED
    BY <2>1, <2>2 DEF FolderInv, FoldersInFlight, WorkspaceFileURIs
<1> QED
  BY <1>1, FoldersInvariance, PTL

(* With workspaceScanOnStart on, nothing of removed folders is left at the *)
(* client once everything has settled.                                     *)
THEOREM ShownFoldersSettle ==
  ASSUME ScanOnStartValues = {TRUE}
  PROVE  Spec => []LatestFoldersShown
<1>1. Init => ShownInv
  BY FoldersInit DEF ShownInv
<1>2. FolderInv' /\ ShownInv /\ [Next]_vars => ShownInv'
  BY ShownPreserved DEF ShownInv
<1>3. ShownInv => LatestFoldersShown
  <2>1. SUFFICES ASSUME ShownInv, Quiet PROVE shownFiles \subseteq {folders}
    BY DEF LatestFoldersShown
  <2>2. ~queued
    BY <2>1 DEF Quiet, ShownInv, FolderInv, ScanInv, RunnerServesQueue
  <2>3. ~WillList
    BY <2>1, <2>2 DEF Quiet, WillList, FolderTaskAt
  <2> QED
    BY <2>1, <2>3 DEF Quiet, ShownInv, ShownInFlight
<1> QED
  BY <1>1, <1>2, <1>3, FoldersInvariance, PTL DEF Spec

-----------------------------------------------------------------------------
(***************************************************************************)
(* The flags and the runner implement CoalescedScans (its safety part; the *)
(* liveness part is checked by TLC).                                       *)
(***************************************************************************)
(* The initial state maps to the promise's initial state.                  *)
LEMMA InitRefines == Init => Promise!Init
BY DEF Init, Promise!Init, AbstractPending, AbstractServing, Busy

(* Asking strengthens what is pending and disturbs no scan.                *)
LEMMA RequestAsks ==
  ASSUME ScanInv, NEW index \in BOOLEAN, NEW from, Request(index, from),
         from \in [Goroutines -> Labels], \A r \in Runners : from[r] = pc[r],
         \A r \in Runners : flag'[r] = flag[r]
  PROVE  Promise!Ask(IF index THEN "index" ELSE "scan")
<1> USE DEF ScanInv, TypeOK, RunnerServesQueue
<1>1. \A r \in Runners : Busy(r)' = Busy(r)
  BY DEF Request, Busy
<1>2. AbstractServing' = AbstractServing
  BY <1>1 DEF AbstractServing
<1>3. AbstractPending' = Promise!Stronger(AbstractPending, IF index THEN "index" ELSE "scan")
  BY DEF Request, AbstractPending, Promise!Stronger
<1> QED
  BY <1>2, <1>3 DEF Promise!Ask

(* A step that leaves the flags, the runners' labels and their wishes      *)
(* alone is invisible to the promise.                                      *)
LEMMA Invisible ==
  ASSUME UNCHANGED <<queued, wantIndex>>,
         \A r \in Runners : Busy(r)' = Busy(r) /\ flag'[r] = flag[r]
  PROVE  UNCHANGED Promise!vars
BY DEF Promise!vars, AbstractPending, AbstractServing

(* Every step is a step of the promise or a stutter.                       *)
LEMMA StepRefines ==
  ASSUME ScanInv, [Next]_vars
  PROVE  [Promise!Next]_Promise!vars
<1> USE DEF ScanInv, TypeOK, LabelsByKind
<1>1. ASSUME Initialized PROVE [Promise!Next]_Promise!vars
  <2>1. \A r \in Runners : Busy(r)' = Busy(r) /\ flag'[r] = flag[r]
    <3>1. PICK t \in Tasks, l \in {"start", "indexLock"}, b \in BOOLEAN :
            pc' = [pc EXCEPT ![t] = l] /\ flag' = [flag EXCEPT ![t] = b]
      BY <1>1 DEF Initialized, Spawn
    <3>2. \A r \in Runners : r # t /\ pc'[r] = pc[r] /\ flag'[r] = flag[r]
      BY <3>1
    <3> QED
      BY <3>2 DEF Busy
  <2>2. UNCHANGED <<queued, wantIndex>>
    BY <1>1 DEF Initialized
  <2>3. UNCHANGED Promise!vars
    BY <2>1, <2>2, Invisible
  <2> QED
    BY <2>3
<1>2. ASSUME DidChangeConfiguration PROVE [Promise!Next]_Promise!vars
  <2>1. \A r \in Runners : Busy(r)' = Busy(r) /\ flag'[r] = flag[r]
    BY <1>2 DEF DidChangeConfiguration, Busy
  <2>2. UNCHANGED <<queued, wantIndex>>
    BY <1>2 DEF DidChangeConfiguration
  <2>3. UNCHANGED Promise!vars
    BY <2>1, <2>2, Invisible
  <2> QED
    BY <2>3
<1>3. ASSUME RequestAfterConfiguration PROVE [Promise!Next]_Promise!vars
  <2>1. Request(FALSE, pc) /\ \A r \in Runners : flag'[r] = flag[r]
    BY <1>3 DEF RequestAfterConfiguration
  <2>2. Promise!Ask("scan")
    BY <1>3, <2>1, RequestAsks
  <2> QED
    BY <2>2 DEF Promise!Next
<1>4. ASSUME DidChangeWorkspaceFolders PROVE [Promise!Next]_Promise!vars
  <2>1. \A r \in Runners : Busy(r)' = Busy(r) /\ flag'[r] = flag[r]
    <3>1. PICK t \in Tasks, l \in {"start", "indexLock"}, b \in BOOLEAN :
            pc' = [pc EXCEPT ![t] = l] /\ flag' = [flag EXCEPT ![t] = b]
      BY <1>4 DEF DidChangeWorkspaceFolders, Spawn
    <3>2. \A r \in Runners : r # t /\ pc'[r] = pc[r] /\ flag'[r] = flag[r]
      BY <3>1
    <3> QED
      BY <3>2 DEF Busy
  <2>2. UNCHANGED <<queued, wantIndex>>
    BY <1>4 DEF DidChangeWorkspaceFolders
  <2>3. UNCHANGED Promise!vars
    BY <2>1, <2>2, Invisible
  <2> QED
    BY <2>3
<1>5. ASSUME IndexCommand PROVE [Promise!Next]_Promise!vars
  <2>1. \A r \in Runners : Busy(r)' = Busy(r) /\ flag'[r] = flag[r]
    <3>1. PICK t \in Tasks, l \in {"start", "indexLock"}, b \in BOOLEAN :
            pc' = [pc EXCEPT ![t] = l] /\ flag' = [flag EXCEPT ![t] = b]
      BY <1>5 DEF IndexCommand, Spawn
    <3>2. \A r \in Runners : r # t /\ pc'[r] = pc[r] /\ flag'[r] = flag[r]
      BY <3>1
    <3> QED
      BY <3>2 DEF Busy
  <2>2. UNCHANGED <<queued, wantIndex>>
    BY <1>5 DEF IndexCommand
  <2>3. UNCHANGED Promise!vars
    BY <2>1, <2>2, Invisible
  <2> QED
    BY <2>3
<1>6. ASSUME ScanCommand PROVE [Promise!Next]_Promise!vars
  <2>1. Request(TRUE, pc) /\ \A r \in Runners : flag'[r] = flag[r]
    BY <1>6 DEF ScanCommand
  <2>2. Promise!Ask("index")
    BY <1>6, <2>1, RequestAsks
  <2> QED
    BY <2>2 DEF Promise!Next
<1>7. ASSUME NEW r \in Runners, TakeRequest(r) PROVE [Promise!Next]_Promise!vars
  <2>1. \A s \in Runners : ~Busy(s)
    BY <1>7 DEF TakeRequest, RunnerServesQueue, Busy
  <2>2. Busy(r)' /\ (flag'[r] <=> wantIndex) /\ \A s \in Runners : Busy(s)' => s = r
    BY <1>7, <2>1 DEF TakeRequest, Busy
  <2>3. AbstractServing = "none" /\ AbstractServing' = AbstractPending
    BY <1>7, <2>1, <2>2 DEF TakeRequest, AbstractServing, AbstractPending
  <2>4. AbstractPending # "none" /\ AbstractPending' = "none"
    BY <1>7 DEF TakeRequest, AbstractPending
  <2> QED
    BY <2>3, <2>4 DEF Promise!Next, Promise!Begin
<1>8. ASSUME NEW r \in Runners, StopRunner(r) PROVE [Promise!Next]_Promise!vars
  <2>1. (\A s \in Runners : ~Busy(s)) /\ (\A s \in Runners : ~Busy(s)')
    BY <1>8 DEF StopRunner, RunnerServesQueue, Busy
  <2> QED
    BY <1>8, <2>1 DEF StopRunner, Promise!vars, AbstractPending, AbstractServing
<1>9. ASSUME NEW g \in Goroutines, LockScan(g) PROVE [Promise!Next]_Promise!vars
  <2>1. \A r \in Runners : Busy(r)' = Busy(r) /\ flag'[r] = flag[r]
    BY <1>9 DEF LockScan, Busy
  <2>2. UNCHANGED <<queued, wantIndex>>
    BY <1>9 DEF LockScan
  <2>3. UNCHANGED Promise!vars
    BY <2>1, <2>2, Invisible
  <2> QED
    BY <2>3
<1>10. ASSUME NEW g \in Goroutines, LockIndex(g) PROVE [Promise!Next]_Promise!vars
  <2>1. \A r \in Runners : Busy(r)' = Busy(r) /\ flag'[r] = flag[r]
    BY <1>10 DEF LockIndex, Busy
  <2>2. UNCHANGED <<queued, wantIndex>>
    BY <1>10 DEF LockIndex
  <2>3. UNCHANGED Promise!vars
    BY <2>1, <2>2, Invisible
  <2> QED
    BY <2>3
<1>11. ASSUME NEW g \in Goroutines, StoreFiles(g) PROVE [Promise!Next]_Promise!vars
  <2>1. \A r \in Runners : Busy(r)' = Busy(r) /\ flag'[r] = flag[r]
    BY <1>11 DEF StoreFiles, Busy
  <2>2. UNCHANGED <<queued, wantIndex>>
    BY <1>11 DEF StoreFiles
  <2>3. UNCHANGED Promise!vars
    BY <2>1, <2>2, Invisible
  <2> QED
    BY <2>3
<1>12. ASSUME NEW g \in Goroutines, UnlockIndex(g) PROVE [Promise!Next]_Promise!vars
  <2>1. \A r \in Runners : Busy(r)' = Busy(r) /\ flag'[r] = flag[r]
    BY <1>12 DEF UnlockIndex, AfterIndex, Forget, Busy
  <2>2. UNCHANGED <<queued, wantIndex>>
    BY <1>12 DEF UnlockIndex
  <2>3. UNCHANGED Promise!vars
    BY <2>1, <2>2, Invisible
  <2> QED
    BY <2>3
<1>13. ASSUME NEW g \in Goroutines, ReadProvider(g) PROVE [Promise!Next]_Promise!vars
  <2>1. \A r \in Runners : Busy(r)' = Busy(r) /\ flag'[r] = flag[r]
    BY <1>13 DEF ReadProvider, Busy
  <2>2. UNCHANGED <<queued, wantIndex>>
    BY <1>13 DEF ReadProvider
  <2>3. UNCHANGED Promise!vars
    BY <2>1, <2>2, Invisible
  <2> QED
    BY <2>3
<1>14. ASSUME NEW g \in Goroutines, CollectFiles(g) PROVE [Promise!Next]_Promise!vars
  <2>1. \A r \in Runners : Busy(r)' = Busy(r) /\ flag'[r] = flag[r]
    BY <1>14 DEF CollectFiles, WorkspaceFileURIs, Busy
  <2>2. UNCHANGED <<queued, wantIndex>>
    BY <1>14 DEF CollectFiles
  <2>3. UNCHANGED Promise!vars
    BY <2>1, <2>2, Invisible
  <2> QED
    BY <2>3
<1>15. ASSUME NEW g \in Goroutines, PublishScan(g) PROVE [Promise!Next]_Promise!vars
  <2>1. \A r \in Runners : Busy(r)' = Busy(r) /\ flag'[r] = flag[r]
    BY <1>15 DEF PublishScan, Busy
  <2>2. UNCHANGED <<queued, wantIndex>>
    BY <1>15 DEF PublishScan
  <2>3. UNCHANGED Promise!vars
    BY <2>1, <2>2, Invisible
  <2> QED
    BY <2>3
<1>16. ASSUME NEW g \in Goroutines, ClearPublished(g) PROVE [Promise!Next]_Promise!vars
  <2>1. \A r \in Runners : Busy(r)' = Busy(r) /\ flag'[r] = flag[r]
    BY <1>16 DEF ClearPublished, Busy
  <2>2. UNCHANGED <<queued, wantIndex>>
    BY <1>16 DEF ClearPublished
  <2>3. UNCHANGED Promise!vars
    BY <2>1, <2>2, Invisible
  <2> QED
    BY <2>3
<1>17. ASSUME NEW g \in Goroutines, FinishScan(g) PROVE [Promise!Next]_Promise!vars
  <2>1. CASE g \in Runners
    <3>1. Busy(g) /\ \A s \in Runners : ~Busy(s)'
      BY <1>17, <2>1 DEF FinishScan, RunnerServesQueue, Busy
    <3>2. AbstractServing # "none" /\ AbstractServing' = "none"
      BY <2>1, <3>1 DEF AbstractServing
    <3>3. AbstractPending' = AbstractPending
      BY <1>17 DEF FinishScan, AbstractPending
    <3> QED
      BY <3>2, <3>3 DEF Promise!Next, Promise!End
  <2>2. CASE g \notin Runners
    <3>1. \A r \in Runners : Busy(r)' = Busy(r) /\ flag'[r] = flag[r]
      BY <1>17, <2>2 DEF FinishScan, Forget, Busy
    <3>2. UNCHANGED <<queued, wantIndex>>
      BY <1>17 DEF FinishScan
    <3>3. UNCHANGED Promise!vars
      BY <3>1, <3>2, Invisible
    <3> QED
      BY <3>3
  <2> QED
    BY <2>1, <2>2
<1>18. ASSUME NEW t \in Tasks, StartInitial(t) PROVE [Promise!Next]_Promise!vars
  <2>1. \A r \in Runners : Busy(r)' = Busy(r) /\ flag'[r] = flag[r]
    BY <1>18 DEF StartInitial, Busy
  <2>2. UNCHANGED <<queued, wantIndex>>
    BY <1>18 DEF StartInitial
  <2>3. UNCHANGED Promise!vars
    BY <2>1, <2>2, Invisible
  <2> QED
    BY <2>3
<1>19. ASSUME NEW t \in Tasks, FinishInitial(t) PROVE [Promise!Next]_Promise!vars
  <2>1. \A r \in Runners : Busy(r)' = Busy(r) /\ flag'[r] = flag[r]
    BY <1>19 DEF FinishInitial, Forget, Busy
  <2>2. UNCHANGED <<queued, wantIndex>>
    BY <1>19 DEF FinishInitial
  <2>3. UNCHANGED Promise!vars
    BY <2>1, <2>2, Invisible
  <2> QED
    BY <2>3
<1>20. ASSUME NEW t \in Tasks, RequestAfterFolders(t) PROVE [Promise!Next]_Promise!vars
  <2>1. Request(FALSE, [pc EXCEPT ![t] = "idle"]) /\ \A r \in Runners : flag'[r] = flag[r]
    BY <1>20 DEF RequestAfterFolders, Forget
  <2>2. /\ [pc EXCEPT ![t] = "idle"] \in [Goroutines -> Labels]
        /\ \A r \in Runners : [pc EXCEPT ![t] = "idle"][r] = pc[r]
    OBVIOUS
  <2>3. Promise!Ask(IF FALSE THEN "index" ELSE "scan")
    BY <2>1, <2>2, RequestAsks
  <2> QED
    BY <2>3 DEF Promise!Next
<1>21. ASSUME NEW t \in Tasks, ListFiles(t) PROVE [Promise!Next]_Promise!vars
  <2>1. \A r \in Runners : Busy(r)' = Busy(r) /\ flag'[r] = flag[r]
    BY <1>21 DEF ListFiles, WorkspaceFileURIs, Busy
  <2>2. UNCHANGED <<queued, wantIndex>>
    BY <1>21 DEF ListFiles
  <2>3. UNCHANGED Promise!vars
    BY <2>1, <2>2, Invisible
  <2> QED
    BY <2>3
<1>22. ASSUME NEW t \in Tasks, ClearDiagnosticsOutsideWorkspace(t) PROVE [Promise!Next]_Promise!vars
  <2>1. \A r \in Runners : Busy(r)' = Busy(r) /\ flag'[r] = flag[r]
    BY <1>22 DEF ClearDiagnosticsOutsideWorkspace, Forget, Busy
  <2>2. UNCHANGED <<queued, wantIndex>>
    BY <1>22 DEF ClearDiagnosticsOutsideWorkspace
  <2>3. UNCHANGED Promise!vars
    BY <2>1, <2>2, Invisible
  <2> QED
    BY <2>3
<1>23. CASE UNCHANGED vars
  BY <1>23 DEF vars, Promise!vars, AbstractPending, AbstractServing, Busy
<1> QED
  BY <1>1, <1>2, <1>3, <1>4, <1>5, <1>6, <1>7, <1>8, <1>9, <1>10, <1>11, <1>12, <1>13, <1>14, <1>15, <1>16, <1>17, <1>18, <1>19, <1>20, <1>21, <1>22, <1>23 DEF Next, Dispatch, RunnerStep, LockStep, WorkStep, TaskStep

(* The model's safety part implements the promise's.                       *)
THEOREM Refinement == Spec => Promise!SafeSpec
<1>1. ScanInv /\ [Next]_vars => [Promise!Next]_Promise!vars
  BY StepRefines
<1> QED
  BY InitRefines, Invariance, <1>1, PTL DEF Spec, Promise!SafeSpec
=============================================================================
