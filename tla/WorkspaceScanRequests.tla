------------------------ MODULE WorkspaceScanRequests ------------------------
(***************************************************************************)
(* Workspace scans and workspace indexing in server/phpstrom/handler.go:   *)
(* the dispatcher's notifications that start them, the coalescing request  *)
(* flags, the runner goroutine, the goroutines of `initialized`,           *)
(* `didChangeWorkspaceFolders` and `phpstrom/indexWorkspace`, and the two  *)
(* mutexes (workspaceDiagnosticsMu, workspaceIndexMu) they contend for.    *)
(*                                                                         *)
(* A configuration is abstracted to the revision of its diagnostics        *)
(* fingerprint and the two switches the control flow reads.  A set of      *)
(* workspace folders is abstracted to its revision; one revision stands    *)
(* for the files below those folders.                                      *)
(***************************************************************************)
EXTENDS Naturals

CONSTANTS
  Runners,            \* goroutines requestWorkspaceDiagnostics may start
  Tasks,              \* goroutines the notifications themselves start
  None,               \* no owner, no file list
  ScanOnStartValues,  \* values workspaceScanOnStart takes
  MaxCfg,             \* bound on fingerprint changes
  MaxFolders          \* bound on workspace-folder changes

ASSUME GoroutinesAssumption == Runners \cap Tasks = {} /\ None \notin Runners \cup Tasks
ASSUME SwitchAssumption == ScanOnStartValues \subseteq BOOLEAN /\ ScanOnStartValues # {}
ASSUME BoundAssumption == MaxCfg \in Nat /\ MaxFolders \in Nat /\ None \notin Nat

Goroutines == Runners \cup Tasks

VARIABLES
  queued, wantIndex, active,  \* workspaceRequestQueued, ...Index, ...Active
  scanMu, indexMu,            \* owners of workspaceDiagnosticsMu, workspaceIndexMu
  pc,                         \* where each goroutine is
  kind,                       \* which notification started a task
  flag,                       \* goroutine-local boolean: `index`, `scanOnStart` or
                              \* the initial scan's `!diagnosticsEnabled`
  usedCfg, files,             \* goroutine-local: provider revision, file list
  cfg, enable, scanOnStart,   \* h.cfg and h.prov
  folders, workspaceURIs,     \* the indexer's folders and stored file list
  initialized,                \* the client has sent `initialized`
  initialIndexing, initialIndexDone,
  dispatcher,                 \* "ready", or between a configuration and its request
  shownCfg, shownFiles,       \* what the client displays of workspace results
  started                     \* Started minus Finished notifications sent

requestVars == <<queued, wantIndex, active>>
cfgVars == <<cfg, enable, scanOnStart>>
folderVars == <<folders, workspaceURIs>>
initialVars == <<initialized, initialIndexing, initialIndexDone>>
clientVars == <<shownCfg, shownFiles, started>>
vars == <<requestVars, scanMu, indexMu, pc, kind, flag, usedCfg, files, cfgVars,
          folderVars, initialVars, dispatcher, clientVars>>

Kinds == {"initial", "folders", "manual"}
RunnerLabels == {"idle", "take", "lock"}
ScanLabels == {"scan", "collect", "publish", "clear", "finish"}
IndexLabels == {"indexLock", "storeFiles", "indexed"}
TaskLabels == {"start", "initDone", "ask", "list", "clearOutside"}
Labels == RunnerLabels \cup ScanLabels \cup IndexLabels \cup TaskLabels

FolderRevs == 0..MaxFolders

TypeOK ==
  /\ queued \in BOOLEAN /\ wantIndex \in BOOLEAN /\ active \in BOOLEAN
  /\ scanMu \in Goroutines \cup {None} /\ indexMu \in Goroutines \cup {None}
  /\ pc \in [Goroutines -> Labels]
  /\ kind \in [Tasks -> Kinds]
  /\ flag \in [Goroutines -> BOOLEAN]
  /\ usedCfg \in [Goroutines -> 0..MaxCfg]
  /\ files \in [Goroutines -> FolderRevs]
  /\ cfg \in 0..MaxCfg /\ enable \in BOOLEAN /\ scanOnStart \in BOOLEAN
  /\ folders \in FolderRevs /\ workspaceURIs \in FolderRevs \cup {None}
  /\ initialized \in BOOLEAN /\ initialIndexing \in BOOLEAN /\ initialIndexDone \in BOOLEAN
  /\ dispatcher \in {"ready", "request"}
  /\ shownCfg \in 0..MaxCfg /\ shownFiles \subseteq FolderRevs
  /\ started \in 0..1

Init ==
  /\ queued = FALSE /\ wantIndex = FALSE /\ active = FALSE
  /\ scanMu = None /\ indexMu = None
  /\ pc = [g \in Goroutines |-> "idle"]
  /\ kind = [t \in Tasks |-> "manual"]
  /\ flag = [g \in Goroutines |-> FALSE]
  /\ usedCfg = [g \in Goroutines |-> 0]
  /\ files = [g \in Goroutines |-> 0]
  /\ cfg = 0 /\ enable \in BOOLEAN /\ scanOnStart \in ScanOnStartValues
  /\ folders = 0 /\ workspaceURIs = None
  /\ initialized = FALSE /\ initialIndexing = FALSE /\ initialIndexDone = FALSE
  /\ dispatcher = "ready"
  /\ shownCfg = 0 /\ shownFiles = {} /\ started = 0

(* Slips the request flags invite: a request dropped while a runner is     *)
(* active, and an index wish overwritten by a later plain request.         *)
RequestDroppedWhileActive(index, from) ==
  /\ queued' = ~active /\ active' = TRUE
  /\ wantIndex' = (wantIndex \/ index)
  /\ \/ active /\ pc' = from
     \/ ~active /\ \E r \in Runners : from[r] = "idle" /\ pc' = [from EXCEPT ![r] = "take"]

RequestOverwritingIndex(index, from) ==
  /\ queued' = TRUE /\ active' = TRUE
  /\ wantIndex' = index
  /\ \/ active /\ pc' = from
     \/ ~active /\ \E r \in Runners : from[r] = "idle" /\ pc' = [from EXCEPT ![r] = "take"]

(***************************************************************************)
(* requestWorkspaceDiagnostics.  from is the program-counter function      *)
(* after the caller's own step; the runner goroutine starts only when none *)
(* is active.                                                              *)
(***************************************************************************)
Request(index, from) ==
  /\ queued' = TRUE
  /\ wantIndex' = (wantIndex \/ index)
  /\ active' = TRUE
  /\ \/ active /\ pc' = from
     \/ /\ ~active
        /\ \E r \in Runners :
             /\ from[r] = "idle"
             /\ pc' = [from EXCEPT ![r] = "take"]

(* The list WorkspaceFileURIs returns: the stored one, or a walk of the    *)
(* current folders while none is stored.                                   *)
WorkspaceFileURIs == IF workspaceURIs = None THEN folders ELSE workspaceURIs

(* The locals of a goroutine die with it; its label says it is over.        *)
Forget(g) ==
  /\ flag' = [flag EXCEPT ![g] = FALSE]
  /\ usedCfg' = [usedCfg EXCEPT ![g] = 0]
  /\ files' = [files EXCEPT ![g] = 0]

(***************************************************************************)
(* The dispatcher's notifications.                                         *)
(***************************************************************************)
Spawn(k, label, local) ==
  \E t \in Tasks :
    /\ pc[t] = "idle"
    /\ pc' = [pc EXCEPT ![t] = label]
    /\ kind' = [kind EXCEPT ![t] = k]
    /\ flag' = [flag EXCEPT ![t] = local]

Initialized ==
  /\ dispatcher = "ready" /\ ~initialized
  /\ ~initialIndexing
  /\ initialized' = TRUE
  /\ initialIndexing' = TRUE
  /\ Spawn("initial", "start", FALSE)
  /\ UNCHANGED <<requestVars, scanMu, indexMu, usedCfg, files, cfgVars, folderVars,
                 initialIndexDone, dispatcher, clientVars>>

DidChangeConfiguration ==
  /\ dispatcher = "ready"
  /\ enable' \in BOOLEAN /\ scanOnStart' \in ScanOnStartValues
  /\ \/ /\ cfg < MaxCfg                     \* the fingerprint changes
        /\ cfg' = cfg + 1
        /\ dispatcher' = "request"
     \/ /\ enable' = enable                 \* it does not
        /\ UNCHANGED <<cfg, dispatcher>>
  /\ UNCHANGED <<requestVars, scanMu, indexMu, pc, kind, flag, usedCfg, files, folderVars,
                 initialVars, clientVars>>

RequestAfterConfiguration ==
  /\ dispatcher = "request"
  /\ dispatcher' = "ready"
  /\ Request(FALSE, pc)
  /\ UNCHANGED <<scanMu, indexMu, kind, flag, usedCfg, files, cfgVars, folderVars,
                 initialVars, clientVars>>

DidChangeWorkspaceFolders ==
  /\ dispatcher = "ready"
  /\ folders < MaxFolders
  /\ folders' = folders + 1
  /\ Spawn("folders", "indexLock", scanOnStart)
  /\ UNCHANGED <<requestVars, scanMu, indexMu, usedCfg, files, cfgVars, workspaceURIs,
                 initialVars, dispatcher, clientVars>>

IndexCommand ==
  /\ dispatcher = "ready"
  /\ Spawn("manual", "indexLock", FALSE)
  /\ UNCHANGED <<requestVars, scanMu, indexMu, usedCfg, files, cfgVars, folderVars,
                 initialVars, dispatcher, clientVars>>

ScanCommand ==
  /\ dispatcher = "ready"
  /\ Request(TRUE, pc)
  /\ UNCHANGED <<scanMu, indexMu, kind, flag, usedCfg, files, cfgVars, folderVars,
                 initialVars, dispatcher, clientVars>>

(***************************************************************************)
(* The runner's loop.                                                      *)
(***************************************************************************)
TakeRequest(r) ==
  /\ pc[r] = "take" /\ queued
  /\ flag' = [flag EXCEPT ![r] = wantIndex]
  /\ queued' = FALSE /\ wantIndex' = FALSE
  /\ pc' = [pc EXCEPT ![r] = "lock"]
  /\ UNCHANGED <<active, scanMu, indexMu, kind, usedCfg, files, cfgVars, folderVars,
                 initialVars, dispatcher, clientVars>>

StopRunnerWithoutRecheck(r) ==
  /\ pc[r] = "take"
  /\ active' = FALSE
  /\ pc' = [pc EXCEPT ![r] = "idle"]
  /\ Forget(r)
  /\ UNCHANGED <<queued, wantIndex, scanMu, indexMu, kind, cfgVars,
                 folderVars, initialVars, dispatcher, clientVars>>

StopRunner(r) ==
  /\ pc[r] = "take" /\ ~queued
  /\ active' = FALSE
  /\ pc' = [pc EXCEPT ![r] = "idle"]
  /\ Forget(r)
  /\ UNCHANGED <<queued, wantIndex, scanMu, indexMu, kind, cfgVars,
                 folderVars, initialVars, dispatcher, clientVars>>

(***************************************************************************)
(* Steps of every goroutine that indexes or scans.  LockScan announces     *)
(* Started; the initial scan also reads the enable switch there and        *)
(* remembers to clear instead of scanning.                                 *)
(***************************************************************************)
StartInitial(t) ==
  /\ pc[t] = "start"
  /\ pc' = [pc EXCEPT ![t] = IF scanOnStart THEN "lock" ELSE "indexLock"]
  /\ UNCHANGED <<requestVars, scanMu, indexMu, kind, flag, usedCfg, files, cfgVars,
                 folderVars, initialVars, dispatcher, clientVars>>

LockScanWithoutMutex(g) ==
  /\ pc[g] = "lock"
  /\ scanMu' = g
  /\ started' = started + 1
  /\ pc' = [pc EXCEPT ![g] = IF g \in Tasks \/ flag[g] THEN "indexLock" ELSE "scan"]
  /\ UNCHANGED <<requestVars, indexMu, kind, flag, usedCfg, files, cfgVars, folderVars,
                 initialVars, dispatcher, shownCfg, shownFiles>>

LockScan(g) ==
  /\ pc[g] = "lock" /\ scanMu = None
  /\ scanMu' = g
  /\ started' = started + 1
  /\ IF g \in Runners
       THEN /\ pc' = [pc EXCEPT ![g] = IF flag[g] THEN "indexLock" ELSE "scan"]
            /\ UNCHANGED <<flag, usedCfg>>
       ELSE /\ pc' = [pc EXCEPT ![g] = "indexLock"]
            /\ flag' = [flag EXCEPT ![g] = ~enable]
            /\ usedCfg' = [usedCfg EXCEPT ![g] = cfg]
  /\ UNCHANGED <<requestVars, indexMu, kind, files, cfgVars, folderVars, initialVars,
                 dispatcher, shownCfg, shownFiles>>

LockIndexWithoutMutex(g) ==
  /\ pc[g] = "indexLock"
  /\ indexMu' = g
  /\ files' = [files EXCEPT ![g] = folders]
  /\ pc' = [pc EXCEPT ![g] = "storeFiles"]
  /\ UNCHANGED <<requestVars, scanMu, kind, flag, usedCfg, cfgVars, folderVars,
                 initialVars, dispatcher, clientVars>>

LockIndex(g) ==
  /\ pc[g] = "indexLock" /\ indexMu = None
  /\ indexMu' = g
  /\ files' = [files EXCEPT ![g] = folders]
  /\ pc' = [pc EXCEPT ![g] = "storeFiles"]
  /\ UNCHANGED <<requestVars, scanMu, kind, flag, usedCfg, cfgVars, folderVars,
                 initialVars, dispatcher, clientVars>>

StoreFiles(g) ==
  /\ pc[g] = "storeFiles"
  /\ workspaceURIs' = files[g]
  /\ pc' = [pc EXCEPT ![g] = "indexed"]
  /\ UNCHANGED <<requestVars, scanMu, indexMu, kind, flag, usedCfg, files, cfgVars,
                 folders, initialVars, dispatcher, clientVars>>

AfterIndex(g) ==
  IF g \in Runners THEN "scan"
  ELSE CASE kind[g] = "manual" -> "idle"
         [] kind[g] = "folders" -> IF flag[g] THEN "ask" ELSE "list"
         [] kind[g] = "initial" -> IF scanMu # g THEN "initDone"
                                   ELSE IF flag[g] THEN "clear" ELSE "scan"

UnlockIndex(g) ==
  /\ pc[g] = "indexed"
  /\ indexMu' = None
  /\ pc' = [pc EXCEPT ![g] = AfterIndex(g)]
  /\ IF AfterIndex(g) = "idle" THEN Forget(g) ELSE UNCHANGED <<flag, usedCfg, files>>
  /\ UNCHANGED <<requestVars, scanMu, kind, cfgVars, folderVars, initialVars, dispatcher,
                 clientVars>>

(* runWorkspaceDiagnosticsLocked: read the provider, then the file list,   *)
(* analyse, publish and clear what lies outside the list.                  *)
ReadProvider(g) ==
  /\ pc[g] = "scan"
  /\ usedCfg' = [usedCfg EXCEPT ![g] = cfg]
  /\ pc' = [pc EXCEPT ![g] = IF enable THEN "collect" ELSE "clear"]
  /\ UNCHANGED <<requestVars, scanMu, indexMu, kind, flag, files, cfgVars, folderVars,
                 initialVars, dispatcher, clientVars>>

CollectFiles(g) ==
  /\ pc[g] = "collect"
  /\ files' = [files EXCEPT ![g] = WorkspaceFileURIs]
  /\ pc' = [pc EXCEPT ![g] = "publish"]
  /\ UNCHANGED <<requestVars, scanMu, indexMu, kind, flag, usedCfg, cfgVars, folderVars,
                 initialVars, dispatcher, clientVars>>

PublishScan(g) ==
  /\ pc[g] = "publish"
  /\ shownCfg' = usedCfg[g]
  /\ shownFiles' = {files[g]}
  /\ pc' = [pc EXCEPT ![g] = "finish"]
  /\ UNCHANGED <<requestVars, scanMu, indexMu, kind, flag, usedCfg, files, cfgVars,
                 folderVars, initialVars, dispatcher, started>>

ClearPublished(g) ==
  /\ pc[g] = "clear"
  /\ shownCfg' = usedCfg[g]
  /\ shownFiles' = {}
  /\ pc' = [pc EXCEPT ![g] = "finish"]
  /\ UNCHANGED <<requestVars, scanMu, indexMu, kind, flag, usedCfg, files, cfgVars,
                 folderVars, initialVars, dispatcher, started>>

FinishScanSilently(g) ==
  /\ pc[g] = "finish"
  /\ scanMu' = None
  /\ pc' = [pc EXCEPT ![g] = IF g \in Runners THEN "take" ELSE "initDone"]
  /\ Forget(g)
  /\ UNCHANGED <<requestVars, indexMu, kind, cfgVars, folderVars,
                 initialVars, dispatcher, clientVars>>

FinishScan(g) ==
  /\ pc[g] = "finish"
  /\ started' = started - 1
  /\ scanMu' = None
  /\ pc' = [pc EXCEPT ![g] = IF g \in Runners THEN "take" ELSE "initDone"]
  /\ Forget(g)
  /\ UNCHANGED <<requestVars, indexMu, kind, cfgVars, folderVars,
                 initialVars, dispatcher, shownCfg, shownFiles>>

(***************************************************************************)
(* How the tasks end.                                                      *)
(***************************************************************************)
FinishInitialWithoutClose(t) ==
  /\ pc[t] = "initDone"
  /\ initialIndexing' = FALSE
  /\ pc' = [pc EXCEPT ![t] = "idle"]
  /\ Forget(t)
  /\ UNCHANGED <<requestVars, scanMu, indexMu, kind, cfgVars,
                 folderVars, initialized, initialIndexDone, dispatcher, clientVars>>

FinishInitial(t) ==
  /\ pc[t] = "initDone"
  /\ initialIndexing' = FALSE
  /\ initialIndexDone' = TRUE
  /\ pc' = [pc EXCEPT ![t] = "idle"]
  /\ Forget(t)
  /\ UNCHANGED <<requestVars, scanMu, indexMu, kind, cfgVars,
                 folderVars, initialized, dispatcher, clientVars>>

RequestAfterFoldersForgotten(t) ==
  /\ pc[t] = "ask"
  /\ pc' = [pc EXCEPT ![t] = "idle"]
  /\ Forget(t)
  /\ UNCHANGED <<requestVars, scanMu, indexMu, kind, cfgVars,
                 folderVars, initialVars, dispatcher, clientVars>>

RequestAfterFolders(t) ==
  /\ pc[t] = "ask"
  /\ Request(FALSE, [pc EXCEPT ![t] = "idle"])
  /\ Forget(t)
  /\ UNCHANGED <<scanMu, indexMu, kind, cfgVars, folderVars,
                 initialVars, dispatcher, clientVars>>

ListFiles(t) ==
  /\ pc[t] = "list"
  /\ files' = [files EXCEPT ![t] = WorkspaceFileURIs]
  /\ pc' = [pc EXCEPT ![t] = "clearOutside"]
  /\ UNCHANGED <<requestVars, scanMu, indexMu, kind, flag, usedCfg, cfgVars, folderVars,
                 initialVars, dispatcher, clientVars>>

ClearDiagnosticsOutsideWorkspace(t) ==
  /\ pc[t] = "clearOutside"
  /\ shownFiles' = shownFiles \cap {files[t]}
  /\ pc' = [pc EXCEPT ![t] = "idle"]
  /\ Forget(t)
  /\ UNCHANGED <<requestVars, scanMu, indexMu, kind, cfgVars,
                 folderVars, initialVars, dispatcher, shownCfg, started>>

-----------------------------------------------------------------------------
Dispatch ==
  \/ Initialized
  \/ DidChangeConfiguration
  \/ RequestAfterConfiguration
  \/ DidChangeWorkspaceFolders
  \/ IndexCommand
  \/ ScanCommand

RunnerStep(r) == TakeRequest(r) \/ StopRunner(r)

LockStep(g) == LockScan(g) \/ LockIndex(g)

WorkStep(g) ==
  \/ StoreFiles(g)
  \/ UnlockIndex(g)
  \/ ReadProvider(g)
  \/ CollectFiles(g)
  \/ PublishScan(g)
  \/ ClearPublished(g)
  \/ FinishScan(g)

TaskStep(t) ==
  \/ StartInitial(t)
  \/ FinishInitial(t)
  \/ RequestAfterFolders(t)
  \/ ListFiles(t)
  \/ ClearDiagnosticsOutsideWorkspace(t)

Next ==
  \/ Dispatch
  \/ \E r \in Runners : RunnerStep(r)
  \/ \E g \in Goroutines : LockStep(g) \/ WorkStep(g)
  \/ \E t \in Tasks : TaskStep(t)

(* Goroutines keep running, the dispatcher finishes a notification it has  *)
(* begun, and sync.Mutex hands a contended lock to a starving waiter, so   *)
(* acquisition is strongly fair.  Notifications are never obliged to come. *)
Fairness ==
  /\ WF_vars(RequestAfterConfiguration)
  /\ \A r \in Runners : WF_vars(RunnerStep(r))
  /\ \A g \in Goroutines : WF_vars(WorkStep(g)) /\ SF_vars(LockStep(g))
  /\ \A t \in Tasks : WF_vars(TaskStep(t))

Spec == Init /\ [][Next]_vars
FairSpec == Spec /\ Fairness

-----------------------------------------------------------------------------
(* A goroutine that owns the scan: from LockScan to FinishScan.            *)
Scanning(g) ==
  \/ pc[g] \in ScanLabels
  \/ g \in Runners /\ pc[g] \in IndexLabels

(* Every notification handled, every goroutine ended.                      *)
Quiet == dispatcher = "ready" /\ \A g \in Goroutines : pc[g] = "idle"

(* Started and Finished alternate at the client, and only the goroutine    *)
(* that owns workspaceDiagnosticsMu is between them: the client replaces   *)
(* its staged results on the assumption that two scans never overlap.      *)
ScansNeverOverlap ==
  /\ started = IF scanMu = None THEN 0 ELSE 1
  /\ \A g \in Goroutines : Scanning(g) => scanMu = g
  /\ \A g \in Goroutines : pc[g] \in {"storeFiles", "indexed"} => indexMu = g

(* No wake-up is lost between a request and a runner that is about to end: *)
(* a queued request always has a runner, workspaceRequestActive says       *)
(* exactly whether one lives, and there is never a second one.             *)
RunnerServesQueue ==
  /\ queued => active
  /\ wantIndex => queued
  /\ active <=> \E r \in Runners : pc[r] # "idle"
  /\ \A r, s \in Runners : pc[r] # "idle" /\ pc[s] # "idle" => r = s

(* When everything has settled the client shows workspace diagnostics made *)
(* with the latest configuration, whatever scans were running, queued or   *)
(* starting when it changed.                                               *)
LatestConfigurationShown == Quiet => shownCfg = cfg

(* When everything has settled the stored file list is that of the latest  *)
(* folders, however many index passes overlapped the change.               *)
LatestFoldersIndexed == Quiet => WorkspaceFileURIs = folders

(* With workspaceScanOnStart on, no diagnostics of removed folders are     *)
(* left at the client once everything has settled.  (With it off, a scan   *)
(* that listed its files before the change may publish after the           *)
(* clearing.)                                                              *)
LatestFoldersShown == Quiet => shownFiles \subseteq {folders}

(* The flags and the runner implement the coalescing promise, liveness     *)
(* included: every request is followed by a scan that begins after it, and *)
(* by one that indexes if it asked for that.                               *)
AbstractPending ==
  IF ~queued THEN "none" ELSE IF wantIndex THEN "index" ELSE "scan"
Busy(r) == pc[r] \notin {"idle", "take"}
AbstractServing ==
  IF \E r \in Runners : Busy(r) /\ flag[r] THEN "index"
  ELSE IF \E r \in Runners : Busy(r) THEN "scan" ELSE "none"
Promise == INSTANCE CoalescedScans
             WITH pending <- AbstractPending, serving <- AbstractServing,
                  NoScan <- "none", PlainScan <- "scan", IndexScan <- "index"
CoalescesRequests == Promise!Spec

(* initialIndexDone is closed once indexing has begun, so the document     *)
(* callbacks that wait for it are released even while other scans and      *)
(* index passes compete for the mutexes.                                   *)
InitialIndexingEnds == initialIndexing ~> initialIndexDone

-----------------------------------------------------------------------------
(***************************************************************************)
(* The inductive invariant behind these properties.                        *)
(***************************************************************************)
(* Which labels each kind of goroutine reaches.                            *)
LabelsByKind ==
  /\ \A r \in Runners : pc[r] \in RunnerLabels \cup ScanLabels \cup IndexLabels
  /\ \A t \in Tasks :
       /\ pc[t] # "take"
       /\ pc[t] \in {"lock", "start", "initDone"} \cup ScanLabels => kind[t] = "initial"
       /\ pc[t] \in {"ask", "list", "clearOutside"} => kind[t] = "folders"

(* The owner of workspaceDiagnosticsMu is inside a scan.                   *)
OwnerInPlace ==
  \A g \in Goroutines : scanMu = g =>
    /\ pc[g] \in ScanLabels \cup IndexLabels
    /\ g \in Tasks => kind[g] = "initial"

(* A goroutine that has read the configuration it will publish under.      *)
WillPublish(g) ==
  \/ pc[g] \in {"collect", "publish", "clear"}
  \/ g \in Tasks /\ pc[g] \in IndexLabels /\ scanMu = g /\ flag[g]

(* Some scan is still going to read the configuration.                     *)
WillRead ==
  \/ dispatcher = "request"
  \/ queued
  \/ \E r \in Runners : pc[r] \in {"lock", "scan"} \cup IndexLabels

(* Unless a scan is still to read the configuration, whatever is about to  *)
(* be published was made with the current one, and it is or will be shown. *)
ConfigurationInFlight ==
  WillRead \/
    /\ \A g \in Goroutines : WillPublish(g) => usedCfg[g] = cfg
    /\ shownCfg = cfg \/ \E g \in Goroutines : WillPublish(g)

ScanInv ==
  /\ TypeOK
  /\ LabelsByKind
  /\ OwnerInPlace
  /\ ScansNeverOverlap
  /\ RunnerServesQueue
  /\ ConfigurationInFlight

(* The owner of workspaceIndexMu is inside its index pass.                 *)
IndexOwnerInPlace ==
  \A g \in Goroutines : indexMu = g => pc[g] \in {"storeFiles", "indexed"}

LockInv == ScanInv /\ IndexOwnerInPlace

(* What a goroutine waits for: the owner of the mutex it is about to lock. *)
WaitsFor(g) ==
  CASE pc[g] = "lock"      -> scanMu
    [] pc[g] = "indexLock" -> indexMu
    [] OTHER               -> None

(* workspaceDiagnosticsMu is taken before workspaceIndexMu and never after *)
(* it, so nobody waits in a circle: whoever waits for one of them waits    *)
(* for a goroutine that runs, or for one that waits for one that runs, the *)
(* owner of workspaceIndexMu.                                              *)
NoCircularWait ==
  \A g \in Goroutines : WaitsFor(g) # None =>
    /\ WaitsFor(g) \in Goroutines /\ WaitsFor(g) # g
    /\ \/ WaitsFor(WaitsFor(g)) = None
       \/ /\ pc[g] = "lock"
          /\ WaitsFor(WaitsFor(g)) = indexMu
          /\ WaitsFor(WaitsFor(WaitsFor(g))) = None

(* The goroutine of a folder change that is still at one of these labels.  *)
FolderTaskAt(labels) == \E t \in Tasks : kind[t] = "folders" /\ pc[t] \in labels

(* Until the goroutine of the latest folder change has the index lock, the *)
(* list about to be stored may be stale; until it has stored its own, the  *)
(* stored one may be.                                                      *)
FoldersInFlight ==
  /\ FolderTaskAt({"indexLock"}) \/
       \A g \in Goroutines : pc[g] = "storeFiles" => files[g] = folders
  /\ FolderTaskAt({"indexLock", "storeFiles"}) \/ workspaceURIs \in {None, folders}

(* With scanOnStart on, that goroutine asks for a scan when it has indexed.*)
FolderTasksAsk ==
  /\ scanOnStart \in ScanOnStartValues
  /\ \A t \in Tasks : kind[t] = "folders" /\ pc[t] \in IndexLabels =>
       flag[t] \in ScanOnStartValues

(* Some scan is still going to list the files of the latest folders.       *)
WillList ==
  \/ FolderTaskAt(IndexLabels \cup {"ask"})
  \/ queued
  \/ \E r \in Runners : pc[r] \in {"lock", "scan", "collect"} \cup IndexLabels

(* Otherwise what is about to be published is of the latest folders, and   *)
(* so is what is shown unless a publication is about to replace it.        *)
ShownInFlight ==
  WillList \/
    /\ \A g \in Goroutines : pc[g] = "publish" => files[g] = folders
    /\ shownFiles \subseteq {folders} \/ \E g \in Goroutines : pc[g] \in {"publish", "clear"}

FolderInv == ScanInv /\ FoldersInFlight /\ FolderTasksAsk
ShownInv == FolderInv /\ (ScanOnStartValues = {TRUE} => ShownInFlight)
=============================================================================
