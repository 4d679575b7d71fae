--------------------------- MODULE DocumentAnalysis ---------------------------
(***************************************************************************)
(* Analysis of open documents in server/phpstrom/handler.go: the           *)
(* dispatcher's didOpen, didChange, didSave, didClose and exit             *)
(* notifications, the debounce timers they arm, the timer callbacks that   *)
(* run as goroutines of their own, the semaphore that limits them, and the *)
(* guarded publication at the end.  The indexer contributes IndexDocument  *)
(* and RemoveDocument (server/indexer/indexer.go), whose symbol table and  *)
(* project hash are two stores written one after the other.                *)
(*                                                                         *)
(* A text is an element of a small set; Faulty texts are those whose       *)
(* analysis yields diagnostics.  The same actions serve the timer          *)
(* callbacks (works) and the dispatcher, which runs a job of its own while *)
(* it handles didSave and didClose.                                        *)
(*                                                                         *)
(* Workspace scans publish too, also of open documents, in either mode     *)
(* (runWorkspaceDiagnosticsLocked).  Here a scan is how far it has come    *)
(* with each document; its workers, cap and timeouts, and its order among  *)
(* documents, are in ScanWorkers.  Diagnostics stay enabled, and no file   *)
(* is ignored.                                                             *)
(***************************************************************************)
EXTENDS Naturals, FiniteSets

CONSTANTS
  Uris,          \* documents
  Outside,       \* documents the server may not read from disk
  Works,         \* timer callbacks that may exist at a time
  Dispatcher,    \* the goroutine that reads messages
  None,          \* no text, no document, no timer
  Texts, Faulty, \* texts, and those that yield diagnostics
  MaxVersion,    \* bound on the versions of a document
  MaxWorkers,    \* maxDocumentAnalysisWorkers
  Modes,         \* values of diagnostics.run: "onType", "onSave"
  ScanModes,     \* bound: the modes in which workspace scans are explored
  SaveCallbacks  \* bound: timer callbacks that may exist at a time with onSave

ASSUME DocumentAssumption ==
  /\ Outside \subseteq Uris /\ Faulty \subseteq Texts
  /\ None \notin Uris \cup Texts \cup [version : Nat, text : Texts]
ASSUME ActorAssumption ==
  Dispatcher \notin Works /\ None \notin Works /\ IsFiniteSet(Works)
ASSUME LimitAssumption ==
  /\ MaxVersion \in Nat \ {0} /\ MaxWorkers \in Nat \ {0} /\ SaveCallbacks \in Nat
  /\ Modes \subseteq {"onType", "onSave"}

Actors == Works \cup {Dispatcher}

VARIABLES
  mode,       \* h.cfg.Diagnostics.Run
  doc,        \* the document store
  timers,     \* documentAnalysisTimers: the work each entry points to
  pc, job,    \* where each actor is and what it works on
  slots,      \* holders of documentAnalysisSem
  indexing,   \* the initial index pass: "no", "running", "done"
  index,      \* the text each document's symbols come from
  hash,       \* projectHashes: the text last indexed completely
  shown,      \* the text whose diagnostics the client displays
  published,  \* publishedDiagnostics
  accepted,   \* history: the document the last guarded publication matched
  scan,       \* each document's result in the workspace scan, and its next step
  scanned     \* history: documents about which a scan notified last

storeVars == <<index, hash>>
clientVars == <<shown, published>>
scanVars == <<scan, scanned>>
vars == <<mode, doc, timers, pc, job, slots, indexing, storeVars, clientVars, accepted,
          scanVars>>

Documents == [version : 1..MaxVersion, text : Texts]
Kinds == {"index", "analyse", "save", "close"}
NoJob == [uri |-> None, version |-> 0, text |-> None, kind |-> "index"]
Jobs == [uri : Uris \cup {None}, version : 0..MaxVersion, text : Texts \cup {None},
         kind : Kinds]

TimerLabels == {"armed", "fired", "gate", "snapshot"}
HeldLabels == {"hash", "symbols", "nodes", "check", "notify", "mark", "finish"}
ScanLabels == {"idle", "compare", "notify", "mark", "clear"}

(* Version 0: a result that is not compared (again) before it is sent.     *)
Result(at, version, text) == [at |-> at, version |-> version, text |-> text]
NoResult == Result("idle", 0, None)
Results == [at : ScanLabels, version : 0..MaxVersion, text : Texts \cup {None}]
Labels == {"free", "ready", "exited", "acquire"} \cup TimerLabels \cup HeldLabels

TypeOK ==
  /\ mode \in Modes
  /\ doc \in [Uris -> Documents \cup {None}]
  /\ timers \in [Uris -> Works \cup {None}]
  /\ pc \in [Actors -> Labels]
  /\ job \in [Actors -> Jobs]
  /\ slots \subseteq Actors
  /\ indexing \in {"no", "running", "done"}
  /\ index \in [Uris -> Texts \cup {None}] /\ hash \in [Uris -> Texts \cup {None}]
  /\ shown \in [Uris -> Texts \cup {None}] /\ published \in [Uris -> BOOLEAN]
  /\ accepted \in [Uris -> Documents \cup {None}]
  /\ scan \in [Uris -> Results]
  /\ scanned \subseteq Uris

Init ==
  /\ mode \in Modes
  /\ doc = [u \in Uris |-> None]
  /\ timers = [u \in Uris |-> None]
  /\ pc = [a \in Actors |-> IF a = Dispatcher THEN "ready" ELSE "free"]
  /\ job = [a \in Actors |-> NoJob]
  /\ slots = {}
  /\ indexing = "no"
  /\ index = [u \in Uris |-> None] /\ hash = [u \in Uris |-> None]
  /\ shown = [u \in Uris |-> None] /\ published = [u \in Uris |-> FALSE]
  /\ accepted = [u \in Uris |-> None]
  /\ scan = [u \in Uris |-> NoResult]
  /\ scanned = {}

-----------------------------------------------------------------------------
(* What reading u from disk may give: the file may be newer or older than  *)
(* the client's buffer, missing, or outside the workspace.                 *)
DiskTexts(u) == IF u \in Outside THEN {None} ELSE Texts \cup {None}

(* timer.Stop on u's entry: a work that has not fired ends.                *)
Stopped(u) == {w \in Works : w = timers[u] /\ pc[w] = "armed"}
StopTimer(u, f, idle) == [w \in Actors |-> IF w \in Stopped(u) THEN idle ELSE f[w]]

NewJob(u, version, kind) ==
  [uri |-> u, version |-> version, text |-> None, kind |-> kind]

(* scheduleDocumentWork, called by the dispatcher.                         *)
Schedule(u, version, kind) ==
  \E w \in Works :
    /\ pc[w] = "free" \/ w \in Stopped(u)
    /\ mode = "onSave" =>
         Cardinality({x \in Works \ Stopped(u) : pc[x] # "free"}) < SaveCallbacks
    /\ timers' = [timers EXCEPT ![u] = w]
    /\ pc' = [StopTimer(u, pc, "free") EXCEPT ![w] = "armed"]
    /\ job' = [StopTimer(u, job, NoJob) EXCEPT ![w] = NewJob(u, version, kind)]

(* cancelDocumentAnalysis, and the job the dispatcher then starts itself.  *)
CancelAndRun(u, label, newJob) ==
  /\ timers' = [timers EXCEPT ![u] = None]
  /\ pc' = [StopTimer(u, pc, "free") EXCEPT ![Dispatcher] = label]
  /\ job' = [StopTimer(u, job, NoJob) EXCEPT ![Dispatcher] = newJob]

RunWithoutCancel(u, label, newJob) ==
  /\ pc' = [pc EXCEPT ![Dispatcher] = label]
  /\ job' = [job EXCEPT ![Dispatcher] = newJob]
  /\ UNCHANGED timers

(***************************************************************************)
(* The dispatcher's notifications.  That a document is opened while closed *)
(* and changed or saved while open is the client's protocol; versions grow *)
(* by one up to MaxVersion.                                                *)
(***************************************************************************)
OpenAtVersionZero(u, text) ==
  /\ pc[Dispatcher] = "ready" /\ doc[u] = None
  /\ doc' = [doc EXCEPT ![u] = [version |-> 0, text |-> text]]
  /\ accepted' = [accepted EXCEPT ![u] = None]
  /\ Schedule(u, 0, IF mode = "onType" THEN "analyse" ELSE "index")
  /\ UNCHANGED <<mode, scanVars, slots, indexing, storeVars, clientVars>>

OpenAlwaysAnalysing(u, text) ==
  /\ pc[Dispatcher] = "ready" /\ doc[u] = None
  /\ doc' = [doc EXCEPT ![u] = [version |-> 1, text |-> text]]
  /\ accepted' = [accepted EXCEPT ![u] = None]
  /\ Schedule(u, 1, "analyse")
  /\ UNCHANGED <<mode, scanVars, slots, indexing, storeVars, clientVars>>

Open(u, text) ==
  /\ pc[Dispatcher] = "ready" /\ doc[u] = None
  /\ doc' = [doc EXCEPT ![u] = [version |-> 1, text |-> text]]
  /\ accepted' = [accepted EXCEPT ![u] = None]
  /\ Schedule(u, 1, IF mode = "onType" THEN "analyse" ELSE "index")
  /\ UNCHANGED <<mode, scanVars, slots, indexing, storeVars, clientVars>>

Change(u, text) ==
  /\ pc[Dispatcher] = "ready" /\ doc[u] # None
  /\ doc[u].version < MaxVersion
  /\ doc' = [doc EXCEPT ![u] = [version |-> doc[u].version + 1, text |-> text]]
  /\ IF mode = "onType"
       THEN Schedule(u, doc[u].version + 1, "analyse")
       ELSE UNCHANGED <<timers, pc, job>>
  /\ UNCHANGED <<mode, scanVars, slots, indexing, storeVars, clientVars, accepted>>

(* The text on disk replaces the client's, under the same version.         *)
SaveWithStaleText(u, disk) ==
  /\ pc[Dispatcher] = "ready" /\ doc[u] # None
  /\ doc' = [doc EXCEPT ![u].text = IF disk = None THEN @ ELSE disk]
  /\ CancelAndRun(u, "acquire", [uri |-> u, version |-> doc[u].version,
                                 text |-> doc[u].text, kind |-> "save"])
  /\ UNCHANGED <<mode, scanVars, slots, indexing, storeVars, clientVars, accepted>>

Save(u, disk) ==
  /\ pc[Dispatcher] = "ready" /\ doc[u] # None
  /\ LET text == IF disk = None THEN doc[u].text ELSE disk IN
       /\ doc' = [doc EXCEPT ![u].text = text]
       /\ CancelAndRun(u, "acquire", [uri |-> u, version |-> doc[u].version,
                                      text |-> text, kind |-> "save"])
  /\ UNCHANGED <<mode, scanVars, slots, indexing, storeVars, clientVars, accepted>>

CloseWithoutCancel(u, disk) ==
  /\ pc[Dispatcher] = "ready"
  /\ doc' = [doc EXCEPT ![u] = None]
  /\ accepted' = [accepted EXCEPT ![u] = None]
  /\ RunWithoutCancel(u, "hash", [uri |-> u, version |-> 0, kind |-> "close",
                                  text |-> IF doc[u] = None THEN None ELSE disk])
  /\ UNCHANGED <<mode, scanVars, slots, indexing, storeVars, clientVars>>

(* A closed document is indexed from disk, or removed (text None).         *)
Close(u, disk) ==
  /\ pc[Dispatcher] = "ready"
  /\ doc' = [doc EXCEPT ![u] = None]
  /\ accepted' = [accepted EXCEPT ![u] = None]
  /\ CancelAndRun(u, "hash", [uri |-> u, version |-> 0, kind |-> "close",
                              text |-> IF doc[u] = None THEN None ELSE disk])
  /\ UNCHANGED <<mode, scanVars, slots, indexing, storeVars, clientVars>>

Exit ==
  /\ pc[Dispatcher] = "ready"
  /\ timers' = [u \in Uris |-> None]
  /\ LET stopped == UNION {Stopped(u) : u \in Uris} IN
       /\ pc' = [a \in Actors |-> IF a = Dispatcher THEN "exited"
                                  ELSE IF a \in stopped THEN "free" ELSE pc[a]]
       /\ job' = [a \in Actors |-> IF a \in stopped THEN NoJob ELSE job[a]]
  /\ UNCHANGED <<mode, scanVars, doc, slots, indexing, storeVars, clientVars, accepted>>

(* The initial index pass that callbacks wait for; its own work on the     *)
(* stores is left to the indexer.                                          *)
StartInitialIndexing ==
  /\ pc[Dispatcher] = "ready" /\ indexing = "no"
  /\ indexing' = "running"
  /\ UNCHANGED <<mode, scanVars, doc, timers, pc, job, slots, storeVars, clientVars,
                 accepted>>

NeverFinishInitialIndexing ==
  /\ indexing = "running"
  /\ UNCHANGED vars

FinishInitialIndexing ==
  /\ indexing = "running"
  /\ indexing' = "done"
  /\ UNCHANGED <<mode, scanVars, doc, timers, pc, job, slots, storeVars, clientVars,
                 accepted>>

(***************************************************************************)
(* A timer callback: release its own entry, wait for the initial index,    *)
(* take a snapshot and drop out if the version is no longer current.       *)
(***************************************************************************)
Goto(a, label) == pc' = [pc EXCEPT ![a] = label]

End(w) == Goto(w, "free") /\ job' = [job EXCEPT ![w] = NoJob]

Fire(w) ==
  /\ pc[w] = "armed"
  /\ Goto(w, "fired")
  /\ UNCHANGED <<mode, scanVars, doc, timers, job, slots, indexing, storeVars,
                 clientVars, accepted>>

ReleaseAnyEntry(w) ==
  /\ pc[w] = "fired"
  /\ timers' = [timers EXCEPT ![job[w].uri] = None]
  /\ Goto(w, "gate")
  /\ UNCHANGED <<mode, scanVars, doc, job, slots, indexing, storeVars, clientVars,
                 accepted>>

ReleaseEntry(w) ==
  /\ pc[w] = "fired"
  /\ timers' = [timers EXCEPT ![job[w].uri] = IF @ = w THEN None ELSE @]
  /\ Goto(w, "gate")
  /\ UNCHANGED <<mode, scanVars, doc, job, slots, indexing, storeVars, clientVars,
                 accepted>>

PassGate(w) ==
  /\ pc[w] = "gate" /\ indexing # "running"
  /\ Goto(w, "snapshot")
  /\ UNCHANGED <<mode, scanVars, doc, timers, job, slots, indexing, storeVars,
                 clientVars, accepted>>

Snapshot(w) ==
  /\ pc[w] = "snapshot"
  /\ LET d == doc[job[w].uri] IN
       IF d # None /\ d.version = job[w].version
         THEN /\ job' = [job EXCEPT ![w].text = d.text]
              /\ Goto(w, "acquire")
         ELSE End(w)
  /\ UNCHANGED <<mode, scanVars, doc, timers, slots, indexing, storeVars, clientVars,
                 accepted>>

(***************************************************************************)
(* The job: index the text, then publish its diagnostics.                  *)
(***************************************************************************)
AcquireWithoutLimit(a) ==
  /\ pc[a] = "acquire"
  /\ slots' = slots \cup {a}
  /\ Goto(a, "hash")
  /\ UNCHANGED <<mode, scanVars, doc, timers, job, indexing, storeVars, clientVars,
                 accepted>>

Acquire(a) ==
  /\ pc[a] = "acquire" /\ Cardinality(slots) < MaxWorkers
  /\ slots' = slots \cup {a}
  /\ Goto(a, "hash")
  /\ UNCHANGED <<mode, scanVars, doc, timers, job, indexing, storeVars, clientVars,
                 accepted>>

AfterIndexing(a) ==
  CASE job[a].kind = "index" -> "finish"
    [] job[a].kind = "close" -> "notify"
    [] OTHER -> "check"

(* IndexDocument skips a text it has indexed last.                         *)
CompareHash(a) ==
  /\ pc[a] = "hash"
  /\ Goto(a, IF job[a].text # None /\ hash[job[a].uri] = job[a].text
               THEN AfterIndexing(a) ELSE "symbols")
  /\ UNCHANGED <<mode, scanVars, doc, timers, job, slots, indexing, storeVars,
                 clientVars, accepted>>

PutSymbols(a) ==
  /\ pc[a] = "symbols"
  /\ index' = [index EXCEPT ![job[a].uri] = job[a].text]
  /\ Goto(a, "nodes")
  /\ UNCHANGED <<mode, scanVars, doc, timers, job, slots, indexing, hash, clientVars,
                 accepted>>

PutNodes(a) ==
  /\ pc[a] = "nodes"
  /\ hash' = [hash EXCEPT ![job[a].uri] = job[a].text]
  /\ Goto(a, AfterIndexing(a))
  /\ UNCHANGED <<mode, scanVars, doc, timers, job, slots, indexing, index, clientVars,
                 accepted>>

(* publishDiagnostics: version and text must still match when the analysis *)
(* has ended.                                                              *)
Matches(a) ==
  doc[job[a].uri] = [version |-> job[a].version, text |-> job[a].text]

CheckLeakingSlot(a) ==
  /\ pc[a] = "check"
  /\ IF Matches(a)
       THEN /\ accepted' = [accepted EXCEPT ![job[a].uri] = doc[job[a].uri]]
            /\ Goto(a, "notify") /\ UNCHANGED job
       ELSE IF a \in Works
              THEN End(a) /\ UNCHANGED accepted
              ELSE Goto(a, "finish") /\ UNCHANGED <<accepted, job>>
  /\ UNCHANGED <<mode, scanVars, doc, timers, slots, indexing, storeVars, clientVars>>

CheckCurrent(a) ==
  /\ pc[a] = "check"
  /\ IF Matches(a)
       THEN /\ accepted' = [accepted EXCEPT ![job[a].uri] = doc[job[a].uri]]
            /\ Goto(a, "notify")
       ELSE /\ Goto(a, "finish")
            /\ UNCHANGED accepted
  /\ UNCHANGED <<mode, scanVars, doc, timers, job, slots, indexing, storeVars, clientVars>>

(* notifyDiagnostics: the client first, then publishedDiagnostics.         *)
NotifyClient(a) ==
  /\ pc[a] = "notify"
  /\ shown' = [shown EXCEPT ![job[a].uri] = job[a].text]
  /\ scanned' = scanned \ {job[a].uri}
  /\ Goto(a, "mark")
  /\ UNCHANGED <<mode, scan, doc, timers, job, slots, indexing, storeVars, published,
                 accepted>>

MarkNeverForgetting(a) ==
  /\ pc[a] = "mark"
  /\ published' = [published EXCEPT ![job[a].uri] = @ \/ job[a].text \in Faulty]
  /\ Goto(a, "finish")
  /\ UNCHANGED <<mode, scanVars, doc, timers, job, slots, indexing, storeVars, shown,
                 accepted>>

MarkPublished(a) ==
  /\ pc[a] = "mark"
  /\ published' = [published EXCEPT ![job[a].uri] = job[a].text \in Faulty]
  /\ Goto(a, "finish")
  /\ UNCHANGED <<mode, scanVars, doc, timers, job, slots, indexing, storeVars, shown,
                 accepted>>

(* The slot is given back; the dispatcher answers and reads on.  (The      *)
(* callback's second look at its timer entry finds it gone.)               *)
Finish(a) ==
  /\ pc[a] = "finish"
  /\ slots' = slots \ {a}
  /\ Goto(a, IF a = Dispatcher THEN "ready" ELSE "free")
  /\ job' = [job EXCEPT ![a] = NoJob]
  /\ UNCHANGED <<mode, scanVars, doc, timers, indexing, storeVars, clientVars, accepted>>

(***************************************************************************)
(* A workspace scan analyses the buffer of a document that is open and the *)
(* file of another, and publishes the results when it has collected all;   *)
(* only those of open documents are compared again.  A document may stay   *)
(* without a result (abandoned, capped), and one that the last index pass  *)
(* did not list is cleared.                                                *)
(***************************************************************************)
ScanOnly == UNCHANGED <<mode, doc, timers, pc, job, slots, indexing, storeVars, accepted>>

ScanDocument(u, disk) ==
  /\ mode \in ScanModes /\ scan[u].at = "idle"
  /\ scan' = [scan EXCEPT ![u] =
                IF doc[u] # None THEN Result("compare", doc[u].version, doc[u].text)
                                 ELSE Result("compare", 0, disk)]
  /\ UNCHANGED <<scanned, clientVars>> /\ ScanOnly

ScanCompare(u) ==
  /\ scan[u].at = "compare"
  /\ LET current == \/ scan[u].version = 0
                    \/ doc[u] = [version |-> scan[u].version, text |-> scan[u].text] IN
       scan' = [scan EXCEPT ![u] = IF current THEN Result("notify", 0, scan[u].text)
                                              ELSE NoResult]
  /\ UNCHANGED <<scanned, clientVars>> /\ ScanOnly

(* A document without diagnostics is passed over unless it has some to     *)
(* clear (hasPublishedDiagnostics).                                        *)
ScanNotify(u) ==
  /\ scan[u].at = "notify"
  /\ IF scan[u].text \in Faulty \/ published[u]
       THEN /\ shown' = [shown EXCEPT ![u] = scan[u].text]
            /\ scanned' = scanned \cup {u}
            /\ scan' = [scan EXCEPT ![u].at = "mark"]
       ELSE scan' = [scan EXCEPT ![u] = NoResult] /\ UNCHANGED <<shown, scanned>>
  /\ UNCHANGED published /\ ScanOnly

ScanMark(u) ==
  /\ scan[u].at = "mark"
  /\ published' = [published EXCEPT ![u] = scan[u].text \in Faulty]
  /\ scan' = [scan EXCEPT ![u] = NoResult]
  /\ UNCHANGED <<shown, scanned>> /\ ScanOnly

(* clearDiagnosticsOutsideWorkspace: here the set first, the client last.  *)
ScanForget(u) ==
  /\ mode \in ScanModes /\ scan[u].at = "idle" /\ published[u]
  /\ published' = [published EXCEPT ![u] = FALSE]
  /\ scan' = [scan EXCEPT ![u] = Result("clear", 0, None)]
  /\ UNCHANGED <<shown, scanned>> /\ ScanOnly

ScanClear(u) ==
  /\ scan[u].at = "clear"
  /\ shown' = [shown EXCEPT ![u] = None]
  /\ scanned' = scanned \cup {u}
  /\ scan' = [scan EXCEPT ![u] = NoResult]
  /\ UNCHANGED published /\ ScanOnly

-----------------------------------------------------------------------------
Dispatch ==
  \/ \E u \in Uris, text \in Texts : Open(u, text) \/ Change(u, text)
  \/ \E u \in Uris : \E disk \in DiskTexts(u) : Save(u, disk) \/ Close(u, disk)
  \/ Exit
  \/ StartInitialIndexing

Callback(w) == Fire(w) \/ ReleaseEntry(w) \/ PassGate(w) \/ Snapshot(w)

JobStep(a) ==
  \/ CompareHash(a)
  \/ PutSymbols(a)
  \/ PutNodes(a)
  \/ CheckCurrent(a)
  \/ NotifyClient(a)
  \/ MarkPublished(a)
  \/ Finish(a)

ScanStep(u) ==
  \/ u \notin Outside /\ \E disk \in DiskTexts(u) : ScanDocument(u, disk)
  \/ ScanCompare(u) \/ ScanNotify(u) \/ ScanMark(u)
  \/ ScanForget(u) \/ ScanClear(u)

Next ==
  \/ Dispatch
  \/ FinishInitialIndexing
  \/ \E w \in Works : Callback(w)
  \/ \E a \in Actors : Acquire(a) \/ JobStep(a)
  \/ \E u \in Uris : ScanStep(u)

(* Timers fire, goroutines run, the initial index ends, and a goroutine    *)
(* blocked on a channel send is queued first come first served, so a slot  *)
(* that keeps becoming free is eventually its own.  Notifications are      *)
(* never obliged to come.                                                  *)
Fairness ==
  /\ WF_vars(FinishInitialIndexing)
  /\ \A w \in Works : WF_vars(Callback(w))
  /\ \A a \in Actors : WF_vars(JobStep(a)) /\ SF_vars(Acquire(a))

Spec == Init /\ [][Next]_vars
FairSpec == Spec /\ Fairness

-----------------------------------------------------------------------------
Quiet ==
  /\ \A w \in Works : pc[w] = "free"
  /\ pc[Dispatcher] = "ready"

(* Every callback that has not fired is the one its document's entry       *)
(* points to, so didSave, didClose, exit and a newer schedule can always   *)
(* stop it; an entry never points to a callback that went on or ended.     *)
TimersOwnArmedWork ==
  /\ \A w \in Works : pc[w] = "armed" => timers[job[w].uri] = w
  /\ \A u \in Uris : timers[u] # None =>
       pc[timers[u]] \in {"armed", "fired"} /\ job[timers[u]].uri = u

(* With onType, a callback that has not fired is for the current version   *)
(* of a document that is open: nothing stale waits in a timer.             *)
ArmedWorkIsCurrent ==
  mode = "onType" =>
    \A w \in Works : pc[w] = "armed" =>
      /\ doc[job[w].uri] # None
      /\ job[w].version = doc[job[w].uri].version

(* At most maxDocumentAnalysisWorkers jobs run at a time, and a slot is    *)
(* held by exactly the jobs of runDocumentAnalysis, which didClose's       *)
(* re-indexing is not.                                                     *)
SlotsHeldInside ==
  /\ slots = {a \in Actors : pc[a] \in HeldLabels /\ job[a].kind # "close"}
  /\ Cardinality(slots) <= MaxWorkers

(* With onType, when everything has settled, the last guarded publication  *)
(* of every open document was for its current version and text: no         *)
(* interleaving of edits, saves, reopening, cancellation and stale drops   *)
(* leaves the latest text unanalysed.                                      *)
LatestTextAnalysed ==
  Quiet /\ mode = "onType" =>
    \A u \in Uris : doc[u] # None => accepted[u] = doc[u]

(* With onSave, whatever edits and index callbacks are about, a document   *)
(* that was saved since it was opened is shown with the diagnostics of the *)
(* text last saved, unless a workspace scan, which analyses unsaved        *)
(* buffers too, has notified the client since: callbacks never publish.    *)
SavedTextShown ==
  mode = "onSave" /\ pc[Dispatcher] = "ready" =>
    \A u \in Uris \ scanned :
      accepted[u] # None => shown[u] = accepted[u].text

(* The dispatcher always comes back to reading messages: neither a full    *)
(* semaphore nor the wait for the initial index holds up didSave for ever. *)
HandlersFinish == pc[Dispatcher] \notin {"ready", "exited"} ~> pc[Dispatcher] = "ready"

(* With onType, an open document is eventually analysed in its current     *)
(* version and text, unless it is closed or the server exits.              *)
EveryTextAnalysed ==
  \A u \in Uris :
    mode = "onType" /\ doc[u] # None ~>
      doc[u] = None \/ accepted[u] = doc[u] \/ pc[Dispatcher] = "exited"

(* "Results are emitted only when both the document version and text still *)
(* match": the comment on PublishDocumentDiagnostics.                      *)
EmittedOnlyWhenCurrent ==
  [][\A a \in Actors : pc[a] = "notify" /\ pc'[a] = "mark" /\ job[a].kind # "close"
       => Matches(a)]_vars

(* A document outside the workspace leaves the index when it is closed     *)
(* (TestDidCloseDoesNotReadOutsideWorkspace).                              *)
ClosedOutsideDocumentsRemoved ==
  Quiet => \A u \in Outside : doc[u] = None => index[u] = None
-----------------------------------------------------------------------------
(***************************************************************************)
(* The inductive invariant behind these properties.                        *)
(***************************************************************************)
Working(a) == pc[a] \notin {"free", "ready", "exited"}

(* Which labels and kinds of job each actor reaches.                       *)
LabelsByActor ==
  /\ pc[Dispatcher] \in {"ready", "exited", "acquire"} \cup HeldLabels
  /\ \A w \in Works : pc[w] \in {"free", "acquire"} \cup TimerLabels \cup HeldLabels
  /\ \A a \in Actors : Working(a) => job[a].uri \in Uris
  /\ \A w \in Works : Working(w) =>
       job[w].kind = IF mode = "onType" THEN "analyse" ELSE "index"
  /\ Working(Dispatcher) => job[Dispatcher].kind \in {"save", "close"}
  /\ pc[Dispatcher] \in {"acquire", "check"} => job[Dispatcher].kind = "save"
  /\ mode = "onSave" => \A w \in Works : pc[w] \notin {"check", "notify", "mark"}

(* A job that will look at, or has looked at, document u as it now is.     *)
WillAnalyse(a, u) ==
  /\ job[a].uri = u /\ job[a].kind \in {"analyse", "save"}
  /\ job[a].version = doc[u].version
  /\ \/ pc[a] \in TimerLabels
     \/ /\ pc[a] \in {"acquire", "hash", "symbols", "nodes", "check"}
        /\ job[a].text = doc[u].text

(* With onType an open document has been, or will be, analysed as it is.   *)
LatestTextInFlight ==
  mode = "onType" /\ pc[Dispatcher] # "exited" =>
    \A u \in Uris : doc[u] # None =>
      accepted[u] = doc[u] \/ \E a \in Actors : WillAnalyse(a, u)

(* How the client lags behind the dispatcher.                              *)
Publishing(u, label) == pc[Dispatcher] = label /\ job[Dispatcher].uri = u

SavedTextInFlight ==
  mode = "onSave" =>
    \A u \in Uris :
      /\ accepted[u] # None =>
           IF Publishing(u, "notify")
             THEN accepted[u].text = job[Dispatcher].text
             ELSE u \in scanned \/ shown[u] = accepted[u].text
      /\ Working(Dispatcher) /\ job[Dispatcher].uri = u /\ job[Dispatcher].kind = "close"
           => accepted[u] = None

DocInv ==
  /\ TypeOK
  /\ LabelsByActor
  /\ TimersOwnArmedWork
  /\ ArmedWorkIsCurrent
  /\ SlotsHeldInside
  /\ LatestTextInFlight
  /\ SavedTextInFlight
=============================================================================
