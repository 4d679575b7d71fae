----------------------------- MODULE ScanWorkers ------------------------------
(***************************************************************************)
(* One workspace scan: runWorkspaceDiagnosticsLocked in                    *)
(* server/phpstrom/handler.go, with its pool of workers, the diagnostics   *)
(* cap they share (workspaceDiagnosticsScanState.allow), the timeout that  *)
(* abandons a stuck analysis, and the publication of the results once all  *)
(* workers have ended.  The editor opens, edits and closes documents and   *)
(* publishes its own results meanwhile.                                    *)
(*                                                                         *)
(* A file's diagnostics are abstracted to their number, a document's       *)
(* version and text to a revision.  Results are published in the order of  *)
(* their names in the code and in any order here: the names are abstract.  *)
(***************************************************************************)
EXTENDS Naturals, FiniteSets, Functions

CONSTANTS
  Files,          \* the workspace files the scan lists
  Others,         \* other files that may have diagnostics from before
  Ignored,        \* files every rule ignores (IgnoresAll)
  Editable,       \* files the editor may open
  Workers,        \* the worker goroutines
  Procs,          \* GOMAXPROCS
  Limit,          \* workspaceDiagnosticsLimit
  MaxCount,       \* bound on the diagnostics of one file
  Revisions,      \* revisions of an open document
  None            \* no document, no result, no file

All == Files \cup Others
Counts == 0..MaxCount
Results == [count : Counts, revision : Revisions \cup {None}]

(***************************************************************************)
(* The size of the pool.                                                   *)
(***************************************************************************)
Smaller(a, b) == IF a < b THEN a ELSE b
Larger(a, b) == IF a > b THEN a ELSE b

MaxIndexingWorkers == 16

WorkerCountFor(n) ==
  IF n = 0 THEN 0
  ELSE Smaller(Smaller(Larger(Procs, 1), MaxIndexingWorkers), n)

DiagnosticWorkerCountFor(n) ==
  Smaller(WorkerCountFor(n),
          IF n < 1000 THEN 2
          ELSE IF n < 10000 THEN Larger(Larger(Procs, 1) \div 2, 2)
          ELSE Larger(Larger(Procs, 1) - 1, 2))

ASSUME FileAssumption ==
  /\ IsFiniteSet(Files) /\ Files \cap Others = {}
  /\ Ignored \subseteq Files /\ Editable \subseteq All
  /\ None \notin Files \cup Revisions
ASSUME LimitAssumption == Limit \in Nat /\ MaxCount \in Nat \ {0}
ASSUME ResultAssumption == None \notin Results
ASSUME PoolAssumption ==
  /\ IsFiniteSet(Workers) /\ Procs \in Nat
  /\ Cardinality(Workers) = DiagnosticWorkerCountFor(Cardinality(Files))

VARIABLES
  jobs,        \* files still in the channel
  pc, file,    \* where each worker is and the file it holds
  revision,    \* worker-local: the snapshot's revision, None if read from disk
  count,       \* worker-local: diagnostics found
  current,     \* worker-local: the total that allow loaded
  total, capped, processed,  \* workspaceDiagnosticsScanState
  abandoned,   \* files whose analysis timed out
  results,     \* the results map
  main,        \* where the scan's own goroutine is
  todo,        \* files it has not yet published, or cleared
  publishing,  \* the file it is publishing
  doc,         \* open documents
  shown,       \* number of diagnostics the client displays for each file
  published    \* publishedDiagnostics

heldVars == <<file, revision, count, current>>
workerVars == <<jobs, pc, heldVars, total, capped, processed, abandoned, results>>
mainVars == <<main, todo, publishing>>
clientVars == <<shown, published>>
vars == <<workerVars, mainVars, clientVars, doc>>

Waiting == {"start", "take", "done"}
Holding == {"route", "analyse", "allow", "swap", "store"}
Settling == {"publish", "notify", "mark", "clear", "done"}

(* The types, and that a worker holds a file exactly while it treats one.  *)
TypeOK ==
  /\ jobs \subseteq Files
  /\ pc \in [Workers -> Waiting \cup Holding]
  /\ file \in [Workers -> Files \cup {None}]
  /\ revision \in [Workers -> Revisions \cup {None}]
  /\ count \in [Workers -> Counts]
  /\ current \in [Workers -> Nat]
  /\ \A w \in Workers : file[w] # None <=> pc[w] \in Holding
  /\ total \in Nat /\ capped \in BOOLEAN /\ processed \in Nat
  /\ abandoned \subseteq Files
  /\ results \in [Files -> Results \cup {None}]
  /\ main \in {"start", "wait", "off"} \cup Settling
  /\ todo \subseteq All
  /\ publishing \in Files \cup {None}
  /\ main \in {"notify", "mark"} => publishing # None /\ results[publishing] # None
  /\ main \in {"publish", "notify", "mark"} => todo \subseteq {f \in Files : results[f] # None}
  /\ doc \in [All -> Revisions \cup {None}]
  /\ shown \in [All -> Counts]
  /\ published \subseteq All

Init ==
  /\ jobs = {}
  /\ pc = [w \in Workers |-> "start"]
  /\ file = [w \in Workers |-> None]
  /\ revision = [w \in Workers |-> None]
  /\ count = [w \in Workers |-> 0] /\ current = [w \in Workers |-> 0]
  /\ total = 0 /\ capped = FALSE /\ processed = 0
  /\ abandoned = {}
  /\ results = [f \in Files |-> None]
  /\ main = "start" /\ todo = {} /\ publishing = None
  /\ doc \in {d \in [All -> Revisions \cup {None}] : \A f \in All \ Editable : d[f] = None}
  /\ published \in {{}, All}
  /\ shown = [f \in All |-> IF f \in published THEN MaxCount ELSE 0]

-----------------------------------------------------------------------------
(***************************************************************************)
(* A worker's loop.  Leave ends the worker, Continue takes the next file.  *)
(***************************************************************************)
Drop(w) ==
  /\ file' = [file EXCEPT ![w] = None]
  /\ revision' = [revision EXCEPT ![w] = None]
  /\ count' = [count EXCEPT ![w] = 0]
  /\ current' = [current EXCEPT ![w] = 0]

Leave(w) == pc' = [pc EXCEPT ![w] = "done"] /\ Drop(w)

Continue(w) ==
  /\ processed' = processed + 1
  /\ pc' = [pc EXCEPT ![w] = "take"]
  /\ Drop(w)

Goto(w, l) == pc' = [pc EXCEPT ![w] = l]

Put(w, n) ==
  results' = [results EXCEPT ![file[w]] = [count |-> n, revision |-> revision[w]]]

TakeFromClosedChannel(w) ==
  /\ pc[w] = "take"
  /\ IF jobs = {}
       THEN Goto(w, "route") /\ UNCHANGED <<jobs, heldVars>>
       ELSE \E f \in jobs :
              /\ jobs' = jobs \ {f}
              /\ Goto(w, "route") /\ file' = [file EXCEPT ![w] = f]
              /\ UNCHANGED <<revision, count, current>>
  /\ UNCHANGED <<total, capped, processed, abandoned, results, mainVars, clientVars, doc>>

(* The capped scan's worker takes one more file and leaves with it.        *)
Take(w) ==
  /\ pc[w] = "take"
  /\ \/ jobs = {} /\ Leave(w) /\ UNCHANGED jobs
     \/ \E f \in jobs :
          /\ jobs' = jobs \ {f}
          /\ \/ capped /\ Leave(w)
             \/ /\ ~capped /\ Goto(w, "route")
                /\ file' = [file EXCEPT ![w] = f]
                /\ UNCHANGED <<revision, count, current>>
  /\ UNCHANGED <<total, capped, processed, abandoned, results, mainVars, clientVars, doc>>

(* A file all rules ignore has no diagnostics, nor has a closed one that   *)
(* cannot be read; an open one is analysed as the client has it.           *)
Route(w) ==
  /\ pc[w] = "route"
  /\ \/ /\ file[w] \in Ignored \/ doc[file[w]] = None
        /\ Put(w, 0) /\ Continue(w)
     \/ /\ file[w] \notin Ignored
        /\ revision' = [revision EXCEPT ![w] = doc[file[w]]]
        /\ Goto(w, "analyse")
        /\ UNCHANGED <<file, count, current, results, processed>>
  /\ UNCHANGED <<jobs, total, capped, abandoned, mainVars, clientVars, doc>>

Analyse(w) ==
  /\ pc[w] = "analyse"
  /\ \E n \in Counts : count' = [count EXCEPT ![w] = n]
  /\ Goto(w, "allow")
  /\ UNCHANGED <<jobs, file, revision, current, total, capped, processed, abandoned,
                 results, mainVars, clientVars, doc>>

NeverAbandon(w) == pc[w] = "analyse" /\ UNCHANGED vars

AbandonUncounted(w) ==
  /\ pc[w] = "analyse"
  /\ abandoned' = abandoned \cup {file[w]}
  /\ Goto(w, "take") /\ Drop(w)
  /\ UNCHANGED <<jobs, total, capped, processed, results, mainVars, clientVars, doc>>

AbandonAndLeave(w) ==
  /\ pc[w] = "analyse"
  /\ abandoned' = abandoned \cup {file[w]}
  /\ processed' = processed + 1
  /\ Leave(w)
  /\ UNCHANGED <<jobs, total, capped, results, mainVars, clientVars, doc>>

(* workspaceDiagnosticsAbandonAfter: the worker moves on; the analysis     *)
(* ends, if ever, with nobody listening.                                   *)
Abandon(w) ==
  /\ pc[w] = "analyse"
  /\ abandoned' = abandoned \cup {file[w]}
  /\ Continue(w)
  /\ UNCHANGED <<jobs, total, capped, results, mainVars, clientVars, doc>>

(* allow: nothing to count, or load the total and compare.                 *)
Refuse(w) == capped' = TRUE /\ Leave(w)

AllowOffByOne(w) ==
  /\ pc[w] = "allow"
  /\ \/ count[w] = 0 /\ capped /\ Leave(w) /\ UNCHANGED capped
     \/ count[w] = 0 /\ ~capped /\ Goto(w, "store") /\ UNCHANGED <<heldVars, capped>>
     \/ count[w] > 0 /\ total + count[w] >= Limit /\ Refuse(w)
     \/ /\ count[w] > 0 /\ total + count[w] < Limit
        /\ current' = [current EXCEPT ![w] = total] /\ Goto(w, "swap")
        /\ UNCHANGED <<file, revision, count, capped>>
  /\ UNCHANGED <<jobs, total, processed, abandoned, results, mainVars, clientVars, doc>>

Allow(w) ==
  /\ pc[w] = "allow"
  /\ \/ count[w] = 0 /\ capped /\ Leave(w) /\ UNCHANGED capped
     \/ count[w] = 0 /\ ~capped /\ Goto(w, "store") /\ UNCHANGED <<heldVars, capped>>
     \/ count[w] > 0 /\ total + count[w] > Limit /\ Refuse(w)
     \/ /\ count[w] > 0 /\ total + count[w] <= Limit
        /\ current' = [current EXCEPT ![w] = total] /\ Goto(w, "swap")
        /\ UNCHANGED <<file, revision, count, capped>>
  /\ UNCHANGED <<jobs, total, processed, abandoned, results, mainVars, clientVars, doc>>

SwapBlindly(w) ==
  /\ pc[w] = "swap"
  /\ total' = current[w] + count[w] /\ Goto(w, "store")
  /\ UNCHANGED <<jobs, heldVars, capped, processed, abandoned, results, mainVars, clientVars, doc>>

(* CompareAndSwap, or another turn of allow's loop.                        *)
Swap(w) ==
  /\ pc[w] = "swap"
  /\ \/ total = current[w] /\ total' = total + count[w] /\ Goto(w, "store")
     \/ total # current[w] /\ Goto(w, "allow") /\ UNCHANGED total
  /\ UNCHANGED <<jobs, heldVars, capped, processed, abandoned, results, mainVars, clientVars, doc>>

Store(w) ==
  /\ pc[w] = "store"
  /\ Put(w, count[w])
  /\ Continue(w)
  /\ UNCHANGED <<jobs, total, capped, abandoned, mainVars, clientVars, doc>>

-----------------------------------------------------------------------------
(***************************************************************************)
(* The scan's goroutine: start the workers, wait for them, publish what    *)
(* they found, and clear what the client still shows of other files.       *)
(***************************************************************************)
Start ==
  /\ main = "start"
  /\ main' = "wait"
  /\ jobs' = Files
  /\ pc' = [w \in Workers |-> "take"]
  /\ UNCHANGED <<heldVars, total, capped, processed, abandoned, results, todo, publishing,
                 clientVars, doc>>

(* diagnostics.enable is off: clearPublishedDiagnostics.                   *)
TurnOff ==
  /\ main = "start"
  /\ main' = "off"
  /\ published' = {}
  /\ shown' = [f \in All |-> IF f \in published THEN 0 ELSE shown[f]]
  /\ UNCHANGED <<workerVars, todo, publishing, doc>>

Wait ==
  /\ main = "wait" /\ \A w \in Workers : pc[w] = "done"
  /\ main' = "publish"
  /\ todo' = {f \in Files : results[f] # None}
  /\ UNCHANGED <<workerVars, publishing, clientVars, doc>>

(* An open document's result counts only for the revision analysed, an     *)
(* empty result only if something is shown.                                *)
Stale(f) == results[f].revision # None /\ doc[f] # results[f].revision

PublishOnlyFindings(f) ==
  /\ main = "publish" /\ f \in todo
  /\ todo' = todo \ {f}
  /\ IF Stale(f) \/ results[f].count = 0
       THEN UNCHANGED <<main, publishing>>
       ELSE main' = "notify" /\ publishing' = f
  /\ UNCHANGED <<workerVars, clientVars, doc>>

Select(f) ==
  /\ main = "publish" /\ f \in todo
  /\ todo' = todo \ {f}
  /\ IF Stale(f) \/ (results[f].count = 0 /\ f \notin published)
       THEN UNCHANGED <<main, publishing>>
       ELSE main' = "notify" /\ publishing' = f
  /\ UNCHANGED <<workerVars, clientVars, doc>>

(* notifyDiagnostics: the notification, then the set of files shown.       *)
Notify ==
  /\ main = "notify"
  /\ main' = "mark"
  /\ shown' = [shown EXCEPT ![publishing] = results[publishing].count]
  /\ UNCHANGED <<workerVars, todo, publishing, published, doc>>

Mark ==
  /\ main = "mark"
  /\ main' = "publish" /\ publishing' = None
  /\ published' = IF results[publishing].count = 0 THEN published \ {publishing}
                  ELSE published \cup {publishing}
  /\ UNCHANGED <<workerVars, todo, shown, doc>>

(* clearDiagnosticsOutsideWorkspace(seen): under the lock, the files not   *)
(* in seen leave the set; the client is told of each afterwards.           *)
UnlistUnscanned ==
  /\ main = "publish" /\ todo = {}
  /\ LET seen == {f \in Files : results[f] # None} IN
       todo' = published \ seen /\ published' = published \cap seen
  /\ main' = "clear"
  /\ UNCHANGED <<workerVars, publishing, shown, doc>>

Unlist ==
  /\ main = "publish" /\ todo = {}
  /\ todo' = published \ Files
  /\ published' = published \cap Files
  /\ main' = "clear"
  /\ UNCHANGED <<workerVars, publishing, shown, doc>>

Clear(f) ==
  /\ main = "clear" /\ f \in todo
  /\ todo' = todo \ {f}
  /\ shown' = [shown EXCEPT ![f] = 0]
  /\ UNCHANGED <<workerVars, main, publishing, published, doc>>

Return ==
  /\ main = "clear" /\ todo = {}
  /\ main' = "done"
  /\ UNCHANGED <<workerVars, todo, publishing, clientVars, doc>>

-----------------------------------------------------------------------------
(***************************************************************************)
(* The editor meanwhile: didOpen, didChange, didClose, and the publication *)
(* of an open document's own analysis (module DocumentAnalysis), here one  *)
(* step.                                                                   *)
(***************************************************************************)
Edit(f) ==
  /\ main \notin {"done", "off"}
  /\ \E r \in Revisions \cup {None} : r # doc[f] /\ doc' = [doc EXCEPT ![f] = r]
  /\ UNCHANGED <<workerVars, mainVars, clientVars>>

EditorPublish(f) ==
  /\ main \notin {"done", "off"} /\ doc[f] # None
  /\ \E n \in Counts :
       /\ shown' = [shown EXCEPT ![f] = n]
       /\ published' = IF n = 0 THEN published \ {f} ELSE published \cup {f}
  /\ UNCHANGED <<workerVars, mainVars, doc>>

Done == main \in {"done", "off"} /\ UNCHANGED vars

Work(w) == Take(w) \/ Route(w) \/ Allow(w) \/ Swap(w) \/ Store(w)
Main ==
  \/ Start \/ TurnOff \/ Wait \/ Notify \/ Mark \/ Unlist \/ Return
  \/ \E f \in All : Select(f) \/ Clear(f)

Next ==
  \/ \E w \in Workers : Work(w) \/ Analyse(w) \/ Abandon(w)
  \/ Main
  \/ \E f \in Editable : Edit(f) \/ EditorPublish(f)
  \/ Done

Spec == Init /\ [][Next]_vars

(* Goroutines run and the abandon timer fires; an analysis may hang.       *)
FairSpec ==
  /\ Spec /\ WF_vars(Main)
  /\ \A w \in Workers : WF_vars(Work(w)) /\ WF_vars(Abandon(w))

-----------------------------------------------------------------------------
(***************************************************************************)
(* Properties.                                                             *)
(***************************************************************************)
StoredCount == [f \in Files |-> IF results[f] = None THEN 0 ELSE results[f].count]
Admitted == [w \in Workers |-> IF pc[w] = "store" THEN count[w] ELSE 0]

(* The cap is never exceeded, whichever workers race in allow.            *)
WithinLimit == total <= Limit

(* The shared total is exactly what the workers have stored or are about   *)
(* to store: no result is counted twice, or lost in a race.                *)
TotalAccounted ==
  /\ total = SumFunction(StoredCount) + SumFunction(Admitted)
  /\ WithinLimit

(* The cap trips only when some file's diagnostics really do not fit: with *)
(* room for the largest file left, the scan is not cut short.              *)
CappedOnlyWhenFull == capped => total + MaxCount > Limit

(* When the workers have ended and the cap did not trip, every file the    *)
(* scan listed was analysed or given up after the timeout.                 *)
NoFileForgotten ==
  main \in Settling /\ ~capped => \A f \in Files : results[f] # None \/ f \in abandoned

(* The progress reported is the number of files done, all of them at the   *)
(* end of a scan the cap did not cut short.                                *)
ProgressAccounted ==
  /\ processed = Cardinality({f \in Files : results[f] # None}) + Cardinality(abandoned)
  /\ main \in Settling /\ ~capped => processed = Cardinality(Files)

(* After the scan the client shows, for every file not opened meanwhile,   *)
(* what the scan found, nothing of files outside the workspace, and        *)
(* publishedDiagnostics knows which files show something.                  *)
ScanSettles ==
  main = "done" =>
    /\ \A f \in All \ Editable : f \in published <=> shown[f] > 0
    /\ \A f \in Others \ Editable : shown[f] = 0
    /\ \A f \in Files \ Editable : results[f] # None => shown[f] = results[f].count

(* A scan changes nothing of what the client shows of a file it could not  *)
(* finish: one abandoned, or not reached before the cap.                   *)
UnfinishedKept ==
  [][main # "start" =>
       \A f \in Files \ Editable : results[f] = None =>
         shown'[f] = shown[f] /\ (f \in published' <=> f \in published)]_vars

(* The scan ends even if an analysis never does.                           *)
ScanEnds == <>(main \in {"done", "off"})

-----------------------------------------------------------------------------
(***************************************************************************)
(* What makes the cap and NoFileForgotten inductive: a worker about to     *)
(* swap read a total its file fits in; a listed file is in the channel,    *)
(* held, stored or given up; a worker leaves only a drained channel or a   *)
(* capped scan; the scan publishes after all have left.                    *)
(***************************************************************************)
SwapFits == \A w \in Workers : pc[w] = "swap" => current[w] + count[w] <= Limit

FilesPending ==
  main \notin {"start", "off"} /\ ~capped =>
    \A f \in Files : \/ f \in jobs
                     \/ \E w \in Workers : file[w] = f
                     \/ results[f] # None
                     \/ f \in abandoned

LeftForReason == \A w \in Workers : pc[w] = "done" => jobs = {} \/ capped

WorkersFollowMain ==
  /\ main \in {"start", "off"} => \A w \in Workers : pc[w] = "start"
  /\ main = "wait" => \A w \in Workers : pc[w] # "start"
  /\ main \in Settling => \A w \in Workers : pc[w] = "done"

ScanWorkersInv ==
  TypeOK /\ WithinLimit /\ SwapFits /\ FilesPending /\ LeftForReason /\ WorkersFollowMain

(***************************************************************************)
(* What makes the progress inductive: a file is in one place at a time.    *)
(***************************************************************************)
Stored == {f \in Files : results[f] # None}

FilesOnce ==
  /\ Stored \cap abandoned = {} /\ jobs \cap (Stored \cup abandoned) = {}
  /\ \A w \in Workers : file[w] \notin jobs \cup Stored \cup abandoned
  /\ \A v, w \in Workers : v # w /\ file[v] # None => file[v] # file[w]
  /\ main = "start" => Stored = {} /\ abandoned = {}

ProgressInv ==
  /\ ScanWorkersInv /\ FilesOnce
  /\ processed = Cardinality(Stored) + Cardinality(abandoned)

(***************************************************************************)
(* What makes ScanSettles inductive, of the files the editor leaves alone: *)
(* their results are not stale; publishedDiagnostics differs from what is  *)
(* shown only between the two steps of a publication or a clearing; what   *)
(* is not yet shown, or cleared, is still to do.                           *)
(***************************************************************************)
ReadFromDisk ==
  /\ \A f \in All \ Editable : doc[f] = None
  /\ \A w \in Workers : pc[w] \in Waiting \cup {"route"} \/ file[w] \notin Editable =>
       revision[w] = None
  /\ \A f \in Stored \ Editable : results[f].revision = None

BetweenSteps(f) ==
  \/ main = "mark" /\ publishing = f
  \/ main = "clear" /\ f \in todo

KnownShown ==
  \A f \in All \ Editable : BetweenSteps(f) \/ (f \in published <=> shown[f] > 0)

ToShow(f) ==
  \/ main \in {"publish", "notify", "mark"} /\ f \in todo
  \/ main = "notify" /\ publishing = f

ClearingOutside ==
  /\ main = "clear" => todo \subseteq Others /\ todo \cap published \subseteq Editable
  /\ main = "done" => todo = {}
  /\ main \in {"clear", "done"} => \A f \in Others \ Editable : shown[f] > 0 => f \in todo

ResultsShown ==
  /\ main \in {"notify", "mark"} => publishing \notin todo
  /\ main \in Settling => \A f \in Stored \ Editable : ToShow(f) \/ shown[f] = results[f].count

SettlingInv ==
  ScanWorkersInv /\ ReadFromDisk /\ KnownShown /\ ClearingOutside /\ ResultsShown
=============================================================================
