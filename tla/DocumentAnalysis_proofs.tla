---------------------- MODULE DocumentAnalysis_proofs -----------------------
(***************************************************************************)
(* Proofs about DocumentAnalysis, for any documents, texts, callbacks and  *)
(* limits.  DocInv is inductive; each of its conjuncts has a lemma with    *)
(* one step per action.                                                    *)
(***************************************************************************)
EXTENDS DocumentAnalysis, FiniteSetTheorems, TLAPS

USE DocumentAssumption, ActorAssumption, LimitAssumption
    DEF Actors, Labels, TimerLabels, HeldLabels, storeVars, clientVars, scanVars

(* Finitely many actors hold slots.                                        *)
LEMMA ActorsFinite == IsFiniteSet(Actors)
<1>1. IsFiniteSet({Dispatcher})
  BY FS_Singleton
<1> QED
  BY <1>1, FS_Union

(* A change moves to some next version, scheduled only with onType.        *)
LEMMA ChangeCases ==
  ASSUME TypeOK, NEW u \in Uris, NEW text \in Texts, Change(u, text)
  PROVE  \E v \in 1..MaxVersion :
           /\ doc' = [doc EXCEPT ![u] = [version |-> v, text |-> text]]
           /\ \/ mode = "onType" /\ Schedule(u, v, "analyse")
              \/ mode # "onType" /\ UNCHANGED <<timers, pc, job>>
           /\ pc[Dispatcher] = "ready" /\ doc[u] # None
           /\ UNCHANGED <<mode, scanVars, slots, indexing, storeVars, clientVars, accepted>>
<1>1. doc[u] \in Documents /\ doc[u].version < MaxVersion
  BY DEF TypeOK, Change
<1>2. doc[u].version + 1 \in 1..MaxVersion
  BY <1>1 DEF Documents
<1>3. CASE mode = "onType"
  BY <1>2, <1>3 DEF Change
<1>4. CASE mode # "onType"
  BY <1>2, <1>4 DEF Change
<1> QED
  BY <1>3, <1>4

(* The work that ends up armed, and what became of the others.             *)
Arms(w, u, v, kind) ==
  /\ pc[w] = "free" \/ w \in Stopped(u)
  /\ timers' = [timers EXCEPT ![u] = w]
  /\ pc'[w] = "armed"
  /\ job'[w] = [uri |-> u, version |-> v, text |-> None, kind |-> kind]
  /\ \A a \in Actors \ {w} : a \in Stopped(u) => pc'[a] = "free" /\ job'[a] = NoJob
  /\ \A a \in Actors \ {w} : a \notin Stopped(u) => pc'[a] = pc[a] /\ job'[a] = job[a]
  /\ pc' \in [Actors -> Labels] /\ job' \in [Actors -> Jobs]

(* Scheduling arms one work and ends at most the one it supersedes.        *)
LEMMA ScheduleEffect ==
  ASSUME TypeOK, NEW u \in Uris, NEW v \in 1..MaxVersion, NEW kind \in Kinds,
         Schedule(u, v, kind)
  PROVE  \E w \in Works : Arms(w, u, v, kind)
<1>1. PICK w \in Works :
        /\ pc[w] = "free" \/ w \in Stopped(u)
        /\ timers' = [timers EXCEPT ![u] = w]
        /\ pc' = [StopTimer(u, pc, "free") EXCEPT ![w] = "armed"]
        /\ job' = [StopTimer(u, job, NoJob) EXCEPT
                     ![w] = NewJob(u, v, kind)]
  BY DEF Schedule
<1>2. NewJob(u, v, kind) = [uri |-> u, version |-> v, text |-> None, kind |-> kind]
  BY DEF NewJob
<1>3. NoJob \in Jobs /\ [uri |-> u, version |-> v, text |-> None, kind |-> kind] \in Jobs
  BY DEF NoJob, Jobs, Kinds
<1>4. pc' \in [Actors -> Labels] /\ job' \in [Actors -> Jobs]
  BY <1>1, <1>2, <1>3 DEF TypeOK, StopTimer
<1>5. pc'[w] = "armed"
        /\ job'[w] = [uri |-> u, version |-> v, text |-> None, kind |-> kind]
  BY <1>1, <1>2 DEF StopTimer
<1>6. \A a \in Actors \ {w} : a \in Stopped(u) => pc'[a] = "free" /\ job'[a] = NoJob
  BY <1>1 DEF StopTimer
<1>7. \A a \in Actors \ {w} : a \notin Stopped(u) => pc'[a] = pc[a] /\ job'[a] = job[a]
  BY <1>1 DEF StopTimer
<1> QED
  BY <1>1, <1>4, <1>5, <1>6, <1>7 DEF Arms

(* Cancelling ends at most the work that was armed and starts the          *)
(* dispatcher's own job.                                                   *)
LEMMA CancelEffect ==
  ASSUME TypeOK, NEW u \in Uris, NEW label \in Labels, NEW newJob \in Jobs,
         CancelAndRun(u, label, newJob)
  PROVE  /\ pc'[Dispatcher] = label /\ job'[Dispatcher] = newJob
         /\ \A w \in Works : w \notin Stopped(u) => pc'[w] = pc[w] /\ job'[w] = job[w]
<1>1. Dispatcher \in Actors /\ \A w \in Works : w # Dispatcher
  OBVIOUS
<1> QED
  BY <1>1 DEF CancelAndRun, StopTimer

(* A workspace scan touches what the client shows, publishedDiagnostics    *)
(* and its own results.                                                    *)
LEMMA ScanEffect ==
  ASSUME NEW u \in Uris, ScanStep(u)
  PROVE  UNCHANGED <<mode, doc, timers, pc, job, slots, indexing, storeVars, accepted>>
  BY DEF ScanStep, ScanOnly, ScanDocument, ScanCompare, ScanNotify, ScanMark,
         ScanForget, ScanClear

(* DocInv holds initially.                                                 *)
LEMMA InitEstablishes == Init => DocInv
<1> SUFFICES ASSUME Init PROVE DocInv
  OBVIOUS
<1>1. TypeOK
  BY DEF Init, TypeOK, NoJob, Jobs, Kinds, NoResult, Result, Results, ScanLabels
<1>2. LabelsByActor /\ TimersOwnArmedWork /\ ArmedWorkIsCurrent
  BY DEF Init, LabelsByActor, Working, TimersOwnArmedWork, ArmedWorkIsCurrent
<1>3. SlotsHeldInside
  BY FS_EmptySet DEF Init, SlotsHeldInside
<1>4. LatestTextInFlight /\ SavedTextInFlight
  BY DEF Init, LatestTextInFlight, SavedTextInFlight, Publishing, Working
<1> QED
  BY <1>1, <1>2, <1>3, <1>4 DEF DocInv

(* Every action keeps the types.                                           *)
LEMMA TypePreserved ==
  ASSUME DocInv, [Next]_vars
  PROVE  TypeOK'
<1> USE DEF DocInv, TypeOK, LabelsByActor, Documents, Kinds, NoJob, Jobs, Working
<1>1. ASSUME NEW u \in Uris, NEW text \in Texts, Open(u, text) PROVE TypeOK'
  <2>1. /\ doc' = [doc EXCEPT ![u] = [version |-> 1, text |-> text]]
        /\ accepted' = [accepted EXCEPT ![u] = None]
        /\ UNCHANGED <<mode, scanVars, slots, indexing, storeVars, clientVars>>
        /\ pc[Dispatcher] = "ready" /\ doc[u] = None
    BY <1>1 DEF Open
  <2>2. PICK kind \in Kinds :
          /\ kind = IF mode = "onType" THEN "analyse" ELSE "index"
          /\ Schedule(u, 1, kind)
    BY <1>1 DEF Open, Kinds
  <2>3. PICK w \in Works : Arms(w, u, 1, kind)
    BY <2>2, ScheduleEffect
  <2> QED
    BY <2>1, <2>2, <2>3 DEF Arms, Stopped
<1>2. ASSUME NEW u \in Uris, NEW text \in Texts, Change(u, text) PROVE TypeOK'
  <2>1. PICK v \in 1..MaxVersion :
          /\ doc' = [doc EXCEPT ![u] = [version |-> v, text |-> text]]
          /\ \/ mode = "onType" /\ Schedule(u, v, "analyse")
             \/ mode # "onType" /\ UNCHANGED <<timers, pc, job>>
          /\ pc[Dispatcher] = "ready" /\ doc[u] # None
          /\ UNCHANGED <<mode, scanVars, slots, indexing, storeVars, clientVars, accepted>>
    BY <1>2, ChangeCases
  <2>2. CASE mode = "onType"
    <3>1. PICK w \in Works : Arms(w, u, v, "analyse")
      BY <2>1, <2>2, ScheduleEffect DEF Kinds
    <3> QED
      BY <2>1, <2>2, <3>1 DEF Arms, Stopped
  <2>3. CASE mode # "onType"
    BY <2>1, <2>3
  <2> QED
    BY <2>2, <2>3
<1>3. ASSUME NEW u \in Uris, NEW disk \in DiskTexts(u), Save(u, disk) PROVE TypeOK'
  BY <1>3 DEF Save, DiskTexts, CancelAndRun, StopTimer, Stopped
<1>4. ASSUME NEW u \in Uris, NEW disk \in DiskTexts(u), Close(u, disk) PROVE TypeOK'
  BY <1>4 DEF Close, DiskTexts, CancelAndRun, StopTimer, Stopped
<1>5. ASSUME Exit PROVE TypeOK'
  BY <1>5 DEF Exit, Stopped
<1>6. ASSUME StartInitialIndexing PROVE TypeOK'
  BY <1>6 DEF StartInitialIndexing
<1>7. ASSUME FinishInitialIndexing PROVE TypeOK'
  BY <1>7 DEF FinishInitialIndexing
<1>8. ASSUME NEW w \in Works, Fire(w) PROVE TypeOK'
  BY <1>8 DEF Fire, Goto
<1>9. ASSUME NEW w \in Works, ReleaseEntry(w) PROVE TypeOK'
  BY <1>9 DEF ReleaseEntry, Goto
<1>10. ASSUME NEW w \in Works, PassGate(w) PROVE TypeOK'
  BY <1>10 DEF PassGate, Goto
<1>11. ASSUME NEW w \in Works, Snapshot(w) PROVE TypeOK'
  BY <1>11 DEF Snapshot, End, Goto
<1>12. ASSUME NEW a \in Actors, Acquire(a) PROVE TypeOK'
  BY <1>12 DEF Acquire, Goto
<1>13. ASSUME NEW a \in Actors, CompareHash(a) PROVE TypeOK'
  BY <1>13 DEF CompareHash, Goto, AfterIndexing
<1>14. ASSUME NEW a \in Actors, PutSymbols(a) PROVE TypeOK'
  BY <1>14 DEF PutSymbols, Goto
<1>15. ASSUME NEW a \in Actors, PutNodes(a) PROVE TypeOK'
  BY <1>15 DEF PutNodes, Goto, AfterIndexing
<1>16. ASSUME NEW a \in Actors, CheckCurrent(a) PROVE TypeOK'
  <2>1. \E label \in {"notify", "finish"} : pc' = [pc EXCEPT ![a] = label]
    BY <1>16 DEF CheckCurrent, Goto
  <2>2. accepted' \in [Uris -> Documents \cup {None}]
    BY <1>16 DEF CheckCurrent
  <2>3. UNCHANGED <<mode, scanVars, doc, timers, job, slots, indexing, storeVars, clientVars>>
    BY <1>16 DEF CheckCurrent
  <2> QED
    BY <2>1, <2>2, <2>3
<1>17. ASSUME NEW a \in Actors, NotifyClient(a) PROVE TypeOK'
  BY <1>17 DEF NotifyClient, Goto
<1>18. ASSUME NEW a \in Actors, MarkPublished(a) PROVE TypeOK'
  BY <1>18 DEF MarkPublished, Goto
<1>19. ASSUME NEW a \in Actors, Finish(a) PROVE TypeOK'
  BY <1>19 DEF Finish, Goto
<1>20. CASE UNCHANGED vars
  BY <1>20 DEF vars
<1>21. ASSUME NEW u \in Uris, ScanStep(u) PROVE TypeOK'
  <2> USE DEF Result, NoResult, Results, ScanLabels
  <2>1. UNCHANGED <<mode, doc, timers, pc, job, slots, indexing, storeVars, accepted>>
    BY <1>21, ScanEffect
  <2>2. ASSUME NEW disk \in DiskTexts(u), ScanDocument(u, disk) PROVE TypeOK'
    BY <2>1, <2>2 DEF ScanDocument, DiskTexts
  <2>3. CASE ScanCompare(u)
    <3>1. \/ scan' = [scan EXCEPT ![u] = Result("notify", 0, scan[u].text)]
          \/ scan' = [scan EXCEPT ![u] = NoResult]
      BY <2>3 DEF ScanCompare
    <3> QED
      BY <2>1, <2>3, <3>1 DEF ScanCompare
  <2>4. CASE ScanNotify(u)
    <3>1. scan' \in [Uris -> Results]
      <4>1. [scan[u] EXCEPT !.at = "mark"] \in Results /\ NoResult \in Results
        OBVIOUS
      <4>2. \/ scan' = [scan EXCEPT ![u] = [scan[u] EXCEPT !.at = "mark"]]
            \/ scan' = [scan EXCEPT ![u] = NoResult]
        BY <2>4 DEF ScanNotify
      <4>3. scan \in [Uris -> Results]
        OBVIOUS
      <4> HIDE DEF Results, NoResult, TypeOK
      <4> QED
        BY <4>1, <4>2, <4>3
    <3>2. shown' \in [Uris -> Texts \cup {None}] /\ scanned' \subseteq Uris
      BY <2>4 DEF ScanNotify
    <3>3. published' = published
      BY <2>4 DEF ScanNotify
    <3> QED
      BY <2>1, <3>1, <3>2, <3>3
  <2>5. CASE ScanMark(u)
    BY <2>1, <2>5 DEF ScanMark
  <2>6. CASE ScanForget(u)
    BY <2>1, <2>6 DEF ScanForget
  <2>7. CASE ScanClear(u)
    BY <2>1, <2>7 DEF ScanClear
  <2> QED
    BY <1>21, <2>2, <2>3, <2>4, <2>5, <2>6, <2>7 DEF ScanStep
<1> QED
  BY <1>1, <1>2, <1>3, <1>4, <1>5, <1>6, <1>7, <1>8, <1>9, <1>10,
     <1>11, <1>12, <1>13, <1>14, <1>15, <1>16, <1>17, <1>18, <1>19, <1>20, <1>21
  DEF Next, Dispatch, Callback, JobStep

(* Dispatcher and callbacks keep to their labels and kinds of job.         *)
LEMMA LabelsPreserved ==
  ASSUME DocInv, [Next]_vars
  PROVE  LabelsByActor'
<1> USE DEF DocInv, TypeOK, LabelsByActor, Working, NoJob
<1>1. ASSUME NEW u \in Uris, NEW text \in Texts, Open(u, text) PROVE LabelsByActor'
  <2>1. /\ doc' = [doc EXCEPT ![u] = [version |-> 1, text |-> text]]
        /\ accepted' = [accepted EXCEPT ![u] = None]
        /\ UNCHANGED <<mode, scanVars, slots, indexing, storeVars, clientVars>>
        /\ pc[Dispatcher] = "ready" /\ doc[u] = None
    BY <1>1 DEF Open
  <2>2. PICK kind \in Kinds :
          /\ kind = IF mode = "onType" THEN "analyse" ELSE "index"
          /\ Schedule(u, 1, kind)
    BY <1>1 DEF Open, Kinds
  <2>3. PICK w \in Works : Arms(w, u, 1, kind)
    BY <2>2, ScheduleEffect
  <2> QED
    BY <2>1, <2>2, <2>3 DEF Arms, Stopped
<1>2. ASSUME NEW u \in Uris, NEW text \in Texts, Change(u, text) PROVE LabelsByActor'
  <2>1. PICK v \in 1..MaxVersion :
          /\ doc' = [doc EXCEPT ![u] = [version |-> v, text |-> text]]
          /\ \/ mode = "onType" /\ Schedule(u, v, "analyse")
             \/ mode # "onType" /\ UNCHANGED <<timers, pc, job>>
          /\ pc[Dispatcher] = "ready" /\ doc[u] # None
          /\ UNCHANGED <<mode, scanVars, slots, indexing, storeVars, clientVars, accepted>>
    BY <1>2, ChangeCases
  <2>2. CASE mode = "onType"
    <3>1. PICK w \in Works : Arms(w, u, v, "analyse")
      BY <2>1, <2>2, ScheduleEffect DEF Kinds
    <3> QED
      BY <2>1, <2>2, <3>1 DEF Arms, Stopped
  <2>3. CASE mode # "onType"
    BY <2>1, <2>3
  <2> QED
    BY <2>2, <2>3
<1>3. ASSUME NEW u \in Uris, NEW disk \in DiskTexts(u), Save(u, disk) PROVE LabelsByActor'
  BY <1>3 DEF Save, DiskTexts, CancelAndRun, StopTimer, Stopped
<1>4. ASSUME NEW u \in Uris, NEW disk \in DiskTexts(u), Close(u, disk) PROVE LabelsByActor'
  BY <1>4 DEF Close, DiskTexts, CancelAndRun, StopTimer, Stopped
<1>5. ASSUME Exit PROVE LabelsByActor'
  BY <1>5 DEF Exit, Stopped
<1>6. ASSUME StartInitialIndexing PROVE LabelsByActor'
  BY <1>6 DEF StartInitialIndexing
<1>7. ASSUME FinishInitialIndexing PROVE LabelsByActor'
  BY <1>7 DEF FinishInitialIndexing
<1>8. ASSUME NEW w \in Works, Fire(w) PROVE LabelsByActor'
  BY <1>8 DEF Fire, Goto
<1>9. ASSUME NEW w \in Works, ReleaseEntry(w) PROVE LabelsByActor'
  BY <1>9 DEF ReleaseEntry, Goto
<1>10. ASSUME NEW w \in Works, PassGate(w) PROVE LabelsByActor'
  BY <1>10 DEF PassGate, Goto
<1>11. ASSUME NEW w \in Works, Snapshot(w) PROVE LabelsByActor'
  <2>1. CASE doc[job[w].uri] # None /\ doc[job[w].uri].version = job[w].version
    <3>1. /\ job' = [job EXCEPT ![w].text = doc[job[w].uri].text]
          /\ pc' = [pc EXCEPT ![w] = "acquire"] /\ pc[w] = "snapshot"
          /\ UNCHANGED <<mode, scanVars, doc, timers, slots, indexing, storeVars, clientVars, accepted>>
      BY <1>11, <2>1 DEF Snapshot, Goto
    <3> QED
      BY <2>1, <3>1
  <2>2. CASE ~(doc[job[w].uri] # None /\ doc[job[w].uri].version = job[w].version)
    <3>1. /\ job' = [job EXCEPT ![w] = NoJob]
          /\ pc' = [pc EXCEPT ![w] = "free"] /\ pc[w] = "snapshot"
          /\ UNCHANGED <<mode, scanVars, doc, timers, slots, indexing, storeVars, clientVars, accepted>>
      BY <1>11, <2>2 DEF Snapshot, End, Goto
    <3> QED
      BY <2>2, <3>1
  <2> QED
    BY <2>1, <2>2
<1>12. ASSUME NEW a \in Actors, Acquire(a) PROVE LabelsByActor'
  BY <1>12 DEF Acquire, Goto
<1>13. ASSUME NEW a \in Actors, CompareHash(a) PROVE LabelsByActor'
  BY <1>13 DEF CompareHash, Goto, AfterIndexing
<1>14. ASSUME NEW a \in Actors, PutSymbols(a) PROVE LabelsByActor'
  BY <1>14 DEF PutSymbols, Goto
<1>15. ASSUME NEW a \in Actors, PutNodes(a) PROVE LabelsByActor'
  BY <1>15 DEF PutNodes, Goto, AfterIndexing
<1>16. ASSUME NEW a \in Actors, CheckCurrent(a) PROVE LabelsByActor'
  BY <1>16 DEF CheckCurrent, Goto, Matches
<1>17. ASSUME NEW a \in Actors, NotifyClient(a) PROVE LabelsByActor'
  BY <1>17 DEF NotifyClient, Goto
<1>18. ASSUME NEW a \in Actors, MarkPublished(a) PROVE LabelsByActor'
  BY <1>18 DEF MarkPublished, Goto
<1>19. ASSUME NEW a \in Actors, Finish(a) PROVE LabelsByActor'
  BY <1>19 DEF Finish, Goto
<1>20. CASE UNCHANGED vars
  BY <1>20 DEF vars
<1>21. ASSUME NEW u \in Uris, ScanStep(u) PROVE LabelsByActor'
  BY <1>21, ScanEffect
<1> QED
  BY <1>1, <1>2, <1>3, <1>4, <1>5, <1>6, <1>7, <1>8, <1>9, <1>10,
     <1>11, <1>12, <1>13, <1>14, <1>15, <1>16, <1>17, <1>18, <1>19, <1>20, <1>21
  DEF Next, Dispatch, Callback, JobStep

(* Entries and armed work go on pointing at each other.                    *)
LEMMA TimersPreserved ==
  ASSUME DocInv, [Next]_vars
  PROVE  TimersOwnArmedWork'
<1> USE DEF DocInv, TypeOK, LabelsByActor, Working, NoJob, TimersOwnArmedWork
<1>1. ASSUME NEW u \in Uris, NEW text \in Texts, Open(u, text) PROVE TimersOwnArmedWork'
  <2>1. /\ doc' = [doc EXCEPT ![u] = [version |-> 1, text |-> text]]
        /\ accepted' = [accepted EXCEPT ![u] = None]
        /\ UNCHANGED <<mode, scanVars, slots, indexing, storeVars, clientVars>>
        /\ pc[Dispatcher] = "ready" /\ doc[u] = None
    BY <1>1 DEF Open
  <2>2. PICK kind \in Kinds :
          /\ kind = IF mode = "onType" THEN "analyse" ELSE "index"
          /\ Schedule(u, 1, kind)
    BY <1>1 DEF Open, Kinds
  <2>3. PICK w \in Works : Arms(w, u, 1, kind)
    BY <2>2, ScheduleEffect
  <2> QED
    BY <2>1, <2>2, <2>3 DEF Arms, Stopped
<1>2. ASSUME NEW u \in Uris, NEW text \in Texts, Change(u, text) PROVE TimersOwnArmedWork'
  <2>1. PICK v \in 1..MaxVersion :
          /\ doc' = [doc EXCEPT ![u] = [version |-> v, text |-> text]]
          /\ \/ mode = "onType" /\ Schedule(u, v, "analyse")
             \/ mode # "onType" /\ UNCHANGED <<timers, pc, job>>
          /\ pc[Dispatcher] = "ready" /\ doc[u] # None
          /\ UNCHANGED <<mode, scanVars, slots, indexing, storeVars, clientVars, accepted>>
    BY <1>2, ChangeCases
  <2>2. CASE mode = "onType"
    <3>1. PICK w \in Works : Arms(w, u, v, "analyse")
      BY <2>1, <2>2, ScheduleEffect DEF Kinds
    <3> QED
      BY <2>1, <2>2, <3>1 DEF Arms, Stopped
  <2>3. CASE mode # "onType"
    BY <2>1, <2>3
  <2> QED
    BY <2>2, <2>3
<1>3. ASSUME NEW u \in Uris, NEW disk \in DiskTexts(u), Save(u, disk) PROVE TimersOwnArmedWork'
  BY <1>3 DEF Save, DiskTexts, CancelAndRun, StopTimer, Stopped
<1>4. ASSUME NEW u \in Uris, NEW disk \in DiskTexts(u), Close(u, disk) PROVE TimersOwnArmedWork'
  BY <1>4 DEF Close, DiskTexts, CancelAndRun, StopTimer, Stopped
<1>5. ASSUME Exit PROVE TimersOwnArmedWork'
  BY <1>5 DEF Exit, Stopped
<1>6. ASSUME StartInitialIndexing PROVE TimersOwnArmedWork'
  BY <1>6 DEF StartInitialIndexing
<1>7. ASSUME FinishInitialIndexing PROVE TimersOwnArmedWork'
  BY <1>7 DEF FinishInitialIndexing
<1>8. ASSUME NEW w \in Works, Fire(w) PROVE TimersOwnArmedWork'
  BY <1>8 DEF Fire, Goto
<1>9. ASSUME NEW w \in Works, ReleaseEntry(w) PROVE TimersOwnArmedWork'
  BY <1>9 DEF ReleaseEntry, Goto
<1>10. ASSUME NEW w \in Works, PassGate(w) PROVE TimersOwnArmedWork'
  BY <1>10 DEF PassGate, Goto
<1>11. ASSUME NEW w \in Works, Snapshot(w) PROVE TimersOwnArmedWork'
  BY <1>11 DEF Snapshot, End, Goto
<1>12. ASSUME NEW a \in Actors, Acquire(a) PROVE TimersOwnArmedWork'
  BY <1>12 DEF Acquire, Goto
<1>13. ASSUME NEW a \in Actors, CompareHash(a) PROVE TimersOwnArmedWork'
  BY <1>13 DEF CompareHash, Goto, AfterIndexing
<1>14. ASSUME NEW a \in Actors, PutSymbols(a) PROVE TimersOwnArmedWork'
  BY <1>14 DEF PutSymbols, Goto
<1>15. ASSUME NEW a \in Actors, PutNodes(a) PROVE TimersOwnArmedWork'
  BY <1>15 DEF PutNodes, Goto, AfterIndexing
<1>16. ASSUME NEW a \in Actors, CheckCurrent(a) PROVE TimersOwnArmedWork'
  BY <1>16 DEF CheckCurrent, Goto, Matches
<1>17. ASSUME NEW a \in Actors, NotifyClient(a) PROVE TimersOwnArmedWork'
  BY <1>17 DEF NotifyClient, Goto
<1>18. ASSUME NEW a \in Actors, MarkPublished(a) PROVE TimersOwnArmedWork'
  BY <1>18 DEF MarkPublished, Goto
<1>19. ASSUME NEW a \in Actors, Finish(a) PROVE TimersOwnArmedWork'
  BY <1>19 DEF Finish, Goto
<1>20. CASE UNCHANGED vars
  BY <1>20 DEF vars
<1>21. ASSUME NEW u \in Uris, ScanStep(u) PROVE TimersOwnArmedWork'
  BY <1>21, ScanEffect
<1> QED
  BY <1>1, <1>2, <1>3, <1>4, <1>5, <1>6, <1>7, <1>8, <1>9, <1>10,
     <1>11, <1>12, <1>13, <1>14, <1>15, <1>16, <1>17, <1>18, <1>19, <1>20, <1>21
  DEF Next, Dispatch, Callback, JobStep

(* What is armed stays current, or is stopped.                             *)
LEMMA ArmedPreserved ==
  ASSUME DocInv, [Next]_vars
  PROVE  ArmedWorkIsCurrent'
<1> USE DEF DocInv, TypeOK, LabelsByActor, Working, NoJob,
           TimersOwnArmedWork, ArmedWorkIsCurrent, Documents
<1>1. ASSUME NEW u \in Uris, NEW text \in Texts, Open(u, text) PROVE ArmedWorkIsCurrent'
  <2>1. /\ doc' = [doc EXCEPT ![u] = [version |-> 1, text |-> text]]
        /\ accepted' = [accepted EXCEPT ![u] = None]
        /\ UNCHANGED <<mode, scanVars, slots, indexing, storeVars, clientVars>>
        /\ pc[Dispatcher] = "ready" /\ doc[u] = None
    BY <1>1 DEF Open
  <2>2. PICK kind \in Kinds :
          /\ kind = IF mode = "onType" THEN "analyse" ELSE "index"
          /\ Schedule(u, 1, kind)
    BY <1>1 DEF Open, Kinds
  <2>3. PICK w \in Works : Arms(w, u, 1, kind)
    BY <2>2, ScheduleEffect
  <2> QED
    BY <2>1, <2>2, <2>3 DEF Arms, Stopped
<1>2. ASSUME NEW u \in Uris, NEW text \in Texts, Change(u, text) PROVE ArmedWorkIsCurrent'
  <2>1. PICK v \in 1..MaxVersion :
          /\ doc' = [doc EXCEPT ![u] = [version |-> v, text |-> text]]
          /\ \/ mode = "onType" /\ Schedule(u, v, "analyse")
             \/ mode # "onType" /\ UNCHANGED <<timers, pc, job>>
          /\ pc[Dispatcher] = "ready" /\ doc[u] # None
          /\ UNCHANGED <<mode, scanVars, slots, indexing, storeVars, clientVars, accepted>>
    BY <1>2, ChangeCases
  <2>2. CASE mode = "onType"
    <3>1. PICK w \in Works : Arms(w, u, v, "analyse")
      BY <2>1, <2>2, ScheduleEffect DEF Kinds
    <3> QED
      BY <2>1, <2>2, <3>1 DEF Arms, Stopped
  <2>3. CASE mode # "onType"
    BY <2>1, <2>3
  <2> QED
    BY <2>2, <2>3
<1>3. ASSUME NEW u \in Uris, NEW disk \in DiskTexts(u), Save(u, disk) PROVE ArmedWorkIsCurrent'
  BY <1>3 DEF Save, DiskTexts, CancelAndRun, StopTimer, Stopped
<1>4. ASSUME NEW u \in Uris, NEW disk \in DiskTexts(u), Close(u, disk) PROVE ArmedWorkIsCurrent'
  BY <1>4 DEF Close, DiskTexts, CancelAndRun, StopTimer, Stopped
<1>5. ASSUME Exit PROVE ArmedWorkIsCurrent'
  BY <1>5 DEF Exit, Stopped
<1>6. ASSUME StartInitialIndexing PROVE ArmedWorkIsCurrent'
  BY <1>6 DEF StartInitialIndexing
<1>7. ASSUME FinishInitialIndexing PROVE ArmedWorkIsCurrent'
  BY <1>7 DEF FinishInitialIndexing
<1>8. ASSUME NEW w \in Works, Fire(w) PROVE ArmedWorkIsCurrent'
  BY <1>8 DEF Fire, Goto
<1>9. ASSUME NEW w \in Works, ReleaseEntry(w) PROVE ArmedWorkIsCurrent'
  BY <1>9 DEF ReleaseEntry, Goto
<1>10. ASSUME NEW w \in Works, PassGate(w) PROVE ArmedWorkIsCurrent'
  BY <1>10 DEF PassGate, Goto
<1>11. ASSUME NEW w \in Works, Snapshot(w) PROVE ArmedWorkIsCurrent'
  BY <1>11 DEF Snapshot, End, Goto
<1>12. ASSUME NEW a \in Actors, Acquire(a) PROVE ArmedWorkIsCurrent'
  BY <1>12 DEF Acquire, Goto
<1>13. ASSUME NEW a \in Actors, CompareHash(a) PROVE ArmedWorkIsCurrent'
  BY <1>13 DEF CompareHash, Goto, AfterIndexing
<1>14. ASSUME NEW a \in Actors, PutSymbols(a) PROVE ArmedWorkIsCurrent'
  BY <1>14 DEF PutSymbols, Goto
<1>15. ASSUME NEW a \in Actors, PutNodes(a) PROVE ArmedWorkIsCurrent'
  BY <1>15 DEF PutNodes, Goto, AfterIndexing
<1>16. ASSUME NEW a \in Actors, CheckCurrent(a) PROVE ArmedWorkIsCurrent'
  BY <1>16 DEF CheckCurrent, Goto, Matches
<1>17. ASSUME NEW a \in Actors, NotifyClient(a) PROVE ArmedWorkIsCurrent'
  BY <1>17 DEF NotifyClient, Goto
<1>18. ASSUME NEW a \in Actors, MarkPublished(a) PROVE ArmedWorkIsCurrent'
  BY <1>18 DEF MarkPublished, Goto
<1>19. ASSUME NEW a \in Actors, Finish(a) PROVE ArmedWorkIsCurrent'
  BY <1>19 DEF Finish, Goto
<1>20. CASE UNCHANGED vars
  BY <1>20 DEF vars
<1>21. ASSUME NEW u \in Uris, ScanStep(u) PROVE ArmedWorkIsCurrent'
  BY <1>21, ScanEffect
<1> QED
  BY <1>1, <1>2, <1>3, <1>4, <1>5, <1>6, <1>7, <1>8, <1>9, <1>10,
     <1>11, <1>12, <1>13, <1>14, <1>15, <1>16, <1>17, <1>18, <1>19, <1>20, <1>21
  DEF Next, Dispatch, Callback, JobStep

(* Slots are taken and given back with the job.                            *)
LEMMA SlotsPreserved ==
  ASSUME DocInv, [Next]_vars
  PROVE  SlotsHeldInside'
<1> USE DEF DocInv, TypeOK, LabelsByActor, Working, NoJob, SlotsHeldInside
<1>1. ASSUME NEW u \in Uris, NEW text \in Texts, Open(u, text) PROVE SlotsHeldInside'
  <2>1. /\ doc' = [doc EXCEPT ![u] = [version |-> 1, text |-> text]]
        /\ accepted' = [accepted EXCEPT ![u] = None]
        /\ UNCHANGED <<mode, scanVars, slots, indexing, storeVars, clientVars>>
        /\ pc[Dispatcher] = "ready" /\ doc[u] = None
    BY <1>1 DEF Open
  <2>2. PICK kind \in Kinds :
          /\ kind = IF mode = "onType" THEN "analyse" ELSE "index"
          /\ Schedule(u, 1, kind)
    BY <1>1 DEF Open, Kinds
  <2>3. PICK w \in Works : Arms(w, u, 1, kind)
    BY <2>2, ScheduleEffect
  <2> QED
    BY <2>1, <2>2, <2>3 DEF Arms, Stopped
<1>2. ASSUME NEW u \in Uris, NEW text \in Texts, Change(u, text) PROVE SlotsHeldInside'
  <2>1. PICK v \in 1..MaxVersion :
          /\ doc' = [doc EXCEPT ![u] = [version |-> v, text |-> text]]
          /\ \/ mode = "onType" /\ Schedule(u, v, "analyse")
             \/ mode # "onType" /\ UNCHANGED <<timers, pc, job>>
          /\ pc[Dispatcher] = "ready" /\ doc[u] # None
          /\ UNCHANGED <<mode, scanVars, slots, indexing, storeVars, clientVars, accepted>>
    BY <1>2, ChangeCases
  <2>2. CASE mode = "onType"
    <3>1. PICK w \in Works : Arms(w, u, v, "analyse")
      BY <2>1, <2>2, ScheduleEffect DEF Kinds
    <3> QED
      BY <2>1, <2>2, <3>1 DEF Arms, Stopped
  <2>3. CASE mode # "onType"
    BY <2>1, <2>3
  <2> QED
    BY <2>2, <2>3
<1>3. ASSUME NEW u \in Uris, NEW disk \in DiskTexts(u), Save(u, disk) PROVE SlotsHeldInside'
  BY <1>3 DEF Save, DiskTexts, CancelAndRun, StopTimer, Stopped
<1>4. ASSUME NEW u \in Uris, NEW disk \in DiskTexts(u), Close(u, disk) PROVE SlotsHeldInside'
  BY <1>4 DEF Close, DiskTexts, CancelAndRun, StopTimer, Stopped
<1>5. ASSUME Exit PROVE SlotsHeldInside'
  BY <1>5 DEF Exit, Stopped
<1>6. ASSUME StartInitialIndexing PROVE SlotsHeldInside'
  BY <1>6 DEF StartInitialIndexing
<1>7. ASSUME FinishInitialIndexing PROVE SlotsHeldInside'
  BY <1>7 DEF FinishInitialIndexing
<1>8. ASSUME NEW w \in Works, Fire(w) PROVE SlotsHeldInside'
  BY <1>8 DEF Fire, Goto
<1>9. ASSUME NEW w \in Works, ReleaseEntry(w) PROVE SlotsHeldInside'
  BY <1>9 DEF ReleaseEntry, Goto
<1>10. ASSUME NEW w \in Works, PassGate(w) PROVE SlotsHeldInside'
  BY <1>10 DEF PassGate, Goto
<1>11. ASSUME NEW w \in Works, Snapshot(w) PROVE SlotsHeldInside'
  BY <1>11 DEF Snapshot, End, Goto
<1>12. ASSUME NEW a \in Actors, Acquire(a) PROVE SlotsHeldInside'
  <2>1. /\ pc[a] = "acquire" /\ pc' = [pc EXCEPT ![a] = "hash"]
        /\ slots' = slots \cup {a} /\ Cardinality(slots) < MaxWorkers
        /\ UNCHANGED job
    BY <1>12 DEF Acquire, Goto
  <2>2. job[a].kind # "close"
    BY <2>1
  <2>3. slots' = {b \in Actors : pc'[b] \in HeldLabels /\ job'[b].kind # "close"}
    BY <2>1, <2>2
  <2>4. IsFiniteSet(slots) /\ Cardinality(slots) \in Nat
    BY ActorsFinite, FS_Subset, FS_CardinalityType
  <2>5. Cardinality(slots \cup {a}) = IF a \in slots THEN Cardinality(slots)
                                      ELSE Cardinality(slots) + 1
    BY <2>4, FS_AddElement
  <2>6. Cardinality(slots') <= MaxWorkers
    BY <2>1, <2>4, <2>5
  <2> QED
    BY <2>3, <2>6
<1>13. ASSUME NEW a \in Actors, CompareHash(a) PROVE SlotsHeldInside'
  BY <1>13 DEF CompareHash, Goto, AfterIndexing
<1>14. ASSUME NEW a \in Actors, PutSymbols(a) PROVE SlotsHeldInside'
  BY <1>14 DEF PutSymbols, Goto
<1>15. ASSUME NEW a \in Actors, PutNodes(a) PROVE SlotsHeldInside'
  BY <1>15 DEF PutNodes, Goto, AfterIndexing
<1>16. ASSUME NEW a \in Actors, CheckCurrent(a) PROVE SlotsHeldInside'
  BY <1>16 DEF CheckCurrent, Goto, Matches
<1>17. ASSUME NEW a \in Actors, NotifyClient(a) PROVE SlotsHeldInside'
  BY <1>17 DEF NotifyClient, Goto
<1>18. ASSUME NEW a \in Actors, MarkPublished(a) PROVE SlotsHeldInside'
  BY <1>18 DEF MarkPublished, Goto
<1>19. ASSUME NEW a \in Actors, Finish(a) PROVE SlotsHeldInside'
  <2>1. /\ pc[a] = "finish" /\ slots' = slots \ {a}
        /\ pc' = [pc EXCEPT ![a] = IF a = Dispatcher THEN "ready" ELSE "free"]
        /\ job' = [job EXCEPT ![a] = NoJob]
    BY <1>19 DEF Finish, Goto
  <2>2. slots' = {b \in Actors : pc'[b] \in HeldLabels /\ job'[b].kind # "close"}
    BY <2>1
  <2>3. IsFiniteSet(slots) /\ Cardinality(slots) \in Nat
    BY ActorsFinite, FS_Subset, FS_CardinalityType
  <2>4. Cardinality(slots') <= Cardinality(slots) /\ Cardinality(slots') \in Nat
    BY <2>1, <2>3, FS_RemoveElement, FS_CardinalityType, FS_Subset
  <2> QED
    BY <2>2, <2>3, <2>4
<1>20. CASE UNCHANGED vars
  BY <1>20 DEF vars
<1>21. ASSUME NEW u \in Uris, ScanStep(u) PROVE SlotsHeldInside'
  <2>1. UNCHANGED <<slots, pc, job>>
    BY <1>21, ScanEffect
  <2> QED
    BY <2>1
<1> QED
  BY <1>1, <1>2, <1>3, <1>4, <1>5, <1>6, <1>7, <1>8, <1>9, <1>10,
     <1>11, <1>12, <1>13, <1>14, <1>15, <1>16, <1>17, <1>18, <1>19, <1>20, <1>21
  DEF Next, Dispatch, Callback, JobStep

(* An edit that is not analysed yet keeps a job that will analyse it.      *)
LEMMA LatestPreserved ==
  ASSUME DocInv, [Next]_vars
  PROVE  LatestTextInFlight'
<1> USE DEF DocInv, TypeOK, LabelsByActor, Working, NoJob,
           TimersOwnArmedWork, LatestTextInFlight, WillAnalyse, Documents
<1>1. ASSUME NEW u \in Uris, NEW text \in Texts, Open(u, text) PROVE LatestTextInFlight'
  <2>1. /\ doc' = [doc EXCEPT ![u] = [version |-> 1, text |-> text]]
        /\ accepted' = [accepted EXCEPT ![u] = None]
        /\ UNCHANGED <<mode, scanVars, slots, indexing, storeVars, clientVars>>
        /\ pc[Dispatcher] = "ready" /\ doc[u] = None
    BY <1>1 DEF Open
  <2>2. PICK kind \in Kinds :
          /\ kind = IF mode = "onType" THEN "analyse" ELSE "index"
          /\ Schedule(u, 1, kind)
    BY <1>1 DEF Open, Kinds
  <2>3. PICK w \in Works : Arms(w, u, 1, kind)
    BY <2>2, ScheduleEffect
  <2> QED
    BY <2>1, <2>2, <2>3 DEF Arms, Stopped
<1>2. ASSUME NEW u \in Uris, NEW text \in Texts, Change(u, text) PROVE LatestTextInFlight'
  <2>1. PICK v \in 1..MaxVersion :
          /\ doc' = [doc EXCEPT ![u] = [version |-> v, text |-> text]]
          /\ \/ mode = "onType" /\ Schedule(u, v, "analyse")
             \/ mode # "onType" /\ UNCHANGED <<timers, pc, job>>
          /\ pc[Dispatcher] = "ready" /\ doc[u] # None
          /\ UNCHANGED <<mode, scanVars, slots, indexing, storeVars, clientVars, accepted>>
    BY <1>2, ChangeCases
  <2>2. CASE mode = "onType"
    <3>1. PICK w \in Works : Arms(w, u, v, "analyse")
      BY <2>1, <2>2, ScheduleEffect DEF Kinds
    <3> QED
      BY <2>1, <2>2, <3>1 DEF Arms, Stopped
  <2>3. CASE mode # "onType"
    BY <2>1, <2>3
  <2> QED
    BY <2>2, <2>3
<1>3. ASSUME NEW u \in Uris, NEW disk \in DiskTexts(u), Save(u, disk) PROVE LatestTextInFlight'
  <2> DEFINE text == IF disk = None THEN doc[u].text ELSE disk
              own == [uri |-> u, version |-> doc[u].version, text |-> text, kind |-> "save"]
  <2>1. text \in Texts /\ doc[u] \in Documents /\ doc[u] # None /\ pc[Dispatcher] = "ready"
    BY <1>3 DEF Save, DiskTexts
  <2>2. doc' = [doc EXCEPT ![u] = [version |-> doc[u].version, text |-> text]]
    <3>1. doc' = [doc EXCEPT ![u] = [doc[u] EXCEPT !.text = text]]
      BY <1>3 DEF Save
    <3>2. [doc[u] EXCEPT !.text = text] = [version |-> doc[u].version, text |-> text]
      BY <2>1 DEF Documents
    <3> QED
      BY <3>1, <3>2
  <2>3. CancelAndRun(u, "acquire", own) /\ UNCHANGED <<mode, accepted>>
    BY <1>3 DEF Save
  <2>4. own \in Jobs
    BY <2>1 DEF Jobs, Kinds
  <2>5. /\ pc'[Dispatcher] = "acquire" /\ job'[Dispatcher] = own
        /\ \A w \in Works : w \notin Stopped(u) => pc'[w] = pc[w] /\ job'[w] = job[w]
    BY <2>3, <2>4, CancelEffect
  <2>6. WillAnalyse(Dispatcher, u)'
    BY <2>1, <2>2, <2>5
  <2>7. ASSUME NEW v \in Uris, v # u, NEW b \in Actors, WillAnalyse(b, v)
        PROVE  WillAnalyse(b, v)'
    BY <2>1, <2>2, <2>5, <2>7 DEF Stopped
  <2> QED
    BY <2>1, <2>2, <2>3, <2>6, <2>7
<1>4. ASSUME NEW u \in Uris, NEW disk \in DiskTexts(u), Close(u, disk) PROVE LatestTextInFlight'
  <2> DEFINE own == [uri |-> u, version |-> 0, kind |-> "close",
                         text |-> IF doc[u] = None THEN None ELSE disk]
  <2>1. pc[Dispatcher] = "ready" /\ UNCHANGED mode
    BY <1>4 DEF Close
  <2>2. doc' = [doc EXCEPT ![u] = None] /\ accepted' = [accepted EXCEPT ![u] = None]
    BY <1>4 DEF Close
  <2>3. CancelAndRun(u, "hash", own)
    BY <1>4 DEF Close
  <2>4. own \in Jobs
    BY DEF Jobs, Kinds, DiskTexts
  <2>5. \A w \in Works : w \notin Stopped(u) => pc'[w] = pc[w] /\ job'[w] = job[w]
    BY <2>3, <2>4, CancelEffect
  <2>6. ASSUME NEW v \in Uris, v # u, NEW b \in Actors, WillAnalyse(b, v)
        PROVE  WillAnalyse(b, v)'
    BY <2>1, <2>2, <2>5, <2>6 DEF Stopped
  <2> QED
    BY <2>1, <2>2, <2>6
<1>5. ASSUME Exit PROVE LatestTextInFlight'
  BY <1>5 DEF Exit, Stopped
<1>6. ASSUME StartInitialIndexing PROVE LatestTextInFlight'
  BY <1>6 DEF StartInitialIndexing
<1>7. ASSUME FinishInitialIndexing PROVE LatestTextInFlight'
  BY <1>7 DEF FinishInitialIndexing
<1>8. ASSUME NEW w \in Works, Fire(w) PROVE LatestTextInFlight'
  BY <1>8 DEF Fire, Goto
<1>9. ASSUME NEW w \in Works, ReleaseEntry(w) PROVE LatestTextInFlight'
  BY <1>9 DEF ReleaseEntry, Goto
<1>10. ASSUME NEW w \in Works, PassGate(w) PROVE LatestTextInFlight'
  BY <1>10 DEF PassGate, Goto
<1>11. ASSUME NEW w \in Works, Snapshot(w) PROVE LatestTextInFlight'
  <2>1. CASE doc[job[w].uri] # None /\ doc[job[w].uri].version = job[w].version
    <3>1. /\ job' = [job EXCEPT ![w].text = doc[job[w].uri].text]
          /\ pc' = [pc EXCEPT ![w] = "acquire"] /\ pc[w] = "snapshot"
          /\ UNCHANGED <<mode, scanVars, doc, timers, slots, indexing, storeVars, clientVars, accepted>>
      BY <1>11, <2>1 DEF Snapshot, Goto
    <3> QED
      BY <2>1, <3>1
  <2>2. CASE ~(doc[job[w].uri] # None /\ doc[job[w].uri].version = job[w].version)
    <3>1. /\ job' = [job EXCEPT ![w] = NoJob]
          /\ pc' = [pc EXCEPT ![w] = "free"] /\ pc[w] = "snapshot"
          /\ UNCHANGED <<mode, scanVars, doc, timers, slots, indexing, storeVars, clientVars, accepted>>
      BY <1>11, <2>2 DEF Snapshot, End, Goto
    <3> QED
      BY <2>2, <3>1
  <2> QED
    BY <2>1, <2>2
<1>12. ASSUME NEW a \in Actors, Acquire(a) PROVE LatestTextInFlight'
  BY <1>12 DEF Acquire, Goto
<1>13. ASSUME NEW a \in Actors, CompareHash(a) PROVE LatestTextInFlight'
  BY <1>13 DEF CompareHash, Goto, AfterIndexing
<1>14. ASSUME NEW a \in Actors, PutSymbols(a) PROVE LatestTextInFlight'
  BY <1>14 DEF PutSymbols, Goto
<1>15. ASSUME NEW a \in Actors, PutNodes(a) PROVE LatestTextInFlight'
  BY <1>15 DEF PutNodes, Goto, AfterIndexing
<1>16. ASSUME NEW a \in Actors, CheckCurrent(a) PROVE LatestTextInFlight'
  <2>1. /\ pc[a] = "check" /\ UNCHANGED <<mode, doc, job>>
        /\ \A b \in Actors \ {a} : pc'[b] = pc[b]
        /\ a = Dispatcher \/ pc'[Dispatcher] = pc[Dispatcher]
    BY <1>16 DEF CheckCurrent, Goto
  <2>2. job[a].uri \in Uris
    BY <2>1
  <2>3. \A v \in Uris : v # job[a].uri => accepted'[v] = accepted[v]
    BY <1>16, <2>2 DEF CheckCurrent
  <2>4. ASSUME NEW v \in Uris, doc[v] # None, WillAnalyse(a, v)
        PROVE  accepted'[v] = doc[v]
    <3>1. doc[v] \in Documents /\ job[a].uri = v /\ job[a].version = doc[v].version
            /\ job[a].text = doc[v].text
      BY <2>1, <2>4
    <3>2. Matches(a)
      BY <3>1 DEF Matches
    <3> QED
      BY <1>16, <3>1, <3>2 DEF CheckCurrent
  <2>5. ASSUME NEW v \in Uris, accepted[v] = doc[v] PROVE accepted'[v] = doc[v]
    BY <1>16, <2>5 DEF CheckCurrent
  <2>6. ASSUME NEW v \in Uris, NEW b \in Actors, b # a, WillAnalyse(b, v)
        PROVE  WillAnalyse(b, v)'
    BY <2>1, <2>6
  <2> QED
    BY <2>1, <2>4, <2>5, <2>6
<1>17. ASSUME NEW a \in Actors, NotifyClient(a) PROVE LatestTextInFlight'
  BY <1>17 DEF NotifyClient, Goto
<1>18. ASSUME NEW a \in Actors, MarkPublished(a) PROVE LatestTextInFlight'
  BY <1>18 DEF MarkPublished, Goto
<1>19. ASSUME NEW a \in Actors, Finish(a) PROVE LatestTextInFlight'
  BY <1>19 DEF Finish, Goto
<1>20. CASE UNCHANGED vars
  BY <1>20 DEF vars
<1>21. ASSUME NEW u \in Uris, ScanStep(u) PROVE LatestTextInFlight'
  BY <1>21, ScanEffect
<1> QED
  BY <1>1, <1>2, <1>3, <1>4, <1>5, <1>6, <1>7, <1>8, <1>9, <1>10,
     <1>11, <1>12, <1>13, <1>14, <1>15, <1>16, <1>17, <1>18, <1>19, <1>20, <1>21
  DEF Next, Dispatch, Callback, JobStep

(* With onSave only the dispatcher and scans publish.                      *)
LEMMA SavedPreserved ==
  ASSUME DocInv, [Next]_vars
  PROVE  SavedTextInFlight'
<1> USE DEF DocInv, TypeOK, LabelsByActor, Working, NoJob,
           SavedTextInFlight, Publishing, Documents
<1>1. ASSUME NEW u \in Uris, NEW text \in Texts, Open(u, text) PROVE SavedTextInFlight'
  BY <1>1 DEF Open, Schedule, StopTimer, Stopped
<1>2. ASSUME NEW u \in Uris, NEW text \in Texts, Change(u, text) PROVE SavedTextInFlight'
  BY <1>2 DEF Change, Schedule, StopTimer, Stopped
<1>3. ASSUME NEW u \in Uris, NEW disk \in DiskTexts(u), Save(u, disk) PROVE SavedTextInFlight'
  BY <1>3 DEF Save, DiskTexts, CancelAndRun, StopTimer, Stopped
<1>4. ASSUME NEW u \in Uris, NEW disk \in DiskTexts(u), Close(u, disk) PROVE SavedTextInFlight'
  BY <1>4 DEF Close, DiskTexts, CancelAndRun, StopTimer, Stopped
<1>5. ASSUME Exit PROVE SavedTextInFlight'
  BY <1>5 DEF Exit, Stopped
<1>6. ASSUME StartInitialIndexing PROVE SavedTextInFlight'
  BY <1>6 DEF StartInitialIndexing
<1>7. ASSUME FinishInitialIndexing PROVE SavedTextInFlight'
  BY <1>7 DEF FinishInitialIndexing
<1>8. ASSUME NEW w \in Works, Fire(w) PROVE SavedTextInFlight'
  BY <1>8 DEF Fire, Goto
<1>9. ASSUME NEW w \in Works, ReleaseEntry(w) PROVE SavedTextInFlight'
  BY <1>9 DEF ReleaseEntry, Goto
<1>10. ASSUME NEW w \in Works, PassGate(w) PROVE SavedTextInFlight'
  BY <1>10 DEF PassGate, Goto
<1>11. ASSUME NEW w \in Works, Snapshot(w) PROVE SavedTextInFlight'
  BY <1>11 DEF Snapshot, End, Goto
<1>12. ASSUME NEW a \in Actors, Acquire(a) PROVE SavedTextInFlight'
  BY <1>12 DEF Acquire, Goto
<1>13. ASSUME NEW a \in Actors, CompareHash(a) PROVE SavedTextInFlight'
  BY <1>13 DEF CompareHash, Goto, AfterIndexing
<1>14. ASSUME NEW a \in Actors, PutSymbols(a) PROVE SavedTextInFlight'
  BY <1>14 DEF PutSymbols, Goto
<1>15. ASSUME NEW a \in Actors, PutNodes(a) PROVE SavedTextInFlight'
  BY <1>15 DEF PutNodes, Goto, AfterIndexing
<1>16. ASSUME NEW a \in Actors, CheckCurrent(a) PROVE SavedTextInFlight'
  BY <1>16 DEF CheckCurrent, Goto, Matches
<1>17. ASSUME NEW a \in Actors, NotifyClient(a) PROVE SavedTextInFlight'
  BY <1>17 DEF NotifyClient, Goto
<1>18. ASSUME NEW a \in Actors, MarkPublished(a) PROVE SavedTextInFlight'
  BY <1>18 DEF MarkPublished, Goto
<1>19. ASSUME NEW a \in Actors, Finish(a) PROVE SavedTextInFlight'
  BY <1>19 DEF Finish, Goto
<1>20. CASE UNCHANGED vars
  BY <1>20 DEF vars
<1>21. ASSUME NEW u \in Uris, ScanStep(u) PROVE SavedTextInFlight'
  <2>1. UNCHANGED <<mode, pc, job, accepted>>
    BY <1>21, ScanEffect
  <2>2. \A v \in Uris : v \in scanned' \/ (v \notin scanned /\ shown'[v] = shown[v])
    BY <1>21 DEF ScanStep, ScanDocument, ScanCompare, ScanNotify, ScanMark,
                 ScanForget, ScanClear
  <2> QED
    BY <2>1, <2>2
<1> QED
  BY <1>1, <1>2, <1>3, <1>4, <1>5, <1>6, <1>7, <1>8, <1>9, <1>10,
     <1>11, <1>12, <1>13, <1>14, <1>15, <1>16, <1>17, <1>18, <1>19, <1>20, <1>21
  DEF Next, Dispatch, Callback, JobStep

(* Every step keeps DocInv.                                                *)
LEMMA StepPreserves == DocInv /\ [Next]_vars => DocInv'
<1>1. SUFFICES ASSUME DocInv, [Next]_vars PROVE DocInv'
  OBVIOUS
<1>2. TypeOK' /\ LabelsByActor' /\ TimersOwnArmedWork' /\ ArmedWorkIsCurrent'
  BY <1>1, TypePreserved, LabelsPreserved, TimersPreserved, ArmedPreserved
<1>3. SlotsHeldInside' /\ LatestTextInFlight' /\ SavedTextInFlight'
  BY <1>1, SlotsPreserved, LatestPreserved, SavedPreserved
<1> QED
  BY <1>2, <1>3 DEF DocInv

-----------------------------------------------------------------------------
(* DocInv is an invariant of the specification.                            *)
THEOREM Invariance == Spec => []DocInv
<1>1. Init => DocInv
  BY InitEstablishes
<1>2. DocInv /\ [Next]_vars => DocInv'
  BY StepPreserves
<1> QED
  BY <1>1, <1>2, PTL DEF Spec

(* Types, for every value of the constants.                                *)
THEOREM TypeCorrect == Spec => []TypeOK
<1>1. DocInv => TypeOK
  BY DEF DocInv
<1> QED
  BY <1>1, Invariance, PTL

(* didSave, didClose, exit and a newer schedule reach every callback that  *)
(* has not fired, through documentAnalysisTimers.                          *)
THEOREM TimersOwned == Spec => []TimersOwnArmedWork
<1>1. DocInv => TimersOwnArmedWork
  BY DEF DocInv
<1> QED
  BY <1>1, Invariance, PTL

(* With onType no timer holds work for a superseded or closed document.    *)
THEOREM ArmedCurrent == Spec => []ArmedWorkIsCurrent
<1>1. DocInv => ArmedWorkIsCurrent
  BY DEF DocInv
<1> QED
  BY <1>1, Invariance, PTL

(* documentAnalysisSem is held by the jobs inside runDocumentAnalysis and  *)
(* bounds their number.                                                    *)
THEOREM SlotsBounded == Spec => []SlotsHeldInside
<1>1. DocInv => SlotsHeldInside
  BY DEF DocInv
<1> QED
  BY <1>1, Invariance, PTL

(* No edit is left unanalysed once everything has settled.                 *)
THEOREM LatestAnalysed == Spec => []LatestTextAnalysed
<1>1. DocInv => LatestTextAnalysed
  <2>1. SUFFICES ASSUME DocInv, Quiet, mode = "onType",
                        NEW u \in Uris, doc[u] # None
                 PROVE  accepted[u] = doc[u]
    BY DEF LatestTextAnalysed
  <2>2. \A a \in Actors : ~WillAnalyse(a, u)
    BY <2>1 DEF Quiet, WillAnalyse
  <2> QED
    BY <2>1, <2>2 DEF DocInv, LatestTextInFlight, Quiet
<1> QED
  BY <1>1, Invariance, PTL

(* With onSave the client shows the diagnostics of the text last saved,    *)
(* unless a workspace scan has notified it since.                          *)
THEOREM SavedShown == Spec => []SavedTextShown
<1>1. DocInv => SavedTextShown
  BY DEF DocInv, SavedTextInFlight, SavedTextShown, Publishing
<1> QED
  BY <1>1, Invariance, PTL
=============================================================================
