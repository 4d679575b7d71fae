------------------------- MODULE ScanWorkers_proofs ---------------------------
(***************************************************************************)
(* Proofs about ScanWorkers, for any files, workers, cap and revisions.    *)
(* ScanWorkersInv is inductive; one lemma for each group of its conjuncts, *)
(* with one step per action.                                               *)
(***************************************************************************)
EXTENDS ScanWorkers, SetSums

USE FileAssumption, LimitAssumption, ResultAssumption
    DEF heldVars, workerVars, mainVars, clientVars, Waiting, Holding, Settling

(* A scan that lists files has a worker.                                   *)
LEMMA PoolNotEmpty == Files # {} => Workers # {}
<1>1. SUFFICES ASSUME Files # {}, Workers = {}
               PROVE  FALSE
  OBVIOUS
<1>2. Cardinality(Files) \in Nat /\ Cardinality(Files) # 0
  BY <1>1, FS_CardinalityType, FS_EmptySet
<1>3. DEFINE n == Cardinality(Files)
<1>4. DiagnosticWorkerCountFor(n) = 0
  BY <1>1, PoolAssumption, FS_EmptySet
<1>5. Procs \in Nat
  BY PoolAssumption
<1>6. Larger(Procs, 1) \in Nat /\ Larger(Procs, 1) >= 1
  BY <1>5 DEF Larger
<1>7. WorkerCountFor(n) \in Nat /\ WorkerCountFor(n) >= 1
  BY <1>2, <1>6 DEF WorkerCountFor, Smaller, MaxIndexingWorkers
<1>8. DiagnosticWorkerCountFor(n) >= 1
  <2>1. /\ Larger(Larger(Procs, 1) \div 2, 2) \in Int
        /\ Larger(Larger(Procs, 1) \div 2, 2) >= 2
    BY <1>6 DEF Larger
  <2>2. /\ Larger(Larger(Procs, 1) - 1, 2) \in Int
        /\ Larger(Larger(Procs, 1) - 1, 2) >= 2
    BY <1>6 DEF Larger
  <2>3. PICK k \in Int : k >= 2 /\ DiagnosticWorkerCountFor(n) = Smaller(WorkerCountFor(n), k)
    BY <2>1, <2>2 DEF DiagnosticWorkerCountFor
  <2> QED
    BY <2>3, <1>7 DEF Smaller
<1> QED
  BY <1>4, <1>8

(* The scan starts in the invariant.                                       *)
LEMMA InitEstablishes == Init => ScanWorkersInv
<1>1. Init => TypeOK
  <2>1. SUFFICES ASSUME Init PROVE TypeOK
    OBVIOUS
  <2>2. MaxCount \in Counts /\ 0 \in Counts
    BY DEF Counts
  <2>3. shown \in [All -> Counts] /\ published \subseteq All
    BY <2>1, <2>2 DEF Init
  <2>4. doc \in [All -> Revisions \cup {None}]
    BY <2>1 DEF Init
  <2>5. /\ count \in [Workers -> Counts] /\ current \in [Workers -> Nat]
        /\ \A w \in Workers : file[w] # None <=> pc[w] \in Holding
    BY <2>1, <2>2 DEF Init
  <2> QED
    BY <2>1, <2>3, <2>4, <2>5 DEF Init, TypeOK
<1>2. Init => WithinLimit /\ SwapFits /\ FilesPending /\ LeftForReason /\ WorkersFollowMain
  BY DEF Init, WithinLimit, SwapFits, FilesPending, LeftForReason, WorkersFollowMain
<1> QED
  BY <1>1, <1>2 DEF ScanWorkersInv

(* Types, and which worker holds a file.                                   *)
LEMMA TypePreserved ==
  ASSUME TypeOK, WorkersFollowMain, [Next]_vars
  PROVE  TypeOK'
<1> USE DEF TypeOK, WorkersFollowMain, All, Counts, Results, Drop, Leave, Continue, Goto, Put, Refuse, Stale
<1>1. ASSUME NEW w \in Workers, Take(w) PROVE TypeOK'
  BY <1>1 DEF Take
<1>2. ASSUME NEW w \in Workers, Route(w) PROVE TypeOK'
  BY <1>2 DEF Route
<1>3. ASSUME NEW w \in Workers, Analyse(w) PROVE TypeOK'
  BY <1>3 DEF Analyse
<1>4. ASSUME NEW w \in Workers, Abandon(w) PROVE TypeOK'
  BY <1>4 DEF Abandon
<1>5. ASSUME NEW w \in Workers, Allow(w) PROVE TypeOK'
  <2>1. CASE count[w] = 0 /\ capped /\ Leave(w) /\ UNCHANGED capped
    BY <2>1, <1>5 DEF Allow
  <2>2. CASE count[w] = 0 /\ ~capped /\ Goto(w, "store") /\ UNCHANGED <<heldVars, capped>>
    BY <2>2, <1>5 DEF Allow
  <2>3. CASE count[w] > 0 /\ total + count[w] > Limit /\ Refuse(w)
    BY <2>3, <1>5 DEF Allow
  <2>4. CASE /\ count[w] > 0 /\ total + count[w] <= Limit
             /\ current' = [current EXCEPT ![w] = total] /\ Goto(w, "swap")
             /\ UNCHANGED <<file, revision, count, capped>>
    BY <2>4, <1>5 DEF Allow
  <2> QED
    BY <2>1, <2>2, <2>3, <2>4, <1>5 DEF Allow
<1>6. ASSUME NEW w \in Workers, Swap(w) PROVE TypeOK'
  BY <1>6 DEF Swap
<1>7. ASSUME NEW w \in Workers, Store(w) PROVE TypeOK'
  BY <1>7 DEF Store
<1>8. ASSUME Start PROVE TypeOK'
  BY <1>8 DEF Start
<1>9. ASSUME TurnOff PROVE TypeOK'
  BY <1>9 DEF TurnOff
<1>10. ASSUME Wait PROVE TypeOK'
  BY <1>10 DEF Wait
<1>11. ASSUME Notify PROVE TypeOK'
  BY <1>11 DEF Notify
<1>12. ASSUME Mark PROVE TypeOK'
  BY <1>12 DEF Mark
<1>13. ASSUME Unlist PROVE TypeOK'
  BY <1>13 DEF Unlist
<1>14. ASSUME Return PROVE TypeOK'
  BY <1>14 DEF Return
<1>15. ASSUME NEW f \in All, Select(f) PROVE TypeOK'
  BY <1>15 DEF Select
<1>16. ASSUME NEW f \in All, Clear(f) PROVE TypeOK'
  BY <1>16 DEF Clear
<1>17. ASSUME NEW f \in Editable, Edit(f) PROVE TypeOK'
  BY <1>17 DEF Edit
<1>18. ASSUME NEW f \in Editable, EditorPublish(f) PROVE TypeOK'
  BY <1>18 DEF EditorPublish
<1>19. ASSUME UNCHANGED vars PROVE TypeOK'
  BY <1>19 DEF vars
<1> QED
  BY <1>1, <1>2, <1>3, <1>4, <1>5, <1>6, <1>7, <1>8, <1>9, <1>10, <1>11, <1>12, <1>13, <1>14, <1>15, <1>16, <1>17, <1>18, <1>19 DEF Next, Work, Main, Done

(* The cap, kept by the comparison in CompareAndSwap.                      *)
LEMMA LimitPreserved ==
  ASSUME TypeOK, WithinLimit, SwapFits, [Next]_vars
  PROVE  (WithinLimit /\ SwapFits)'
<1> USE DEF TypeOK, WithinLimit, SwapFits, Counts, Drop, Leave, Continue, Goto, Put, Refuse
<1>1. ASSUME NEW w \in Workers, Take(w) PROVE (WithinLimit /\ SwapFits)'
  BY <1>1 DEF Take
<1>2. ASSUME NEW w \in Workers, Route(w) PROVE (WithinLimit /\ SwapFits)'
  BY <1>2 DEF Route
<1>3. ASSUME NEW w \in Workers, Analyse(w) PROVE (WithinLimit /\ SwapFits)'
  BY <1>3 DEF Analyse
<1>4. ASSUME NEW w \in Workers, Abandon(w) PROVE (WithinLimit /\ SwapFits)'
  BY <1>4 DEF Abandon
<1>5. ASSUME NEW w \in Workers, Allow(w) PROVE (WithinLimit /\ SwapFits)'
  BY <1>5 DEF Allow
<1>6. ASSUME NEW w \in Workers, Swap(w) PROVE (WithinLimit /\ SwapFits)'
  BY <1>6 DEF Swap
<1>7. ASSUME NEW w \in Workers, Store(w) PROVE (WithinLimit /\ SwapFits)'
  BY <1>7 DEF Store
<1>8. ASSUME Start PROVE (WithinLimit /\ SwapFits)'
  BY <1>8 DEF Start
<1>9. ASSUME TurnOff PROVE (WithinLimit /\ SwapFits)'
  BY <1>9 DEF TurnOff
<1>10. ASSUME Wait PROVE (WithinLimit /\ SwapFits)'
  BY <1>10 DEF Wait
<1>11. ASSUME Notify PROVE (WithinLimit /\ SwapFits)'
  BY <1>11 DEF Notify
<1>12. ASSUME Mark PROVE (WithinLimit /\ SwapFits)'
  BY <1>12 DEF Mark
<1>13. ASSUME Unlist PROVE (WithinLimit /\ SwapFits)'
  BY <1>13 DEF Unlist
<1>14. ASSUME Return PROVE (WithinLimit /\ SwapFits)'
  BY <1>14 DEF Return
<1>15. ASSUME NEW f \in All, Select(f) PROVE (WithinLimit /\ SwapFits)'
  BY <1>15 DEF Select
<1>16. ASSUME NEW f \in All, Clear(f) PROVE (WithinLimit /\ SwapFits)'
  BY <1>16 DEF Clear
<1>17. ASSUME NEW f \in Editable, Edit(f) PROVE (WithinLimit /\ SwapFits)'
  BY <1>17 DEF Edit
<1>18. ASSUME NEW f \in Editable, EditorPublish(f) PROVE (WithinLimit /\ SwapFits)'
  BY <1>18 DEF EditorPublish
<1>19. ASSUME UNCHANGED vars PROVE (WithinLimit /\ SwapFits)'
  BY <1>19 DEF vars
<1> QED
  BY <1>1, <1>2, <1>3, <1>4, <1>5, <1>6, <1>7, <1>8, <1>9, <1>10, <1>11, <1>12, <1>13, <1>14, <1>15, <1>16, <1>17, <1>18, <1>19 DEF Next, Work, Main, Done

(* No listed file disappears from the scan.                                *)
LEMMA FilesPreserved ==
  ASSUME TypeOK, WorkersFollowMain, FilesPending, [Next]_vars
  PROVE  FilesPending'
<1> USE DEF TypeOK, WorkersFollowMain, FilesPending, Drop, Leave, Continue, Goto, Put, Refuse
<1>1. ASSUME NEW w \in Workers, Take(w) PROVE FilesPending'
  BY <1>1 DEF Take
<1>2. ASSUME NEW w \in Workers, Route(w) PROVE FilesPending'
  <2>1. [count |-> 0, revision |-> revision[w]] # None
    BY DEF Results, Counts
  <2> QED
    BY <2>1, <1>2 DEF Route
<1>3. ASSUME NEW w \in Workers, Analyse(w) PROVE FilesPending'
  BY <1>3 DEF Analyse
<1>4. ASSUME NEW w \in Workers, Abandon(w) PROVE FilesPending'
  BY <1>4 DEF Abandon
<1>5. ASSUME NEW w \in Workers, Allow(w) PROVE FilesPending'
  BY <1>5 DEF Allow
<1>6. ASSUME NEW w \in Workers, Swap(w) PROVE FilesPending'
  BY <1>6 DEF Swap
<1>7. ASSUME NEW w \in Workers, Store(w) PROVE FilesPending'
  <2>1. [count |-> count[w], revision |-> revision[w]] # None
    BY DEF Results
  <2> QED
    BY <2>1, <1>7 DEF Store
<1>8. ASSUME Start PROVE FilesPending'
  BY <1>8 DEF Start
<1>9. ASSUME TurnOff PROVE FilesPending'
  BY <1>9 DEF TurnOff
<1>10. ASSUME Wait PROVE FilesPending'
  BY <1>10 DEF Wait
<1>11. ASSUME Notify PROVE FilesPending'
  BY <1>11 DEF Notify
<1>12. ASSUME Mark PROVE FilesPending'
  BY <1>12 DEF Mark
<1>13. ASSUME Unlist PROVE FilesPending'
  BY <1>13 DEF Unlist
<1>14. ASSUME Return PROVE FilesPending'
  BY <1>14 DEF Return
<1>15. ASSUME NEW f \in All, Select(f) PROVE FilesPending'
  BY <1>15 DEF Select
<1>16. ASSUME NEW f \in All, Clear(f) PROVE FilesPending'
  BY <1>16 DEF Clear
<1>17. ASSUME NEW f \in Editable, Edit(f) PROVE FilesPending'
  BY <1>17 DEF Edit
<1>18. ASSUME NEW f \in Editable, EditorPublish(f) PROVE FilesPending'
  BY <1>18 DEF EditorPublish
<1>19. ASSUME UNCHANGED vars PROVE FilesPending'
  BY <1>19 DEF vars
<1> QED
  BY <1>1, <1>2, <1>3, <1>4, <1>5, <1>6, <1>7, <1>8, <1>9, <1>10, <1>11, <1>12, <1>13, <1>14, <1>15, <1>16, <1>17, <1>18, <1>19 DEF Next, Work, Main, Done

(* Workers leave for a reason, before the scan publishes.                  *)
LEMMA LeavingPreserved ==
  ASSUME TypeOK, LeftForReason, WorkersFollowMain, [Next]_vars
  PROVE  (LeftForReason /\ WorkersFollowMain)'
<1> USE DEF TypeOK, LeftForReason, WorkersFollowMain, Drop, Leave, Continue, Goto, Put, Refuse
<1>1. ASSUME NEW w \in Workers, Take(w) PROVE (LeftForReason /\ WorkersFollowMain)'
  BY <1>1 DEF Take
<1>2. ASSUME NEW w \in Workers, Route(w) PROVE (LeftForReason /\ WorkersFollowMain)'
  BY <1>2 DEF Route
<1>3. ASSUME NEW w \in Workers, Analyse(w) PROVE (LeftForReason /\ WorkersFollowMain)'
  BY <1>3 DEF Analyse
<1>4. ASSUME NEW w \in Workers, Abandon(w) PROVE (LeftForReason /\ WorkersFollowMain)'
  BY <1>4 DEF Abandon
<1>5. ASSUME NEW w \in Workers, Allow(w) PROVE (LeftForReason /\ WorkersFollowMain)'
  BY <1>5 DEF Allow
<1>6. ASSUME NEW w \in Workers, Swap(w) PROVE (LeftForReason /\ WorkersFollowMain)'
  BY <1>6 DEF Swap
<1>7. ASSUME NEW w \in Workers, Store(w) PROVE (LeftForReason /\ WorkersFollowMain)'
  BY <1>7 DEF Store
<1>8. ASSUME Start PROVE (LeftForReason /\ WorkersFollowMain)'
  BY <1>8 DEF Start
<1>9. ASSUME TurnOff PROVE (LeftForReason /\ WorkersFollowMain)'
  BY <1>9 DEF TurnOff
<1>10. ASSUME Wait PROVE (LeftForReason /\ WorkersFollowMain)'
  BY <1>10 DEF Wait
<1>11. ASSUME Notify PROVE (LeftForReason /\ WorkersFollowMain)'
  BY <1>11 DEF Notify
<1>12. ASSUME Mark PROVE (LeftForReason /\ WorkersFollowMain)'
  BY <1>12 DEF Mark
<1>13. ASSUME Unlist PROVE (LeftForReason /\ WorkersFollowMain)'
  BY <1>13 DEF Unlist
<1>14. ASSUME Return PROVE (LeftForReason /\ WorkersFollowMain)'
  BY <1>14 DEF Return
<1>15. ASSUME NEW f \in All, Select(f) PROVE (LeftForReason /\ WorkersFollowMain)'
  BY <1>15 DEF Select
<1>16. ASSUME NEW f \in All, Clear(f) PROVE (LeftForReason /\ WorkersFollowMain)'
  BY <1>16 DEF Clear
<1>17. ASSUME NEW f \in Editable, Edit(f) PROVE (LeftForReason /\ WorkersFollowMain)'
  BY <1>17 DEF Edit
<1>18. ASSUME NEW f \in Editable, EditorPublish(f) PROVE (LeftForReason /\ WorkersFollowMain)'
  BY <1>18 DEF EditorPublish
<1>19. ASSUME UNCHANGED vars PROVE (LeftForReason /\ WorkersFollowMain)'
  BY <1>19 DEF vars
<1> QED
  BY <1>1, <1>2, <1>3, <1>4, <1>5, <1>6, <1>7, <1>8, <1>9, <1>10, <1>11, <1>12, <1>13, <1>14, <1>15, <1>16, <1>17, <1>18, <1>19 DEF Next, Work, Main, Done

(* ScanWorkersInv is an invariant of the specification.                    *)
THEOREM ScanInvariance == Spec => []ScanWorkersInv
<1>1. Init => ScanWorkersInv
  BY InitEstablishes
<1>2. ScanWorkersInv /\ [Next]_vars => ScanWorkersInv'
  BY TypePreserved, LimitPreserved, FilesPreserved, LeavingPreserved DEF ScanWorkersInv
<1> QED
  BY <1>1, <1>2, PTL DEF Spec

(* Types, for every value of the constants.                                *)
THEOREM ScanTypeCorrect == Spec => []TypeOK
<1>1. ScanWorkersInv => TypeOK
  BY DEF ScanWorkersInv
<1> QED
  BY <1>1, ScanInvariance, PTL

(* However the workers race in allow, the total stays within the cap.      *)
THEOREM CapRespected == Spec => []WithinLimit
<1>1. ScanWorkersInv => WithinLimit
  BY DEF ScanWorkersInv
<1> QED
  BY <1>1, ScanInvariance, PTL

(* When a scan the cap did not cut short publishes, every listed file was  *)
(* analysed or given up.                                                   *)
THEOREM EveryFileSeen == Spec => []NoFileForgotten
<1>1. ScanWorkersInv => NoFileForgotten
  <2>1. SUFFICES ASSUME ScanWorkersInv, main \in Settling, ~capped, NEW f \in Files
                 PROVE  results[f] # None \/ f \in abandoned
    BY DEF NoFileForgotten
  <2>2. PICK v \in Workers : TRUE
    BY PoolNotEmpty
  <2>3. \A w \in Workers : pc[w] = "done" /\ file[w] = None
    BY <2>1 DEF ScanWorkersInv, WorkersFollowMain, TypeOK
  <2>4. jobs = {}
    BY <2>1, <2>2, <2>3 DEF ScanWorkersInv, LeftForReason
  <2> QED
    BY <2>1, <2>3, <2>4 DEF ScanWorkersInv, FilesPending
<1> QED
  BY <1>1, ScanInvariance, PTL

-----------------------------------------------------------------------------
(***************************************************************************)
(* The cap trips only when it must, and the progress counts every file.    *)
(***************************************************************************)

(* The total never shrinks, and no file has more than MaxCount.            *)
LEMMA CappingPreserved ==
  ASSUME TypeOK, CappedOnlyWhenFull, [Next]_vars
  PROVE  CappedOnlyWhenFull'
<1> USE DEF TypeOK, CappedOnlyWhenFull, Counts, Drop, Leave, Continue, Goto, Put, Refuse
<1>1. ASSUME NEW w \in Workers, Take(w) PROVE CappedOnlyWhenFull'
  BY <1>1 DEF Take
<1>2. ASSUME NEW w \in Workers, Route(w) PROVE CappedOnlyWhenFull'
  BY <1>2 DEF Route
<1>3. ASSUME NEW w \in Workers, Analyse(w) PROVE CappedOnlyWhenFull'
  BY <1>3 DEF Analyse
<1>4. ASSUME NEW w \in Workers, Abandon(w) PROVE CappedOnlyWhenFull'
  BY <1>4 DEF Abandon
<1>5. ASSUME NEW w \in Workers, Allow(w) PROVE CappedOnlyWhenFull'
  <2>1. total' = total /\ total \in Nat /\ count[w] \in 0..MaxCount
    BY <1>5 DEF Allow
  <2>2. capped' => capped \/ total + count[w] > Limit
    BY <1>5 DEF Allow
  <2> QED
    BY <2>1, <2>2
<1>6. ASSUME NEW w \in Workers, Swap(w) PROVE CappedOnlyWhenFull'
  BY <1>6 DEF Swap
<1>7. ASSUME NEW w \in Workers, Store(w) PROVE CappedOnlyWhenFull'
  BY <1>7 DEF Store
<1>8. ASSUME Start PROVE CappedOnlyWhenFull'
  BY <1>8 DEF Start
<1>9. ASSUME TurnOff PROVE CappedOnlyWhenFull'
  BY <1>9 DEF TurnOff
<1>10. ASSUME Wait PROVE CappedOnlyWhenFull'
  BY <1>10 DEF Wait
<1>11. ASSUME Notify PROVE CappedOnlyWhenFull'
  BY <1>11 DEF Notify
<1>12. ASSUME Mark PROVE CappedOnlyWhenFull'
  BY <1>12 DEF Mark
<1>13. ASSUME Unlist PROVE CappedOnlyWhenFull'
  BY <1>13 DEF Unlist
<1>14. ASSUME Return PROVE CappedOnlyWhenFull'
  BY <1>14 DEF Return
<1>15. ASSUME NEW f \in All, Select(f) PROVE CappedOnlyWhenFull'
  BY <1>15 DEF Select
<1>16. ASSUME NEW f \in All, Clear(f) PROVE CappedOnlyWhenFull'
  BY <1>16 DEF Clear
<1>17. ASSUME NEW f \in Editable, Edit(f) PROVE CappedOnlyWhenFull'
  BY <1>17 DEF Edit
<1>18. ASSUME NEW f \in Editable, EditorPublish(f) PROVE CappedOnlyWhenFull'
  BY <1>18 DEF EditorPublish
<1>19. ASSUME UNCHANGED vars PROVE CappedOnlyWhenFull'
  BY <1>19 DEF vars
<1> HIDE DEF TypeOK, CappedOnlyWhenFull, Counts, Drop, Leave, Continue, Goto, Put, Refuse
<1> QED
  BY <1>1, <1>2, <1>3, <1>4, <1>5, <1>6, <1>7, <1>8, <1>9, <1>10, <1>11, <1>12, <1>13, <1>14, <1>15, <1>16, <1>17, <1>18, <1>19 DEF Next, Work, Main, Done

(* With room left for the largest file, the scan is not cut short.         *)
THEOREM CappedForReason == Spec => []CappedOnlyWhenFull
<1>1. Init => CappedOnlyWhenFull
  BY DEF Init, CappedOnlyWhenFull
<1>2. TypeOK /\ CappedOnlyWhenFull /\ [Next]_vars => CappedOnlyWhenFull'
  BY CappingPreserved
<1> QED
  BY <1>1, <1>2, ScanTypeCorrect, PTL DEF Spec

(* What storing a result changes.                                          *)
LEMMA PutStores ==
  ASSUME TypeOK, NEW w \in Workers, file[w] \in Files, NEW n \in Counts, Put(w, n)
  PROVE  /\ Stored' = Stored \cup {file[w]}
         /\ \A f \in Files \ {file[w]} : results'[f] = results[f]
         /\ results'[file[w]] = [count |-> n, revision |-> revision[w]]
         /\ results'[file[w]] # None
<1>1. [count |-> n, revision |-> revision[w]] # None
  BY DEF Results, TypeOK
<1>2. /\ \A f \in Files \ {file[w]} : results'[f] = results[f]
      /\ results'[file[w]] = [count |-> n, revision |-> revision[w]]
  BY DEF Put, TypeOK
<1> QED
  BY <1>1, <1>2 DEF Stored

(* A worker past take holds a listed file.                                 *)
LEMMA HoldsListed ==
  ASSUME TypeOK, NEW w \in Workers, pc[w] \in Holding
  PROVE  file[w] \in Files
BY DEF TypeOK

(* A file is in the channel, held by one worker, stored or given up: in one *)
(* place at a time.                                                        *)
LEMMA OncePreserved ==
  ASSUME TypeOK, WorkersFollowMain, FilesOnce, [Next]_vars
  PROVE  FilesOnce'
<1> USE DEF TypeOK, WorkersFollowMain, FilesOnce, Stored, Drop, Leave, Continue, Goto, Put, Refuse
<1>1. ASSUME NEW w \in Workers, Take(w) PROVE FilesOnce'
  BY <1>1 DEF Take
<1>2. ASSUME NEW w \in Workers, Route(w) PROVE FilesOnce'
  <2>1. file[w] \in Files /\ 0 \in Counts
    BY <1>2, HoldsListed DEF Route, Counts
  <2>2. CASE Put(w, 0) /\ Continue(w)
    <3>1. Stored' = Stored \cup {file[w]}
      BY <2>1, <2>2, PutStores
    <3>2. jobs' = jobs /\ abandoned' = abandoned /\ main' = main /\ pc[w] \in Holding
      BY <1>2 DEF Route
    <3>3. file' = [file EXCEPT ![w] = None]
      BY <2>2
    <3> HIDE DEF Put, Stored, Drop, Leave, Continue, Goto
    <3>4. /\ \A v \in Workers \ {w} : file'[v] = file[v] /\ file'[v] # file[w]
          /\ file'[w] = None
      BY <2>1, <3>2, <3>3
    <3>5. None \notin jobs \cup Stored' \cup abandoned
      BY <2>1, <3>1 DEF Stored
    <3>6. main # "start"
      BY <3>2
    <3> QED
      BY <2>1, <3>1, <3>2, <3>4, <3>5, <3>6
  <2>3. CASE UNCHANGED <<file, results>>
    BY <2>3, <1>2 DEF Route
  <2> QED
    BY <2>2, <2>3, <1>2 DEF Route
<1>3. ASSUME NEW w \in Workers, Analyse(w) PROVE FilesOnce'
  BY <1>3 DEF Analyse
<1>4. ASSUME NEW w \in Workers, Abandon(w) PROVE FilesOnce'
  BY <1>4 DEF Abandon
<1>5. ASSUME NEW w \in Workers, Allow(w) PROVE FilesOnce'
  BY <1>5 DEF Allow
<1>6. ASSUME NEW w \in Workers, Swap(w) PROVE FilesOnce'
  BY <1>6 DEF Swap
<1>7. ASSUME NEW w \in Workers, Store(w) PROVE FilesOnce'
  <2>1. file[w] \in Files /\ count[w] \in Counts
    BY <1>7, HoldsListed DEF Store
  <2>2. Stored' = Stored \cup {file[w]}
    BY <2>1, <1>7, PutStores DEF Store
  <2>3. jobs' = jobs /\ abandoned' = abandoned /\ main' = main /\ pc[w] \in Holding
    BY <1>7 DEF Store
  <2>4. file' = [file EXCEPT ![w] = None]
    BY <1>7 DEF Store
  <2> HIDE DEF Put, Stored, Drop, Leave, Continue, Goto
  <2>5. /\ \A v \in Workers \ {w} : file'[v] = file[v] /\ file'[v] # file[w]
        /\ file'[w] = None
    BY <2>1, <2>3, <2>4
  <2>6. None \notin jobs \cup Stored' \cup abandoned
    BY <2>1, <2>2 DEF Stored
  <2>7. main # "start"
    BY <2>3
  <2> QED
    BY <2>1, <2>2, <2>3, <2>5, <2>6, <2>7
<1>8. ASSUME Start PROVE FilesOnce'
  BY <1>8 DEF Start
<1>9. ASSUME TurnOff PROVE FilesOnce'
  BY <1>9 DEF TurnOff
<1>10. ASSUME Wait PROVE FilesOnce'
  BY <1>10 DEF Wait
<1>11. ASSUME Notify PROVE FilesOnce'
  BY <1>11 DEF Notify
<1>12. ASSUME Mark PROVE FilesOnce'
  BY <1>12 DEF Mark
<1>13. ASSUME Unlist PROVE FilesOnce'
  BY <1>13 DEF Unlist
<1>14. ASSUME Return PROVE FilesOnce'
  BY <1>14 DEF Return
<1>15. ASSUME NEW f \in All, Select(f) PROVE FilesOnce'
  BY <1>15 DEF Select
<1>16. ASSUME NEW f \in All, Clear(f) PROVE FilesOnce'
  BY <1>16 DEF Clear
<1>17. ASSUME NEW f \in Editable, Edit(f) PROVE FilesOnce'
  BY <1>17 DEF Edit
<1>18. ASSUME NEW f \in Editable, EditorPublish(f) PROVE FilesOnce'
  BY <1>18 DEF EditorPublish
<1>19. ASSUME UNCHANGED vars PROVE FilesOnce'
  BY <1>19 DEF vars
<1> HIDE DEF TypeOK, WorkersFollowMain, FilesOnce, Stored, Drop, Leave, Continue, Goto, Put, Refuse
<1> QED
  BY <1>1, <1>2, <1>3, <1>4, <1>5, <1>6, <1>7, <1>8, <1>9, <1>10, <1>11, <1>12, <1>13, <1>14, <1>15, <1>16, <1>17, <1>18, <1>19 DEF Next, Work, Main, Done

(* The sets the progress counts are finite.                                *)
LEMMA DoneFinite ==
  ASSUME TypeOK
  PROVE  /\ IsFiniteSet(Stored) /\ IsFiniteSet(abandoned)
         /\ Cardinality(Stored) \in Nat /\ Cardinality(abandoned) \in Nat
<1>1. Stored \subseteq Files /\ abandoned \subseteq Files
  BY DEF Stored, TypeOK
<1> QED
  BY <1>1, FS_Subset, FS_CardinalityType

(* The progress.                                                           *)
Counted == processed = Cardinality(Stored) + Cardinality(abandoned)

(* Each file done is counted once.                                         *)
LEMMA CountPreserved ==
  ASSUME TypeOK, FilesOnce, Counted, [Next]_vars
  PROVE  Counted'
<1> USE DEF Counted
<1>1. ASSUME NEW w \in Workers, Take(w) PROVE Counted'
  BY <1>1 DEF Take, Stored
<1>2. ASSUME NEW w \in Workers, Route(w) PROVE Counted'
  <2>1. file[w] \in Files /\ 0 \in Counts
    BY <1>2, HoldsListed DEF Route, Counts
  <2>2. CASE Put(w, 0) /\ Continue(w)
    <3>1. Stored' = Stored \cup {file[w]}
      BY <2>1, <2>2, PutStores
    <3>2. Cardinality(Stored') = Cardinality(Stored) + 1
      BY <3>1, DoneFinite, FS_AddElement DEF FilesOnce
    <3> QED
      BY <2>2, <3>2, DoneFinite, <1>2 DEF Route, Continue
  <2>3. CASE UNCHANGED <<results, processed>>
    BY <2>3, <1>2 DEF Route, Stored
  <2> QED
    BY <2>2, <2>3, <1>2 DEF Route
<1>3. ASSUME NEW w \in Workers, Analyse(w) PROVE Counted'
  BY <1>3 DEF Analyse, Stored
<1>4. ASSUME NEW w \in Workers, Abandon(w) PROVE Counted'
  <2>1. Cardinality(abandoned') = Cardinality(abandoned) + 1
    BY <1>4, DoneFinite, FS_AddElement DEF Abandon, FilesOnce
  <2> QED
    BY <2>1, DoneFinite, <1>4 DEF Abandon, Continue, Stored
<1>5. ASSUME NEW w \in Workers, Allow(w) PROVE Counted'
  BY <1>5 DEF Allow, Stored
<1>6. ASSUME NEW w \in Workers, Swap(w) PROVE Counted'
  BY <1>6 DEF Swap, Stored
<1>7. ASSUME NEW w \in Workers, Store(w) PROVE Counted'
  <2>1. Stored' = Stored \cup {file[w]}
    BY <1>7, PutStores, HoldsListed DEF Store, TypeOK
  <2>2. Cardinality(Stored') = Cardinality(Stored) + 1
    BY <2>1, DoneFinite, FS_AddElement DEF FilesOnce
  <2> QED
    BY <2>2, DoneFinite, <1>7 DEF Store, Continue
<1>8. ASSUME Start PROVE Counted'
  BY <1>8 DEF Start, Stored
<1>9. ASSUME TurnOff PROVE Counted'
  BY <1>9 DEF TurnOff, Stored
<1>10. ASSUME Wait PROVE Counted'
  BY <1>10 DEF Wait, Stored
<1>11. ASSUME Notify PROVE Counted'
  BY <1>11 DEF Notify, Stored
<1>12. ASSUME Mark PROVE Counted'
  BY <1>12 DEF Mark, Stored
<1>13. ASSUME Unlist PROVE Counted'
  BY <1>13 DEF Unlist, Stored
<1>14. ASSUME Return PROVE Counted'
  BY <1>14 DEF Return, Stored
<1>15. ASSUME NEW f \in All, Select(f) PROVE Counted'
  BY <1>15 DEF Select, Stored
<1>16. ASSUME NEW f \in All, Clear(f) PROVE Counted'
  BY <1>16 DEF Clear, Stored
<1>17. ASSUME NEW f \in Editable, Edit(f) PROVE Counted'
  BY <1>17 DEF Edit, Stored
<1>18. ASSUME NEW f \in Editable, EditorPublish(f) PROVE Counted'
  BY <1>18 DEF EditorPublish, Stored
<1>19. ASSUME UNCHANGED vars PROVE Counted'
  BY <1>19 DEF vars, Stored
<1> HIDE DEF Counted
<1> QED
  BY <1>1, <1>2, <1>3, <1>4, <1>5, <1>6, <1>7, <1>8, <1>9, <1>10, <1>11, <1>12, <1>13, <1>14, <1>15, <1>16, <1>17, <1>18, <1>19 DEF Next, Work, Main, Done

(* ProgressInv is an invariant of the specification.                       *)
THEOREM ProgressInvariance == Spec => []ProgressInv
<1>1. Init => ProgressInv
  <2>1. SUFFICES ASSUME Init PROVE ProgressInv
    OBVIOUS
  <2>2. Stored = {} /\ abandoned = {} /\ processed = 0
    BY <2>1 DEF Init, Stored
  <2>3. FilesOnce
    BY <2>1, <2>2 DEF Init, FilesOnce
  <2>4. processed = Cardinality(Stored) + Cardinality(abandoned)
    BY <2>2, FS_EmptySet
  <2> QED
    BY <2>1, <2>3, <2>4, InitEstablishes DEF ProgressInv
<1>2. ScanWorkersInv /\ ProgressInv /\ [Next]_vars /\ ScanWorkersInv' => ProgressInv'
  BY OncePreserved, CountPreserved DEF ProgressInv, Counted, ScanWorkersInv
<1> QED
  BY <1>1, <1>2, ScanInvariance, PTL DEF Spec

(* The progress reported is the number of files done, all of them when the *)
(* scan was not cut short.                                                 *)
THEOREM ProgressExact == Spec => []ProgressAccounted
<1>1. ProgressInv /\ NoFileForgotten => ProgressAccounted
  <2>1. SUFFICES ASSUME ProgressInv, NoFileForgotten PROVE ProgressAccounted
    OBVIOUS
  <2>2. processed = Cardinality(Stored) + Cardinality(abandoned)
    BY <2>1 DEF ProgressInv
  <2>3. ASSUME main \in Settling, ~capped
        PROVE  processed = Cardinality(Files)
    <3>1. Stored \cup abandoned = Files
      BY <2>1, <2>3 DEF NoFileForgotten, Stored, ProgressInv, ScanWorkersInv, TypeOK
    <3>2. Stored \cap abandoned = {}
      BY <2>1 DEF ProgressInv, FilesOnce
    <3>3. TypeOK
      BY <2>1 DEF ProgressInv, ScanWorkersInv
    <3>4. Cardinality(Files) = Cardinality(Stored) + Cardinality(abandoned) - Cardinality({})
      BY <3>1, <3>2, <3>3, DoneFinite, FS_Union
    <3> QED
      BY <2>2, <3>3, <3>4, DoneFinite, FS_EmptySet
  <2> QED
    BY <2>2, <2>3 DEF ProgressAccounted, Stored
<1> QED
  BY <1>1, ProgressInvariance, EveryFileSeen, PTL


-----------------------------------------------------------------------------
(***************************************************************************)
(* What the client shows after the scan, of files the editor leaves alone. *)
(***************************************************************************)

(* A file the editor leaves alone is read from disk.                       *)
LEMMA DiskPreserved ==
  ASSUME TypeOK, WorkersFollowMain, ReadFromDisk, [Next]_vars
  PROVE  ReadFromDisk'
<1> USE DEF TypeOK, WorkersFollowMain, ReadFromDisk, Stored, Drop, Leave, Continue, Goto, Put, Refuse
<1>1. ASSUME NEW w \in Workers, Take(w) PROVE ReadFromDisk'
  BY <1>1 DEF Take
<1>2. ASSUME NEW w \in Workers, Route(w) PROVE ReadFromDisk'
  <2>1. file[w] \in Files /\ 0 \in Counts /\ pc[w] = "route"
    BY <1>2, HoldsListed DEF Route, Counts
  <2>2. CASE Put(w, 0) /\ Continue(w)
    <3>1. /\ Stored' = Stored \cup {file[w]}
          /\ \A f \in Files \ {file[w]} : results'[f] = results[f]
          /\ results'[file[w]] = [count |-> 0, revision |-> revision[w]]
      BY <2>1, <2>2, PutStores
    <3> HIDE DEF Put, Stored
    <3>0. Stored \subseteq Files
      BY DEF Stored
    <3>2. revision[w] = None
      BY <2>1
    <3>3. /\ doc' = doc /\ pc' = [pc EXCEPT ![w] = "take"] /\ file' = [file EXCEPT ![w] = None]
          /\ revision' = [revision EXCEPT ![w] = None]
      BY <2>2, <1>2 DEF Route
    <3>4. \A v \in Workers : pc'[v] \in Waiting \cup {"route"} \/ file'[v] \notin Editable =>
            revision'[v] = None
      BY <3>3
    <3>5. \A f \in Stored' \ Editable : results'[f].revision = None
      BY <3>0, <3>1, <3>2
    <3> QED
      BY <3>3, <3>4, <3>5
  <2>3. CASE /\ revision' = [revision EXCEPT ![w] = doc[file[w]]] /\ Goto(w, "analyse")
             /\ UNCHANGED <<file, results, doc>>
    BY <2>1, <2>3 DEF All
  <2> QED
    BY <2>2, <2>3, <1>2 DEF Route
<1>3. ASSUME NEW w \in Workers, Analyse(w) PROVE ReadFromDisk'
  BY <1>3 DEF Analyse
<1>4. ASSUME NEW w \in Workers, Abandon(w) PROVE ReadFromDisk'
  BY <1>4 DEF Abandon
<1>5. ASSUME NEW w \in Workers, Allow(w) PROVE ReadFromDisk'
  BY <1>5 DEF Allow
<1>6. ASSUME NEW w \in Workers, Swap(w) PROVE ReadFromDisk'
  BY <1>6 DEF Swap
<1>7. ASSUME NEW w \in Workers, Store(w) PROVE ReadFromDisk'
  <2>1. file[w] \in Files /\ count[w] \in Counts /\ pc[w] = "store"
    BY <1>7, HoldsListed DEF Store
  <2>2. /\ Stored' = Stored \cup {file[w]}
        /\ \A f \in Files \ {file[w]} : results'[f] = results[f]
        /\ results'[file[w]] = [count |-> count[w], revision |-> revision[w]]
    BY <2>1, <1>7, PutStores DEF Store
  <2> HIDE DEF Put, Stored
  <2>3. Stored \subseteq Files
    BY DEF Stored
  <2>4. revision[w] = None \/ file[w] \in Editable
    BY <2>1
  <2>5. /\ doc' = doc /\ pc' = [pc EXCEPT ![w] = "take"] /\ file' = [file EXCEPT ![w] = None]
        /\ revision' = [revision EXCEPT ![w] = None]
    BY <1>7 DEF Store
  <2>6. \A v \in Workers : pc'[v] \in Waiting \cup {"route"} \/ file'[v] \notin Editable =>
          revision'[v] = None
    BY <2>5
  <2>7. \A f \in Stored' \ Editable : results'[f].revision = None
    BY <2>2, <2>3, <2>4
  <2> QED
    BY <2>5, <2>6, <2>7
<1>8. ASSUME Start PROVE ReadFromDisk'
  BY <1>8 DEF Start
<1>9. ASSUME TurnOff PROVE ReadFromDisk'
  BY <1>9 DEF TurnOff
<1>10. ASSUME Wait PROVE ReadFromDisk'
  BY <1>10 DEF Wait
<1>11. ASSUME Notify PROVE ReadFromDisk'
  BY <1>11 DEF Notify
<1>12. ASSUME Mark PROVE ReadFromDisk'
  BY <1>12 DEF Mark
<1>13. ASSUME Unlist PROVE ReadFromDisk'
  BY <1>13 DEF Unlist
<1>14. ASSUME Return PROVE ReadFromDisk'
  BY <1>14 DEF Return
<1>15. ASSUME NEW f \in All, Select(f) PROVE ReadFromDisk'
  BY <1>15 DEF Select
<1>16. ASSUME NEW f \in All, Clear(f) PROVE ReadFromDisk'
  BY <1>16 DEF Clear
<1>17. ASSUME NEW f \in Editable, Edit(f) PROVE ReadFromDisk'
  BY <1>17 DEF Edit
<1>18. ASSUME NEW f \in Editable, EditorPublish(f) PROVE ReadFromDisk'
  BY <1>18 DEF EditorPublish
<1>19. ASSUME UNCHANGED vars PROVE ReadFromDisk'
  BY <1>19 DEF vars
<1> HIDE DEF TypeOK, WorkersFollowMain, ReadFromDisk, Stored, Drop, Leave, Continue, Goto, Put, Refuse
<1> QED
  BY <1>1, <1>2, <1>3, <1>4, <1>5, <1>6, <1>7, <1>8, <1>9, <1>10, <1>11, <1>12, <1>13, <1>14, <1>15, <1>16, <1>17, <1>18, <1>19 DEF Next, Work, Main, Done

(* A result of a file the editor leaves alone is not stale.                *)
LEMMA NotStale ==
  ASSUME ReadFromDisk, NEW f \in Stored \ Editable
  PROVE  ~Stale(f)
BY DEF ReadFromDisk, Stale

(* Of a file the editor leaves alone, the client's view differs from       *)
(* publishedDiagnostics only between the two steps of a publication.       *)
LEMMA KnownPreserved ==
  ASSUME TypeOK, KnownShown, ResultsShown, ClearingOutside, [Next]_vars
  PROVE  KnownShown'
<1> USE DEF TypeOK, KnownShown, BetweenSteps, All, Counts, Drop, Leave, Continue, Goto, Put, Refuse
<1>1. ASSUME NEW w \in Workers, Take(w) PROVE KnownShown'
  BY <1>1 DEF Take
<1>2. ASSUME NEW w \in Workers, Route(w) PROVE KnownShown'
  BY <1>2 DEF Route
<1>3. ASSUME NEW w \in Workers, Analyse(w) PROVE KnownShown'
  BY <1>3 DEF Analyse
<1>4. ASSUME NEW w \in Workers, Abandon(w) PROVE KnownShown'
  BY <1>4 DEF Abandon
<1>5. ASSUME NEW w \in Workers, Allow(w) PROVE KnownShown'
  BY <1>5 DEF Allow
<1>6. ASSUME NEW w \in Workers, Swap(w) PROVE KnownShown'
  BY <1>6 DEF Swap
<1>7. ASSUME NEW w \in Workers, Store(w) PROVE KnownShown'
  BY <1>7 DEF Store
<1>8. ASSUME Start PROVE KnownShown'
  BY <1>8 DEF Start
<1>9. ASSUME TurnOff PROVE KnownShown'
  BY <1>9 DEF TurnOff
<1>10. ASSUME Wait PROVE KnownShown'
  BY <1>10 DEF Wait
<1>11. ASSUME Notify PROVE KnownShown'
  BY <1>11 DEF Notify
<1>12. ASSUME Mark PROVE KnownShown'
  <2>1. publishing \in Stored
    BY <1>12 DEF Mark, Stored
  <2>2. publishing \in Editable \/ shown[publishing] = results[publishing].count
    BY <2>1, <1>12 DEF Mark, ResultsShown, ToShow
  <2>3. results[publishing].count \in Nat
    BY <2>1, <1>12 DEF Mark, Stored, Results
  <2> QED
    BY <2>2, <2>3, <1>12 DEF Mark
<1>13. ASSUME Unlist PROVE KnownShown'
  BY <1>13 DEF Unlist
<1>14. ASSUME Return PROVE KnownShown'
  BY <1>14 DEF Return
<1>15. ASSUME NEW f \in All, Select(f) PROVE KnownShown'
  BY <1>15 DEF Select
<1>16. ASSUME NEW f \in All, Clear(f) PROVE KnownShown'
  <2>1. f \in published => f \in Editable
    BY <1>16 DEF Clear, ClearingOutside
  <2> QED
    BY <2>1, <1>16 DEF Clear
<1>17. ASSUME NEW f \in Editable, Edit(f) PROVE KnownShown'
  BY <1>17 DEF Edit
<1>18. ASSUME NEW f \in Editable, EditorPublish(f) PROVE KnownShown'
  BY <1>18 DEF EditorPublish
<1>19. ASSUME UNCHANGED vars PROVE KnownShown'
  BY <1>19 DEF vars
<1> HIDE DEF TypeOK, KnownShown, BetweenSteps, All, Counts, Drop, Leave, Continue, Goto, Put, Refuse
<1> QED
  BY <1>1, <1>2, <1>3, <1>4, <1>5, <1>6, <1>7, <1>8, <1>9, <1>10, <1>11, <1>12, <1>13, <1>14, <1>15, <1>16, <1>17, <1>18, <1>19 DEF Next, Work, Main, Done

(* Clearing touches files outside the workspace only, and all that are shown. *)
LEMMA ClearingPreserved ==
  ASSUME TypeOK, KnownShown, ClearingOutside, [Next]_vars
  PROVE  ClearingOutside'
<1> USE DEF TypeOK, ClearingOutside, All, Counts, Drop, Leave, Continue, Goto, Put, Refuse
<1>1. ASSUME NEW w \in Workers, Take(w) PROVE ClearingOutside'
  BY <1>1 DEF Take
<1>2. ASSUME NEW w \in Workers, Route(w) PROVE ClearingOutside'
  BY <1>2 DEF Route
<1>3. ASSUME NEW w \in Workers, Analyse(w) PROVE ClearingOutside'
  BY <1>3 DEF Analyse
<1>4. ASSUME NEW w \in Workers, Abandon(w) PROVE ClearingOutside'
  BY <1>4 DEF Abandon
<1>5. ASSUME NEW w \in Workers, Allow(w) PROVE ClearingOutside'
  BY <1>5 DEF Allow
<1>6. ASSUME NEW w \in Workers, Swap(w) PROVE ClearingOutside'
  BY <1>6 DEF Swap
<1>7. ASSUME NEW w \in Workers, Store(w) PROVE ClearingOutside'
  BY <1>7 DEF Store
<1>8. ASSUME Start PROVE ClearingOutside'
  BY <1>8 DEF Start
<1>9. ASSUME TurnOff PROVE ClearingOutside'
  BY <1>9 DEF TurnOff
<1>10. ASSUME Wait PROVE ClearingOutside'
  BY <1>10 DEF Wait
<1>11. ASSUME Notify PROVE ClearingOutside'
  BY <1>11 DEF Notify
<1>12. ASSUME Mark PROVE ClearingOutside'
  BY <1>12 DEF Mark
<1>13. ASSUME Unlist PROVE ClearingOutside'
  BY <1>13 DEF Unlist, KnownShown, BetweenSteps
<1>14. ASSUME Return PROVE ClearingOutside'
  BY <1>14 DEF Return
<1>15. ASSUME NEW f \in All, Select(f) PROVE ClearingOutside'
  BY <1>15 DEF Select
<1>16. ASSUME NEW f \in All, Clear(f) PROVE ClearingOutside'
  BY <1>16 DEF Clear
<1>17. ASSUME NEW f \in Editable, Edit(f) PROVE ClearingOutside'
  BY <1>17 DEF Edit
<1>18. ASSUME NEW f \in Editable, EditorPublish(f) PROVE ClearingOutside'
  BY <1>18 DEF EditorPublish
<1>19. ASSUME UNCHANGED vars PROVE ClearingOutside'
  BY <1>19 DEF vars
<1> HIDE DEF TypeOK, ClearingOutside, All, Counts, Drop, Leave, Continue, Goto, Put, Refuse
<1> QED
  BY <1>1, <1>2, <1>3, <1>4, <1>5, <1>6, <1>7, <1>8, <1>9, <1>10, <1>11, <1>12, <1>13, <1>14, <1>15, <1>16, <1>17, <1>18, <1>19 DEF Next, Work, Main, Done

(* A stored result is shown, or still to be shown.                         *)
LEMMA ResultsPreserved ==
  ASSUME TypeOK, WorkersFollowMain, ReadFromDisk, KnownShown, ClearingOutside, ResultsShown, [Next]_vars
  PROVE  ResultsShown'
<1> USE DEF ResultsShown, ToShow
<1>1. ASSUME NEW w \in Workers, Take(w) PROVE ResultsShown'
  <2>1. main \notin Settling /\ main' = main
    BY <1>1 DEF Take, WorkersFollowMain
  <2> QED
    BY <2>1
<1>2. ASSUME NEW w \in Workers, Route(w) PROVE ResultsShown'
  <2>1. main \notin Settling /\ main' = main
    BY <1>2 DEF Route, WorkersFollowMain
  <2> QED
    BY <2>1
<1>3. ASSUME NEW w \in Workers, Analyse(w) PROVE ResultsShown'
  <2>1. main \notin Settling /\ main' = main
    BY <1>3 DEF Analyse, WorkersFollowMain
  <2> QED
    BY <2>1
<1>4. ASSUME NEW w \in Workers, Abandon(w) PROVE ResultsShown'
  <2>1. main \notin Settling /\ main' = main
    BY <1>4 DEF Abandon, WorkersFollowMain
  <2> QED
    BY <2>1
<1>5. ASSUME NEW w \in Workers, Allow(w) PROVE ResultsShown'
  <2>1. main \notin Settling /\ main' = main
    BY <1>5 DEF Allow, WorkersFollowMain
  <2> QED
    BY <2>1
<1>6. ASSUME NEW w \in Workers, Swap(w) PROVE ResultsShown'
  <2>1. main \notin Settling /\ main' = main
    BY <1>6 DEF Swap, WorkersFollowMain
  <2> QED
    BY <2>1
<1>7. ASSUME NEW w \in Workers, Store(w) PROVE ResultsShown'
  <2>1. main \notin Settling /\ main' = main
    BY <1>7 DEF Store, WorkersFollowMain
  <2> QED
    BY <2>1
<1>8. ASSUME Start PROVE ResultsShown'
  BY <1>8 DEF Start, Stored, TypeOK
<1>9. ASSUME TurnOff PROVE ResultsShown'
  BY <1>9 DEF TurnOff, Stored, TypeOK
<1>10. ASSUME Wait PROVE ResultsShown'
  BY <1>10 DEF Wait, Stored, TypeOK
<1>11. ASSUME Notify PROVE ResultsShown'
  <2>1. /\ main = "notify" /\ main' = "mark" /\ UNCHANGED <<todo, publishing, results>>
        /\ Stored' = Stored /\ shown' = [shown EXCEPT ![publishing] = results[publishing].count]
    BY <1>11 DEF Notify, Stored
  <2>2. shown \in [All -> Counts] /\ Stored \subseteq All /\ publishing \in All
    BY <2>1 DEF TypeOK, Stored, All
  <2> QED
    BY <2>1, <2>2
<1>12. ASSUME Mark PROVE ResultsShown'
  BY <1>12 DEF Mark, Stored, TypeOK
<1>13. ASSUME Unlist PROVE ResultsShown'
  BY <1>13 DEF Unlist, Stored, TypeOK
<1>14. ASSUME Return PROVE ResultsShown'
  BY <1>14 DEF Return, Stored, TypeOK
<1>15. ASSUME NEW f \in All, Select(f) PROVE ResultsShown'
  <2>1. /\ main = "publish" /\ f \in todo /\ todo' = todo \ {f}
        /\ UNCHANGED <<results, shown, published>> /\ Stored' = Stored
    BY <1>15 DEF Select, Stored
  <2>2. CASE (Stale(f) \/ (results[f].count = 0 /\ f \notin published)) /\ UNCHANGED <<main, publishing>>
    <3>1. f \in Stored
      BY <2>1 DEF Stored, TypeOK
    <3>2. f \in Editable \/ shown[f] = results[f].count
      <4>1. SUFFICES ASSUME f \notin Editable PROVE shown[f] = results[f].count
        OBVIOUS
      <4>2. results[f].count = 0 /\ f \notin published
        BY <2>2, <3>1, <4>1, NotStale
      <4>3. ~(shown[f] > 0) /\ shown[f] \in Nat
        BY <2>1, <4>1, <4>2 DEF KnownShown, BetweenSteps, TypeOK, Counts
      <4> QED
        BY <4>2, <4>3
    <3> QED
      BY <2>1, <2>2, <3>2
  <2>3. CASE main' = "notify" /\ publishing' = f
    BY <2>1, <2>3
  <2> QED
    BY <2>2, <2>3, <1>15 DEF Select
<1>16. ASSUME NEW f \in All, Clear(f) PROVE ResultsShown'
  <2>1. /\ main = "clear" /\ f \in Others /\ UNCHANGED <<main, publishing, results>>
        /\ Stored' = Stored /\ shown' = [shown EXCEPT ![f] = 0]
    BY <1>16 DEF Clear, Stored, ClearingOutside
  <2>2. shown \in [All -> Counts] /\ Stored \subseteq Files
    BY DEF TypeOK, Stored
  <2> QED
    BY <2>1, <2>2
<1>17. ASSUME NEW f \in Editable, Edit(f) PROVE ResultsShown'
  BY <1>17 DEF Edit, Stored, TypeOK
<1>18. ASSUME NEW f \in Editable, EditorPublish(f) PROVE ResultsShown'
  <2>1. /\ UNCHANGED <<main, todo, publishing, results>> /\ Stored' = Stored
        /\ \A g \in Stored \ Editable : shown'[g] = shown[g]
    BY <1>18 DEF EditorPublish, Stored, TypeOK, All
  <2> QED
    BY <2>1
<1>19. ASSUME UNCHANGED vars PROVE ResultsShown'
  BY <1>19 DEF vars, Stored, TypeOK
<1> HIDE DEF ResultsShown, ToShow
<1> QED
  BY <1>1, <1>2, <1>3, <1>4, <1>5, <1>6, <1>7, <1>8, <1>9, <1>10, <1>11, <1>12, <1>13, <1>14, <1>15, <1>16, <1>17, <1>18, <1>19 DEF Next, Work, Main, Done

(* SettlingInv is an invariant of the specification.                       *)
THEOREM SettlingInvariance == Spec => []SettlingInv
<1>1. Init => SettlingInv
  <2>1. SUFFICES ASSUME Init PROVE SettlingInv
    OBVIOUS
  <2>2. main = "start" /\ Stored = {}
    BY <2>1 DEF Init, Stored
  <2>3. ReadFromDisk
    BY <2>1, <2>2 DEF Init, ReadFromDisk
  <2>4. KnownShown
    BY <2>1, <2>2 DEF Init, KnownShown, BetweenSteps
  <2>5. ClearingOutside /\ ResultsShown
    BY <2>2 DEF ClearingOutside, ResultsShown
  <2> QED
    BY <2>1, <2>3, <2>4, <2>5, InitEstablishes DEF SettlingInv
<1>2. SettlingInv /\ [Next]_vars /\ ScanWorkersInv' => SettlingInv'
  BY DiskPreserved, KnownPreserved, ClearingPreserved, ResultsPreserved
     DEF SettlingInv, ScanWorkersInv
<1> QED
  BY <1>1, <1>2, ScanInvariance, PTL DEF Spec

(* After the scan, of every file not opened meanwhile, the client shows    *)
(* what the scan found, and publishedDiagnostics knows it.                 *)
THEOREM ScanSettled == Spec => []ScanSettles
<1>1. SettlingInv => ScanSettles
  <2>1. SUFFICES ASSUME SettlingInv, main = "done" PROVE ScanSettles
    BY DEF ScanSettles
  <2>2. \A f \in All \ Editable : f \in published <=> shown[f] > 0
    BY <2>1 DEF SettlingInv, KnownShown, BetweenSteps
  <2>3. \A f \in Files \ Editable : results[f] # None => shown[f] = results[f].count
    BY <2>1 DEF SettlingInv, ResultsShown, ToShow, Stored
  <2>4. ASSUME NEW f \in Others \ Editable PROVE shown[f] = 0
    <3>1. shown[f] > 0 => f \in todo
      BY <2>1 DEF SettlingInv, ClearingOutside
    <3>2. f \notin todo
      BY <2>1 DEF SettlingInv, ClearingOutside
    <3>3. shown[f] \in Nat
      BY <2>1 DEF SettlingInv, ScanWorkersInv, TypeOK, All, Counts
    <3> QED
      BY <3>1, <3>2, <3>3
  <2> QED
    BY <2>1, <2>2, <2>3, <2>4 DEF ScanSettles
<1> QED
  BY <1>1, SettlingInvariance, PTL

(* What the client shows of the files the scan has no result of.           *)
Kept ==
  main # "start" =>
    \A f \in Files \ Editable : results[f] = None =>
      shown'[f] = shown[f] /\ (f \in published' <=> f \in published)

(* A step changes nothing of an unfinished file.                           *)
LEMMA UnfinishedStep ==
  ASSUME TypeOK, ClearingOutside, [Next]_vars
  PROVE  Kept
<1> USE DEF Kept
<1>1. ASSUME NEW w \in Workers, Take(w) PROVE Kept
  BY <1>1 DEF Take
<1>2. ASSUME NEW w \in Workers, Route(w) PROVE Kept
  BY <1>2 DEF Route
<1>3. ASSUME NEW w \in Workers, Analyse(w) PROVE Kept
  BY <1>3 DEF Analyse
<1>4. ASSUME NEW w \in Workers, Abandon(w) PROVE Kept
  BY <1>4 DEF Abandon
<1>5. ASSUME NEW w \in Workers, Allow(w) PROVE Kept
  BY <1>5 DEF Allow
<1>6. ASSUME NEW w \in Workers, Swap(w) PROVE Kept
  BY <1>6 DEF Swap
<1>7. ASSUME NEW w \in Workers, Store(w) PROVE Kept
  BY <1>7 DEF Store
<1>8. ASSUME Start PROVE Kept
  BY <1>8 DEF Start
<1>9. ASSUME TurnOff PROVE Kept
  BY <1>9 DEF TurnOff
<1>10. ASSUME Wait PROVE Kept
  BY <1>10 DEF Wait
<1>11. ASSUME Notify PROVE Kept
  <2>1. /\ publishing \in Files /\ results[publishing] # None /\ published' = published
        /\ shown' = [shown EXCEPT ![publishing] = results[publishing].count]
    BY <1>11 DEF Notify, TypeOK
  <2>2. shown \in [All -> Counts] /\ Files \subseteq All
    BY DEF TypeOK, All
  <2> QED
    BY <2>1, <2>2
<1>12. ASSUME Mark PROVE Kept
  BY <1>12 DEF Mark, TypeOK
<1>13. ASSUME Unlist PROVE Kept
  BY <1>13 DEF Unlist
<1>14. ASSUME Return PROVE Kept
  BY <1>14 DEF Return
<1>15. ASSUME NEW f \in All, Select(f) PROVE Kept
  BY <1>15 DEF Select
<1>16. ASSUME NEW f \in All, Clear(f) PROVE Kept
  <2>1. f \in Others /\ shown' = [shown EXCEPT ![f] = 0] /\ published' = published
    BY <1>16 DEF Clear, ClearingOutside
  <2>2. shown \in [All -> Counts] /\ Files \subseteq All
    BY DEF TypeOK, All
  <2> QED
    BY <2>1, <2>2
<1>17. ASSUME NEW f \in Editable, Edit(f) PROVE Kept
  BY <1>17 DEF Edit
<1>18. ASSUME NEW f \in Editable, EditorPublish(f) PROVE Kept
  BY <1>18 DEF EditorPublish, TypeOK, All
<1>19. ASSUME UNCHANGED vars PROVE Kept
  BY <1>19 DEF vars
<1> HIDE DEF Kept
<1> QED
  BY <1>1, <1>2, <1>3, <1>4, <1>5, <1>6, <1>7, <1>8, <1>9, <1>10, <1>11, <1>12, <1>13, <1>14, <1>15, <1>16, <1>17, <1>18, <1>19 DEF Next, Work, Main, Done

(* A scan changes nothing of what the client shows of a file it could not  *)
(* finish.                                                                 *)
THEOREM UnfinishedUntouched == Spec => UnfinishedKept
<1>1. SettlingInv /\ [Next]_vars => [Kept]_vars
  BY UnfinishedStep DEF SettlingInv, ScanWorkersInv
<1> QED
  BY <1>1, SettlingInvariance, PTL DEF Spec, UnfinishedKept, Kept

-----------------------------------------------------------------------------
(***************************************************************************)
(* The shared total, by the sums of module SetSums.                        *)
(***************************************************************************)
Totalled == total = SumFunction(StoredCount) + SumFunction(Admitted)

(* A swap adds to the total what it admits, a store moves it to the results. *)
LEMMA TotalPreserved ==
  ASSUME TypeOK, TypeOK', WorkersFollowMain, FilesOnce, Totalled, [Next]_vars
  PROVE  Totalled'
<1>s. /\ StoredCount \in [Files -> Nat] /\ Admitted \in [Workers -> Nat]
      /\ StoredCount' \in [Files -> Nat] /\ Admitted' \in [Workers -> Nat]
  BY DEF TypeOK, StoredCount, Admitted, Results, Counts
<1> USE DEF Totalled
<1>1. ASSUME NEW w \in Workers, Take(w) PROVE Totalled'
  <2>1. total' = total /\ StoredCount' = StoredCount
    BY <1>1 DEF Take, StoredCount
  <2>2. Admitted' = Admitted
    BY <1>1 DEF Take, Drop, Leave, Continue, Goto, Put, Refuse, Admitted, TypeOK
  <2> QED
    BY <2>1, <2>2
<1>2. ASSUME NEW w \in Workers, Route(w) PROVE Totalled'
  <2>1. total' = total /\ file[w] \in Files /\ file[w] \notin Stored /\ 0 \in Counts
    BY <1>2, HoldsListed DEF Route, FilesOnce, Counts
  <2>2. Admitted' = Admitted
    BY <1>2 DEF Route, Admitted, TypeOK, Drop, Leave, Continue, Goto, Put, Refuse
  <2>3. StoredCount' = StoredCount
    <3>1. CASE Put(w, 0)
      <4>1. /\ \A f \in Files \ {file[w]} : results'[f] = results[f]
            /\ results'[file[w]] = [count |-> 0, revision |-> revision[w]]
            /\ results'[file[w]] # None
        BY <2>1, <3>1, PutStores
      <4> QED
        BY <2>1, <4>1 DEF StoredCount, Stored
    <3>2. CASE results' = results
      BY <3>2 DEF StoredCount
    <3> QED
      BY <3>1, <3>2, <1>2 DEF Route
  <2> QED
    BY <2>1, <2>2, <2>3
<1>3. ASSUME NEW w \in Workers, Analyse(w) PROVE Totalled'
  <2>1. total' = total /\ StoredCount' = StoredCount
    BY <1>3 DEF Analyse, StoredCount
  <2>2. Admitted' = Admitted
    BY <1>3 DEF Analyse, Drop, Leave, Continue, Goto, Put, Refuse, Admitted, TypeOK
  <2> QED
    BY <2>1, <2>2
<1>4. ASSUME NEW w \in Workers, Abandon(w) PROVE Totalled'
  <2>1. total' = total /\ StoredCount' = StoredCount
    BY <1>4 DEF Abandon, StoredCount
  <2>2. Admitted' = Admitted
    BY <1>4 DEF Abandon, Drop, Leave, Continue, Goto, Put, Refuse, Admitted, TypeOK
  <2> QED
    BY <2>1, <2>2
<1>5. ASSUME NEW w \in Workers, Allow(w) PROVE Totalled'
  <2>1. total' = total /\ StoredCount' = StoredCount
    BY <1>5 DEF Allow, StoredCount
  <2>2. ASSUME NEW v \in Workers PROVE Admitted'[v] = Admitted[v]
    <3>1. v # w => pc'[v] = pc[v] /\ count'[v] = count[v]
      BY <1>5 DEF Allow, TypeOK, Drop, Leave, Continue, Goto, Put, Refuse
    <3>2. pc[w] # "store" /\ (pc'[w] = "store" => count'[w] = 0)
      BY <1>5 DEF Allow, TypeOK, Drop, Leave, Continue, Goto, Put, Refuse
    <3> QED
      BY <3>1, <3>2 DEF Admitted
  <2>3. Admitted' = Admitted
    BY <2>2 DEF Admitted
  <2> QED
    BY <2>1, <2>3
<1>6. ASSUME NEW w \in Workers, Swap(w) PROVE Totalled'
  <2>1. StoredCount' = StoredCount /\ count' = count
    BY <1>6 DEF Swap, StoredCount, heldVars
  <2>2. CASE total' = total + count[w] /\ Goto(w, "store")
    <3>1. /\ Admitted[w] = 0 /\ Admitted'[w] = count[w]
          /\ \A v \in Workers \ {w} : Admitted'[v] = Admitted[v]
      BY <2>1, <2>2, <1>6 DEF Swap, Admitted, Goto, TypeOK
    <3>2. SumFunction(Admitted') + Admitted[w] = SumFunction(Admitted) + Admitted'[w]
      BY <1>s, <3>1, PoolAssumption, SumUpdate
    <3>3. SumFunction(Admitted) \in Nat /\ SumFunction(Admitted') \in Nat /\ SumFunction(StoredCount) \in Nat
      BY <1>s, PoolAssumption, SumType
    <3>4. count[w] \in Nat
      BY DEF TypeOK, Counts
    <3> QED
      BY <2>1, <2>2, <3>1, <3>2, <3>3, <3>4
  <2>3. CASE total' = total /\ Goto(w, "allow")
    <3>1. Admitted' = Admitted
      BY <2>1, <2>3, <1>6 DEF Swap, Admitted, Goto, TypeOK
    <3> QED
      BY <2>1, <2>3, <3>1
  <2> QED
    BY <2>2, <2>3, <1>6 DEF Swap
<1>7. ASSUME NEW w \in Workers, Store(w) PROVE Totalled'
  <2>1. /\ total' = total /\ file[w] \in Files /\ file[w] \notin Stored
        /\ count[w] \in Counts /\ count[w] \in Nat
    BY <1>7, HoldsListed DEF Store, FilesOnce, TypeOK, Counts
  <2>2. /\ \A f \in Files \ {file[w]} : results'[f] = results[f]
        /\ results'[file[w]] = [count |-> count[w], revision |-> revision[w]]
        /\ results'[file[w]] # None
    BY <2>1, <1>7, PutStores DEF Store
  <2>3. /\ StoredCount[file[w]] = 0 /\ StoredCount'[file[w]] = count[w]
        /\ \A f \in Files \ {file[w]} : StoredCount'[f] = StoredCount[f]
    BY <2>1, <2>2 DEF StoredCount, Stored
  <2>4. /\ Admitted[w] = count[w] /\ Admitted'[w] = 0
        /\ \A v \in Workers \ {w} : Admitted'[v] = Admitted[v]
    BY <1>7 DEF Store, Admitted, TypeOK, Drop, Leave, Continue, Goto, Put, Refuse
  <2>5. SumFunction(StoredCount') + StoredCount[file[w]] = SumFunction(StoredCount) + StoredCount'[file[w]]
    BY <1>s, <2>1, <2>3, SumUpdate
  <2>6. SumFunction(Admitted') + Admitted[w] = SumFunction(Admitted) + Admitted'[w]
    BY <1>s, <2>4, PoolAssumption, SumUpdate
  <2>7. /\ SumFunction(StoredCount) \in Nat /\ SumFunction(StoredCount') \in Nat
        /\ SumFunction(Admitted) \in Nat /\ SumFunction(Admitted') \in Nat
    BY <1>s, PoolAssumption, SumType
  <2> QED
    BY <2>1, <2>3, <2>4, <2>5, <2>6, <2>7
<1>8. ASSUME Start PROVE Totalled'
  <2>1. Admitted' = Admitted
    BY <1>8 DEF Start, Admitted, WorkersFollowMain
  <2> QED
    BY <2>1, <1>8 DEF Start, StoredCount
<1>9. ASSUME TurnOff PROVE Totalled'
  BY <1>9 DEF TurnOff, StoredCount, Admitted
<1>10. ASSUME Wait PROVE Totalled'
  BY <1>10 DEF Wait, StoredCount, Admitted
<1>11. ASSUME Notify PROVE Totalled'
  BY <1>11 DEF Notify, StoredCount, Admitted
<1>12. ASSUME Mark PROVE Totalled'
  BY <1>12 DEF Mark, StoredCount, Admitted
<1>13. ASSUME Unlist PROVE Totalled'
  BY <1>13 DEF Unlist, StoredCount, Admitted
<1>14. ASSUME Return PROVE Totalled'
  BY <1>14 DEF Return, StoredCount, Admitted
<1>15. ASSUME NEW f \in All, Select(f) PROVE Totalled'
  BY <1>15 DEF Select, StoredCount, Admitted
<1>16. ASSUME NEW f \in All, Clear(f) PROVE Totalled'
  BY <1>16 DEF Clear, StoredCount, Admitted
<1>17. ASSUME NEW f \in Editable, Edit(f) PROVE Totalled'
  BY <1>17 DEF Edit, StoredCount, Admitted
<1>18. ASSUME NEW f \in Editable, EditorPublish(f) PROVE Totalled'
  BY <1>18 DEF EditorPublish, StoredCount, Admitted
<1>19. ASSUME UNCHANGED vars PROVE Totalled'
  BY <1>19 DEF vars, StoredCount, Admitted
<1> HIDE DEF Totalled
<1> QED
  BY <1>1, <1>2, <1>3, <1>4, <1>5, <1>6, <1>7, <1>8, <1>9, <1>10, <1>11, <1>12, <1>13, <1>14, <1>15, <1>16, <1>17, <1>18, <1>19 DEF Next, Work, Main, Done

(* The shared total is what the workers have stored or are about to store, *)
(* within the cap, however they race in allow.                             *)
THEOREM TotalExact == Spec => []TotalAccounted
<1>1. Init => Totalled
  <2>1. SUFFICES ASSUME Init PROVE Totalled
    OBVIOUS
  <2>2. /\ StoredCount \in [Files -> Nat] /\ \A f \in Files : StoredCount[f] = 0
        /\ Admitted \in [Workers -> Nat] /\ \A w \in Workers : Admitted[w] = 0
    BY <2>1 DEF Init, StoredCount, Admitted
  <2>3. SumFunction(StoredCount) = 0 /\ SumFunction(Admitted) = 0
    BY <2>2, PoolAssumption, SumOfZeros
  <2> QED
    BY <2>1, <2>3 DEF Init, Totalled
<1>2. ProgressInv /\ ProgressInv' /\ Totalled /\ [Next]_vars => Totalled'
  BY TotalPreserved DEF ProgressInv, ScanWorkersInv
<1>3. Totalled /\ WithinLimit => TotalAccounted
  BY DEF Totalled, TotalAccounted
<1> QED
  BY <1>1, <1>2, <1>3, ProgressInvariance, CapRespected, PTL DEF Spec
=============================================================================
