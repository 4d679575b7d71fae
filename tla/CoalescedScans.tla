--------------------------- MODULE CoalescedScans ---------------------------
(***************************************************************************)
(* What requestWorkspaceDiagnostics (server/phpstrom/handler.go) promises  *)
(* its callers, without goroutines, flags or mutexes: requests collapse    *)
(* into one pending request, a pending request that asks for re-indexing   *)
(* keeps asking for it, one scan serves requests at a time, and every      *)
(* request is followed by a scan that begins after it.                     *)
(***************************************************************************)
CONSTANTS NoScan, PlainScan, IndexScan

VARIABLES
  pending,      \* what has been asked since the last scan began
  serving       \* the scan that serves requests now

vars == <<pending, serving>>

Level == {NoScan, PlainScan, IndexScan}

Stronger(a, b) ==
  IF IndexScan \in {a, b} THEN IndexScan
  ELSE IF PlainScan \in {a, b} THEN PlainScan ELSE NoScan

TypeOK == pending \in Level /\ serving \in Level

Init == pending = NoScan /\ serving = NoScan

Ask(level) ==
  /\ pending' = Stronger(pending, level)
  /\ UNCHANGED serving

Begin ==
  /\ pending # NoScan
  /\ serving = NoScan
  /\ serving' = pending
  /\ pending' = NoScan

End ==
  /\ serving # NoScan
  /\ serving' = NoScan
  /\ UNCHANGED pending

Next ==
  \/ \E level \in {PlainScan, IndexScan} : Ask(level)
  \/ Begin
  \/ End

SafeSpec == Init /\ [][Next]_vars

Spec == SafeSpec /\ WF_vars(Begin) /\ WF_vars(End)
=============================================================================
