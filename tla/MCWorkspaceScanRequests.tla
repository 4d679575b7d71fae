----------------------- MODULE MCWorkspaceScanRequests -----------------------
(* Model checking of WorkspaceScanRequests: goroutines of one kind are       *)
(* interchangeable in the safety run.                                        *)
EXTENDS WorkspaceScanRequests, TLC

Interchangeable == Permutations(Runners) \cup Permutations(Tasks)
=============================================================================
