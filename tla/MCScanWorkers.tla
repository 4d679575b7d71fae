---------------------------- MODULE MCScanWorkers -----------------------------
(* Four workspace files, one of them ignored by every rule and one that    *)
(* the editor may open, a file outside the workspace, and two workers.     *)
EXTENDS ScanWorkers

CONSTANTS f1, f2, f3, f4, out

MCFiles == {f1, f2, f3, f4}
MCOthers == {out}
MCIgnored == {f4}
MCEditable == {f1}
=============================================================================
