---------------------------- MODULE AtomicSymbols -----------------------------
(***************************************************************************)
(* What PutFile and RemoveFile (server/indexer/index.go) promise, without  *)
(* shards, locks or loops: "PutFile replaces all symbols for a given URI   *)
(* atomically".  One step takes what a file declared out of both maps and  *)
(* puts in what it declares now; of several files that declare a name, the *)
(* last one to be put has it, and whoever gives it up takes it out.        *)
(*                                                                         *)
(* The promise holds for the names no two overlapping calls touch: a name  *)
(* they clash on is lost, and nothing is said of it any more.              *)
(***************************************************************************)
CONSTANTS Uris, Fqns, Members, None

VARIABLES
  found, member,  \* the symbol under each full name, and under each owner
  declared,       \* the names each file declares
  lost            \* the names on which calls clashed

vars == <<found, member, declared, lost>>

Init ==
  /\ found = [x \in Fqns |-> None] /\ member = [x \in Members |-> None]
  /\ declared = [u \in Uris |-> {}]
  /\ lost = {}

Replaced(map, u, S) ==
  [x \in DOMAIN map |-> IF x \in S THEN [uri |-> u, fqn |-> x]
                        ELSE IF x \in declared[u] THEN None ELSE map[x]]

Replace(u, S) ==
  /\ S \cap lost = {}
  /\ found' = Replaced(found, u, S)
  /\ member' = Replaced(member, u, S)
  /\ declared' = [declared EXCEPT ![u] = S]
  /\ UNCHANGED lost

Without(map, X) == [x \in DOMAIN map |-> IF x \in X THEN None ELSE map[x]]

Clash(X) ==
  /\ lost' = lost \cup X
  /\ found' = Without(found, X)
  /\ member' = Without(member, X)
  /\ declared' = [u \in Uris |-> declared[u] \ X]

Next ==
  \/ \E u \in Uris, S \in SUBSET Fqns : Replace(u, S)
  \/ \E X \in SUBSET Fqns : Clash(X)

Spec == Init /\ [][Next]_vars
=============================================================================
