-------------------------- MODULE SymbolIndex_proofs --------------------------
(***************************************************************************)
(* Proofs about SymbolIndex, for any files, names, declarations and        *)
(* writers, however they overlap.  StoreInv gives types and arguments;     *)
(* IndexInv adds what holds of the names on which calls never clashed.     *)
(***************************************************************************)
EXTENDS SymbolIndex, TLAPS

(* A call's argument is declarable, and RemoveFile has none.               *)
LEMMA CallFits ==
  ASSUME NEW w, NEW u \in Uris, PutFile(w, u) \/ RemoveFile(w, u)
  PROVE  \E S \in SUBSET Declarable(u), b \in BOOLEAN : Call(w, u, S, b) /\ (~b => S = {})
BY DeclarationAssumption DEF PutFile, RemoveFile, Declarable

(* What a file may declare are names.                                      *)
LEMMA DeclarableNames == ASSUME NEW u \in Uris PROVE Declarable(u) \subseteq Fqns
BY DeclarationAssumption DEF Declarable

(* Symbols are told apart by file and name, and None is not one.           *)
LEMMA SymbolFacts ==
  /\ \A u \in Uris, x \in Fqns :
       Symbol(u, x) \in Symbols /\ Symbol(u, x) # None /\ Symbol(u, x).uri = u
  /\ \A u, v \in Uris, x, y \in Fqns : Symbol(u, x) = Symbol(v, y) => u = v /\ x = y
  /\ \A s \in Symbols : s.uri \in Uris /\ s.fqn \in Fqns /\ s = Symbol(s.uri, s.fqn)
BY SymbolAssumption DEF Symbol, Symbols

-----------------------------------------------------------------------------
(***************************************************************************)
(* Types and arguments, however the writers overlap.                       *)
(***************************************************************************)
(* StoreInv holds initially.                                               *)
LEMMA StoreInit == Init => StoreInv
<1> SUFFICES ASSUME Init PROVE StoreInv
  OBVIOUS
<1>1. TypeOK
  BY SymbolAssumption DEF Init, TypeOK, Loops
<1>2. ArgumentsFit
  BY SymbolAssumption DEF Init, ArgumentsFit, ArgumentsOf
<1> QED
  BY <1>1, <1>2 DEF StoreInv

(* The parts of TypeOK about the writers.                                  *)
ArgumentTypes ==
  /\ pc \in [Writers -> {"idle", "unlist", "list"} \cup Loops]
  /\ uri \in [Writers -> Uris \cup {None}]
  /\ \A w \in Writers : uri[w] = None <=> pc[w] = "idle"
  /\ new \in [Writers -> SUBSET Fqns] /\ putting \in [Writers -> BOOLEAN]
  /\ old \in [Writers -> SUBSET Fqns] /\ names \in [Writers -> SUBSET Names]
  /\ todo \in [Writers -> SUBSET (Fqns \cup Names)]
  /\ \A w \in Writers : todo[w] \subseteq IF pc[w] = "unname" THEN Names ELSE Fqns
  /\ \A w \in Writers : pc[w] \in {"unown", "own"} => todo[w] \subseteq Members

(* A writer that enters a loop over keys of the right kind.                *)
LEMMA LoopTypes ==
  ASSUME TypeOK, NEW w \in Writers, NEW label \in Loops \cup {"list"}, NEW keys,
         pc[w] # "idle", keys \subseteq IF label = "unname" THEN Names ELSE Fqns,
         label \in {"unown", "own"} => keys \subseteq Members,
         Loop(w, label, keys), UNCHANGED <<argVars, names>>,
         old' \in [Writers -> SUBSET Fqns]
  PROVE  ArgumentTypes'
<1>1. pc' \in [Writers -> {"idle", "unlist", "list"} \cup Loops]
  BY DEF TypeOK, Loop, Loops
<1>2. todo' \in [Writers -> SUBSET (Fqns \cup Names)]
  BY DEF TypeOK, Loop
<1>3. \A v \in Writers : IF v = w THEN pc'[v] = label /\ todo'[v] = keys
                                 ELSE pc'[v] = pc[v] /\ todo'[v] = todo[v]
  BY DEF TypeOK, Loop
<1>4. label # "idle"
  BY DEF Loops
<1> QED
  BY <1>1, <1>2, <1>3, <1>4 DEF TypeOK, ArgumentTypes, argVars

(* A writer that ends.                                                     *)
LEMMA FinishTypes ==
  ASSUME TypeOK, NEW w \in Writers, Finish(w)
  PROVE  ArgumentTypes'
BY DEF TypeOK, Finish, Loops, ArgumentTypes

(* What follows the removal, and what follows each loop.                   *)
LEMMA PassCases ==
  ASSUME NEW w, Pass(w)
  PROVE  /\ todo[w] = {} /\ UNCHANGED storeVars
         /\ \/ pc[w] = "unown" /\ ~putting[w] /\ Finish(w)
            \/ /\ UNCHANGED <<argVars, old, names>>
               /\ \/ pc[w] = "unfqn" /\ Loop(w, "unname", names[w])
                  \/ pc[w] = "unname" /\ Loop(w, "unown", old[w] \cap Members)
                  \/ pc[w] = "unown" /\ putting[w] /\ Loop(w, "fqn", new[w])
                  \/ pc[w] = "fqn" /\ Loop(w, "name", new[w])
                  \/ pc[w] = "name" /\ Loop(w, "own", new[w] \cap Members)
                  \/ pc[w] = "own" /\ Loop(w, "list", {})
BY DEF Pass, Removed

(* Taking the file's list: nothing to remove, or the first loop.           *)
LEMMA UnlistCases ==
  ASSUME NEW w, Unlist(w)
  PROVE  /\ pc[w] = "unlist" /\ listed' = [listed EXCEPT ![uri[w]] = {}]
         /\ UNCHANGED <<byFQN, byName, byOwner>>
         /\ \/ listed[uri[w]] = {} /\ ~putting[w] /\ Finish(w)
            \/ /\ listed[uri[w]] = {} /\ putting[w] /\ Loop(w, "fqn", new[w])
               /\ UNCHANGED <<argVars, old, names>>
            \/ /\ listed[uri[w]] # {} /\ Loop(w, "unfqn", listed[uri[w]])
               /\ old' = [old EXCEPT ![w] = listed[uri[w]]]
               /\ UNCHANGED <<argVars, names>>
BY DEF Unlist, Removed

(* Every action keeps the types.                                           *)
LEMMA TypePreserved ==
  ASSUME StoreInv, [Next]_vars
  PROVE  TypeOK'
<1> USE NameAssumption, MemberAssumption, SymbolAssumption
<1> USE DEF StoreInv, TypeOK, ArgumentsFit, Loops, argVars, storeVars
<1>1. ASSUME NEW w \in Writers, NEW u \in Uris, NEW S \in SUBSET Declarable(u),
             NEW b \in BOOLEAN, Call(w, u, S, b)
      PROVE  TypeOK'
  BY <1>1, DeclarableNames DEF Call, Clashes
<1>2. ASSUME NEW w \in Writers, Unlist(w), UNCHANGED clashed
      PROVE  TypeOK'
  <2>1. listed[uri[w]] \subseteq Fqns /\ pc[w] # "idle"
    BY <1>2 DEF Unlist
  <2>2. ArgumentTypes'
    <3>1. CASE Finish(w)
      BY <3>1, FinishTypes
    <3>2. CASE Loop(w, "fqn", new[w]) /\ UNCHANGED <<argVars, old, names>>
      <4>1. old' \in [Writers -> SUBSET Fqns] /\ UNCHANGED <<argVars, names>>
        BY <3>2
      <4> QED
        BY <2>1, <3>2, <4>1, LoopTypes
    <3>3. CASE /\ Loop(w, "unfqn", listed[uri[w]]) /\ UNCHANGED <<argVars, names>>
               /\ old' = [old EXCEPT ![w] = listed[uri[w]]]
      <4>1. old' \in [Writers -> SUBSET Fqns]
        BY <2>1, <3>3
      <4> QED
        BY <2>1, <3>3, <4>1, LoopTypes
    <3> QED
      BY <1>2, <3>1, <3>2, <3>3, UnlistCases
  <2>3. /\ listed' \in [Uris -> SUBSET Fqns]
        /\ UNCHANGED <<byFQN, byName, byOwner>>
    BY <1>2 DEF Unlist
  <2> QED
    BY <1>2, <2>2, <2>3 DEF ArgumentTypes
<1>3. ASSUME NEW w \in Writers, List(w), UNCHANGED clashed
      PROVE  TypeOK'
  BY <1>3 DEF List, Finish
<1>4. ASSUME NEW w \in Writers, Pass(w), UNCHANGED clashed
      PROVE  TypeOK'
  <2>1. ArgumentTypes'
    <3>1. CASE Finish(w)
      BY <3>1, FinishTypes
    <3>2. ASSUME NEW label \in Loops \cup {"list"}, NEW keys, Loop(w, label, keys),
                 keys \subseteq IF label = "unname" THEN Names ELSE Fqns,
                 label \in {"unown", "own"} => keys \subseteq Members,
                 pc[w] # "idle", UNCHANGED <<argVars, old, names>>
          PROVE  ArgumentTypes'
      <4>1. old' \in [Writers -> SUBSET Fqns] /\ UNCHANGED <<argVars, names>>
        BY <3>2
      <4> QED
        BY <3>2, <4>1, LoopTypes
    <3>3. CASE UNCHANGED <<argVars, old, names>> /\ ~Finish(w)
      <4>1. pc[w] = "unfqn" /\ Loop(w, "unname", names[w]) => ArgumentTypes'
        BY <3>2, <3>3
      <4>2. pc[w] = "unname" /\ Loop(w, "unown", old[w] \cap Members) => ArgumentTypes'
        BY <3>2, <3>3
      <4>3. pc[w] = "unown" /\ Loop(w, "fqn", new[w]) => ArgumentTypes'
        BY <3>2, <3>3
      <4>4. pc[w] = "fqn" /\ Loop(w, "name", new[w]) => ArgumentTypes'
        BY <3>2, <3>3
      <4>5. pc[w] = "name" /\ Loop(w, "own", new[w] \cap Members) => ArgumentTypes'
        BY <3>2, <3>3
      <4>6. pc[w] = "own" /\ Loop(w, "list", {}) => ArgumentTypes'
        BY <3>2, <3>3
      <4> QED
        BY <1>4, <3>3, <4>1, <4>2, <4>3, <4>4, <4>5, <4>6, PassCases
    <3> QED
      BY <1>4, <3>1, <3>3, PassCases
  <2>2. UNCHANGED <<byFQN, byName, byOwner, listed>>
    BY <1>4, PassCases
  <2> QED
    BY <1>4, <2>1, <2>2 DEF ArgumentTypes
<1>5. ASSUME NEW w \in Writers, NEW n \in Names, DropName(w, n), UNCHANGED clashed
      PROVE  TypeOK'
  BY <1>5 DEF DropName, Take
<1>6. ASSUME NEW w \in Writers, NEW x \in Fqns, DeleteFqn(w, x), UNCHANGED clashed
      PROVE  TypeOK'
  BY <1>6 DEF DeleteFqn, Take
<1>7. ASSUME NEW w \in Writers, NEW x \in Fqns, InsertFqn(w, x), UNCHANGED clashed
      PROVE  TypeOK'
  BY <1>7 DEF InsertFqn, Take, Symbol, Symbols
<1>8. ASSUME NEW w \in Writers, NEW x \in Fqns, InsertName(w, x), UNCHANGED clashed
      PROVE  TypeOK'
  BY <1>8 DEF InsertName, Take, Symbol, Symbols
<1>9. ASSUME NEW w \in Writers, NEW x \in Members, DeleteMember(w, x), UNCHANGED clashed
      PROVE  TypeOK'
  BY <1>9 DEF DeleteMember, Take
<1>10. ASSUME NEW w \in Writers, NEW x \in Members, InsertMember(w, x), UNCHANGED clashed
      PROVE  TypeOK'
  BY <1>10 DEF InsertMember, Take, Symbol, Symbols
<1>11. CASE UNCHANGED vars
  BY <1>11 DEF vars
<1> HIDE DEF StoreInv, TypeOK, ArgumentsFit, Loops, argVars, storeVars
<1>12. ASSUME NEW w \in Writers, NEW u \in Uris, PutFile(w, u) \/ RemoveFile(w, u)
       PROVE  TypeOK'
  <2>1. PICK S \in SUBSET Declarable(u), b \in BOOLEAN : Call(w, u, S, b)
    BY <1>12, CallFits
  <2> QED
    BY <1>1, <2>1
<1> QED
  BY <1>2, <1>3, <1>4, <1>5, <1>6, <1>7, <1>8, <1>9, <1>10, <1>11, <1>12 DEF Next, Step

-----------------------------------------------------------------------------
(***************************************************************************)
(* What the parts of an action do to its writer, and to the others.        *)
(***************************************************************************)
OthersIdle(w) ==
  \A v \in Writers \ {w} :
    /\ pc'[v] = pc[v] /\ uri'[v] = uri[v] /\ new'[v] = new[v]
    /\ putting'[v] = putting[v] /\ old'[v] = old[v]
    /\ names'[v] = names[v] /\ todo'[v] = todo[v]

(* A call starts an idle writer.                                           *)
LEMMA CallEffect ==
  ASSUME TypeOK, NEW w \in Writers, NEW u, NEW S, NEW b, Call(w, u, S, b)
  PROVE  /\ pc[w] = "idle" /\ pc'[w] = "unlist" /\ uri'[w] = u /\ new'[w] = S
         /\ putting'[w] = b /\ old'[w] = old[w] /\ OthersIdle(w)
BY DEF TypeOK, Call, OthersIdle

(* A writer that ends forgets everything.                                  *)
LEMMA FinishEffect ==
  ASSUME TypeOK, NEW w \in Writers, Finish(w)
  PROVE  /\ pc'[w] = "idle" /\ new'[w] = {} /\ old'[w] = {} /\ ~putting'[w]
         /\ OthersIdle(w)
BY DEF TypeOK, Finish, OthersIdle

(* Entering a loop sets what is to do.                                     *)
LEMMA LoopEffect ==
  ASSUME TypeOK, NEW w \in Writers, NEW label, NEW keys, Loop(w, label, keys),
         UNCHANGED <<argVars, names>>,
         \A v \in Writers \ {w} : old'[v] = old[v]
  PROVE  /\ pc'[w] = label /\ todo'[w] = keys /\ OthersIdle(w)
         /\ uri'[w] = uri[w] /\ new'[w] = new[w] /\ putting'[w] = putting[w]
         /\ names'[w] = names[w]
BY DEF TypeOK, Loop, OthersIdle, argVars

(* One turn of a loop strikes its key off.                                 *)
LEMMA TakeEffect ==
  ASSUME TypeOK, NEW w \in Writers, NEW k, NEW label, Take(w, k, label),
         \A v \in Writers \ {w} : names'[v] = names[v]
  PROVE  /\ pc[w] = label /\ pc'[w] = label /\ k \in todo[w] /\ todo'[w] = todo[w] \ {k}
         /\ uri'[w] = uri[w] /\ new'[w] = new[w] /\ putting'[w] = putting[w]
         /\ old'[w] = old[w] /\ OthersIdle(w)
BY DEF TypeOK, Take, OthersIdle, argVars

(* What the actions of the loops do besides, whichever loop it is.         *)
LEMMA TurnEffect ==
  ASSUME TypeOK, NEW w \in Writers,
         \/ \E n \in Names : DropName(w, n)
         \/ \E x \in Fqns : DeleteFqn(w, x) \/ InsertFqn(w, x) \/ InsertName(w, x)
         \/ \E x \in Members : DeleteMember(w, x) \/ InsertMember(w, x)
  PROVE  /\ OthersIdle(w) /\ pc'[w] = pc[w] /\ uri'[w] = uri[w] /\ new'[w] = new[w]
         /\ putting'[w] = putting[w] /\ old'[w] = old[w] /\ todo'[w] \subseteq todo[w]
         /\ UNCHANGED listed
<1>1. PICK k, label : Take(w, k, label)
  BY DEF DropName, DeleteFqn, InsertFqn, InsertName, DeleteMember, InsertMember
<1>2. \A v \in Writers \ {w} : names'[v] = names[v]
  BY DEF TypeOK, DropName, DeleteFqn, InsertFqn, InsertName, DeleteMember, InsertMember
<1>3. UNCHANGED listed
  BY DEF DropName, DeleteFqn, InsertFqn, InsertName, DeleteMember, InsertMember
<1> QED
  BY <1>1, <1>2, <1>3, TakeEffect

(* Every action keeps the writers' arguments and loops together.           *)
LEMMA ArgumentsPreserved ==
  ASSUME StoreInv, [Next]_vars
  PROVE  ArgumentsFit'
<1>0. TypeOK /\ ArgumentsFit
  BY DEF StoreInv
<1>1. ASSUME NEW w \in Writers, OthersIdle(w), ArgumentsOf(w)',
             \A u \in Uris : listed'[u] \subseteq Declarable(u)
      PROVE  ArgumentsFit'
  <2>1. ASSUME NEW v \in Writers \ {w} PROVE ArgumentsOf(v)'
    BY <1>0, <1>1, <2>1 DEF ArgumentsFit, ArgumentsOf, OthersIdle
  <2> QED
    BY <1>1, <2>1 DEF ArgumentsFit
<1>2. ASSUME NEW w \in Writers, Finish(w), \A u \in Uris : listed'[u] \subseteq Declarable(u)
      PROVE  ArgumentsFit'
  <2>1. ArgumentsOf(w)' /\ OthersIdle(w)
    BY <1>0, <1>2, FinishEffect DEF ArgumentsOf
  <2> QED
    BY <1>1, <1>2, <2>1
<1>3. ASSUME NEW w \in Writers, NEW label \in Loops \cup {"list"}, NEW keys,
             pc[w] # "idle", Loop(w, label, keys), UNCHANGED <<argVars, names>>,
             \A v \in Writers \ {w} : old'[v] = old[v], old'[w] \subseteq Declarable(uri[w]),
             label \in {"unfqn", "unown"} => keys \subseteq old'[w],
             label \in {"fqn", "name", "own"} => keys \subseteq new[w],
             label \in {"fqn", "name", "own", "list"} => putting[w],
             \A u \in Uris : listed'[u] \subseteq Declarable(u)
      PROVE  ArgumentsFit'
  <2>1. /\ pc'[w] = label /\ todo'[w] = keys /\ OthersIdle(w)
        /\ uri'[w] = uri[w] /\ new'[w] = new[w] /\ putting'[w] = putting[w]
    BY <1>0, <1>3, LoopEffect
  <2>2. ArgumentsOf(w)
    BY <1>0 DEF ArgumentsFit
  <2>3. ArgumentsOf(w)'
    BY <1>3, <2>1, <2>2 DEF ArgumentsOf, Loops
  <2> QED
    BY <1>1, <1>3, <2>1, <2>3
<1>4. ASSUME NEW w \in Writers, NEW u \in Uris, PutFile(w, u) \/ RemoveFile(w, u)
      PROVE  ArgumentsFit'
  <2>1. PICK S \in SUBSET Declarable(u), b \in BOOLEAN :
          Call(w, u, S, b) /\ (~b => S = {})
    BY <1>4, CallFits
  <2>2. ArgumentsOf(w)' /\ OthersIdle(w) /\ UNCHANGED listed
    <3>1. old[w] = {} /\ UNCHANGED listed
      BY <1>0, <2>1 DEF ArgumentsFit, ArgumentsOf, Call, storeVars
    <3> QED
      BY <1>0, <2>1, <3>1, CallEffect DEF ArgumentsOf
  <2> QED
    BY <1>0, <1>1, <2>2 DEF ArgumentsFit
<1>5. ASSUME NEW w \in Writers, Unlist(w) PROVE ArgumentsFit'
  <2>1. /\ pc[w] # "idle" /\ uri[w] \in Uris
        /\ \A u \in Uris : listed'[u] \subseteq Declarable(u)
    BY <1>0, <1>5 DEF Unlist, ArgumentsFit, TypeOK
  <2>2. CASE Finish(w)
    BY <1>2, <2>1, <2>2
  <2>3. CASE Loop(w, "fqn", new[w]) /\ putting[w] /\ UNCHANGED <<argVars, old, names>>
    <3>1. UNCHANGED old /\ UNCHANGED <<argVars, names>> /\ old[w] \subseteq Declarable(uri[w])
      BY <1>0, <2>1, <2>3 DEF ArgumentsFit, ArgumentsOf
    <3> QED
      BY <1>3, <2>1, <2>3, <3>1 DEF Loops
  <2>4. CASE /\ Loop(w, "unfqn", listed[uri[w]]) /\ UNCHANGED <<argVars, names>>
             /\ old' = [old EXCEPT ![w] = listed[uri[w]]]
    <3>1. /\ old'[w] = listed[uri[w]] /\ old'[w] \subseteq Declarable(uri[w])
          /\ \A v \in Writers \ {w} : old'[v] = old[v]
      BY <1>0, <2>1, <2>4 DEF ArgumentsFit, TypeOK
    <3> QED
      BY <1>3, <2>1, <2>4, <3>1 DEF Loops
  <2> QED
    BY <1>5, <2>2, <2>3, <2>4, UnlistCases
<1>6. ASSUME NEW w \in Writers, List(w) PROVE ArgumentsFit'
  <2>1. /\ uri[w] \in Uris /\ Finish(w)
        /\ \A u \in Uris : listed'[u] \subseteq Declarable(u)
    BY <1>0, <1>6 DEF List, ArgumentsFit, ArgumentsOf, TypeOK
  <2> QED
    BY <1>2, <2>1
<1>7. ASSUME NEW w \in Writers, Pass(w) PROVE ArgumentsFit'
  <2>1. \A u \in Uris : listed'[u] \subseteq Declarable(u)
    BY <1>0, <1>7, PassCases DEF ArgumentsFit, storeVars
  <2>2. CASE Finish(w)
    BY <1>2, <2>1, <2>2
  <2>3. CASE ~Finish(w)
    <3>1. UNCHANGED old /\ UNCHANGED <<argVars, names>>
      BY <1>7, <2>3, PassCases
    <3>2. ArgumentsOf(w)
      BY <1>0 DEF ArgumentsFit
    <3>3. ASSUME NEW label \in Loops \cup {"list"}, NEW keys, Loop(w, label, keys),
                 pc[w] # "idle", label # "unfqn",
                 label = "unown" => keys \subseteq old[w],
                 label \in {"fqn", "name", "own"} => keys \subseteq new[w],
                 label \in {"fqn", "name", "own", "list"} => putting[w]
          PROVE  ArgumentsFit'
      <4>1. old'[w] \subseteq Declarable(uri[w])
        BY <3>1, <3>2, <3>3 DEF ArgumentsOf
      <4> QED
        BY <1>3, <2>1, <3>1, <3>3, <4>1
    <3>4. pc[w] = "unfqn" /\ Loop(w, "unname", names[w]) => ArgumentsFit'
      BY <3>3 DEF Loops
    <3>5. pc[w] = "unname" /\ Loop(w, "unown", old[w] \cap Members) => ArgumentsFit'
      BY <3>3 DEF Loops
    <3>6. pc[w] = "unown" /\ putting[w] /\ Loop(w, "fqn", new[w]) => ArgumentsFit'
      BY <3>3 DEF Loops
    <3>7. pc[w] = "fqn" /\ Loop(w, "name", new[w]) => ArgumentsFit'
      BY <3>2, <3>3 DEF Loops, ArgumentsOf
    <3>8. pc[w] = "name" /\ Loop(w, "own", new[w] \cap Members) => ArgumentsFit'
      BY <3>2, <3>3 DEF Loops, ArgumentsOf
    <3>9. pc[w] = "own" /\ Loop(w, "list", {}) => ArgumentsFit'
      BY <3>2, <3>3 DEF Loops, ArgumentsOf
    <3> QED
      BY <1>7, <2>3, <3>4, <3>5, <3>6, <3>7, <3>8, <3>9, PassCases
  <2> QED
    BY <2>2, <2>3
<1>8. ASSUME NEW w \in Writers,
             \/ \E n \in Names : DropName(w, n)
             \/ \E x \in Fqns : DeleteFqn(w, x) \/ InsertFqn(w, x) \/ InsertName(w, x)
             \/ \E x \in Members : DeleteMember(w, x) \/ InsertMember(w, x)
      PROVE  ArgumentsFit'
  <2>1. /\ OthersIdle(w) /\ pc'[w] = pc[w] /\ uri'[w] = uri[w] /\ new'[w] = new[w]
        /\ putting'[w] = putting[w] /\ old'[w] = old[w] /\ todo'[w] \subseteq todo[w]
        /\ UNCHANGED listed
    BY <1>0, <1>8, TurnEffect
  <2>2. ArgumentsOf(w)'
    BY <1>0, <2>1 DEF ArgumentsFit, ArgumentsOf
  <2> QED
    BY <1>0, <1>1, <2>1, <2>2 DEF ArgumentsFit
<1>9. CASE UNCHANGED vars
  BY <1>0, <1>9 DEF vars, storeVars, argVars, ArgumentsFit, ArgumentsOf
<1> QED
  BY <1>4, <1>5, <1>6, <1>7, <1>8, <1>9 DEF Next, Step

(* Types and arguments, for every value of the constants and however the   *)
(* writers overlap.                                                        *)
THEOREM StoreInvariance == Spec => []StoreInv
<1>1. StoreInv /\ [Next]_vars => StoreInv'
  <2> SUFFICES ASSUME StoreInv, [Next]_vars PROVE StoreInv'
    OBVIOUS
  <2>1. TypeOK' /\ ArgumentsFit'
    BY TypePreserved, ArgumentsPreserved
  <2> QED
    BY <2>1 DEF StoreInv
<1> QED
  BY <1>1, StoreInit, PTL DEF Spec

(* Every symbol is kept under its own keys only.                           *)
THEOREM StoreTypeCorrect == Spec => []TypeOK
<1>1. StoreInv => TypeOK
  BY DEF StoreInv
<1> QED
  BY <1>1, StoreInvariance, PTL

-----------------------------------------------------------------------------
(***************************************************************************)
(* What no writer disturbs, again however they overlap.                    *)
(***************************************************************************)
(* What is found of the names a writer neither removes nor inserts: its    *)
(* own file may at most lose an entry under a short name.                  *)
OutsideKept(w) ==
  \A x \in Fqns \ (old[w] \cup new[w]) :
    /\ byFQN'[x] = byFQN[x]
    /\ x \in Members => byOwner'[x] = byOwner[x]
    /\ \A u \in Uris :
         /\ Symbol(u, x) \in byName'[NameOf[x]] => Symbol(u, x) \in byName[NameOf[x]]
         /\ u # uri[w] /\ Symbol(u, x) \in byName[NameOf[x]] =>
              Symbol(u, x) \in byName'[NameOf[x]]

(* Every step of a writer stays within its names.                          *)
LEMMA StepOutside ==
  ASSUME StoreInv, NEW w \in Writers, Step(w)
  PROVE  OutsideKept(w)
<1>0. TypeOK /\ ArgumentsFit /\ (pc[w] # "idle" => uri[w] \in Uris)
  BY DEF StoreInv, TypeOK
<1>1. ASSUME UNCHANGED <<byFQN, byName, byOwner>> PROVE OutsideKept(w)
  BY <1>1 DEF OutsideKept
<1>2. CASE Unlist(w)
  BY <1>1, <1>2 DEF Unlist
<1>3. CASE List(w)
  BY <1>1, <1>3 DEF List
<1>4. CASE Pass(w)
  BY <1>1, <1>4 DEF Pass, storeVars
<1>5. ASSUME NEW n \in Names, DropName(w, n) PROVE OutsideKept(w)
  <2>1. uri[w] \in Uris
    BY <1>0, <1>5 DEF DropName, Take, ArgumentsFit, ArgumentsOf
  <2>2. byName \in [Names -> SUBSET Symbols]
    BY <1>0 DEF TypeOK
  <2> QED
    BY <1>0, <1>5, <2>1, <2>2, SymbolFacts, NameAssumption, MemberAssumption
       DEF DropName, OutsideKept
<1>6. ASSUME NEW x \in Fqns, DeleteFqn(w, x) PROVE OutsideKept(w)
  <2>1. x \in old[w] \cup new[w]
    BY <1>0, <1>6 DEF DeleteFqn, Take, ArgumentsFit, ArgumentsOf
  <2>2. byFQN \in [Fqns -> Symbols \cup {None}]
    BY <1>0 DEF TypeOK
  <2> QED
    BY <1>0, <1>6, <2>1, <2>2, SymbolFacts, NameAssumption, MemberAssumption
       DEF DeleteFqn, OutsideKept
<1>7. ASSUME NEW x \in Fqns, InsertFqn(w, x) PROVE OutsideKept(w)
  <2>1. x \in old[w] \cup new[w]
    BY <1>0, <1>7 DEF InsertFqn, Take, ArgumentsFit, ArgumentsOf
  <2>2. byFQN \in [Fqns -> Symbols \cup {None}]
    BY <1>0 DEF TypeOK
  <2> QED
    BY <1>0, <1>7, <2>1, <2>2, SymbolFacts, NameAssumption, MemberAssumption
       DEF InsertFqn, OutsideKept
<1>8. ASSUME NEW x \in Fqns, InsertName(w, x) PROVE OutsideKept(w)
  <2>1. uri[w] \in Uris /\ x \in old[w] \cup new[w]
    BY <1>0, <1>8 DEF InsertName, Take, ArgumentsFit, ArgumentsOf
  <2>2. byName \in [Names -> SUBSET Symbols]
    BY <1>0 DEF TypeOK
  <2> QED
    BY <1>0, <1>8, <2>1, <2>2, SymbolFacts, NameAssumption, MemberAssumption
       DEF InsertName, OutsideKept
<1>9. ASSUME NEW x \in Members, DeleteMember(w, x) PROVE OutsideKept(w)
  <2>1. x \in old[w] \cup new[w]
    BY <1>0, <1>9 DEF DeleteMember, Take, ArgumentsFit, ArgumentsOf
  <2>2. byOwner \in [Members -> Symbols \cup {None}]
    BY <1>0 DEF TypeOK
  <2> QED
    BY <1>0, <1>9, <2>1, <2>2, SymbolFacts, NameAssumption, MemberAssumption
       DEF DeleteMember, OutsideKept
<1>10. ASSUME NEW x \in Members, InsertMember(w, x) PROVE OutsideKept(w)
  <2>1. x \in old[w] \cup new[w]
    BY <1>0, <1>10 DEF InsertMember, Take, ArgumentsFit, ArgumentsOf
  <2>2. byOwner \in [Members -> Symbols \cup {None}]
    BY <1>0 DEF TypeOK
  <2> QED
    BY <1>0, <1>10, <2>1, <2>2, SymbolFacts, NameAssumption, MemberAssumption
       DEF InsertMember, OutsideKept
<1> QED
  BY <1>2, <1>3, <1>4, <1>5, <1>6, <1>7, <1>8, <1>9, <1>10 DEF Step

(* What lookups find of the names only u may declare.                      *)
KeptOf(u) ==
  \A x \in Exclusive(u) :
    /\ byFQN'[x] = byFQN[x]
    /\ Symbol(u, x) \in byName'[NameOf[x]] <=> Symbol(u, x) \in byName[NameOf[x]]
    /\ x \in Members => byOwner'[x] = byOwner[x]

(* A step of another file's writer leaves them alone.                      *)
LEMMA OthersKept ==
  ASSUME StoreInv, [Next]_vars, NEW u \in Uris, \A w \in Writers : uri[w] # u
  PROVE  KeptOf(u)
<1>1. ASSUME NEW w \in Writers, Step(w) PROVE KeptOf(u)
  <2>1. pc[w] # "idle"
    BY <1>1 DEF Step, Unlist, List, Pass, DropName, DeleteFqn, InsertFqn, InsertName,
                DeleteMember, InsertMember, Take
  <2>2. uri[w] \in Uris \ {u} /\ old[w] \cup new[w] \subseteq Declarable(uri[w])
    BY <2>1 DEF StoreInv, TypeOK, ArgumentsFit, ArgumentsOf
  <2>3. Exclusive(u) \subseteq Fqns \ (old[w] \cup new[w])
    BY <2>2, DeclarableNames DEF Exclusive
  <2>4. OutsideKept(w)
    BY <1>1, StepOutside
  <2> QED
    BY <2>2, <2>3, <2>4 DEF OutsideKept, KeptOf
<1>2. ASSUME UNCHANGED <<byFQN, byName, byOwner>> PROVE KeptOf(u)
  BY <1>2 DEF KeptOf
<1>3. ASSUME NEW w \in Writers, NEW v \in Uris, PutFile(w, v) \/ RemoveFile(w, v)
       PROVE  KeptOf(u)
  BY <1>2, <1>3 DEF PutFile, RemoveFile, Call, storeVars
<1>4. CASE UNCHANGED vars
  BY <1>2, <1>4 DEF vars, storeVars
<1> QED
  BY <1>1, <1>3, <1>4 DEF Next

(* While no writer treats a file, what lookups find of the names it alone  *)
(* declares does not change.                                               *)
THEOREM OthersKeep == Spec => OthersUntouched
<1>1. StoreInv /\ [Next]_vars =>
        [\A u \in Uris : (\A w \in Writers : uri[w] # u) => KeptOf(u)]_vars
  BY OthersKept
<1>2. [\A u \in Uris : (\A w \in Writers : uri[w] # u) => KeptOf(u)]_vars =>
        [\A u \in Uris : (\A w \in Writers : uri[w] # u) =>
           \A x \in Exclusive(u) :
             LET s == Symbol(u, x) IN
               /\ byFQN'[x] = byFQN[x]
               /\ s \in byName'[NameOf[x]] <=> s \in byName[NameOf[x]]
               /\ x \in Members => byOwner'[x] = byOwner[x]]_vars
  BY DEF KeptOf
<1> QED
  BY <1>1, <1>2, StoreInvariance, PTL DEF Spec, OthersUntouched

-----------------------------------------------------------------------------
(***************************************************************************)
(* Writers that overlap share no names but the clashed ones.               *)
(***************************************************************************)
(* A writer that runs: the others do, and what becomes of the list.        *)
LEMMA StepEffect ==
  ASSUME StoreInv, NEW w \in Writers, Step(w)
  PROVE  /\ pc[w] # "idle" /\ uri[w] \in Uris /\ OthersIdle(w)
         /\ \A u \in Uris \ {uri[w]} : listed'[u] = listed[u]
         /\ listed'[uri[w]] \subseteq listed[uri[w]] \cup new[w]
         /\ \/ pc'[w] = "idle"
            \/ /\ uri'[w] = uri[w] /\ new'[w] = new[w] /\ pc'[w] \notin {"idle", "unlist"}
               /\ IF pc[w] = "unlist" THEN listed'[uri[w]] = {} /\ old'[w] = listed[uri[w]]
                                      ELSE listed' = listed /\ old'[w] = old[w]
<1>0. TypeOK /\ ArgumentsFit
  BY DEF StoreInv
<1>1. pc[w] # "idle" /\ uri[w] \in Uris
  BY <1>0 DEF Step, Unlist, List, Pass, DropName, DeleteFqn, InsertFqn, InsertName,
              DeleteMember, InsertMember, Take, TypeOK
<1>2. CASE Unlist(w)
  <2>1. /\ listed' = [listed EXCEPT ![uri[w]] = {}] /\ pc[w] = "unlist" /\ old[w] = {}
        /\ listed \in [Uris -> SUBSET Fqns]
    BY <1>0, <1>2 DEF Unlist, TypeOK, ArgumentsFit, ArgumentsOf
  <2>2. CASE Finish(w)
    BY <1>0, <1>1, <2>1, <2>2, FinishEffect
  <2>3. CASE /\ listed[uri[w]] = {} /\ Loop(w, "fqn", new[w])
             /\ UNCHANGED <<argVars, old, names>>
    <3>1. UNCHANGED <<argVars, names>> /\ UNCHANGED old
      BY <2>3
    <3> QED
      BY <1>0, <1>1, <2>1, <2>3, <3>1, LoopEffect
  <2>4. CASE /\ Loop(w, "unfqn", listed[uri[w]]) /\ UNCHANGED <<argVars, names>>
             /\ old' = [old EXCEPT ![w] = listed[uri[w]]]
    <3>1. old'[w] = listed[uri[w]] /\ \A v \in Writers \ {w} : old'[v] = old[v]
      BY <1>0, <2>4 DEF TypeOK
    <3> QED
      BY <1>0, <1>1, <2>1, <2>4, <3>1, LoopEffect
  <2> QED
    BY <1>2, <2>2, <2>3, <2>4, UnlistCases
<1>3. CASE List(w)
  BY <1>0, <1>1, <1>3, FinishEffect DEF List, TypeOK
<1>4. CASE Pass(w)
  <2>1. UNCHANGED listed /\ pc[w] \in Loops
    BY <1>4, PassCases DEF storeVars, Loops
  <2>2. CASE Finish(w)
    BY <1>0, <1>1, <2>1, <2>2, FinishEffect
  <2>3. CASE ~Finish(w)
    <3>1. UNCHANGED <<argVars, names>> /\ UNCHANGED old
      BY <1>4, <2>3, PassCases
    <3>2. PICK label \in {"unname", "unown", "fqn", "name", "own", "list"} :
            \E keys : Loop(w, label, keys)
      BY <1>4, <2>3, PassCases
    <3>3. PICK keys : Loop(w, label, keys)
      BY <3>2
    <3> QED
      BY <1>0, <1>1, <2>1, <3>1, <3>2, <3>3, LoopEffect DEF Loops
  <2> QED
    BY <2>2, <2>3
<1>5. CASE \/ \E n \in Names : DropName(w, n)
           \/ \E x \in Fqns : DeleteFqn(w, x) \/ InsertFqn(w, x) \/ InsertName(w, x)
           \/ \E x \in Members : DeleteMember(w, x) \/ InsertMember(w, x)
  <2>1. pc[w] # "unlist"
    BY <1>5 DEF DropName, DeleteFqn, InsertFqn, InsertName, DeleteMember, InsertMember, Take
  <2> QED
    BY <1>0, <1>1, <1>5, <2>1, TurnEffect
<1> QED
  BY <1>2, <1>3, <1>4, <1>5 DEF Step

(* Names that come to be shared by running writers come to be clashed.     *)
LEMMA ApartPreserved ==
  ASSUME StoreInv, WritersApart, [Next]_vars
  PROVE  WritersApart'
<1>0. TypeOK /\ ArgumentsFit
  BY DEF StoreInv
<1>1. ASSUME NEW w \in Writers, Step(w), UNCHANGED clashed PROVE WritersApart'
  <2>1. /\ pc[w] # "idle" /\ uri[w] \in Uris /\ OthersIdle(w)
        /\ \A u \in Uris \ {uri[w]} : listed'[u] = listed[u]
        /\ listed'[uri[w]] \subseteq listed[uri[w]] \cup new[w]
    BY <1>1, StepEffect
  <2>2. new[w] \cup listed[uri[w]] \subseteq Touches(w)
    BY <2>1, SymbolAssumption DEF Touches
  <2>3. \A v \in Writers \ {w} : pc[v] # "idle" =>
          uri[v] \in Uris /\ (uri[v] = uri[w] => Touches(v) \cup Touches(w) \subseteq clashed)
    BY <1>0, <2>1 DEF TypeOK, WritersApart
  <2>4. ASSUME NEW v \in Writers \ {w}, pc[v] # "idle"
        PROVE  Touches(v)' \subseteq Touches(v) \cup clashed
    <3>1. old'[v] = old[v] /\ new'[v] = new[v] /\ uri'[v] = uri[v] /\ uri[v] # None
      BY <2>1, <2>3, <2>4, SymbolAssumption DEF OthersIdle
    <3>2. CASE uri[v] = uri[w]
      BY <2>1, <2>2, <2>3, <2>4, <3>1, <3>2 DEF Touches
    <3>3. CASE uri[v] # uri[w]
      BY <2>1, <2>3, <2>4, <3>1, <3>3 DEF Touches
    <3> QED
      BY <3>2, <3>3
  <2>5. ASSUME pc'[w] # "idle" PROVE uri'[w] = uri[w] /\ Touches(w)' \subseteq Touches(w)
    <3>1. /\ uri'[w] = uri[w] /\ new'[w] = new[w]
          /\ IF pc[w] = "unlist" THEN listed'[uri[w]] = {} /\ old'[w] = listed[uri[w]]
                                 ELSE listed' = listed /\ old'[w] = old[w]
      BY <1>1, <2>5, StepEffect
    <3> QED
      BY <2>1, <3>1, SymbolAssumption DEF Touches
  <2>6. \A v \in Writers : pc'[v] # "idle" =>
          pc[v] # "idle" /\ uri'[v] = uri[v] /\ Touches(v)' \subseteq Touches(v) \cup clashed
    BY <2>1, <2>4, <2>5 DEF OthersIdle
  <2>7. \A v, z \in Writers :
          v # z /\ pc'[v] # "idle" /\ pc'[z] # "idle" =>
            IF uri'[v] = uri'[z] THEN Touches(v)' \cup Touches(z)' \subseteq clashed'
                                 ELSE Touches(v)' \cap Touches(z)' \subseteq clashed'
    BY <1>1, <2>6 DEF WritersApart
  <2>8. ASSUME NEW v \in Writers, pc'[v] \notin {"idle", "unlist"}
        PROVE  listed'[uri'[v]] \subseteq clashed'
    <3>1. CASE v = w
      BY <1>1, <2>1, <2>8, <3>1, StepEffect DEF WritersApart
    <3>2. CASE v # w
      <4>1. /\ pc[v] \notin {"idle", "unlist"} /\ uri'[v] = uri[v]
            /\ listed[uri[v]] \subseteq clashed
        BY <2>1, <2>8, <3>2 DEF OthersIdle, WritersApart
      <4> QED
        BY <1>1, <2>1, <2>2, <2>3, <3>2, <4>1
    <3> QED
      BY <3>1, <3>2
  <2> QED
    BY <2>7, <2>8 DEF WritersApart
<1>2. ASSUME NEW w \in Writers, NEW u \in Uris, PutFile(w, u) \/ RemoveFile(w, u)
      PROVE  WritersApart'
  <2>1. PICK S \in SUBSET Declarable(u), b \in BOOLEAN : Call(w, u, S, b)
    BY <1>2, CallFits
  <2>2. /\ pc[w] = "idle" /\ pc'[w] = "unlist" /\ uri'[w] = u /\ new'[w] = S
        /\ old'[w] = {} /\ OthersIdle(w) /\ UNCHANGED listed
        /\ clashed' = clashed \cup Clashes(u, S)
    <3>1. pc[w] = "idle" /\ UNCHANGED listed /\ clashed' = clashed \cup Clashes(u, S)
      BY <2>1 DEF Call, storeVars
    <3>2. old[w] = {}
      BY <1>0, <3>1 DEF ArgumentsFit, ArgumentsOf
    <3> QED
      BY <1>0, <2>1, <3>1, <3>2, CallEffect
  <2>3. Touches(w)' = S \cup listed[u] /\ S \cup listed[u] \subseteq Fqns
    BY <1>0, <2>2, SymbolAssumption, DeclarableNames DEF Touches, TypeOK
  <2>4. \A v \in Writers \ {w} : Touches(v)' = Touches(v) /\ Touches(v) \subseteq Fqns
    BY <1>0, <2>2 DEF Touches, OthersIdle, TypeOK
  <2>5. ASSUME NEW v \in Writers \ {w}, pc[v] # "idle"
        PROVE  IF uri[v] = u THEN Touches(v) \cup Touches(w)' \subseteq clashed'
                             ELSE Touches(v) \cap Touches(w)' \subseteq clashed'
    <3>1. uri[v] = u => listed[u] \subseteq Touches(v)
      BY SymbolAssumption DEF Touches
    <3> QED
      BY <2>2, <2>3, <2>4, <2>5, <3>1 DEF Clashes
  <2>6. ASSUME NEW v \in Writers \ {w}, NEW z \in Writers, v # z,
               pc'[v] # "idle", pc'[z] # "idle"
        PROVE  IF uri'[v] = uri'[z] THEN Touches(v)' \cup Touches(z)' \subseteq clashed'
                                    ELSE Touches(v)' \cap Touches(z)' \subseteq clashed'
    <3>1. pc[v] # "idle" /\ uri'[v] = uri[v]
      BY <2>2, <2>6 DEF OthersIdle
    <3>2. CASE z = w
      BY <2>2, <2>4, <2>5, <3>1, <3>2
    <3>3. CASE z # w
      <4>1. pc[z] # "idle" /\ uri'[z] = uri[z]
        BY <2>2, <2>6, <3>3 DEF OthersIdle
      <4> QED
        BY <2>2, <2>4, <2>6, <3>1, <3>3, <4>1 DEF WritersApart
    <3> QED
      BY <3>2, <3>3
  <2>7. \A v \in Writers : pc'[v] \notin {"idle", "unlist"} => listed'[uri'[v]] \subseteq clashed'
    BY <2>2 DEF WritersApart, OthersIdle
  <2>8. \A v, z \in Writers :
          v # z /\ pc'[v] # "idle" /\ pc'[z] # "idle" =>
            IF uri'[v] = uri'[z] THEN Touches(v)' \cup Touches(z)' \subseteq clashed'
                                 ELSE Touches(v)' \cap Touches(z)' \subseteq clashed'
    BY <2>6
  <2> QED
    BY <2>7, <2>8 DEF WritersApart
<1>3. CASE UNCHANGED vars
  BY <1>3 DEF vars, storeVars, argVars, WritersApart, Touches
<1> QED
  BY <1>1, <1>2, <1>3 DEF Next

-----------------------------------------------------------------------------
(***************************************************************************)
(* What the loops have done stays done.                                    *)
(***************************************************************************)
(* A writer's step leaves what the other writers have done.                *)
LEMMA OthersLoops ==
  ASSUME StoreInv, WritersApart, NEW w \in Writers, Step(w), UNCHANGED clashed,
         NEW v \in Writers \ {w}, pc[v] # "idle", LoopsOf(v)
  PROVE  LoopsOf(v)'
<1>0. TypeOK /\ ArgumentsFit
  BY DEF StoreInv
<1>1. OutsideKept(w)
  BY StepOutside
<1>2. pc[w] # "idle" /\ uri[w] \in Uris /\ OthersIdle(w)
  BY StepEffect
<1>3. /\ uri[v] \in Uris /\ old[v] \cup new[v] \subseteq Fqns
      /\ IF uri[v] = uri[w] THEN old[v] \cup new[v] \subseteq clashed
                            ELSE (old[v] \cup new[v]) \cap (old[w] \cup new[w]) \subseteq clashed
  BY <1>0, <1>2 DEF TypeOK, WritersApart, Touches
<1>4. /\ pc'[v] = pc[v] /\ uri'[v] = uri[v] /\ new'[v] = new[v] /\ old'[v] = old[v]
      /\ names'[v] = names[v] /\ todo'[v] = todo[v]
  BY <1>2 DEF OthersIdle
<1>5. \A x \in (old[v] \cup new[v]) \ clashed :
        /\ byFQN'[x] = byFQN[x] /\ (x \in Members => byOwner'[x] = byOwner[x])
        /\ Symbol(uri[v], x) \in byName'[NameOf[x]] <=> Symbol(uri[v], x) \in byName[NameOf[x]]
  BY <1>1, <1>3 DEF OutsideKept
<1>7. \A label : /\ Done(v, label, new[v])' = Done(v, label, new[v])
                 /\ Done(v, label, old[v])' = Done(v, label, old[v])
                 /\ Done(v, label, new[v]) \subseteq new[v] \ clashed
                 /\ Done(v, label, old[v]) \subseteq old[v] \ clashed
  BY <1>4 DEF Done
<1>8. FqnsDone(v)'
  BY <1>4, <1>5, <1>7 DEF LoopsOf, FqnsDone
<1>9. MembersDone(v)'
  BY <1>4, <1>5, <1>7 DEF LoopsOf, MembersDone
<1>10. NamesInserted(v)'
  BY <1>4, <1>5, <1>7 DEF LoopsOf, NamesInserted
<1>11. NamesRemoved(v)'
  BY <1>4, <1>5, <1>7 DEF LoopsOf, NamesRemoved
<1> QED
  BY <1>8, <1>9, <1>10, <1>11 DEF LoopsOf

(* Going from one loop to the next.                                        *)
LEMMA PassLoops ==
  ASSUME StoreInv, NEW w \in Writers, Pass(w), UNCHANGED clashed, LoopsOf(w), pc'[w] # "idle"
  PROVE  LoopsOf(w)'
<1>0. TypeOK /\ ArgumentsOf(w)
  BY DEF StoreInv, ArgumentsFit
<1>1. todo[w] = {} /\ UNCHANGED <<byFQN, byName, byOwner>> /\ ~Finish(w)
  BY <1>0, PassCases, FinishEffect DEF storeVars
<1>2. UNCHANGED <<argVars, names>> /\ UNCHANGED old /\ UNCHANGED <<argVars, old, names>>
  BY <1>1, PassCases
<1>3. ASSUME NEW label, NEW keys, Loop(w, label, keys)
      PROVE  /\ pc'[w] = label /\ todo'[w] = keys /\ uri'[w] = uri[w] /\ new'[w] = new[w]
             /\ old'[w] = old[w] /\ names'[w] = names[w]
  BY <1>0, <1>2, <1>3, LoopEffect
<1> DEFINE Same == UNCHANGED <<byFQN, byName, byOwner>> /\ uri'[w] = uri[w] /\ new'[w] = new[w]
                     /\ old'[w] = old[w] /\ names'[w] = names[w] /\ todo[w] = {} /\ clashed' = clashed
<1>4. ASSUME pc[w] = "unfqn", Loop(w, "unname", names[w]) PROVE LoopsOf(w)'
  <2>1. Same /\ pc'[w] = "unname" /\ todo'[w] = names[w]
    BY <1>1, <1>3, <1>4
  <2> QED
    BY <1>4, <2>1 DEF LoopsOf, FqnsDone, MembersDone, NamesInserted, NamesRemoved, Done, Later
<1>5. ASSUME pc[w] = "unname", Loop(w, "unown", old[w] \cap Members) PROVE LoopsOf(w)'
  <2>1. Same /\ pc'[w] = "unown" /\ todo'[w] = old[w] \cap Members
    BY <1>1, <1>3, <1>5
  <2> QED
    BY <1>5, <2>1 DEF LoopsOf, FqnsDone, MembersDone, NamesInserted, NamesRemoved, Done, Later
<1>6. ASSUME pc[w] = "unown", Loop(w, "fqn", new[w]) PROVE LoopsOf(w)'
  <2>1. Same /\ pc'[w] = "fqn" /\ todo'[w] = new[w]
    BY <1>1, <1>3, <1>6
  <2> QED
    BY <1>6, <2>1 DEF LoopsOf, FqnsDone, MembersDone, NamesInserted, NamesRemoved, Done, Later
<1>7. ASSUME pc[w] = "fqn", Loop(w, "name", new[w]) PROVE LoopsOf(w)'
  <2>1. Same /\ pc'[w] = "name" /\ todo'[w] = new[w]
    BY <1>1, <1>3, <1>7
  <2> QED
    BY <1>7, <2>1 DEF LoopsOf, FqnsDone, MembersDone, NamesInserted, NamesRemoved, Done, Later
<1>8. ASSUME pc[w] = "name", Loop(w, "own", new[w] \cap Members) PROVE LoopsOf(w)'
  <2>1. Same /\ pc'[w] = "own" /\ todo'[w] = new[w] \cap Members
    BY <1>1, <1>3, <1>8
  <2> QED
    BY <1>8, <2>1 DEF LoopsOf, FqnsDone, MembersDone, NamesInserted, NamesRemoved, Done, Later
<1>9. ASSUME pc[w] = "own", Loop(w, "list", {}) PROVE LoopsOf(w)'
  <2>1. Same /\ pc'[w] = "list" /\ todo'[w] = {}
    BY <1>1, <1>3, <1>9
  <2> QED
    BY <1>9, <2>1 DEF LoopsOf, FqnsDone, MembersDone, NamesInserted, NamesRemoved, Done, Later
<1> QED
  BY <1>1, <1>4, <1>5, <1>6, <1>7, <1>8, <1>9, PassCases

(* One turn of a loop does one more key, and undoes none.                  *)
LEMMA TurnLoops ==
  ASSUME StoreInv, NEW w \in Writers, LoopsOf(w), UNCHANGED clashed,
         \/ \E n \in Names : DropName(w, n)
         \/ \E x \in Fqns : DeleteFqn(w, x) \/ InsertFqn(w, x) \/ InsertName(w, x)
         \/ \E x \in Members : DeleteMember(w, x) \/ InsertMember(w, x)
  PROVE  LoopsOf(w)'
<1> DEFINE Same == uri'[w] = uri[w] /\ new'[w] = new[w] /\ old'[w] = old[w]
<1>0. TypeOK /\ ArgumentsOf(w) /\ new[w] \subseteq Fqns /\ old[w] \subseteq Fqns
  BY DEF StoreInv, ArgumentsFit, TypeOK
<1>1. \A v \in Writers \ {w} : names'[v] = names[v]
  BY TurnEffect, <1>0 DEF OthersIdle
<1>2. /\ pc[w] # "idle" /\ uri[w] \in Uris
      /\ pc[w] \in {"unfqn", "unown"} => todo[w] \subseteq old[w]
      /\ pc[w] \in {"fqn", "name", "own"} => todo[w] \subseteq new[w]
  BY StepEffect, <1>0 DEF Step, ArgumentsOf
<1>3. \A x \in Fqns : NameOf[x] \in Names
  BY NameAssumption
<1>4. ASSUME NEW n \in Names, DropName(w, n) PROVE LoopsOf(w)'
  <2>1. /\ Same /\ pc[w] = "unname" /\ pc'[w] = "unname"
        /\ n \in todo[w] /\ todo'[w] = todo[w] \ {n}
    BY <1>0, <1>1, <1>4, TakeEffect DEF DropName
  <2>2. /\ byFQN' = byFQN /\ byOwner' = byOwner /\ names' = names
        /\ \A m \in Names : byName'[m] \subseteq byName[m]
        /\ \A s \in byName'[n] : s.uri # uri[w]
    BY <1>0, <1>4, SymbolFacts DEF DropName, TypeOK
  <2>3. FqnsDone(w)' /\ MembersDone(w)'
    BY <1>0, <1>2, <2>1, <2>2 DEF LoopsOf, FqnsDone, MembersDone, Done, Later
  <2>4. NamesInserted(w)'
    BY <1>0, <1>2, <1>3, <2>1, <2>2 DEF LoopsOf, NamesInserted, Done, Later
  <2>5. NamesRemoved(w)'
    BY <1>0, <1>2, <1>3, <2>1, <2>2, SymbolFacts DEF LoopsOf, NamesRemoved, Done, Later
  <2> QED
    BY <2>3, <2>4, <2>5 DEF LoopsOf
<1>5. ASSUME NEW x \in Fqns, DeleteFqn(w, x) PROVE LoopsOf(w)'
  <2>1. /\ Same /\ pc[w] = "unfqn" /\ pc'[w] = "unfqn"
        /\ x \in todo[w] /\ todo'[w] = todo[w] \ {x}
    BY <1>0, <1>1, <1>5, TakeEffect DEF DeleteFqn
  <2>2. /\ byName' = byName /\ byOwner' = byOwner
        /\ \A y \in Fqns : byFQN'[y] = IF y = x THEN None ELSE byFQN[y]
        /\ names[w] \subseteq names'[w] /\ (byFQN[x] # None => NameOf[x] \in names'[w])
    BY <1>0, <1>5, SymbolFacts DEF DeleteFqn, TypeOK
  <2>3. FqnsDone(w)' /\ MembersDone(w)'
    BY <1>0, <1>2, <2>1, <2>2 DEF LoopsOf, FqnsDone, MembersDone, Done, Later
  <2>4. NamesInserted(w)'
    BY <1>0, <1>2, <1>3, <2>1, <2>2 DEF LoopsOf, NamesInserted, Done, Later
  <2>5. NamesRemoved(w)'
    BY <1>0, <1>2, <1>3, <2>1, <2>2, SymbolFacts DEF LoopsOf, NamesRemoved, Done, Later
  <2> QED
    BY <2>3, <2>4, <2>5 DEF LoopsOf
<1>6. ASSUME NEW x \in Fqns, InsertFqn(w, x) PROVE LoopsOf(w)'
  <2>1. /\ Same /\ pc[w] = "fqn" /\ pc'[w] = "fqn"
        /\ x \in todo[w] /\ todo'[w] = todo[w] \ {x}
    BY <1>0, <1>1, <1>6, TakeEffect DEF InsertFqn
  <2>2. /\ byName' = byName /\ byOwner' = byOwner /\ names' = names
        /\ \A y \in Fqns : byFQN'[y] = IF y = x THEN Symbol(uri[w], x) ELSE byFQN[y]
    BY <1>0, <1>6, SymbolFacts DEF InsertFqn, TypeOK
  <2> QED
    BY <1>0, <1>2, <2>1, <2>2
       DEF LoopsOf, FqnsDone, MembersDone, NamesInserted, NamesRemoved, Done, Later
<1>7. ASSUME NEW x \in Fqns, InsertName(w, x) PROVE LoopsOf(w)'
  <2>1. /\ Same /\ pc[w] = "name" /\ pc'[w] = "name"
        /\ x \in todo[w] /\ todo'[w] = todo[w] \ {x}
    BY <1>0, <1>1, <1>7, TakeEffect DEF InsertName
  <2>2. /\ byFQN' = byFQN /\ byOwner' = byOwner /\ names' = names
        /\ \A m \in Names : byName'[m] = IF m = NameOf[x] THEN byName[m] \cup {Symbol(uri[w], x)}
                                         ELSE byName[m]
    BY <1>0, <1>7, SymbolFacts DEF InsertName, TypeOK
  <2>3. FqnsDone(w)' /\ MembersDone(w)'
    BY <1>0, <1>2, <2>1, <2>2 DEF LoopsOf, FqnsDone, MembersDone, Done, Later
  <2>4. NamesInserted(w)'
    BY <1>0, <1>2, <1>3, <2>1, <2>2 DEF LoopsOf, NamesInserted, Done, Later
  <2>5. NamesRemoved(w)'
    <3>1. SUFFICES ASSUME NEW y \in (old[w] \cap Exclusive(uri[w])) \ clashed,
                          y \notin Done(w, "name", new[w])'
                   PROVE  Symbol(uri[w], y) \notin byName'[NameOf[y]]
      BY <2>1 DEF NamesRemoved, Later
    <3>2. y # x /\ y \notin Done(w, "name", new[w])
      BY <1>2, <2>1, <3>1 DEF Done, Later
    <3>3. Symbol(uri[w], y) \notin byName[NameOf[y]]
      BY <2>1, <3>2 DEF LoopsOf, NamesRemoved, Later
    <3>4. Symbol(uri[w], y) # Symbol(uri[w], x)
      BY <1>0, <1>2, <3>1, <3>2, SymbolFacts
    <3>5. y \in Fqns /\ NameOf[y] \in Names
      BY <1>0, <1>3, <3>1
    <3> QED
      BY <2>2, <3>3, <3>4, <3>5
  <2> QED
    BY <2>3, <2>4, <2>5 DEF LoopsOf
<1>8. ASSUME NEW x \in Members, DeleteMember(w, x) PROVE LoopsOf(w)'
  <2>1. /\ Same /\ pc[w] = "unown" /\ pc'[w] = "unown"
        /\ x \in todo[w] /\ todo'[w] = todo[w] \ {x}
    BY <1>0, <1>1, <1>8, TakeEffect DEF DeleteMember
  <2>2. /\ byFQN' = byFQN /\ byName' = byName /\ names' = names
        /\ \A y \in Members : byOwner'[y] = IF y = x THEN None ELSE byOwner[y]
    BY <1>0, <1>8, SymbolFacts DEF DeleteMember, TypeOK
  <2> QED
    BY <1>0, <1>2, <2>1, <2>2
       DEF LoopsOf, FqnsDone, MembersDone, NamesInserted, NamesRemoved, Done, Later
<1>9. ASSUME NEW x \in Members, InsertMember(w, x) PROVE LoopsOf(w)'
  <2>1. /\ Same /\ pc[w] = "own" /\ pc'[w] = "own"
        /\ x \in todo[w] /\ todo'[w] = todo[w] \ {x}
    BY <1>0, <1>1, <1>9, TakeEffect DEF InsertMember
  <2>2. /\ byFQN' = byFQN /\ byName' = byName /\ names' = names
        /\ \A y \in Members : byOwner'[y] = IF y = x THEN Symbol(uri[w], x) ELSE byOwner[y]
    BY <1>0, <1>9, SymbolFacts DEF InsertMember, TypeOK
  <2> QED
    BY <1>0, <1>2, <2>1, <2>2
       DEF LoopsOf, FqnsDone, MembersDone, NamesInserted, NamesRemoved, Done, Later
<1> QED
  BY <1>4, <1>5, <1>6, <1>7, <1>8, <1>9

(* Between the loops of its own names nothing is done; taking the list     *)
(* finds the names the file alone declares in all the maps.                *)
LEMMA UnlistLoops ==
  ASSUME IndexInv, NEW w \in Writers, Unlist(w), UNCHANGED clashed, pc'[w] # "idle"
  PROVE  LoopsOf(w)'
<1>0. TypeOK /\ ArgumentsFit /\ StoreInv /\ WritersApart /\ MapsAgree
  BY DEF IndexInv, StoreInv
<1>1. /\ pc[w] = "unlist" /\ UNCHANGED <<byFQN, byName, byOwner>>
      /\ ~Finish(w) /\ old[w] = {} /\ uri[w] \in Uris
  BY <1>0, UnlistCases, FinishEffect DEF ArgumentsFit, ArgumentsOf, TypeOK
<1>2. CASE listed[uri[w]] = {} /\ Loop(w, "fqn", new[w]) /\ UNCHANGED <<argVars, old, names>>
  <2>1. UNCHANGED <<argVars, names>> /\ UNCHANGED old
    BY <1>2
  <2>2. pc'[w] = "fqn" /\ todo'[w] = new'[w] /\ old'[w] = {}
    BY <1>0, <1>1, <1>2, <2>1, LoopEffect
  <2> QED
    BY <2>2 DEF LoopsOf, FqnsDone, MembersDone, NamesInserted, NamesRemoved, Done, Later
<1>3. CASE /\ Loop(w, "unfqn", listed[uri[w]]) /\ UNCHANGED <<argVars, names>>
           /\ old' = [old EXCEPT ![w] = listed[uri[w]]]
  <2>1. old'[w] = listed[uri[w]] /\ \A v \in Writers \ {w} : old'[v] = old[v]
    BY <1>0, <1>3 DEF TypeOK
  <2>2. pc'[w] = "unfqn" /\ todo'[w] = old'[w] /\ uri'[w] = uri[w]
    BY <1>0, <1>3, <2>1, LoopEffect
  <2>3. \A x \in listed[uri[w]] \ clashed : x \in Fqns /\ Settled(x)
    BY <1>0, <1>1, SymbolAssumption DEF TypeOK, WritersApart, Settled, InFlight, Touches
  <2>4. \A x \in (listed[uri[w]] \cap Exclusive(uri[w])) \ clashed : byFQN[x] = Symbol(uri[w], x)
    BY <1>0, <1>1, <2>3 DEF MapsAgree, AgreeOn, Exact
  <2> QED
    BY <1>1, <2>1, <2>2, <2>4
       DEF LoopsOf, FqnsDone, MembersDone, NamesInserted, NamesRemoved, Done, Later
<1> QED
  BY <1>1, <1>2, <1>3, UnlistCases

(* Every step keeps what the loops have done.                              *)
LEMMA LoopsPreserved ==
  ASSUME IndexInv, [Next]_vars
  PROVE  LoopsDone'
<1>0. TypeOK /\ ArgumentsFit /\ StoreInv /\ WritersApart /\ LoopsDone
  BY DEF IndexInv, StoreInv
<1>1. ASSUME NEW w \in Writers, Step(w), UNCHANGED clashed PROVE LoopsDone'
  <2>1. pc[w] # "idle" /\ OthersIdle(w) /\ LoopsOf(w)
    BY <1>0, <1>1, StepEffect DEF LoopsDone
  <2>2. \A v \in Writers \ {w} : pc'[v] # "idle" => LoopsOf(v)'
    BY <1>0, <1>1, <2>1, OthersLoops DEF LoopsDone, OthersIdle
  <2>3. pc'[w] # "idle" => LoopsOf(w)'
    <3>1. ~List(w) \/ pc'[w] = "idle"
      BY <1>0, FinishEffect DEF List
    <3> QED
      BY <1>0, <1>1, <2>1, <3>1, UnlistLoops, PassLoops, TurnLoops DEF Step
  <2> QED
    BY <2>2, <2>3 DEF LoopsDone
<1>2. ASSUME NEW w \in Writers, NEW u \in Uris, PutFile(w, u) \/ RemoveFile(w, u)
      PROVE  LoopsDone'
  <2>1. PICK S \in SUBSET Declarable(u), b \in BOOLEAN : Call(w, u, S, b)
    BY <1>2, CallFits
  <2>2. /\ pc[w] = "idle" /\ pc'[w] = "unlist" /\ OthersIdle(w) /\ old'[w] = old[w]
        /\ UNCHANGED <<byFQN, byName, byOwner>> /\ clashed \subseteq clashed'
    BY <1>0, <2>1, CallEffect DEF Call, storeVars
  <2>3. old'[w] = {}
    BY <1>0, <2>2 DEF ArgumentsFit, ArgumentsOf
  <2>4. LoopsOf(w)'
    BY <2>2, <2>3 DEF LoopsOf, FqnsDone, MembersDone, NamesInserted, NamesRemoved, Done, Later
  <2>5. \A v \in Writers \ {w} : (LoopsOf(v) => LoopsOf(v)') /\ pc'[v] = pc[v]
    BY <2>2 DEF OthersIdle, LoopsOf, FqnsDone, MembersDone, NamesInserted, NamesRemoved, Done
  <2> QED
    BY <1>0, <2>4, <2>5 DEF LoopsDone
<1>3. CASE UNCHANGED vars
  BY <1>0, <1>3 DEF vars, storeVars, argVars, LoopsDone, LoopsOf, FqnsDone, MembersDone,
                    NamesInserted, NamesRemoved, Done
<1> QED
  BY <1>1, <1>2, <1>3 DEF Next

-----------------------------------------------------------------------------
(***************************************************************************)
(* The maps agree on every name no writer is between them with and on      *)
(* which calls never clashed.                                              *)
(***************************************************************************)
(* What a writer leaves of its names when it ends: RemoveFile's last loop  *)
(* or PutFile's list.                                                      *)
LEMMA EndAgrees ==
  ASSUME IndexInv, NEW w \in Writers, Step(w), pc'[w] = "idle",
         NEW x \in (old[w] \cup new[w]) \ clashed
  PROVE  AgreeOn(x)'
<1>0. /\ TypeOK /\ ArgumentsOf(w) /\ LoopsOf(w) /\ pc[w] # "idle" /\ uri[w] \in Uris
      /\ listed \in [Uris -> SUBSET Fqns] /\ x \in Fqns /\ NameOf[x] \in Names
      /\ byFQN \in [Fqns -> Symbols \cup {None}]
  BY StepEffect, NameAssumption
     DEF IndexInv, StoreInv, TypeOK, ArgumentsFit, LoopsDone
<1>1. \A u \in Uris : x \in Exclusive(u) => u = uri[w]
  BY <1>0 DEF ArgumentsOf, Exclusive
<1>2. CASE List(w)
  <2>1. pc[w] = "list" /\ UNCHANGED <<byFQN, byName, byOwner>> /\ listed'[uri[w]] = new[w]
    BY <1>0, <1>2 DEF List
  <2>2. CASE x \in new[w]
    <3>1. /\ byFQN[x] = Symbol(uri[w], x) /\ Symbol(uri[w], x) \in byName[NameOf[x]]
          /\ x \in Members => byOwner[x] = Symbol(uri[w], x)
      BY <1>0, <2>1, <2>2 DEF LoopsOf, FqnsDone, MembersDone, NamesInserted, Done, Later
    <3> QED
      BY <1>0, <1>1, <2>1, <2>2, <3>1, SymbolFacts DEF AgreeOn, Mirrored, Listed, Exact
  <2>3. CASE x \notin new[w]
    <3>1. /\ byFQN[x] = None /\ (x \in Members => byOwner[x] = None)
          /\ x \in Exclusive(uri[w]) => Symbol(uri[w], x) \notin byName[NameOf[x]]
      BY <1>0, <2>1, <2>3 DEF LoopsOf, FqnsDone, MembersDone, NamesRemoved, Done, Later
    <3> QED
      BY <1>0, <1>1, <2>1, <2>3, <3>1, SymbolFacts DEF AgreeOn, Mirrored, Listed, Exact
  <2> QED
    BY <2>2, <2>3
<1>3. CASE Pass(w)
  <2>1. /\ pc[w] = "unown" /\ ~putting[w] /\ todo[w] = {}
        /\ UNCHANGED <<byFQN, byName, byOwner, listed>>
    <3>1. ~(\E label, keys : label # "idle" /\ Loop(w, label, keys))
      BY <1>0, LoopEffect DEF Loop, TypeOK
    <3> QED
      BY <1>3, <3>1, PassCases DEF storeVars
  <2>2. listed[uri[w]] \subseteq clashed /\ new[w] = {} /\ x \in old[w]
    BY <1>0, <2>1 DEF IndexInv, WritersApart, ArgumentsOf
  <2>3. /\ byFQN[x] = None /\ (x \in Members => byOwner[x] = None)
        /\ x \in Exclusive(uri[w]) => Symbol(uri[w], x) \notin byName[NameOf[x]]
    BY <1>0, <2>1, <2>2 DEF LoopsOf, FqnsDone, MembersDone, NamesRemoved, Done, Later
  <2> QED
    BY <1>0, <1>1, <2>1, <2>2, <2>3, SymbolFacts DEF AgreeOn, Mirrored, Listed, Exact
<1>4. CASE Unlist(w)
  <2>1. old[w] = {} /\ listed[uri[w]] = {} /\ ~putting[w]
    <3>1. ~(\E label, keys : label # "idle" /\ Loop(w, label, keys))
      BY <1>0, LoopEffect DEF Loop, TypeOK
    <3> QED
      BY <1>0, <1>4, <3>1, UnlistCases DEF ArgumentsOf
  <2> QED
    BY <1>0, <2>1 DEF ArgumentsOf
<1>5. CASE \/ \E n \in Names : DropName(w, n)
           \/ \E y \in Fqns : DeleteFqn(w, y) \/ InsertFqn(w, y) \/ InsertName(w, y)
           \/ \E y \in Members : DeleteMember(w, y) \/ InsertMember(w, y)
  BY <1>0, <1>5, TurnEffect
<1> QED
  BY <1>2, <1>3, <1>4, <1>5 DEF Step

(* A writer's step keeps the agreement on the names outside its own.       *)
LEMMA OutsideAgrees ==
  ASSUME IndexInv, NEW w \in Writers, Step(w), NEW x \in Fqns \ clashed, AgreeOn(x),
         x \notin old[w] \cup new[w], x \notin old'[w]
  PROVE  AgreeOn(x)'
<1>0. /\ TypeOK /\ pc[w] # "idle" /\ uri[w] \in Uris /\ OutsideKept(w)
      /\ \A u \in Uris \ {uri[w]} : listed'[u] = listed[u]
  BY StepEffect, StepOutside DEF IndexInv, StoreInv
<1>1. x \notin listed[uri[w]] /\ x \notin listed'[uri[w]]
  <2>1. CASE pc[w] = "unlist" /\ pc'[w] # "idle"
    BY <2>1, StepEffect DEF IndexInv
  <2>2. CASE pc[w] = "unlist" /\ pc'[w] = "idle"
    <3>1. Unlist(w) /\ ~(\E label, keys : label # "idle" /\ Loop(w, label, keys))
      BY <1>0, <2>2, LoopEffect
         DEF Step, List, Pass, DropName, DeleteFqn, InsertFqn, InsertName, DeleteMember,
             InsertMember, Take, Loop, TypeOK
    <3> QED
      BY <1>0, <3>1, UnlistCases DEF TypeOK
  <2>3. CASE pc[w] # "unlist"
    <3>1. listed[uri[w]] \subseteq clashed
      BY <1>0, <2>3 DEF IndexInv, WritersApart
    <3>2. CASE List(w)
      BY <1>0, <3>1, <3>2 DEF List, TypeOK
    <3>3. CASE ~List(w)
      <4>1. UNCHANGED listed
        BY <2>3, <3>3 DEF Step, Unlist, Pass, DropName, DeleteFqn, InsertFqn, InsertName,
                          DeleteMember, InsertMember, storeVars
      <4> QED
        BY <3>1, <4>1
    <3> QED
      BY <3>2, <3>3
  <2> QED
    BY <2>1, <2>2, <2>3
<1>2. Mirrored(x)'
  BY <1>0 DEF AgreeOn, Mirrored, OutsideKept
<1>3. Listed(x)'
  <2>1. SUFFICES ASSUME byFQN[x] # None
                 PROVE  byFQN[x] \in byName'[NameOf[x]] /\ x \in listed'[byFQN[x].uri]
    BY <1>0 DEF Listed, OutsideKept
  <2>2. byFQN[x] \in Symbols /\ byFQN[x].fqn = x
    BY <1>0, <2>1 DEF TypeOK
  <2>3. byFQN[x] \in byName[NameOf[x]] /\ x \in listed[byFQN[x].uri]
    BY <2>1 DEF AgreeOn, Listed
  <2>4. byFQN[x].uri \in Uris \ {uri[w]} /\ byFQN[x] = Symbol(byFQN[x].uri, x)
    BY <1>1, <2>2, <2>3, SymbolFacts
  <2> QED
    BY <1>0, <2>3, <2>4 DEF OutsideKept
<1>4. ASSUME NEW u \in Uris, x \in Exclusive(u) PROVE Exact(u, x)'
  <2>1. Exact(u, x) /\ byFQN'[x] = byFQN[x]
    BY <1>0, <1>4 DEF AgreeOn, OutsideKept
  <2>2. CASE u = uri[w]
    BY <1>0, <1>1, <2>1, <2>2 DEF Exact, OutsideKept
  <2>3. CASE u # uri[w]
    BY <1>0, <2>1, <2>3 DEF Exact, OutsideKept
  <2> QED
    BY <2>2, <2>3
<1> QED
  BY <1>2, <1>3, <1>4 DEF AgreeOn

(* Every step keeps the maps in agreement.                                 *)
LEMMA AgreePreserved ==
  ASSUME IndexInv, [Next]_vars
  PROVE  MapsAgree'
<1>0. TypeOK /\ ArgumentsFit /\ StoreInv /\ WritersApart /\ MapsAgree
  BY DEF IndexInv, StoreInv
<1>1. ASSUME NEW w \in Writers, Step(w), UNCHANGED clashed PROVE MapsAgree'
  <2>1. pc[w] # "idle" /\ OthersIdle(w)
    BY <1>0, <1>1, StepEffect
  <2>2. \A v \in Writers \ {w} : InFlight(v)' = InFlight(v)
    BY <2>1 DEF InFlight, OthersIdle
  <2>3. SUFFICES ASSUME NEW x \in Fqns \ clashed, \A v \in Writers : x \notin InFlight(v)'
                 PROVE  AgreeOn(x)'
    BY <1>1 DEF MapsAgree, Settled
  <2>4. CASE x \in InFlight(w)
    <3>1. pc'[w] = "idle" /\ x \in old[w] \cup new[w]
      BY <1>0, <1>1, <2>3, <2>4, StepEffect DEF InFlight
    <3> QED
      BY <1>1, <3>1, EndAgrees
  <2>5. CASE x \notin InFlight(w)
    <3>1. AgreeOn(x)
      BY <1>0, <2>2, <2>3, <2>5 DEF MapsAgree, Settled
    <3>2. CASE x \in old[w] \cup new[w]
      <4>1. pc[w] = "unlist"
        BY <2>1, <2>5, <3>2 DEF InFlight
      <4>2. pc'[w] = "idle"
        BY <1>0, <1>1, <2>3, <3>2, <4>1, StepEffect DEF InFlight, ArgumentsFit, ArgumentsOf
      <4> QED
        BY <1>1, <3>2, <4>2, EndAgrees
    <3>3. CASE x \notin old[w] \cup new[w]
      <4>1. x \notin old'[w]
        <5>1. CASE pc'[w] = "idle"
          <6>1. Finish(w)
            BY <1>0, <1>1, <2>1, <5>1, LoopEffect, TurnEffect, UnlistCases, PassCases
               DEF Step, List, Loop, TypeOK
          <6> QED
            BY <1>0, <6>1, FinishEffect
        <5>2. CASE pc'[w] # "idle"
          BY <1>0, <1>1, <2>3, <5>2, StepEffect DEF InFlight
        <5> QED
          BY <5>1, <5>2
      <4> QED
        BY <1>1, <3>1, <3>3, <4>1, OutsideAgrees
    <3> QED
      BY <3>2, <3>3
  <2> QED
    BY <2>4, <2>5
<1>2. ASSUME NEW w \in Writers, NEW u \in Uris, PutFile(w, u) \/ RemoveFile(w, u)
      PROVE  MapsAgree'
  <2>1. PICK S \in SUBSET Declarable(u), b \in BOOLEAN : Call(w, u, S, b)
    BY <1>2, CallFits
  <2>2. /\ pc[w] = "idle" /\ pc'[w] = "unlist" /\ OthersIdle(w)
        /\ UNCHANGED <<byFQN, byName, byOwner, listed>> /\ clashed \subseteq clashed'
    BY <1>0, <2>1, CallEffect DEF Call, storeVars
  <2>3. \A v \in Writers : InFlight(v)' = InFlight(v)
    BY <2>2 DEF InFlight, OthersIdle
  <2> QED
    BY <1>0, <2>2, <2>3 DEF MapsAgree, Settled, AgreeOn, Mirrored, Listed, Exact
<1>3. CASE UNCHANGED vars
  BY <1>0, <1>3 DEF vars, storeVars, argVars, MapsAgree, Settled, AgreeOn, Mirrored, Listed,
                    Exact, InFlight
<1> QED
  BY <1>1, <1>2, <1>3 DEF Next

(* Whatever the writers do, the maps agree on every name on which calls    *)
(* never clashed and no writer is between the maps with.                   *)
THEOREM ClashInvariance == Spec => []IndexInv
<1>1. Init => IndexInv
  <2> SUFFICES ASSUME Init PROVE IndexInv
    OBVIOUS
  <2>1. WritersApart /\ LoopsDone
    BY DEF Init, WritersApart, LoopsDone
  <2>2. MapsAgree
    BY NameAssumption, SymbolFacts DEF Init, MapsAgree, AgreeOn, Mirrored, Listed, Exact
  <2> QED
    BY <2>1, <2>2, StoreInit DEF IndexInv
<1>2. IndexInv /\ [Next]_vars => IndexInv'
  <2> SUFFICES ASSUME IndexInv, [Next]_vars PROVE IndexInv'
    OBVIOUS
  <2>1. StoreInv'
    BY TypePreserved, ArgumentsPreserved DEF IndexInv, StoreInv
  <2>2. WritersApart'
    BY ApartPreserved DEF IndexInv
  <2> QED
    BY <2>1, <2>2, LoopsPreserved, AgreePreserved DEF IndexInv
<1> QED
  BY <1>1, <1>2, PTL DEF Spec

(* Names found by their full names are found by their owners and short     *)
(* names, and their files declare them, unless calls clashed on them.      *)
THEOREM FoundListed == Spec => []FoundIsListed
<1>1. IndexInv => FoundIsListed
  BY DEF IndexInv, MapsAgree, AgreeOn, Listed, Mirrored, FoundIsListed
<1> QED
  BY <1>1, ClashInvariance, PTL

(* What one file alone declares is in all the maps while it lists it, and  *)
(* in none otherwise, unless calls clashed on it.                          *)
THEOREM ExclusiveNamesExact == Spec => []ExclusiveExact
<1>1. IndexInv => ExclusiveExact
  BY DeclarableNames DEF IndexInv, MapsAgree, AgreeOn, ExclusiveExact, Exclusive
<1> QED
  BY <1>1, ClashInvariance, PTL

-----------------------------------------------------------------------------
(***************************************************************************)
(* Atomic replacement.                                                     *)
(***************************************************************************)
(* The maps with the writers finished: a name in flight has one writer,    *)
(* which decides it, unless it is clashed; every other name is as it       *)
(* stands.                                                                 *)
FinishedIs(finished, map, keys) ==
  /\ finished = [x \in keys |-> finished[x]]
  /\ \A x \in keys \cap clashed : finished[x] = None
  /\ \A x \in keys \ clashed, w \in Writers : x \in InFlight(w) =>
       finished[x] = IF x \in new[w] THEN Symbol(uri[w], x) ELSE None
  /\ \A x \in keys \ clashed : Settled(x) => finished[x] = map[x]
Past(w) == pc[w] \notin {"idle", "unlist"}
ListedIs ==
  \A u \in Uris :
    /\ \A w \in Writers : uri[w] = u /\ Past(w) => AsListed[u] = new[w] \ clashed
    /\ (\A w \in Writers : Past(w) => uri[w] # u) => AsListed[u] = listed[u] \ clashed
FinishedInv ==
  FinishedIs(AsFound, byFQN, Fqns) /\ FinishedIs(AsMember, byOwner, Members) /\ ListedIs

(* A name in flight has one writer, unless it is clashed.                  *)
LEMMA InFlightApart ==
  ASSUME WritersApart, NEW v \in Writers, NEW w \in Writers, NEW x,
         x \in InFlight(v), x \in InFlight(w), x \notin clashed
  PROVE  v = w
BY DEF WritersApart, InFlight, Touches

(* The choice of the writer of a name in flight is no choice.              *)
LEMMA FinishedMap ==
  ASSUME WritersApart, NEW map, NEW keys, DOMAIN map = keys
  PROVE  FinishedIs(AsFinished(map), map, keys)
<1>1. ASSUME NEW x \in keys \ clashed, NEW w \in Writers, x \in InFlight(w)
      PROVE  AsFinished(map)[x] = IF x \in new[w] THEN Symbol(uri[w], x) ELSE None
  <2>1. {v \in Writers : x \in InFlight(v)} = {w}
    BY <1>1, InFlightApart
  <2>2. (CHOOSE v \in {w} : TRUE) = w
    OBVIOUS
  <2> QED
    BY <2>1, <2>2 DEF AsFinished
<1>2. ASSUME NEW x \in keys \ clashed, Settled(x)
      PROVE  AsFinished(map)[x] = map[x]
  <2>1. {v \in Writers : x \in InFlight(v)} = {}
    BY <1>2 DEF Settled
  <2> QED
    BY <2>1 DEF AsFinished
<1>3. \A x \in keys \cap clashed : AsFinished(map)[x] = None
  BY DEF AsFinished
<1>4. AsFinished(map) = [x \in keys |-> AsFinished(map)[x]]
  BY DEF AsFinished
<1> QED
  BY <1>1, <1>2, <1>3, <1>4 DEF FinishedIs

(* FinishedInv says no more than that the writers are apart.               *)
LEMMA Finished == IndexInv => FinishedInv
<1> SUFFICES ASSUME IndexInv PROVE FinishedInv
  OBVIOUS
<1>0. WritersApart /\ TypeOK
  BY DEF IndexInv, StoreInv
<1>1. FinishedIs(AsFound, byFQN, Fqns) /\ FinishedIs(AsMember, byOwner, Members)
  <2>1. DOMAIN byFQN = Fqns /\ DOMAIN byOwner = Members
    BY <1>0 DEF TypeOK
  <2> QED
    BY <1>0, <2>1, FinishedMap DEF AsFound, AsMember
<1>2. ASSUME NEW u \in Uris, NEW w \in Writers, uri[w] = u, Past(w)
      PROVE  AsListed[u] = new[w] \ clashed
  <2>1. listed[u] \subseteq clashed /\ new[w] \subseteq Fqns
    BY <1>0, <1>2 DEF WritersApart, TypeOK, Past
  <2>2. \A v \in Writers : uri[v] = u => v = w \/ InFlight(v) \subseteq clashed
    BY <1>0, <1>2 DEF WritersApart, Past, InFlight, Touches
  <2>3. \A x : x \in AsListed[u] <=>
                 /\ x \in Fqns \ clashed
                 /\ \E v \in Writers : uri[v] = u /\ x \in InFlight(v) \cap new[v]
    BY <2>1 DEF AsListed
  <2>4. InFlight(w) \cap new[w] = new[w]
    BY <1>2 DEF InFlight, Past
  <2> QED
    BY <1>2, <2>1, <2>2, <2>3, <2>4
<1>3. ASSUME NEW u \in Uris, \A w \in Writers : Past(w) => uri[w] # u
      PROVE  AsListed[u] = listed[u] \ clashed
  <2>1. listed[u] \subseteq Fqns
    BY <1>0 DEF TypeOK
  <2> QED
    BY <1>3, <2>1 DEF AsListed, InFlight, Past
<1> QED
  BY <1>1, <1>2, <1>3 DEF FinishedInv, ListedIs

(* What a writer leaves under its names when it ends is what was expected  *)
(* of it.                                                                  *)
LEMMA EndValues ==
  ASSUME IndexInv, NEW w \in Writers, Step(w), pc'[w] = "idle", pc[w] # "unlist"
  PROVE  /\ listed'[uri[w]] \ clashed = new[w] \ clashed
         /\ \A x \in (old[w] \cup new[w]) \ clashed :
              LET s == IF x \in new[w] THEN Symbol(uri[w], x) ELSE None IN
                byFQN'[x] = s /\ (x \in Members => byOwner'[x] = s)
<1>0. /\ TypeOK /\ ArgumentsOf(w) /\ LoopsOf(w) /\ pc[w] # "idle" /\ uri[w] \in Uris
      /\ listed \in [Uris -> SUBSET Fqns]
  BY StepEffect DEF IndexInv, StoreInv, TypeOK, ArgumentsFit, LoopsDone
<1>1. CASE List(w)
  <2>1. pc[w] = "list" /\ UNCHANGED <<byFQN, byName, byOwner>> /\ listed'[uri[w]] = new[w]
    BY <1>0, <1>1 DEF List
  <2> QED
    BY <1>0, <2>1 DEF LoopsOf, FqnsDone, MembersDone, Done, Later
<1>2. CASE Pass(w)
  <2>1. /\ pc[w] = "unown" /\ ~putting[w] /\ todo[w] = {}
        /\ UNCHANGED <<byFQN, byName, byOwner, listed>>
    <3>1. ~(\E label, keys : label # "idle" /\ Loop(w, label, keys))
      BY <1>0, LoopEffect DEF Loop, TypeOK
    <3> QED
      BY <1>2, <3>1, PassCases DEF storeVars
  <2>2. listed[uri[w]] \subseteq clashed /\ new[w] = {}
    BY <1>0, <2>1 DEF IndexInv, WritersApart, ArgumentsOf
  <2> QED
    BY <1>0, <2>1, <2>2 DEF LoopsOf, FqnsDone, MembersDone, Done, Later
<1>3. CASE Unlist(w)
  BY <1>3 DEF Unlist
<1>4. CASE \/ \E n \in Names : DropName(w, n)
           \/ \E y \in Fqns : DeleteFqn(w, y) \/ InsertFqn(w, y) \/ InsertName(w, y)
           \/ \E y \in Members : DeleteMember(w, y) \/ InsertMember(w, y)
  BY <1>0, <1>4, TurnEffect
<1> QED
  BY <1>1, <1>2, <1>3, <1>4 DEF Step

(* A file has one list in view: its running writer's, or what it lists.    *)
LEMMA OneList ==
  ASSUME ListedIs, NEW u \in Uris
  PROVE  \/ \E v \in Writers : uri[v] = u /\ Past(v) /\ AsListed[u] = new[v] \ clashed
         \/ (\A v \in Writers : Past(v) => uri[v] # u) /\ AsListed[u] = listed[u] \ clashed
BY DEF ListedIs

(* A step after the file's entry is gone: nothing has changed once the     *)
(* writers are thought finished.                                           *)
LEMMA LaterSteps ==
  ASSUME IndexInv, IndexInv', NEW w \in Writers, Step(w), UNCHANGED clashed, pc[w] # "unlist"
  PROVE  UNCHANGED <<AsFound, AsMember, AsListed>>
<1>0. /\ TypeOK /\ StoreInv /\ WritersApart /\ FinishedInv /\ FinishedInv'
      /\ OutsideKept(w)
      /\ pc[w] # "idle" /\ uri[w] \in Uris /\ OthersIdle(w)
      /\ \A u \in Uris \ {uri[w]} : listed'[u] = listed[u]
  <2>1. FinishedInv'
    BY Finished, PTL
  <2> QED
    BY <2>1, Finished, StepEffect, StepOutside DEF IndexInv, StoreInv
<1>0a. /\ \A u \in Uris, v \in Writers : uri'[v] = u /\ Past(v)' => AsListed'[u] = new'[v] \ clashed
       /\ \A u \in Uris : (\A v \in Writers : Past(v)' => uri'[v] # u) =>
            AsListed'[u] = listed'[u] \ clashed
  BY <1>0 DEF FinishedInv, ListedIs
<1>1. \A v \in Writers \ {w} :
        /\ InFlight(v)' = InFlight(v) /\ new'[v] = new[v] /\ uri'[v] = uri[v]
        /\ Past(v)' <=> Past(v)
  BY <1>0 DEF InFlight, OthersIdle, Past
<1>2. InFlight(w) = old[w] \cup new[w] /\ Past(w)
  BY <1>0 DEF InFlight, Past
<1>3. CASE pc'[w] # "idle"
  <2>1. /\ InFlight(w)' = InFlight(w) /\ new'[w] = new[w] /\ uri'[w] = uri[w]
        /\ Past(w)'
    BY <1>0, <1>3, StepEffect DEF InFlight, Past
  <2>2. \A v \in Writers :
          /\ InFlight(v)' = InFlight(v) /\ new'[v] = new[v] /\ uri'[v] = uri[v]
          /\ Past(v)' <=> Past(v)
    BY <1>1, <1>2, <2>1
  <2>3. \A x : Settled(x)' <=> Settled(x)
    BY <2>2 DEF Settled
  <2>4. \A x \in Fqns : Settled(x) =>
          byFQN'[x] = byFQN[x] /\ (x \in Members => byOwner'[x] = byOwner[x])
    BY <1>0, <1>2 DEF Settled, OutsideKept
  <2>5. \A x \in Fqns : AsFound'[x] = AsFound[x]
    BY <1>0, <2>2, <2>3, <2>4 DEF FinishedInv, FinishedIs, Settled
  <2>6. \A x \in Members : AsMember'[x] = AsMember[x]
    BY <1>0, <2>2, <2>3, <2>4, MemberAssumption DEF FinishedInv, FinishedIs, Settled
  <2>7. ASSUME NEW u \in Uris PROVE AsListed'[u] = AsListed[u]
    <3>1. CASE \E v \in Writers : uri[v] = u /\ Past(v) /\ AsListed[u] = new[v] \ clashed
      BY <1>0a, <2>2, <3>1
    <3>2. CASE (\A v \in Writers : Past(v) => uri[v] # u) /\ AsListed[u] = listed[u] \ clashed
      BY <1>0, <1>0a, <1>2, <2>2, <3>2
    <3> QED
      BY <1>0, <3>1, <3>2, OneList DEF FinishedInv
  <2> QED
    BY <1>0, <2>5, <2>6, <2>7 DEF FinishedInv, FinishedIs, AsListed
<1>4. CASE pc'[w] = "idle"
  <2>1. /\ InFlight(w)' = {} /\ ~Past(w)'
        /\ listed'[uri[w]] \ clashed = new[w] \ clashed
        /\ \A x \in InFlight(w) \ clashed :
             LET s == IF x \in new[w] THEN Symbol(uri[w], x) ELSE None IN
               byFQN'[x] = s /\ (x \in Members => byOwner'[x] = s)
    BY <1>2, <1>4, EndValues DEF InFlight, Past
  <2>2. \A x \in InFlight(w) \ clashed : Settled(x)'
    BY <1>0, <1>1, <2>1, InFlightApart DEF Settled
  <2>3. \A x \in Fqns \ InFlight(w) :
          /\ Settled(x)' <=> Settled(x)
          /\ byFQN'[x] = byFQN[x] /\ (x \in Members => byOwner'[x] = byOwner[x])
    BY <1>0, <1>1, <1>2, <2>1 DEF Settled, OutsideKept
  <2>4. \A x \in Fqns : AsFound'[x] = AsFound[x]
    <3>1. ASSUME NEW x \in Fqns \ clashed PROVE AsFound'[x] = AsFound[x]
      <4>1. CASE x \in InFlight(w)
        BY <1>0, <2>1, <2>2, <4>1 DEF FinishedInv, FinishedIs
      <4>2. CASE x \notin InFlight(w)
        BY <1>0, <1>1, <2>3, <4>2 DEF FinishedInv, FinishedIs, Settled
      <4> QED
        BY <4>1, <4>2
    <3> QED
      BY <1>0, <3>1 DEF FinishedInv, FinishedIs
  <2>5. \A x \in Members : AsMember'[x] = AsMember[x]
    <3>1. ASSUME NEW x \in Members \ clashed PROVE AsMember'[x] = AsMember[x]
      <4>1. CASE x \in InFlight(w)
        BY <1>0, <2>1, <2>2, <4>1 DEF FinishedInv, FinishedIs
      <4>2. CASE x \notin InFlight(w)
        BY <1>0, <1>1, <2>3, <3>1, <4>2, MemberAssumption DEF FinishedInv, FinishedIs, Settled
      <4> QED
        BY <4>1, <4>2
    <3> QED
      BY <1>0, <3>1 DEF FinishedInv, FinishedIs
  <2>6. ASSUME NEW u \in Uris PROVE AsListed'[u] = AsListed[u]
    <3>1. CASE \E v \in Writers \ {w} : uri[v] = u /\ Past(v)
      <4>1. PICK v \in Writers \ {w} : uri[v] = u /\ Past(v)
        BY <3>1
      <4>2. AsListed[u] = new[v] \ clashed
        BY <1>0, <4>1 DEF FinishedInv, ListedIs
      <4>3. uri'[v] = u /\ Past(v)' /\ new'[v] = new[v]
        BY <1>1, <4>1
      <4> QED
        BY <1>0a, <4>2, <4>3
    <3>2. CASE \A v \in Writers \ {w} : Past(v) => uri[v] # u
      <4>1. AsListed'[u] = listed'[u] \ clashed
        BY <1>0, <1>1, <2>1, <3>2 DEF FinishedInv, ListedIs
      <4>2. CASE u = uri[w]
        BY <1>0, <1>2, <2>1, <4>1, <4>2 DEF FinishedInv, ListedIs
      <4>3. CASE u # uri[w]
        BY <1>0, <3>2, <4>1, <4>3 DEF FinishedInv, ListedIs
      <4> QED
        BY <4>2, <4>3
    <3> QED
      BY <3>1, <3>2
  <2> QED
    BY <1>0, <2>4, <2>5, <2>6 DEF FinishedInv, FinishedIs, AsListed
<1> QED
  BY <1>3, <1>4

(* Taking the file's entry out replaces its symbols, or, where there is    *)
(* nothing to remove and nothing to put, leaves all as it is.              *)
LEMMA UnlistReplaces ==
  ASSUME IndexInv, IndexInv', NEW w \in Writers, Step(w), UNCHANGED clashed, pc[w] = "unlist"
  PROVE  Atomic!Replace(uri[w], new[w] \ clashed)
<1>0. /\ TypeOK /\ StoreInv /\ WritersApart /\ FinishedInv /\ FinishedInv'
      /\ OutsideKept(w) /\ old[w] = {} /\ new[w] \subseteq Fqns
      /\ uri[w] \in Uris /\ OthersIdle(w)
      /\ \A u \in Uris \ {uri[w]} : listed'[u] = listed[u]
  <2>1. FinishedInv'
    BY Finished, PTL
  <2>2. new[w] \subseteq Fqns /\ old[w] = {}
    BY DEF IndexInv, StoreInv, TypeOK, ArgumentsFit, ArgumentsOf
  <2> QED
    BY <2>1, <2>2, Finished, StepEffect, StepOutside DEF IndexInv, StoreInv
<1>0a. /\ \A u \in Uris, v \in Writers : uri'[v] = u /\ Past(v)' => AsListed'[u] = new'[v] \ clashed
       /\ \A u \in Uris : (\A v \in Writers : Past(v)' => uri'[v] # u) =>
            AsListed'[u] = listed'[u] \ clashed
  BY <1>0 DEF FinishedInv, ListedIs
<1>1. \A v \in Writers \ {w} :
        /\ InFlight(v)' = InFlight(v) /\ new'[v] = new[v] /\ uri'[v] = uri[v]
        /\ Past(v)' <=> Past(v)
  BY <1>0 DEF InFlight, OthersIdle, Past
<1>2. InFlight(w) = {} /\ ~Past(w)
  BY DEF InFlight, Past
<1>3. \A v \in Writers \ {w} :
        uri[v] = uri[w] /\ Past(v) => new[v] \cup new[w] \cup listed[uri[w]] \subseteq clashed
  <2>1. new[w] \cup listed[uri[w]] \subseteq Touches(w)
    BY <1>0, SymbolAssumption DEF Touches
  <2>2. \A v \in Writers : new[v] \subseteq Touches(v)
    BY DEF Touches
  <2> QED
    BY <1>0, <2>1, <2>2 DEF WritersApart, Past
<1>4. AsListed[uri[w]] = listed[uri[w]] \ clashed
  <2>1. CASE \E v \in Writers \ {w} : uri[v] = uri[w] /\ Past(v)
    <3>1. PICK v \in Writers \ {w} : uri[v] = uri[w] /\ Past(v)
      BY <2>1
    <3>2. AsListed[uri[w]] = new[v] \ clashed
      BY <1>0, <3>1 DEF FinishedInv, ListedIs
    <3> QED
      BY <1>3, <3>1, <3>2
  <2>2. CASE \A v \in Writers \ {w} : Past(v) => uri[v] # uri[w]
    BY <1>0, <1>2, <2>2 DEF FinishedInv, ListedIs
  <2> QED
    BY <2>1, <2>2
<1>5. /\ InFlight(w)' = listed[uri[w]] \cup new[w]
      /\ InFlight(w)' # {} => new'[w] = new[w] /\ uri'[w] = uri[w]
      /\ listed'[uri[w]] = {}
      /\ pc'[w] # "idle" => new'[w] = new[w] /\ uri'[w] = uri[w] /\ Past(w)'
      /\ pc'[w] = "idle" => new[w] = {} /\ ~Past(w)'
  <2>1. CASE pc'[w] = "idle"
    <3>1. Unlist(w) /\ ~(\E label, keys : label # "idle" /\ Loop(w, label, keys))
      BY <1>0, <2>1, LoopEffect
         DEF Step, List, Pass, DropName, DeleteFqn, InsertFqn, InsertName, DeleteMember,
             InsertMember, Take, Loop, TypeOK
    <3>2. listed[uri[w]] = {} /\ ~putting[w] /\ listed'[uri[w]] = {}
      BY <1>0, <3>1, UnlistCases DEF TypeOK
    <3>3. new[w] = {}
      BY <3>2 DEF IndexInv, StoreInv, ArgumentsFit, ArgumentsOf
    <3> QED
      BY <2>1, <3>2, <3>3 DEF InFlight, Past
  <2>2. CASE pc'[w] # "idle"
    BY <2>2, StepEffect, <1>0 DEF InFlight, Past
  <2> QED
    BY <2>1, <2>2
<1>6. \A v \in Writers \ {w}, x \in (listed[uri[w]] \cup new[w]) \ clashed : x \notin InFlight(v)
  <2>1. listed[uri[w]] \cup new[w] \subseteq Touches(w)
    BY <1>0, SymbolAssumption DEF Touches
  <2>2. \A v \in Writers \ {w} : pc[v] # "idle" => Touches(v) \cap Touches(w) \subseteq clashed
    BY <1>0 DEF WritersApart
  <2>3. \A v \in Writers : InFlight(v) \subseteq Touches(v) /\ (pc[v] = "idle" => InFlight(v) = {})
    BY DEF InFlight, Touches
  <2> QED
    BY <2>1, <2>2, <2>3
<1>7. \A x \in Fqns \ (listed[uri[w]] \cup new[w]) :
        /\ Settled(x)' <=> Settled(x)
        /\ byFQN'[x] = byFQN[x] /\ (x \in Members => byOwner'[x] = byOwner[x])
  BY <1>0, <1>1, <1>2, <1>5 DEF Settled, OutsideKept
<1> DEFINE As(x, before) == IF x \in new[w] \ clashed THEN [uri |-> uri[w], fqn |-> x]
                            ELSE IF x \in AsListed[uri[w]] THEN None ELSE before
<1>8. \A x \in Fqns : AsFound'[x] = As(x, AsFound[x])
  <2>1. ASSUME NEW x \in Fqns \ clashed PROVE AsFound'[x] = As(x, AsFound[x])
    <3>1. CASE x \in listed[uri[w]] \cup new[w]
      BY <1>0, <1>4, <1>5, <2>1, <3>1 DEF FinishedInv, FinishedIs, Symbol
    <3>2. CASE x \notin listed[uri[w]] \cup new[w]
      BY <1>0, <1>1, <1>2, <1>4, <1>5, <1>7, <2>1, <3>2 DEF FinishedInv, FinishedIs, Settled
    <3> QED
      BY <3>1, <3>2
  <2> QED
    BY <1>0, <1>4, <2>1 DEF FinishedInv, FinishedIs
<1>9. \A x \in Members : AsMember'[x] = As(x, AsMember[x])
  <2>1. ASSUME NEW x \in Members \ clashed PROVE AsMember'[x] = As(x, AsMember[x])
    <3>1. CASE x \in listed[uri[w]] \cup new[w]
      BY <1>0, <1>4, <1>5, <2>1, <3>1 DEF FinishedInv, FinishedIs, Symbol
    <3>2. CASE x \notin listed[uri[w]] \cup new[w]
      BY <1>0, <1>1, <1>2, <1>4, <1>5, <1>7, <2>1, <3>2, MemberAssumption
         DEF FinishedInv, FinishedIs, Settled
    <3> QED
      BY <3>1, <3>2
  <2> QED
    BY <1>0, <1>4, <2>1 DEF FinishedInv, FinishedIs
<1>10. \A u \in Uris : AsListed'[u] = IF u = uri[w] THEN new[w] \ clashed ELSE AsListed[u]
  <2>1. AsListed'[uri[w]] = new[w] \ clashed
    <3>1. CASE pc'[w] # "idle"
      BY <1>0, <1>5, <3>1 DEF FinishedInv, ListedIs
    <3>2. CASE pc'[w] = "idle" /\ \E v \in Writers \ {w} : uri[v] = uri[w] /\ Past(v)
      <4>1. PICK v \in Writers \ {w} : uri[v] = uri[w] /\ Past(v)
        BY <3>2
      <4>2. AsListed'[uri[w]] = new[v] \ clashed
        BY <1>0, <1>1, <4>1 DEF FinishedInv, ListedIs
      <4> QED
        BY <1>3, <4>1, <4>2
    <3>3. CASE pc'[w] = "idle" /\ \A v \in Writers \ {w} : Past(v) => uri[v] # uri[w]
      <4>1. AsListed'[uri[w]] = listed'[uri[w]] \ clashed
        BY <1>0, <1>1, <1>5, <3>3 DEF FinishedInv, ListedIs
      <4> QED
        BY <1>5, <3>3, <4>1
    <3> QED
      BY <3>1, <3>2, <3>3
  <2>2. ASSUME NEW u \in Uris \ {uri[w]} PROVE AsListed'[u] = AsListed[u]
    <3>1. Past(w)' => uri'[w] # u
      BY <1>5, <2>2
    <3>2. CASE \E v \in Writers : uri[v] = u /\ Past(v)
      <4>1. PICK v \in Writers \ {w} : uri[v] = u /\ Past(v)
        BY <1>2, <3>2
      <4>2. AsListed[u] = new[v] \ clashed
        BY <1>0, <4>1 DEF FinishedInv, ListedIs
      <4>3. uri'[v] = u /\ Past(v)' /\ new'[v] = new[v]
        BY <1>1, <4>1
      <4> QED
        BY <1>0a, <4>2, <4>3
    <3>3. CASE \A v \in Writers : Past(v) => uri[v] # u
      <4>1. \A v \in Writers : Past(v)' => uri'[v] # u
        BY <1>1, <3>1, <3>3
      <4>2. AsListed[u] = listed[u] \ clashed
        BY <1>0, <3>3 DEF FinishedInv, ListedIs
      <4> QED
        BY <1>0, <1>0a, <2>2, <4>1, <4>2
    <3> QED
      BY <3>2, <3>3
  <2> QED
    BY <2>1, <2>2
<1>11. DOMAIN AsFound = Fqns /\ DOMAIN AsMember = Members
  BY <1>0 DEF FinishedInv, FinishedIs
<1>12. AsFound' = Atomic!Replaced(AsFound, uri[w], new[w] \ clashed)
  <2>1. AsFound' = [x \in Fqns |-> AsFound'[x]]
    BY <1>0 DEF FinishedInv, FinishedIs
  <2> QED
    BY <1>8, <1>11, <2>1 DEF Atomic!Replaced
<1>13. AsMember' = Atomic!Replaced(AsMember, uri[w], new[w] \ clashed)
  <2>1. AsMember' = [x \in Members |-> AsMember'[x]]
    BY <1>0 DEF FinishedInv, FinishedIs
  <2> QED
    BY <1>9, <1>11, <2>1 DEF Atomic!Replaced
<1>14. AsListed' = [AsListed EXCEPT ![uri[w]] = new[w] \ clashed]
  <2>1. AsListed = [u \in Uris |-> AsListed[u]] /\ AsListed' = [u \in Uris |-> AsListed'[u]]
    BY DEF AsListed
  <2> QED
    BY <1>0, <1>10, <2>1
<1> QED
  BY <1>12, <1>13, <1>14 DEF Atomic!Replace

(* A call loses the names on which it clashes, and changes nothing else.   *)
LEMMA CallClashes ==
  ASSUME IndexInv, IndexInv', NEW w \in Writers, NEW u \in Uris, NEW S, NEW b,
         Call(w, u, S, b)
  PROVE  Atomic!Clash(Clashes(u, S))
<1>1. /\ pc[w] = "idle" /\ pc'[w] = "unlist" /\ OthersIdle(w)
      /\ UNCHANGED <<byFQN, byName, byOwner, listed>>
      /\ clashed' = clashed \cup Clashes(u, S) /\ Clashes(u, S) \subseteq Fqns
  BY CallEffect DEF Call, storeVars, IndexInv, StoreInv, Clashes
<1>2. \A v \in Writers :
        /\ InFlight(v)' = InFlight(v)
        /\ InFlight(v) # {} => new'[v] = new[v] /\ uri'[v] = uri[v]
  BY <1>1 DEF InFlight, OthersIdle
<1>3. \A x : Settled(x)' <=> Settled(x)
  BY <1>2 DEF Settled
<1>4. FinishedInv /\ FinishedInv'
  BY Finished, PTL
<1>5. \A x \in Fqns : AsFound'[x] = IF x \in Clashes(u, S) THEN None ELSE AsFound[x]
  BY <1>1, <1>2, <1>3, <1>4 DEF FinishedInv, FinishedIs, Settled
<1>6. \A x \in Members : AsMember'[x] = IF x \in Clashes(u, S) THEN None ELSE AsMember[x]
  BY <1>1, <1>2, <1>3, <1>4, MemberAssumption DEF FinishedInv, FinishedIs, Settled
<1>7. AsFound' = Atomic!Without(AsFound, Clashes(u, S))
  BY <1>4, <1>5 DEF FinishedInv, FinishedIs, Atomic!Without
<1>8. AsMember' = Atomic!Without(AsMember, Clashes(u, S))
  BY <1>4, <1>6 DEF FinishedInv, FinishedIs, Atomic!Without
<1>9. AsListed' = [v \in Uris |-> AsListed[v] \ Clashes(u, S)]
  <2>1. \A v \in Uris : AsListed'[v] = AsListed[v] \ Clashes(u, S)
    BY <1>1, <1>2 DEF AsListed
  <2>2. AsListed' = [v \in Uris |-> AsListed'[v]]
    BY DEF AsListed
  <2> QED
    BY <2>1, <2>2
<1> QED
  BY <1>1, <1>7, <1>8, <1>9 DEF Atomic!Clash

(* Every step replaces the symbols of one file, clashes, or does neither.  *)
LEMMA StepReplaces ==
  ASSUME IndexInv, IndexInv', [Next]_vars
  PROVE  [Atomic!Next]_(Atomic!vars)
<1>1. ASSUME NEW w \in Writers, Step(w), UNCHANGED clashed PROVE [Atomic!Next]_(Atomic!vars)
  <2>1. CASE pc[w] = "unlist"
    <3>1. uri[w] \in Uris /\ new[w] \ clashed \in SUBSET Fqns
      BY <1>1, StepEffect DEF IndexInv, StoreInv, TypeOK
    <3> QED
      BY <1>1, <2>1, <3>1, UnlistReplaces DEF Atomic!Next
  <2>2. CASE pc[w] # "unlist"
    BY <1>1, <2>2, LaterSteps DEF Atomic!vars
  <2> QED
    BY <2>1, <2>2
<1>2. ASSUME NEW w \in Writers, NEW u \in Uris, PutFile(w, u) \/ RemoveFile(w, u)
      PROVE  [Atomic!Next]_(Atomic!vars)
  <2>1. PICK S \in SUBSET Declarable(u), b \in BOOLEAN : Call(w, u, S, b)
    BY <1>2, CallFits
  <2>2. Clashes(u, S) \in SUBSET Fqns
    BY DEF Clashes
  <2> QED
    BY <2>1, <2>2, CallClashes DEF Atomic!Next
<1>3. CASE UNCHANGED vars
  BY <1>3 DEF vars, storeVars, argVars, Atomic!vars, AsFound, AsMember, AsListed, AsFinished,
              InFlight
<1> QED
  BY <1>1, <1>2, <1>3 DEF Next

(* Writers replace the symbols of each file in one step, but for the names *)
(* on which their calls clash.                                             *)
THEOREM AtomicReplacement == Spec => ReplacesAtomically
<1>1. Init => Atomic!Init
  <2> SUFFICES ASSUME Init PROVE Atomic!Init
    OBVIOUS
  <2>1. \A w \in Writers : InFlight(w) = {}
    BY DEF Init, InFlight
  <2>2. AsFound = [x \in Fqns |-> None] /\ AsMember = [x \in Members |-> None]
    BY <2>1 DEF Init, AsFound, AsMember, AsFinished
  <2>3. AsListed = [u \in Uris |-> {}] /\ clashed = {}
    BY <2>1 DEF Init, AsListed
  <2> QED
    BY <2>2, <2>3 DEF Atomic!Init
<1>2. IndexInv /\ IndexInv' /\ [Next]_vars => [Atomic!Next]_(Atomic!vars)
  BY StepReplaces
<1> QED
  BY <1>1, <1>2, ClashInvariance, PTL DEF Spec, ReplacesAtomically, Atomic!Spec
=============================================================================
