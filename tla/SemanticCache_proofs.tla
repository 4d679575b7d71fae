------------------------- MODULE SemanticCache_proofs -------------------------
(***************************************************************************)
(* That a hit of the document cache is current: the steps of the index and *)
(* the analyses of SemanticIndex, for the files the project never had a    *)
(* declaration of from another file too.                                   *)
(***************************************************************************)
EXTENDS SemanticIndex_proofs

(***************************************************************************)
(* What names and parents a set of declarations reaches.                   *)
(***************************************************************************)

(* A lineage holds what it starts from and the parents of what it names.   *)
LEMMA LineageCloses ==
  ASSUME NEW D \in SUBSET Declarations, NEW S \in SUBSET Names
  PROVE  /\ S \subseteq Lineage(D, S) /\ Lineage(D, S) \subseteq Names
         /\ Closed(D, Lineage(D, S))
<1>1. S \subseteq Lineage(D, S) /\ Lineage(D, S) \subseteq Names
  BY DEF Lineage
<1>2. ASSUME NEW d \in D, d.name \in Lineage(D, S), d.parent # None
      PROVE  d.parent \in Lineage(D, S)
  <2>1. d.parent \in Names
    BY <1>2, TextAssumption
  <2>2. ASSUME NEW T \in SUBSET Names, S \subseteq T, Closed(D, T) PROVE d.parent \in T
    <3>1. d.name \in T
      BY <1>2, <2>2 DEF Lineage
    <3> QED
      BY <1>2, <2>2, <3>1 DEF Closed
  <2> QED
    BY <2>1, <2>2 DEF Lineage
<1> QED
  BY <1>1, <1>2 DEF Closed

(* And nothing that a closed set does not.                                 *)
LEMMA LineageLeast ==
  ASSUME NEW D, NEW S, NEW T \in SUBSET Names, S \subseteq T, Closed(D, T)
  PROVE  Lineage(D, S) \subseteq T
BY DEF Lineage

(* Declarations that agree on a closed set of names reach the same from it. *)
LEMMA LineageWithin ==
  ASSUME NEW A \in SUBSET Declarations, NEW B \in SUBSET Declarations,
         NEW K \in SUBSET Names, NEW S \in SUBSET K, Closed(A, K),
         \A d \in B : d.name \in K => d \in A
  PROVE  Lineage(B, S) \subseteq Lineage(A, S)
<1>1. Lineage(A, S) \subseteq K
  BY LineageLeast
<1>2. S \subseteq Lineage(A, S) /\ Lineage(A, S) \subseteq Names /\ Closed(A, Lineage(A, S))
  BY LineageCloses
<1>3. Closed(B, Lineage(A, S))
  BY <1>1, <1>2 DEF Closed
<1> QED
  BY <1>2, <1>3, LineageLeast

(* What a text would see of declarations D.                                *)
Seen(D, t) == {d \in D : d.name \in Lineage(D, Mentions[t])}

(* It sees the same of declarations that agree on all it can reach.        *)
LEMMA SeenAgree ==
  ASSUME NEW A \in SUBSET Declarations, NEW B \in SUBSET Declarations, NEW t \in Texts,
         NEW K \in SUBSET Names, Mentions[t] \subseteq K, Closed(A, K), Closed(B, K),
         \A d \in A \cup B : d.name \in K => d \in A \cap B
  PROVE  Seen(A, t) = Seen(B, t)
<1> DEFINE S == Mentions[t]
<1>1. Lineage(B, S) \subseteq Lineage(A, S) /\ Lineage(A, S) \subseteq Lineage(B, S)
  BY LineageWithin
<1>2. Lineage(A, S) \subseteq K
  BY LineageLeast
<1> QED
  BY <1>1, <1>2 DEF Seen

(***************************************************************************)
(* Projects, and what a change of one of their files means to a text over  *)
(* another.                                                                *)
(***************************************************************************)

(* A project declares what a file does and what the others do.             *)
LEMMA DeclaredParts ==
  ASSUME NEW p \in Contents, NEW f \in Files
  PROVE  /\ Declared(p) = Own(p[f]) \cup Others(p, f)
         /\ Own(p[f]) \subseteq Declarations /\ Others(p, f) \subseteq Declarations
         /\ Declared(p) \subseteq Declarations
<1>1. \A g \in Files : p[g] \in TextOrNone
  BY DEF Contents
<1>2. \A g \in Files : Own(p[g]) \subseteq Declarations
  BY <1>1 DEF Own, Declarations, TextOrNone
<1>3. Declared(p) = Own(p[f]) \cup Others(p, f)
  BY DEF Declared, Others
<1>4. Others(p, f) \subseteq Declarations
  BY <1>2 DEF Others
<1> QED
  BY <1>2, <1>3, <1>4

(* With a text over its file.                                              *)
LEMMA DeclaredOver ==
  ASSUME NEW p \in Contents, NEW f \in Files, NEW t \in Texts
  PROVE  /\ [p EXCEPT ![f] = t] \in Contents
         /\ Declared([p EXCEPT ![f] = t]) = Exports[t] \cup Others(p, f)
<1> DEFINE q == [p EXCEPT ![f] = t]
<1>1. q \in Contents /\ q[f] = t
  BY DEF Contents, TextOrNone
<1>2. \A g \in Files \ {f} : q[g] = p[g]
  BY DEF Contents
<1>3. Others(q, f) = Others(p, f)
  BY <1>2 DEF Others
<1>4. Own(q[f]) = Exports[t]
  BY <1>1, TextAssumption DEF Own
<1> HIDE DEF q
<1>5. Declared(q) = Own(q[f]) \cup Others(q, f)
  BY <1>1, DeclaredParts
<1> QED
  BY <1>1, <1>3, <1>4, <1>5 DEF q

(* Facts are what a text sees of what the project declares.                *)
LEMMA FactsSeen == \A p, t : Facts(p, t) = Seen(Declared(p), t)
BY DEF Facts, Seen

(* A text keeps its facts when another file changes, unless it mentions a  *)
(* name the library reports: what the project has of the file itself hides *)
(* no declaration of another.                                              *)
LEMMA Unaffected ==
  ASSUME NEW p \in Contents, NEW q \in Contents, NEW f \in Files, p[f] = q[f],
         Own(p[f]) \cap Others(p, f) = {}, Own(q[f]) \cap Others(q, f) = {}, NEW t \in Texts,
         DependencyNames(p, q) \cap Mentions[t] = {}
  PROVE  Facts([p EXCEPT ![f] = t], t) = Facts([q EXCEPT ![f] = t], t)
<1> DEFINE D == Declared(p)  E == Declared(q)
           changed == {d.name : d \in (D \ E) \cup (E \ D)}
           K == UNION {Lineage(D, {m}) : m \in Mentions[t]}
           A == Exports[t] \cup Others(p, f)
           B == Exports[t] \cup Others(q, f)
<1>1. /\ D = Own(p[f]) \cup Others(p, f) /\ E = Own(p[f]) \cup Others(q, f)
      /\ D \subseteq Declarations /\ E \subseteq Declarations
  BY DeclaredParts
<1>2. Mentions[t] \subseteq Names
  BY TextAssumption
<1>3. \A m \in Mentions[t] : m \in Lineage(D, {m}) /\ Lineage(D, {m}) \subseteq Names
                             /\ Closed(D, Lineage(D, {m}))
  BY <1>1, <1>2, LineageCloses
<1>4. K \subseteq Names /\ Mentions[t] \subseteq K
  BY <1>3
<1>5. Closed(D, K)
  <2> HIDE DEF D
  <2> QED
    BY <1>3 DEF Closed
<1>6. K \cap changed = {}
  <2>1. \A m \in Mentions[t] : (Lineage(D, {m}) \cup Lineage(E, {m})) \cap changed = {}
    BY <1>2 DEF DependencyNames
  <2> HIDE DEF D, E, changed
  <2> QED
    BY <2>1
<1>7. \A d \in D \cup E : d.name \in K => d \in D \cap E
  <2> HIDE DEF D, E, K
  <2> QED
    BY <1>6
<1>8. Own(p[f]) \cap Others(p, f) = {} /\ Own(p[f]) \cap Others(q, f) = {}
  OBVIOUS
<1>9. \A d \in Others(p, f) \cup Others(q, f) :
        d.name \in K => d \in Others(p, f) \cap Others(q, f)
  <2> HIDE DEF D, E, K
  <2> QED
    BY <1>1, <1>7, <1>8
<1>10. \A d \in Exports[t] : {d.name, d.parent} \ {None} \subseteq K
  <2> HIDE DEF K
  <2> QED
    BY <1>4, TextAssumption
<1>11. A \subseteq Declarations /\ B \subseteq Declarations
  BY DeclaredParts DEF Declarations
<1>12. Closed(A, K) /\ Closed(B, K)
  <2> HIDE DEF D, E, K
  <2>1. \A d \in Others(p, f) \cup Others(q, f) : d.name \in K => d \in D
    BY <1>1, <1>7
  <2> QED
    BY <1>5, <1>10, <2>1 DEF Closed
<1>13. Seen(A, t) = Seen(B, t)
  <2>1. \A d \in A \cup B : d.name \in K => d \in A \cap B
    <3> HIDE DEF K
    <3> QED
      BY <1>9
  <2> HIDE DEF A, B, K
  <2> QED
    BY <1>4, <1>11, <1>12, <2>1, SeenAgree
<1>14. Declared([p EXCEPT ![f] = t]) = A /\ Declared([q EXCEPT ![f] = t]) = B
  BY DeclaredOver
<1> QED
  BY <1>13, <1>14, FactsSeen

(***************************************************************************)
(* The steps.                                                              *)
(***************************************************************************)
Typed == Contained /\ WritersTyped /\ CacheTyped /\ Ring /\ LastHits

(* What every step but those of the cache leaves of the cache.             *)
KeepCache == UNCHANGED <<cacheVars, view>>
CacheStep ==
  \/ \E a \in Analysts :
       \/ \E f \in Cached : \E t \in TextsOf[f] : Snapshot(a, f, t)
       \/ StoreParse(a) \/ TakeProject(a) \/ Lookup(a) \/ StoreFacts(a)
  \/ \E f \in Cached : Forget(f)
  \/ NewRegistry

(* Those of the cache leave the index.                                     *)
LEMMA CacheStepsKeepIndex == CacheStep => KeepIndex
BY DEF CacheStep, Snapshot, StoreParse, TakeProject, Lookup, StoreFacts, Forget, NewRegistry

(* The others leave the cache.                                             *)
LEMMA StepKinds ==
  ASSUME [Next]_vars
  PROVE  CacheStep \/ KeepCache
<1>1. ASSUME NEW w \in Writers, NEW f \in Files,
             RemoveDocument(w, f) \/ \E t \in TextsOf[f] : IndexDocument(w, f, t)
      PROVE  KeepCache
  BY <1>1 DEF RemoveDocument, IndexDocument, Begin, Skip, KeepCache
<1>2. CASE \/ \E w \in Writers : StoreSymbols(w) \/ PutProjectNodes(w)
           \/ ListFiles \/ ReplaceWorkspaceProjectNodes \/ SetStubs
           \/ \E f \in Files : IndexFile(f)
           \/ UNCHANGED vars
  BY <1>2 DEF StoreSymbols, PutProjectNodes, ListFiles, IndexFile,
              ReplaceWorkspaceProjectNodes, SetStubs, vars, KeepCache
<1> QED
  BY <1>1, <1>2 DEF Next, CacheStep

(* Each step that gives the project other declarations notes the files     *)
(* that are doubled then.                                                  *)
LEMMA OncePreserved ==
  ASSUME OnceDeclared, [Next]_vars
  PROVE  doubled \subseteq doubled' /\ OnceDeclared'
<1>1. ASSUME NEW p, Replace(p)
      PROVE  doubled \subseteq doubled' /\ OnceDeclared'
  BY <1>1 DEF Replace, OnceDeclared
<1>2. CASE UNCHANGED indexVars
  BY <1>2 DEF indexVars, OnceDeclared
<1>3. ASSUME NEW w \in Writers, PutProjectNodes(w)
      PROVE  doubled \subseteq doubled' /\ OnceDeclared'
  BY <1>1, <1>3 DEF PutProjectNodes, RebuildFiles
<1>4. CASE ReplaceWorkspaceProjectNodes \/ SetStubs
  BY <1>1, <1>4 DEF ReplaceWorkspaceProjectNodes, SetStubs, Rebuild
<1> QED
  BY <1>2, <1>3, <1>4, Steps
     DEF IndexStep, WriterStep, Begin, Skip, StoreSymbols, ListFiles, IndexFile, KeepIndex

(* A text's facts stay what they are while its revision does: the change   *)
(* recordSemanticChangesLocked was told of names nothing in it.            *)
LEMMA FactsKept ==
  ASSUME Typed, Typed', OnceDeclared, [Next]_vars,
         NEW f \in Files \ doubled', NEW t \in Texts, ~Outdated(t)
  PROVE  Facts(Overlaid(f, t), t)' = Facts(Overlaid(f, t), t)
<1> DEFINE Goal == Facts(Overlaid(f, t), t)' = Facts(Overlaid(f, t), t)
<1> USE DEF Typed
<1>1. ASSUME NEW w \in Writers, PutProjectNodes(w) PROVE Goal
  <2>1. /\ file[w] \in Files /\ text[w] \in TextOrNone
        /\ project' = [project EXCEPT ![file[w]] = text[w]]
        /\ project \in Contents /\ project' \in Contents
    BY <1>1 DEF PutProjectNodes, WritersTyped, RebuildFiles, Replace, Contained
  <2>2. CASE f = file[w]
    <3>1. [project' EXCEPT ![f] = t] = [project EXCEPT ![f] = t]
      BY <2>1, <2>2 DEF Contents
    <3> QED
      BY <3>1 DEF Overlaid
  <2>3. CASE f # file[w]
    <3>1. project'[f] = project[f]
      BY <2>1, <2>3 DEF Contents
    <3>2. DependencyNames(project, project') \cap Mentions[t] = {}
      <4>1. PICK S \in SUBSET Names : S = DependencyNames(project, project')
        BY NamesReported
      <4>2. CASE S = {}
        BY <4>1, <4>2
      <4>3. ASSUME NEW complete \in BOOLEAN, RecordChange(S, complete)
            PROVE  complete /\ S \cap Mentions[t] = {}
        BY <4>3, RecordedRing
      <4> QED
        BY <1>1, <4>1, <4>2, <4>3 DEF PutProjectNodes, RebuildFiles
    <3>3. ASSUME NEW p \in Contents, NEW q \in Contents, p = project, q = project'
          PROVE  Facts([p EXCEPT ![f] = t], t) = Facts([q EXCEPT ![f] = t], t)
      <4>1. Own(p[f]) \cap Others(p, f) = {} /\ Own(q[f]) \cap Others(q, f) = {}
        BY <3>3, OncePreserved DEF OnceDeclared
      <4>2. p[f] = q[f]
        BY <3>1, <3>3
      <4>3. DependencyNames(p, q) \cap Mentions[t] = {}
        BY <3>2, <3>3
      <4> QED
        BY <4>1, <4>2, <4>3, Unaffected
    <3> QED
      BY <2>1, <3>3 DEF Overlaid
  <2> QED
    BY <2>2, <2>3
<1>2. ASSUME RecordChange({}, FALSE) PROVE FALSE
  BY <1>2, RecordedRing
<1>3. CASE ReplaceWorkspaceProjectNodes
  BY <1>2, <1>3 DEF ReplaceWorkspaceProjectNodes, Rebuild
<1>4. CASE SetStubs
  BY <1>2, <1>4 DEF SetStubs, Rebuild
<1>5. CASE project' = project
  BY <1>5 DEF Overlaid
<1> QED
  BY <1>1, <1>3, <1>4, <1>5, Steps
     DEF IndexStep, WriterStep, Begin, Skip, StoreSymbols, ListFiles, IndexFile, KeepIndex, indexVars

(* Every write of a hash writes the tree and the declarations with it.     *)
LEMMA HashesPreserved ==
  ASSUME Typed, HashesKept, [Next]_vars
  PROVE  HashesKept'
<1>1. ASSUME NEW w \in Writers, PutProjectNodes(w) PROVE HashesKept'
  <2>1. /\ project' = [project EXCEPT ![file[w]] = text[w]]
        /\ projectNodes' = [projectNodes EXCEPT ![file[w]] = text[w]]
        /\ projectHashes' = [projectHashes EXCEPT ![file[w]] = text[w]]
        /\ project \in [Files -> TextOrNone] /\ projectNodes \in [Files -> TextOrNone]
        /\ projectHashes \in [Files -> TextOrNone]
    BY <1>1 DEF PutProjectNodes, RebuildFiles, Replace, Typed, Contained, Contents
  <2> QED
    BY <2>1 DEF HashesKept
<1>2. CASE ReplaceWorkspaceProjectNodes
  BY <1>2 DEF ReplaceWorkspaceProjectNodes, Rebuild, Replace, HashesKept
<1>3. CASE SetStubs
  BY <1>3 DEF SetStubs, Rebuild, Replace, HashesKept
<1>4. CASE UNCHANGED indexVars
  BY <1>4 DEF indexVars, HashesKept
<1> QED
  BY <1>1, <1>2, <1>3, <1>4, Steps
     DEF IndexStep, WriterStep, Begin, Skip, StoreSymbols, ListFiles, IndexFile, KeepIndex

(***************************************************************************)
(* What the cache and the analyses under way hold.                         *)
(***************************************************************************)

(* The states in which an analyst holds facts.                             *)
Knowing(v) == v.at \in {"lookup", "store"}

(* What is held of a file is an entry: of a text of its own, at a revision. *)
LEMMA HeldEntries ==
  ASSUME CacheTyped, NEW f \in Files
  PROVE  Held(f) \subseteq Entries
<1>1. ASSUME NEW a \in Analysts, view[a].at \in {"lookup", "store"}
      PROVE  Entry(view[a].text, view[a].revision, view[a].facts) \in Entries
  BY <1>1, Viewing DEF Entry, Entries
<1>2. analysis[f] \in Entries \cup {None}
  BY DEF CacheTyped
<1> QED
  BY <1>1, <1>2 DEF Held

(* The facts TakeProject computes of a text, if they have its own          *)
(* declarations, are those of the project with the text over it: the       *)
(* project then is that, or has the text's declarations from other files.  *)
LEMMA TakenCurrent ==
  ASSUME HashesKept, project \in Contents, NEW f \in Files, NEW t \in Texts,
         Knows(t, Facts(ProjectFor(f, t), t))
  PROVE  Facts(ProjectFor(f, t), t) = Facts(Overlaid(f, t), t)
<1>1. t # None
  BY TextAssumption
<1>2. CASE projectHashes[f] # t
  BY <1>2 DEF ProjectFor, Overlaid
<1>3. CASE projectHashes[f] = t /\ project[f] = t
  <2>1. Overlaid(f, t) = project
    BY <1>3 DEF Overlaid, Contents
  <2> QED
    BY <1>3, <2>1 DEF ProjectFor
<1>4. CASE projectHashes[f] = t /\ project[f] = None
  <2>1. Declared(project) = Others(project, f)
    BY <1>4, DeclaredParts DEF Own
  <2>2. Facts(project, t) \subseteq Others(project, f)
    BY <2>1, FactsSeen DEF Seen
  <2>3. Exports[t] \subseteq Others(project, f)
    BY <1>4, <2>2 DEF Knows, ProjectFor
  <2>4. Declared(Overlaid(f, t)) = Declared(project)
    <3>1. Declared(Overlaid(f, t)) = Exports[t] \cup Others(project, f)
      BY DeclaredOver DEF Overlaid
    <3> QED
      BY <2>1, <2>3, <3>1
  <2> QED
    BY <1>4, <2>4, FactsSeen DEF ProjectFor
<1> QED
  BY <1>1, <1>2, <1>3, <1>4 DEF HashesKept

(* The entry a step of the cache may add: what TakeProject computes.       *)
Taken(f, t) == Entry(t, DocumentRevision(t), Facts(ProjectFor(f, t), t))

(* Whatever the cache and the analysts hold after one of their steps, they *)
(* held before or TakeProject has just computed.                           *)
LEMMA HeldGrows ==
  ASSUME Typed, CacheStep, NEW f \in Files
  PROVE  Held(f)' \subseteq Held(f) \cup {Taken(f, t) : t \in Texts}
<1> DEFINE New == Held(f) \cup {Taken(f, t) : t \in Texts}
           Of(a) == Entry(view[a].text, view[a].revision, view[a].facts)
<1> USE TextAssumption, ActorAssumption
<1>0. /\ \A a \in Analysts : Knowing(view[a]) /\ view[a].file = f => Of(a) \in Held(f)
      /\ analysis[f] # None => analysis[f] \in Held(f)
      /\ view \in [Analysts -> Views] /\ analysis \in [Files -> Entries \cup {None}]
  BY DEF Held, Knowing, Typed, CacheTyped
<1>1. ASSUME /\ \A a \in Analysts : Knowing(view'[a]) /\ view'[a].file = f => Of(a)' \in New
             /\ analysis'[f] # None => analysis'[f] \in New
      PROVE  Held(f)' \subseteq New
  BY <1>1 DEF Held, Knowing
<1>2. ASSUME NEW a \in Analysts, \A b \in Analysts \ {a} : view'[b] = view[b],
             Knowing(view'[a]) /\ view'[a].file = f => Of(a)' \in New,
             analysis'[f] \in {None, analysis[f]} \/ analysis'[f] \in New
      PROVE  Held(f)' \subseteq New
  BY <1>0, <1>1, <1>2
<1> HIDE DEF New
<1>3. ASSUME NEW a \in Analysts, NEW g \in Cached, NEW t \in TextsOf[g], Snapshot(a, g, t)
      PROVE  Held(f)' \subseteq New
  <2>1. \A b \in Analysts \ {a} : view'[b] = view[b]
    BY <1>0, <1>3 DEF Snapshot, Set
  <2>2. ~Knowing(view'[a]) /\ analysis' = analysis
    BY <1>0, <1>3 DEF Snapshot, Set, cacheVars, Knowing
  <2> QED
    BY <1>2, <2>1, <2>2
<1>4. ASSUME NEW a \in Analysts, StoreParse(a) PROVE Held(f)' \subseteq New
  <2>1. \A b \in Analysts \ {a} : view'[b] = view[b]
    BY <1>0, <1>4 DEF StoreParse, Set
  <2>2. ~Knowing(view'[a])
    <3>1. view[a] \in [at : {"parse", "project"}, file : Cached, text : Texts]
      BY <1>4, Viewing DEF StoreParse, Typed
    <3> QED
      BY <1>0, <1>4, <3>1 DEF StoreParse, Set, Knowing
  <2>3. analysis'[f] \in {None, analysis[f]}
    BY <1>0, <1>4 DEF StoreParse
  <2> QED
    BY <1>2, <2>1, <2>2, <2>3
<1>5. ASSUME NEW a \in Analysts, TakeProject(a) PROVE Held(f)' \subseteq New
  <2>1. \A b \in Analysts \ {a} : view'[b] = view[b]
    BY <1>0, <1>5 DEF TakeProject, Set
  <2>2. ASSUME view'[a].file = f PROVE Of(a)' \in New
    <3>1. /\ view[a] \in [at : {"parse", "project"}, file : Cached, text : Texts]
          /\ view[a] # Idle
      BY <1>5, Viewing DEF TakeProject, Typed, Idle
    <3>2. view'[a] = [at |-> "lookup", file |-> view[a].file, text |-> view[a].text,
                      facts |-> Facts(ProjectFor(view[a].file, view[a].text), view[a].text),
                      revision |-> DocumentRevision(view[a].text)]
      BY <1>0, <1>5 DEF TakeProject, Set
    <3>3. view[a].file = f
      BY <2>2, <3>2
    <3>4. view[a].text \in Texts
      BY <3>1
    <3>5. Of(a)' = Taken(f, view[a].text)
      BY <3>2, <3>3 DEF Taken
    <3> QED
      BY <3>4, <3>5 DEF New
  <2>3. analysis' = analysis
    BY <1>5 DEF TakeProject, cacheVars
  <2> QED
    BY <1>2, <2>1, <2>2, <2>3
<1>6. ASSUME NEW a \in Analysts, Lookup(a) PROVE Held(f)' \subseteq New
  <2>1. \A b \in Analysts \ {a} : view'[b] = view[b]
    BY <1>0, <1>6 DEF Lookup, Set
  <2>2. ASSUME Knowing(view'[a]), view'[a].file = f PROVE Of(a)' \in New
    <3>1. view[a] \in [at : {"lookup", "store"}, file : Cached, text : Texts,
                       facts : SUBSET Declarations, revision : Nat]
      BY <1>6, Viewing DEF Lookup, Typed
    <3>2. view'[a] = [view[a] EXCEPT !.at = "store"]
      BY <1>0, <1>6, <2>2 DEF Lookup, Set, Knowing, Idle
    <3>3. Knowing(view[a]) /\ view[a].file = f /\ Of(a)' = Of(a)
      BY <2>2, <3>1, <3>2 DEF Knowing
    <3> QED
      BY <1>0, <3>3 DEF New
  <2>3. analysis' = analysis
    BY <1>6 DEF Lookup, cacheVars
  <2> QED
    BY <1>2, <2>1, <2>2, <2>3
<1>7. ASSUME NEW a \in Analysts, StoreFacts(a) PROVE Held(f)' \subseteq New
  <2>1. \A b \in Analysts \ {a} : view'[b] = view[b]
    BY <1>0, <1>7 DEF StoreFacts, Set
  <2>2. ~Knowing(view'[a])
    BY <1>0, <1>7 DEF StoreFacts, Set, Knowing, Idle
  <2>3. analysis'[f] \in {None, analysis[f]} \/ analysis'[f] \in New
    <3>1. CASE view[a].file # f
      BY <1>0, <1>7, <3>1 DEF StoreFacts
    <3>2. CASE view[a].file = f
      <4>1. Of(a) \in Held(f)
        BY <1>0, <1>7, <3>2 DEF StoreFacts, Knowing
      <4>2. analysis'[f] = Of(a)
        BY <1>0, <1>7, <3>2 DEF StoreFacts
      <4> QED
        BY <4>1, <4>2 DEF New
    <3> QED
      BY <3>1, <3>2
  <2> QED
    BY <1>2, <2>1, <2>2, <2>3
<1>8. ASSUME NEW g \in Cached, Forget(g) PROVE Held(f)' \subseteq New
  <2>1. analysis'[f] \in {None, analysis[f]} /\ view' = view
    BY <1>0, <1>8 DEF Forget
  <2> QED
    BY <1>0, <1>1, <2>1 DEF New
<1>9. CASE NewRegistry
  <2>1. \A a \in Analysts : ~Knowing(view'[a])
    BY <1>9 DEF NewRegistry, Knowing, Idle
  <2>2. analysis'[f] = None
    BY <1>9 DEF NewRegistry
  <2> QED
    BY <2>1, <2>2 DEF Held, Knowing
<1> QED
  BY <1>3, <1>4, <1>5, <1>6, <1>7, <1>8, <1>9 DEF CacheStep, New

(* Revisions are numbers.                                                  *)
LEMMA RevisionsTyped == Ring /\ LastHits => \A t \in Texts : DocumentRevision(t) \in Nat
BY RevisionBounds DEF LastHits

(* A step that leaves the cache leaves what is held.                       *)
LEMMA HeldStays ==
  ASSUME KeepCache, NEW f \in Files
  PROVE  Held(f)' = Held(f)
BY DEF KeepCache, cacheVars, Held

(* What is held stays current: the index leaves the facts of a text whose  *)
(* revision it leaves, and TakeProject's are those of the project.         *)
LEMMA HeldPreserved ==
  ASSUME Typed, Typed', CacheInv, [Next]_vars
  PROVE  HeldCurrent' /\ HeldAgree'
<1> USE TextAssumption, ActorAssumption
<1>0. \A t \in Texts : DocumentRevision(t) \in Nat /\ DocumentRevision(t)' \in Nat
  <2>1. (Ring /\ LastHits => \A t \in Texts : DocumentRevision(t) \in Nat)'
    BY RevisionsTyped, PTL
  <2> QED
    BY <2>1, RevisionsTyped DEF Typed
<1>1. ASSUME NEW f \in Cached
      PROVE  Held(f) \subseteq Entries
  BY HeldEntries DEF Typed
<1>2. CASE KeepCache
  <2>1. ASSUME NEW f \in Cached \ doubled', NEW e \in Held(f)
        PROVE  /\ e.revision <= DocumentRevision(e.text)'
               /\ e.revision = DocumentRevision(e.text)' /\ Knows(e.text, e.facts) =>
                    e.facts = Facts(Overlaid(f, e.text), e.text)'
    <3> DEFINE t == e.text
    <3>0. f \notin doubled
      BY OncePreserved DEF CacheInv
    <3>1. t \in Texts /\ e.revision \in Nat
      BY <1>1 DEF Entries
    <3> HIDE DEF t
    <3>2. /\ DocumentRevision(t) \in Nat /\ DocumentRevision(t)' \in Nat
          /\ DocumentRevision(t)' >= DocumentRevision(t)
      BY <1>0, <3>1, RingPreserved DEF Typed
    <3>3. e.revision <= DocumentRevision(t)
      BY <3>0 DEF CacheInv, HeldCurrent, t
    <3>4. e.revision <= DocumentRevision(t)'
      BY <3>1, <3>2, <3>3
    <3>5. ASSUME e.revision = DocumentRevision(t)', Knows(t, e.facts)
          PROVE  e.facts = Facts(Overlaid(f, t), t)'
      <4>1. e.revision = DocumentRevision(t) /\ ~Outdated(t)
        BY <3>1, <3>2, <3>3, <3>5 DEF Outdated
      <4>2. e.facts = Facts(Overlaid(f, t), t)
        BY <3>0, <3>5, <4>1 DEF CacheInv, HeldCurrent, t
      <4>3. Facts(Overlaid(f, t), t)' = Facts(Overlaid(f, t), t)
        BY <3>1, <4>1, FactsKept DEF CacheInv
      <4> QED
        BY <4>2, <4>3
    <3> QED
      BY <3>4, <3>5 DEF t
  <2>2. \A f \in Cached : Held(f)' = Held(f)
    BY <1>2, HeldStays
  <2>3. HeldCurrent'
    BY <2>1, <2>2 DEF HeldCurrent
  <2>4. HeldAgree'
    BY <2>2, OncePreserved DEF HeldAgree, CacheInv
  <2> QED
    BY <2>3, <2>4
<1>3. CASE CacheStep
  <2>1. project' = project /\ doubled' = doubled /\ UNCHANGED revisionVars
    BY <1>3, CacheStepsKeepIndex DEF KeepIndex, indexVars
  <2>2. \A t \in Texts : DocumentRevision(t)' = DocumentRevision(t)
    BY <2>1 DEF DocumentRevision, Hits, revisionVars
  <2>3. \A f, t : Facts(Overlaid(f, t), t)' = Facts(Overlaid(f, t), t)
    BY <2>1 DEF Overlaid
  <2>4. ASSUME NEW f \in Cached \ doubled, NEW e \in Held(f)'
        PROVE  /\ e \in Entries
               /\ e.revision <= DocumentRevision(e.text)
               /\ e.revision = DocumentRevision(e.text) /\ Knows(e.text, e.facts) =>
                    e.facts = Facts(Overlaid(f, e.text), e.text)
               /\ e \in Held(f) \/ e.revision = DocumentRevision(e.text)
    <3>0. e \in Held(f) \/ \E t \in Texts : e = Taken(f, t)
      BY <1>3, HeldGrows DEF CacheInv
    <3>1. e \in Entries
      <4>1. ASSUME NEW t \in Texts PROVE Taken(f, t) \in Entries
        BY <1>0, FactsDeclared DEF Taken, Entry, Entries, Typed
      <4> QED
        BY <1>1, <3>0, <4>1
    <3>2. CASE e \in Held(f)
      BY <3>1, <3>2 DEF CacheInv, HeldCurrent
    <3>3. ASSUME NEW t \in Texts, e = Taken(f, t)
          PROVE  /\ e.revision = DocumentRevision(e.text)
                 /\ Knows(e.text, e.facts) => e.facts = Facts(Overlaid(f, e.text), e.text)
      <4>1. e.text = t /\ e.revision = DocumentRevision(t) /\ e.facts = Facts(ProjectFor(f, t), t)
        BY <3>3 DEF Taken, Entry
      <4> QED
        BY <4>1, TakenCurrent DEF CacheInv, Typed, Contained
    <3>4. DocumentRevision(e.text) \in Nat
      BY <1>0, <3>1 DEF Entries
    <3> QED
      BY <3>0, <3>1, <3>2, <3>3, <3>4
  <2>5. HeldCurrent'
    <3> SUFFICES ASSUME NEW f \in Cached \ doubled, NEW e \in Held(f)'
                 PROVE  /\ e.revision <= DocumentRevision(e.text)'
                        /\ e.revision = DocumentRevision(e.text)' /\ Knows(e.text, e.facts) =>
                             e.facts = Facts(Overlaid(f, e.text), e.text)'
      BY <2>1 DEF HeldCurrent
    <3>1. e.text \in Texts
      BY <2>4 DEF Entries
    <3> QED
      BY <2>2, <2>3, <2>4, <3>1
  <2>6. HeldAgree'
    <3> SUFFICES ASSUME NEW f \in Cached \ doubled, NEW e \in Held(f)', NEW h \in Held(f)',
                        e.text = h.text, e.revision = h.revision,
                        Knows(e.text, e.facts), Knows(h.text, h.facts)
                 PROVE  e.facts = h.facts
      BY <2>1 DEF HeldAgree
    <3>1. CASE e \in Held(f) /\ h \in Held(f)
      BY <3>1 DEF CacheInv, HeldAgree
    <3>2. CASE ~(e \in Held(f) /\ h \in Held(f))
      <4>1. e.revision = DocumentRevision(e.text)
        BY <2>4, <3>2
      <4> QED
        BY <2>4, <4>1
    <3> QED
      BY <3>1, <3>2
  <2> QED
    BY <2>5, <2>6
<1> QED
  BY <1>2, <1>3, StepKinds

(* CacheInv of every state.                                                *)
LEMMA CacheInvariance == Spec => []CacheInv
<1> DEFINE Inv == SemanticIndexInv /\ CacheInv
<1>1. Init => CacheInv
  <2> SUFFICES ASSUME Init PROVE CacheInv
    OBVIOUS
  <2>1. \A f \in Files : Held(f) = {}
    BY DEF Init, Held, Idle
  <2>2. HeldCurrent /\ HeldAgree
    BY <2>1, ActorAssumption DEF HeldCurrent, HeldAgree
  <2>3. HashesKept
    BY DEF Init, HashesKept
  <2>4. OnceDeclared
    <3>1. \A f \in Files : Own(project[f]) = {}
      BY DEF Init, Own
    <3> QED
      BY <3>1 DEF OnceDeclared
  <2> QED
    BY <2>2, <2>3, <2>4 DEF CacheInv
<1>2. SemanticIndexInv => Typed
  BY TypeParts DEF SemanticIndexInv, Typed
<1>3. SemanticIndexInv /\ SemanticIndexInv' /\ CacheInv /\ [Next]_vars => CacheInv'
  <2> SUFFICES ASSUME SemanticIndexInv, SemanticIndexInv', CacheInv, [Next]_vars PROVE CacheInv'
    OBVIOUS
  <2>1. Typed /\ Typed'
    BY TypeParts DEF SemanticIndexInv, Typed, TypeOK, Contained, WritersTyped, CacheTyped, Ring, Recorded
  <2>2. OnceDeclared'
    BY OncePreserved DEF CacheInv
  <2>3. HashesKept'
    BY <2>1, HashesPreserved DEF CacheInv
  <2>4. HeldCurrent' /\ HeldAgree'
    BY <2>1, HeldPreserved
  <2> QED
    BY <2>2, <2>3, <2>4 DEF CacheInv
<1> QED
  BY <1>1, <1>3, InvariantHolds, PTL DEF Spec

(* A hit of the cache returns the facts an analysis of the project it was  *)
(* given would compute (analysisContextForFile), whatever indexing came in *)
(* between and whichever files declare the same, but for a file the        *)
(* project has had a declaration of from another file too.                 *)
THEOREM HitsCurrent == Spec => []HitsAreCurrent
<1>1. SemanticIndexInv /\ CacheInv => HitsAreCurrent
  <2> SUFFICES ASSUME CacheTyped, HeldAgree,
                      NEW a \in Analysts, view[a].at = "lookup", IsHit(a),
                      view[a].file \notin doubled,
                      Knows(view[a].text, analysis[view[a].file].facts),
                      Knows(view[a].text, view[a].facts)
               PROVE  analysis[view[a].file].facts = view[a].facts
    BY TypeParts DEF SemanticIndexInv, CacheInv, HitsAreCurrent
  <2> DEFINE f == view[a].file
             e == analysis[f]
             h == Entry(view[a].text, view[a].revision, view[a].facts)
  <2>1. f \in Cached
    BY Viewing
  <2>2. e \in Held(f) /\ h \in Held(f)
    BY DEF Held, IsHit
  <2>3. /\ e.text = h.text /\ e.revision = h.revision
        /\ h.text = view[a].text /\ h.facts = view[a].facts
    BY DEF IsHit, Entry
  <2> HIDE DEF e, h, f
  <2>4. e.facts = h.facts
    BY <2>1, <2>2, <2>3 DEF HeldAgree, e, f
  <2> QED
    BY <2>3, <2>4 DEF e, f
<1> QED
  BY <1>1, InvariantHolds, CacheInvariance, PTL
=============================================================================
