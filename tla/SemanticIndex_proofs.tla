------------------------ MODULE SemanticIndex_proofs ------------------------
(***************************************************************************)
(* Proofs about SemanticIndex, for any files, texts, writers and analysts, *)
(* any ring and whatever the library derives.                              *)
(***************************************************************************)
EXTENDS SemanticIndex, TLAPS

Recorded == [revision : Nat, names : SUBSET Names]

(* The ring, and that a text it concerns has a last event.                 *)
Ring ==
  /\ semanticRevision \in Nat /\ semanticBase \in Nat
  /\ semanticChanges \in Seq(Recorded)
  /\ Len(semanticChanges) <= MaxEvents
  /\ semanticRevision = semanticBase + Len(semanticChanges)
  /\ \A i \in 1..Len(semanticChanges) : semanticChanges[i].revision = semanticBase + i

HasLast(t) == Hits(t) = {} \/ \E i \in Hits(t) : \A j \in Hits(t) : j <= i
LastHits == \A t \in Texts : HasLast(t)

(* The steps that write anything but the cache, and the rest.              *)
WriterStep(w) ==
  \/ \E f \in Files : \/ \E t \in TextOrNone : Begin(w, f, t)
                     \/ \E t \in TextsOf[f] : Skip(w, f, t)
  \/ StoreSymbols(w) \/ PutProjectNodes(w)
IndexStep ==
  \/ \E w \in Writers : WriterStep(w)
  \/ \E f \in Files : IndexFile(f)
  \/ ListFiles \/ ReplaceWorkspaceProjectNodes \/ SetStubs
  \/ KeepIndex

(* Every step is one of those.                                           *)
LEMMA Steps ==
  ASSUME [Next]_vars
  PROVE  IndexStep
<1> USE DEF IndexStep, WriterStep
<1>1. ASSUME NEW w \in Writers, NEW f \in Files, RemoveDocument(w, f) PROVE IndexStep
  BY <1>1 DEF RemoveDocument, TextOrNone
<1>2. ASSUME NEW w \in Writers, NEW f \in Files, NEW t \in TextsOf[f], IndexDocument(w, f, t)
      PROVE  IndexStep
  <2>1. t \in TextOrNone
    BY TextAssumption DEF TextOrNone
  <2> QED
    BY <1>2, <2>1 DEF IndexDocument
<1>3. CASE \/ \E a \in Analysts :
                \/ \E f \in Cached : \E t \in TextsOf[f] : Snapshot(a, f, t)
                \/ StoreParse(a) \/ TakeProject(a) \/ Lookup(a) \/ StoreFacts(a)
           \/ \E f \in Cached : Forget(f)
           \/ NewRegistry
  <2>1. KeepIndex
    BY <1>3 DEF Snapshot, StoreParse, TakeProject, Lookup, StoreFacts, Forget, NewRegistry
  <2> QED
    BY <2>1
<1>4. CASE UNCHANGED vars
  BY <1>4 DEF vars, KeepIndex
<1>5. CASE Next
  BY <1>1, <1>2, <1>3, <1>5 DEF Next
<1> QED
  BY <1>4, <1>5

-----------------------------------------------------------------------------
(* What one recorded change does to the ring and to a text's revision.     *)

(* A text's revision lies between the base and the newest.                 *)
LEMMA RevisionBounds ==
  ASSUME Ring, NEW t \in Texts, HasLast(t)
  PROVE  /\ DocumentRevision(t) \in Nat
         /\ DocumentRevision(t) >= semanticBase /\ DocumentRevision(t) <= semanticRevision
<1>1. CASE Hits(t) = {}
  BY <1>1 DEF DocumentRevision, Ring
<1>2. CASE Hits(t) # {}
  <2>1. PICK i \in Hits(t) : /\ \A j \in Hits(t) : j <= i
                            /\ DocumentRevision(t) = semanticChanges[i].revision
    BY <1>2 DEF HasLast, DocumentRevision
  <2>2. i \in 1..Len(semanticChanges)
    BY DEF Hits
  <2> QED
    BY <2>1, <2>2 DEF Ring
<1> QED
  BY <1>1, <1>2

(* The step makes facts of the text's revision stale.                      *)
Outdated(t) == DocumentRevision(t)' > DocumentRevision(t)

(* Appended while there is room.                                           *)
LEMMA AppendedRing ==
  ASSUME Ring, LastHits, NEW S \in SUBSET Names, Len(semanticChanges) < MaxEvents,
         semanticRevision' = semanticRevision + 1,
         semanticChanges' = Append(semanticChanges, Event(semanticRevision + 1, S)),
         semanticBase' = semanticBase
  PROVE  /\ Ring' /\ LastHits'
         /\ \A t \in Texts : DocumentRevision(t)' >= DocumentRevision(t)
         /\ \A t \in Texts : S \cap Mentions[t] # {} => Outdated(t)
<1> DEFINE n == Len(semanticChanges)
<1>1. Event(semanticRevision + 1, S) \in Recorded
  BY DEF Ring, Recorded, Event
<1>2. n \in Nat
  BY DEF Ring
<1>3. /\ semanticChanges' \in Seq(Recorded) /\ Len(semanticChanges') = n + 1
      /\ \A i \in 1..n : semanticChanges'[i] = semanticChanges[i]
      /\ semanticChanges'[n + 1] = Event(semanticRevision + 1, S)
  BY <1>1 DEF Ring
<1>4. Event(semanticRevision + 1, S).revision = semanticBase + (n + 1)
  BY DEF Ring, Event
<1>5. Ring'
  <2>1. \A i \in 1..(n + 1) : semanticChanges'[i].revision = semanticBase + i
    <3> TAKE i \in 1..(n + 1)
    <3>1. CASE i = n + 1
      BY <3>1, <1>3, <1>4
    <3>2. CASE i # n + 1
      BY <3>2, <1>2, <1>3 DEF Ring
    <3> QED
      BY <3>1, <3>2
  <2> QED
    BY <2>1, <1>2, <1>3, RingAssumption DEF Ring
<1>6. ASSUME NEW t \in Texts
      PROVE  /\ HasLast(t)' /\ DocumentRevision(t)' >= DocumentRevision(t)
             /\ S \cap Mentions[t] # {} => Outdated(t)
  <2>1. CASE S \cap Mentions[t] # {}
    <3>1. n + 1 \in Hits(t)' /\ \A j \in Hits(t)' : j <= n + 1
      BY <2>1, <1>2, <1>3 DEF Hits, Event
    <3>2. HasLast(t)'
      BY <3>1 DEF HasLast
    <3>3. \A i \in Hits(t)' : (\A j \in Hits(t)' : j <= i) => i = n + 1
      BY <3>1, <1>2, <1>3 DEF Hits
    <3>4. DocumentRevision(t)' = semanticBase + (n + 1)
      BY <3>1, <3>3, <1>3, <1>4 DEF DocumentRevision
    <3>5. DocumentRevision(t) \in Nat /\ DocumentRevision(t) <= semanticBase + n
      BY RevisionBounds DEF LastHits, Ring
    <3> QED
      BY <3>2, <3>4, <3>5, <1>2 DEF Ring, Outdated
  <2>2. CASE S \cap Mentions[t] = {}
    <3>1. Hits(t)' = Hits(t)
      <4>1. \A i \in 1..(n + 1) : i # n + 1 => i \in 1..n
        BY <1>2
      <4> QED
        BY <2>2, <1>2, <1>3, <4>1 DEF Hits, Event
    <3>2. HasLast(t)'
      BY <3>1 DEF HasLast, LastHits
    <3>3. CASE Hits(t) = {}
      BY <2>2, <3>1, <3>2, <3>3 DEF DocumentRevision, LastHits, Ring
    <3>4. CASE Hits(t) # {}
      <4>1. PICK i \in Hits(t) : /\ i = CHOOSE k \in Hits(t) : \A j \in Hits(t) : j <= k
                                /\ DocumentRevision(t) = semanticChanges[i].revision
        BY <3>4 DEF HasLast, LastHits, DocumentRevision
      <4>2. semanticChanges'[i] = semanticChanges[i]
        BY <1>3 DEF Hits
      <4>3. DocumentRevision(t)' = DocumentRevision(t)
        BY <3>1, <3>4, <4>1, <4>2 DEF DocumentRevision
      <4>4. DocumentRevision(t) \in Nat
        BY RevisionBounds DEF LastHits
      <4> QED
        BY <2>2, <3>2, <4>3, <4>4
    <3> QED
      BY <2>2, <3>2, <3>3, <3>4
  <2> QED
    BY <2>1, <2>2
<1> QED
  BY <1>5, <1>6 DEF LastHits

(* The base moved: the ring is empty and every text is as new as the base. *)
LEMMA EmptiedRing ==
  ASSUME Ring, LastHits,
         semanticRevision' = semanticRevision + 1,
         semanticChanges' = <<>>, semanticBase' = semanticRevision + 1
  PROVE  /\ Ring' /\ LastHits'
         /\ \A t \in Texts : DocumentRevision(t)' >= DocumentRevision(t)
         /\ \A t \in Texts : Outdated(t)
<1>1. Len(semanticChanges') = 0 /\ semanticChanges' \in Seq(Recorded)
  OBVIOUS
<1>2. Ring'
  BY <1>1, RingAssumption DEF Ring
<1>3. \A t \in Texts : Hits(t)' = {}
  BY <1>1 DEF Hits
<1>4. ASSUME NEW t \in Texts PROVE DocumentRevision(t)' >= DocumentRevision(t) /\ Outdated(t)
  <2>1. DocumentRevision(t)' = semanticRevision + 1
    BY <1>3 DEF DocumentRevision
  <2>2. DocumentRevision(t) \in Nat /\ DocumentRevision(t) <= semanticRevision
    BY RevisionBounds DEF LastHits
  <2> QED
    BY <2>1, <2>2 DEF Ring, Outdated
<1> QED
  BY <1>2, <1>3, <1>4 DEF LastHits, HasLast

(* recordSemanticChangesLocked, whatever it is told of a change.           *)
LEMMA RecordedRing ==
  ASSUME Ring, LastHits, NEW S \in SUBSET Names, NEW complete \in BOOLEAN,
         RecordChange(S, complete)
  PROVE  /\ Ring' /\ LastHits'
         /\ \A t \in Texts : DocumentRevision(t)' >= DocumentRevision(t)
         /\ \A t \in Texts : Outdated(t) \/ (complete /\ S \cap Mentions[t] = {})
<1>1. CASE /\ complete /\ Len(semanticChanges) < MaxEvents
           /\ semanticChanges' = Append(semanticChanges, Event(semanticRevision + 1, S))
           /\ UNCHANGED semanticBase
  <2>1. semanticRevision' = semanticRevision + 1
    BY DEF RecordChange
  <2>2. /\ Ring' /\ LastHits'
        /\ \A t \in Texts : DocumentRevision(t)' >= DocumentRevision(t)
        /\ \A t \in Texts : S \cap Mentions[t] # {} => Outdated(t)
    BY <1>1, <2>1, AppendedRing
  <2> QED
    BY <1>1, <2>2
<1>2. CASE semanticChanges' = <<>> /\ semanticBase' = semanticRevision + 1
  BY <1>2, EmptiedRing DEF RecordChange
<1> QED
  BY <1>1, <1>2 DEF RecordChange

(* A step that records nothing.                                            *)
LEMMA KeptRing ==
  ASSUME Ring, LastHits, UNCHANGED revisionVars
  PROVE  /\ Ring' /\ LastHits'
         /\ \A t \in Texts : DocumentRevision(t)' >= DocumentRevision(t)
<1>1. Ring'
  BY DEF Ring, revisionVars
<1>2. \A t \in Texts : Hits(t)' = Hits(t)
  BY DEF Hits, revisionVars
<1>3. LastHits'
  BY <1>2 DEF LastHits, HasLast
<1>4. ASSUME NEW t \in Texts PROVE DocumentRevision(t)' >= DocumentRevision(t)
  <2>1. DocumentRevision(t) \in Nat
    BY RevisionBounds DEF LastHits
  <2>2. CASE Hits(t) = {}
    BY <1>2, <2>1, <2>2 DEF DocumentRevision, revisionVars
  <2>3. CASE Hits(t) # {}
    <3>1. PICK i \in Hits(t) : /\ i = CHOOSE k \in Hits(t) : \A j \in Hits(t) : j <= k
                              /\ DocumentRevision(t) = semanticChanges[i].revision
      BY <2>3 DEF HasLast, LastHits, DocumentRevision
    <3>2. DocumentRevision(t)' = DocumentRevision(t)
      BY <1>2, <2>3, <3>1 DEF DocumentRevision, revisionVars
    <3> QED
      BY <2>1, <3>2
  <2> QED
    BY <2>2, <2>3
<1> QED
  BY <1>1, <1>3, <1>4

(* Names the library reports are names.                                    *)
LEMMA NamesReported ==
  \A p, q : DependencyNames(p, q) \in SUBSET Names
BY DEF DependencyNames

(* What IndexDocument, a pass and SetStubs do to it.                       *)
LEMMA RingPreserved ==
  ASSUME Ring, LastHits, [Next]_vars
  PROVE  /\ Ring' /\ LastHits'
         /\ \A t \in Texts : DocumentRevision(t)' >= DocumentRevision(t)
<1> DEFINE Goal == /\ Ring' /\ LastHits'
                   /\ \A t \in Texts : DocumentRevision(t)' >= DocumentRevision(t)
<1>1. ASSUME NEW w \in Writers, PutProjectNodes(w) PROVE Goal
  <2>1. PICK S : S = DependencyNames(project, project')
    OBVIOUS
  <2>2. S \in SUBSET Names
    BY <2>1, NamesReported
  <2>3. CASE UNCHANGED revisionVars
    BY <2>3, KeptRing
  <2>4. ASSUME NEW complete \in BOOLEAN, RecordChange(S, complete) PROVE Goal
    <3>1. /\ Ring' /\ LastHits'
          /\ \A t \in Texts : DocumentRevision(t)' >= DocumentRevision(t)
          /\ \A t \in Texts : Outdated(t) \/ (complete /\ S \cap Mentions[t] = {})
      BY <2>2, <2>4, RecordedRing
    <3> QED
      BY <3>1
  <2> QED
    BY <1>1, <2>1, <2>3, <2>4 DEF PutProjectNodes, RebuildFiles, Replace
<1>2. ASSUME RecordChange({}, FALSE) PROVE Goal
  BY <1>2, RecordedRing
<1>3. CASE ReplaceWorkspaceProjectNodes
  BY <1>2, <1>3 DEF ReplaceWorkspaceProjectNodes, Rebuild, Replace
<1>4. CASE SetStubs
  BY <1>2, <1>4 DEF SetStubs, Rebuild, Replace
<1>5. CASE UNCHANGED revisionVars
  BY <1>5, KeptRing
<1> QED
  BY <1>1, <1>3, <1>4, <1>5, Steps
     DEF IndexStep, WriterStep, Begin, Skip, StoreSymbols, ListFiles, IndexFile, KeepIndex

-----------------------------------------------------------------------------
(* Types.                                                                  *)

Contained ==
  /\ project \in Contents /\ projectNodes \in Contents
  /\ projectHashes \in Contents /\ symbols \in Contents
  /\ workspaceURIs \subseteq Files
  /\ todo \subseteq Files /\ nodes \in Contents \cup {None} /\ (nodes = None => todo = {})
  /\ mixed \subseteq Files /\ doubled \subseteq Files
WritersTyped ==
  /\ pc \in [Writers -> {"idle", "symbols", "nodes"}]
  /\ file \in [Writers -> Files \cup {None}] /\ text \in [Writers -> TextOrNone]
  /\ \A w \in Writers : pc[w] = "idle" <=> file[w] = None
CacheTyped ==
  /\ byURI \in [Files -> TextOrNone] /\ analysis \in [Files -> Entries \cup {None}]
  /\ view \in [Analysts -> Views]

(* TypeOK in the parts that different steps write.                       *)
LEMMA TypeParts == TypeOK <=> Contained /\ WritersTyped /\ CacheTyped /\ Ring
BY DEF TypeOK, Contained, WritersTyped, CacheTyped, Ring, Recorded

(* IndexDocument and RemoveDocument keep where each writer stands.       *)
LEMMA WritersPreserved ==
  ASSUME WritersTyped, [Next]_vars
  PROVE  WritersTyped'
<1> USE TextAssumption DEF WritersTyped, TextOrNone
<1>1. ASSUME NEW w \in Writers, NEW f \in Files, NEW t \in TextOrNone, Begin(w, f, t)
      PROVE  WritersTyped'
  BY <1>1 DEF Begin
<1>2. ASSUME NEW w \in Writers, StoreSymbols(w) PROVE WritersTyped'
  BY <1>2 DEF StoreSymbols
<1>3. ASSUME NEW w \in Writers, PutProjectNodes(w) PROVE WritersTyped'
  BY <1>3 DEF PutProjectNodes, Finish
<1>4. CASE UNCHANGED writerVars
  BY <1>4 DEF writerVars
<1> QED
  BY <1>1, <1>2, <1>3, <1>4, Steps
     DEF IndexStep, WriterStep, Skip, ListFiles, IndexFile, ReplaceWorkspaceProjectNodes, SetStubs, KeepIndex

(* Every step keeps the files' texts, hashes and symbols in their types. *)
LEMMA ContainedPreserved ==
  ASSUME Contained, WritersTyped, [Next]_vars
  PROVE  Contained'
<1> USE TextAssumption, ActorAssumption DEF Contained, Contents, TextOrNone
<1>1. ASSUME NEW w \in Writers, NEW f \in Files, NEW t \in TextOrNone, Begin(w, f, t)
      PROVE  Contained'
  BY <1>1 DEF Begin, indexVars, passVars
<1>2. ASSUME NEW w \in Writers, NEW f \in Files, NEW t \in TextsOf[f], Skip(w, f, t)
      PROVE  Contained'
  BY <1>2 DEF Skip, indexVars, passVars, historyVars
<1>3. ASSUME NEW w \in Writers, StoreSymbols(w) PROVE Contained'
  BY <1>3 DEF StoreSymbols, WritersTyped, indexVars, passVars, historyVars
<1>4. ASSUME NEW w \in Writers, PutProjectNodes(w) PROVE Contained'
  <2>1. file[w] \in Files /\ text[w] \in TextOrNone
    BY <1>4 DEF PutProjectNodes, WritersTyped
  <2> QED
    BY <1>4, <2>1 DEF PutProjectNodes, RebuildFiles, Replace, Finish, Leave, passVars
<1>5. CASE ListFiles
  BY <1>5 DEF ListFiles, indexVars
<1>6. ASSUME NEW f \in Files, IndexFile(f) PROVE Contained'
  <2>1. CASE \E t \in TextsOf[f] : /\ nodes' = [nodes EXCEPT ![f] = t]
                                 /\ symbols' = [symbols EXCEPT ![f] = t]
    <3>1. PICK t \in TextsOf[f] : /\ nodes' = [nodes EXCEPT ![f] = t]
                                 /\ symbols' = [symbols EXCEPT ![f] = t]
      BY <2>1
    <3>2. t \in Texts \cup {None} /\ nodes \in [Files -> Texts \cup {None}]
      BY <1>6 DEF IndexFile
    <3> QED
      BY <1>6, <3>1, <3>2 DEF IndexFile, indexVars, historyVars
  <2>2. CASE UNCHANGED <<nodes, symbols>>
    BY <1>6, <2>2 DEF IndexFile, indexVars, historyVars
  <2> QED
    BY <1>6, <2>1, <2>2 DEF IndexFile
<1>7. CASE ReplaceWorkspaceProjectNodes
  BY <1>7 DEF ReplaceWorkspaceProjectNodes, Rebuild, Replace, Leave
<1>8. CASE SetStubs
  BY <1>8 DEF SetStubs, Rebuild, Replace, passVars, historyVars
<1>9. CASE KeepIndex
  BY <1>9 DEF KeepIndex, indexVars, passVars, historyVars
<1> QED
  BY <1>1, <1>2, <1>3, <1>4, <1>5, <1>6, <1>7, <1>8, <1>9, Steps
     DEF IndexStep, WriterStep

(* What each state of an analyst says of its view.                         *)
LEMMA Viewing ==
  ASSUME CacheTyped, NEW a \in Analysts
  PROVE  /\ view[a].at \in {"parse", "project"} =>
              view[a] \in [at : {"parse", "project"}, file : Cached, text : Texts]
         /\ view[a].at \in {"lookup", "store"} =>
              view[a] \in [at : {"lookup", "store"}, file : Cached, text : Texts,
                          facts : SUBSET Declarations, revision : Nat]
BY DEF CacheTyped, Views, Idle

(* An analysis only sees declarations.                                   *)
LEMMA FactsDeclared ==
  ASSUME Contained, NEW f \in Files, NEW t \in Texts
  PROVE  Facts(ProjectFor(f, t), t) \in SUBSET Declarations
<1>1. \A g \in Files : ProjectFor(f, t)[g] \in TextOrNone
  BY DEF ProjectFor, Contained, Contents, TextOrNone
<1>2. \A d \in Declared(ProjectFor(f, t)) : d \in Declarations
  BY <1>1 DEF Declared, Own, Declarations, TextOrNone
<1> QED
  BY <1>2 DEF Facts

(* The steps of an analysis keep the cache and its own view typed.       *)
LEMMA CachePreserved ==
  ASSUME CacheTyped, Contained, Ring, LastHits, [Next]_vars
  PROVE  CacheTyped'
<1> USE TextAssumption, ActorAssumption DEF CacheTyped
<1>1. ASSUME NEW a \in Analysts, NEW f \in Cached, NEW t \in TextsOf[f], Snapshot(a, f, t)
      PROVE  CacheTyped'
  <2>1. t \in Texts
    OBVIOUS
  <2> DEFINE r == [at |-> IF byURI[f] = t THEN "project" ELSE "parse", file |-> f, text |-> t]
  <2>2. r \in [at : {"parse", "project"}, file : Cached, text : Texts]
    BY <2>1
  <2>3. r \in Views
    BY <2>2 DEF Views
  <2> QED
    BY <1>1, <2>3 DEF Snapshot, Set, cacheVars
<1>2. ASSUME NEW a \in Analysts, StoreParse(a) PROVE CacheTyped'
  <2>1. view[a] \in [at : {"parse", "project"}, file : Cached, text : Texts]
    BY <1>2, Viewing DEF StoreParse
  <2>2. [view[a] EXCEPT !.at = "project"] \in [at : {"parse", "project"}, file : Cached, text : Texts]
    BY <2>1
  <2>3. [view[a] EXCEPT !.at = "project"] \in Views
    BY <2>2 DEF Views
  <2>4. view' \in [Analysts -> Views]
    BY <1>2, <2>3 DEF StoreParse, Set
  <2>5. byURI' \in [Files -> TextOrNone] /\ analysis' \in [Files -> Entries \cup {None}]
    BY <1>2, <2>1 DEF StoreParse, TextOrNone
  <2> QED
    BY <2>4, <2>5
<1>3. ASSUME NEW a \in Analysts, TakeProject(a) PROVE CacheTyped'
  <2> DEFINE f == view[a].file  t == view[a].text
             r == [at |-> "lookup", file |-> f, text |-> t,
                   facts |-> Facts(ProjectFor(f, t), t), revision |-> DocumentRevision(t)]
  <2>1. f \in Cached /\ t \in Texts
    BY <1>3, Viewing DEF TakeProject
  <2>2. DocumentRevision(t) \in Nat
    BY <2>1, RevisionBounds DEF LastHits
  <2>3. Facts(ProjectFor(f, t), t) \in SUBSET Declarations
    BY <2>1, FactsDeclared
  <2>4. r \in [at : {"lookup", "store"}, file : Cached, text : Texts,
               facts : SUBSET Declarations, revision : Nat]
    BY <2>1, <2>2, <2>3
  <2>5. r \in Views
    BY <2>4 DEF Views
  <2>6. view' = [view EXCEPT ![a] = r] /\ UNCHANGED cacheVars
    BY <1>3 DEF TakeProject, Set
  <2> QED
    BY <2>5, <2>6 DEF cacheVars
<1>4. ASSUME NEW a \in Analysts, Lookup(a) PROVE CacheTyped'
  <2>1. view[a] \in [at : {"lookup", "store"}, file : Cached, text : Texts,
                     facts : SUBSET Declarations, revision : Nat]
    BY <1>4, Viewing DEF Lookup
  <2>2. [view[a] EXCEPT !.at = "store"] \in Views /\ Idle \in Views
    BY <2>1 DEF Views
  <2> QED
    BY <1>4, <2>2 DEF Lookup, Set, cacheVars
<1>5. ASSUME NEW a \in Analysts, StoreFacts(a) PROVE CacheTyped'
  <2> DEFINE v == view[a]
  <2>1. v \in [at : {"lookup", "store"}, file : Cached, text : Texts,
               facts : SUBSET Declarations, revision : Nat]
    BY <1>5, Viewing DEF StoreFacts
  <2>2. Entry(v.text, v.revision, v.facts) \in Entries
    BY <2>1 DEF Entry, Entries
  <2>3. Idle \in Views
    BY DEF Views
  <2> QED
    BY <1>5, <2>2, <2>3 DEF StoreFacts, Set
<1>6. ASSUME NEW f \in Cached, Forget(f) PROVE CacheTyped'
  BY <1>6 DEF Forget, TextOrNone
<1>7. CASE NewRegistry
  BY <1>7 DEF NewRegistry, TextOrNone, Views
<1>8. CASE UNCHANGED <<cacheVars, view>>
  BY <1>8 DEF cacheVars
<1>9. ASSUME NEW w \in Writers, NEW f \in Files,
             RemoveDocument(w, f) \/ \E t \in TextsOf[f] : IndexDocument(w, f, t)
      PROVE  CacheTyped'
  BY <1>8, <1>9 DEF RemoveDocument, IndexDocument, Begin, Skip
<1>10. CASE \/ \E w \in Writers : StoreSymbols(w) \/ PutProjectNodes(w)
            \/ ListFiles \/ ReplaceWorkspaceProjectNodes \/ SetStubs
            \/ \E f \in Files : IndexFile(f)
            \/ UNCHANGED vars
  BY <1>8, <1>10 DEF StoreSymbols, PutProjectNodes, ListFiles, IndexFile,
                     ReplaceWorkspaceProjectNodes, SetStubs, vars
<1> QED
  BY <1>1, <1>2, <1>3, <1>4, <1>5, <1>6, <1>7, <1>9, <1>10 DEF Next

-----------------------------------------------------------------------------
(* What a hash vouches for.                                                *)

(* Whoever is alone on a file since it began has stored what it read: the  *)
(* symbols a writer's hash will vouch for, and a pass's.                   *)
AloneStored ==
  \A w \in Writers : file[w] # None /\ <<w, file[w]>> \notin disturbed =>
    /\ Active(file[w]) = {w}
    /\ pc[w] = "nodes" => symbols[file[w]] = text[w]
PassStored ==
  nodes # None =>
    /\ todo \subseteq OnDisk
    /\ \A f \in Files \ OnDisk : nodes[f] = None
    /\ \A f \in OnDisk : <<Pass, f>> \notin disturbed =>
         /\ Active(f) = {Pass}
         /\ nodes[f] # None => symbols[f] = nodes[f]
Vouched == AloneStored /\ PassStored /\ SymbolsMatchHashes

(* The steps of indexers and passes keep what hashes vouch for.          *)
LEMMA VouchedPreserved ==
  ASSUME Vouched, Contained, WritersTyped, [Next]_vars
  PROVE  Vouched'
<1> USE ActorAssumption DEF Vouched
<1>1. ASSUME NEW w \in Writers, NEW f \in Files, NEW t \in TextOrNone, Begin(w, f, t)
      PROVE  Vouched'
  <2>1. /\ file' = [file EXCEPT ![w] = f] /\ file \in [Writers -> Files \cup {None}]
        /\ file[w] = None /\ f # None
        /\ pc' = [pc EXCEPT ![w] = "symbols"] /\ text' = [text EXCEPT ![w] = t]
        /\ UNCHANGED <<symbols, projectHashes, todo, nodes, mixed>>
        /\ disturbed' = disturbed \cup (IF Active(f) = {} THEN {} ELSE (Active(f) \cup {w}) \X {f})
    BY <1>1, TextAssumption DEF Begin, Enter, WritersTyped, indexVars, passVars
  <2>2. /\ Active(f)' = Active(f) \cup {w}
        /\ \A g \in Files : g # f => Active(g)' = Active(g)
    <3>1. \A v \in Writers : file'[v] = IF v = w THEN f ELSE file[v]
      BY <2>1
    <3> QED
      BY <2>1, <3>1, TextAssumption DEF Active
  <2>3. AloneStored'
    <3> SUFFICES ASSUME NEW v \in Writers, file'[v] # None, <<v, file'[v]>> \notin disturbed'
                 PROVE  /\ Active(file[v])' = {v}
                        /\ pc'[v] = "nodes" => symbols'[file'[v]] = text'[v]
      BY DEF AloneStored
    <3>1. CASE v = w
      BY <2>1, <2>2, <3>1 DEF WritersTyped
    <3>2. CASE v # w
      <4>1. file'[v] = file[v] /\ file[v] \in Files /\ Active(file[v]) = {v}
        BY <2>1, <3>2 DEF AloneStored
      <4>2. file[v] # f
        BY <2>1, <4>1
      <4> QED
        BY <2>1, <2>2, <3>2, <4>1, <4>2 DEF AloneStored, WritersTyped
    <3> QED
      BY <3>1, <3>2
  <2>4. PassStored'
    <3> SUFFICES ASSUME nodes # None, NEW g \in OnDisk, <<Pass, g>> \notin disturbed'
                 PROVE  Active(g)' = {Pass} /\ (nodes[g] # None => symbols[g] = nodes[g])
      BY <2>1 DEF PassStored
    <3>1. Active(g) = {Pass} /\ (nodes[g] # None => symbols[g] = nodes[g])
      BY <2>1 DEF PassStored
    <3>2. g # f
      BY <2>1, <3>1
    <3> QED
      BY <2>2, <3>1, <3>2
  <2>5. SymbolsMatchHashes'
    BY <2>1, <2>2 DEF SymbolsMatchHashes
  <2> QED
    BY <2>3, <2>4, <2>5
<1>2. ASSUME NEW w \in Writers, StoreSymbols(w) PROVE Vouched'
  <2> DEFINE f == file[w]
  <2>1. /\ f \in Files /\ f # None /\ w \in Active(f)
        /\ symbols' = [symbols EXCEPT ![f] = text[w]] /\ symbols \in [Files -> TextOrNone]
        /\ pc' = [pc EXCEPT ![w] = "nodes"] /\ pc \in [Writers -> {"idle", "symbols", "nodes"}]
        /\ UNCHANGED <<projectHashes, file, text, todo, nodes, disturbed, mixed>>
    BY <1>2, TextAssumption
       DEF StoreSymbols, WritersTyped, Contained, Contents, Active, indexVars, passVars, historyVars
  <2>2. \A g : Active(g)' = Active(g)
    BY <2>1 DEF Active
  <2>3. AloneStored'
    BY <2>1, <2>2 DEF AloneStored, WritersTyped
  <2>4. PassStored'
    BY <2>1, <2>2 DEF PassStored
  <2>5. SymbolsMatchHashes'
    BY <2>1, <2>2 DEF SymbolsMatchHashes
  <2> QED
    BY <2>3, <2>4, <2>5
<1>3. ASSUME NEW w \in Writers, PutProjectNodes(w) PROVE Vouched'
  <2>0. PICK f \in Files : f = file[w]
    BY <1>3, TextAssumption DEF PutProjectNodes, WritersTyped
  <2>1. /\ f = file[w] /\ f # None /\ w \in Active(f) /\ pc[w] = "nodes"
        /\ projectHashes' = [projectHashes EXCEPT ![f] = text[w]]
        /\ projectHashes \in [Files -> TextOrNone]
        /\ pc' = [pc EXCEPT ![w] = "idle"] /\ text' = [text EXCEPT ![w] = None]
        /\ file' = [file EXCEPT ![w] = None] /\ file \in [Writers -> Files \cup {None}]
        /\ mixed' = (mixed \ {f}) \cup {g \in {f} : <<w, g>> \in disturbed}
        /\ disturbed' = disturbed \ ({w} \X {f})
        /\ UNCHANGED <<symbols, todo, nodes>>
    BY <1>3, <2>0, TextAssumption
       DEF PutProjectNodes, Finish, Leave, WritersTyped, Contained, Contents, Active, passVars
  <2>2. /\ Active(f)' = Active(f) \ {w}
        /\ \A g \in Files : g # f => Active(g)' = Active(g)
    <3>1. \A v \in Writers : file'[v] = IF v = w THEN None ELSE file[v]
      BY <2>1
    <3> QED
      BY <2>1, <3>1, TextAssumption DEF Active
  <2>3. AloneStored'
    <3> SUFFICES ASSUME NEW v \in Writers, file'[v] # None, <<v, file'[v]>> \notin disturbed'
                 PROVE  /\ Active(file[v])' = {v}
                        /\ pc'[v] = "nodes" => symbols'[file'[v]] = text'[v]
      BY DEF AloneStored
    <3>1. v # w
      BY <2>1
    <3>2. file'[v] = file[v] /\ file[v] \in Files /\ <<v, file[v]>> \notin disturbed
      BY <2>1, <3>1
    <3>3. Active(file[v]) = {v}
      BY <2>1, <3>2 DEF AloneStored
    <3>4. file[v] # f
      BY <2>1, <3>1, <3>3
    <3> QED
      BY <2>1, <2>2, <3>1, <3>2, <3>3, <3>4 DEF AloneStored, WritersTyped
  <2>4. PassStored'
    <3> SUFFICES ASSUME nodes # None, NEW g \in OnDisk, <<Pass, g>> \notin disturbed'
                 PROVE  Active(g)' = {Pass} /\ (nodes[g] # None => symbols[g] = nodes[g])
      BY <2>1 DEF PassStored
    <3>1. Active(g) = {Pass} /\ (nodes[g] # None => symbols[g] = nodes[g])
      BY <2>1 DEF PassStored
    <3>2. g # f
      BY <2>1, <3>1
    <3> QED
      BY <2>2, <3>1, <3>2
  <2>5. SymbolsMatchHashes'
    <3> SUFFICES ASSUME NEW g \in Files, Active(g)' = {}, g \notin mixed'
                 PROVE  projectHashes'[g] \in {None, symbols[g]}
      BY <2>1 DEF SymbolsMatchHashes
    <3>1. CASE g = f
      BY <2>1, <3>1 DEF AloneStored
    <3>2. CASE g # f
      BY <2>1, <2>2, <3>2 DEF SymbolsMatchHashes
    <3> QED
      BY <3>1, <3>2
  <2> QED
    BY <2>3, <2>4, <2>5
<1>4. CASE ListFiles
  <2>1. /\ nodes = None /\ nodes' = [f \in Files |-> None] /\ nodes' # None
        /\ todo' = OnDisk /\ OnDisk \subseteq Files
        /\ disturbed' = disturbed \cup UNION {IF Active(f) = {} THEN {}
                                              ELSE (Active(f) \cup {Pass}) \X {f} : f \in OnDisk}
        /\ UNCHANGED <<projectHashes, symbols, pc, file, text, mixed>>
    BY <1>4, TextAssumption DEF ListFiles, Enter, indexVars, writerVars
  <2>2. \A f \in Files : Active(f)' = IF f \in OnDisk THEN Active(f) \cup {Pass} ELSE Active(f)
    BY <2>1 DEF Active
  <2>3. \A f \in OnDisk : Active(f) # {} =>
          \A x \in Active(f) \cup {Pass} : <<x, f>> \in disturbed'
    BY <2>1
  <2>4. AloneStored'
    <3> SUFFICES ASSUME NEW v \in Writers, file[v] # None, <<v, file[v]>> \notin disturbed'
                 PROVE  /\ Active(file[v])' = {v}
                        /\ pc[v] = "nodes" => symbols[file[v]] = text[v]
      BY <2>1 DEF AloneStored
    <3>1. file[v] \in Files /\ <<v, file[v]>> \notin disturbed
      BY <2>1 DEF WritersTyped
    <3>2. Active(file[v]) = {v} /\ (pc[v] = "nodes" => symbols[file[v]] = text[v])
      BY <3>1 DEF AloneStored
    <3>3. file[v] \notin OnDisk
      BY <2>3, <3>2
    <3> QED
      BY <2>1, <2>2, <3>1, <3>2, <3>3
  <2>5. PassStored'
    <3>1. ASSUME NEW f \in OnDisk, <<Pass, f>> \notin disturbed' PROVE Active(f)' = {Pass}
      BY <2>1, <2>2, <2>3, <3>1
    <3> QED
      BY <2>1, <3>1 DEF PassStored
  <2>6. SymbolsMatchHashes'
    BY <2>1, <2>2 DEF SymbolsMatchHashes
  <2> QED
    BY <2>4, <2>5, <2>6
<1>5. ASSUME NEW f \in Files, IndexFile(f) PROVE Vouched'
  <2>1. /\ f \in todo /\ todo \subseteq OnDisk /\ nodes # None /\ nodes \in Contents
        /\ Pass \in Active(f)
        /\ todo' = todo \ {f}
        /\ UNCHANGED <<projectHashes, pc, file, text, disturbed, mixed>>
    BY <1>5 DEF IndexFile, Contained, PassStored, Active, indexVars, writerVars, historyVars
  <2>2. PICK t \in TextsOf[f] \cup {None} :
          \/ t # None /\ nodes' = [nodes EXCEPT ![f] = t] /\ symbols' = [symbols EXCEPT ![f] = t]
          \/ UNCHANGED <<nodes, symbols>>
    BY <1>5, TextAssumption DEF IndexFile
  <2>3. nodes' # None
    BY <2>1, <2>2, TextAssumption DEF Contents, TextOrNone
  <2>4. \A g : Active(g)' = Active(g)
    BY <2>1, <2>3 DEF Active
  <2>5. symbols \in [Files -> TextOrNone] /\ nodes \in [Files -> TextOrNone]
    BY <2>1 DEF Contained, Contents
  <2>6. \A g \in Files : g # f => symbols'[g] = symbols[g] /\ nodes'[g] = nodes[g]
    BY <2>2, <2>5
  <2>7. AloneStored'
    <3> SUFFICES ASSUME NEW v \in Writers, file[v] # None, <<v, file[v]>> \notin disturbed
                 PROVE  /\ Active(file[v]) = {v}
                        /\ pc[v] = "nodes" => symbols'[file[v]] = text[v]
      BY <2>1, <2>4 DEF AloneStored
    <3>1. Active(file[v]) = {v} /\ (pc[v] = "nodes" => symbols[file[v]] = text[v])
      BY DEF AloneStored
    <3>2. file[v] \in Files /\ file[v] # f
      BY <2>1, <3>1 DEF WritersTyped
    <3> QED
      BY <2>6, <3>1, <3>2
  <2>8. PassStored'
    <3>1. ASSUME NEW g \in OnDisk, <<Pass, g>> \notin disturbed
          PROVE  Active(g) = {Pass} /\ (nodes'[g] # None => symbols'[g] = nodes'[g])
      <4>1. Active(g) = {Pass} /\ (nodes[g] # None => symbols[g] = nodes[g])
        BY <2>1, <3>1 DEF PassStored
      <4>2. CASE g = f
        BY <2>2, <2>5, <4>1, <4>2
      <4>3. CASE g # f
        BY <2>6, <4>1, <4>3
      <4> QED
        BY <4>2, <4>3
    <3>2. \A g \in Files \ OnDisk : nodes'[g] = None
      BY <2>1, <2>6 DEF PassStored
    <3> QED
      BY <2>1, <2>4, <3>1, <3>2 DEF PassStored
  <2>9. SymbolsMatchHashes'
    BY <2>1, <2>4, <2>6 DEF SymbolsMatchHashes
  <2> QED
    BY <2>7, <2>8, <2>9
<1>6. CASE ReplaceWorkspaceProjectNodes
  <2>1. /\ nodes # None /\ nodes \in [Files -> TextOrNone] /\ nodes' = None
        /\ projectHashes' = nodes
        /\ mixed' = (mixed \ OnDisk) \cup {g \in OnDisk : <<Pass, g>> \in disturbed}
        /\ disturbed' = disturbed \ ({Pass} \X OnDisk)
        /\ UNCHANGED <<symbols, pc, file, text, todo>>
    BY <1>6 DEF ReplaceWorkspaceProjectNodes, Leave, Contained, Contents, writerVars
  <2>2. \A f : Active(f)' = Active(f) \ {Pass}
    BY <2>1 DEF Active
  <2>3. AloneStored'
    <3> SUFFICES ASSUME NEW v \in Writers, file[v] # None, <<v, file[v]>> \notin disturbed'
                 PROVE  /\ Active(file[v])' = {v}
                        /\ pc[v] = "nodes" => symbols[file[v]] = text[v]
      BY <2>1 DEF AloneStored
    <3>1. <<v, file[v]>> \notin disturbed
      BY <2>1
    <3> QED
      BY <2>1, <2>2, <3>1 DEF AloneStored
  <2>4. PassStored'
    BY <2>1 DEF PassStored
  <2>5. SymbolsMatchHashes'
    <3> SUFFICES ASSUME NEW g \in Files, Active(g)' = {}, g \notin mixed'
                 PROVE  nodes[g] \in {None, symbols[g]}
      BY <2>1 DEF SymbolsMatchHashes
    <3> QED
      BY <2>1 DEF PassStored
  <2> QED
    BY <2>3, <2>4, <2>5
<1>7. CASE UNCHANGED <<projectHashes, symbols, pc, file, text, todo, nodes, disturbed, mixed>>
  BY <1>7 DEF AloneStored, PassStored, SymbolsMatchHashes, Active
<1>8. CASE SetStubs
  BY <1>7, <1>8 DEF SetStubs, writerVars, passVars, historyVars
<1>9. CASE KeepIndex
  BY <1>7, <1>9 DEF KeepIndex, indexVars, writerVars, passVars, historyVars
<1>10. ASSUME NEW w \in Writers, NEW f \in Files, NEW t \in TextsOf[f], Skip(w, f, t)
       PROVE  Vouched'
  BY <1>7, <1>10 DEF Skip, indexVars, writerVars, passVars, historyVars
<1> QED
  BY <1>1, <1>2, <1>3, <1>4, <1>5, <1>6, <1>8, <1>9, <1>10, Steps DEF IndexStep, WriterStep

-----------------------------------------------------------------------------
(* The invariant and what follows from it.                                 *)

SemanticIndexInv == TypeOK /\ LastHits /\ Vouched

(* The invariant holds from the start.                                   *)
LEMMA InvariantHolds == Spec => []SemanticIndexInv
<1>1. Init => SemanticIndexInv
  <2> SUFFICES ASSUME Init PROVE SemanticIndexInv
    OBVIOUS
  <2>1. Contained /\ WritersTyped /\ CacheTyped
    BY TextAssumption DEF Init, Contained, Contents, TextOrNone, WritersTyped, CacheTyped, Views
  <2>2. Len(semanticChanges) = 0 /\ semanticChanges \in Seq(Recorded)
    BY DEF Init
  <2>3. Ring
    BY <2>2, RingAssumption DEF Init, Ring
  <2>4. LastHits
    BY <2>2 DEF LastHits, HasLast, Hits
  <2>5. Vouched
    BY DEF Init, Vouched, AloneStored, PassStored, SymbolsMatchHashes
  <2> QED
    BY <2>1, <2>3, <2>4, <2>5, TypeParts DEF SemanticIndexInv
<1>2. SemanticIndexInv /\ [Next]_vars => SemanticIndexInv'
  <2> SUFFICES ASSUME SemanticIndexInv, [Next]_vars PROVE SemanticIndexInv'
    OBVIOUS
  <2>1. Contained /\ WritersTyped /\ CacheTyped /\ Ring /\ LastHits /\ Vouched
    BY TypeParts DEF SemanticIndexInv
  <2>2. Contained' /\ WritersTyped' /\ CacheTyped'
    BY <2>1, ContainedPreserved, WritersPreserved, CachePreserved
  <2>3. Ring' /\ LastHits'
    BY <2>1, RingPreserved
  <2>4. Vouched'
    BY <2>1, VouchedPreserved
  <2>5. TypeOK'
    BY <2>2, <2>3 DEF TypeOK, Contained, WritersTyped, CacheTyped, Ring, Recorded
  <2> QED
    BY <2>3, <2>4, <2>5 DEF SemanticIndexInv
<1> QED
  BY <1>1, <1>2, PTL DEF Spec

(* The types hold, and the ring is every revision after its base           *)
(* (recordSemanticChangesLocked).                                          *)
THEOREM TypeCorrect == Spec => []TypeOK
<1>1. SemanticIndexInv => TypeOK
  BY DEF SemanticIndexInv
<1> QED
  BY <1>1, InvariantHolds, PTL

(* The revision documentSemanticRevision gives a text never falls, so an   *)
(* entry of the cache that is outdated stays so.                           *)
THEOREM RevisionsGrow == Spec => RevisionNeverFalls
<1>1. SemanticIndexInv /\ [Next]_vars =>
        [\/ UNCHANGED revisionVars
         \/ \A t \in Texts : DocumentRevision(t)' >= DocumentRevision(t)]_vars
  BY TypeParts, RingPreserved DEF SemanticIndexInv
<1> QED
  BY <1>1, InvariantHolds, PTL DEF Spec, RevisionNeverFalls

(* The hash that lets IndexDocument skip a text vouches for the symbols in *)
(* the store, unless two indexers of the file overlapped.                  *)
THEOREM HashesVouch == Spec => []SymbolsMatchHashes
<1>1. SemanticIndexInv => SymbolsMatchHashes
  BY DEF SemanticIndexInv, Vouched
<1> QED
  BY <1>1, InvariantHolds, PTL

(* No step but SetStubs takes from the project the declarations a hash     *)
(* vouches for (rebuildProjectIndexLocked after a compaction).             *)
THEOREM DeclarationsKept == Spec => OnlyStubsLose
<1>1. SemanticIndexInv /\ [Next]_vars =>
        [UNCHANGED indexVars \/ SetStubs \/ \A f \in Files : Lost(f)' => Lost(f)]_vars
  <2> SUFFICES ASSUME Contained, WritersTyped, [Next]_vars, ~SetStubs,
                      NEW f \in Files, Lost(f)', ~Lost(f)
               PROVE  FALSE
    BY TypeParts DEF SemanticIndexInv
  <2>1. ASSUME NEW w \in Writers, PutProjectNodes(w) PROVE FALSE
    <3>1. /\ project' = [project EXCEPT ![file[w]] = text[w]]
          /\ projectHashes' = [projectHashes EXCEPT ![file[w]] = text[w]]
          /\ project \in Contents /\ projectHashes \in Contents
      BY <2>1 DEF PutProjectNodes, RebuildFiles, Replace, Contained
    <3> QED
      BY <3>1 DEF Lost, Contents
  <2>2. CASE ReplaceWorkspaceProjectNodes
    BY <2>2 DEF ReplaceWorkspaceProjectNodes, Rebuild, Replace, Lost
  <2>3. CASE UNCHANGED indexVars
    BY <2>3 DEF indexVars, Lost
  <2> QED
    BY <2>1, <2>2, <2>3, Steps
       DEF IndexStep, WriterStep, Begin, Skip, StoreSymbols, ListFiles, IndexFile, KeepIndex
<1> QED
  BY <1>1, InvariantHolds, PTL DEF Spec, OnlyStubsLose
=============================================================================
