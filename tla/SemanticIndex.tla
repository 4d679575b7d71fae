---------------------------- MODULE SemanticIndex ----------------------------
(***************************************************************************)
(* What the indexer knows of the declarations of the workspace, the        *)
(* revisions that say when that changed (server/indexer/indexer.go), and   *)
(* the cache of per-document facts that relies on them                     *)
(* (server/providers/semantic_cache.go).                                   *)
(*                                                                         *)
(* A text is what it declares and which names it mentions; a hash is the   *)
(* text it was computed from.  The project is the text each file's         *)
(* declarations were taken from, the symbol store (SymbolIndex) the text   *)
(* each file's symbols were.  The analysis library is external: what it    *)
(* derives of a text (Facts) and which names it reports as changed         *)
(* (DependencyNames) are modelled from how the indexer uses them.          *)
(***************************************************************************)
EXTENDS Naturals, FiniteSets, Sequences

CONSTANTS
  Files, Names, Texts,
  TextsOf,     \* the texts each file may have
  Exports,     \* text -> its declarations, each with a name and a parent
  Mentions,    \* text -> the names that occur in it
  OnDisk,      \* what the directory walk of a pass lists
  Cached,      \* files analysed through the cache
  Writers,     \* goroutines in IndexDocument or RemoveDocument
  Analysts,    \* goroutines in analysisContextForFile
  Pass,        \* the goroutine of an index pass
  MaxEvents,   \* maxSemanticChangeEvents
  MaxNames,    \* maxSemanticChangeDependencyNames
  MaxRevision, \* bound: no change is indexed beyond it
  None

Declarations == UNION {Exports[t] : t \in Texts}

ASSUME TextAssumption ==
  /\ IsFiniteSet(Files) /\ IsFiniteSet(Names) /\ IsFiniteSet(Texts)
  /\ TextsOf \in [Files -> SUBSET Texts]
  /\ Mentions \in [Texts -> SUBSET Names]
  /\ DOMAIN Exports = Texts
  /\ \A d \in Declarations : d.name \in Names /\ d.parent \in Names \cup {None}
  \* a declaration's name and parent stand in the text
  /\ \A t \in Texts : \A d \in Exports[t] : {d.name, d.parent} \ {None} \subseteq Mentions[t]
  /\ None \notin Names \cup Texts \cup Files \cup [Files -> Texts \cup {None}]
ASSUME ActorAssumption ==
  /\ OnDisk \subseteq Files /\ Cached \subseteq Files
  /\ Pass \notin Writers
ASSUME RingAssumption ==
  /\ MaxEvents \in Nat /\ MaxNames \in Nat /\ MaxRevision \in Nat

VARIABLES
  project,          \* file -> the text whose declarations it holds
  projectNodes,     \* file -> the text whose tree is retained
  projectHashes,    \* file -> the text last indexed
  symbols,          \* file -> the text whose symbols the store holds
  workspaceURIs,
  semanticRevision, semanticBase, semanticChanges,
  pc, file, text,   \* of each writer; text None in RemoveDocument
  todo, nodes,      \* of a pass: files to read, what was read; nodes None: no pass runs
  byURI, analysis,  \* the document cache
  view,             \* of each analyst
  disturbed, mixed, \* history: who overlapped on a file, and what that left
  doubled           \* history: files the project had a declaration of from another, too

indexVars == <<project, projectNodes, projectHashes, doubled>>
revisionVars == <<semanticRevision, semanticBase, semanticChanges>>
writerVars == <<pc, file, text>>
passVars == <<todo, nodes>>
cacheVars == <<byURI, analysis>>
historyVars == <<disturbed, mixed>>
vars == <<indexVars, symbols, workspaceURIs, revisionVars, writerVars, passVars,
          cacheVars, view, historyVars>>

TextOrNone == Texts \cup {None}
Contents == [Files -> TextOrNone]
Event(r, S) == [revision |-> r, names |-> S]
Entry(t, r, F) == [text |-> t, revision |-> r, facts |-> F]
Entries == [text : Texts, revision : Nat, facts : SUBSET Declarations]
Idle == [at |-> "idle"]
Views ==
  {Idle} \cup [at : {"parse", "project"}, file : Cached, text : Texts]
    \cup [at : {"lookup", "store"}, file : Cached, text : Texts,
          facts : SUBSET Declarations, revision : Nat]

(* The types, and that the ring holds every revision after its base.       *)
TypeOK ==
  /\ project \in Contents /\ projectNodes \in Contents
  /\ projectHashes \in Contents /\ symbols \in Contents
  /\ workspaceURIs \subseteq Files
  /\ semanticRevision \in Nat /\ semanticBase \in Nat
  /\ semanticChanges \in Seq([revision : Nat, names : SUBSET Names])
  /\ Len(semanticChanges) <= MaxEvents
  /\ semanticRevision = semanticBase + Len(semanticChanges)
  /\ \A i \in 1..Len(semanticChanges) : semanticChanges[i].revision = semanticBase + i
  /\ pc \in [Writers -> {"idle", "symbols", "nodes"}]
  /\ file \in [Writers -> Files \cup {None}] /\ text \in [Writers -> TextOrNone]
  /\ \A w \in Writers : pc[w] = "idle" <=> file[w] = None
  /\ todo \subseteq Files /\ nodes \in Contents \cup {None} /\ (nodes = None => todo = {})
  /\ byURI \in [Files -> TextOrNone] /\ analysis \in [Files -> Entries \cup {None}]
  /\ view \in [Analysts -> Views]
  /\ mixed \subseteq Files /\ doubled \subseteq Files

Init ==
  /\ project = [f \in Files |-> None] /\ projectNodes = project
  /\ projectHashes = project /\ symbols = project
  /\ workspaceURIs = {}
  /\ semanticRevision = 0 /\ semanticBase = 0 /\ semanticChanges = <<>>
  /\ pc = [w \in Writers |-> "idle"]
  /\ file = [w \in Writers |-> None] /\ text = [w \in Writers |-> None]
  /\ todo = {} /\ nodes = None
  /\ byURI = [f \in Files |-> None] /\ analysis = [f \in Files |-> None]
  /\ view = [a \in Analysts |-> Idle]
  /\ disturbed = {} /\ mixed = {} /\ doubled = {}

-----------------------------------------------------------------------------
(***************************************************************************)
(* The analysis library.                                                   *)
(***************************************************************************)
Own(t) == IF t = None THEN {} ELSE Exports[t]
Others(p, f) == UNION {Own(p[g]) : g \in Files \ {f}}
Declared(p) == UNION {Own(p[f]) : f \in Files}

(* S and the names its declarations inherit from, however far.            *)
Closed(D, T) == \A d \in D : d.name \in T /\ d.parent # None => d.parent \in T

Lineage(D, S) ==
  LET closed == {T \in SUBSET Names : S \subseteq T /\ Closed(D, T)}
  IN {n \in Names : \A T \in closed : n \in T}

(* What an analysis of the text sees of the project.                       *)
Facts(p, t) ==
  LET D == Declared(p)  L == Lineage(D, Mentions[t])
  IN {d \in D : d.name \in L}

(* The names whose declarations differ, and those that inherit from them.  *)
DependencyNames(p, q) ==
  LET D == Declared(p)  E == Declared(q)
      changed == {d.name : d \in (D \ E) \cup (E \ D)}
  IN {n \in Names : (Lineage(D, {n}) \cup Lineage(E, {n})) \cap changed # {}}

(***************************************************************************)
(* Revisions.                                                              *)
(***************************************************************************)
MayChange == semanticRevision < MaxRevision

ForgetOldest(S, complete) ==
  /\ MayChange
  /\ semanticRevision' = semanticRevision + 1
  /\ semanticChanges' = LET grown == Append(semanticChanges, Event(semanticRevision + 1, S))
                        IN IF Len(grown) > MaxEvents THEN Tail(grown) ELSE grown
  /\ UNCHANGED semanticBase

KeepBase(S, complete) ==
  /\ MayChange
  /\ semanticRevision' = semanticRevision + 1
  /\ IF complete /\ Len(semanticChanges) < MaxEvents
     THEN semanticChanges' = Append(semanticChanges, Event(semanticRevision + 1, S))
     ELSE semanticChanges' = <<>>
  /\ UNCHANGED semanticBase

(* recordSemanticChangesLocked: a change that cannot be told by names, or  *)
(* one too many, moves the base.                                           *)
RecordChange(S, complete) ==
  /\ MayChange
  /\ semanticRevision' = semanticRevision + 1
  /\ LET fits == /\ complete /\ S # {} /\ Cardinality(S) <= MaxNames
                 /\ Len(semanticChanges) < MaxEvents
     IN \/ /\ fits
           /\ semanticChanges' = Append(semanticChanges, Event(semanticRevision + 1, S))
           /\ UNCHANGED semanticBase
        \/ /\ ~fits
           /\ semanticChanges' = <<>>
           /\ semanticBase' = semanticRevision + 1

Hits(t) == {i \in 1..Len(semanticChanges) : semanticChanges[i].names \cap Mentions[t] # {}}

DocumentRevision(t) ==
  LET hits == Hits(t)
  IN IF hits = {} THEN semanticBase
     ELSE semanticChanges[CHOOSE i \in hits : \A j \in hits : j <= i].revision

(* The project becomes p.                                                  *)
Replace(p) ==
  /\ project' = p
  /\ doubled' = doubled \cup {f \in Files : Own(p[f]) \cap Others(p, f) # {}}

RebuildFromTrees(f, t) ==
  /\ Replace([projectNodes EXCEPT ![f] = t])
  /\ RecordChange({}, FALSE)

(* rebuildProjectIndexFilesLocked: the other files keep what the project   *)
(* has of them, retained tree or not.  The library may fall back to a      *)
(* build whose changes it cannot name.                                     *)
RebuildFiles(f, t) ==
  /\ Replace([project EXCEPT ![f] = t])
  /\ LET S == DependencyNames(project, project') IN
       \/ S = {} /\ UNCHANGED revisionVars
       \/ S # {} /\ RecordChange(S, TRUE)
       \/ RecordChange(S, FALSE)

(* rebuildProjectIndexLocked builds from the retained trees alone.         *)
Rebuild(trees) == Replace(trees) /\ RecordChange({}, FALSE)

-----------------------------------------------------------------------------
(***************************************************************************)
(* IndexDocument and RemoveDocument.                                       *)
(***************************************************************************)
Active(f) ==
  {w \in Writers : file[w] = f}
    \cup (IF nodes # None /\ f \in OnDisk THEN {Pass} ELSE {})

(* History: x starts on the files F, and ends having written them.         *)
Enter(x, F) ==
  disturbed' = disturbed \cup UNION {IF Active(f) = {} THEN {}
                                     ELSE (Active(f) \cup {x}) \X {f} : f \in F}
Leave(x, F) ==
  /\ mixed' = (mixed \ F) \cup {f \in F : <<x, f>> \in disturbed}
  /\ disturbed' = disturbed \ ({x} \X F)

Begin(w, f, t) ==
  /\ pc[w] = "idle" /\ Enter(w, {f})
  /\ pc' = [pc EXCEPT ![w] = "symbols"]
  /\ file' = [file EXCEPT ![w] = f] /\ text' = [text EXCEPT ![w] = t]
  /\ UNCHANGED <<indexVars, symbols, workspaceURIs, revisionVars, passVars, cacheVars, view, mixed>>

(* A text already indexed is only tracked.                                 *)
Skip(w, f, t) ==
  /\ pc[w] = "idle" /\ projectHashes[f] = t
  /\ workspaceURIs' = workspaceURIs \cup {f}
  /\ UNCHANGED <<indexVars, symbols, revisionVars, writerVars, passVars, cacheVars, view, historyVars>>

IndexDocument(w, f, t) == Skip(w, f, t) \/ (projectHashes[f] # t /\ Begin(w, f, t))
RemoveDocument(w, f) == Begin(w, f, None)

(* index.PutFile or RemoveFile; an indexer parses before it.               *)
StoreSymbols(w) ==
  /\ pc[w] = "symbols"
  /\ pc' = [pc EXCEPT ![w] = "nodes"]
  /\ symbols' = [symbols EXCEPT ![file[w]] = text[w]]
  /\ UNCHANGED <<indexVars, workspaceURIs, revisionVars, file, text, passVars, cacheVars, view, historyVars>>

Finish(w) ==
  /\ pc' = [pc EXCEPT ![w] = "idle"]
  /\ file' = [file EXCEPT ![w] = None] /\ text' = [text EXCEPT ![w] = None]
  /\ Leave(w, {file[w]})
  /\ workspaceURIs' = IF text[w] = None THEN workspaceURIs \ {file[w]}
                      ELSE workspaceURIs \cup {file[w]}

KeepHash(w) ==
  /\ pc[w] = "nodes"
  /\ projectNodes' = [projectNodes EXCEPT ![file[w]] = text[w]]
  /\ projectHashes' = [projectHashes EXCEPT ![file[w]] = IF text[w] = None THEN @ ELSE text[w]]
  /\ RebuildFiles(file[w], text[w])
  /\ Finish(w)
  /\ UNCHANGED <<symbols, passVars, cacheVars, view>>

(* putProjectNodes or removeProjectNodes; the file list, with a lock of    *)
(* its own, is updated right after.                                        *)
PutProjectNodes(w) ==
  /\ pc[w] = "nodes"
  /\ projectNodes' = [projectNodes EXCEPT ![file[w]] = text[w]]
  /\ projectHashes' = [projectHashes EXCEPT ![file[w]] = text[w]]
  /\ RebuildFiles(file[w], text[w])
  /\ Finish(w)
  /\ UNCHANGED <<symbols, passVars, cacheVars, view>>

(***************************************************************************)
(* An index pass (Pass, one at a time).                                    *)
(***************************************************************************)
ListFiles ==
  /\ nodes = None
  /\ workspaceURIs' = OnDisk
  /\ todo' = OnDisk /\ nodes' = [f \in Files |-> None]
  /\ Enter(Pass, OnDisk)
  /\ UNCHANGED <<indexVars, symbols, revisionVars, writerVars, cacheVars, view, mixed>>

(* A worker indexes a file, or cannot read it.                             *)
IndexFile(f) ==
  /\ f \in todo
  /\ todo' = todo \ {f}
  /\ \/ \E t \in TextsOf[f] : nodes' = [nodes EXCEPT ![f] = t] /\ symbols' = [symbols EXCEPT ![f] = t]
     \/ UNCHANGED <<nodes, symbols>>
  /\ UNCHANGED <<indexVars, workspaceURIs, revisionVars, writerVars, cacheVars, view, historyVars>>

(* No stub ever has a tree in projectNodes, so none is kept: the rebuilt   *)
(* project has the declarations, and the compaction drops every tree.      *)
ReplaceWorkspaceProjectNodes ==
  /\ nodes # None /\ todo = {}
  /\ projectHashes' = nodes
  /\ Rebuild(nodes)
  /\ projectNodes' = [f \in Files |-> None]
  /\ nodes' = None
  /\ Leave(Pass, OnDisk)
  /\ UNCHANGED <<symbols, workspaceURIs, todo, writerVars, cacheVars, view>>

(* The stubs themselves are only in the symbol store.                      *)
SetStubs ==
  /\ Rebuild(projectNodes)
  /\ UNCHANGED <<projectNodes, projectHashes, symbols, workspaceURIs, writerVars, passVars,
                 cacheVars, view, historyVars>>

(***************************************************************************)
(* The cache of an editor's documents.                                     *)
(***************************************************************************)
Set(a, r) == view' = [view EXCEPT ![a] = r]
KeepIndex == UNCHANGED <<indexVars, symbols, workspaceURIs, revisionVars, writerVars, passVars, historyVars>>

(* snapshot reads the parse it has; on a miss it stores its own.           *)
Snapshot(a, f, t) ==
  /\ view[a] = Idle
  /\ Set(a, [at |-> IF byURI[f] = t THEN "project" ELSE "parse", file |-> f, text |-> t])
  /\ KeepIndex /\ UNCHANGED cacheVars

StoreParse(a) ==
  /\ view[a].at = "parse"
  /\ byURI' = [byURI EXCEPT ![view[a].file] = view[a].text]
  /\ analysis' = [analysis EXCEPT ![view[a].file] = None]
  /\ Set(a, [view[a] EXCEPT !.at = "project"])
  /\ KeepIndex

(* ProjectIndexSnapshotForFile: the project as it is when the hash vouches *)
(* for the file, else with the text over it.                               *)
ProjectFor(f, t) == IF projectHashes[f] = t THEN project ELSE [project EXCEPT ![f] = t]

TakeProject(a) ==
  /\ view[a].at = "project"
  /\ LET f == view[a].file  t == view[a].text IN
       Set(a, [at |-> "lookup", file |-> f, text |-> t,
               facts |-> Facts(ProjectFor(f, t), t), revision |-> DocumentRevision(t)])
  /\ KeepIndex /\ UNCHANGED cacheVars

IsHit(a) ==
  LET cached == analysis[view[a].file] IN
    /\ cached # None
    /\ cached.text = view[a].text /\ cached.revision = view[a].revision

(* analysisContextForFile: a hit uses the facts stored, a miss stores its  *)
(* own.                                                                    *)
Lookup(a) ==
  /\ view[a].at = "lookup"
  /\ \/ IsHit(a) /\ Set(a, Idle)
     \/ ~IsHit(a) /\ Set(a, [view[a] EXCEPT !.at = "store"])
  /\ KeepIndex /\ UNCHANGED cacheVars

StoreFacts(a) ==
  /\ view[a].at = "store"
  /\ LET v == view[a] IN
       analysis' = [analysis EXCEPT ![v.file] = Entry(v.text, v.revision, v.facts)]
  /\ Set(a, Idle)
  /\ KeepIndex /\ UNCHANGED byURI

Forget(f) ==
  /\ byURI' = [byURI EXCEPT ![f] = None]
  /\ analysis' = [analysis EXCEPT ![f] = None]
  /\ KeepIndex /\ UNCHANGED view

(* What still runs for the old registry writes to its cache.               *)
NewRegistry ==
  /\ byURI' = [f \in Files |-> None] /\ analysis' = [f \in Files |-> None]
  /\ view' = [a \in Analysts |-> Idle]
  /\ KeepIndex

Next ==
  \/ \E w \in Writers :
       \/ \E f \in Files : RemoveDocument(w, f) \/ \E t \in TextsOf[f] : IndexDocument(w, f, t)
       \/ StoreSymbols(w) \/ PutProjectNodes(w)
  \/ ListFiles \/ ReplaceWorkspaceProjectNodes \/ SetStubs
  \/ \E f \in Files : IndexFile(f)
  \/ \E a \in Analysts :
       \/ \E f \in Cached : \E t \in TextsOf[f] : Snapshot(a, f, t)
       \/ StoreParse(a) \/ TakeProject(a) \/ Lookup(a) \/ StoreFacts(a)
  \/ \E f \in Cached : Forget(f)
  \/ NewRegistry

Spec == Init /\ [][Next]_vars

-----------------------------------------------------------------------------
(***************************************************************************)
(* Properties.                                                             *)
(***************************************************************************)

(* The facts a cache hit returns are those an analysis of the project it   *)
(* was given would compute, however many changes of names the text does    *)
(* not mention came in between, and whatever the ring forgot - unless one  *)
(* of the two was computed when SetStubs had lost the file's declarations, *)
(* or the project once had a declaration of this file from another file    *)
(* too, so that one of them losing it changed nothing it could name.       *)
Knows(t, F) == Exports[t] \subseteq F

HitsAreCurrent ==
  \A a \in Analysts : view[a].at = "lookup" /\ IsHit(a) /\ view[a].file \notin doubled =>
    LET t == view[a].text  F == analysis[view[a].file].facts
    IN Knows(t, F) /\ Knows(t, view[a].facts) => F = view[a].facts

(* The revision of a text never falls: a snapshot once outdated cannot     *)
(* become a hit again.                                                     *)
RevisionNeverFalls ==
  [][\/ UNCHANGED revisionVars
     \/ \A t \in Texts : DocumentRevision(t)' >= DocumentRevision(t)]_vars

(* A stored hash, which makes IndexDocument skip the text, vouches for the *)
(* symbols too, unless two indexers of the file overlapped.                *)
SymbolsMatchHashes ==
  \A f \in Files :
    projectHashes[f] \in {None, symbols[f]} \/ f \in mixed \/ Active(f) # {}

(* The project a hash vouches for has the file's declarations, as the      *)
(* comment of ProjectIndexForFile promises; they are only ever lost to     *)
(* SetStubs, which rebuilds from trees the last pass dropped.              *)
Lost(f) == projectHashes[f] # None /\ project[f] # projectHashes[f]
OnlyStubsLose == [][UNCHANGED indexVars \/ SetStubs \/ \A f \in Files : Lost(f)' => Lost(f)]_vars

-----------------------------------------------------------------------------
(***************************************************************************)
(* What makes HitsAreCurrent inductive.  Held: what the cache and the      *)
(* analyses under way know of a file.  Facts of a text's present revision  *)
(* are those of the project with the text over it, and facts of one        *)
(* revision agree.  A hash vouches for the tree and the declarations of    *)
(* its file, or these are gone.  The project has nothing twice of a file   *)
(* that is not known to be doubled.                                        *)
(***************************************************************************)
Held(f) ==
  {Entry(view[a].text, view[a].revision, view[a].facts) :
     a \in {b \in Analysts : view[b].at \in {"lookup", "store"} /\ view[b].file = f}}
    \cup ({analysis[f]} \ {None})

Overlaid(f, t) == [project EXCEPT ![f] = t]

HeldCurrent ==
  \A f \in Cached \ doubled : \A e \in Held(f) :
    /\ e.revision <= DocumentRevision(e.text)
    /\ e.revision = DocumentRevision(e.text) /\ Knows(e.text, e.facts) =>
         e.facts = Facts(Overlaid(f, e.text), e.text)

HeldAgree ==
  \A f \in Cached \ doubled : \A e, h \in Held(f) :
    /\ e.text = h.text /\ e.revision = h.revision
    /\ Knows(e.text, e.facts) /\ Knows(h.text, h.facts)
    => e.facts = h.facts

HashesKept ==
  \A f \in Files : projectHashes[f] # None =>
    {project[f], projectNodes[f]} \subseteq {projectHashes[f], None}

OnceDeclared == \A f \in Files \ doubled : Own(project[f]) \cap Others(project, f) = {}

CacheInv == HashesKept /\ OnceDeclared /\ HeldCurrent /\ HeldAgree
=============================================================================
