----------------------------- MODULE SymbolIndex ------------------------------
(***************************************************************************)
(* The symbol store of server/indexer/index.go: three maps (by fully       *)
(* qualified name, by lower-case name, by owner) in shards with a lock     *)
(* each, and uriToFQNs with its own.  PutFile and RemoveFile take the      *)
(* locks one at a time, so other goroutines run between any two of them.   *)
(*                                                                         *)
(* Every key has a shard of its own here: keys that share one only remove  *)
(* interleavings.  A symbol is the file that declares it and its name;     *)
(* byName keeps a set of them, so duplicate entries collapse.              *)
(***************************************************************************)
EXTENDS Naturals, FiniteSets

CONSTANTS
  Uris,          \* files
  Fqns,          \* fully qualified names
  Names,         \* lower-case short names
  NameOf,        \* the short name of each fully qualified name
  Members,       \* the names of the form owner::member
  Declarations,  \* what each file may declare: a set of sets of names
  Writers,       \* goroutines in PutFile or RemoveFile
  ClashLimit,    \* bound: no more calls overlap once they clashed on more names
  None           \* no symbol, no file

ASSUME NameAssumption == NameOf \in [Fqns -> Names] /\ Fqns \cap Names = {}
ASSUME MemberAssumption == Members \subseteq Fqns
ASSUME DeclarationAssumption == Declarations \in [Uris -> SUBSET SUBSET Fqns]
ASSUME SymbolAssumption == None \notin Uris \cup [uri : Uris, fqn : Fqns]

VARIABLES
  byFQN, byName, byOwner,  \* the three maps; byOwner's keys are the members
  listed,                  \* uriToFQNs: {} is no entry
  pc,                      \* where each writer is
  uri, new, putting,       \* its arguments: putting is FALSE in RemoveFile
  old, names,              \* the names it removes, and their short names
  todo,                    \* what is left of the loop it is in
  clashed                  \* history: the names two overlapping calls touched

storeVars == <<byFQN, byName, byOwner, listed>>
argVars == <<uri, new, putting>>
vars == <<storeVars, argVars, pc, old, names, todo, clashed>>

Symbols == [uri : Uris, fqn : Fqns]
Symbol(u, x) == [uri |-> u, fqn |-> x]
Loops == {"unfqn", "unname", "unown", "fqn", "name", "own"}

(* The types, and that every symbol is found under its own keys only.      *)
TypeOK ==
  /\ byFQN \in [Fqns -> Symbols \cup {None}]
  /\ byOwner \in [Members -> Symbols \cup {None}]
  /\ byName \in [Names -> SUBSET Symbols]
  /\ listed \in [Uris -> SUBSET Fqns]
  /\ pc \in [Writers -> {"idle", "unlist", "list"} \cup Loops]
  /\ uri \in [Writers -> Uris \cup {None}]
  /\ \A w \in Writers : uri[w] = None <=> pc[w] = "idle"
  /\ new \in [Writers -> SUBSET Fqns] /\ putting \in [Writers -> BOOLEAN]
  /\ old \in [Writers -> SUBSET Fqns] /\ names \in [Writers -> SUBSET Names]
  /\ todo \in [Writers -> SUBSET (Fqns \cup Names)]
  /\ \A w \in Writers : todo[w] \subseteq IF pc[w] = "unname" THEN Names ELSE Fqns
  /\ \A w \in Writers : pc[w] \in {"unown", "own"} => todo[w] \subseteq Members
  /\ clashed \subseteq Fqns
  /\ \A x \in Fqns : byFQN[x] # None => byFQN[x].fqn = x
  /\ \A x \in Members : byOwner[x] # None => byOwner[x].fqn = x
  /\ \A n \in Names : \A s \in byName[n] : NameOf[s.fqn] = n

Init ==
  /\ byFQN = [x \in Fqns |-> None] /\ byOwner = [x \in Members |-> None]
  /\ byName = [n \in Names |-> {}]
  /\ listed = [u \in Uris |-> {}]
  /\ pc = [w \in Writers |-> "idle"]
  /\ uri = [w \in Writers |-> None] /\ new = [w \in Writers |-> {}]
  /\ putting = [w \in Writers |-> FALSE]
  /\ old = [w \in Writers |-> {}] /\ names = [w \in Writers |-> {}]
  /\ todo = [w \in Writers |-> {}]
  /\ clashed = {}

-----------------------------------------------------------------------------
(***************************************************************************)
(* Calls.                                                                  *)
(***************************************************************************)
Touches(w) == old[w] \cup new[w] \cup (IF uri[w] = None THEN {} ELSE listed[uri[w]])

(* Nothing keeps calls apart.  A call that begins while another is under   *)
(* way clashes with it on the names both touch; on all their names when    *)
(* they treat one file, whose entry of uriToFQNs the last one to end sets. *)
Clashes(u, S) ==
  {x \in Fqns : \E v \in Writers :
     /\ pc[v] # "idle"
     /\ IF uri[v] = u THEN x \in Touches(v) \cup S
                      ELSE x \in Touches(v) \cap (S \cup listed[u])}

Idle == \A w \in Writers : pc[w] = "idle"

Call(w, u, S, isPut) ==
  /\ pc[w] = "idle" /\ (Cardinality(clashed) <= ClashLimit \/ Idle)
  /\ pc' = [pc EXCEPT ![w] = "unlist"]
  /\ uri' = [uri EXCEPT ![w] = u]
  /\ new' = [new EXCEPT ![w] = S]
  /\ putting' = [putting EXCEPT ![w] = isPut]
  /\ clashed' = clashed \cup Clashes(u, S)
  /\ UNCHANGED <<storeVars, old, names, todo>>

PutFile(w, u) == \E S \in Declarations[u] : Call(w, u, S, TRUE)
RemoveFile(w, u) == Call(w, u, {}, FALSE)

(***************************************************************************)
(* RemoveFile, which PutFile begins with.                                  *)
(***************************************************************************)
Loop(w, label, keys) ==
  /\ pc' = [pc EXCEPT ![w] = label]
  /\ todo' = [todo EXCEPT ![w] = keys]

Finish(w) ==
  /\ pc' = [pc EXCEPT ![w] = "idle"]
  /\ uri' = [uri EXCEPT ![w] = None] /\ new' = [new EXCEPT ![w] = {}]
  /\ putting' = [putting EXCEPT ![w] = FALSE]
  /\ old' = [old EXCEPT ![w] = {}] /\ names' = [names EXCEPT ![w] = {}]
  /\ todo' = [todo EXCEPT ![w] = {}]

Removed(w) ==
  \/ putting[w] /\ Loop(w, "fqn", new[w]) /\ UNCHANGED <<argVars, old, names>>
  \/ ~putting[w] /\ Finish(w)

(* Without an entry there is nothing to remove.                            *)
Unlist(w) ==
  /\ pc[w] = "unlist"
  /\ \/ listed[uri[w]] = {} /\ Removed(w)
     \/ /\ listed[uri[w]] # {}
        /\ old' = [old EXCEPT ![w] = listed[uri[w]]]
        /\ Loop(w, "unfqn", listed[uri[w]])
        /\ UNCHANGED <<argVars, names>>
  /\ listed' = [listed EXCEPT ![uri[w]] = {}]
  /\ UNCHANGED <<byFQN, byName, byOwner>>

Take(w, k, label) ==
  /\ pc[w] = label /\ k \in todo[w]
  /\ todo' = [todo EXCEPT ![w] = @ \ {k}]
  /\ UNCHANGED <<argVars, pc, old>>

DeleteFqnOnly(w, x) ==
  /\ Take(w, x, "unfqn")
  /\ byFQN' = [byFQN EXCEPT ![x] = None]
  /\ UNCHANGED <<byName, byOwner, listed, names>>

(* Whichever file the entry belongs to; only the names of entries found    *)
(* are looked at next.                                                     *)
DeleteFqn(w, x) ==
  /\ Take(w, x, "unfqn")
  /\ byFQN' = [byFQN EXCEPT ![x] = None]
  /\ names' = [names EXCEPT ![w] = IF byFQN[x] = None THEN @ ELSE @ \cup {NameOf[x]}]
  /\ UNCHANGED <<byName, byOwner, listed>>

DropWholeName(w, n) ==
  /\ Take(w, n, "unname")
  /\ byName' = [byName EXCEPT ![n] = {}]
  /\ UNCHANGED <<byFQN, byOwner, listed, names>>

DropName(w, n) ==
  /\ Take(w, n, "unname")
  /\ byName' = [byName EXCEPT ![n] = {s \in @ : s.uri # uri[w]}]
  /\ UNCHANGED <<byFQN, byOwner, listed, names>>

DeleteOwnMember(w, x) ==
  /\ Take(w, x, "unown")
  /\ byOwner' = [byOwner EXCEPT ![x] = IF @ = Symbol(uri[w], x) THEN None ELSE @]
  /\ UNCHANGED <<byFQN, byName, listed, names>>

DeleteMember(w, x) ==
  /\ Take(w, x, "unown")
  /\ byOwner' = [byOwner EXCEPT ![x] = None]
  /\ UNCHANGED <<byFQN, byName, listed, names>>

(***************************************************************************)
(* The rest of PutFile.                                                    *)
(***************************************************************************)
InsertFqnIfAbsent(w, x) ==
  /\ Take(w, x, "fqn")
  /\ byFQN' = [byFQN EXCEPT ![x] = IF @ = None THEN Symbol(uri[w], x) ELSE @]
  /\ UNCHANGED <<byName, byOwner, listed, names>>

InsertFqn(w, x) ==
  /\ Take(w, x, "fqn")
  /\ byFQN' = [byFQN EXCEPT ![x] = Symbol(uri[w], x)]
  /\ UNCHANGED <<byName, byOwner, listed, names>>

InsertUnderAllNames(w, x) ==
  /\ Take(w, x, "name")
  /\ byName' = [n \in Names |-> IF n \in {NameOf[y] : y \in new[w]}
                                THEN byName[n] \cup {Symbol(uri[w], x)} ELSE byName[n]]
  /\ UNCHANGED <<byFQN, byOwner, listed, names>>

InsertName(w, x) ==
  /\ Take(w, x, "name")
  /\ byName' = [byName EXCEPT ![NameOf[x]] = @ \cup {Symbol(uri[w], x)}]
  /\ UNCHANGED <<byFQN, byOwner, listed, names>>

InsertMember(w, x) ==
  /\ Take(w, x, "own")
  /\ byOwner' = [byOwner EXCEPT ![x] = Symbol(uri[w], x)]
  /\ UNCHANGED <<byFQN, byName, listed, names>>

List(w) ==
  /\ pc[w] = "list"
  /\ listed' = [listed EXCEPT ![uri[w]] = new[w]]
  /\ Finish(w)
  /\ UNCHANGED <<byFQN, byName, byOwner>>

(* The end of a loop, and what comes after it.                             *)
Pass(w) ==
  /\ todo[w] = {}
  /\ \/ pc[w] = "unfqn" /\ Loop(w, "unname", names[w]) /\ UNCHANGED <<argVars, old, names>>
     \/ pc[w] = "unname" /\ Loop(w, "unown", old[w] \cap Members) /\ UNCHANGED <<argVars, old, names>>
     \/ pc[w] = "unown" /\ Removed(w)
     \/ pc[w] = "fqn" /\ Loop(w, "name", new[w]) /\ UNCHANGED <<argVars, old, names>>
     \/ pc[w] = "name" /\ Loop(w, "own", new[w] \cap Members) /\ UNCHANGED <<argVars, old, names>>
     \/ pc[w] = "own" /\ Loop(w, "list", {}) /\ UNCHANGED <<argVars, old, names>>
  /\ UNCHANGED storeVars

Step(w) ==
  \/ Unlist(w) \/ List(w) \/ Pass(w)
  \/ \E n \in Names : DropName(w, n)
  \/ \E x \in Fqns : DeleteFqn(w, x) \/ InsertFqn(w, x) \/ InsertName(w, x)
  \/ \E x \in Members : DeleteMember(w, x) \/ InsertMember(w, x)

Next ==
  \E w \in Writers :
    \/ Step(w) /\ UNCHANGED clashed
    \/ \E u \in Uris : PutFile(w, u) \/ RemoveFile(w, u)

Spec == Init /\ [][Next]_vars

-----------------------------------------------------------------------------
(***************************************************************************)
(* Properties.                                                             *)
(***************************************************************************)
(* A name only file u may declare.                                         *)
Declarable(u) == UNION Declarations[u]
Exclusive(u) == {x \in Declarable(u) : \A v \in Uris \ {u} : x \notin Declarable(v)}

(* The names a writer removes and inserts, once it has taken its list.     *)
InFlight(w) == IF pc[w] \in {"idle", "unlist"} THEN {} ELSE old[w] \cup new[w]
Settled(x) == \A w \in Writers : x \notin InFlight(w)

Exact(u, x) ==
  /\ x \in listed[u] <=> byFQN[x] = Symbol(u, x)
  /\ x \in listed[u] <=> Symbol(u, x) \in byName[NameOf[x]]

(* Whatever the writers of other names are doing: a name on which calls    *)
(* never clashed, and that no writer is between the maps with, is found by *)
(* its owner, if it has one, and by its short name too when it is found by *)
(* its full name, also when several files declare it; and it belongs to a  *)
(* file that still declares it.                                            *)
FoundIsListed ==
  \A x \in Fqns \ clashed :
    Settled(x) =>
      /\ x \in Members => byOwner[x] = byFQN[x]
      /\ byFQN[x] # None =>
           byFQN[x] \in byName[NameOf[x]] /\ x \in listed[byFQN[x].uri]

(* If moreover one file alone may declare it, it is in all the maps while  *)
(* that file lists it, and in none of them otherwise.                      *)
ExclusiveExact ==
  \A u \in Uris : \A x \in Exclusive(u) \ clashed : Settled(x) => Exact(u, x)

(* While no writer treats a file, no other writer disturbs what lookups    *)
(* find of the names it alone declares, whatever names and owners they     *)
(* share with it.                                                          *)
OthersUntouched ==
  [][\A u \in Uris : (\A w \in Writers : uri[w] # u) =>
       \A x \in Exclusive(u) :
         LET s == Symbol(u, x) IN
           /\ byFQN'[x] = byFQN[x]
           /\ s \in byName'[NameOf[x]] <=> s \in byName[NameOf[x]]
           /\ x \in Members => byOwner'[x] = byOwner[x]]_vars

(* Although their loops interleave lock by lock, writers replace the       *)
(* symbols of their files as if each did it in one step, when it removes   *)
(* the file's entry of uriToFQNs: with the writers under way thought       *)
(* finished, the maps change in no other way, but for the names on which   *)
(* calls have clashed, which are lost sight of when they do.               *)
AsFinished(map) ==
  [x \in DOMAIN map |->
     LET ws == {w \in Writers : x \in InFlight(w)}  w == CHOOSE v \in ws : TRUE
     IN IF x \in clashed THEN None
        ELSE IF ws = {} THEN map[x]
        ELSE IF x \in new[w] THEN Symbol(uri[w], x) ELSE None]
AsFound == AsFinished(byFQN)
AsMember == AsFinished(byOwner)
AsListed ==
  [u \in Uris |->
     {x \in Fqns \ clashed :
        x \in listed[u] \/ \E w \in Writers : uri[w] = u /\ x \in InFlight(w) \cap new[w]}]

Atomic == INSTANCE AtomicSymbols
            WITH found <- AsFound, member <- AsMember, declared <- AsListed, lost <- clashed
ReplacesAtomically == Atomic!Spec

(* What two puts of the same file should leave: the symbols of the one     *)
(* that is listed ("PutFile replaces all symbols for a given URI           *)
(* atomically").                                                           *)
PutReplacesAll ==
  Idle => \A x \in Fqns : byFQN[x] # None => x \in listed[byFQN[x].uri]

(* No short name leads to a file that no longer declares it ("RemoveFile   *)
(* removes all symbols for a URI").                                        *)
RemovedLeavesNoNames ==
  Idle => \A n \in Names : \A s \in byName[n] : s.fqn \in listed[s.uri]

-----------------------------------------------------------------------------
(***************************************************************************)
(* The inductive invariant behind these properties.                        *)
(***************************************************************************)
(* Each loop goes over the names its writer removes or inserts, all of     *)
(* them names its file may declare.                                        *)
ArgumentsOf(w) ==
  /\ pc[w] \in {"idle", "unlist"} => old[w] = {}
  /\ pc[w] = "idle" => new[w] = {}
  /\ pc[w] # "idle" => old[w] \cup new[w] \subseteq Declarable(uri[w])
  /\ ~putting[w] => new[w] = {}
  /\ pc[w] \in {"fqn", "name", "own", "list"} => putting[w]
  /\ pc[w] \in {"unfqn", "unown"} => todo[w] \subseteq old[w]
  /\ pc[w] \in {"fqn", "name", "own"} => todo[w] \subseteq new[w]

ArgumentsFit ==
  /\ \A u \in Uris : listed[u] \subseteq Declarable(u)
  /\ \A w \in Writers : ArgumentsOf(w)

(* Overlapping writers share no names but those on which their calls       *)
(* clashed, and those of one file clash on all; what a file lists while a  *)
(* writer is between the maps comes from such a clash.                     *)
WritersApart ==
  /\ \A v, w \in Writers :
       v # w /\ pc[v] # "idle" /\ pc[w] # "idle" =>
         IF uri[v] = uri[w] THEN Touches(v) \cup Touches(w) \subseteq clashed
                            ELSE Touches(v) \cap Touches(w) \subseteq clashed
  /\ \A w \in Writers : pc[w] \notin {"idle", "unlist"} => listed[uri[w]] \subseteq clashed

(* What a writer has done of one of its loops over S, clashes aside.       *)
Later(label) ==
  CASE label = "unfqn" -> {"unname", "unown", "fqn", "name", "own", "list"}
    [] label = "unown" -> {"fqn", "name", "own", "list"}
    [] label = "fqn"   -> {"name", "own", "list"}
    [] label = "name"  -> {"own", "list"}
    [] label = "own"   -> {"list"}

Done(w, label, S) ==
  {x \in S \ clashed : pc[w] \in Later(label) \/ (pc[w] = label /\ x \notin todo[w])}

FqnsDone(w) ==
  /\ \A x \in Done(w, "fqn", new[w]) : byFQN[x] = Symbol(uri[w], x)
  /\ \A x \in Done(w, "unfqn", old[w]) \ Done(w, "fqn", new[w]) : byFQN[x] = None

MembersDone(w) ==
  /\ \A x \in Done(w, "own", new[w]) \cap Members : byOwner[x] = Symbol(uri[w], x)
  /\ \A x \in (Done(w, "unown", old[w]) \ Done(w, "own", new[w])) \cap Members :
       byOwner[x] = None

NamesInserted(w) ==
  \A x \in Done(w, "name", new[w]) : Symbol(uri[w], x) \in byName[NameOf[x]]

(* The short names of what the file alone declares are found on the way    *)
(* and lose the symbol.                                                    *)
NamesRemoved(w) ==
  \A x \in (old[w] \cap Exclusive(uri[w])) \ clashed :
    /\ pc[w] = "unfqn" /\ x \in todo[w] => byFQN[x] = Symbol(uri[w], x)
    /\ pc[w] = "unfqn" /\ x \notin todo[w] => NameOf[x] \in names[w]
    /\ pc[w] = "unname" => NameOf[x] \in todo[w] \/ Symbol(uri[w], x) \notin byName[NameOf[x]]
    /\ pc[w] \in Later("unown") \cup {"unown"} /\ x \notin Done(w, "name", new[w]) =>
         Symbol(uri[w], x) \notin byName[NameOf[x]]

LoopsOf(w) == FqnsDone(w) /\ MembersDone(w) /\ NamesInserted(w) /\ NamesRemoved(w)
LoopsDone == \A w \in Writers : pc[w] # "idle" => LoopsOf(w)

(* The properties above, for the names no writer is between the maps with. *)
Mirrored(x) == x \in Members => byOwner[x] = byFQN[x]
Listed(x) ==
  byFQN[x] # None => byFQN[x] \in byName[NameOf[x]] /\ x \in listed[byFQN[x].uri]
AgreeOn(x) == Mirrored(x) /\ Listed(x) /\ \A u \in Uris : x \in Exclusive(u) => Exact(u, x)

MapsAgree == \A x \in Fqns \ clashed : Settled(x) => AgreeOn(x)

StoreInv == TypeOK /\ ArgumentsFit
IndexInv == StoreInv /\ WritersApart /\ LoopsDone /\ MapsAgree
=============================================================================
