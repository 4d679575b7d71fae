---------------------------- MODULE TypeResolution ----------------------------
(***************************************************************************)
(* How the language features find classes and their members in the symbol  *)
(* store: the resolver the analysis rules ask (server/providers/           *)
(* diagnostics.go), go-to-definition (providers.go) and the completion of  *)
(* members (completion.go).                                                *)
(*                                                                         *)
(* A store is the sequence of the symbols put in it, in that order; the    *)
(* project's own index, which is asked first, is one of the library        *)
(* tusk/analyse and external.                                              *)
(***************************************************************************)
EXTENDS Naturals, SequencesExt

CONSTANTS
  LowerOf,  \* the lower-case form of the words that have another
  Ranked    \* all paths, in the order of the strings they stand for

Lower(w) == IF w \in DOMAIN LowerOf THEN LowerOf[w] ELSE w
EqualFold(v, w) == Lower(v) = Lower(w)

(* A class name as written, \a\k or a\k; a name from the store is rooted.  *)
Name(r, s) == [rooted |-> r, segments |-> s]
NameKey(n) == [i \in DOMAIN n.segments |-> Lower(n.segments[i])]

(* Symbols.  The parents are what the class extends, then implements, then *)
(* uses; generics gives the arguments its doc comment names for some of    *)
(* them.  A type is a sequence of alternatives, a path each; one of a single *)
(* segment may be a template.                                              *)
Class(path, kind, parents, templates, generics) ==
  [path |-> path, member |-> <<>>, kind |-> kind, parents |-> parents,
   templates |-> templates, generics |-> generics]
Member(path, kind, word, type, visibility, static) ==
  [path |-> path, kind |-> kind, word |-> word, type |-> type, visibility |-> visibility,
   static |-> static, member |-> IF kind = "property" THEN <<"$", word>> ELSE <<word>>]

ClassLike == {"class", "interface", "trait", "enum"}   \* isClassLikeKind
MemberKinds == {"method", "constructor", "property", "const", "case"}
SameFqn(s, t) == s.path = t.path /\ s.member = t.member
None == [kind |-> "none"]
HeadOrNone(syms) == IF syms = <<>> THEN None ELSE Head(syms)
FirstFound(syms) == HeadOrNone(SelectSeq(syms, LAMBDA s : s # None))

-----------------------------------------------------------------------------
(***************************************************************************)
(* The store.                                                              *)
(***************************************************************************)
(* One symbol, the last, is kept of those with the same full name.         *)
GetByFQN(store, path, member) ==
  LET at == {i \in DOMAIN store : store[i].path = path /\ store[i].member = member}
  IN IF at = {} THEN None ELSE store[CHOOSE i \in at : \A j \in at : j <= i]

GetByName(store, w) ==
  SelectSeq(store, LAMBDA s : EqualFold(w, IF s.member = <<>> THEN Last(s.path) ELSE s.word))

(* The members of a class in the order of its file.                        *)
OwnMembers(store, path) ==
  SelectSeq([i \in DOMAIN store |-> GetByFQN(store, store[i].path, store[i].member)],
            LAMBDA s : s.path = path /\ s.kind \in MemberKinds)

MemberByOwner(store, path, w, kind) ==
  HeadOrNone(SelectSeq(OwnMembers(store, path), LAMBDA s : s.kind = kind /\ EqualFold(s.word, w)))

-----------------------------------------------------------------------------
(***************************************************************************)
(* Classes.                                                                *)
(***************************************************************************)
Position(path) == CHOOSE i \in DOMAIN Ranked : Ranked[i] = path
Precedes(s, t) == s.kind = t.kind /\ Position(s.path) < Position(t.path)   \* compareSymbols

(* sortSymbols: stable, by insertion.                                      *)
Inserted(sorted, s) ==
  LET after == {i \in DOMAIN sorted : \A j \in i..Len(sorted) : Precedes(s, sorted[j])}
      at == IF after = {} THEN Len(sorted) + 1 ELSE CHOOSE i \in after : \A j \in after : i <= j
  IN InsertAt(sorted, at, s)
Sorted(syms) == FoldLeft(Inserted, <<>>, syms)

(* prioritizeDefinitionMatches without a preferred kind: of each full name *)
(* the symbol stored first, and classes before anything else.              *)
AddExact(out, s) == IF \E t \in ToSet(out) : SameFqn(s, t) THEN out ELSE Append(out, s)
ClassesIfAny(syms) ==
  LET classes == SelectSeq(syms, LAMBDA s : s.kind \in ClassLike)
  IN IF classes = <<>> THEN syms ELSE classes
PrioritizeDefinitionMatches(syms) == Sorted(ClassesIfAny(FoldLeft(AddExact, <<>>, syms)))

(* resolveClassSymbol: only a name without a separator may be guessed.     *)
ResolveClassSymbol(store, n) ==
  LET exact == GetByFQN(store, n.segments, <<>>)
  IN IF exact.kind \in ClassLike THEN exact
     ELSE IF n.rooted \/ Len(n.segments) > 1 THEN None
     ELSE HeadOrNone(SelectSeq(PrioritizeDefinitionMatches(GetByName(store, Last(n.segments))),
                               LAMBDA s : s.kind \in ClassLike))

(* classLineage: depth first, each name once.                              *)
RECURSIVE Walk(_, _, _)
Walk(store, out, n) ==
  IF \E m \in ToSet(out) : NameKey(m) = NameKey(n) THEN out
  ELSE LET class == ResolveClassSymbol(store, n)
       IN FoldLeft(LAMBDA o, p : Walk(store, o, p), Append(out, n), IF class = None THEN <<>> ELSE class.parents)
ClassLineage(store, n) == Walk(store, <<>>, n)

-----------------------------------------------------------------------------
(***************************************************************************)
(* Members.                                                                *)
(***************************************************************************)
MemberFqn(w, kind) == IF kind = "property" THEN <<"$", w>> ELSE <<w>>

(* resolveDirectMethod, ResolveOwnConstant, resolveDirectProperty.         *)
MemberOf(store, class, w, kind) ==
  IF class = None THEN None
  ELSE LET exact == GetByFQN(store, class.path, MemberFqn(w, kind))
       IN IF exact.kind = kind THEN exact ELSE MemberByOwner(store, class.path, w, kind)
ResolveDirect(store, n, w, kind) == MemberOf(store, ResolveClassSymbol(store, n), w, kind)

(* ResolveProperty, ResolveConstant.                                       *)
ResolveInLineage(store, n, w, kind) ==
  LET lineage == ClassLineage(store, n)
  IN FirstFound([i \in DOMAIN lineage |-> ResolveDirect(store, lineage[i], w, kind)])

(* applyTemplateBindings, token by token; bindings maps templates to types.*)
ApplyTemplateBindings(type, bindings) ==
  FlattenSeq([i \in DOMAIN type |->
    IF type[i] \in DOMAIN bindings THEN bindings[type[i]] ELSE <<type[i]>>])

Unbound == [t \in {} |-> <<>>]
Bind(templates, arguments) ==
  [t \in {templates[i] : i \in 1..(IF Len(templates) < Len(arguments) THEN Len(templates) ELSE Len(arguments))} |->
     arguments[CHOOSE i \in DOMAIN templates : templates[i] = t]]

KeepBindings(class, parent, bindings) == bindings

(* What the templates of a parent stand for: the arguments the class names,*)
(* in terms of what its own templates stand for.                           *)
ParentBindings(class, parent, bindings) ==
  IF parent.path \notin DOMAIN class.generics THEN Unbound
  ELSE LET arguments == class.generics[parent.path]
       IN Bind(parent.templates, [i \in DOMAIN arguments |-> ApplyTemplateBindings(arguments[i], bindings)])

RECURSIVE ResolveMethodWithTemplates(_, _, _, _, _), MethodThrough(_, _, _, _, _)
ResolveMethodWithTemplates(store, n, w, bindings, seen) ==
  MethodThrough(store, ResolveClassSymbol(store, n), w, bindings, seen)
MethodThrough(store, class, w, bindings, seen) ==
  IF class = None \/ class.path \in seen THEN None
  ELSE LET own == MemberOf(store, ResolveClassSymbol(store, Name(TRUE, class.path)), w, "method")
           Inherited(parent) ==
             IF parent = None THEN None
             ELSE ResolveMethodWithTemplates(store, Name(TRUE, parent.path), w,
                    ParentBindings(class, parent, bindings), seen \cup {class.path})
       IN IF own # None THEN [own EXCEPT !.type = ApplyTemplateBindings(@, bindings)]
          ELSE FirstFound([i \in DOMAIN class.parents |->
                             Inherited(ResolveClassSymbol(store, class.parents[i]))])

(* ResolveMethodWithGenerics; ResolveMethod is the one without arguments.  *)
ResolveMethod(store, n, w, arguments) ==
  LET class == ResolveClassSymbol(store, n)
  IN IF class = None THEN None
     ELSE ResolveMethodWithTemplates(store, n, w, Bind(class.templates, arguments), {})

(* resolveMethodSymbol, resolvePropertySymbol: what go-to-definition and   *)
(* hover show of a receiver whose class is known.                          *)
DefinitionIn(store, class, w, kind) ==
  IF class = None THEN None
  ELSE LET exact == GetByFQN(store, class.path, MemberFqn(w, kind))
       IN IF exact.kind = kind THEN exact
          ELSE HeadOrNone(SelectSeq(PrioritizeDefinitionMatches(GetByName(store, w)),
                                    LAMBDA s : s.kind = kind /\ s.path = class.path))
DefinitionOf(store, n, w, kind) == DefinitionIn(store, ResolveClassSymbol(store, n), w, kind)

-----------------------------------------------------------------------------
(***************************************************************************)
(* The services of a Symfony container (server/indexer/                    *)
(* symfony_services.go): what an identifier given to it stands for.  A     *)
(* file of the cache maps identifiers to [class, alias, public], "" for    *)
(* what is absent.                                                         *)
(***************************************************************************)
Service(class, alias, public) == [class |-> class, alias |-> alias, public |-> public]

RECURSIVE ResolveSymfonyServiceClass(_, _, _)
ResolveSymfonyServiceClass(id, definitions, seen) ==
  IF id \in seen \/ id \notin DOMAIN definitions THEN ""
  ELSE IF definitions[id].class # "" THEN definitions[id].class
  ELSE ResolveSymfonyServiceClass(definitions[id].alias, definitions, seen \cup {id})

ReadSymfonyServiceTypes(definitions) ==
  {[id |-> id, class |-> ResolveSymfonyServiceClass(id, definitions, {})] :
     id \in {i \in DOMAIN definitions : definitions[i].public}}

(* loadSymfonyServiceTypes, ResolveServiceType: "" when there is none, or  *)
(* when the files of the cache disagree.                                   *)
ResolveServiceType(files, id) ==
  LET candidates == {t.class : t \in {u \in UNION {ReadSymfonyServiceTypes(f) : f \in ToSet(files)} : u.id = id}} \ {""}
  IN IF Cardinality(candidates) = 1 THEN CHOOSE c \in candidates : TRUE ELSE ""

-----------------------------------------------------------------------------
(***************************************************************************)
(* Completion after -> and ::.                                             *)
(***************************************************************************)
FirstOfName(members, s) ==
  IF \E m \in ToSet(members) : EqualFold(m.word, s.word) THEN members ELSE Append(members, s)

(* classMemberSymbols.                                                     *)
MembersOf(store, class) == IF class = None THEN <<>> ELSE OwnMembers(store, class.path)
ClassMemberSymbols(store, n) ==
  LET Add(members, name) == FoldLeft(FirstOfName, members, MembersOf(store, ResolveClassSymbol(store, name)))
  IN FoldLeft(Add, <<>>, ClassLineage(store, n))

(* memberMatchesAccess; inside is an access through this, self, static or  *)
(* parent.                                                                 *)
MemberMatchesAccess(s, static, inside) ==
  /\ ~inside => /\ s.visibility # "private"
                /\ static \/ s.visibility # "protected"
  /\ CASE s.kind \in {"method", "constructor"} -> TRUE
       [] s.kind = "property" -> IF static THEN s.static ELSE ~s.static \/ inside
       [] OTHER -> static

AtMost(n, items) == SubSeq(items, 1, IF Len(items) < n THEN Len(items) ELSE n)
(* memberCompletions, up to the maximum of items.                          *)
MemberCompletions(store, n, prefix, static, inside, maxItems) ==
  AtMost(maxItems, SelectSeq(ClassMemberSymbols(store, n),
    LAMBDA s : MemberMatchesAccess(s, static, inside) /\ prefix \in {"", Lower(s.word)}))

Scalar == {<<"int">>, <<"static">>}   \* isCompletionScalarType
(* classNameFromType: the first alternative that is no scalar, rooted.     *)
ClassNameFromType(type) ==
  LET classes == SelectSeq(type, LAMBDA t : t \notin Scalar)
  IN IF classes = <<>> THEN None ELSE Name(TRUE, Head(classes))

(* resolveReceiverClass: the class of root->word->word.                    *)
ReceiverClass(store, root, words) ==
  LET ClassOf(s) == IF s = None THEN None ELSE ClassNameFromType(s.type)
      Step(n, w) == IF n = None THEN None ELSE ClassOf(ResolveInLineage(store, n, w, "property"))
  IN FoldLeft(Step, root, words)

-----------------------------------------------------------------------------
(***************************************************************************)
(* What PHP says, for reference.                                           *)
(***************************************************************************)
RECURSIVE Ancestors(_, _)
Ancestors(store, found) ==
  LET parents == UNION {{ResolveClassSymbol(store, p) : p \in ToSet(c.parents)} : c \in found} \ {None}
  IN IF parents \subseteq found THEN found ELSE Ancestors(store, found \cup parents)

(* The type of a method seen from a class: outwards, one inheritance at a  *)
(* time; a template of the class at hand is marked with its path.          *)
Marked(class, type) ==
  [i \in DOMAIN type |-> [of |-> IF type[i] \in ToSet(class.templates) THEN class.path ELSE <<>>, name |-> type[i]]]

Outwards(type, from, arguments, class) ==
  FlattenSeq([i \in DOMAIN type |->
    LET at == {k \in DOMAIN arguments : k \in DOMAIN from.templates /\ from.templates[k] = type[i].name} IN
    IF type[i].of # from.path THEN <<type[i]>>
    ELSE IF at = {} THEN <<[type[i] EXCEPT !.of = <<>>]>>
    ELSE Marked(class, arguments[CHOOSE k \in at : TRUE])])

RECURSIVE SeenFrom(_, _, _, _)
SeenFrom(store, class, w, above) ==
  LET own == MemberByOwner(store, class.path, w, "method")
      From(p) ==
        IF p \in above \cup {None, class} THEN <<>>
        ELSE Outwards(SeenFrom(store, p, w, above \cup {class}), p,
                      IF p.path \in DOMAIN class.generics THEN class.generics[p.path] ELSE <<>>, class)
      inherited == SelectSeq([i \in DOMAIN class.parents |-> From(ResolveClassSymbol(store, class.parents[i]))],
                             LAMBDA t : t # <<>>)
  IN IF own # None THEN Marked(class, own.type) ELSE IF inherited = <<>> THEN <<>> ELSE Head(inherited)

MethodType(store, class, w, arguments) ==
  LET type == Outwards(SeenFrom(store, class, w, {}), class, arguments, [class EXCEPT !.templates = <<>>])
  IN [i \in DOMAIN type |-> type[i].name]

(* A method is found if and only if the class or an ancestor declares it,  *)
(* of the same ancestor by both walks, with the type it has there.         *)
MethodAgrees(store, class, found, first, w, arguments) ==
  class # None =>
    /\ found # None <=> \E c \in Ancestors(store, {class}) : MemberByOwner(store, c.path, w, "method") # None
    /\ found # None => SameFqn(found, first) /\ found.type = MethodType(store, class, w, arguments)
MethodsFound(store, n, w, arguments) ==
  MethodAgrees(store, ResolveClassSymbol(store, n), ResolveMethod(store, n, w, arguments),
               ResolveInLineage(store, n, w, "method"), w, arguments)

(* Completion offers what the resolver of its kind finds, and what that    *)
(* finds and the access allows is offered, or a member of its name is.     *)
CompletionAgrees(store, n, words, static, inside) ==
  LET known == ToSet(ClassMemberSymbols(store, n))
      Offers(offered, s) == \/ s = None \/ ~MemberMatchesAccess(s, static, inside) \/ s \in offered
                            \/ \E t \in known : EqualFold(t.word, s.word) /\ t.kind # s.kind
      Agree(offered) ==
        /\ \A s \in offered : s.kind # "constructor" => s = ResolveInLineage(store, n, s.word, s.kind)
        /\ \A w \in words, kind \in {"method", "property", "const"} :
             Offers(offered, ResolveInLineage(store, n, w, kind))
  IN Agree(ToSet(MemberCompletions(store, n, "", static, inside, Len(store))))

(* Go-to-definition shows the member the resolver finds in the class; it   *)
(* misses one that is spelled differently when a class has its name.       *)
DefinitionAgrees(store, n, w, kind) ==
  LET found == ResolveDirect(store, n, w, kind)
      classNamed == \E s \in ToSet(GetByName(store, w)) : s.kind \in ClassLike
  IN DefinitionOf(store, n, w, kind) =
       IF found # None /\ found.word # w /\ classNamed THEN None ELSE found

(* A service has a type if and only if the aliases of the files that make  *)
(* it public lead to classes and all to one, however the aliases turn in a *)
(* circle.                                                                 *)
ServicesResolved(files) ==
  LET Reaches(f, id, class) ==
        \E chain \in SeqOf(DOMAIN f, Cardinality(DOMAIN f)) :
          /\ chain # <<>> /\ Head(chain) = id /\ f[Last(chain)].class = class
          /\ \A i \in 1..(Len(chain) - 1) : f[chain[i]].class = "" /\ f[chain[i]].alias = chain[i + 1]
      classes(id) == {c \in UNION {{f[j].class : j \in DOMAIN f} : f \in ToSet(files)} \ {""} :
                        \E f \in ToSet(files) : id \in DOMAIN f /\ f[id].public /\ Reaches(f, id, c)}
  IN \A id \in UNION {DOMAIN f : f \in ToSet(files)} :
       IF \E c \in classes(id) : classes(id) = {c}
       THEN {ResolveServiceType(files, id)} = classes(id) ELSE ResolveServiceType(files, id) = ""

(* The class a chain of properties leads to, through the lineage of each   *)
(* class on the way, is that of the type the last one declares; so what is *)
(* offered after it belongs to that type.                                  *)
ReceiversFollowTypes(store, n, words) ==
  LET Follows(class, before) ==
        LET declared == ResolveInLineage(store, before, Last(words), "property")
        IN before # None /\ declared # None /\ class.segments \in ToSet(declared.type) \ Scalar
      Belongs(class) ==
        \A s \in ToSet(MemberCompletions(store, class, "", FALSE, FALSE, Len(store))) :
          \E c \in Ancestors(store, {ResolveClassSymbol(store, class)}) : s.path = c.path
      Agree(class) == class # None => Follows(class, ReceiverClass(store, n, Front(words))) /\ Belongs(class)
  IN words # <<>> => Agree(ReceiverClass(store, n, words))
=============================================================================
