-------------------------- MODULE SymbolExtraction ---------------------------
(***************************************************************************)
(* How the declarations of a PHP file become symbols.  Two extractors read *)
(* one parse: extractSymbolsFromSyntax the concrete tree                   *)
(* (server/indexer/syntax_symbols.go), extractSymbolsFromNodes the tree    *)
(* lowered from it (server/indexer/indexer.go); mergeSymbolsPreferSyntax   *)
(* joins what they found.                                                  *)
(*                                                                         *)
(* A file is a sequence of statements.  A segment of a name stands for all *)
(* its spellings in upper and lower case.  The parser, and the library's   *)
(* binder that resolves names for the first extractor, are external.       *)
(***************************************************************************)
EXTENDS Naturals, SequencesExt

Name(r, s) == [rooted |-> r, segments |-> s]   \* as written: \a\b or a\b
Builtin == {Name(FALSE, <<t>>) : t \in {"int", "self"}}

(* Statements.  A bracketless namespace has no body; types have extends,   *)
(* implements, the traits they use, members, and the names of the @method  *)
(* tags of their doc comment; enums may be backed; a constructor may       *)
(* promote parameters to properties, [name, type] with the type a set of   *)
(* alternatives.                                                           *)
Namespace(n, braced, body) == [op |-> "namespace", name |-> n, braced |-> braced, body |-> body]
Use(kind, alias, path) == [op |-> "use", kind |-> kind, alias |-> alias, path |-> path]
If(body) == [op |-> "if", body |-> body]
Plain(kind, n) == [op |-> "plain", kind |-> kind, name |-> n]
Type(kind, n, extends, traits, members, docMethods, backed) ==
  [op |-> "type", kind |-> kind, name |-> n, extends |-> extends, traits |-> traits,
   members |-> members, docMethods |-> docMethods, backed |-> backed]
Member(kind, n, promoted) == [kind |-> kind, name |-> n, promoted |-> promoted]

Constructor == "__construct"
NoDoc == "none"

(* A symbol of the store; what a type inherits or uses, or what a property *)
(* is declared as, is of resolved names.                                   *)
Symbol(path, member, kind, extends, traits, type, doc) ==
  [path |-> path, member |-> member, kind |-> kind, extends |-> extends,
   traits |-> traits, type |-> type, doc |-> doc]
OfMember(path, member, kind, type, doc) == Symbol(path, member, kind, {}, {}, type, doc)

-----------------------------------------------------------------------------
(***************************************************************************)
(* Names.                                                                  *)
(***************************************************************************)
EmptyScope == [namespace |-> <<>>, aliases |-> <<>>]

WithAlias(scope, st) ==
  IF st.kind # "class" THEN scope
  ELSE [scope EXCEPT !.aliases = (st.alias :> st.path) @@ @]

NamespaceOnly(scope, n) ==
  IF n.rooted THEN n.segments ELSE scope.namespace \o n.segments

(* resolveClassLike: the first segment may be an alias.                    *)
ResolveClassLike(scope, n) ==
  LET first == Head(n.segments) IN
  IF n.rooted THEN n.segments
  ELSE IF first \in DOMAIN scope.aliases THEN scope.aliases[first] \o Tail(n.segments)
  ELSE scope.namespace \o n.segments

(* resolveTypeHint, for each alternative of a union.                       *)
ResolveTypeHint(scope, type) ==
  {IF n \in Builtin THEN n.segments ELSE ResolveClassLike(scope, n) : n \in type}

(* The binder of the library, for class names.                             *)
BindName(scope, n) == ResolveClassLike(scope, n)

Path(scope, n) == Append(scope.namespace, n)

-----------------------------------------------------------------------------
(***************************************************************************)
(* The extractor that walks the concrete tree.                             *)
(***************************************************************************)
MemberKey(m) == IF m.kind = "property" THEN <<"$", m.name>> ELSE <<m.name>>

(* walkMember, walkFunction, walkProperty, walkClassConst, walkEnumCase.   *)
SyntaxMember(path, m) ==
  OfMember(path, MemberKey(m),
           IF m.kind = "method" /\ m.name = Constructor THEN "constructor" ELSE m.kind, {}, NoDoc)

(* walkClassLike, clauseNames.                                             *)
SyntaxType(scope, st) ==
  LET path == Path(scope, st.name) IN
  <<Symbol(path, <<>>, st.kind, {BindName(scope, n) : n \in st.extends},
           {BindName(scope, n) : n \in st.traits}, {}, NoDoc)>>
    \o [i \in DOMAIN st.members |-> SyntaxMember(path, st.members[i])]

(* The statements of one namespace, with those inside control structures.  *)
SyntaxStatement(walk, st) ==
  LET scope == walk.scope
      declared == CASE st.op = "type" -> SyntaxType(scope, st)
                    [] st.op = "plain" -> <<OfMember(Path(scope, st.name), <<>>, st.kind, {}, NoDoc)>>
                    [] OTHER -> <<>>
  IN [scope |-> IF st.op = "use" THEN WithAlias(scope, st) ELSE scope,
      syms |-> walk.syms \o declared]

Unconditional(st) == IF st.op = "if" THEN st.body ELSE <<st>>
SyntaxBlock(walk, body) == FoldLeft(SyntaxStatement, walk, FlattenSeq([i \in DOMAIN body |-> Unconditional(body[i])]))

(* walkNamespace: a braced one leaves the scope around it as it was.       *)
SyntaxTop(walk, st) ==
  LET fresh == [EmptyScope EXCEPT !.namespace = st.name] IN
  IF st.op # "namespace" THEN SyntaxBlock(walk, <<st>>)
  ELSE IF st.braced
       THEN [walk EXCEPT !.syms = SyntaxBlock([scope |-> fresh, syms |-> @], st.body).syms]
       ELSE [walk EXCEPT !.scope = fresh]

Start == [scope |-> EmptyScope, syms |-> <<>>]
ExtractSymbolsFromSyntax(file) == FoldLeft(SyntaxTop, Start, file).syms

-----------------------------------------------------------------------------
(***************************************************************************)
(* The extractor that reads the lowered tree.                              *)
(***************************************************************************)
OfKind(st, kinds) == SelectSeq(st.members, LAMBDA m : m.kind \in kinds)

AstMembers(path, st, kinds) ==
  [i \in DOMAIN OfKind(st, kinds) |->
     LET m == OfKind(st, kinds)[i] IN OfMember(path, MemberKey(m), m.kind, {}, "own")]

(* promotedPropertySymbols.                                                *)
PromotedProperties(scope, path, st) ==
  LET promoted == UNION {m.promoted : m \in {n \in ToSet(st.members) : n.name = Constructor}}
  IN SetToSeq({OfMember(path, <<"$", p.name>>, "property", ResolveTypeHint(scope, p.type), NoDoc) : p \in promoted})

(* extractPHPDocMethods: with the comment of the class.                    *)
DocMethods(path, st) ==
  SetToSeq({OfMember(path, <<n>>, "method", {}, "class") : n \in st.docMethods})

EnumNames(st) == IF st.backed THEN <<"name", "value">> ELSE <<"name">>
EnumProperties(path, st) ==
  [i \in DOMAIN EnumNames(st) |-> OfMember(path, <<"$", EnumNames(st)[i]>>, "property", {}, NoDoc)]

(* extractClassMembers, extractInterfaceMembers, extractTraitMembers,      *)
(* extractEnumMembers: each reads the kinds of members it knows.           *)
AstTypeMembers(scope, path, st) ==
  CASE st.kind = "class" ->
         DocMethods(path, st) \o PromotedProperties(scope, path, st)
           \o AstMembers(path, st, {"method"}) \o AstMembers(path, st, {"property"})
           \o AstMembers(path, st, {"const"})
    [] st.kind \in {"interface", "trait"} -> AstMembers(path, st, {"method", "const"})
    [] st.kind = "enum" ->
         EnumProperties(path, st) \o AstMembers(path, st, {"method"}) \o AstMembers(path, st, {"case"})

AstType(scope, st) ==
  LET path == Path(scope, st.name) IN
  <<Symbol(path, <<>>, st.kind,
           IF st.kind \in {"class", "interface"} THEN {ResolveClassLike(scope, n) : n \in st.extends} ELSE {},
           IF st.kind \in {"class", "trait"} THEN {ResolveClassLike(scope, n) : n \in st.traits} ELSE {},
           {}, "own")>>
    \o AstTypeMembers(scope, path, st)

(* extractFromNodes: only what stands at the top of a namespace.           *)
AstStatement(walk, st) ==
  CASE st.op = "use" -> [walk EXCEPT !.scope = WithAlias(@, st)]
    [] st.op = "type" -> [walk EXCEPT !.syms = @ \o AstType(walk.scope, st)]
    [] st.op = "plain" ->
         [walk EXCEPT !.syms = Append(@, OfMember(Path(walk.scope, st.name), <<>>, st.kind, {}, "own"))]
    [] OTHER -> walk

(* A namespace without statements counts as bracketless.                   *)
AstTop(walk, st) ==
  LET fresh == [EmptyScope EXCEPT !.namespace = st.name] IN
  IF st.op # "namespace" THEN AstStatement(walk, st)
  ELSE IF st.body # <<>>
       THEN [walk EXCEPT !.syms = FoldLeft(AstStatement, [scope |-> fresh, syms |-> @], st.body).syms]
       ELSE [walk EXCEPT !.scope = fresh]

ExtractSymbolsFromNodes(file) == FoldLeft(AstTop, Start, file).syms

-----------------------------------------------------------------------------
(***************************************************************************)
(* The merge.                                                              *)
(***************************************************************************)
Fqn(s) == <<s.path, s.member>>
SameName(s, t) == Fqn(s) = Fqn(t)
SameKey(s, t) == SameName(s, t) /\ s.kind = t.kind   \* symbolMergeKey

EnrichSymbolFromAST(s, t) ==
  [s EXCEPT !.traits = IF @ = {} THEN t.traits ELSE @,
            !.doc = IF @ = NoDoc THEN t.doc ELSE @]

MergeSymbol(out, s) ==
  IF \E i \in DOMAIN out : SameKey(out[i], s)
  THEN [i \in DOMAIN out |-> IF SameKey(out[i], s) THEN EnrichSymbolFromAST(out[i], s) ELSE out[i]]
  ELSE Append(out, s)

MergeSymbolsPreferSyntax(syntaxSyms, astSyms) == FoldLeft(MergeSymbol, syntaxSyms, astSyms)

(* What IndexDocument and indexFile put in the store.                      *)
SymbolsOf(file) == MergeSymbolsPreferSyntax(ExtractSymbolsFromSyntax(file), ExtractSymbolsFromNodes(file))

(* Lookups by full name find the symbol stored last.                       *)
FoundAs(syms, path, member) ==
  LET at == {i \in DOMAIN syms : Fqn(syms[i]) = <<path, member>>}
  IN {syms[i] : i \in {j \in at : \A k \in at : k <= j}}

-----------------------------------------------------------------------------
(***************************************************************************)
(* What PHP says a file declares, for reference: a declaration and the     *)
(* statements of its namespace that stand before it.                       *)
(***************************************************************************)
InBlock(namespace, body) ==
  UNION {{[namespace |-> namespace, st |-> st, top |-> st = body[i],
           uses |-> SelectSeq(SubSeq(body, 1, i - 1), LAMBDA u : u.op = "use")] :
            st \in {s \in ToSet(Unconditional(body[i])) : s.op \in {"type", "plain"}}} :
         i \in DOMAIN body}

Sections(file) ==
  LET starts == {i \in DOMAIN file : file[i].op = "namespace"}
      until(i) == IF \E j \in starts : j > i THEN CHOOSE j \in starts : j > i /\ \A k \in starts : k > i => j <= k
                  ELSE Len(file) + 1
  IN {<<file[i].name, file[i].body \o SubSeq(file, i + 1, until(i) - 1)>> : i \in starts}
       \cup {<< <<>>, SubSeq(file, 1, until(0) - 1)>>}

Placed(file) == UNION {InBlock(sec[1], sec[2]) : sec \in Sections(file)}

Meaning(d, n) ==
  LET bound == {i \in DOMAIN d.uses : d.uses[i].kind = "class" /\ d.uses[i].alias = Head(n.segments)} IN
  IF n \in Builtin \/ n.rooted THEN n.segments
  ELSE IF bound = {} THEN d.namespace \o n.segments
  ELSE d.uses[CHOOSE i \in bound : \A j \in bound : j <= i].path \o Tail(n.segments)

(* What no token declares is known of types that stand outside control     *)
(* structures only.                                                        *)
Implied(d) ==
  LET st == d.st IN
  CASE st.kind = "class" ->
         {[member |-> <<n>>, kind |-> "method", type |-> {}] : n \in st.docMethods}
           \cup {[member |-> <<"$", p.name>>, kind |-> "property", type |-> {Meaning(d, n) : n \in p.type}] :
                   p \in UNION {m.promoted : m \in ToSet(st.members)}}
    [] st.kind = "enum" -> {[member |-> <<"$", n>>, kind |-> "property", type |-> {}] : n \in ToSet(EnumNames(st))}
    [] OTHER -> {}

DeclaredMembers(d) ==
  {[member |-> MemberKey(m), type |-> {},
    kind |-> IF m.name = Constructor /\ ~d.top THEN "constructor" ELSE m.kind] :
     m \in ToSet(d.st.members)}
    \cup (IF d.top THEN Implied(d) ELSE {})

(* Every declaration is found under its full name as what it is, with the  *)
(* types it inherits from and uses, a comment of the class only for what a *)
(* @method tag names; and nothing else is in the store.                    *)
FindsDeclarations(file) ==
  LET syms == SymbolsOf(file)  ds == Placed(file)
      path(d) == Append(d.namespace, d.st.name)
  IN /\ \A d \in ds :
          /\ \E s \in FoundAs(syms, path(d), <<>>) :
               /\ s.kind = d.st.kind
               /\ d.st.op = "type" => /\ s.extends = {Meaning(d, n) : n \in d.st.extends}
                                      /\ s.traits = {Meaning(d, n) : n \in d.st.traits}
          /\ d.st.op = "type" => \A m \in DeclaredMembers(d) :
               \E s \in FoundAs(syms, path(d), m.member) : /\ s.kind = m.kind /\ s.type = m.type
                                                      /\ s.doc = "class" => s.member[1] \in d.st.docMethods
     /\ \A s \in ToSet(syms) : \E d \in ds :
          /\ s.path = path(d)
          /\ d.st.op = "type" => s.member \in {<<>>} \cup {m.member : m \in DeclaredMembers(d)}
=============================================================================
