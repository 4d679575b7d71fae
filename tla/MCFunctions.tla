----------------------------- MODULE MCFunctions ------------------------------
(***************************************************************************)
(* The pure algorithms, over small families of inputs: each step from the  *)
(* start picks one input, and the invariants compare what the code makes   *)
(* of it with what it should be.                                           *)
(***************************************************************************)
EXTENDS Integers, Sequences, FiniteSets, TLC

VARIABLE input

SE == INSTANCE SymbolExtraction
Ranked == <<<<"a","k">>, <<"b","k">>, <<"m">>, <<"p">>, <<"q">>, <<"gone">>>>
TR == INSTANCE TypeResolution WITH LowerOf <- ("M" :> "m"), Ranked <- Ranked
DT == INSTANCE DocumentText
Globs == "*" :> {"a", "b", "vendor", "x.php", "y.txt"} @@ "*.php" :> {"x.php"}
PR == INSTANCE PathRules WITH Globs <- Globs, PhpNames <- {"x.php"}
ST == INSTANCE Settings
SH == INSTANCE SignatureHelp WITH Names <- {"f", "new"}

UpTo(n, S) == UNION {[1..m -> S] : m \in 0..n}

-----------------------------------------------------------------------------
(* Files: two statements in one or two namespaces, of either form.         *)
Rel(s) == SE!Name(FALSE, s)
Members == <<SE!Member("method", SE!Constructor, {[name |-> "q", type |-> {Rel(<<"x">>), Rel(<<"int">>)}]}),
             SE!Member("method", "m", {}), SE!Member("const", "c", {}), SE!Member("property", "p", {})>>
Classes == {SE!Type("class", "k", {p}, {Rel(<<"y">>)}, Members, {"m", "d"}, FALSE) :
              p \in {Rel(<<"x">>), Rel(<<"x", "y">>), SE!Name(TRUE, <<"x">>)}}
Types == Classes \cup
  {SE!Type("enum", "e", {Rel(<<"y">>)}, {Rel(<<"x">>)},
           <<SE!Member("case", "h", {}), SE!Member("const", "c", {}), SE!Member("method", "m", {})>>, {}, TRUE),
   SE!Type("trait", "t", {}, {Rel(<<"x">>)}, <<SE!Member("property", "p", {}), SE!Member("method", "m", {})>>, {"d"}, FALSE),
   SE!Type("interface", "i", {Rel(<<"x">>), Rel(<<"y">>)}, {},
           <<SE!Member("const", "c", {}), SE!Member("method", "m", {})>>, {}, FALSE)}
Plains == {SE!Plain("function", "f"), SE!Plain("const", "g")}
Conditional == {SE!If(<<d>>) : d \in {SE!Plain("function", "f")} \cup
                                      {t \in Types : t.kind = "enum" \/ t.extends = {Rel(<<"x">>)}}}
Uses == {SE!Use("class", "x", <<"z", "w">>), SE!Use("class", "y", <<"x">>), SE!Use("function", "x", <<"v">>)}
Statements == Types \cup Plains \cup Conditional \cup Uses
Declared(s) == IF s.op = "if" THEN s.body[1] ELSE s
SameName(s, t) == Declared(s).op # "use" /\ Declared(t).op # "use" /\ Declared(s).name = Declared(t).name
Blocks == {b \in UpTo(2, Statements) : Len(b) = 2 => ~SameName(b[1], b[2])}
In(n) == SE!Namespace(n, FALSE, <<>>)
Files ==
  Blocks \cup {<<In(<<"a">>)>> \o b : b \in Blocks}
    \cup {<<In(<<"a">>), s, In(<<"b">>), t>> : s, t \in Statements}
    \cup {<<SE!Namespace(<<"a">>, TRUE, b), SE!Namespace(n, TRUE, c)>> :
            n \in {<<>>, <<"b">>}, b, c \in UpTo(1, Statements)}

-----------------------------------------------------------------------------
(* Stores: a class k below a generic p and a trait q that may inherit in a *)
(* circle, members of one name but different kinds, and other symbols of   *)
(* their names.                                                            *)
At(s) == TR!Name(TRUE, s)
K == <<"a", "k">>
P == <<"p">>
Q == <<"q">>
T == <<"T">>
U == <<"U">>
NoGenerics == <<>>
ClassK ==
  {TR!Class(K, "class", ps, <<T>>, g) :
     ps \in {<<At(Q), At(P)>>, <<At(<<"gone">>), At(P), At(Q)>>},
     g \in {P :> << <<T, U>>, <<Q>> >>, P :> << <<<<"int">>>> >> @@ Q :> << <<T>> >>}}
    \cup {TR!Class(K, "class", <<At(P)>>, <<T>>, NoGenerics)}
ClassP == {TR!Class(P, "class", <<>>, <<T, U>>, NoGenerics), TR!Class(P, "class", <<At(K)>>, <<T, U>>, NoGenerics),
           TR!Class(P, "class", <<At(Q)>>, <<T, U>>, NoGenerics), TR!Class(P, "class", <<At(Q)>>, <<T, U>>, Q :> << <<U, P>> >>)}
ClassQ == {TR!Class(Q, "trait", <<>>, <<U>>, NoGenerics), TR!Class(Q, "trait", <<At(P)>>, <<U>>, P :> << <<U>>, <<U, U>> >>)}
MembersK == {<<>>, <<TR!Member(K, "property", "m", <<P>>, "public", FALSE)>>,
             <<TR!Member(K, "method", "M", <<T>>, "private", FALSE), TR!Member(K, "constructor", "c", <<>>, "public", FALSE)>>}
MembersP == {<<>>, <<TR!Member(P, "method", "m", <<T, Q, U>>, "protected", TRUE)>>,
             <<TR!Member(P, "const", "m", <<>>, "public", FALSE), TR!Member(P, "property", "m", <<Q>>, "public", TRUE)>>}
MembersQ == {<<TR!Member(Q, "method", "m", <<U, K>>, "public", FALSE)>>,
             <<TR!Member(Q, "property", "M", <<<<"int">>, K>>, "protected", FALSE)>>}
Others == {<<TR!Class(<<"m">>, "class", <<>>, <<>>, NoGenerics)>>, <<TR!Class(<<"b", "k">>, "class", <<>>, <<>>, NoGenerics)>>,
           <<[path |-> P, member |-> <<>>, kind |-> "function"]>>}
Store(k, mk, p, mp, x, q, mq) == <<k>> \o mk \o <<p>> \o mp \o x \o <<q>> \o mq
Stores ==
  {Store(k, mk, p, mp, <<>>, q, mq) :
     k \in ClassK, mk \in MembersK, p \in ClassP, mp \in MembersP, q \in ClassQ, mq \in MembersQ}
    \cup {Store(k, mk, p, mp, x, q, mq) :
            k \in {c \in ClassK : Len(c.parents) < 3}, mk \in MembersK, p \in {c \in ClassP : c.parents = <<>>},
            mp \in MembersP, x \in Others, q \in {c \in ClassQ : c.parents = <<>>}, mq \in MembersQ}

Containers ==
  {[i \in {"i", "j", "k"} |-> IF i = "i" THEN s ELSE IF i = "j" THEN t ELSE u] :
     s, t, u \in {TR!Service("c", "", TRUE), TR!Service("", "i", TRUE), TR!Service("", "j", FALSE), TR!Service("d", "k", FALSE)}}
OtherContainer == "i" :> TR!Service("c", "", TRUE) @@ "j" :> TR!Service("", "k", TRUE) @@ "k" :> TR!Service("e", "", FALSE)

-----------------------------------------------------------------------------
(* Texts of up to four characters; carriage returns end lines only.        *)
Texts == {t \in UpTo(4, DT!Chars) : \A i \in DOMAIN t : t[i] = DT!Cr => i < Len(t) /\ t[i + 1] = DT!Nl}
NewTexts == {<<>>, <<DT!Nl>>, <<DT!Emoji, DT!Letter>>}

(* Tokens before the cursor.                                               *)
Calls == {s \in UpTo(6, {"f", "(", ")", ","}) \cup UpTo(6, {"f", "(", ",", ":"})
                 \cup UpTo(4, {"f", "new", "(", ")", "[", "]", ","}) : SH!WellFormed(s)}
(* Two classes of one short name, each with its constructor, and a method. *)
Symbols == {SH!Symbol(n, "class") : n \in {<<"f">>, <<"a", "f">>}}
             \cup {SH!Symbol(Append(n, "__construct"), "constructor") : n \in {<<"f">>, <<"a", "f">>}}
             \cup {SH!Symbol(<<"g", "f">>, "method")}
Found == {<<>>, <<SH!Symbol(<<"f">>, "class")>>} \cup {s \in [1..3 -> Symbols] : \A i, j \in 1..3 : s[i] = s[j] => i = j}

-----------------------------------------------------------------------------
(* Disks: one .gitignore of up to two lines, or two nested folders, links, *)
(* exclusions, and a composer.json at one of three places.                 *)
W == <<"w">>
PathsIn(root) == {root \o p : p \in {<<"x.php">>, <<"y.txt">>, <<"a", "x.php">>, <<"b", "a", "x.php">>, <<"a", "b", "x.php">>,
                                     <<"vendor", "a", "x.php">>, <<"a", "vendor", "x.php">>}}
Patterns == {<<"a">>, <<"*.php">>, <<"*">>, <<"b", "a">>, <<"**", "b">>, <<"vendor">>}
Lines == {PR!Line(n, an, d, {p}) : n, an, d \in BOOLEAN, p \in Patterns}
           \cup {PR!Line(FALSE, TRUE, FALSE, {<<"a", "b">>, <<"b", "a">>})}
NoAutoload == <<>>
Entry(p, codes) == [pattern |-> p, codes |-> codes]
Exclusions == {<<>>, <<Entry(<<"**", "a", "**">>, {"s"}), Entry(<<"w", "**", "x.php">>, {"t"})>>,
               <<Entry(<<"**", "b", "*">>, {}), Entry(<<"w", "**", "x.php">>, {"t"})>>}
OneFolder(lines, excludes) == PR!Disk(PathsIn(W), {}, NoAutoload, {PR!Folder(W, lines)}, excludes)
TwoFolders(lines) ==
  PR!Disk(PathsIn(W), {W \o <<"b", "a">>}, NoAutoload,
          {PR!Folder(W, lines), PR!Folder(W \o <<"a">>, <<PR!Line(FALSE, TRUE, TRUE, {<<"b">>})>>)}, {})
Autoloading(at, dirs, line) ==
  PR!Disk(PathsIn(W) \cup PathsIn(<<"a">>), {<<"a", "b">>}, at :> dirs @@ <<>> :> {<<"a", "b">>},
          {PR!Folder(W, <<line>>)}, {<<"**", "vendor", "**">>})

-----------------------------------------------------------------------------
(* Settings: any one, or several that bear on each other, well typed or    *)
(* not; constraints of one or two tokens, and what wins over them.         *)
Family(f) == <<"diagnostics", "analysis", f>>
Related == {Family("undefinedSymbols"), <<"diagnostics", "undefinedSymbols">>, <<"codeLens", "usages", "enable">>, ST!Level}
Config == [k \in ST!Keys |-> CASE ST!TypeOf(k) = "bool" -> TRUE [] ST!TypeOf(k) = "number" -> 9 [] OTHER -> "old"]
Values == {ST!Value("bool", TRUE), ST!Value("bool", FALSE), ST!Value("number", 3), ST!Value("number", -1),
           ST!Value("strings", "new")}
Payloads == UNION {[ks -> Values] : ks \in SUBSET Related \cup {{k} : k \in ST!Keys}
                                            \cup {{<<"environment", "includePaths">>, <<"files", "maxSize">>}}}

Versions == {<<8>>, <<7, 4>>, <<8, 2>>, <<8, 3>>, <<8, 3, 5>>, <<8, 4, 1>>, <<8, 5>>, <<9, 0>>, <<10, 0>>, <<0, 3>>}
Tokens == {ST!Token(op, v) : op \in {"=", ">=", ">", "<=", "<", "^", "~", ".*"}, v \in Versions} \cup {ST!Token("*", <<>>)}
Constraints ==
  {{{t}} : t \in Tokens}
    \cup {{{t, u}} : t, u \in {x \in Tokens : x.version \in {<<8, 3>>, <<8, 5>>, <<8, 4, 1>>, <<7, 4>>}}}
    \cup {{{t}, {u}} : t, u \in {x \in Tokens : x.op \in {"^", "~", "=", "<"}}}
Said == {{}, ST!Star, {{ST!Token("^", <<7, 4>>)}}, {{ST!Token("~", <<8, 4, 1>>)}}}
Manifests == {<<ST!Manifest({}, c)>> : c \in Constraints}
               \cup {<<ST!Manifest(p, r), ST!Manifest(s, {{ST!Token("=", <<8, 3>>)}})>> : p, r, s \in Said}

-----------------------------------------------------------------------------
Init == input = [kind |-> "none"]

PickFile == \E f \in Files : input' = [kind |-> "file", file |-> f]
PickStore == \E s \in Stores : input' = [kind |-> "store", store |-> s]
PickContainer == \E f \in Containers, more \in {<<>>, <<OtherContainer>>} :
                   input' = [kind |-> "container", files |-> <<f>> \o more]
PickText == \E t \in Texts, new \in NewTexts : input' = [kind |-> "text", text |-> t, new |-> new]
PickCall == \E s \in Calls : input' = [kind |-> "call", src |-> s]
PickDisk ==
  \/ \E lines \in UpTo(2, Lines), e \in {{}, {<<"**", "b", "**">>}} :
       input' = [kind |-> "disk", disk |-> OneFolder(lines, e), config |-> <<>>]
  \/ \E l \in Lines, c \in Exclusions : input' = [kind |-> "disk", disk |-> TwoFolders(<<l>>), config |-> c]
  \/ \E l \in Lines, at \in {W, W \o <<"a">>}, dirs \in {{<<"a">>, W \o <<"a">>}, {<<>>}} :
       input' = [kind |-> "disk", disk |-> Autoloading(at, dirs, l), config |-> <<>>]
PickSettings == \E p \in Payloads : input' = [kind |-> "settings", payload |-> p]
PickVersions == \E m \in Manifests, c \in {<<>>, <<8, 4>>, <<7, 4>>}, o \in {<<>>, <<8, 5, 1>>, <<9, 0>>} :
                  /\ Len(m) = 1 => c = <<>> /\ o = <<>>
                  /\ input' = [kind |-> "versions", manifests |-> m, configured |-> c, override |-> o]

Next == /\ input.kind = "none"
        /\ \/ PickFile \/ PickStore \/ PickContainer \/ PickText
           \/ PickCall \/ PickDisk \/ PickSettings \/ PickVersions

Spec == Init /\ [][Next]_input

-----------------------------------------------------------------------------
(* Every declaration of a file, and nothing else, is in the store under    *)
(* its full name, as what it is and with the types it names, although two  *)
(* extractors read it and one overrides the other (IndexDocument).         *)
DeclarationsFound == input.kind = "file" => SE!FindsDeclarations(input.file)

(* The resolver of the analysis rules, go-to-definition and completion     *)
(* find the same members of a class, the nearest in its lineage, with the  *)
(* types its generic parents give them, also where classes inherit in a    *)
(* circle; and a service stands for the class its aliases lead to          *)
(* (indexFallbackResolver, resolveMethodSymbol, memberCompletions,         *)
(* loadSymfonyServiceTypes).                                               *)
MembersFound ==
  /\ input.kind = "store" =>
       /\ \A n \in {At(K), TR!Name(FALSE, <<"k">>)}, w \in {"m", "M"}, arguments \in {<<>>, << <<Q>> >>} :
            TR!MethodsFound(input.store, n, w, arguments)
       /\ \A static, inside \in BOOLEAN : TR!CompletionAgrees(input.store, At(K), {"m", "M"}, static, inside)
       /\ \A w \in {"m", "M"}, kind \in {"method", "property"} : TR!DefinitionAgrees(input.store, At(K), w, kind)
       /\ \A words \in {<<"m">>, <<"m", "m">>, <<"m", "M", "m">>} : TR!ReceiversFollowTypes(input.store, At(K), words)
  /\ input.kind = "container" => TR!ServicesResolved(input.files)

(* An edit leaves the server with the text of the editor, every way from   *)
(* a place in a text to a position or an offset and back agrees, and the   *)
(* identifier found is the word at the cursor where one-byte characters    *)
(* stand before it (Documents.Change, sourcePositionMapper, identifierAt). *)
TextsAgree ==
  input.kind = "text" =>
    DT!EditsApplied(input.text, input.new) /\ DT!PlacesAgree(input.text) /\ DT!IdentifiersFound(input.text)


(* The walk finds what git tracks, with the vendored files; both readings  *)
(* of .gitignore agree and hide no more diagnostics than they and the      *)
(* settings say; and what composer.json autoloads from outside is indexed  *)
(* (collectWorkspaceFilePaths, DiagnosticsPathExclusions,                  *)
(* composerAutoloadWorkspaceFolders).                                      *)
FilesDiscovered ==
  input.kind = "disk" =>
    /\ PR!WalkFindsTracked(input.disk)
    /\ PR!ExclusionsAgree(input.disk, input.config, {"s", "t", "u"})
    /\ PR!AutoloadIndexed(input.disk)

(* A payload means the same in each form it may be written in and takes    *)
(* effect once, and the version of PHP is the lowest Composer would allow  *)
(* unless the user says (Config.Update, effectivePHPVersion).              *)
SettingsEffective ==
  /\ input.kind = "settings" => ST!SettingsMeanTheSame(Config, input.payload)
  /\ input.kind = "versions" => ST!VersionFollowsComposer(input.configured, input.override, input.manifests, 0..9)
=============================================================================
