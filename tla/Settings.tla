------------------------------- MODULE Settings -------------------------------
(***************************************************************************)
(* What the server makes of its settings: Update, which reads a payload of *)
(* the editor (server/phpstrom/config.go, analysis_toggles.go), and the    *)
(* version of PHP it works for (php_version.go).                           *)
(*                                                                         *)
(* A word of a setting's name is a string; a key of a JSON object is a     *)
(* sequence of words, joined by dots in the text, and an address the       *)
(* sequence of the keys that lead to a value.  A payload is the function   *)
(* from the addresses of its values to these.                              *)
(***************************************************************************)
EXTENDS Integers, SequencesExt

-----------------------------------------------------------------------------
(***************************************************************************)
(* Settings.                                                               *)
(***************************************************************************)
Legacy == {"undefinedSymbols", "undefinedVariables", "typeErrors"}
Families == Legacy \cup {"syntaxErrors", "classModel", "invalidCalls", "language", "methodVisibility",
                         "throwTypes", "deprecated", "unreachableCode", "emptyStatements",
                         "assignmentInCondition", "sideEffects", "style"}

(* The settings, by the words of their names, and what each must be.       *)
In(section, words) == {<<section, w>> : w \in words}
Analysis == {<<"diagnostics", "analysis", f>> : f \in Families}
Level == <<"diagnostics", "analysis", "level">>
NestedOnly == In("environment", {"includePaths", "documentRoot"})
Enables == {<<"codeLens", k, "enable">> : k \in {"references", "implementations", "overrides", "parent", "usages"}}
             \cup {<<"inlayHints", k, "enable">> : k \in {"parameterNames", "parameterTypes", "returnTypes"}}
Plain ==
  In("diagnostics", {"enable", "run", "workspaceScanOnStart", "overrides", "exclude"})
    \cup In("environment", {"phpVersion", "phpVersionOverride"})
    \cup In("files", {"associations", "exclude", "maxSize"})
    \cup In("completion", {"insertUseDeclaration", "fullyQualifyGlobalSymbols", "triggerParameterHints", "maxItems"})
    \cup In("format", {"braceStyle", "insertSpaces", "tabSize"})
    \cup {<<"compatibility", "preferPsalmPhpstanPrefixedAnnotations">>, <<"stubs">>}
Keys == Plain \cup NestedOnly \cup Enables \cup Analysis \cup {Level}

TypeOf(k) ==
  CASE Last(k) \in {"phpVersion", "phpVersionOverride", "documentRoot", "run", "braceStyle"} -> "string"
    [] Last(k) \in {"maxSize", "maxItems", "tabSize", "level"} -> "number"
    [] k \in In("files", {"associations", "exclude"}) \cup {<<"stubs">>, <<"environment", "includePaths">>} -> "strings"
    [] k \in In("diagnostics", {"overrides", "exclude"}) -> "object"
    [] OTHER -> "bool"

(* A value: its type in JSON, and what it is.                              *)
Value(type, of) == [type |-> type, of |-> of]
Accepts(k, v) ==
  /\ v.type = TypeOf(k)
  /\ k = Level => v.of >= 0         \* applyAnalysisLevel

Nested(k) == [i \in DOMAIN k |-> <<k[i]>>]
Flat(k) == <<k>>

(* Where Update reads a setting, in the order in which it does; what it    *)
(* reads later wins.                                                       *)
Sources(k) ==
  CASE k = <<"stubs">> -> <<Flat(k)>>
    [] k \in NestedOnly -> <<Nested(k)>>
    [] k \in Enables -> <<Nested(k), << <<k[1]>>, Tail(k) >>, Flat(k)>>
    [] k \in Analysis /\ Last(k) \in Legacy ->
         LET old == <<k[1], k[3]>> IN <<Nested(old), Nested(k), Flat(old), Flat(k)>>
    [] OTHER -> <<Nested(k), Flat(k)>>

(* The payload, or what it has under "phpstrom".                           *)
Root == <<"phpstrom">>
Inner(payload) ==
  IF \E a \in DOMAIN payload : a[1] = Root
  THEN [a \in {Tail(b) : b \in {c \in DOMAIN payload : c[1] = Root}} |-> payload[<<Root>> \o a]]
  ELSE payload

Update(cfg, payload) ==
  LET inner == Inner(payload)
      usable(k) == {i \in DOMAIN Sources(k) :
                      Sources(k)[i] \in DOMAIN inner /\ Accepts(k, inner[Sources(k)[i]])}
  IN [k \in DOMAIN cfg |-> IF usable(k) = {} THEN cfg[k] ELSE inner[Sources(k)[Max(usable(k))]].of]

(* toProviderDisables.                                                     *)
ToProviderDisables(cfg) == {Last(k) : k \in {a \in DOMAIN cfg \cap Analysis : ~cfg[a]}}

-----------------------------------------------------------------------------
(***************************************************************************)
(* The version of PHP.  A version is the sequence of its numbers, as       *)
(* written; None is the empty string.                                      *)
(***************************************************************************)
None == <<>>
Supported == <<<<8, 2>>, <<8, 3>>, <<8, 4>>, <<8, 5>>>>
Fallback == <<8, 3>>

MajorMinorVersion(v) == IF Len(v) < 2 THEN None ELSE SubSeq(v, 1, 2)
NormalizeSupportedPHPVersion(v) ==
  IF MajorMinorVersion(v) \in ToSet(Supported) THEN MajorMinorVersion(v) ELSE None

(* The order of the strings: digit by digit, the dot before the digits.    *)
Digits(n) == IF n < 10 THEN <<n>> ELSE <<n \div 10, n % 10>>
Text(v) == Digits(v[1]) \o <<-1>> \o Digits(v[2])
StringBefore(a, b) ==
  LET s == Text(a)  t == Text(b)
      differ == {i \in 1..Min({Len(s), Len(t)}) : s[i] # t[i]}
  IN IF differ = {} THEN Len(s) < Len(t) ELSE s[Min(differ)] < t[Min(differ)]

Place(v) == Min({i \in DOMAIN Supported : Supported[i] = v})
CompareMajorMinor(a, b) ==
  IF a = b THEN 0
  ELSE IF {a, b} \subseteq ToSet(Supported) THEN IF Place(a) < Place(b) THEN -1 ELSE 1
  ELSE IF StringBefore(a, b) THEN -1 ELSE 1

(* A token of a constraint: its operator and its version.                  *)
Token(op, version) == [op |-> op, version |-> version]

TildeAsCaret(op, version, candidate) ==
  LET base == MajorMinorVersion(version) IN
  base # None => CompareMajorMinor(candidate, base) >= 0 /\ CompareMajorMinor(candidate, <<base[1] + 1, 0>>) < 0

CaretOrTildeAllows(op, version, candidate) ==
  LET base == MajorMinorVersion(version)
      nextMinor == <<base[1], base[2] + 1>>
      nextMajor == <<base[1] + 1, 0>>
      upper == IF (op = "~" /\ Len(version) >= 3) \/ (op = "^" /\ base[1] = 0) THEN nextMinor ELSE nextMajor
  IN base # None =>
       CompareMajorMinor(candidate, base) >= 0 /\ CompareMajorMinor(candidate, upper) < 0

ConstraintTokenAllowsMajorMinor(token, candidate) ==
  LET version == MajorMinorVersion(token.version)
      cmp == CompareMajorMinor(candidate, version)
  IN CASE token.op = "*" -> TRUE
       [] token.op \in {"^", "~"} -> CaretOrTildeAllows(token.op, token.version, candidate)
       [] token.op = ".*" -> candidate = version
       [] version = None -> TRUE
       [] token.op = "=" -> cmp = 0
       [] token.op = ">=" -> cmp >= 0
       [] token.op = ">" -> cmp > 0
       [] token.op = "<=" -> cmp <= 0
       [] token.op = "<" -> cmp < 0

(* A constraint: alternatives, each tokens that all must hold.             *)
Star == {{Token("*", <<>>)}}
ConstraintAllowsMajorMinor(constraint, candidate) ==
  \E group \in constraint : group # {} /\ \A t \in group : ConstraintTokenAllowsMajorMinor(t, candidate)

VersionFromConstraint(constraint) ==
  LET allowed == {i \in DOMAIN Supported : ConstraintAllowsMajorMinor(constraint, Supported[i])}
  IN IF constraint = Star \/ allowed = {} THEN None ELSE Supported[Min(allowed)]

(* A composer.json: the constraints of config.platform and of require; an  *)
(* absent one, like an absent or broken file, is without alternatives.     *)
Manifest(platform, require) == [platform |-> platform, require |-> require]
DetectComposerPHPVersionAt(manifest) ==
  LET platform == VersionFromConstraint(manifest.platform)
  IN IF platform # None THEN platform ELSE VersionFromConstraint(manifest.require)

FirstOf(versions) ==
  LET known == {i \in DOMAIN versions : versions[i] # None}
  IN IF known = {} THEN None ELSE versions[Min(known)]

DetectComposerPHPVersion(manifests) ==
  FirstOf([i \in DOMAIN manifests |-> DetectComposerPHPVersionAt(manifests[i])])

EffectivePHPVersion(configured, override, manifests) ==
  FirstOf(<<NormalizeSupportedPHPVersion(override), NormalizeSupportedPHPVersion(configured),
            DetectComposerPHPVersion(manifests), Fallback>>)

-----------------------------------------------------------------------------
(***************************************************************************)
(* What the settings should mean, for reference.                           *)
(***************************************************************************)
Written(payload, Address(_)) ==
  [a \in {Address(k) : k \in DOMAIN payload} |-> payload[CHOOSE k \in DOMAIN payload : Address(k) = a]]

(* A payload of settings by name means the same written nested, flat or    *)
(* under "phpstrom", but for the two keys that are read nested only;       *)
(* reading it again changes nothing, and no setting takes what is of       *)
(* another type or was not said.  A renamed setting yields to its new name *)
(* and a number below zero is no level.                                    *)
SettingsMeanTheSame(cfg, payload) ==
  LET new == Update(cfg, Written(payload, Nested))
      flat == Update(cfg, Written(payload, Flat))
      old(k) == <<k[1], k[3]>>
      said(k) == k \in DOMAIN payload /\ Accepts(k, payload[k])
      saidOld(k) == /\ k \in Analysis /\ old(k) \in DOMAIN payload \ Keys
                    /\ payload[old(k)].type = "bool"
  IN /\ Update(cfg, Written(payload, LAMBDA k : <<Root>> \o Nested(k))) = new
     /\ \A k \in DOMAIN cfg \ (NestedOnly \cup {<<"stubs">>}) : flat[k] = new[k]
     /\ Update(new, Written(payload, Nested)) = new
     /\ ToProviderDisables(flat) = {Last(k) : k \in {a \in Analysis : new[a] = FALSE}}
     /\ \A k \in DOMAIN cfg : new[k] = IF said(k) THEN payload[k].of
                                       ELSE IF saidOld(k) THEN payload[old(k)].of ELSE cfg[k]

(* Composer's reading of a token, for a release with its patch number.     *)
Padded(v) == [i \in 1..3 |-> IF i <= Len(v) THEN v[i] ELSE 0]
NotAfter(v, w) ==
  \/ v = w
  \/ \E i \in 1..3 : v[i] < w[i] /\ \A j \in 1..(i - 1) : v[j] = w[j]
Precedes(v, w) == v # w /\ NotAfter(v, w)

Satisfies(release, t) ==
  LET v == Padded(t.version)
      nextMinor == <<v[1], v[2] + 1, 0>>
      nextMajor == <<v[1] + 1, 0, 0>>
  IN CASE t.op = "*" -> TRUE
       [] t.op = "=" -> release = v
       [] t.op = ".*" -> IsPrefix(t.version, release)
       [] t.op = ">=" -> NotAfter(v, release)
       [] t.op = ">" -> Precedes(v, release)
       [] t.op = "<=" -> NotAfter(release, v)
       [] t.op = "<" -> Precedes(release, v)
       [] t.op = "^" -> NotAfter(v, release) /\ Precedes(release, IF v[1] = 0 THEN nextMinor ELSE nextMajor)
       [] t.op = "~" -> NotAfter(v, release)
                        /\ Precedes(release, IF Len(t.version) = 3 THEN nextMinor ELSE nextMajor)

(* A token the code reads as Composer does: both numbers given, of one     *)
(* digit; no strict bound inside a minor version.                          *)
RegularToken(t) ==
  t.op # "*" => /\ Len(t.version) >= 2 /\ t.version[1] < 9 /\ t.version[2] < 9
                /\ t.op # ">"
                /\ t.op = "<" => Len(t.version) = 2

(* The version found is the lowest supported one that has a release for    *)
(* each token of an alternative: of the platform when that leaves one,     *)
(* else of what is required, in the first folder that says; a version that *)
(* the user set goes first if it is supported.                             *)
LowestAllowed(constraint, patches) ==
  {m \in ToSet(Supported) :
     /\ \E group \in constraint : group # {} /\ \A t \in group : \E p \in patches : Satisfies(Append(m, p), t)
     /\ constraint # Star}

VersionFollowsComposer(configured, override, manifests, patches) ==
  LET regular == \A m \in ToSet(manifests) : \A group \in m.platform \cup m.require : \A t \in group : RegularToken(t)
      lowest(versions) == CHOOSE v \in versions : \A w \in versions : v[2] <= w[2]
      wanted == [i \in 1..(2 * Len(manifests)) |->
                   LET m == manifests[(i + 1) \div 2]
                   IN LowestAllowed(IF i % 2 = 1 THEN m.platform ELSE m.require, patches)]
      says == {i \in DOMAIN wanted : wanted[i] # {}}
      effective == EffectivePHPVersion(configured, override, manifests)
  IN regular =>
       CASE MajorMinorVersion(override) \in ToSet(Supported) -> effective = MajorMinorVersion(override)
         [] MajorMinorVersion(override) \notin ToSet(Supported)
            /\ MajorMinorVersion(configured) \in ToSet(Supported) -> effective = MajorMinorVersion(configured)
         [] OTHER -> effective = IF says = {} THEN Fallback ELSE lowest(wanted[Min(says)])
=============================================================================
