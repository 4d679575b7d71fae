------------------------------ MODULE PathRules -------------------------------
(***************************************************************************)
(* Which files are part of the workspace and of which diagnostics are      *)
(* shown: the walk of the indexer and its reading of .gitignore            *)
(* (server/indexer/indexer.go), and the diagnostics provider's own reading *)
(* with the exclusions of the settings                                     *)
(* (server/providers/diagnostics_exclusions.go).                           *)
(*                                                                         *)
(* A path is the sequence of its names from the root of the disk, a        *)
(* pattern the sequence of its segments.                                   *)
(***************************************************************************)
EXTENDS Naturals, SequencesExt

CONSTANTS
  Globs,     \* the names that a segment with a wildcard matches
  PhpNames   \* the names with the extension of a PHP file

(* path.Match on one segment.                                              *)
SegmentMatches(p, name) == IF p \in DOMAIN Globs THEN name \in Globs[p] ELSE p = name
Take(path, n) == SubSeq(path, 1, n)

(* A line of a .gitignore file: its flags and its alternatives, several    *)
(* when it has braces; no leading or trailing slash in them.               *)
Line(negated, anchored, dirOnly, alternatives) ==
  [negated |-> negated, anchored |-> anchored, dirOnly |-> dirOnly, alternatives |-> alternatives]

HasSlash(line) == \E p \in line.alternatives : Len(p) > 1

(* What parseGitignoreRules makes of a line; both files parse alike.       *)
ParseGitignoreRule(line) ==
  [negated |-> line.negated, dirOnly |-> line.dirOnly,
   variants |-> line.alternatives
                  \cup (IF line.anchored THEN {} ELSE {<<"**">> \o p : p \in line.alternatives}),
   base |-> IF HasSlash(line) THEN {} ELSE {p[1] : p \in line.alternatives}]

(* A workspace folder with the lines of its .gitignore.                    *)
Folder(root, lines) == [root |-> root, lines |-> lines]
Rules(folder) == [i \in DOMAIN folder.lines |-> ParseGitignoreRule(folder.lines[i])]

-----------------------------------------------------------------------------
(***************************************************************************)
(* The indexer.                                                            *)
(***************************************************************************)
RECURSIVE MatchSegmentSequence(_, _)
MatchSegmentSequence(pattern, path) ==
  IF pattern = <<>> THEN path = <<>>
  ELSE IF Head(pattern) = "**"
       THEN \E i \in 0..Len(path) : MatchSegmentSequence(Tail(pattern), SubSeq(path, i + 1, Len(path)))
  ELSE /\ path # <<>>
       /\ SegmentMatches(Head(pattern), Head(path))
       /\ MatchSegmentSequence(Tail(pattern), Tail(path))

MatchesPath(rule, path) == \E v \in rule.variants : MatchSegmentSequence(v, path)

(* matchesWithSegments: a rule for directories covers what is below them.  *)
MatchesWithSegments(rule, path, isDir) ==
  IF rule.dirOnly
  THEN \E i \in 1..Len(path) : (i < Len(path) \/ isDir) /\ MatchesPath(rule, Take(path, i))
  ELSE /\ path # <<>>
       /\ MatchesPath(rule, path) \/ \E p \in rule.base : SegmentMatches(p, Last(path))

Below(root, path) == SubSeq(path, Len(root) + 1, Len(path))

(* ignoresWithSegments: the last rule that matches decides.                *)
FirstMatch(folder, path, isDir) ==
  LET matching == SelectSeq(Rules(folder), LAMBDA r : MatchesWithSegments(r, Below(folder.root, path), isDir))
  IN IsPrefix(folder.root, path) /\ matching # <<>> /\ ~Head(matching).negated

IgnoresWithSegments(folder, path, isDir) ==
  LET matching == SelectSeq(Rules(folder), LAMBDA r : MatchesWithSegments(r, Below(folder.root, path), isDir))
  IN IsPrefix(folder.root, path) /\ matching # <<>> /\ ~Last(matching).negated

IgnoresPath(folders, path, isDir) == \E f \in folders : IgnoresWithSegments(f, path, isDir)

MayReincludeDescendant(folder) == \E i \in DOMAIN folder.lines : folder.lines[i].negated
CanSkipIgnoredDir(folders, dir) ==
  ~\E f \in folders : MayReincludeDescendant(f) /\ IsPrefix(f.root, dir)

ShouldExcludeDir(excludes, dir) == \E p \in excludes : MatchSegmentSequence(p, dir)
ShouldIndexGitignoredPath(path) == "vendor" \in ToSet(path)

(* A disk: the files, the links among files and directories, the           *)
(* composer.json files as the set of directories that each autoloads; and  *)
(* the folders and the patterns of files.exclude.                          *)
Disk(files, links, autoload, folders, excludes) ==
  [files |-> files, links |-> links, autoload |-> autoload, folders |-> folders, excludes |-> excludes]

Enters(d, dir) ==
  /\ dir \notin d.links
  /\ ~ShouldExcludeDir(d.excludes, dir)
  /\ IgnoresPath(d.folders, dir, TRUE) /\ ~ShouldIndexGitignoredPath(dir) => ~CanSkipIgnoredDir(d.folders, dir)

Takes(d, file) ==
  /\ file \notin d.links
  /\ IgnoresPath(d.folders, file, FALSE) => ShouldIndexGitignoredPath(file)
  /\ Last(file) \in PhpNames                       \* matchesAssociations

(* collectWorkspaceFilePaths: a file is met when every directory between   *)
(* the root of a folder and itself is entered.                             *)
CollectWorkspaceFilePaths(d) ==
  {file \in d.files : \E f \in d.folders :
     /\ IsStrictPrefix(f.root, file)
     /\ \A k \in (Len(f.root) + 1)..(Len(file) - 1) : Enters(d, Take(file, k))
     /\ Takes(d, file)}

(* findComposerJSON: the nearest one, in the root or above it.             *)
ComposerAutoloadDirs(d, root) ==
  LET above == {k \in 0..Len(root) : Take(root, k) \in DOMAIN d.autoload}
  IN IF above = {} THEN {} ELSE d.autoload[Take(root, Max(above))]

IsUnderAnyRoot(dir, roots) == \E r \in roots : IsPrefix(r, dir)

ComposerAutoloadWorkspaceFolders(d) ==
  LET roots == {f.root : f \in d.folders}
  IN {Folder(dir, <<>>) : dir \in {t \in UNION {ComposerAutoloadDirs(d, r) : r \in roots} : ~IsUnderAnyRoot(t, roots)}}

(* indexWorkspace: the files it indexes, each once.                        *)
IndexedPaths(d) ==
  CollectWorkspaceFilePaths(d)
    \cup CollectWorkspaceFilePaths([d EXCEPT !.folders = ComposerAutoloadWorkspaceFolders(d)])

-----------------------------------------------------------------------------
(***************************************************************************)
(* The diagnostics provider.                                               *)
(***************************************************************************)
RECURSIVE MatchSegmentSlice(_, _)
MatchSegmentSlice(pattern, path) ==
  IF pattern = <<>> THEN path = <<>>
  ELSE IF Head(pattern) = "**"
       THEN MatchSegmentSlice(Tail(pattern), path) \/ (path # <<>> /\ MatchSegmentSlice(pattern, Tail(path)))
  ELSE /\ path # <<>>
       /\ SegmentMatches(Head(pattern), Head(path))
       /\ MatchSegmentSlice(Tail(pattern), Tail(path))

MatchesParts(rule, path) == \E v \in rule.variants : MatchSegmentSlice(v, path)

RuleMatches(rule, path) ==
  IF rule.dirOnly THEN \E i \in 1..(Len(path) - 1) : MatchesParts(rule, Take(path, i))
  ELSE MatchesParts(rule, path) \/ \E p \in rule.base : MatchSegmentSlice(<<p>>, <<Last(path)>>)

(* ignores: from the last rule back to the first that matches.             *)
Ignores(folder, file) ==
  LET rules == Rules(folder)
      rel == Below(folder.root, file)
      matching == {i \in DOMAIN rules : RuleMatches(rules[i], rel)}
  IN IsStrictPrefix(folder.root, file) /\ matching # {} /\ ~rules[Max(matching)].negated

MatchesGitignore(folders, file) == \E f \in folders : Ignores(f, file)

(* matchExplicit: the entries [pattern, codes] of the settings, in the     *)
(* order in which the map is walked; no codes means all.                   *)
Nothing == [all |-> FALSE, codes |-> {}]
WithEntry(acc, entry, file) ==
  IF acc.all \/ ~MatchSegmentSlice(entry.pattern, file) THEN acc
  ELSE IF entry.codes = {} THEN [all |-> TRUE, codes |-> {}]
  ELSE [acc EXCEPT !.codes = @ \cup entry.codes]
MatchExplicit(config, file) == FoldLeft(LAMBDA acc, e : WithEntry(acc, e, file), Nothing, config)

IgnoresAll(folders, config, file) == MatchesGitignore(folders, file) \/ MatchExplicit(config, file).all

(* Filter: of the codes reported, those shown.                             *)
Filter(folders, config, file, codes) ==
  LET explicit == MatchExplicit(config, file) IN
  IF MatchesGitignore(folders, file) \/ explicit.all THEN {} ELSE codes \ explicit.codes

-----------------------------------------------------------------------------
(***************************************************************************)
(* What git says of a path, for reference: a pattern without a slash is of *)
(* names, another is of paths from the folder; a directory that is ignored *)
(* is not looked into.                                                     *)
(***************************************************************************)
GitMatches(line, path, isDir) ==
  /\ line.dirOnly => isDir
  /\ \E p \in line.alternatives :
       IF HasSlash(line) \/ line.anchored THEN MatchSegmentSequence(p, path) ELSE SegmentMatches(p[1], Last(path))

GitIgnoresAt(folder, file, k) ==
  LET rel == Below(folder.root, file)
      matching == {i \in DOMAIN folder.lines : GitMatches(folder.lines[i], Take(rel, k), k < Len(rel))}
  IN matching # {} /\ ~folder.lines[Max(matching)].negated

Depth(folder, file) == Len(file) - Len(folder.root)
GitTracks(folder, file) == \A k \in 1..Depth(folder, file) : ~GitIgnoresAt(folder, file, k)

(* The walk may meet it: no link and no excluded directory on the way.     *)
Reachable(d, root, file) ==
  /\ IsStrictPrefix(root, file) /\ Last(file) \in PhpNames
  /\ \A k \in (Len(root) + 1)..Len(file) : Take(file, k) \notin d.links
  /\ \A k \in (Len(root) + 1)..(Len(file) - 1) : ~ShouldExcludeDir(d.excludes, Take(file, k))

(* Of what is in a vendor directory, what git ignores counts above it only.*)
Wanted(folder, file) ==
  \A k \in 1..Depth(folder, file) :
    ShouldIndexGitignoredPath(Take(file, Len(folder.root) + k)) \/ ~GitIgnoresAt(folder, file, k)

(* A directory taken back by a line that is not for directories only.      *)
TakenBack(folder, file) ==
  \E k \in 1..(Depth(folder, file) - 1), i \in DOMAIN folder.lines :
    /\ folder.lines[i].negated /\ ~folder.lines[i].dirOnly
    /\ GitMatches(folder.lines[i], Take(Below(folder.root, file), k), TRUE)

(* A line the rules read as git does.  Two forms they do not: one with a   *)
(* slash inside and none in front is matched at any depth, and /name also  *)
(* by the name alone.                                                      *)
Regular(line) ==
  IF HasSlash(line) THEN line.anchored \/ \A p \in line.alternatives : p[1] = "**"
  ELSE line.anchored => line.dirOnly

(* In a folder with regular lines the walk finds what git tracks, and,     *)
(* when no line takes anything back, with the vendored files nothing else. *)
WalkFindsTracked(d) ==
  \A f \in d.folders :
    LET regular == \A i \in DOMAIN f.lines : Regular(f.lines[i])
        found == CollectWorkspaceFilePaths(d)
    IN /\ d.folders = {f} /\ regular =>
            \A file \in d.files : Reachable(d, f.root, file) =>
              /\ GitTracks(f, file) /\ ~TakenBack(f, file) => file \in found
              /\ ~MayReincludeDescendant(f) => (file \in found <=> Wanted(f, file))
       /\ \A file \in found : \E g \in d.folders : Reachable(d, g.root, file)

(* Of what the nearest composer.json autoloads, every file outside the     *)
(* folders is indexed, whatever the folders ignore; and no file is twice a *)
(* file of the workspace and indexed only for its symbols, unless a        *)
(* directory above a folder is autoloaded.                                 *)
AutoloadIndexed(d) ==
  LET roots == {f.root : f \in d.folders}
      outside == {file \in d.files : ~IsUnderAnyRoot(file, roots)}
      nearest(r) == {m \in DOMAIN d.autoload :
                       IsPrefix(m, r) /\ ~\E n \in DOMAIN d.autoload : IsStrictPrefix(m, n) /\ IsPrefix(n, r)}
      dirs == UNION {d.autoload[m] : m \in UNION {nearest(r) : r \in roots}}
      above == \E dir \in dirs, r \in roots : IsStrictPrefix(dir, r)
      reached == {file \in d.files : \E dir \in dirs : Reachable(d, dir, file)}
  IN /\ IndexedPaths(d) \cap outside = reached \cap outside
     /\ ~above => IndexedPaths(d) \ outside = CollectWorkspaceFilePaths(d)
     /\ above => (reached \ outside) \cup CollectWorkspaceFilePaths(d) = IndexedPaths(d) \ outside

(* Both readings of .gitignore, forwards and backwards, agree on files;    *)
(* and a diagnostic of another file is shown exactly when no entry that    *)
(* covers the file names its code, in whatever order they are read.        *)
ExclusionsAgree(d, config, codes) ==
  \A file \in d.files :
    /\ MatchesGitignore(d.folders, file) <=> IgnoresPath(d.folders, file, FALSE)
    /\ ~MatchesGitignore(d.folders, file) =>
         Filter(d.folders, config, file, codes)
           = {c \in codes : ~\E i \in DOMAIN config : /\ MatchSegmentSequence(config[i].pattern, file)
                                                      /\ config[i].codes = {} \/ c \in config[i].codes}
    /\ IgnoresAll(d.folders, config, file) => Filter(d.folders, config, file, codes) = {}
=============================================================================
