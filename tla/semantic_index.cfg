SPECIFICATION Spec
CONSTANTS
  lib = lib
  doc = doc
  Base = Base
  Child = Child
  User = User
  lib1 = lib1
  lib2 = lib2
  doc1 = doc1
  doc2 = doc2
  w1 = w1
  w2 = w2
  a1 = a1
  a2 = a2
  Pass = Pass
  None = None
  Files = {lib, doc}
  Names = {Base, Child, User}
  Texts = {lib1, lib2, doc1, doc2}
  TextsOf <- MCTextsOf
  Exports <- MCExports
  Mentions <- MCMentions
  OnDisk = {doc}
  Cached = {doc}
  Writers = {w1}
  Analysts = {a1}
  MaxEvents = 1
  MaxNames = 2
  MaxRevision = 2
INVARIANTS TypeOK HitsAreCurrent SymbolsMatchHashes
PROPERTIES RevisionNeverFalls OnlyStubsLose
