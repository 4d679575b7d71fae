--------------------------- MODULE MCSemanticIndex ---------------------------
(***************************************************************************)
(* A library of a class that extends another, which only one of the        *)
(* library's texts declares, and a document: one of its texts extends the  *)
(* library's class and never mentions the base class, the other declares   *)
(* the base class itself, the same as the library does.  A pass lists the  *)
(* document; the library is indexed as an open file.                       *)
(***************************************************************************)
EXTENDS SemanticIndex, TLC

CONSTANTS lib, doc, Base, Child, User, lib1, lib2, doc1, doc2

Class(n, p) == [name |-> n, parent |-> p]

MCTextsOf == (lib :> {lib1, lib2}) @@ (doc :> {doc1, doc2})
MCExports ==
  (lib1 :> {Class(Child, Base)})
  @@ (lib2 :> {Class(Child, Base), Class(Base, None)})
  @@ (doc1 :> {Class(User, Child)})
  @@ (doc2 :> {Class(User, None), Class(Base, None)})
MCMentions ==
  (lib1 :> {Base, Child}) @@ (lib2 :> {Base, Child})
  @@ (doc1 :> {User, Child}) @@ (doc2 :> {User, Base})
=============================================================================
