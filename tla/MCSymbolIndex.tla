---------------------------- MODULE MCSymbolIndex -----------------------------
(* Two files that both may declare the method am of the class a, one more  *)
(* of each file's own, b sharing its short name.                           *)
EXTENDS SymbolIndex, TLC

CONSTANTS u1, u2, am, bm, f, m, g, w1, w2

MCNameOf == am :> m @@ bm :> m @@ f :> g
MCDeclarations == u1 :> {{f}, {am, f}} @@ u2 :> {{bm}, {am, bm}}
OneFile == u1 :> {{am}, {f}} @@ u2 :> {}
Interchangeable == Permutations({w1, w2})
=============================================================================
