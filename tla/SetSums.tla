------------------------------- MODULE SetSums --------------------------------
(***************************************************************************)
(* The sum of a function's values, as SumFunction folds it: it does not    *)
(* depend on the order in which the fold takes the arguments.              *)
(* Induction over a finite set is a minimal counterexample for the strict  *)
(* subset ordering.                                                        *)
(***************************************************************************)
EXTENDS Naturals, FiniteSets, Functions, FiniteSetTheorems, TLAPS

Pick(s) == CHOOSE x \in s : TRUE

(* The function the fold recurses on, for the arguments S.                 *)
IsSum(h, g, S) ==
  h = [s \in SUBSET S |-> IF s = {} THEN 0 ELSE g[Pick(s)] + h[s \ {Pick(s)}]]

(* SumFunction is that function at the domain.                             *)
LEMMA SumUnfold ==
  ASSUME NEW g
  PROVE  SumFunction(g) = (CHOOSE h : IsSum(h, g, DOMAIN g))[DOMAIN g]
BY DEF SumFunction, SumFunctionOnSet, FoldFunction, FoldFunctionOnSet, MapThenFoldSet,
       IsSum, Pick

(* Pick picks an element.                                                  *)
LEMMA Picked ==
  ASSUME NEW s, s # {}
  PROVE  Pick(s) \in s
BY DEF Pick

(* A family of subsets that holds a set when it holds all smaller ones     *)
(* holds every subset.                                                     *)
LEMMA SubsetInduction ==
  ASSUME NEW S, IsFiniteSet(S), NEW F,
         \A s \in SUBSET S : (\A t \in SUBSET s : t # s => t \in F) => s \in F
  PROVE  \A s \in SUBSET S : s \in F
<1>1. SUFFICES ASSUME NEW r \in SUBSET S, r \notin F
               PROVE  FALSE
  OBVIOUS
<1>2. DEFINE T == {s \in SUBSET S : s \notin F}
<1>3. IsWellFoundedOn(StrictSubsetOrdering(S), SUBSET S)
  BY FS_StrictSubsetOrderingWellFounded, FS_FiniteSubsetsOfFinite
<1>4. T \subseteq SUBSET S /\ T # {}
  BY <1>1
<1>5. PICK s \in T : \A t \in T : <<t, s>> \notin StrictSubsetOrdering(S)
  BY ONLY <1>3, <1>4, WFMin
<1>6. s \in SUBSET S /\ s \notin F
  BY <1>5
<1>7. PICK t \in SUBSET s : t # s /\ t \notin F
  BY <1>6
<1>8. t \in T /\ <<t, s>> \in StrictSubsetOrdering(S)
  BY <1>6, <1>7 DEF StrictSubsetOrdering
<1> QED
  BY <1>5, <1>8

(* Two such functions agree where their summands do.                       *)
LEMMA SumsAgree ==
  ASSUME NEW S, IsFiniteSet(S), NEW S1, NEW S2, S \subseteq S1, S \subseteq S2,
         NEW g1, NEW g2, \A x \in S : g1[x] = g2[x],
         NEW h1, IsSum(h1, g1, S1), NEW h2, IsSum(h2, g2, S2)
  PROVE  h1[S] = h2[S]
<1>1. DEFINE F == {s \in SUBSET S : h1[s] = h2[s]}
<1>2. ASSUME NEW s \in SUBSET S, \A t \in SUBSET s : t # s => t \in F
      PROVE  s \in F
  <2>1. /\ h1[s] = IF s = {} THEN 0 ELSE g1[Pick(s)] + h1[s \ {Pick(s)}]
        /\ h2[s] = IF s = {} THEN 0 ELSE g2[Pick(s)] + h2[s \ {Pick(s)}]
    BY DEF IsSum
  <2>2. ASSUME s # {} PROVE h1[s] = h2[s]
    <3>1. Pick(s) \in s
      BY <2>2, Picked
    <3>2. s \ {Pick(s)} \in F
      BY <1>2, <3>1
    <3> QED
      BY <2>1, <2>2, <3>1, <3>2
  <2> QED
    BY <2>1, <2>2
<1>3. \A s \in SUBSET S : s \in F
  <2> HIDE DEF F
  <2> QED
    BY <1>2, SubsetInduction
<1> QED
  BY <1>3

(* The recursion of the fold defines a function.                           *)
LEMMA SumExists ==
  ASSUME NEW S, IsFiniteSet(S), NEW g
  PROVE  \E h : IsSum(h, g, S)
<1>1. DEFINE F == {s \in SUBSET S : \E h : IsSum(h, g, s)}
             H(s) == CHOOSE h : IsSum(h, g, s)
<1>2. ASSUME NEW s \in SUBSET S, \A t \in SUBSET s : t # s => t \in F
      PROVE  s \in F
  <2>1. \A t \in SUBSET s : t # s => IsSum(H(t), g, t)
    BY <1>2
  <2>2. DEFINE V(t) == IF t = {} THEN 0 ELSE g[Pick(t)] + H(t \ {Pick(t)})[t \ {Pick(t)}]
               h == [t \in SUBSET s |-> V(t)]
  <2>3. ASSUME NEW t \in SUBSET s, t # s PROVE H(t)[t] = V(t)
    <3>1. IsSum(H(t), g, t)
      BY <2>1, <2>3
    <3>2. H(t)[t] = IF t = {} THEN 0 ELSE g[Pick(t)] + H(t)[t \ {Pick(t)}]
      BY <3>1 DEF IsSum
    <3>3. ASSUME t # {} PROVE H(t)[t \ {Pick(t)}] = H(t \ {Pick(t)})[t \ {Pick(t)}]
      <4>1. DEFINE u == t \ {Pick(t)}
      <4>2. u \subseteq t /\ u # s /\ u \in SUBSET s
        BY <2>3
      <4>3. IsSum(H(u), g, u)
        BY <2>1, <4>2
      <4>4. IsFiniteSet(u)
        BY <4>2, FS_Subset
      <4> HIDE DEF u, H
      <4>5. H(t)[u] = H(u)[u]
        BY ONLY <3>1, <4>2, <4>3, <4>4, SumsAgree
      <4> QED
        BY <4>5 DEF u
    <3> HIDE DEF H
    <3> QED
      BY <3>2, <3>3
  <2>4. ASSUME NEW t \in SUBSET s
        PROVE  h[t] = IF t = {} THEN 0 ELSE g[Pick(t)] + h[t \ {Pick(t)}]
    <3>1. ASSUME t # {} PROVE h[t \ {Pick(t)}] = H(t \ {Pick(t)})[t \ {Pick(t)}]
      <4>1. DEFINE u == t \ {Pick(t)}
      <4>2. u \in SUBSET s /\ u # s
        BY <3>1, Picked
      <4>3. H(u)[u] = V(u)
        BY <2>3, <4>2
      <4> HIDE DEF u, H, V
      <4>4. h[u] = H(u)[u]
        BY <4>2, <4>3
      <4> QED
        BY <4>4 DEF u
    <3> HIDE DEF H
    <3> QED
      BY <3>1
  <2>5. IsSum(h, g, s)
    <3>1. h = [t \in SUBSET s |-> h[t]]
      OBVIOUS
    <3> HIDE DEF h
    <3> QED
      BY <2>4, <3>1 DEF IsSum
  <2> QED
    BY <2>5
<1>3. \A s \in SUBSET S : s \in F
  <2> HIDE DEF F
  <2> QED
    BY <1>2, SubsetInduction
<1> QED
  BY <1>3

(* Natural numbers have a natural number as their sum.                     *)
LEMMA SumsNatural ==
  ASSUME NEW S, IsFiniteSet(S), NEW g, \A x \in S : g[x] \in Nat, NEW h, IsSum(h, g, S)
  PROVE  \A s \in SUBSET S : h[s] \in Nat
<1>1. DEFINE F == {s \in SUBSET S : h[s] \in Nat}
<1>2. ASSUME NEW s \in SUBSET S, \A t \in SUBSET s : t # s => t \in F
      PROVE  s \in F
  <2>1. h[s] = IF s = {} THEN 0 ELSE g[Pick(s)] + h[s \ {Pick(s)}]
    BY DEF IsSum
  <2>2. ASSUME s # {} PROVE h[s] \in Nat
    <3>1. Pick(s) \in s
      BY <2>2, Picked
    <3>2. s \ {Pick(s)} \in F
      BY <1>2, <3>1
    <3> QED
      BY <2>1, <2>2, <3>1, <3>2
  <2> QED
    BY <2>1, <2>2
<1>3. \A s \in SUBSET S : s \in F
  <2> HIDE DEF F
  <2> QED
    BY <1>2, SubsetInduction
<1> QED
  BY <1>3

(* Whichever summand the fold takes first, any other could have been.      *)
LEMMA AnySummandFirst ==
  ASSUME NEW S, IsFiniteSet(S), NEW g, \A x \in S : g[x] \in Nat, NEW h, IsSum(h, g, S)
  PROVE  \A s \in SUBSET S : \A x \in s : h[s] = g[x] + h[s \ {x}]
<1>1. DEFINE F == {s \in SUBSET S : \A x \in s : h[s] = g[x] + h[s \ {x}]}
<1>2. ASSUME NEW s \in SUBSET S, \A t \in SUBSET s : t # s => t \in F
      PROVE  s \in F
  <2>1. SUFFICES ASSUME NEW x \in s PROVE h[s] = g[x] + h[s \ {x}]
    OBVIOUS
  <2>2. DEFINE p == Pick(s)
  <2>3. p \in s
    BY Picked
  <2>4. h[s] = g[p] + h[s \ {p}]
    BY DEF IsSum
  <2> HIDE DEF p
  <2>5. CASE p = x
    BY <2>4, <2>5
  <2>6. CASE p # x
    <3>1. s \ {p} \in F /\ s \ {x} \in F
      <4>1. /\ s \ {p} \in SUBSET s /\ s \ {p} # s
            /\ s \ {x} \in SUBSET s /\ s \ {x} # s
        BY <2>3
      <4> HIDE DEF F
      <4> QED
        BY <1>2, <4>1
    <3>2. DEFINE u == (s \ {p}) \ {x}
    <3>3. u = (s \ {x}) \ {p} /\ u \in SUBSET S
      OBVIOUS
    <3>4. h[s \ {p}] = g[x] + h[u]
      BY <2>3, <2>6, <3>1
    <3>5. h[s \ {x}] = g[p] + h[(s \ {x}) \ {p}]
      BY <2>3, <2>6, <3>1
    <3>6. g[p] \in Nat /\ g[x] \in Nat /\ h[u] \in Nat
      BY <2>3, <3>3, SumsNatural
    <3> HIDE DEF u
    <3> QED
      BY <2>4, <3>3, <3>4, <3>5, <3>6
  <2> QED
    BY <2>5, <2>6
<1>3. \A s \in SUBSET S : s \in F
  <2> HIDE DEF F
  <2> QED
    BY <1>2, SubsetInduction
<1> QED
  BY <1>3

(* The sum of natural numbers, and what is left of it without one.         *)
LEMMA SumWithout ==
  ASSUME NEW S, IsFiniteSet(S), NEW g \in [S -> Nat]
  PROVE  \E h : /\ IsSum(h, g, S) /\ SumFunction(g) = h[S] /\ h[S] \in Nat
                /\ \A x \in S : h[S] = g[x] + h[S \ {x}] /\ h[S \ {x}] \in Nat
<1>1. PICK h : h = CHOOSE k : IsSum(k, g, S)
  OBVIOUS
<1>2. IsSum(h, g, S)
  BY <1>1, SumExists
<1>3. SumFunction(g) = h[S]
  BY <1>1, SumUnfold
<1>4. \A s \in SUBSET S : h[s] \in Nat
  BY <1>2, SumsNatural
<1>5. \A x \in S : h[S] = g[x] + h[S \ {x}]
  BY <1>2, AnySummandFirst
<1> QED
  BY <1>2, <1>3, <1>4, <1>5

(* A sum of natural numbers is one.                                        *)
LEMMA SumType ==
  ASSUME NEW S, IsFiniteSet(S), NEW g \in [S -> Nat]
  PROVE  SumFunction(g) \in Nat
BY SumWithout

(* One summand changes, and the sum with it.                               *)
LEMMA SumUpdate ==
  ASSUME NEW S, IsFiniteSet(S), NEW g \in [S -> Nat], NEW k \in [S -> Nat],
         NEW x \in S, \A y \in S \ {x} : k[y] = g[y]
  PROVE  SumFunction(k) + g[x] = SumFunction(g) + k[x]
<1>1. PICK h : /\ IsSum(h, g, S) /\ SumFunction(g) = h[S]
               /\ h[S] = g[x] + h[S \ {x}] /\ h[S \ {x}] \in Nat
  BY SumWithout
<1>2. PICK j : /\ IsSum(j, k, S) /\ SumFunction(k) = j[S]
               /\ j[S] = k[x] + j[S \ {x}] /\ j[S \ {x}] \in Nat
  BY SumWithout
<1>3. DEFINE R == S \ {x}
<1>4. IsFiniteSet(R) /\ R \subseteq S /\ \A y \in R : k[y] = g[y]
  BY FS_Subset
<1>5. h[R] = j[R]
  <2> HIDE DEF R
  <2> QED
    BY <1>1, <1>2, <1>4, SumsAgree
<1> QED
  BY <1>1, <1>2, <1>5

(* Nothing but zeros sum to zero.                                          *)
LEMMA SumOfZeros ==
  ASSUME NEW S, IsFiniteSet(S), NEW g \in [S -> Nat], \A x \in S : g[x] = 0
  PROVE  SumFunction(g) = 0
<1>1. PICK h : IsSum(h, g, S) /\ SumFunction(g) = h[S]
  BY SumWithout
<1>2. DEFINE F == {s \in SUBSET S : h[s] = 0}
<1>3. ASSUME NEW s \in SUBSET S, \A t \in SUBSET s : t # s => t \in F
      PROVE  s \in F
  <2>1. h[s] = IF s = {} THEN 0 ELSE g[Pick(s)] + h[s \ {Pick(s)}]
    BY <1>1 DEF IsSum
  <2>2. ASSUME s # {} PROVE h[s] = 0
    <3>1. Pick(s) \in s
      BY <2>2, Picked
    <3>2. s \ {Pick(s)} \in F
      BY <1>3, <3>1
    <3> QED
      BY <2>1, <2>2, <3>1, <3>2
  <2> QED
    BY <2>1, <2>2
<1>4. \A s \in SUBSET S : s \in F
  <2> HIDE DEF F
  <2> QED
    BY <1>3, SubsetInduction
<1> QED
  BY <1>1, <1>4
=============================================================================
