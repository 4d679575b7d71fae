--------------------------- MODULE Settings_proofs ---------------------------
(***************************************************************************)
(* Proofs about Settings, for any payload, any constraints of any number   *)
(* of folders and any settings: the version of PHP first, then the reading *)
(* of the settings.                                                        *)
(***************************************************************************)
EXTENDS Settings, SequenceTheorems, FiniteSetTheorems, TLAPS

-----------------------------------------------------------------------------
(* A set of natural numbers that has a member has a least one: of the      *)
(* intervals up to its members, one is minimal for inclusion.              *)
LEMMA LeastNatural ==
  ASSUME NEW T \in SUBSET Nat, T # {}
  PROVE  \E x \in T : \A y \in T : x <= y
<1>1. PICK k \in T : TRUE
  OBVIOUS
<1> DEFINE S == 0..k
           F == {0..i : i \in {j \in T : j <= k}}
<1>2. IsWellFoundedOn(StrictSubsetOrdering(S), SUBSET S)
  <2>1. IsFiniteSet(S)
    BY FS_Interval
  <2> QED
    BY <2>1, FS_StrictSubsetOrderingWellFounded, FS_FiniteSubsetsOfFinite
<1>3. F \subseteq SUBSET S /\ F # {}
  OBVIOUS
<1>4. PICK s \in F : \A t \in F : <<t, s>> \notin StrictSubsetOrdering(S)
  <2> HIDE DEF F, S
  <2> QED
    BY ONLY <1>2, <1>3, WFMin
<1>5. PICK x \in T : x <= k /\ s = 0..x
  BY <1>4
<1>6. ASSUME NEW y \in T, y < x PROVE FALSE
  <2>1. 0..y \in F
    BY <1>5, <1>6
  <2>2. 0..y \subseteq s /\ 0..y # s
    BY <1>5, <1>6
  <2>3. <<0..y, s>> \in StrictSubsetOrdering(S)
    BY <1>3, <2>1, <2>2 DEF StrictSubsetOrdering
  <2> QED
    BY <1>4, <2>1, <2>3
<1> QED
  BY <1>6

(* Min is the least number of a set that has one.                          *)
LEMMA LeastOf ==
  ASSUME NEW S, NEW x \in S, \A y \in S : x <= y, \A y \in S : y \in Int, x \in Int
  PROVE  Min(S) = x
<1>1. Min(S) \in S /\ \A y \in S : Min(S) <= y
  BY DEF Min
<1>2. Min(S) \in Int /\ Min(S) <= x /\ x <= Min(S)
  BY <1>1
<1> QED
  BY <1>2

(* Max is the greatest number of a set that has one.                       *)
LEMMA GreatestOf ==
  ASSUME NEW S, NEW x \in S, \A y \in S : y <= x, \A y \in S : y \in Int, x \in Int
  PROVE  Max(S) = x
<1>1. Max(S) \in S /\ \A y \in S : Max(S) >= y
  BY DEF Max
<1>2. Max(S) \in Int /\ Max(S) >= x /\ x >= Max(S)
  BY <1>1
<1> QED
  BY <1>2

(* Versions of numbers of one digit, and their order.                      *)
OneDigit == {<<x, y>> : x \in 0..9, y \in 0..9}
Below(a, b) == a[1] < b[1] \/ (a[1] = b[1] /\ a[2] < b[2])

(* The supported versions are 8.2 to 8.5.                                  *)
LEMMA SupportedSet == ToSet(Supported) = {<<8, n>> : n \in 2..5}
<1>1. DOMAIN Supported = 1..4
  BY DEF Supported
<1>2. ToSet(Supported) = {Supported[i] : i \in 1..4}
  BY <1>1 DEF ToSet
<1>3. \A i \in 1..4 : Supported[i] = <<8, i + 1>>
  BY DEF Supported
<1> QED
  BY <1>2, <1>3

(* Place counts them in their order.                                       *)
LEMMA PlaceOf ==
  ASSUME NEW n \in 2..5
  PROVE  Place(<<8, n>>) = n - 1
<1>1. DOMAIN Supported = 1..4 /\ \A i \in 1..4 : Supported[i] = <<8, i + 1>>
  BY DEF Supported
<1>2. \A i \in DOMAIN Supported : Supported[i] = <<8, n>> <=> i = n - 1
  BY <1>1
<1>3. {i \in DOMAIN Supported : Supported[i] = <<8, n>>} = {n - 1}
  BY <1>1, <1>2
<1> QED
  BY <1>3, LeastOf DEF Place

(* The text of a version of two digits.                                    *)
LEMMA TextOf ==
  ASSUME NEW x \in 0..9, NEW y \in 0..9
  PROVE  Text(<<x, y>>) = <<x, -1, y>>
<1>1. Digits(x) = <<x>> /\ Digits(y) = <<y>>
  BY DEF Digits
<1>2. <<x>> \o <<-1>> = <<x, -1>>
  <2>1. <<x>> \in Seq(Int) /\ <<-1>> \in Seq(Int) /\ <<x, -1>> \in Seq(Int)
    OBVIOUS
  <2> DEFINE c == <<x>> \o <<-1>>
  <2>2. c \in Seq(Int) /\ Len(c) = 2 /\ c[1] = x /\ c[2] = -1
    BY <2>1, ConcatProperties
  <2> HIDE DEF c
  <2>3. Len(c) = Len(<<x, -1>>) /\ \A i \in 1..Len(c) : c[i] = <<x, -1>>[i]
    BY <2>2
  <2>4. c = <<x, -1>>
    BY <2>1, <2>2, <2>3, SeqEqual
  <2> QED
    BY <2>4 DEF c
<1>3. <<x, -1>> \o <<y>> = <<x, -1, y>>
  <2>1. <<x, -1>> \in Seq(Int) /\ <<y>> \in Seq(Int) /\ <<x, -1, y>> \in Seq(Int)
    OBVIOUS
  <2> DEFINE c == <<x, -1>> \o <<y>>
  <2>2. c \in Seq(Int) /\ Len(c) = 3 /\ c[1] = x /\ c[2] = -1 /\ c[3] = y
    BY <2>1, ConcatProperties
  <2> HIDE DEF c
  <2>3. Len(c) = Len(<<x, -1, y>>) /\ \A i \in 1..Len(c) : c[i] = <<x, -1, y>>[i]
    BY <2>2
  <2>4. c = <<x, -1, y>>
    BY <2>1, <2>2, <2>3, SeqEqual
  <2> QED
    BY <2>4 DEF c
<1> QED
  BY <1>1, <1>2, <1>3 DEF Text

(* On numbers of one digit the order of the strings is that of the         *)
(* versions.                                                               *)
LEMMA StringOrder ==
  ASSUME NEW a \in OneDigit, NEW b \in OneDigit
  PROVE  StringBefore(a, b) <=> Below(a, b)
<1>1. PICK x \in 0..9, y \in 0..9 : a = <<x, y>>
  BY DEF OneDigit
<1>2. PICK z \in 0..9, w \in 0..9 : b = <<z, w>>
  BY DEF OneDigit
<1>a. Below(a, b) <=> x < z \/ (x = z /\ y < w)
  BY <1>1, <1>2 DEF Below
<1>3. Text(a) = <<x, -1, y>> /\ Text(b) = <<z, -1, w>>
  BY <1>1, <1>2, TextOf
<1> DEFINE differ == {i \in 1..3 : <<x, -1, y>>[i] # <<z, -1, w>>[i]}
<1>4. Min({3, 3}) = 3
  BY LeastOf
<1>5. StringBefore(a, b) <=> IF differ = {} THEN 3 < 3
                             ELSE <<x, -1, y>>[Min(differ)] < <<z, -1, w>>[Min(differ)]
  BY <1>3, <1>4 DEF StringBefore
<1>6. /\ 1 \in differ <=> x # z
      /\ 2 \notin differ
      /\ 3 \in differ <=> y # w
      /\ differ \subseteq {1, 3}
  OBVIOUS
<1>7. CASE x # z
  <2>1. 1 \in differ /\ \A i \in differ : 1 <= i /\ i \in Int
    BY <1>6, <1>7
  <2>2. Min(differ) = 1
    BY <2>1, LeastOf
  <2>3. StringBefore(a, b) <=> x < z
    BY <1>5, <2>1, <2>2
  <2> QED
    BY <1>7, <1>a, <2>3
<1>8. CASE x = z /\ y # w
  <2>1. differ = {3}
    BY <1>6, <1>8
  <2>2. Min(differ) = 3
    BY <2>1, LeastOf
  <2> QED
    BY <1>1, <1>2, <1>5, <2>1, <2>2, <1>8 DEF Below
<1>9. CASE x = z /\ y = w
  BY <1>1, <1>2, <1>5, <1>6, <1>9 DEF Below
<1> QED
  BY <1>7, <1>8, <1>9

(* So is CompareMajorMinor, the table of supported versions or not.        *)
LEMMA CompareIsOrder ==
  ASSUME NEW a \in ToSet(Supported), NEW b \in OneDigit
  PROVE  /\ CompareMajorMinor(a, b) \in {-1, 0, 1}
         /\ CompareMajorMinor(a, b) = 0 <=> a = b
         /\ CompareMajorMinor(a, b) = -1 <=> Below(a, b)
<1>1. PICK n \in 2..5 : a = <<8, n>>
  BY SupportedSet
<1>2. PICK z \in 0..9, w \in 0..9 : b = <<z, w>>
  BY DEF OneDigit
<1>3. CASE a = b
  BY <1>1, <1>2, <1>3 DEF CompareMajorMinor, Below
<1>4. CASE a # b /\ b \in ToSet(Supported)
  <2>1. z = 8 /\ w \in 2..5
    BY <1>2, <1>4, SupportedSet
  <2>2. Place(a) = n - 1 /\ Place(b) = w - 1
    BY <1>1, <1>2, <2>1, PlaceOf
  <2>3. {a, b} \subseteq ToSet(Supported)
    BY <1>4
  <2>4. CompareMajorMinor(a, b) = IF n - 1 < w - 1 THEN -1 ELSE 1
    BY <1>4, <2>2, <2>3 DEF CompareMajorMinor
  <2> QED
    BY <1>1, <1>2, <1>4, <2>1, <2>4 DEF Below
<1>5. CASE a # b /\ b \notin ToSet(Supported)
  <2>1. a \in OneDigit
    BY <1>1 DEF OneDigit
  <2>2. CompareMajorMinor(a, b) = IF StringBefore(a, b) THEN -1 ELSE 1
    BY <1>5 DEF CompareMajorMinor
  <2> QED
    BY <1>5, <2>1, <2>2, StringOrder
<1> QED
  BY <1>3, <1>4, <1>5

(* The first two numbers of a version.                                     *)
LEMMA TwoOf ==
  ASSUME NEW v \in Seq(Nat), Len(v) >= 2
  PROVE  SubSeq(v, 1, 2) = <<v[1], v[2]>>
<1> DEFINE c == SubSeq(v, 1, 2)
<1>1. c \in Seq(Nat) /\ Len(c) = 2 /\ c[1] = v[1] /\ c[2] = v[2]
  BY SubSeqProperties
<1>2. <<v[1], v[2]>> \in Seq(Nat)
  OBVIOUS
<1> HIDE DEF c
<1>3. Len(c) = Len(<<v[1], v[2]>>) /\ \A i \in 1..Len(c) : c[i] = <<v[1], v[2]>>[i]
  BY <1>1
<1>4. c = <<v[1], v[2]>>
  BY <1>1, <1>2, <1>3, SeqEqual
<1> QED
  BY <1>4 DEF c

(* The reference's order of releases is the lexicographic one.             *)
LEMMA NotAfterIsOrder ==
  ASSUME NEW a \in Nat, NEW b \in Nat, NEW c \in Nat, NEW x \in Nat, NEW y \in Nat, NEW z \in Nat
  PROVE  /\ NotAfter(<<a, b, c>>, <<x, y, z>>) <=> a < x \/ (a = x /\ (b < y \/ (b = y /\ c <= z)))
         /\ Precedes(<<a, b, c>>, <<x, y, z>>) <=> a < x \/ (a = x /\ (b < y \/ (b = y /\ c < z)))
<1> DEFINE v == <<a, b, c>>
           w == <<x, y, z>>
           first(i) == v[i] < w[i] /\ \A j \in 1..(i - 1) : v[j] = w[j]
<1>1. v = w <=> a = x /\ b = y /\ c = z
  OBVIOUS
<1>2. first(1) <=> a < x
  OBVIOUS
<1>3. first(2) <=> a = x /\ b < y
  OBVIOUS
<1>4. first(3) <=> a = x /\ b = y /\ c < z
  OBVIOUS
<1>5. (\E i \in 1..3 : first(i)) <=> first(1) \/ first(2) \/ first(3)
  <2> HIDE DEF first
  <2>1. 1..3 = {1, 2, 3}
    OBVIOUS
  <2> QED
    BY <2>1
<1>6. NotAfter(v, w) <=> v = w \/ \E i \in 1..3 : first(i)
  BY DEF NotAfter
<1>7. Precedes(v, w) <=> v # w /\ NotAfter(v, w)
  BY DEF Precedes
<1> HIDE DEF v, w, first
<1>8. /\ NotAfter(v, w) <=> a < x \/ (a = x /\ (b < y \/ (b = y /\ c <= z)))
      /\ Precedes(v, w) <=> a < x \/ (a = x /\ (b < y \/ (b = y /\ c < z)))
  BY <1>1, <1>2, <1>3, <1>4, <1>5, <1>6, <1>7
<1> QED
  BY <1>8 DEF v, w

(* Any token, and any constraint.                                          *)
Operators == {"*", "=", ".*", ">=", ">", "<=", "<", "^", "~"}
Tokens == {Token(op, v) : op \in Operators, v \in {w \in Seq(Nat) : Len(w) <= 3}}

(* A minor version with a patch number is a release.                       *)
LEMMA AppendTwo ==
  ASSUME NEW x \in Nat, NEW y \in Nat, NEW z \in Nat
  PROVE  Append(<<x, y>>, z) = <<x, y, z>>
<1> DEFINE c == Append(<<x, y>>, z)
<1>1. <<x, y>> \in Seq(Nat) /\ <<x, y, z>> \in Seq(Nat)
  OBVIOUS
<1>2. c \in Seq(Nat) /\ Len(c) = 3 /\ c[1] = x /\ c[2] = y /\ c[3] = z
  BY <1>1, AppendProperties
<1> HIDE DEF c
<1>3. Len(c) = Len(<<x, y, z>>) /\ \A i \in 1..Len(c) : c[i] = <<x, y, z>>[i]
  BY <1>2
<1>4. c = <<x, y, z>>
  BY <1>1, <1>2, <1>3, SeqEqual
<1> QED
  BY <1>4 DEF c

(* A version of two or three numbers, filled up to three.                  *)
LEMMA PaddedOf ==
  ASSUME NEW v \in Seq(Nat), (Len(v) = 2 \/ Len(v) = 3)
  PROVE  Padded(v) = <<v[1], v[2], IF Len(v) = 3 THEN v[3] ELSE 0>>
<1> DEFINE w == <<v[1], v[2], IF Len(v) = 3 THEN v[3] ELSE 0>>
           p == Padded(v)
<1>1. p = [i \in 1..3 |-> IF i <= Len(v) THEN v[i] ELSE 0]
  BY DEF Padded
<1>2. \A i \in 1..3 : (IF i <= Len(v) THEN v[i] ELSE 0) \in Nat
  OBVIOUS
<1>3. p \in Seq(Nat) /\ Len(p) = 3
  BY <1>1, <1>2
<1>4. w \in Seq(Nat) /\ Len(w) = 3
  OBVIOUS
<1>5. p[1] = w[1] /\ p[2] = w[2] /\ p[3] = w[3]
  BY <1>1
<1> HIDE DEF w, p
<1>6. \A i \in 1..Len(p) : p[i] = w[i]
  BY <1>3, <1>5
<1>7. p = w
  BY <1>3, <1>4, <1>6, SeqEqual
<1> QED
  BY <1>7 DEF w, p

(* A number below nine is of one digit, and so is the next.                *)
LEMMA UpToEight ==
  ASSUME NEW k \in Nat, k < 9
  PROVE  k \in 0..8
OBVIOUS

(* A supported version passes a token of the constraint, as                *)
(* ConstraintTokenAllowsMajorMinor decides it from two numbers, exactly if *)
(* Composer would take one of its releases, whatever the patch number of   *)
(* either.                                                                 *)
LEMMA TokenMeans ==
  ASSUME NEW m \in ToSet(Supported), NEW t \in Tokens, RegularToken(t)
  PROVE  ConstraintTokenAllowsMajorMinor(t, m) <=> \E p \in Nat : Satisfies(Append(m, p), t)
<1>1. PICK n \in 2..5 : m = <<8, n>>
  BY SupportedSet
<1>2. PICK op \in Operators, v \in Seq(Nat) : t = Token(op, v) /\ Len(v) <= 3
  BY DEF Tokens
<1>3. t.op = op /\ t.version = v
  BY <1>2 DEF Token
<1>4. CASE op = "*"
  BY <1>3, <1>4 DEF ConstraintTokenAllowsMajorMinor, Satisfies
<1>5. CASE op # "*"
  <2>1. v[1] \in 0..8 /\ v[2] \in 0..8 /\ (Len(v) = 2 \/ Len(v) = 3) /\ op # ">" /\ (op = "<" => Len(v) = 2)
    <3>1. /\ Len(v) >= 2 /\ v[1] < 9 /\ v[2] < 9
          /\ op # ">"
          /\ op = "<" => Len(v) = 2
      BY <1>3, <1>5 DEF RegularToken
    <3>2. Len(v) >= 2 /\ Len(v) \in Nat /\ Len(v) <= 3
      BY <1>2, <3>1
    <3>3. Len(v) = 2 \/ Len(v) = 3
      <4>1. PICK l \in Nat : l = Len(v)
        BY <3>2
      <4> QED
        BY <3>2, <4>1
    <3>4. v[1] \in Nat /\ v[1] < 9
      BY <3>1, <3>2
    <3>5. v[2] \in Nat /\ v[2] < 9
      BY <3>1, <3>2
    <3>6. v[1] \in 0..8
      BY <3>4, UpToEight
    <3>7. v[2] \in 0..8
      BY <3>5, UpToEight
    <3> QED
      BY <3>1, <3>3, <3>6, <3>7
  <2>2. PICK x \in 0..8, y \in 0..8, z \in Nat : /\ v[1] = x /\ v[2] = y
                                                 /\ z = IF Len(v) = 3 THEN v[3] ELSE 0
    BY <2>1
  <2> DEFINE base == <<x, y>>
             nextMinor == <<x, y + 1>>
             nextMajor == <<x + 1, 0>>
  <2>3. MajorMinorVersion(v) = base /\ base # None
    BY <2>1, <2>2, TwoOf DEF MajorMinorVersion, None
  <2>4. base \in OneDigit /\ nextMinor \in OneDigit /\ nextMajor \in OneDigit
    BY DEF OneDigit
  <2>5. Padded(v) = <<x, y, z>>
    BY <2>1, <2>2, PaddedOf
  <2>6. ASSUME NEW p \in Nat
        PROVE  Append(m, p) = <<8, n, p>>
    BY <1>1, AppendTwo
  <2>7. /\ Below(m, base) <=> 8 < x \/ (8 = x /\ n < y)
        /\ Below(m, nextMinor) <=> 8 < x \/ (8 = x /\ n < y + 1)
        /\ Below(m, nextMajor) <=> 8 < x + 1
        /\ m = base <=> x = 8 /\ y = n
    BY <1>1 DEF Below
  <2>8. /\ CompareMajorMinor(m, base) \in {-1, 0, 1}
        /\ CompareMajorMinor(m, base) = 0 <=> m = base
        /\ CompareMajorMinor(m, base) = -1 <=> Below(m, base)
        /\ CompareMajorMinor(m, nextMinor) < 0 <=> Below(m, nextMinor)
        /\ CompareMajorMinor(m, nextMajor) < 0 <=> Below(m, nextMajor)
    <3> HIDE DEF base, nextMinor, nextMajor
    <3>1. /\ CompareMajorMinor(m, nextMinor) \in {-1, 0, 1}
          /\ CompareMajorMinor(m, nextMinor) = -1 <=> Below(m, nextMinor)
      BY <2>4, CompareIsOrder
    <3>2. /\ CompareMajorMinor(m, nextMajor) \in {-1, 0, 1}
          /\ CompareMajorMinor(m, nextMajor) = -1 <=> Below(m, nextMajor)
      BY <2>4, CompareIsOrder
    <3>3. /\ CompareMajorMinor(m, base) \in {-1, 0, 1}
          /\ CompareMajorMinor(m, base) = 0 <=> m = base
          /\ CompareMajorMinor(m, base) = -1 <=> Below(m, base)
      BY <2>4, CompareIsOrder
    <3> QED
      BY <3>1, <3>2, <3>3
  <2> DEFINE allows == ConstraintTokenAllowsMajorMinor(t, m)
             release(p) == <<8, n, p>>
             v3 == <<x, y, z>>
             nextMinor3 == <<x, y + 1, 0>>
             nextMajor3 == <<x + 1, 0, 0>>
  <2>9. ASSUME NEW p \in Nat
        PROVE  /\ NotAfter(v3, release(p)) <=> x < 8 \/ (x = 8 /\ (y < n \/ (y = n /\ z <= p)))
               /\ NotAfter(release(p), v3) <=> 8 < x \/ (8 = x /\ (n < y \/ (n = y /\ p <= z)))
               /\ Precedes(release(p), v3) <=> 8 < x \/ (8 = x /\ (n < y \/ (n = y /\ p < z)))
               /\ Precedes(release(p), nextMinor3) <=> 8 < x \/ (8 = x /\ n < y + 1)
               /\ Precedes(release(p), nextMajor3) <=> 8 < x + 1
    <3>1. /\ NotAfter(v3, release(p)) <=> x < 8 \/ (x = 8 /\ (y < n \/ (y = n /\ z <= p)))
          /\ NotAfter(release(p), v3) <=> 8 < x \/ (8 = x /\ (n < y \/ (n = y /\ p <= z)))
          /\ Precedes(release(p), v3) <=> 8 < x \/ (8 = x /\ (n < y \/ (n = y /\ p < z)))
      BY NotAfterIsOrder
    <3>2. Precedes(release(p), nextMinor3) <=> 8 < x \/ (8 = x /\ (n < y + 1 \/ (n = y + 1 /\ p < 0)))
      BY NotAfterIsOrder
    <3>3. Precedes(release(p), nextMajor3) <=> 8 < x + 1 \/ (8 = x + 1 /\ (n < 0 \/ (n = 0 /\ p < 0)))
      BY NotAfterIsOrder
    <3> HIDE DEF release, v3, nextMinor3, nextMajor3
    <3> QED
      BY <3>1, <3>2, <3>3
  <2>10. v3[1] = x /\ v3[2] = y /\ base[1] = x /\ base[2] = y
    OBVIOUS
  <2>11. \A p \in Nat : release(p) = v3 <=> 8 = x /\ n = y /\ p = z
    OBVIOUS
  <2> HIDE DEF release, v3, nextMinor3, nextMajor3, base, nextMinor, nextMajor
  <2>12. SUFFICES allows <=> \E p \in Nat : Satisfies(release(p), t)
    BY <2>6 DEF release
  <2>13. CASE op = "="
    <3>1. allows <=> m = base
      BY <1>3, <2>3, <2>8, <2>13 DEF ConstraintTokenAllowsMajorMinor
    <3>2. \A p \in Nat : Satisfies(release(p), t) <=> release(p) = v3
      BY <1>3, <2>5, <2>13 DEF Satisfies, v3
    <3> QED
      BY <3>1, <3>2, <2>7, <2>11
  <2>14. CASE op = ">="
    <3>1. allows <=> ~Below(m, base)
      BY <1>3, <2>3, <2>8, <2>14 DEF ConstraintTokenAllowsMajorMinor
    <3>2. \A p \in Nat : Satisfies(release(p), t) <=> NotAfter(v3, release(p))
      BY <1>3, <2>5, <2>14 DEF Satisfies, v3
    <3>3. allows => NotAfter(v3, release(z))
      BY <3>1, <2>7, <2>9
    <3>4. ASSUME NEW p \in Nat, NotAfter(v3, release(p)) PROVE allows
      BY <3>1, <3>4, <2>7, <2>9
    <3> QED
      BY <3>2, <3>3, <3>4
  <2>15. CASE op = "<="
    <3>1. allows <=> Below(m, base) \/ m = base
      BY <1>3, <2>3, <2>8, <2>15 DEF ConstraintTokenAllowsMajorMinor
    <3>2. \A p \in Nat : Satisfies(release(p), t) <=> NotAfter(release(p), v3)
      BY <1>3, <2>5, <2>15 DEF Satisfies, v3
    <3>3. allows => NotAfter(release(0), v3)
      BY <3>1, <2>7, <2>9
    <3>4. ASSUME NEW p \in Nat, NotAfter(release(p), v3) PROVE allows
      BY <3>1, <3>4, <2>7, <2>9
    <3> QED
      BY <3>2, <3>3, <3>4
  <2>16. CASE op = "<"
    <3>1. allows <=> Below(m, base)
      BY <1>3, <2>3, <2>8, <2>16 DEF ConstraintTokenAllowsMajorMinor
    <3>2. \A p \in Nat : Satisfies(release(p), t) <=> Precedes(release(p), v3)
      BY <1>3, <2>5, <2>16 DEF Satisfies, v3
    <3>3. z = 0
      <4>1. Len(v) = 2
        BY <2>1, <2>16
      <4> QED
        BY <2>2, <4>1
    <3>4. allows => Precedes(release(0), v3)
      BY <3>1, <2>7, <2>9
    <3>5. ASSUME NEW p \in Nat, Precedes(release(p), v3) PROVE allows
      BY <3>1, <3>3, <3>5, <2>7, <2>9
    <3> QED
      BY <3>2, <3>4, <3>5
  <2>17. CASE op = ".*"
    <3>1. allows <=> m = base
      BY <1>3, <2>3, <2>17 DEF ConstraintTokenAllowsMajorMinor
    <3>2. \A p \in Nat : Satisfies(release(p), t) <=> IsPrefix(v, release(p))
      BY <1>3, <2>17 DEF Satisfies
    <3>3. \A p \in Nat : /\ release(p) \in Seq(Nat) /\ Len(release(p)) = 3
                         /\ release(p)[1] = 8 /\ release(p)[2] = n /\ release(p)[3] = p
      BY DEF release
    <3>4. CASE Len(v) = 2
      <4>1. ASSUME NEW p \in Nat
            PROVE  IsPrefix(v, release(p)) <=> <<v[1], v[2]>> = <<8, n>>
        BY <3>3, <3>4, TwoOf DEF IsPrefix
      <4> QED
        BY <3>1, <3>2, <4>1, <2>2, <2>7
    <3>5. CASE Len(v) = 3
      <4>1. ASSUME NEW p \in Nat
            PROVE  IsPrefix(v, release(p)) <=> v = release(p)
        <5>1. SubSeq(v, 1, 3) = v /\ SubSeq(release(p), 1, 3) = release(p)
          <6>1. SubSeq(v, 1, Len(v)) = v
            BY SubSeqFull
          <6>2. SubSeq(release(p), 1, Len(release(p))) = release(p)
            BY <3>3, SubSeqFull
          <6>3. Len(v) = 3 /\ Len(release(p)) = 3
            BY <3>3, <3>5
          <6> QED
            BY <6>1, <6>2, <6>3
        <5>2. Len(v) = 3 /\ Len(release(p)) = 3
          BY <3>3, <3>5
        <5>3. IsPrefix(v, release(p)) <=> SubSeq(v, 1, 3) = SubSeq(release(p), 1, 3)
          BY <5>2 DEF IsPrefix
        <5> QED
          BY <5>1, <5>3
      <4>2. v = v3
        <5>1. v3 \in Seq(Nat) /\ Len(v3) = 3 /\ v3[1] = x /\ v3[2] = y /\ v3[3] = z
          BY DEF v3
        <5>2. \A i \in 1..Len(v) : v[i] = v3[i]
          BY <3>5, <5>1, <2>2
        <5> QED
          BY <3>5, <5>1, <5>2, SeqEqual
      <4> QED
        BY <3>1, <3>2, <4>1, <4>2, <2>7, <2>11
    <3> QED
      BY <3>4, <3>5, <2>1
  <2>18. CASE op = "^"
    <3>1. allows <=> ~Below(m, base) /\ IF x = 0 THEN Below(m, nextMinor) ELSE Below(m, nextMajor)
      BY <1>3, <2>3, <2>8, <2>10, <2>18
      DEF ConstraintTokenAllowsMajorMinor, CaretOrTildeAllows, nextMinor, nextMajor
    <3>2. \A p \in Nat : Satisfies(release(p), t) <=>
            /\ NotAfter(v3, release(p))
            /\ IF x = 0 THEN Precedes(release(p), nextMinor3) ELSE Precedes(release(p), nextMajor3)
      BY <1>3, <2>5, <2>10, <2>18 DEF Satisfies, v3, nextMinor3, nextMajor3
    <3>3. allows => Satisfies(release(z), t)
      BY <3>1, <3>2, <2>7, <2>9
    <3>4. ASSUME NEW p \in Nat, Satisfies(release(p), t) PROVE allows
      BY <3>1, <3>2, <3>4, <2>7, <2>9
    <3> QED
      BY <3>3, <3>4
  <2>19. CASE op = "~"
    <3>0. Len(v) >= 3 <=> Len(v) = 3
      <4>1. CASE Len(v) = 2
        BY <4>1
      <4>2. CASE Len(v) = 3
        BY <4>2
      <4> QED
        BY <2>1, <4>1, <4>2
    <3>1. allows <=> ~Below(m, base) /\ IF Len(v) = 3 THEN Below(m, nextMinor) ELSE Below(m, nextMajor)
      BY <3>0, <1>3, <2>1, <2>3, <2>8, <2>10, <2>19
      DEF ConstraintTokenAllowsMajorMinor, CaretOrTildeAllows, nextMinor, nextMajor
    <3>2. \A p \in Nat : Satisfies(release(p), t) <=>
            /\ NotAfter(v3, release(p))
            /\ IF Len(v) = 3 THEN Precedes(release(p), nextMinor3) ELSE Precedes(release(p), nextMajor3)
      BY <1>3, <2>5, <2>10, <2>19 DEF Satisfies, v3, nextMinor3, nextMajor3
    <3>3. allows => Satisfies(release(z), t)
      BY <3>1, <3>2, <2>7, <2>9
    <3>4. ASSUME NEW p \in Nat, Satisfies(release(p), t) PROVE allows
      BY <3>1, <3>2, <3>4, <2>7, <2>9
    <3> QED
      BY <3>3, <3>4
  <2> QED
    BY <1>5, <2>1, <2>13, <2>14, <2>15, <2>16, <2>17, <2>18, <2>19 DEF Operators
<1> QED
  BY <1>4, <1>5

Constraints == SUBSET SUBSET Tokens
Regular(constraint) == \A group \in constraint : \A t \in group : RegularToken(t)
LowestOf(versions) == CHOOSE v \in versions : \A w \in versions : v[2] <= w[2]

(* So it passes a constraint exactly if each token of an alternative       *)
(* leaves one of its releases.                                             *)
LEMMA ConstraintMeans ==
  ASSUME NEW c \in Constraints, Regular(c), c # Star, NEW m \in ToSet(Supported)
  PROVE  m \in LowestAllowed(c, Nat) <=> ConstraintAllowsMajorMinor(c, m)
<1>1. ASSUME NEW group \in c, NEW t \in group
      PROVE  ConstraintTokenAllowsMajorMinor(t, m) <=> \E p \in Nat : Satisfies(Append(m, p), t)
  <2>1. t \in Tokens /\ RegularToken(t)
    BY <1>1 DEF Constraints, Regular
  <2> QED
    BY <2>1, TokenMeans
<1>2. \A group \in c : (\A t \in group : ConstraintTokenAllowsMajorMinor(t, m))
                         <=> \A t \in group : \E p \in Nat : Satisfies(Append(m, p), t)
  BY <1>1
<1>3. ConstraintAllowsMajorMinor(c, m) <=>
        \E group \in c : group # {} /\ \A t \in group : \E p \in Nat : Satisfies(Append(m, p), t)
  BY <1>2 DEF ConstraintAllowsMajorMinor
<1> QED
  BY <1>3 DEF LowestAllowed

(* VersionFromConstraint is the lowest supported version that is left, and *)
(* none if none is.                                                        *)
LEMMA VersionIsLowest ==
  ASSUME NEW c \in Constraints, Regular(c)
  PROVE  LET L == LowestAllowed(c, Nat)
         IN IF L = {} THEN VersionFromConstraint(c) = None
            ELSE VersionFromConstraint(c) = LowestOf(L) /\ VersionFromConstraint(c) # None
<1> DEFINE L == LowestAllowed(c, Nat)
           allowed == {i \in DOMAIN Supported : ConstraintAllowsMajorMinor(c, Supported[i])}
<1>1. CASE c = Star
  BY <1>1 DEF LowestAllowed, VersionFromConstraint
<1>2. CASE c # Star
  <2>1. DOMAIN Supported = 1..4 /\ \A i \in 1..4 : Supported[i] = <<8, i + 1>>
    BY DEF Supported
  <2>2. \A i \in 1..4 : <<8, i + 1>> \in ToSet(Supported)
    BY SupportedSet
  <2>3. \A i \in 1..4 : i \in allowed <=> <<8, i + 1>> \in L
    BY <1>2, <2>1, <2>2, ConstraintMeans
  <2>4. \A m \in L : \E i \in 1..4 : m = <<8, i + 1>>
    <3>1. TAKE m \in L
    <3>2. m \in ToSet(Supported)
      BY DEF LowestAllowed
    <3>3. PICK n \in 2..5 : m = <<8, n>>
      BY <3>2, SupportedSet
    <3>4. n - 1 \in 1..4 /\ m = <<8, (n - 1) + 1>>
      BY <3>3
    <3> QED
      BY <3>4
  <2>5. allowed \subseteq 1..4
    BY <2>1
  <2>6. VersionFromConstraint(c) = IF allowed = {} THEN None ELSE Supported[Min(allowed)]
    BY <1>2 DEF VersionFromConstraint
  <2> HIDE DEF L, allowed
  <2>7. CASE allowed = {}
    <3>1. L = {}
      BY <2>3, <2>4, <2>7
    <3> QED
      BY <2>6, <2>7, <3>1 DEF L
  <2>8. CASE allowed # {}
    <3>1. PICK x \in allowed : \A y \in allowed : x <= y
      <4>1. allowed \in SUBSET Nat
        BY <2>5
      <4> QED
        BY <4>1, <2>8, LeastNatural
    <3>2. x \in 1..4 /\ Min(allowed) = x
      <4>1. x \in 1..4 /\ \A y \in allowed : y \in Int
        BY <2>5
      <4>2. x \in Int
        BY <4>1
      <4> QED
        BY <3>1, <4>1, <4>2, LeastOf
    <3>3. VersionFromConstraint(c) = <<8, x + 1>>
      BY <2>1, <2>6, <2>8, <3>2
    <3>4. <<8, x + 1>> \in L
      BY <2>3, <3>1, <3>2
    <3>5. \A m \in L : <<8, x + 1>>[2] <= m[2]
      <4>1. TAKE m \in L
      <4>2. PICK y \in 1..4 : m = <<8, y + 1>>
        BY <2>4
      <4>3. x <= y
        BY <2>3, <3>1, <4>2
      <4> QED
        BY <3>2, <4>2, <4>3
    <3>6. LowestOf(L) \in L /\ LowestOf(L)[2] <= <<8, x + 1>>[2]
      BY <3>4, <3>5 DEF LowestOf
    <3>7. PICK y \in 1..4 : LowestOf(L) = <<8, y + 1>>
      BY <2>4, <3>6
    <3>8. <<8, x + 1>>[2] <= <<8, y + 1>>[2] /\ <<8, y + 1>>[2] <= <<8, x + 1>>[2]
      BY <3>5, <3>6, <3>7
    <3>9. y = x
      BY <3>2, <3>8
    <3>10. <<8, x + 1>> # None
      BY DEF None
    <3> QED
      BY <3>3, <3>4, <3>7, <3>9, <3>10 DEF L
  <2> QED
    BY <2>7, <2>8
<1> QED
  BY <1>1, <1>2

(* FirstOf is the first that is known.                                     *)
LEMMA FirstKnown ==
  ASSUME NEW versions, NEW n \in Nat, DOMAIN versions = 1..n,
         NEW i \in 1..n, versions[i] # None, \A j \in 1..(i - 1) : versions[j] = None
  PROVE  FirstOf(versions) = versions[i]
<1> DEFINE known == {k \in DOMAIN versions : versions[k] # None}
<1>1. i \in known /\ \A k \in known : i <= k /\ k \in Int
  <2>1. i \in known
    OBVIOUS
  <2>2. ASSUME NEW k \in known PROVE k \in 1..n /\ i <= k
    <3>1. k \in 1..n /\ versions[k] # None
      BY <2>2
    <3>2. k \notin 1..(i - 1)
      BY <3>1
    <3> QED
      BY <3>1, <3>2
  <2> QED
    BY <2>1, <2>2
<1>2. i \in Int
  OBVIOUS
<1> HIDE DEF known
<1>3. Min(known) = i
  BY <1>1, <1>2, LeastOf
<1>4. known # {}
  BY <1>1
<1>5. FirstOf(versions) = IF known = {} THEN None ELSE versions[Min(known)]
  BY DEF FirstOf, known
<1> QED
  BY <1>3, <1>4, <1>5

(* And none if none is.                                                    *)
LEMMA NoneKnown ==
  ASSUME NEW versions, \A i \in DOMAIN versions : versions[i] = None
  PROVE  FirstOf(versions) = None
BY DEF FirstOf

Manifests == Seq([platform : Constraints, require : Constraints])
RegularManifests(manifests) ==
  \A m \in ToSet(manifests) : \A group \in m.platform \cup m.require : \A t \in group : RegularToken(t)

(* Which versions each constraint of the manifests leaves, in order.       *)
Wanted(manifests) ==
  [i \in 1..(2 * Len(manifests)) |->
     LET m == manifests[(i + 1) \div 2]
     IN LowestAllowed(IF i % 2 = 1 THEN m.platform ELSE m.require, Nat)]

(* A composer.json gives what config.platform leaves, if it leaves a       *)
(* version, and what is required otherwise.                                *)
LEMMA ManifestMeans ==
  ASSUME NEW manifests \in Manifests, RegularManifests(manifests), NEW i \in 1..Len(manifests)
  PROVE  LET p == Wanted(manifests)[2 * i - 1]
             r == Wanted(manifests)[2 * i]
             v == DetectComposerPHPVersionAt(manifests[i])
         IN /\ p # {} => v = LowestOf(p) /\ v # None
            /\ p = {} /\ r # {} => v = LowestOf(r) /\ v # None
            /\ p = {} /\ r = {} => v = None
<1> DEFINE m == manifests[i]
           p == Wanted(manifests)[2 * i - 1]
           r == Wanted(manifests)[2 * i]
           v == DetectComposerPHPVersionAt(m)
<1>1. m.platform \in Constraints /\ m.require \in Constraints
  <2>1. m \in [platform : Constraints, require : Constraints]
    BY ElementOfSeq DEF Manifests
  <2> HIDE DEF m
  <2> QED
    BY <2>1
<1>2. Regular(m.platform) /\ Regular(m.require)
  <2>1. m \in ToSet(manifests)
    BY DEF ToSet, Manifests
  <2> QED
    BY <2>1 DEF Regular, RegularManifests
<1>3. p = LowestAllowed(m.platform, Nat)
  <2>1. 2 * i - 1 \in 1..(2 * Len(manifests)) /\ (2 * i - 1 + 1) \div 2 = i /\ (2 * i - 1) % 2 = 1
    OBVIOUS
  <2> QED
    BY <2>1 DEF Wanted
<1>4. r = LowestAllowed(m.require, Nat)
  <2>1. 2 * i \in 1..(2 * Len(manifests)) /\ (2 * i + 1) \div 2 = i /\ (2 * i) % 2 # 1
    OBVIOUS
  <2> QED
    BY <2>1 DEF Wanted
<1>5. v = IF VersionFromConstraint(m.platform) # None THEN VersionFromConstraint(m.platform)
          ELSE VersionFromConstraint(m.require)
  BY DEF DetectComposerPHPVersionAt
<1>6. IF p = {} THEN VersionFromConstraint(m.platform) = None
      ELSE VersionFromConstraint(m.platform) = LowestOf(p) /\ VersionFromConstraint(m.platform) # None
  BY <1>1, <1>2, <1>3, VersionIsLowest
<1>7. IF r = {} THEN VersionFromConstraint(m.require) = None
      ELSE VersionFromConstraint(m.require) = LowestOf(r) /\ VersionFromConstraint(m.require) # None
  BY <1>1, <1>2, <1>4, VersionIsLowest
<1> HIDE DEF m, p, r, v
<1>8. /\ p # {} => v = LowestOf(p) /\ v # None
      /\ p = {} /\ r # {} => v = LowestOf(r) /\ v # None
      /\ p = {} /\ r = {} => v = None
  BY <1>5, <1>6, <1>7
<1> QED
  BY <1>8 DEF m, p, r, v

(* Over any number of folders the first constraint that leaves a version   *)
(* decides.                                                                *)
LEMMA ComposerMeans ==
  ASSUME NEW manifests \in Manifests, RegularManifests(manifests)
  PROVE  LET wanted == Wanted(manifests)
             says == {i \in DOMAIN wanted : wanted[i] # {}}
             v == DetectComposerPHPVersion(manifests)
         IN IF says = {} THEN v = None ELSE v = LowestOf(wanted[Min(says)]) /\ v # None
<1> DEFINE wanted == Wanted(manifests)
           says == {i \in DOMAIN wanted : wanted[i] # {}}
           found == [i \in DOMAIN manifests |-> DetectComposerPHPVersionAt(manifests[i])]
           n == Len(manifests)
<1>1. n \in Nat /\ DOMAIN manifests = 1..n /\ DOMAIN wanted = 1..(2 * n) /\ DOMAIN found = 1..n
  BY DEF Wanted, Manifests
<1>2. DetectComposerPHPVersion(manifests) = FirstOf(found)
  BY DEF DetectComposerPHPVersion
<1>3. ASSUME NEW i \in 1..n
      PROVE  /\ wanted[2 * i - 1] # {} => found[i] = LowestOf(wanted[2 * i - 1]) /\ found[i] # None
             /\ wanted[2 * i - 1] = {} /\ wanted[2 * i] # {}
                  => found[i] = LowestOf(wanted[2 * i]) /\ found[i] # None
             /\ wanted[2 * i - 1] = {} /\ wanted[2 * i] = {} => found[i] = None
  BY <1>1, ManifestMeans
<1> HIDE DEF wanted, found, n
<1>4. CASE says = {}
  <2>1. ASSUME NEW i \in 1..n PROVE found[i] = None
    <3>1. 2 * i - 1 \in 1..(2 * n) /\ 2 * i \in 1..(2 * n)
      BY <1>1
    <3>2. wanted[2 * i - 1] = {} /\ wanted[2 * i] = {}
      BY <1>1, <1>4, <3>1
    <3> QED
      BY <1>3, <3>2
  <2> QED
    BY <1>1, <1>2, <1>4, <2>1, NoneKnown DEF wanted
<1>5. CASE says # {}
  <2>1. says \in SUBSET Nat
    BY <1>1
  <2>2. PICK s \in says : \A k \in says : s <= k
    BY <1>5, <2>1, LeastNatural
  <2>3. s \in 1..(2 * n) /\ wanted[s] # {} /\ \A k \in 1..(s - 1) : wanted[k] = {}
    <3>1. s \in 1..(2 * n) /\ wanted[s] # {}
      BY <1>1, <2>2
    <3>2. ASSUME NEW k \in 1..(s - 1), wanted[k] # {} PROVE FALSE
      <4>1. k \in 1..(2 * n) /\ k < s
        BY <1>1, <3>1
      <4>2. k \in says
        BY <1>1, <3>2, <4>1
      <4>3. s <= k
        BY <2>2, <4>2
      <4> QED
        BY <3>1, <4>1, <4>3
    <3> QED
      BY <3>1, <3>2
  <2>4. Min(says) = s
    <3>1. s \in Int /\ \A k \in says : k \in Int
      BY <2>1
    <3> HIDE DEF says
    <3> QED
      BY <2>2, <3>1, LeastOf
  <2>5. PICK i \in 1..n : s = 2 * i - 1 \/ s = 2 * i
    <3>1. PICK k \in Nat : s = 2 * k \/ s = 2 * k + 1
      <4>1. s \in Nat
        BY <2>3, <1>1
      <4>2. s \div 2 \in Nat /\ (s = 2 * (s \div 2) \/ s = 2 * (s \div 2) + 1)
        BY <4>1
      <4> QED
        BY <4>2
    <3>2. CASE s = 2 * k
      BY <1>1, <2>3, <3>1, <3>2
    <3>3. CASE s = 2 * k + 1
      <4>1. k + 1 \in 1..n /\ s = 2 * (k + 1) - 1
        BY <1>1, <2>3, <3>1, <3>3
      <4> QED
        BY <4>1
    <3> QED
      BY <3>1, <3>2, <3>3
  <2>6. \A j \in 1..(i - 1) : found[j] = None
    <3>1. TAKE j \in 1..(i - 1)
    <3>2. j \in 1..n /\ 2 * j - 1 \in 1..(s - 1) /\ 2 * j \in 1..(s - 1)
      BY <1>1, <2>3, <2>5
    <3>3. wanted[2 * j - 1] = {} /\ wanted[2 * j] = {}
      BY <2>3, <3>2
    <3> QED
      BY <1>3, <3>2, <3>3
  <2>7. found[i] = LowestOf(wanted[s]) /\ found[i] # None
    <3>1. CASE s = 2 * i - 1
      BY <1>3, <2>3, <3>1
    <3>2. CASE s = 2 * i
      <4>1. 2 * i - 1 \in 1..(s - 1)
        BY <1>1, <2>5, <3>2
      <4>2. wanted[2 * i - 1] = {}
        BY <2>3, <4>1
      <4> QED
        BY <1>3, <2>3, <3>2, <4>2
    <3> QED
      BY <2>5, <3>1, <3>2
  <2>8. FirstOf(found) = found[i]
    BY <1>1, <2>6, <2>7, FirstKnown
  <2>9. DetectComposerPHPVersion(manifests) = LowestOf(wanted[Min(says)])
        /\ DetectComposerPHPVersion(manifests) # None
    BY <1>2, <2>4, <2>7, <2>8
  <2> QED
    BY <1>5, <2>9 DEF wanted
<1> QED
  BY <1>4, <1>5

(* The version the server works for (EffectivePHPVersion), from any        *)
(* settings and any composer.json of any number of folders with tokens the *)
(* code reads as Composer does: a supported override, else a supported     *)
(* configured version, else the lowest supported version that each token   *)
(* of an alternative leaves a release of, else the fallback.               *)
THEOREM VersionFollows ==
  ASSUME NEW configured \in Seq(Nat), NEW override \in Seq(Nat), NEW manifests \in Manifests
  PROVE  VersionFollowsComposer(configured, override, manifests, Nat)
<1> DEFINE wanted == Wanted(manifests)
           says == {i \in DOMAIN wanted : wanted[i] # {}}
           effective == EffectivePHPVersion(configured, override, manifests)
           o == NormalizeSupportedPHPVersion(override)
           c == NormalizeSupportedPHPVersion(configured)
           d == DetectComposerPHPVersion(manifests)
<1>1. None \notin ToSet(Supported) /\ Fallback # None
  <2>1. \A n \in 2..5 : None # <<8, n>>
    BY DEF None
  <2> QED
    BY <2>1, SupportedSet DEF Fallback, None
<1>2. /\ o = IF MajorMinorVersion(override) \in ToSet(Supported) THEN MajorMinorVersion(override) ELSE None
      /\ c = IF MajorMinorVersion(configured) \in ToSet(Supported) THEN MajorMinorVersion(configured) ELSE None
  BY DEF NormalizeSupportedPHPVersion
<1>3. effective = IF o # None THEN o ELSE IF c # None THEN c ELSE IF d # None THEN d ELSE Fallback
  <2> DEFINE f == <<o, c, d, Fallback>>
  <2>1. DOMAIN f = 1..4 /\ f[1] = o /\ f[2] = c /\ f[3] = d /\ f[4] = Fallback
    OBVIOUS
  <2>2. effective = FirstOf(f)
    BY DEF EffectivePHPVersion
  <2> HIDE DEF f, o, c, d, effective
  <2>3. CASE o # None
    <3>1. \A j \in 1..(1 - 1) : f[j] = None
      OBVIOUS
    <3>2. 4 \in Nat /\ 1 \in 1..4 /\ f[1] # None
      BY <2>1, <2>3
    <3>3. FirstOf(f) = f[1]
      BY <2>1, <3>1, <3>2, FirstKnown
    <3> QED
      BY <2>1, <2>2, <2>3, <3>3
  <2>4. CASE o = None /\ c # None
    <3>1. \A j \in 1..(2 - 1) : f[j] = None
      BY <2>1, <2>4
    <3>2. 4 \in Nat /\ 2 \in 1..4 /\ f[2] # None
      BY <2>1, <2>4
    <3>3. FirstOf(f) = f[2]
      BY <2>1, <3>1, <3>2, FirstKnown
    <3> QED
      BY <2>1, <2>2, <2>4, <3>3
  <2>5. CASE o = None /\ c = None /\ d # None
    <3>1. \A j \in 1..(3 - 1) : f[j] = None
      BY <2>1, <2>5
    <3>2. 4 \in Nat /\ 3 \in 1..4 /\ f[3] # None
      BY <2>1, <2>5
    <3>3. FirstOf(f) = f[3]
      BY <2>1, <3>1, <3>2, FirstKnown
    <3> QED
      BY <2>1, <2>2, <2>5, <3>3
  <2>6. CASE o = None /\ c = None /\ d = None
    <3>1. \A j \in 1..(4 - 1) : f[j] = None
      BY <2>1, <2>6
    <3>2. 4 \in Nat /\ 4 \in 1..4 /\ f[4] # None
      BY <1>1, <2>1, <2>6
    <3>3. FirstOf(f) = f[4]
      BY <2>1, <3>1, <3>2, FirstKnown
    <3> QED
      BY <2>1, <2>2, <2>6, <3>3
  <2> QED
    BY <2>3, <2>4, <2>5, <2>6
<1>4. RegularManifests(manifests) => IF says = {} THEN d = None ELSE d = LowestOf(wanted[Min(says)]) /\ d # None
  BY ComposerMeans
<1> HIDE DEF wanted, says, effective, o, c, d
<1>5. ASSUME RegularManifests(manifests)
      PROVE  CASE MajorMinorVersion(override) \in ToSet(Supported) -> effective = MajorMinorVersion(override)
               [] MajorMinorVersion(override) \notin ToSet(Supported)
                  /\ MajorMinorVersion(configured) \in ToSet(Supported) -> effective = MajorMinorVersion(configured)
               [] OTHER -> effective = IF says = {} THEN Fallback ELSE LowestOf(wanted[Min(says)])
  <2>1. CASE MajorMinorVersion(override) \in ToSet(Supported)
    BY <1>1, <1>2, <1>3, <2>1
  <2>2. CASE MajorMinorVersion(override) \notin ToSet(Supported) /\ MajorMinorVersion(configured) \in ToSet(Supported)
    BY <1>1, <1>2, <1>3, <2>2
  <2>3. CASE MajorMinorVersion(override) \notin ToSet(Supported) /\ MajorMinorVersion(configured) \notin ToSet(Supported)
    BY <1>2, <1>3, <1>4, <1>5, <2>3
  <2> QED
    BY <2>1, <2>2, <2>3
<1> QED
  BY <1>5 DEF VersionFollowsComposer, RegularManifests, Wanted, LowestOf, wanted, says, effective

-----------------------------------------------------------------------------
(* The names a payload may use: of the settings, and the old ones.         *)
OldNames == {<<"diagnostics", f>> : f \in Legacy}
Names == Keys \cup OldNames

(* The names of the families' settings, which are booleans.                *)
LEMMA AnalysisForm ==
  ASSUME NEW k \in Analysis
  PROVE  /\ k = <<"diagnostics", "analysis", k[3]>> /\ k[3] \in Families
         /\ Last(k) = k[3]
         /\ TypeOf(k) = "bool" /\ k # Level
<1>1. PICK f \in Families : k = <<"diagnostics", "analysis", f>>
  BY DEF Analysis
<1>2. f \notin {"phpVersion", "phpVersionOverride", "documentRoot", "run", "braceStyle",
                "maxSize", "maxItems", "tabSize", "level"}
  BY DEF Families, Legacy
<1>3. Last(k) = f /\ k[3] = f
  BY <1>1 DEF Last
<1>4. /\ k \notin In("files", {"associations", "exclude"}) \cup {<<"stubs">>, <<"environment", "includePaths">>}
      /\ k \notin In("diagnostics", {"overrides", "exclude"})
  BY <1>1 DEF In
<1>5. TypeOf(k) = "bool"
  BY <1>2, <1>3, <1>4 DEF TypeOf
<1>6. k # Level
  <2>1. f # "level"
    BY <1>2
  <2> QED
    BY <1>1, <2>1 DEF Level
<1> QED
  BY <1>1, <1>3, <1>5, <1>6

(* The names of the lenses' and hints' settings.                           *)
LEMMA EnablesForm ==
  ASSUME NEW k \in Enables
  PROVE  \E w, b : k = <<w, b, "enable">> /\ w \in {"codeLens", "inlayHints"}
<1>1. CASE k \in {<<"codeLens", b, "enable">> : b \in {"references", "implementations", "overrides", "parent", "usages"}}
  BY <1>1
<1>2. CASE k \in {<<"inlayHints", b, "enable">> : b \in {"parameterNames", "parameterTypes", "returnTypes"}}
  BY <1>2
<1> QED
  BY <1>1, <1>2 DEF Enables

(* A name in a section.                                                    *)
LEMMA InForm ==
  ASSUME NEW section, NEW words, NEW k \in In(section, words)
  PROVE  \E w \in words : k = <<section, w>>
BY DEF In

(* The other names have two words, "stubs" excepted.                       *)
LEMMA PlainForm ==
  ASSUME NEW k \in Plain
  PROVE  \/ k = <<"stubs">>
         \/ \E a, b : k = <<a, b>> /\ a \in {"diagnostics", "environment", "files", "completion", "format",
                                             "compatibility"}
BY InForm DEF Plain

(* No name begins with "phpstrom".                                         *)
LEMMA NameForm ==
  ASSUME NEW k \in Names
  PROVE  \/ k = <<"stubs">>
         \/ \E a, b : k = <<a, b>> /\ a # "phpstrom"
         \/ \E a, b, c : k = <<a, b, c>> /\ a # "phpstrom"
<1>1. CASE k \in Plain
  BY <1>1, PlainForm
<1>2. CASE k \in NestedOnly
  BY <1>2, InForm DEF NestedOnly
<1>3. CASE k \in Enables
  BY <1>3, EnablesForm
<1>4. CASE k \in Analysis
  BY <1>4, AnalysisForm
<1>5. CASE k = Level
  BY <1>5 DEF Level
<1>6. CASE k \in OldNames
  BY <1>6 DEF OldNames
<1> QED
  BY <1>1, <1>2, <1>3, <1>4, <1>5, <1>6 DEF Names, Keys

Words == UNION {{k[i] : i \in DOMAIN k} : k \in Names}

(* A name is a sequence of words, of two or more but for "stubs".          *)
LEMMA NameIsSeq ==
  ASSUME NEW k \in Names
  PROVE  k \in Seq(Words) /\ Len(k) \in Nat /\ k[1] # "phpstrom" /\ (k # <<"stubs">> => Len(k) >= 2)
<1>1. \A i \in DOMAIN k : k[i] \in Words
  BY DEF Words
<1>2. CASE k = <<"stubs">>
  <2>1. "stubs" \in Words
    BY <1>1, <1>2
  <2> QED
    BY <1>2, <2>1
<1>3. ASSUME NEW a, NEW b, k = <<a, b>> /\ a # "phpstrom" PROVE k \in Seq(Words) /\ k[1] # "phpstrom" /\ Len(k) = 2
  <2>1. a \in Words /\ b \in Words
    BY <1>1, <1>3
  <2> QED
    BY <1>3, <2>1
<1>4. ASSUME NEW a, NEW b, NEW c, k = <<a, b, c>> /\ a # "phpstrom"
      PROVE  k \in Seq(Words) /\ k[1] # "phpstrom" /\ Len(k) = 3
  <2>1. a \in Words /\ b \in Words /\ c \in Words
    BY <1>1, <1>4
  <2> QED
    BY <1>4, <2>1
<1> QED
  BY <1>2, <1>3, <1>4, NameForm

(* Equal intervals end at the same number.                                 *)
LEMMA SameLength ==
  ASSUME NEW m \in Nat, NEW n \in Nat, 1..m = 1..n
  PROVE  m = n
<1>1. m \in 1..n \/ m = 0
  OBVIOUS
<1>2. n \in 1..m \/ n = 0
  OBVIOUS
<1> QED
  BY <1>1, <1>2

(* Two names nested are two addresses.                                     *)
LEMMA NestedApart ==
  ASSUME NEW k \in Names, NEW j \in Names, Nested(k) = Nested(j)
  PROVE  k = j
<1>1. k \in Seq(Words) /\ j \in Seq(Words)
  BY NameIsSeq
<1>2. DOMAIN Nested(k) = DOMAIN k /\ DOMAIN Nested(j) = DOMAIN j
  BY DEF Nested
<1>3. Len(k) = Len(j)
  <2>1. DOMAIN k = 1..Len(k) /\ DOMAIN j = 1..Len(j) /\ Len(k) \in Nat /\ Len(j) \in Nat
    BY <1>1
  <2>2. 1..Len(k) = 1..Len(j)
    BY <1>2, <2>1
  <2> QED
    BY <2>1, <2>2, SameLength
<1>4. ASSUME NEW i \in 1..Len(k) PROVE k[i] = j[i]
  <2>1. Nested(k)[i] = <<k[i]>> /\ Nested(j)[i] = <<j[i]>>
    BY <1>1, <1>3 DEF Nested
  <2> QED
    BY <2>1
<1> QED
  BY <1>1, <1>3, <1>4, SeqEqual

(* So are two flat ones.                                                   *)
LEMMA FlatApart ==
  ASSUME NEW k, NEW j, Flat(k) = Flat(j)
  PROVE  k = j
BY DEF Flat

(* A nested address is no flat one, "stubs" excepted.                      *)
LEMMA NestedNotFlat ==
  ASSUME NEW k \in Names, k # <<"stubs">>, NEW j
  PROVE  Nested(k) # Flat(j)
<1>1. k \in Seq(Words) /\ Len(k) >= 2
  BY NameIsSeq
<1>2. 2 \in DOMAIN Nested(k)
  BY <1>1 DEF Nested
<1>3. 2 \notin DOMAIN Flat(j)
  BY DEF Flat
<1> QED
  BY <1>2, <1>3

(* The address with the rest of the name in one key.                       *)
Halfway(k) == << <<k[1]>>, Tail(k) >>

(* The address halfway is neither.                                         *)
LEMMA HalfwayApart ==
  ASSUME NEW k \in Enables, NEW j \in Names
  PROVE  Halfway(k) # Nested(j) /\ Halfway(k) # Flat(j)
<1>1. 2 \in DOMAIN Tail(k)
  <2>1. k \in Names
    BY DEF Names, Keys
  <2>2. k \in Seq(Words) /\ Len(k) = 3
    BY <2>1, NameIsSeq, EnablesForm
  <2>3. Tail(k) \in Seq(Words) /\ Len(Tail(k)) = 2
    <3>1. k # << >>
      <4>1. 1 \in DOMAIN k /\ 1 \notin DOMAIN << >>
        BY <2>2
      <4> QED
        BY <4>1
    <3>2. Tail(k) \in Seq(Words) /\ Len(Tail(k)) = Len(k) - 1
      BY <2>2, <3>1, HeadTailProperties
    <3> QED
      BY <2>2, <3>2
  <2> QED
    BY <2>3
<1>2. Halfway(k)[2] = Tail(k) /\ DOMAIN Halfway(k) = {1, 2}
  BY DEF Halfway
<1>3. ASSUME Halfway(k) = Nested(j) PROVE FALSE
  <2>1. 2 \in DOMAIN j
    BY <1>2, <1>3 DEF Nested
  <2>2. Nested(j)[2] = <<j[2]>>
    BY <2>1 DEF Nested
  <2>3. 2 \notin DOMAIN <<j[2]>>
    OBVIOUS
  <2>4. Tail(k) = <<j[2]>>
    BY <1>2, <1>3, <2>2
  <2> QED
    BY <1>1, <2>3, <2>4
<1>4. 2 \notin DOMAIN Flat(j)
  BY DEF Flat
<1> QED
  BY <1>2, <1>3, <1>4

Old(k) == <<k[1], k[3]>>
Renamed == {k \in Analysis : Last(k) \in Legacy}

(* Where a setting is read, by its kind: the kinds do not overlap.         *)
LEMMA SourcesOf ==
  ASSUME NEW k \in Keys
  PROVE  /\ k = <<"stubs">> => Sources(k) = <<Flat(k)>>
         /\ k \in NestedOnly => Sources(k) = <<Nested(k)>>
         /\ k \in Enables => Sources(k) = <<Nested(k), Halfway(k), Flat(k)>>
         /\ k \in Renamed => Sources(k) = <<Nested(Old(k)), Nested(k), Flat(Old(k)), Flat(k)>>
         /\ k \notin {<<"stubs">>} \cup NestedOnly \cup Enables \cup Renamed => Sources(k) = <<Nested(k), Flat(k)>>
<1>1. ASSUME k = <<"stubs">> PROVE k \notin NestedOnly \cup Enables \cup Analysis
  BY <1>1, EnablesForm, AnalysisForm, InForm DEF NestedOnly
<1>2. ASSUME k \in NestedOnly PROVE k \notin {<<"stubs">>} \cup Enables \cup Analysis
  BY <1>2, EnablesForm, AnalysisForm, InForm DEF NestedOnly
<1>3. ASSUME k \in Enables PROVE k \notin {<<"stubs">>} \cup NestedOnly \cup Analysis
  BY <1>3, EnablesForm, AnalysisForm, InForm DEF NestedOnly
<1>4. ASSUME k \in Analysis PROVE k \notin {<<"stubs">>} \cup NestedOnly \cup Enables
  BY <1>4, EnablesForm, AnalysisForm, InForm DEF NestedOnly
<1>5. CASE k = <<"stubs">>
  BY <1>1, <1>5 DEF Sources, Renamed
<1>6. CASE k \in NestedOnly
  BY <1>2, <1>6 DEF Sources, Renamed
<1>7. CASE k \in Enables
  BY <1>3, <1>7 DEF Sources, Renamed, Halfway
<1>8. CASE k \in Renamed
  BY <1>4, <1>8 DEF Sources, Renamed, Old
<1>9. CASE k \notin {<<"stubs">>} \cup NestedOnly \cup Enables \cup Renamed
  BY <1>9 DEF Sources, Renamed
<1> QED
  BY <1>5, <1>6, <1>7, <1>8, <1>9

Usable(k, inner, i) == Sources(k)[i] \in DOMAIN inner /\ Accepts(k, inner[Sources(k)[i]])

(* Update takes the last source that can be used ...                       *)
LEMMA Takes ==
  ASSUME NEW cfg, NEW payload, NEW k \in DOMAIN cfg, NEW n \in Nat, DOMAIN Sources(k) = 1..n,
         NEW i \in 1..n, Usable(k, Inner(payload), i),
         \A j \in 1..n : i < j => ~Usable(k, Inner(payload), j)
  PROVE  Update(cfg, payload)[k] = Inner(payload)[Sources(k)[i]].of
<1> DEFINE usable == {j \in DOMAIN Sources(k) : /\ Sources(k)[j] \in DOMAIN Inner(payload)
                                                /\ Accepts(k, Inner(payload)[Sources(k)[j]])}
<1>1. i \in usable /\ \A j \in usable : j <= i /\ j \in Int
  BY DEF Usable
<1>2. i \in Int
  OBVIOUS
<1>3. Update(cfg, payload)[k] = IF usable = {} THEN cfg[k] ELSE Inner(payload)[Sources(k)[Max(usable)]].of
  BY DEF Update
<1> HIDE DEF usable
<1>4. Max(usable) = i
  BY <1>1, <1>2, GreatestOf
<1> QED
  BY <1>1, <1>3, <1>4

(* ... and keeps the setting when there is none.                           *)
LEMMA Keeps ==
  ASSUME NEW cfg, NEW payload, NEW k \in DOMAIN cfg,
         \A i \in DOMAIN Sources(k) : ~Usable(k, Inner(payload), i)
  PROVE  Update(cfg, payload)[k] = cfg[k]
BY DEF Update, Usable

(* Reading a payload again changes nothing.                                *)
LEMMA ReadTwice ==
  ASSUME NEW cfg, NEW payload
  PROVE  Update(Update(cfg, payload), payload) = Update(cfg, payload)
BY DEF Update

(* The payload written nested has each value where it belongs ...          *)
LEMMA WrittenNested ==
  ASSUME NEW payload, DOMAIN payload \subseteq Names
  PROVE  LET w == Written(payload, Nested)
         IN /\ DOMAIN w = {Nested(k) : k \in DOMAIN payload}
            /\ \A k \in DOMAIN payload : w[Nested(k)] = payload[k]
<1> DEFINE w == Written(payload, Nested)
           at(a) == CHOOSE k \in DOMAIN payload : Nested(k) = a
<1>1. w = [a \in {Nested(k) : k \in DOMAIN payload} |-> payload[at(a)]]
  BY DEF Written
<1>2. ASSUME NEW k \in DOMAIN payload PROVE at(Nested(k)) = k
  <2>1. at(Nested(k)) \in DOMAIN payload /\ Nested(at(Nested(k))) = Nested(k)
    OBVIOUS
  <2> HIDE DEF at
  <2> QED
    BY <2>1, NestedApart
<1> HIDE DEF w, at
<1>3. DOMAIN w = {Nested(k) : k \in DOMAIN payload} /\ \A k \in DOMAIN payload : w[Nested(k)] = payload[k]
  BY <1>1, <1>2
<1> QED
  BY <1>3 DEF w

(* ... and so has the one written flat.                                    *)
LEMMA WrittenFlat ==
  ASSUME NEW payload, DOMAIN payload \subseteq Names
  PROVE  LET w == Written(payload, Flat)
         IN /\ DOMAIN w = {Flat(k) : k \in DOMAIN payload}
            /\ \A k \in DOMAIN payload : w[Flat(k)] = payload[k]
<1> DEFINE w == Written(payload, Flat)
           at(a) == CHOOSE k \in DOMAIN payload : Flat(k) = a
<1>1. w = [a \in {Flat(k) : k \in DOMAIN payload} |-> payload[at(a)]]
  BY DEF Written
<1>2. ASSUME NEW k \in DOMAIN payload PROVE at(Flat(k)) = k
  <2>1. at(Flat(k)) \in DOMAIN payload /\ Flat(at(Flat(k))) = Flat(k)
    OBVIOUS
  <2> HIDE DEF at
  <2> QED
    BY <2>1, FlatApart
<1> HIDE DEF w, at
<1>3. DOMAIN w = {Flat(k) : k \in DOMAIN payload} /\ \A k \in DOMAIN payload : w[Flat(k)] = payload[k]
  BY <1>1, <1>2
<1> QED
  BY <1>3 DEF w

(* Neither is taken to be under "phpstrom" ...                             *)
LEMMA InnerPlain ==
  ASSUME NEW payload, DOMAIN payload \subseteq Names
  PROVE  /\ Inner(Written(payload, Nested)) = Written(payload, Nested)
         /\ Inner(Written(payload, Flat)) = Written(payload, Flat)
<1>1. ASSUME NEW a \in DOMAIN Written(payload, Nested) PROVE a[1] # Root
  <2>1. PICK k \in DOMAIN payload : a = Nested(k)
    BY WrittenNested
  <2>2. k \in Names /\ k[1] # "phpstrom" /\ 1 \in DOMAIN k
    <3>1. k \in Names
      OBVIOUS
    <3>2. CASE k = <<"stubs">>
      BY <3>1, <3>2
    <3>3. CASE k # <<"stubs">>
      <4>1. k \in Seq(Words) /\ Len(k) >= 2
        BY <3>1, <3>3, NameIsSeq
      <4> QED
        BY <3>1, <4>1, NameIsSeq
    <3> QED
      BY <3>2, <3>3
  <2>3. a[1] = <<k[1]>>
    BY <2>1, <2>2 DEF Nested
  <2> QED
    BY <2>2, <2>3 DEF Root
<1>2. ASSUME NEW a \in DOMAIN Written(payload, Flat) PROVE a[1] # Root
  <2>1. PICK k \in DOMAIN payload : a = Flat(k)
    BY WrittenFlat
  <2>2. a[1] = k
    BY <2>1 DEF Flat
  <2>3. k[1] # "phpstrom"
    BY NameIsSeq
  <2> QED
    BY <2>2, <2>3 DEF Root
<1> QED
  BY <1>1, <1>2 DEF Inner

(* ... and what is under it is the payload written nested.                 *)
LEMMA InnerRooted ==
  ASSUME NEW payload, DOMAIN payload \subseteq Names
  PROVE  Inner(Written(payload, LAMBDA k : <<Root>> \o Nested(k))) = Written(payload, Nested)
<1> DEFINE rooted(k) == <<Root>> \o Nested(k)
           at(a) == CHOOSE k \in DOMAIN payload : rooted(k) = a
           w == Written(payload, LAMBDA k : <<Root>> \o Nested(k))
           nested == Written(payload, Nested)
           inner == Inner(w)
<1>1. w = [a \in {rooted(k) : k \in DOMAIN payload} |-> payload[at(a)]]
  BY DEF Written
<1>2. ASSUME NEW k \in DOMAIN payload
      PROVE  rooted(k)[1] = Root /\ Tail(rooted(k)) = Nested(k)
  <2> DEFINE S == {Root} \cup {<<x>> : x \in Words}
             r == rooted(k)
  <2>1. k \in Seq(Words)
    BY NameIsSeq
  <2>2. Nested(k) \in Seq(S) /\ Len(Nested(k)) = Len(k)
    BY <2>1 DEF Nested
  <2>3. <<Root>> \in Seq(S) /\ Len(<<Root>>) = 1 /\ <<Root>>[1] = Root
    OBVIOUS
  <2> HIDE DEF S
  <2>4. /\ r \in Seq(S) /\ Len(r) = 1 + Len(Nested(k))
        /\ \A i \in 1..(1 + Len(Nested(k))) : r[i] = IF i <= 1 THEN <<Root>>[i] ELSE Nested(k)[i - 1]
    BY <2>2, <2>3, ConcatProperties
  <2> HIDE DEF r
  <2>5. Len(Nested(k)) \in Nat
    BY <2>2
  <2>6. r[1] = Root /\ \A i \in 1..Len(Nested(k)) : r[i + 1] = Nested(k)[i]
    BY <2>3, <2>4, <2>5
  <2>7. 1 \in DOMAIN r /\ 1 \notin DOMAIN << >>
    BY <2>4, <2>5
  <2>8. r # << >>
    BY <2>7
  <2>9. /\ Tail(r) \in Seq(S) /\ Len(Tail(r)) = Len(r) - 1
        /\ \A i \in 1..Len(Tail(r)) : Tail(r)[i] = r[i + 1]
    BY <2>4, <2>8, HeadTailProperties
  <2>10. Len(Tail(r)) = Len(Nested(k)) /\ \A i \in 1..Len(Tail(r)) : Tail(r)[i] = Nested(k)[i]
    BY <2>4, <2>5, <2>6, <2>9
  <2>11. Tail(r) = Nested(k)
    BY <2>2, <2>9, <2>10, SeqEqual
  <2> QED
    BY <2>6, <2>11 DEF r
<1>3. ASSUME NEW k \in DOMAIN payload PROVE at(rooted(k)) = k
  <2>1. at(rooted(k)) \in DOMAIN payload /\ rooted(at(rooted(k))) = rooted(k)
    OBVIOUS
  <2> HIDE DEF at, rooted
  <2>2. Nested(at(rooted(k))) = Nested(k)
    BY <1>2, <2>1
  <2> QED
    BY <2>1, <2>2, NestedApart
<1>4. \A k \in DOMAIN payload : w[rooted(k)] = payload[k]
  <2> HIDE DEF at, rooted, w
  <2> QED
    BY <1>1, <1>3
<1>5. /\ DOMAIN nested = {Nested(k) : k \in DOMAIN payload}
      /\ \A k \in DOMAIN payload : nested[Nested(k)] = payload[k]
      /\ nested = [a \in DOMAIN nested |-> nested[a]]
  <2>1. nested = [a \in DOMAIN nested |-> nested[a]]
    BY DEF Written
  <2> QED
    BY <2>1, WrittenNested
<1>6. DOMAIN w = {rooted(k) : k \in DOMAIN payload} /\ w = [a \in DOMAIN w |-> w[a]]
  BY <1>1
<1>7. inner = IF \E a \in DOMAIN w : a[1] = Root
              THEN [a \in {Tail(b) : b \in {c \in DOMAIN w : c[1] = Root}} |-> w[<<Root>> \o a]]
              ELSE w
  BY DEF Inner
<1>8. CASE DOMAIN payload = {}
  <2> HIDE DEF w, nested, inner, rooted
  <2>1. DOMAIN w = {} /\ DOMAIN nested = {}
    BY <1>5, <1>6, <1>8
  <2>2. w = nested
    BY <1>5, <1>6, <2>1
  <2>3. inner = w
    BY <1>7, <2>1
  <2> QED
    BY <2>2, <2>3 DEF w, nested, inner
<1>9. CASE DOMAIN payload # {}
  <2>1. inner = [a \in {Tail(b) : b \in {c \in DOMAIN w : c[1] = Root}} |-> w[<<Root>> \o a]]
    <3> HIDE DEF w, inner, rooted
    <3>1. \E a \in DOMAIN w : a[1] = Root
      BY <1>2, <1>6, <1>9
    <3> QED
      BY <1>7, <3>1
  <2>2. {c \in DOMAIN w : c[1] = Root} = {rooted(k) : k \in DOMAIN payload}
    <3> HIDE DEF w, rooted
    <3> QED
      BY <1>2, <1>6
  <2>3. {Tail(b) : b \in {c \in DOMAIN w : c[1] = Root}} = {Nested(k) : k \in DOMAIN payload}
    <3> HIDE DEF w, rooted
    <3> QED
      BY <1>2, <2>2
  <2>4. \A k \in DOMAIN payload : inner[Nested(k)] = w[rooted(k)]
    <3> HIDE DEF w
    <3> QED
      BY <2>1, <2>3
  <2>5. DOMAIN inner = DOMAIN nested /\ inner = [a \in DOMAIN inner |-> inner[a]]
    <3> HIDE DEF w, nested
    <3> QED
      BY <1>5, <2>1, <2>3
  <2> HIDE DEF w, nested, inner, rooted
  <2>6. \A a \in DOMAIN nested : inner[a] = nested[a]
    BY <1>4, <1>5, <2>4
  <2>7. inner = nested
    BY <1>5, <2>5, <2>6
  <2> QED
    BY <2>7 DEF w, nested, inner
<1> QED
  BY <1>8, <1>9

(* What the sources of a setting find in a payload written nested ...      *)
LEMMA AtNested ==
  ASSUME NEW payload, DOMAIN payload \subseteq Names, NEW k \in Names
  PROVE  LET w == Written(payload, Nested)
         IN /\ Nested(k) \in DOMAIN w <=> k \in DOMAIN payload
            /\ k \in DOMAIN payload => w[Nested(k)] = payload[k]
            /\ k # <<"stubs">> => Flat(k) \notin DOMAIN w
            /\ k \in Enables => Halfway(k) \notin DOMAIN w
<1> DEFINE w == Written(payload, Nested)
<1>1. DOMAIN w = {Nested(j) : j \in DOMAIN payload} /\ \A j \in DOMAIN payload : w[Nested(j)] = payload[j]
  BY WrittenNested
<1> HIDE DEF w
<1>2. Nested(k) \in DOMAIN w <=> k \in DOMAIN payload
  BY <1>1, NestedApart
<1>3. ASSUME k # <<"stubs">>, Flat(k) \in DOMAIN w PROVE FALSE
  <2>1. PICK j \in DOMAIN payload : Flat(k) = Nested(j)
    BY <1>1, <1>3
  <2>2. j = <<"stubs">>
    BY <2>1, NestedNotFlat
  <2>3. Nested(j)[1] = <<"stubs">>
    BY <2>2 DEF Nested
  <2> QED
    BY <1>3, <2>1, <2>3 DEF Flat
<1>4. ASSUME k \in Enables, Halfway(k) \in DOMAIN w PROVE FALSE
  BY <1>1, <1>4, HalfwayApart
<1> QED
  BY <1>1, <1>2, <1>3, <1>4 DEF w

(* ... and in one written flat.                                            *)
LEMMA AtFlat ==
  ASSUME NEW payload, DOMAIN payload \subseteq Names, NEW k \in Names
  PROVE  LET w == Written(payload, Flat)
         IN /\ Flat(k) \in DOMAIN w <=> k \in DOMAIN payload
            /\ k \in DOMAIN payload => w[Flat(k)] = payload[k]
            /\ k # <<"stubs">> => Nested(k) \notin DOMAIN w
            /\ k \in Enables => Halfway(k) \notin DOMAIN w
<1> DEFINE w == Written(payload, Flat)
<1>1. DOMAIN w = {Flat(j) : j \in DOMAIN payload} /\ \A j \in DOMAIN payload : w[Flat(j)] = payload[j]
  BY WrittenFlat
<1> HIDE DEF w
<1>2. Flat(k) \in DOMAIN w <=> k \in DOMAIN payload
  BY <1>1, FlatApart
<1>3. ASSUME k # <<"stubs">>, Nested(k) \in DOMAIN w PROVE FALSE
  BY <1>1, <1>3, NestedNotFlat
<1>4. ASSUME k \in Enables, Halfway(k) \in DOMAIN w PROVE FALSE
  BY <1>1, <1>4, HalfwayApart
<1> QED
  BY <1>1, <1>2, <1>3, <1>4 DEF w

(* What a payload should make of a setting.                                *)
Said(payload, k) == k \in DOMAIN payload /\ Accepts(k, payload[k])
SaidOld(payload, k) ==
  k \in Analysis /\ Old(k) \in DOMAIN payload \ Keys /\ payload[Old(k)].type = "bool"
Meant(cfg, payload, k) ==
  IF Said(payload, k) THEN payload[k].of ELSE IF SaidOld(payload, k) THEN payload[Old(k)].of ELSE cfg[k]

(* The old names are those of three families and of no setting, and what   *)
(* they hold is accepted if it is a boolean.                               *)
LEMMA OldNameOf ==
  ASSUME NEW payload, DOMAIN payload \subseteq Names, NEW k \in Keys
  PROVE  /\ k \in Renamed => /\ Old(k) \in OldNames /\ Old(k) \notin Keys
                             /\ SaidOld(payload, k) <=> Old(k) \in DOMAIN payload /\ Accepts(k, payload[Old(k)])
         /\ k \notin Renamed => ~SaidOld(payload, k)
<1>1. ASSUME k \in Analysis
      PROVE  /\ Old(k) = <<"diagnostics", Last(k)>> /\ TypeOf(k) = "bool" /\ k # Level
    BY <1>1, AnalysisForm DEF Old
<1>2. ASSUME NEW f \in Legacy PROVE <<"diagnostics", f>> \notin Keys
  <2>1. <<"diagnostics", f>> \notin Plain
    <3>1. f \notin {"enable", "run", "workspaceScanOnStart", "overrides", "exclude"}
      BY DEF Legacy
    <3> QED
      BY <3>1 DEF Plain, In
  <2>2. <<"diagnostics", f>> \notin NestedOnly
    BY DEF NestedOnly, In
  <2>3. <<"diagnostics", f>> \notin Enables
    BY EnablesForm
  <2>4. <<"diagnostics", f>> \notin Analysis
    BY DEF Analysis
  <2>5. <<"diagnostics", f>> # Level
    BY DEF Level
  <2> QED
    BY <2>1, <2>2, <2>3, <2>4, <2>5 DEF Keys
<1>3. ASSUME k \in Renamed PROVE Old(k) \in OldNames /\ Old(k) \notin Keys
  BY <1>1, <1>2, <1>3 DEF Renamed, OldNames
<1>4. ASSUME k \in Renamed
      PROVE  SaidOld(payload, k) <=> Old(k) \in DOMAIN payload /\ Accepts(k, payload[Old(k)])
  BY <1>1, <1>3, <1>4 DEF Renamed, SaidOld, Accepts
<1>5. ASSUME SaidOld(payload, k) PROVE k \in Renamed
  <2>1. k \in Analysis /\ Old(k) \in OldNames
    BY <1>5 DEF SaidOld, Names
  <2>2. PICK f \in Legacy : Old(k) = <<"diagnostics", f>>
    BY <2>1 DEF OldNames
  <2>3. f = Last(k)
    BY <1>1, <2>1, <2>2
  <2> QED
    BY <2>1, <2>3 DEF Renamed
<1> QED
  BY <1>3, <1>4, <1>5

(* Of n sources, only the one at i says what the payload says.             *)
ReadsAt(payload, w, k, n, i) ==
  /\ n \in Nat /\ i \in 1..n /\ DOMAIN Sources(k) = 1..n
  /\ Usable(k, w, i) <=> Said(payload, k)
  /\ Said(payload, k) => w[Sources(k)[i]] = payload[k]
  /\ \A j \in 1..n : j # i => ~Usable(k, w, j)

(* A setting without an old name then is what the payload says ...         *)
LEMMA OneSource ==
  ASSUME NEW cfg, DOMAIN cfg = Keys, NEW payload, DOMAIN payload \subseteq Names, NEW k \in Keys \ Renamed,
         NEW w, Inner(w) = w, NEW n, NEW i, ReadsAt(payload, w, k, n, i)
  PROVE  Update(cfg, w)[k] = Meant(cfg, payload, k)
<1>0. /\ n \in Nat /\ i \in 1..n /\ DOMAIN Sources(k) = 1..n
      /\ Usable(k, w, i) <=> Said(payload, k)
      /\ Said(payload, k) => w[Sources(k)[i]] = payload[k]
      /\ \A j \in 1..n : j # i => ~Usable(k, w, j)
  BY DEF ReadsAt
<1>1. CASE Said(payload, k)
  <2>1. Update(cfg, w)[k] = w[Sources(k)[i]].of
    <3>1. \A j \in 1..n : i < j => ~Usable(k, w, j)
      BY <1>0
    <3> QED
      BY <1>0, <1>1, <3>1, Takes
  <2> QED
    BY <1>0, <1>1, <2>1 DEF Meant
<1>2. CASE ~Said(payload, k)
  <2>1. \A j \in DOMAIN Sources(k) : ~Usable(k, w, j)
    BY <1>0, <1>2
  <2>2. Update(cfg, w)[k] = cfg[k]
    BY <2>1, Keeps
  <2> QED
    BY <1>2, <2>2, OldNameOf DEF Meant
<1> QED
  BY <1>1, <1>2

(* Of n sources, the one at i says what the payload says by the new        *)
(* name, the one before it what it says by the old one.                    *)
ReadsBoth(payload, w, k, n, i, o) ==
  /\ n \in Nat /\ i \in 1..n /\ o \in 1..n /\ o < i /\ DOMAIN Sources(k) = 1..n
  /\ Usable(k, w, i) <=> Said(payload, k)
  /\ Said(payload, k) => w[Sources(k)[i]] = payload[k]
  /\ Usable(k, w, o) <=> SaidOld(payload, k)
  /\ SaidOld(payload, k) => w[Sources(k)[o]] = payload[Old(k)]
  /\ \A j \in 1..n : j # i /\ j # o => ~Usable(k, w, j)

(* ... and one with an old name yields to the new one.                     *)
LEMMA TwoSources ==
  ASSUME NEW cfg, DOMAIN cfg = Keys, NEW payload, DOMAIN payload \subseteq Names, NEW k \in Renamed, k \in Keys,
         NEW w, Inner(w) = w, NEW n, NEW i, NEW o, ReadsBoth(payload, w, k, n, i, o)
  PROVE  Update(cfg, w)[k] = Meant(cfg, payload, k)
<1>0. /\ i \in 1..n /\ o \in 1..n /\ o < i /\ DOMAIN Sources(k) = 1..n /\ n \in Nat
      /\ Usable(k, w, i) <=> Said(payload, k)
      /\ Said(payload, k) => w[Sources(k)[i]] = payload[k]
      /\ Usable(k, w, o) <=> SaidOld(payload, k)
      /\ SaidOld(payload, k) => w[Sources(k)[o]] = payload[Old(k)]
      /\ \A j \in 1..n : j # i /\ j # o => ~Usable(k, w, j)
  BY DEF ReadsBoth
<1>1. CASE Said(payload, k)
  <2>1. Update(cfg, w)[k] = w[Sources(k)[i]].of
    <3>1. \A j \in 1..n : i < j => ~Usable(k, w, j)
      BY <1>0, <1>1
    <3> QED
      BY <1>0, <1>1, <3>1, Takes
  <2> QED
    BY <1>0, <1>1, <2>1 DEF Meant
<1>2. CASE ~Said(payload, k) /\ SaidOld(payload, k)
  <2>1. Update(cfg, w)[k] = w[Sources(k)[o]].of
    <3>1. \A j \in 1..n : o < j => ~Usable(k, w, j)
      BY <1>0, <1>2
    <3> QED
      BY <1>0, <1>2, <3>1, Takes
  <2> QED
    BY <1>0, <1>2, <2>1 DEF Meant
<1>3. CASE ~Said(payload, k) /\ ~SaidOld(payload, k)
  <2>1. \A j \in DOMAIN Sources(k) : ~Usable(k, w, j)
    BY <1>0, <1>3
  <2>2. Update(cfg, w)[k] = cfg[k]
    BY <2>1, Keeps
  <2> QED
    BY <1>3, <2>2 DEF Meant
<1> QED
  BY <1>1, <1>2, <1>3

(* Written nested, a payload makes of each setting what it should ...      *)
LEMMA NestedMeans ==
  ASSUME NEW cfg, DOMAIN cfg = Keys, NEW payload, DOMAIN payload \subseteq Names, NEW k \in Keys
  PROVE  Update(cfg, Written(payload, Nested))[k] = Meant(cfg, payload, k)
<1> DEFINE w == Written(payload, Nested)
<1>1. k \in Names /\ Inner(w) = w /\ k \in DOMAIN cfg
  BY InnerPlain DEF Names
<1>2. /\ Nested(k) \in DOMAIN w <=> k \in DOMAIN payload
      /\ k \in DOMAIN payload => w[Nested(k)] = payload[k]
      /\ k # <<"stubs">> => Flat(k) \notin DOMAIN w
      /\ k \in Enables => Halfway(k) \notin DOMAIN w
  BY <1>1, AtNested
<1>3. Nested(<<"stubs">>) = Flat(<<"stubs">>)
  <2>1. Nested(<<"stubs">>) = [i \in 1..1 |-> << <<"stubs">>[i] >>]
    BY DEF Nested
  <2>2. Flat(<<"stubs">>) = [i \in 1..1 |-> <<"stubs">>]
    BY DEF Flat
  <2> QED
    BY <2>1, <2>2
<1>4. k \notin Renamed => ~SaidOld(payload, k)
  BY OldNameOf
<1> HIDE DEF w
<1>5. CASE k = <<"stubs">>
  <2>1. Sources(k) = <<Flat(k)>> /\ k \notin Renamed
    BY <1>5, SourcesOf, AnalysisForm DEF Renamed
  <2>2. DOMAIN Sources(k) = 1..1 /\ Sources(k)[1] = Nested(k)
    BY <1>3, <1>5, <2>1
  <2>3. Usable(k, w, 1) <=> Said(payload, k)
    BY <1>2, <2>2 DEF Usable, Said
  <2>4. \A j \in 1..1 : j # 1 => ~Usable(k, w, j)
    OBVIOUS
  <2>5. Said(payload, k) => w[Sources(k)[1]] = payload[k]
    BY <1>2, <2>2 DEF Said
  <2>6. ReadsAt(payload, w, k, 1, 1)
    BY <2>2, <2>3, <2>4, <2>5 DEF ReadsAt
  <2>7. Update(cfg, w)[k] = Meant(cfg, payload, k)
    BY <1>1, <2>1, <2>6, OneSource
  <2> QED
    BY <2>7 DEF w
<1>6. CASE k \in NestedOnly
  <2>1. Sources(k) = <<Nested(k)>> /\ k \notin Renamed
    BY <1>6, SourcesOf, AnalysisForm, InForm DEF Renamed, NestedOnly
  <2>2. DOMAIN Sources(k) = 1..1 /\ Sources(k)[1] = Nested(k)
    BY <2>1
  <2>3. Usable(k, w, 1) <=> Said(payload, k)
    BY <1>2, <2>2 DEF Usable, Said
  <2>4. \A j \in 1..1 : j # 1 => ~Usable(k, w, j)
    OBVIOUS
  <2>5. Said(payload, k) => w[Sources(k)[1]] = payload[k]
    BY <1>2, <2>2 DEF Said
  <2>6. ReadsAt(payload, w, k, 1, 1)
    BY <2>2, <2>3, <2>4, <2>5 DEF ReadsAt
  <2>7. Update(cfg, w)[k] = Meant(cfg, payload, k)
    BY <1>1, <2>1, <2>6, OneSource
  <2> QED
    BY <2>7 DEF w
<1>7. CASE k \in Enables
  <2>1. Sources(k) = <<Nested(k), Halfway(k), Flat(k)>> /\ k \notin Renamed /\ k # <<"stubs">>
    BY <1>7, SourcesOf, AnalysisForm, EnablesForm DEF Renamed
  <2>2. DOMAIN Sources(k) = 1..3 /\ Sources(k)[1] = Nested(k) /\ Sources(k)[2] = Halfway(k) /\ Sources(k)[3] = Flat(k)
    BY <2>1
  <2>3. Usable(k, w, 1) <=> Said(payload, k)
    BY <1>2, <2>2 DEF Usable, Said
  <2>4. \A j \in 1..3 : j # 1 => ~Usable(k, w, j)
    BY <1>2, <1>7, <2>1, <2>2 DEF Usable
  <2>5. Said(payload, k) => w[Sources(k)[1]] = payload[k]
    BY <1>2, <2>2 DEF Said
  <2>6. ReadsAt(payload, w, k, 3, 1)
    BY <2>2, <2>3, <2>4, <2>5 DEF ReadsAt
  <2>7. Update(cfg, w)[k] = Meant(cfg, payload, k)
    BY <1>1, <2>1, <2>6, OneSource
  <2> QED
    BY <2>7 DEF w
<1>8. CASE k \in Renamed
  <2>1. /\ Sources(k) = <<Nested(Old(k)), Nested(k), Flat(Old(k)), Flat(k)>>
        /\ k # <<"stubs">> /\ Old(k) # <<"stubs">> /\ Old(k) \in Names
    BY <1>8, SourcesOf, AnalysisForm, OldNameOf DEF Renamed, Old, Names
  <2>2. /\ DOMAIN Sources(k) = 1..4 /\ Sources(k)[1] = Nested(Old(k)) /\ Sources(k)[2] = Nested(k)
        /\ Sources(k)[3] = Flat(Old(k)) /\ Sources(k)[4] = Flat(k)
    BY <2>1
  <2>3. Usable(k, w, 2) <=> Said(payload, k)
    BY <1>2, <2>2 DEF Usable, Said
  <2>4. /\ Nested(Old(k)) \in DOMAIN w <=> Old(k) \in DOMAIN payload
        /\ Old(k) \in DOMAIN payload => w[Nested(Old(k))] = payload[Old(k)]
        /\ Flat(Old(k)) \notin DOMAIN w
    BY <2>1, AtNested DEF w
  <2>5. Usable(k, w, 1) <=> SaidOld(payload, k)
    BY <1>8, <2>2, <2>4, OldNameOf DEF Usable
  <2>6. \A j \in 1..4 : j # 2 /\ j # 1 => ~Usable(k, w, j)
    BY <1>2, <2>1, <2>2, <2>4 DEF Usable
  <2>7. /\ Said(payload, k) => w[Sources(k)[2]] = payload[k]
        /\ SaidOld(payload, k) => w[Sources(k)[1]] = payload[Old(k)]
    BY <1>2, <2>2, <2>4 DEF Said, SaidOld
  <2>8. ReadsBoth(payload, w, k, 4, 2, 1)
    BY <2>2, <2>3, <2>5, <2>6, <2>7 DEF ReadsBoth
  <2>9. Update(cfg, w)[k] = Meant(cfg, payload, k)
    BY <1>1, <1>8, <2>8, TwoSources
  <2> QED
    BY <2>9 DEF w
<1>9. CASE k \notin {<<"stubs">>} \cup NestedOnly \cup Enables \cup Renamed
  <2>1. Sources(k) = <<Nested(k), Flat(k)>> /\ k \notin Renamed /\ k # <<"stubs">>
    BY <1>9, SourcesOf
  <2>2. DOMAIN Sources(k) = 1..2 /\ Sources(k)[1] = Nested(k) /\ Sources(k)[2] = Flat(k)
    BY <2>1
  <2>3. Usable(k, w, 1) <=> Said(payload, k)
    BY <1>2, <2>2 DEF Usable, Said
  <2>4. \A j \in 1..2 : j # 1 => ~Usable(k, w, j)
    BY <1>2, <2>1, <2>2 DEF Usable
  <2>5. Said(payload, k) => w[Sources(k)[1]] = payload[k]
    BY <1>2, <2>2 DEF Said
  <2>6. ReadsAt(payload, w, k, 2, 1)
    BY <2>2, <2>3, <2>4, <2>5 DEF ReadsAt
  <2>7. Update(cfg, w)[k] = Meant(cfg, payload, k)
    BY <1>1, <2>1, <2>6, OneSource
  <2> QED
    BY <2>7 DEF w
<1> QED
  BY <1>5, <1>6, <1>7, <1>8, <1>9

(* ... and written flat, of each that can be written so.                   *)
LEMMA FlatMeans ==
  ASSUME NEW cfg, DOMAIN cfg = Keys, NEW payload, DOMAIN payload \subseteq Names,
         NEW k \in Keys, k \notin NestedOnly, k # <<"stubs">>
  PROVE  Update(cfg, Written(payload, Flat))[k] = Meant(cfg, payload, k)
<1> DEFINE w == Written(payload, Flat)
<1>1. k \in Names /\ Inner(w) = w /\ k \in DOMAIN cfg
  BY InnerPlain DEF Names
<1>2. /\ Flat(k) \in DOMAIN w <=> k \in DOMAIN payload
      /\ k \in DOMAIN payload => w[Flat(k)] = payload[k]
      /\ Nested(k) \notin DOMAIN w
      /\ k \in Enables => Halfway(k) \notin DOMAIN w
  BY <1>1, AtFlat
<1> HIDE DEF w
<1>4. CASE k \in Enables
  <2>1. Sources(k) = <<Nested(k), Halfway(k), Flat(k)>> /\ k \notin Renamed
    BY <1>4, SourcesOf, AnalysisForm, EnablesForm DEF Renamed
  <2>2. DOMAIN Sources(k) = 1..3 /\ Sources(k)[1] = Nested(k) /\ Sources(k)[2] = Halfway(k) /\ Sources(k)[3] = Flat(k)
    BY <2>1
  <2>3. Usable(k, w, 3) <=> Said(payload, k)
    BY <1>2, <2>2 DEF Usable, Said
  <2>4. \A j \in 1..3 : j # 3 => ~Usable(k, w, j)
    BY <1>2, <1>4, <2>2 DEF Usable
  <2>5. Said(payload, k) => w[Sources(k)[3]] = payload[k]
    BY <1>2, <2>2 DEF Said
  <2>6. ReadsAt(payload, w, k, 3, 3)
    BY <2>2, <2>3, <2>4, <2>5 DEF ReadsAt
  <2>7. Update(cfg, w)[k] = Meant(cfg, payload, k)
    BY <1>1, <2>1, <2>6, OneSource
  <2> QED
    BY <2>7 DEF w
<1>5. CASE k \in Renamed
  <2>1. /\ Sources(k) = <<Nested(Old(k)), Nested(k), Flat(Old(k)), Flat(k)>>
        /\ Old(k) # <<"stubs">> /\ Old(k) \in Names
    BY <1>5, SourcesOf, AnalysisForm, OldNameOf DEF Renamed, Old, Names
  <2>2. /\ DOMAIN Sources(k) = 1..4 /\ Sources(k)[1] = Nested(Old(k)) /\ Sources(k)[2] = Nested(k)
        /\ Sources(k)[3] = Flat(Old(k)) /\ Sources(k)[4] = Flat(k)
    BY <2>1
  <2>3. Usable(k, w, 4) <=> Said(payload, k)
    BY <1>2, <2>2 DEF Usable, Said
  <2>4. /\ Flat(Old(k)) \in DOMAIN w <=> Old(k) \in DOMAIN payload
        /\ Old(k) \in DOMAIN payload => w[Flat(Old(k))] = payload[Old(k)]
        /\ Nested(Old(k)) \notin DOMAIN w
    BY <2>1, AtFlat DEF w
  <2>5. Usable(k, w, 3) <=> SaidOld(payload, k)
    BY <1>5, <2>2, <2>4, OldNameOf DEF Usable
  <2>6. \A j \in 1..4 : j # 4 /\ j # 3 => ~Usable(k, w, j)
    BY <1>2, <2>1, <2>2, <2>4 DEF Usable
  <2>7. /\ Said(payload, k) => w[Sources(k)[4]] = payload[k]
        /\ SaidOld(payload, k) => w[Sources(k)[3]] = payload[Old(k)]
    BY <1>2, <2>2, <2>4 DEF Said, SaidOld
  <2>8. ReadsBoth(payload, w, k, 4, 4, 3)
    BY <2>2, <2>3, <2>5, <2>6, <2>7 DEF ReadsBoth
  <2>9. Update(cfg, w)[k] = Meant(cfg, payload, k)
    BY <1>1, <1>5, <2>8, TwoSources
  <2> QED
    BY <2>9 DEF w
<1>6. CASE k \notin Enables \cup Renamed
  <2>1. Sources(k) = <<Nested(k), Flat(k)>> /\ k \notin Renamed
    BY <1>6, SourcesOf
  <2>2. DOMAIN Sources(k) = 1..2 /\ Sources(k)[1] = Nested(k) /\ Sources(k)[2] = Flat(k)
    BY <2>1
  <2>3. Usable(k, w, 2) <=> Said(payload, k)
    BY <1>2, <2>2 DEF Usable, Said
  <2>4. \A j \in 1..2 : j # 2 => ~Usable(k, w, j)
    BY <1>2, <2>2 DEF Usable
  <2>5. Said(payload, k) => w[Sources(k)[2]] = payload[k]
    BY <1>2, <2>2 DEF Said
  <2>6. ReadsAt(payload, w, k, 2, 2)
    BY <2>2, <2>3, <2>4, <2>5 DEF ReadsAt
  <2>7. Update(cfg, w)[k] = Meant(cfg, payload, k)
    BY <1>1, <2>1, <2>6, OneSource
  <2> QED
    BY <2>7 DEF w
<1> QED
  BY <1>4, <1>5, <1>6

(* Of any payload of settings by name, old ones included, whatever the     *)
(* types of its values: the same means the same nested, flat and under     *)
(* "phpstrom", reading it again changes nothing, no setting takes what is  *)
(* of another type or was not said, the providers are told of just the     *)
(* families switched off, and an old name yields to the new one (Update).  *)
THEOREM SettingsMean ==
  ASSUME NEW cfg, DOMAIN cfg = Keys, \A k \in Analysis : cfg[k] \in BOOLEAN,
         NEW payload, DOMAIN payload \subseteq Names,
         \A k \in DOMAIN payload : payload[k].type = "bool" => payload[k].of \in BOOLEAN
  PROVE  SettingsMeanTheSame(cfg, payload)
<1> DEFINE new == Update(cfg, Written(payload, Nested))
           flat == Update(cfg, Written(payload, Flat))
<1>1. Update(cfg, Written(payload, LAMBDA k : <<Root>> \o Nested(k))) = new
  <2>1. Inner(Written(payload, LAMBDA k : <<Root>> \o Nested(k))) = Inner(Written(payload, Nested))
    BY InnerRooted, InnerPlain
  <2> QED
    BY <2>1 DEF Update
<1>2. \A k \in Keys : new[k] = Meant(cfg, payload, k)
  BY NestedMeans
<1>3. \A k \in Keys \ (NestedOnly \cup {<<"stubs">>}) : flat[k] = Meant(cfg, payload, k)
  BY FlatMeans
<1>4. Update(new, Written(payload, Nested)) = new
  BY ReadTwice
<1>5. DOMAIN flat = Keys
  BY DEF Update
<1> HIDE DEF new, flat
<1>6. \A k \in Keys \ (NestedOnly \cup {<<"stubs">>}) : flat[k] = new[k]
  BY <1>2, <1>3
<1>7. ToProviderDisables(flat) = {Last(k) : k \in {a \in Analysis : new[a] = FALSE}}
  <2>1. ASSUME NEW k \in Analysis
        PROVE  k \in Keys /\ flat[k] = new[k] /\ new[k] \in BOOLEAN
    <3>1. k \in Keys /\ k # <<"stubs">> /\ k \notin NestedOnly /\ TypeOf(k) = "bool"
      BY AnalysisForm, InForm DEF Keys, NestedOnly
    <3>2. Meant(cfg, payload, k) \in BOOLEAN
      BY <3>1 DEF Meant, Said, SaidOld, Accepts
    <3> QED
      BY <1>2, <1>6, <3>1, <3>2
  <2>2. DOMAIN flat \cap Analysis = Analysis
    BY <1>5, <2>1
  <2>3. {a \in DOMAIN flat \cap Analysis : ~flat[a]} = {a \in Analysis : new[a] = FALSE}
    BY <2>1, <2>2
  <2> QED
    BY <2>3 DEF ToProviderDisables
<1>8. \A k \in Keys : new[k] = IF k \in DOMAIN payload /\ Accepts(k, payload[k]) THEN payload[k].of
                              ELSE IF /\ k \in Analysis /\ <<k[1], k[3]>> \in DOMAIN payload \ Keys
                                      /\ payload[<<k[1], k[3]>>].type = "bool"
                                   THEN payload[<<k[1], k[3]>>].of ELSE cfg[k]
  BY <1>2 DEF Meant, Said, SaidOld, Old
<1> QED
  BY <1>1, <1>4, <1>6, <1>7, <1>8 DEF SettingsMeanTheSame, new, flat
=============================================================================
