---------------------------- MODULE NatRecursion ----------------------------
(***************************************************************************)
(* Recursive functions on the natural numbers.  f[k \in Nat] == Def(f, k)  *)
(* stands for CHOOSE f : f = [k \in Nat |-> Def(f, k)]: that there is such *)
(* an f has to be proved before anything can be said about its values.     *)
(* The module is instantiated once for each recursive definition.          *)
(***************************************************************************)
EXTENDS Integers, WellFoundedInduction, TLAPS

CONSTANT Def(_, _)      \* the value of f at k, from f

Recursive == CHOOSE f : f = [k \in Nat |-> Def(f, k)]

\* The value at k depends only on values at smaller numbers.
Local ==
    \A k \in Nat : \A g, h :
        (\A i \in 0 .. k - 1 : g[i] = h[i]) => Def(g, k) = Def(h, k)

-----------------------------------------------------------------------------
\* A set of natural numbers that has an element has a least one.
LEMMA Least ==
    ASSUME NEW S, S \subseteq Nat, S # {}
    PROVE  \E k \in S : \A j \in S : k <= j
<1> DEFINE R == {ss \in Nat \X Nat : ss[1] < ss[2]}
<1>1. IsWellFoundedOn(R, Nat)
  BY NatLessThanWellFounded DEF OpToRel
<1>2. PICK k \in S : \A j \in S : ~ (<<j, k>> \in R)
  <2> HIDE DEF R
  <2> QED BY <1>1, WFMin
<1>3. ASSUME NEW j \in S PROVE k <= j
  <2>1. j \in Nat /\ k \in Nat /\ ~ (<<j, k>> \in R)
    BY <1>2
  <2>2. ~ (j < k)
    BY <2>1
  <2> QED BY <2>1, <2>2
<1> QED BY <1>3

\* A set that has k whenever it has all that is smaller is all of Nat.
THEOREM Induction ==
    ASSUME NEW S, \A k \in Nat : (\A i \in 0 .. k - 1 : i \in S) => k \in S
    PROVE  Nat \subseteq S
<1> SUFFICES ASSUME Nat \ S # {} PROVE FALSE
  OBVIOUS
<1>1. PICK k \in Nat \ S : \A j \in Nat \ S : k <= j
  <2> DEFINE T == Nat \ S
  <2> HIDE DEF T
  <2>1. T \subseteq Nat /\ T # {}
    BY DEF T
  <2> QED BY <2>1, Least DEF T
<1>2. \A i \in 0 .. k - 1 : i \in S
  BY <1>1
<1> QED BY <1>2

-----------------------------------------------------------------------------
\* g is f up to k.
Upto(g, k) == g = [i \in 0 .. k |-> Def(g, i)]

\* There is only one f up to k.
LEMMA UptoUnique ==
    ASSUME Local, NEW k \in Nat, NEW j \in Nat, NEW g, NEW h, Upto(g, k), Upto(h, j),
           NEW m \in Nat, m <= k, m <= j
    PROVE  g[m] = h[m]
<1> DEFINE S == {i \in Nat : i <= k /\ i <= j => g[i] = h[i]}
<1>1. ASSUME NEW l \in Nat, \A i \in 0 .. l - 1 : i \in S PROVE l \in S
  <2> SUFFICES ASSUME l <= k, l <= j PROVE g[l] = h[l]
    OBVIOUS
  <2>1. \A i \in 0 .. l - 1 : g[i] = h[i]
    BY <1>1
  <2>2. Def(g, l) = Def(h, l)
    BY <2>1 DEF Local
  <2> QED BY <2>2 DEF Upto
<1> HIDE DEF S
<1>2. Nat \subseteq S
  BY <1>1, Induction
<1> QED BY <1>2 DEF S

\* There is an f up to every k.
LEMMA UptoExists == ASSUME Local PROVE \A k \in Nat : \E g : Upto(g, k)
<1> DEFINE S == {k \in Nat : \E g : Upto(g, k)}
           part(k) == CHOOSE g : Upto(g, k)
<1>1. ASSUME NEW k \in Nat, \A i \in 0 .. k - 1 : i \in S PROVE k \in S
  <2> DEFINE h == [i \in 0 .. k - 1 |-> part(i)[i]]
             g == [i \in 0 .. k |-> IF i = k THEN Def(h, k) ELSE part(i)[i]]
  <2>1. \A i \in 0 .. k - 1 : Upto(part(i), i)
    BY <1>1
  <2> HIDE DEF part
  <2>2. \A i \in 0 .. k - 1 : g[i] = part(i)[i] /\ h[i] = part(i)[i]
    OBVIOUS
  <2>3. ASSUME NEW i \in 0 .. k PROVE g[i] = Def(g, i)
    <3>1. CASE i = k
      <4>1. g[k] = Def(h, k)
        OBVIOUS
      <4> HIDE DEF g, h
      <4>2. Def(g, k) = Def(h, k)
        BY <2>2 DEF Local
      <4> QED BY <3>1, <4>1, <4>2
    <3>2. CASE i # k
      <4> HIDE DEF g, h
      <4>1. i \in 0 .. k - 1
        BY <3>2
      <4>2. ASSUME NEW j \in 0 .. i - 1 PROVE g[j] = part(i)[j]
        <5>1. j \in 0 .. k - 1 /\ j \in Nat /\ i \in Nat /\ j <= i
          BY <4>1
        <5>2. Upto(part(i), i) /\ Upto(part(j), j)
          BY <2>1, <4>1, <5>1
        <5>3. part(j)[j] = part(i)[j]
          BY <5>1, <5>2, UptoUnique
        <5> QED BY <5>1, <5>3, <2>2
      <4>3. Def(g, i) = Def(part(i), i)
        BY <4>1, <4>2 DEF Local
      <4>4. part(i)[i] = Def(part(i), i)
        BY <4>1, <2>1 DEF Upto
      <4> QED BY <4>1, <4>3, <4>4, <2>2
    <3> QED BY <3>1, <3>2
  <2>4. Upto(g, k)
    <3>1. g = [i \in 0 .. k |-> g[i]]
      OBVIOUS
    <3> HIDE DEF g
    <3> QED BY <2>3, <3>1 DEF Upto
  <2> QED BY <2>4
<1> HIDE DEF S
<1>2. Nat \subseteq S
  BY <1>1, Induction
<1> QED BY <1>2 DEF S

\* A recursive definition that is local defines a function with the values it
\* says.
THEOREM RecursiveValues ==
    ASSUME Local
    PROVE  Recursive = [k \in Nat |-> Def(Recursive, k)]
<1> DEFINE part(k) == CHOOSE g : Upto(g, k)
           f == [k \in Nat |-> part(k)[k]]
<1>1. \A k \in Nat : Upto(part(k), k)
  BY UptoExists
<1> HIDE DEF part
<1>2. ASSUME NEW k \in Nat PROVE f[k] = Def(f, k)
  <2>1. ASSUME NEW i \in 0 .. k - 1 PROVE f[i] = part(k)[i]
    <3>1. i \in Nat /\ i <= k
      OBVIOUS
    <3>2. part(i)[i] = part(k)[i]
      BY <1>1, <3>1, UptoUnique
    <3> QED BY <3>1, <3>2
  <2>2. f[k] = part(k)[k]
    OBVIOUS
  <2> HIDE DEF f
  <2>3. Def(f, k) = Def(part(k), k)
    BY <2>1 DEF Local
  <2>4. part(k)[k] = Def(part(k), k)
    BY <1>1 DEF Upto
  <2> QED BY <2>2, <2>3, <2>4
<1>3. f = [k \in Nat |-> f[k]]
  OBVIOUS
<1> HIDE DEF f
<1>4. f = [k \in Nat |-> Def(f, k)]
  BY <1>2, <1>3
<1>5. \E g : g = [k \in Nat |-> Def(g, k)]
  BY <1>4
<1> QED BY <1>5 DEF Recursive
=============================================================================
