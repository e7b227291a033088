---------------------------- MODULE NumberProofs ----------------------------
(***************************************************************************)
(* Facts about numbers for the other proof modules: a set of numbers has a *)
(* least one, which stands in for induction; and the sum of the values of  *)
(* a function, FoldFunction(+, 0, f), does not depend on the order of its  *)
(* arguments, so it grows by what is added and changes by what is changed. *)
(***************************************************************************)
EXTENDS Integers, Functions, FiniteSetTheorems, WellFoundedInduction, TLAPS

LEMMA LeastNumber ==
  ASSUME NEW T \in SUBSET Nat, T # {}
  PROVE  \E x \in T : \A y \in T : x <= y
<1>1. PICK R : R = OpToRel(<, Nat)
  OBVIOUS
<1>2. IsWellFoundedOn(R, Nat)
  BY <1>1, NatLessThanWellFounded
<1>3. PICK x \in T : \A y \in T : ~(<<y, x>> \in R)
  BY <1>2, WFMin
<1>4. ASSUME NEW y \in T
      PROVE  x <= y
  <2>1. <<y, x>> \in R <=> y < x
    BY <1>1 DEF OpToRel
  <2>2. QED
    BY <1>3, <2>1
<1>5. QED
  BY <1>4

(* Of some finite sets, one that is smallest. *)
LEMMA SmallestSet ==
  ASSUME NEW T, T # {}, \A s \in T : IsFiniteSet(s)
  PROVE  \E s \in T : \A u \in T : Cardinality(s) <= Cardinality(u)
<1>1. {Cardinality(s) : s \in T} \in SUBSET Nat /\ {Cardinality(s) : s \in T} # {}
  BY FS_CardinalityType
<1>2. PICK n \in {Cardinality(s) : s \in T} :
        \A m \in {Cardinality(s) : s \in T} : n <= m
  BY <1>1, LeastNumber
<1>3. QED
  BY <1>2

-----------------------------------------------------------------------------
(* The recursion behind FoldFunction, for sums. *)
First(s) == CHOOSE x \in s : TRUE
SumStep(f, s, h) == IF s = {} THEN 0 ELSE f[First(s)] + h[s \ {First(s)}]

(* h gives the sum of f over every subset of D. *)
SumsOver(f, D, h) == \A s \in SUBSET D : h[s] = SumStep(f, s, h)
Sums(f, D, h) == h \in [SUBSET D -> Nat] /\ SumsOver(f, D, h)

SameOn(f, g, D) == \A x \in D : f[x] = g[x]

CountsOn(f, D) == IsFiniteSet(D) /\ \A x \in D : f[x] \in Nat

LEMMA FirstIs ==
  ASSUME NEW D, IsFiniteSet(D), NEW s \in SUBSET D, s # {}
  PROVE  /\ First(s) \in s /\ s \ {First(s)} \in SUBSET D
         /\ Cardinality(s) \in Nat
         /\ Cardinality(s \ {First(s)}) = Cardinality(s) - 1
<1>1. First(s) \in s
  BY DEF First
<1>2. IsFiniteSet(s)
  BY FS_Subset
<1>3. QED
  BY <1>1, <1>2, FS_RemoveElement, FS_CardinalityType

LEMMA SumStepIs ==
  ASSUME NEW f, NEW D, CountsOn(f, D), NEW h \in [SUBSET D -> Nat],
         NEW s \in SUBSET D
  PROVE  SumStep(f, s, h) \in Nat
<1>1. CASE s = {}
  BY <1>1 DEF SumStep
<1>2. CASE s # {}
  <2>1. First(s) \in D /\ s \ {First(s)} \in SUBSET D
    BY <1>2, FirstIs DEF CountsOn
  <2>2. f[First(s)] \in Nat /\ h[s \ {First(s)}] \in Nat
    BY <2>1 DEF CountsOn
  <2>3. QED
    BY <1>2, <2>2 DEF SumStep
<1>3. QED
  BY <1>1, <1>2

(* Two functions that agree on D have the same sums over its subsets. *)
LEMMA SumsAgree ==
  ASSUME NEW f, NEW g, NEW D, NEW E, NEW F, NEW h, NEW k,
         IsFiniteSet(D), D \subseteq E, D \subseteq F, SameOn(f, g, D),
         SumsOver(f, E, h), SumsOver(g, F, k)
  PROVE  SameOn(h, k, SUBSET D)
<1> DEFINE T == {s \in SUBSET D : h[s] # k[s]}
<1> SUFFICES ASSUME T # {} PROVE FALSE
  BY DEF SameOn
<1>1. \A s \in T : IsFiniteSet(s)
  BY FS_Subset
<1>2. PICK s \in T : \A u \in T : Cardinality(s) <= Cardinality(u)
  <2> HIDE DEF T
  <2>1. QED
    BY <1>1, SmallestSet
<1>3. s \in SUBSET D /\ h[s] # k[s]
  OBVIOUS
<1>4. s # {}
  BY <1>3 DEF SumsOver, SumStep
<1>5. PICK x, r : x = First(s) /\ r = s \ {First(s)}
  OBVIOUS
<1>6. /\ x \in D /\ r \in SUBSET D /\ Cardinality(s) \in Nat
      /\ Cardinality(r) = Cardinality(s) - 1
  BY <1>3, <1>4, <1>5, FirstIs
<1>7. r \notin T
  BY <1>2, <1>6
<1>8. h[r] = k[r]
  BY <1>6, <1>7
<1>9. h[s] = f[x] + h[r] /\ k[s] = g[x] + k[r]
  BY <1>3, <1>4, <1>5 DEF SumsOver, SumStep
<1>10. QED
  BY <1>3, <1>6, <1>8, <1>9 DEF SameOn

LEMMA SumsExist ==
  ASSUME NEW f, NEW D, CountsOn(f, D)
  PROVE  \E h : Sums(f, D, h)
<1> DEFINE Upto(n, h) == \A s \in SUBSET D : Cardinality(s) <= n => h[s] = SumStep(f, s, h)
           T == {n \in Nat : ~\E h \in [SUBSET D -> Nat] : Upto(n, h)}
<1>1. IsFiniteSet(D)
  BY DEF CountsOn
<1>2. T = {}
  <2> SUFFICES ASSUME T # {} PROVE FALSE
    OBVIOUS
  <2>1. PICK n \in T : \A m \in T : n <= m
    <3>1. T \in SUBSET Nat
      OBVIOUS
    <3> HIDE DEF T
    <3>2. QED
      BY <3>1, LeastNumber
  <2>2. n # 0
    <3> SUFFICES \E h \in [SUBSET D -> Nat] : Upto(0, h)
      OBVIOUS
    <3>1. PICK h : h = [s \in SUBSET D |-> 0]
      OBVIOUS
    <3>2. ASSUME NEW s \in SUBSET D, Cardinality(s) <= 0
          PROVE  h[s] = SumStep(f, s, h)
      <4>1. IsFiniteSet(s) /\ Cardinality(s) \in Nat
        BY <1>1, FS_Subset, FS_CardinalityType
      <4>2. s = {}
        BY <3>2, <4>1, FS_EmptySet
      <4>3. QED
        BY <3>1, <4>2 DEF SumStep
    <3>3. QED
      BY <3>1, <3>2
  <2>3. n \in Nat /\ n - 1 \in Nat /\ n - 1 \notin T
    <3>1. n \in Nat
      OBVIOUS
    <3>2. PICK m \in Nat : m = n - 1
      BY <2>2, <3>1
    <3>3. ~(n <= m)
      BY <3>1, <3>2
    <3>4. m \notin T
      BY <2>1, <3>3
    <3>5. QED
      BY <3>1, <3>2, <3>4
  <2>4. PICK h \in [SUBSET D -> Nat] : Upto(n - 1, h)
    BY <2>3
  <2>5. PICK g : g = [s \in SUBSET D |-> SumStep(f, s, h)]
    OBVIOUS
  <2>6. g \in [SUBSET D -> Nat]
    BY <2>5, SumStepIs
  <2>7. ASSUME NEW s \in SUBSET D, Cardinality(s) <= n
        PROVE  g[s] = SumStep(f, s, g)
    <3>1. CASE s = {}
      BY <2>5, <3>1 DEF SumStep
    <3>2. CASE s # {}
      <4>1. PICK x, r : x = First(s) /\ r = s \ {First(s)}
        OBVIOUS
      <4>2. /\ r \in SUBSET D /\ Cardinality(s) \in Nat
            /\ Cardinality(r) = Cardinality(s) - 1
        BY <1>1, <3>2, <4>1, FirstIs
      <4>3. Cardinality(r) <= n - 1
        BY <2>3, <2>7, <4>2
      <4>4. g[r] = h[r]
        BY <2>4, <2>5, <4>2, <4>3
      <4>5. QED
        BY <2>5, <3>2, <4>1, <4>4 DEF SumStep
    <3>3. QED
      BY <3>1, <3>2
  <2>8. Upto(n, g)
    BY <2>7
  <2>9. QED
    BY <2>1, <2>6, <2>8
<1>3. PICK n \in Nat : n = Cardinality(D)
  BY <1>1, FS_CardinalityType
<1>4. PICK h \in [SUBSET D -> Nat] : Upto(n, h)
  BY <1>2
<1>5. \A s \in SUBSET D : Cardinality(s) <= n
  BY <1>1, <1>3, FS_Subset
<1>6. QED
  BY <1>4, <1>5 DEF Sums, SumsOver

(* A sum does not depend on which argument is taken out first. *)
LEMMA TakeOut ==
  ASSUME NEW f, NEW D, CountsOn(f, D), NEW h, Sums(f, D, h)
  PROVE  \A s \in SUBSET D : \A x \in s : h[s] = f[x] + h[s \ {x}]
<1> DEFINE T == {s \in SUBSET D : \E x \in s : h[s] # f[x] + h[s \ {x}]}
<1> SUFFICES ASSUME T # {} PROVE FALSE
  OBVIOUS
<1>1. \A s \in T : IsFiniteSet(s)
  BY FS_Subset DEF CountsOn
<1>2. PICK s \in T : \A u \in T : Cardinality(s) <= Cardinality(u)
  <2> HIDE DEF T
  <2>1. QED
    BY <1>1, SmallestSet
<1>3. s \in SUBSET D /\ IsFiniteSet(s)
  BY <1>1
<1>4. PICK x \in s : h[s] # f[x] + h[s \ {x}]
  OBVIOUS
<1>5. PICK y, sx, sy, sxy :
        y = First(s) /\ sx = s \ {x} /\ sy = s \ {y} /\ sxy = s \ {x, y}
  OBVIOUS
<1>6. y \in s /\ Cardinality(s) \in Nat
  BY <1>3, <1>5, FirstIs DEF CountsOn
<1>7. h[s] = f[y] + h[sy]
  BY <1>3, <1>5 DEF Sums, SumsOver, SumStep
<1>8. x # y
  BY <1>4, <1>5, <1>7
<1>9. /\ sx \in SUBSET D /\ sy \in SUBSET D /\ sxy \in SUBSET D
      /\ y \in sx /\ x \in sy /\ sx \ {y} = sxy /\ sy \ {x} = sxy
  BY <1>3, <1>5, <1>6, <1>8
<1>10. Cardinality(sx) = Cardinality(s) - 1 /\ Cardinality(sy) = Cardinality(s) - 1
  BY <1>3, <1>5, <1>6, FS_RemoveElement
<1>11. ~(Cardinality(s) <= Cardinality(sx)) /\ ~(Cardinality(s) <= Cardinality(sy))
  BY <1>6, <1>10
<1>12. sx \notin T /\ sy \notin T
  BY <1>2, <1>11
<1>13. h[sx] = f[y] + h[sxy] /\ h[sy] = f[x] + h[sxy]
  BY <1>9, <1>12
<1>14. f[x] \in Nat /\ f[y] \in Nat /\ h[sxy] \in Nat
  BY <1>3, <1>6, <1>9 DEF CountsOn, Sums
<1>15. QED
  BY <1>4, <1>5, <1>7, <1>13, <1>14

-----------------------------------------------------------------------------
SumOf(f) == FoldFunction(+, 0, f)

LEMMA SumIs ==
  ASSUME NEW f, CountsOn(f, DOMAIN f), NEW h, Sums(f, DOMAIN f, h)
  PROVE  SumOf(f) = h[DOMAIN f] /\ SumOf(f) \in Nat
<1> DEFINE D == DOMAIN f
<1>1. ASSUME NEW k, k = [s \in SUBSET D |-> SumStep(f, s, k)]
      PROVE  k = h
  <2>1. DOMAIN k = SUBSET D /\ SumsOver(f, D, k)
    BY <1>1 DEF SumsOver
  <2>2. SameOn(k, h, SUBSET D)
    BY <2>1, SumsAgree DEF CountsOn, Sums, SameOn
  <2>3. QED
    BY <1>1, <2>2 DEF Sums, SameOn
<1>2. h = [s \in SUBSET D |-> SumStep(f, s, h)]
  BY DEF Sums, SumsOver
<1>3. \A k : (k = [s \in SUBSET D |-> SumStep(f, s, k)]) <=> k = h
  BY <1>1, <1>2
<1>4. SumOf(f) = h[D]
  BY <1>3 DEF SumOf, FoldFunction, FoldFunctionOnSet, MapThenFoldSet, SumStep,
              First
<1>5. QED
  BY <1>4 DEF Sums

(* The sum of a function without one of its arguments, and with it. *)
LEMMA SumWithout ==
  ASSUME NEW f, CountsOn(f, DOMAIN f), NEW x \in DOMAIN f
  PROVE  LET rest == [y \in DOMAIN f \ {x} |-> f[y]] IN
         SumOf(rest) \in Nat /\ SumOf(f) = f[x] + SumOf(rest)
<1>1. PICK D, E, rest : /\ D = DOMAIN f /\ E = D \ {x}
                        /\ rest = [y \in E |-> f[y]]
  OBVIOUS
<1>2. IsFiniteSet(D) /\ IsFiniteSet(E)
  BY <1>1, FS_RemoveElement DEF CountsOn
<1>3. DOMAIN rest = E /\ CountsOn(rest, E)
  BY <1>1, <1>2 DEF CountsOn
<1>4. PICK h : Sums(f, D, h)
  BY <1>1, SumsExist
<1>5. PICK k : Sums(rest, E, k)
  BY <1>3, SumsExist
<1>6. h[E] = k[E]
  <2>1. E \subseteq D /\ E \subseteq E /\ SameOn(f, rest, E)
    BY <1>1 DEF SameOn
  <2>2. SameOn(h, k, SUBSET E)
    BY <1>2, <1>4, <1>5, <2>1, SumsAgree DEF Sums
  <2>3. QED
    BY <2>2 DEF SameOn
<1>7. h[D] = f[x] + h[E]
  BY <1>1, <1>4, TakeOut
<1>8. SumOf(f) = h[D] /\ SumOf(rest) = k[E] /\ SumOf(rest) \in Nat
  BY <1>1, <1>3, <1>4, <1>5, SumIs
<1>9. QED
  BY <1>1, <1>6, <1>7, <1>8

(* One argument more, or another value for one: the sum changes by that. *)
LEMMA SumOfMore ==
  ASSUME NEW S, IsFiniteSet(S), NEW f \in [S -> Nat], NEW x, x \notin S,
         NEW g \in [S \cup {x} -> Nat], \A y \in S : g[y] = f[y]
  PROVE  SumOf(f) \in Nat /\ SumOf(g) = SumOf(f) + g[x]
<1>1. CountsOn(g, DOMAIN g) /\ x \in DOMAIN g
  BY FS_AddElement DEF CountsOn
<1>2. [y \in DOMAIN g \ {x} |-> g[y]] = f
  OBVIOUS
<1>3. PICK n \in Nat : n = g[x]
  OBVIOUS
<1>4. SumOf(f) \in Nat /\ SumOf(g) = g[x] + SumOf(f)
  BY <1>1, <1>2, SumWithout
<1>5. QED
  BY <1>3, <1>4

LEMMA SumOfChanged ==
  ASSUME NEW S, IsFiniteSet(S), NEW f \in [S -> Nat], NEW g \in [S -> Nat],
         NEW x \in S, \A y \in S \ {x} : g[y] = f[y]
  PROVE  /\ SumOf(f) \in Nat /\ SumOf(g) \in Nat
         /\ SumOf(g) + f[x] = SumOf(f) + g[x]
<1>1. CountsOn(f, DOMAIN f) /\ CountsOn(g, DOMAIN g)
  BY DEF CountsOn
<1>2. PICK rest : rest = [y \in S \ {x} |-> f[y]]
  OBVIOUS
<1>3. /\ [y \in DOMAIN f \ {x} |-> f[y]] = rest
      /\ [y \in DOMAIN g \ {x} |-> g[y]] = rest
  BY <1>2
<1>4. PICK n, m : n \in Nat /\ m \in Nat /\ n = f[x] /\ m = g[x]
  OBVIOUS
<1>5. SumOf(rest) \in Nat /\ SumOf(f) = n + SumOf(rest) /\ SumOf(g) = m + SumOf(rest)
  BY <1>1, <1>3, <1>4, SumWithout
<1>6. QED
  BY <1>4, <1>5
=============================================================================
