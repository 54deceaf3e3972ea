----------------------------- MODULE SumProofs -----------------------------
(***************************************************************************)
(* Sums over finite sets, as MapThenSumSet computes them: the laws that    *)
(* the bounds on value, work and fees rest on.  A sum is a recursive       *)
(* function on the subsets of a set; that it is well defined is proved     *)
(* first, by looking at a smallest set for which it would not be.  So are  *)
(* functions that are defined step by step along the numbers.              *)
(***************************************************************************)
EXTENDS Integers, FiniteSets, FiniteSetsExt, FiniteSetTheorems, WellFoundedInduction, TLAPS

\* The sum of the weights of the elements of a set.
Total(w, S) == MapThenSumSet(LAMBDA x : w[x], S)

\* The element that a sum takes first, and what it takes then.
Chosen(S) == CHOOSE x \in S : TRUE

Rest(S) == S \ {Chosen(S)}

\* The union of a family of sets.
Joined(G, P) == UNION {G[t] : t \in P}

\* f is the recursive function that sums the weights w in the subsets of D.
Sums(f, w, D) ==
  f = [s \in SUBSET D |-> IF s = {} THEN 0 ELSE w[Chosen(s)] + f[Rest(s)]]

SumOf(w, D) == CHOOSE f : Sums(f, w, D)

----------------------------------------------------------------------------
(***************************************************************************)
(* Smallest numbers and sets.                                              *)
(***************************************************************************)

\* A nonempty set of numbers has a least one.
LEMMA LeastNumber ==
  ASSUME NEW S \in SUBSET Nat, S # {}
  PROVE  \E n \in S : \A k \in S : n <= k
<1> DEFINE R == {ss \in Nat \X Nat : ss[1] < ss[2]}
<1>1. R = OpToRel(<, Nat)
  BY Zenon DEF OpToRel
<1>2. IsWellFoundedOn(R, Nat)
  BY <1>1, NatLessThanWellFounded, Zenon
<1> HIDE DEF R
<1>3. PICK n \in S : \A k \in S : <<k, n>> \notin R
  BY <1>2, WFMin
<1>4. \A k \in S : ~(k < n)
  BY <1>3 DEF R
<1>. QED  BY <1>4

\* A set of numbers that starts at 0 and goes on up to m has all of them.
LEMMA Counting ==
  ASSUME NEW m \in Nat, NEW S, 0 \in S, \A i \in 1..m : i - 1 \in S => i \in S
  PROVE  \A i \in 0..m : i \in S
<1> DEFINE T == {i \in 0..m : i \notin S}
<1> SUFFICES ASSUME T # {} PROVE FALSE
  OBVIOUS
<1>1. T \in SUBSET Nat
  OBVIOUS
<1>2. PICK n \in T : \A k \in T : n <= k
  BY <1>1, LeastNumber
<1>3. n \in 1..m /\ n - 1 \in 0..m /\ ~(n <= n - 1)
  BY <1>2
<1>4. n - 1 \in S
  BY <1>2, <1>3
<1>. QED  BY <1>2, <1>3, <1>4

\* The functions that start from x and go on by the steps g: step i takes a value
\* y to g[i][y].
Steps(m, X) == [1..m -> [X -> X]]

Iterated(f, m, X, x, g) ==
  f \in [0..m -> X] /\ f[0] = x /\ \A i \in 1..m : f[i] = g[i][f[i - 1]]

\* There is one.
LEMMA Iterates ==
  ASSUME NEW m \in Nat, NEW X, NEW x \in X, NEW g \in Steps(m, X)
  PROVE  \E f : Iterated(f, m, X, x, g)
<1>0. g \in [1..m -> [X -> X]]
  BY DEF Steps
<1> DEFINE Good(f, k) == f[0] = x /\ \A i \in 1..k : f[i] = g[i][f[i - 1]]
           E(k) == \E f \in [0..k -> X] : Good(f, k)
           S == {k \in 0..m : E(k)}
<1>1. E(0)
  <2> DEFINE f == [i \in 0..0 |-> x]
  <2>1. f \in [0..0 -> X] /\ Good(f, 0)
    OBVIOUS
  <2>. QED  BY <2>1
<1>2. ASSUME NEW n \in 1..m, E(n - 1) PROVE E(n)
  <2> DEFINE k == n - 1
  <2>1. k \in Nat /\ n = k + 1 /\ k \in 0..k /\ n \notin 0..k
    OBVIOUS
  <2> HIDE DEF k
  <2>2. PICK f \in [0..k -> X] : Good(f, k)
    BY <1>2 DEF k
  <2> DEFINE y == g[n][f[k]]
             h == [i \in 0..n |-> IF i = n THEN y ELSE f[i]]
  <2>3. y \in X
    <3>1. f[k] \in X /\ g[n] \in [X -> X]
      BY <1>0, <2>1, <2>2
    <3>. QED  BY <3>1
  <2> HIDE DEF y
  <2>4. \A i \in 0..n : i = n \/ i \in 0..k
    BY <2>1
  <2>5. h \in [0..n -> X]
    BY <2>2, <2>3, <2>4
  <2>6. h[n] = y /\ \A i \in 0..k : h[i] = f[i]
    BY <2>1
  <2> HIDE DEF h
  <2>7. h[0] = x
    BY <2>1, <2>2, <2>6
  <2>8. ASSUME NEW i \in 1..n PROVE h[i] = g[i][h[i - 1]]
    <3>1. CASE i = n
      <4>1. h[i - 1] = f[k] /\ h[i] = y
        BY <2>1, <2>6, <3>1
      <4>. QED  BY <3>1, <4>1, Zenon DEF y
    <3>2. CASE i # n
      <4>1. i \in 1..k /\ i - 1 \in 0..k /\ i \in 0..k
        BY <2>1, <2>8, <3>2
      <4>2. f[i] = g[i][f[i - 1]]
        BY <2>2, <4>1
      <4>3. h[i] = f[i] /\ h[i - 1] = f[i - 1]
        BY <2>6, <4>1
      <4>. QED  BY <4>2, <4>3, Zenon
    <3>. QED  BY <3>1, <3>2
  <2>. QED  BY <2>5, <2>7, <2>8
<1>3. m \in S
  <2> HIDE DEF E
  <2>1. 0 \in S
    BY <1>1
  <2>2. \A i \in 1..m : i - 1 \in S => i \in S
    BY <1>2
  <2> HIDE DEF S
  <2>3. \A i \in 0..m : i \in S
    BY <2>1, <2>2, Counting
  <2>. QED  BY <2>3
<1>4. PICK f \in [0..m -> X] : Good(f, m)
  BY <1>3
<1>. QED  BY <1>4 DEF Iterated

\* Among subsets of a finite set one has no proper subset that is among them too.
LEMMA LeastSet ==
  ASSUME NEW D, IsFiniteSet(D), NEW F \in SUBSET (SUBSET D), F # {}
  PROVE  \E S \in F : IsFiniteSet(S) /\ \A T \in SUBSET S : T \in F => T = S
<1> DEFINE N == {Cardinality(S) : S \in F}
<1>1. \A S \in F : IsFiniteSet(S) /\ Cardinality(S) \in Nat
  BY FS_Subset, FS_CardinalityType
<1>2. N \in SUBSET Nat /\ N # {}
  BY <1>1
<1>3. PICK n \in N : \A k \in N : n <= k
  BY <1>2, LeastNumber
<1>4. PICK S \in F : n = Cardinality(S)
  BY <1>3
<1>5. ASSUME NEW T \in SUBSET S, T \in F PROVE T = S
  <2>1. Cardinality(T) <= Cardinality(S) /\ (Cardinality(S) = Cardinality(T) => S = T)
    BY <1>1, <1>4, FS_Subset
  <2>2. n <= Cardinality(T)
    BY <1>3, <1>5
  <2>3. Cardinality(T) \in Nat /\ n \in Nat
    BY <1>1, <1>2, <1>3, <1>5
  <2>. QED  BY <1>4, <2>1, <2>2, <2>3
<1>. QED  BY <1>1, <1>5

\* What is left after the first element.
LEMMA RestIsLess ==
  ASSUME NEW S, S # {}
  PROVE  Chosen(S) \in S /\ Rest(S) \in SUBSET S /\ Rest(S) # S
BY Zenon DEF Chosen, Rest

----------------------------------------------------------------------------
(***************************************************************************)
(* The recursive function.                                                 *)
(***************************************************************************)

\* Two such functions agree where both are defined.
LEMMA SumsAgree ==
  ASSUME NEW w, NEW f, NEW g, NEW D, NEW E, NEW S \in SUBSET D, S \in SUBSET E,
         IsFiniteSet(S), Sums(f, w, D), Sums(g, w, E)
  PROVE  f[S] = g[S]
<1> DEFINE F == {s \in SUBSET S : f[s] # g[s]}
<1> SUFFICES ASSUME F # {} PROVE FALSE
  OBVIOUS
<1>0. F \in SUBSET (SUBSET S)
  OBVIOUS
<1> HIDE DEF F
<1>1. PICK s \in F : \A T \in SUBSET s : T \in F => T = s
  BY <1>0, LeastSet
<1>2. s \in SUBSET D /\ s \in SUBSET E /\ s \in SUBSET S /\ f[s] # g[s]
  BY DEF F
<1>3. /\ f[s] = IF s = {} THEN 0 ELSE w[Chosen(s)] + f[Rest(s)]
      /\ g[s] = IF s = {} THEN 0 ELSE w[Chosen(s)] + g[Rest(s)]
  BY <1>2, Zenon DEF Sums
<1>4. s # {}
  BY <1>2, <1>3
<1>5. Rest(s) \in SUBSET s /\ Rest(s) # s
  BY <1>4, RestIsLess
<1>6. f[Rest(s)] = g[Rest(s)]
  BY <1>1, <1>2, <1>5 DEF F
<1>. QED  BY <1>2, <1>3, <1>4, <1>6

\* There is one.
LEMMA SumsExist ==
  ASSUME NEW w, NEW D, IsFiniteSet(D)
  PROVE  Sums(SumOf(w, D), w, D)
<1> DEFINE F == {s \in SUBSET D : ~Sums(SumOf(w, s), w, s)}
<1> SUFFICES ASSUME F # {} PROVE FALSE
  BY Zenon
<1>0. F \in SUBSET (SUBSET D)
  BY Zenon
<1> HIDE DEF F
<1>1. PICK S \in F : IsFiniteSet(S) /\ \A T \in SUBSET S : T \in F => T = S
  BY <1>0, LeastSet
<1>2. S \in SUBSET D /\ ~Sums(SumOf(w, S), w, S)
  BY <1>1, Zenon DEF F
<1>3. \A T \in SUBSET S : T # S => Sums(SumOf(w, T), w, T) /\ IsFiniteSet(T)
  BY <1>1, <1>2, FS_Subset, Zenon DEF F
<1> DEFINE v(T) == SumOf(w, T)[T]
           f == [s \in SUBSET S |-> IF s = {} THEN 0 ELSE w[Chosen(s)] + v(Rest(s))]
<1>4. ASSUME NEW T \in SUBSET S, T # S
      PROVE  v(T) = IF T = {} THEN 0 ELSE w[Chosen(T)] + v(Rest(T))
  <2>1. Sums(SumOf(w, T), w, T) /\ IsFiniteSet(T)
    BY <1>3, <1>4
  <2>2. v(T) = IF T = {} THEN 0 ELSE w[Chosen(T)] + SumOf(w, T)[Rest(T)]
    BY <2>1, Zenon DEF Sums
  <2>3. ASSUME T # {} PROVE SumOf(w, T)[Rest(T)] = v(Rest(T))
    <3> DEFINE R == Rest(T)
    <3>1. R \in SUBSET T /\ R # T
      BY <2>3, RestIsLess
    <3>2. R \in SUBSET S /\ R # S
      BY <3>1, <1>4
    <3>3. Sums(SumOf(w, R), w, R) /\ IsFiniteSet(R)
      BY <1>3, <3>2
    <3>4. R \in SUBSET R
      OBVIOUS
    <3> HIDE DEF R
    <3>5. SumOf(w, T)[R] = SumOf(w, R)[R]
      BY <2>1, <3>1, <3>3, <3>4, SumsAgree
    <3>. QED  BY <3>5 DEF R
  <2>. QED  BY <2>2, <2>3, Zenon
<1>5. ASSUME NEW s \in SUBSET S, s # {} PROVE f[Rest(s)] = v(Rest(s))
  <2>1. Rest(s) \in SUBSET s /\ Rest(s) # s
    BY <1>5, RestIsLess
  <2>2. Rest(s) \in SUBSET S /\ Rest(s) # S
    BY <2>1, <1>5
  <2>3. f[Rest(s)] = IF Rest(s) = {} THEN 0 ELSE w[Chosen(Rest(s))] + v(Rest(Rest(s)))
    BY <2>2, Zenon
  <2>. QED  BY <1>4, <2>2, <2>3, Zenon
<1>6. \A s \in SUBSET S : (IF s = {} THEN 0 ELSE w[Chosen(s)] + v(Rest(s)))
                            = IF s = {} THEN 0 ELSE w[Chosen(s)] + f[Rest(s)]
  BY <1>5, Zenon
<1>7. Sums(f, w, S)
  BY <1>6, Zenon DEF Sums
<1>8. Sums(SumOf(w, S), w, S)
  BY <1>7, Zenon DEF SumOf
<1>. QED  BY <1>2, <1>8

\* The sum is that function at its set.
LEMMA TotalIs ==
  ASSUME NEW w, NEW S
  PROVE  Total(w, S) = SumOf(w, S)[S]
BY Zenon DEF Total, MapThenSumSet, MapThenFoldSet, SumOf, Sums, Chosen, Rest

----------------------------------------------------------------------------
(***************************************************************************)
(* Laws of sums.                                                           *)
(***************************************************************************)

LEMMA TotalEmpty ==
  ASSUME NEW w
  PROVE  Total(w, {}) = 0
<1>1. Sums(SumOf(w, {}), w, {})
  BY SumsExist, FS_EmptySet
<1>2. {} \in SUBSET {}
  OBVIOUS
<1>3. SumOf(w, {})[{}] = 0
  BY <1>1, <1>2, Zenon DEF Sums
<1>. QED  BY <1>3, TotalIs

LEMMA TotalChosen ==
  ASSUME NEW w, NEW S, IsFiniteSet(S), S # {}
  PROVE  Total(w, S) = w[Chosen(S)] + Total(w, Rest(S))
<1>1. Sums(SumOf(w, S), w, S) /\ S \in SUBSET S
  BY SumsExist
<1>2. SumOf(w, S)[S] = w[Chosen(S)] + SumOf(w, S)[Rest(S)]
  BY <1>1, Zenon DEF Sums
<1> DEFINE R == Rest(S)
<1>3. R \in SUBSET S /\ R \in SUBSET R
  BY RestIsLess
<1> HIDE DEF R
<1>4. IsFiniteSet(R)
  BY <1>3, FS_Subset
<1>5. Sums(SumOf(w, R), w, R)
  BY <1>4, SumsExist
<1>6. SumOf(w, S)[R] = SumOf(w, R)[R]
  BY <1>1, <1>3, <1>4, <1>5, SumsAgree
<1>. QED  BY <1>2, <1>6, TotalIs DEF R


\* Sums of integers are integers.
LEMMA TotalInt ==
  ASSUME NEW S, IsFiniteSet(S), NEW w, \A x \in S : w[x] \in Int
  PROVE  Total(w, S) \in Int
<1> DEFINE F == {s \in SUBSET S : Total(w, s) \notin Int}
<1> SUFFICES ASSUME F # {} PROVE FALSE
  OBVIOUS
<1>0. F \in SUBSET (SUBSET S)
  OBVIOUS
<1> HIDE DEF F
<1>1. PICK s \in F : IsFiniteSet(s) /\ \A T \in SUBSET s : T \in F => T = s
  BY <1>0, LeastSet
<1>2. s \in SUBSET S /\ Total(w, s) \notin Int
  BY DEF F
<1>3. s # {}
  BY <1>2, TotalEmpty
<1>4. Chosen(s) \in s /\ Rest(s) \in SUBSET s /\ Rest(s) # s
  BY <1>3, RestIsLess
<1>5. Total(w, Rest(s)) \in Int
  BY <1>1, <1>2, <1>4 DEF F
<1>6. Total(w, s) = w[Chosen(s)] + Total(w, Rest(s))
  BY <1>1, <1>3, TotalChosen
<1>7. w[Chosen(s)] \in Int
  BY <1>2, <1>4
<1>. QED  BY <1>2, <1>5, <1>6, <1>7

\* Sums of natural numbers are natural numbers.
LEMMA TotalNat ==
  ASSUME NEW S, IsFiniteSet(S), NEW w, \A x \in S : w[x] \in Nat
  PROVE  Total(w, S) \in Nat
<1> DEFINE F == {s \in SUBSET S : Total(w, s) \notin Nat}
<1> SUFFICES ASSUME F # {} PROVE FALSE
  OBVIOUS
<1>0. F \in SUBSET (SUBSET S)
  OBVIOUS
<1> HIDE DEF F
<1>1. PICK s \in F : IsFiniteSet(s) /\ \A T \in SUBSET s : T \in F => T = s
  BY <1>0, LeastSet
<1>2. s \in SUBSET S /\ Total(w, s) \notin Nat
  BY DEF F
<1>3. s # {}
  BY <1>2, TotalEmpty
<1>4. Chosen(s) \in s /\ Rest(s) \in SUBSET s /\ Rest(s) # s
  BY <1>3, RestIsLess
<1>5. Total(w, Rest(s)) \in Nat
  BY <1>1, <1>2, <1>4 DEF F
<1>6. Total(w, s) = w[Chosen(s)] + Total(w, Rest(s))
  BY <1>1, <1>3, TotalChosen
<1>7. w[Chosen(s)] \in Nat
  BY <1>2, <1>4
<1>. QED  BY <1>2, <1>5, <1>6, <1>7

\* Any element may be taken first.
LEMMA TotalRemove ==
  ASSUME NEW S, IsFiniteSet(S), NEW w, \A x \in S : w[x] \in Int, NEW a \in S
  PROVE  Total(w, S) = w[a] + Total(w, S \ {a})
<1> DEFINE Any(s) == \A x \in s : Total(w, s) = w[x] + Total(w, s \ {x})
           F == {s \in SUBSET S : ~Any(s)}
<1> SUFFICES ASSUME F # {} PROVE FALSE
  OBVIOUS
<1>0. F \in SUBSET (SUBSET S)
  OBVIOUS
<1> HIDE DEF F
<1>1. PICK s \in F : IsFiniteSet(s) /\ \A T \in SUBSET s : T \in F => T = s
  BY <1>0, LeastSet
<1>2. s \in SUBSET S /\ ~Any(s)
  BY DEF F
<1>3. PICK x \in s : Total(w, s) # w[x] + Total(w, s \ {x})
  BY <1>2
<1> HIDE DEF Any
<1> DEFINE c == Chosen(s)
<1>4. c \in s /\ s \ {c} \in SUBSET s /\ s \ {c} # s
  BY <1>3, RestIsLess DEF Rest
<1>5. Total(w, s) = w[c] + Total(w, s \ {c})
  BY <1>1, <1>3, TotalChosen DEF Rest
<1> HIDE DEF c
<1>6. x # c
  BY <1>3, <1>5
<1>7. \A T \in SUBSET s : T # s => Any(T) /\ IsFiniteSet(T)
  BY <1>1, <1>2, FS_Subset DEF F
<1>8. Any(s \ {c}) /\ Any(s \ {x}) /\ x \in s \ {c} /\ c \in s \ {x}
  BY <1>3, <1>4, <1>6, <1>7
<1>9. Total(w, s \ {c}) = w[x] + Total(w, (s \ {c}) \ {x})
  BY <1>8 DEF Any
<1>10. Total(w, s \ {x}) = w[c] + Total(w, (s \ {x}) \ {c})
  BY <1>8 DEF Any
<1>11. (s \ {x}) \ {c} = (s \ {c}) \ {x}
  OBVIOUS
<1> DEFINE r == (s \ {c}) \ {x}
<1>12. IsFiniteSet(r) /\ r \in SUBSET S
  BY <1>1, <1>2, FS_Subset
<1>13. Total(w, r) \in Int
  BY <1>12, TotalInt
<1>14. w[c] \in Int /\ w[x] \in Int
  BY <1>2, <1>3, <1>4
<1> HIDE DEF r
<1>15. Total(w, s) = w[c] + (w[x] + Total(w, r)) /\ Total(w, s \ {x}) = w[c] + Total(w, r)
  BY <1>5, <1>9, <1>10, <1>11 DEF r
<1>. QED  BY <1>3, <1>13, <1>14, <1>15

\* Sums of disjoint sets add up.
LEMMA TotalUnion ==
  ASSUME NEW S, IsFiniteSet(S), NEW T, IsFiniteSet(T), S \cap T = {},
         NEW w, \A x \in S \cup T : w[x] \in Int
  PROVE  Total(w, S \cup T) = Total(w, S) + Total(w, T)
<1> DEFINE F == {s \in SUBSET S : Total(w, s \cup T) # Total(w, s) + Total(w, T)}
<1> SUFFICES ASSUME F # {} PROVE FALSE
  OBVIOUS
<1>0. F \in SUBSET (SUBSET S)
  OBVIOUS
<1> HIDE DEF F
<1>1. PICK s \in F : IsFiniteSet(s) /\ \A r \in SUBSET s : r \in F => r = s
  BY <1>0, LeastSet
<1>2. s \in SUBSET S /\ Total(w, s \cup T) # Total(w, s) + Total(w, T)
  BY DEF F
<1>3. Total(w, T) \in Int /\ Total(w, {}) = 0
  BY TotalInt, TotalEmpty
<1>4. s # {}
  <2> SUFFICES ASSUME s = {} PROVE FALSE
    OBVIOUS
  <2>1. Total(w, s \cup T) = Total(w, T) /\ Total(w, s) = 0
    BY <1>3
  <2>. QED  BY <1>2, <1>3, <2>1
<1>5. PICK a \in s : TRUE
  BY <1>4
<1> DEFINE r == s \ {a}
<1>6. r \in SUBSET s /\ r # s /\ r \in SUBSET S
  BY <1>2, <1>5
<1>7. Total(w, r \cup T) = Total(w, r) + Total(w, T)
  BY <1>1, <1>6 DEF F
<1>8. Total(w, s) = w[a] + Total(w, r)
  <2>1. \A x \in s : w[x] \in Int
    BY <1>2
  <2>. QED  BY <1>1, <1>5, <2>1, TotalRemove
<1>9. Total(w, s \cup T) = w[a] + Total(w, r \cup T)
  <2>1. IsFiniteSet(s \cup T) /\ (\A x \in s \cup T : w[x] \in Int) /\ a \in s \cup T
    BY <1>1, <1>2, <1>5, FS_Union
  <2>2. (s \cup T) \ {a} = r \cup T
    BY <1>2, <1>5
  <2>. QED  BY <2>1, <2>2, TotalRemove
<1>10. Total(w, r) \in Int /\ w[a] \in Int
  <2>1. IsFiniteSet(r) /\ \A x \in r : w[x] \in Int
    BY <1>1, <1>2, FS_Subset
  <2>. QED  BY <1>2, <1>5, <2>1, TotalInt
<1> HIDE DEF r
<1>. QED  BY <1>2, <1>3, <1>7, <1>8, <1>9, <1>10


\* A part and what is outside of it.
LEMMA TotalSplit ==
  ASSUME NEW S, IsFiniteSet(S), NEW w, \A x \in S : w[x] \in Int, NEW T \in SUBSET S
  PROVE  /\ Total(w, S) = Total(w, T) + Total(w, S \ T)
         /\ Total(w, T) \in Int /\ Total(w, S \ T) \in Int
<1> DEFINE R == S \ T
<1>1. IsFiniteSet(T) /\ IsFiniteSet(R) /\ T \cap R = {} /\ T \cup R = S
  BY FS_Subset
<1>2. (\A x \in T : w[x] \in Int) /\ (\A x \in R : w[x] \in Int) /\ \A x \in T \cup R : w[x] \in Int
  OBVIOUS
<1> HIDE DEF R
<1>3. Total(w, T) \in Int /\ Total(w, R) \in Int
  BY <1>1, <1>2, TotalInt
<1>4. Total(w, T \cup R) = Total(w, T) + Total(w, R)
  BY <1>1, <1>2, TotalUnion
<1>. QED  BY <1>1, <1>3, <1>4 DEF R

\* A part weighs no more than the whole.
LEMMA TotalPart ==
  ASSUME NEW S, IsFiniteSet(S), NEW w, \A x \in S : w[x] \in Nat, NEW T \in SUBSET S
  PROVE  /\ Total(w, T) \in Nat /\ Total(w, S) \in Nat
         /\ Total(w, T) <= Total(w, S)
<1>1. IsFiniteSet(T) /\ IsFiniteSet(S \ T)
  BY FS_Subset
<1>2. Total(w, T) \in Nat /\ Total(w, S \ T) \in Nat /\ Total(w, S) \in Nat
  BY <1>1, TotalNat
<1>3. Total(w, S) = Total(w, T) + Total(w, S \ T)
  BY TotalSplit
<1>. QED  BY <1>2, <1>3

\* The sum of a union is at most the sum of the sums.
LEMMA TotalCover ==
  ASSUME NEW S, IsFiniteSet(S), NEW T, IsFiniteSet(T), NEW w, \A x \in S \cup T : w[x] \in Nat
  PROVE  /\ Total(w, S) \in Nat /\ Total(w, T) \in Nat
         /\ Total(w, S \cup T) \in Nat
         /\ Total(w, S \cup T) <= Total(w, S) + Total(w, T)
<1> DEFINE R == T \ S
<1>1. IsFiniteSet(R) /\ R \cap S = {} /\ S \cup R = S \cup T /\ R \in SUBSET T
  BY FS_Subset
<1>2. (\A x \in S : w[x] \in Nat) /\ (\A x \in T : w[x] \in Nat) /\ \A x \in S \cup R : w[x] \in Int
  OBVIOUS
<1> HIDE DEF R
<1>3. Total(w, S \cup R) = Total(w, S) + Total(w, R)
  BY <1>1, <1>2, TotalUnion
<1>4. Total(w, S) \in Nat
  BY <1>2, TotalNat
<1>5. Total(w, R) \in Nat /\ Total(w, T) \in Nat /\ Total(w, R) <= Total(w, T)
  BY <1>1, <1>2, TotalPart
<1>6. Total(w, S \cup T) = Total(w, S) + Total(w, R)
  BY <1>1, <1>3, Zenon
<1>. QED  BY <1>4, <1>5, <1>6

\* Larger weights have the larger sum.
LEMMA TotalBelow ==
  ASSUME NEW S, IsFiniteSet(S), NEW w, NEW v,
         \A x \in S : w[x] \in Int /\ v[x] \in Int /\ w[x] <= v[x]
  PROVE  Total(w, S) <= Total(v, S)
<1> DEFINE F == {s \in SUBSET S : ~(Total(w, s) <= Total(v, s))}
<1> SUFFICES ASSUME F # {} PROVE FALSE
  OBVIOUS
<1>0. F \in SUBSET (SUBSET S)
  OBVIOUS
<1> HIDE DEF F
<1>1. PICK s \in F : IsFiniteSet(s) /\ \A r \in SUBSET s : r \in F => r = s
  BY <1>0, LeastSet
<1>2. s \in SUBSET S /\ ~(Total(w, s) <= Total(v, s))
  BY DEF F
<1>3. s # {}
  <2>1. Total(w, {}) = 0 /\ Total(v, {}) = 0
    BY TotalEmpty
  <2>. QED  BY <1>2, <2>1
<1> DEFINE r == Rest(s)
           c == Chosen(s)
<1>4. c \in s /\ r \in SUBSET s /\ r # s
  BY <1>3, RestIsLess
<1>5. Total(w, s) = w[c] + Total(w, r) /\ Total(v, s) = v[c] + Total(v, r)
  BY <1>1, <1>3, TotalChosen
<1> HIDE DEF c, r
<1>6. Total(w, r) <= Total(v, r)
  BY <1>1, <1>2, <1>4 DEF F
<1>7. w[c] \in Int /\ v[c] \in Int /\ w[c] <= v[c]
  BY <1>2, <1>4
<1>8. IsFiniteSet(r) /\ \A x \in r : w[x] \in Int /\ v[x] \in Int
  BY <1>1, <1>2, <1>4, FS_Subset
<1>9. Total(w, r) \in Int /\ Total(v, r) \in Int
  BY <1>8, TotalInt
<1>. QED  BY <1>2, <1>5, <1>6, <1>7, <1>9

\* The same weights have the same sum.
LEMMA TotalSame ==
  ASSUME NEW S, IsFiniteSet(S), NEW w, NEW v, \A x \in S : w[x] = v[x]
  PROVE  Total(w, S) = Total(v, S)
<1> DEFINE F == {s \in SUBSET S : Total(w, s) # Total(v, s)}
<1> SUFFICES ASSUME F # {} PROVE FALSE
  OBVIOUS
<1>0. F \in SUBSET (SUBSET S)
  OBVIOUS
<1> HIDE DEF F
<1>1. PICK s \in F : IsFiniteSet(s) /\ \A r \in SUBSET s : r \in F => r = s
  BY <1>0, LeastSet
<1>2. s \in SUBSET S /\ Total(w, s) # Total(v, s)
  BY DEF F
<1>3. s # {}
  <2>1. Total(w, {}) = 0 /\ Total(v, {}) = 0
    BY TotalEmpty
  <2>. QED  BY <1>2, <2>1
<1> DEFINE r == Rest(s)
           c == Chosen(s)
<1>4. c \in s /\ r \in SUBSET s /\ r # s
  BY <1>3, RestIsLess
<1>5. Total(w, s) = w[c] + Total(w, r) /\ Total(v, s) = v[c] + Total(v, r)
  BY <1>1, <1>3, TotalChosen
<1> HIDE DEF c, r
<1>6. Total(w, r) = Total(v, r) /\ w[c] = v[c]
  BY <1>1, <1>2, <1>4 DEF F
<1>. QED  BY <1>2, <1>5, <1>6

\* The sum of sums of weights.
LEMMA TotalPlus ==
  ASSUME NEW S, IsFiniteSet(S), NEW u, NEW w, NEW v,
         \A x \in S : w[x] \in Int /\ v[x] \in Int /\ u[x] = w[x] + v[x]
  PROVE  Total(u, S) = Total(w, S) + Total(v, S)
<1> DEFINE F == {s \in SUBSET S : Total(u, s) # Total(w, s) + Total(v, s)}
<1> SUFFICES ASSUME F # {} PROVE FALSE
  OBVIOUS
<1>0. F \in SUBSET (SUBSET S)
  OBVIOUS
<1> HIDE DEF F
<1>1. PICK s \in F : IsFiniteSet(s) /\ \A r \in SUBSET s : r \in F => r = s
  BY <1>0, LeastSet
<1>2. s \in SUBSET S /\ Total(u, s) # Total(w, s) + Total(v, s)
  BY DEF F
<1>3. s # {}
  <2>1. Total(w, {}) = 0 /\ Total(v, {}) = 0 /\ Total(u, {}) = 0
    BY TotalEmpty
  <2>. QED  BY <1>2, <2>1
<1> DEFINE r == Rest(s)
           c == Chosen(s)
<1>4. c \in s /\ r \in SUBSET s /\ r # s
  BY <1>3, RestIsLess
<1>5. /\ Total(w, s) = w[c] + Total(w, r) /\ Total(v, s) = v[c] + Total(v, r)
      /\ Total(u, s) = u[c] + Total(u, r)
  BY <1>1, <1>3, TotalChosen
<1> HIDE DEF c, r
<1>6. Total(u, r) = Total(w, r) + Total(v, r)
  BY <1>1, <1>2, <1>4 DEF F
<1>7. w[c] \in Int /\ v[c] \in Int /\ u[c] = w[c] + v[c]
  BY <1>2, <1>4
<1>8. IsFiniteSet(r) /\ \A x \in r : w[x] \in Int /\ v[x] \in Int
  BY <1>1, <1>2, <1>4, FS_Subset
<1>9. Total(w, r) \in Int /\ Total(v, r) \in Int
  BY <1>8, TotalInt
<1>. QED  BY <1>2, <1>5, <1>6, <1>7, <1>9


\* The sum over a family of sets is at most the sum of their sums, and equal to
\* it when no two of them meet.
LEMMA TotalFamily ==
  ASSUME NEW P, IsFiniteSet(P), NEW G, \A t \in P : IsFiniteSet(G[t]),
         NEW w, \A t \in P : \A x \in G[t] : w[x] \in Nat,
         NEW v, \A t \in P : v[t] = Total(w, G[t])
  PROVE  /\ IsFiniteSet(Joined(G, P))
         /\ Total(w, Joined(G, P)) \in Nat
         /\ Total(v, P) \in Nat
         /\ Total(w, Joined(G, P)) <= Total(v, P)
         /\ (\A t, u \in P : t # u => G[t] \cap G[u] = {})
              => Total(w, Joined(G, P)) = Total(v, P)
<1> DEFINE U(s) == UNION {G[t] : t \in s}
           Apart == \A t, u \in P : t # u => G[t] \cap G[u] = {}
           Good(s) == /\ IsFiniteSet(U(s)) /\ Total(w, U(s)) \in Nat /\ Total(v, s) \in Nat
                      /\ Total(w, U(s)) <= Total(v, s)
                      /\ Apart => Total(w, U(s)) = Total(v, s)
           F == {s \in SUBSET P : ~Good(s)}
<1> SUFFICES ASSUME F # {} PROVE FALSE
  BY DEF Joined
<1>0. F \in SUBSET (SUBSET P)
  OBVIOUS
<1> HIDE DEF F
<1>1. PICK s \in F : IsFiniteSet(s) /\ \A r \in SUBSET s : r \in F => r = s
  BY <1>0, LeastSet
<1>2. s \in SUBSET P /\ ~Good(s)
  BY DEF F
<1>3. s # {}
  <2> SUFFICES ASSUME s = {} PROVE FALSE
    OBVIOUS
  <2>1. U(s) = {}
    OBVIOUS
  <2>2. Total(w, U(s)) = 0 /\ Total(v, s) = 0 /\ IsFiniteSet(U(s))
    BY <2>1, TotalEmpty, FS_EmptySet
  <2> HIDE DEF U
  <2>. QED  BY <1>2, <2>2
<1> DEFINE r == Rest(s)
           c == Chosen(s)
<1>4. c \in s /\ r \in SUBSET s /\ r # s /\ s = r \cup {c} /\ c \notin r
  BY <1>3, RestIsLess DEF Rest
<1>5. Total(v, s) = v[c] + Total(v, r)
  BY <1>1, <1>3, TotalChosen
<1> HIDE DEF c, r
<1>6. Good(r)
  BY <1>1, <1>2, <1>4 DEF F
<1>7. U(s) = U(r) \cup G[c]
  BY <1>4
<1>8. \A x \in U(r) \cup G[c] : w[x] \in Nat
  BY <1>2, <1>4
<1>9. Apart => U(r) \cap G[c] = {}
  BY <1>2, <1>4
<1>10. c \in P /\ IsFiniteSet(G[c]) /\ v[c] = Total(w, G[c])
  BY <1>2, <1>4
<1> DEFINE V == U(r)
<1>11. V = U(r)
  OBVIOUS
<1> HIDE DEF U, Apart, V
<1>12. /\ IsFiniteSet(V) /\ Total(w, V) \in Nat /\ Total(v, r) \in Nat
       /\ Total(w, V) <= Total(v, r)
       /\ Apart => Total(w, V) = Total(v, r)
  BY <1>6, <1>11
<1>13. /\ Total(w, G[c]) \in Nat /\ Total(w, V \cup G[c]) \in Nat
       /\ Total(w, V \cup G[c]) <= Total(w, V) + Total(w, G[c])
  BY <1>8, <1>10, <1>11, <1>12, TotalCover
<1>14. Apart => Total(w, V \cup G[c]) = Total(w, V) + Total(w, G[c])
  <2> SUFFICES ASSUME Apart PROVE Total(w, V \cup G[c]) = Total(w, V) + Total(w, G[c])
    OBVIOUS
  <2>1. V \cap G[c] = {} /\ \A x \in V \cup G[c] : w[x] \in Int
    BY <1>8, <1>9, <1>11
  <2>. QED  BY <1>10, <1>12, <2>1, TotalUnion
<1>15. IsFiniteSet(V \cup G[c])
  BY <1>10, <1>12, FS_Union
<1> DEFINE Y == V \cup G[c]
<1>16. U(s) = Y
  BY <1>7, <1>11
<1> HIDE DEF Y
<1>17. /\ IsFiniteSet(Y) /\ Total(w, Y) \in Nat
       /\ Total(w, Y) <= Total(w, V) + v[c]
       /\ Apart => Total(w, Y) = Total(w, V) + v[c]
       /\ v[c] \in Nat
  BY <1>10, <1>13, <1>14, <1>15 DEF Y
<1>18. Total(w, U(s)) = Total(w, Y) /\ IsFiniteSet(U(s))
  BY <1>16, <1>17, Zenon
<1>19. /\ Total(w, Y) <= Total(v, s) /\ Total(v, s) \in Nat
       /\ Apart => Total(w, Y) = Total(v, s)
  BY <1>5, <1>12, <1>17
<1>20. Good(s)
  BY <1>17, <1>18, <1>19, Zenon
<1>. QED  BY <1>2, <1>20

\* A sum with one more number.
LEMMA TotalNext ==
  ASSUME NEW n \in Nat, NEW w, \A i \in 1..n + 1 : w[i] \in Nat
  PROVE  /\ Total(w, 1..n) \in Nat
         /\ Total(w, 1..n + 1) = Total(w, 1..n) + w[n + 1]
<1> DEFINE S == 1..n
           T == 1..n + 1
<1>1. IsFiniteSet(S) /\ IsFiniteSet(T)
  BY FS_Interval
<1>2. T \ {n + 1} = S /\ n + 1 \in T /\ S \subseteq T
  OBVIOUS
<1>3. \A i \in T : w[i] \in Int
  OBVIOUS
<1>4. \A i \in S : w[i] \in Nat
  OBVIOUS
<1> HIDE DEF S, T
<1>5. Total(w, S) \in Nat
  BY <1>1, <1>4, TotalNat
<1>6. Total(w, T) = w[n + 1] + Total(w, S)
  BY <1>1, <1>2, <1>3, TotalRemove
<1>7. w[n + 1] \in Int
  BY <1>2, <1>3
<1>. QED  BY <1>5, <1>6, <1>7 DEF S, T


LEMMA TotalPartition ==
  ASSUME NEW P, IsFiniteSet(P), NEW G, \A t \in P : IsFiniteSet(G[t]),
         NEW w, \A t \in P : \A x \in G[t] : w[x] \in Nat,
         NEW v, \A t \in P : v[t] = Total(w, G[t]),
         \A t, u \in P : t # u => G[t] \cap G[u] = {}
  PROVE  Total(w, Joined(G, P)) = Total(v, P)
<1> DEFINE Apart == \A t, u \in P : t # u => G[t] \cap G[u] = {}
<1>1. Apart
  OBVIOUS
<1>2. Apart => Total(w, Joined(G, P)) = Total(v, P)
  BY TotalFamily
<1>. QED  BY <1>1, <1>2
=============================================================================
