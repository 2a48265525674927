--------------------------- MODULE OcrPagesProofs ---------------------------
(***************************************************************************)
(* Proofs about OcrPages, for every list of uploads of any kind, any limit *)
(* on the pages of a PDF and every outcome of the pages: the loops of      *)
(* process agree with the set of pages that OcrService works with, and     *)
(* with each other.                                                        *)
(*                                                                         *)
(* The invariant IInv only says that each variable is what the code        *)
(* computes from those before it.  The work is in what that is: folds and  *)
(* flattened lists are recursive, so the first half is about sums over     *)
(* sets and about sequences laid end to end, by induction.  The second     *)
(* half starts from Lay: the pages of a file are one block of the list, in *)
(* order, and the blocks follow each other.                                *)
(***************************************************************************)
EXTENDS OcrPages, FiniteSetTheorems, TLAPS

-----------------------------------------------------------------------------
(***************************************************************************)
(* Induction.  The library's rules take a predicate as a parameter; these  *)
(* take the set of the numbers, or of the sets, that have the property.    *)
(***************************************************************************)
\* The natural numbers are well founded.
LEMMA Descent == IsWellFoundedOn({ss \in Nat \X Nat : ss[1] < ss[2]}, Nat)
  BY NatLessThanWellFounded DEF OpToRel

\* Induction on a number.
LEMMA Counting ==
    ASSUME NEW N, 0 \in N, \A n \in Nat : n \in N => n + 1 \in N
    PROVE  \A n \in Nat : n \in N
  <1> DEFINE R == {ss \in Nat \X Nat : ss[1] < ss[2]}
             T == {n \in Nat : n \notin N}
  <1>1. SUFFICES ASSUME T # {} PROVE FALSE
    OBVIOUS
  <1>2. IsWellFoundedOn(R, Nat)
    BY Descent
  <1>3. \A A, B : IsWellFoundedOn(A, B) =>
            \A C : C \subseteq B /\ C # {} => \E x \in C : \A y \in C : <<y, x>> \notin A
    BY WFMin
  <1>4. PICK m \in T : \A k \in T : <<k, m>> \notin R
    <2> HIDE DEF R
    <2>. QED BY <1>1, <1>2, <1>3
  <1>5. m # 0 /\ m - 1 \in Nat
    OBVIOUS
  <1>6. <<m - 1, m>> \in R
    BY <1>5
  <1>7. m - 1 \in N
    BY <1>4, <1>5, <1>6
  <1>. QED
    BY <1>5, <1>7

\* Induction on the subsets of a finite set, each from those with an element less.
LEMMA Thinning ==
    ASSUME NEW S, IsFiniteSet(S), NEW F, {} \in F,
           \A s \in SUBSET S : IsFiniteSet(s) /\ s # {} /\ (\A x \in s : s \ {x} \in F) => s \in F
    PROVE  S \in F
  <1> DEFINE N == {n \in Nat : \A s \in SUBSET S : Cardinality(s) = n => s \in F}
  <1>1. \A s \in SUBSET S : IsFiniteSet(s) /\ Cardinality(s) \in Nat
    BY FS_Subset, FS_CardinalityType
  <1>2. 0 \in N
    BY <1>1, FS_EmptySet
  <1>3. ASSUME NEW n \in Nat, n \in N PROVE n + 1 \in N
    <2>1. SUFFICES ASSUME NEW s \in SUBSET S, Cardinality(s) = n + 1 PROVE s \in F
      OBVIOUS
    <2>2. s # {}
      <3>1. SUFFICES ASSUME s = {} PROVE FALSE
        OBVIOUS
      <3>2. Cardinality(s) = 0
        BY <3>1, FS_EmptySet
      <3>3. n + 1 # 0
        OBVIOUS
      <3>. QED BY <2>1, <3>2, <3>3
    <2>3. ASSUME NEW x \in s PROVE s \ {x} \in F
      <3>1. Cardinality(s \ {x}) = Cardinality(s) - 1
        BY <1>1, FS_RemoveElement
      <3>. QED BY <1>3, <2>1, <3>1
    <2>4. IsFiniteSet(s)
      BY <1>1
    <2>. QED BY <2>2, <2>3, <2>4
  <1>4. Cardinality(S) \in N
    <2> HIDE DEF N
    <2>. QED BY <1>1, <1>2, <1>3, Counting
  <1>. QED
    BY <1>1, <1>4

-----------------------------------------------------------------------------
(***************************************************************************)
(* Sums.                                                                   *)
(***************************************************************************)
Total(v, S) == SumFunctionOnSet(v, S)

\* it is the sum of v over each subset of S, taken in the order of CHOOSE: what
\* SumFunctionOnSet unfolds to.
IsSum(it, v, S) ==
    it = [s \in SUBSET S |->
            IF s = {} THEN 0
            ELSE v[CHOOSE x \in s : TRUE] + it[s \ {CHOOSE x \in s : TRUE}]]

\* The recursion has a solution: one for the subsets of up to n elements gives
\* one for those of n + 1.
LEMMA SumExists ==
    ASSUME NEW S, IsFiniteSet(S), NEW v
    PROVE  \E it : IsSum(it, v, S)
  <1> DEFINE one(s) == CHOOSE x \in s : TRUE
             D(n) == {s \in SUBSET S : Cardinality(s) <= n}
             G(it, n) == [s \in D(n) |-> IF s = {} THEN 0 ELSE v[one(s)] + it[s \ {one(s)}]]
             N == {n \in Nat : \E it : it = G(it, n)}
  <1>1. \A s \in SUBSET S : IsFiniteSet(s) /\ Cardinality(s) \in Nat
                            /\ Cardinality(s) <= Cardinality(S)
    BY FS_Subset, FS_CardinalityType
  <1>2. ASSUME NEW s \in SUBSET S, s # {}
        PROVE  one(s) \in s /\ Cardinality(s \ {one(s)}) = Cardinality(s) - 1
    <2>1. one(s) \in s
      BY <1>2
    <2>. QED BY <1>1, <2>1, FS_RemoveElement
  <1>3. 0 \in N
    <2> DEFINE it == [s \in D(0) |-> 0]
    <2>1. \A s \in D(0) : s = {}
      BY <1>1, FS_EmptySet
    <2>2. it = G(it, 0)
      BY <2>1
    <2>. QED BY <2>2
  <1>4. ASSUME NEW n \in Nat, n \in N PROVE n + 1 \in N
    <2>1. PICK it : it = G(it, n)
      BY <1>4
    <2> DEFINE new == G(it, n + 1)
    <2> HIDE DEF one
    <2>2. ASSUME NEW s \in D(n + 1), s # {}
          PROVE  s \ {one(s)} \in D(n)
      BY <1>1, <1>2, <2>2
    <2>3. \A s \in D(n) : new[s] = it[s]
      <3>1. \A s \in D(n) : s \in D(n + 1)
        BY <1>1
      <3> HIDE DEF D
      <3>2. ASSUME NEW s \in D(n) PROVE new[s] = it[s]
        <4>1. it[s] = G(it, n)[s]
          BY <2>1
        <4>2. G(it, n)[s] = IF s = {} THEN 0 ELSE v[one(s)] + it[s \ {one(s)}]
          OBVIOUS
        <4>3. new[s] = IF s = {} THEN 0 ELSE v[one(s)] + it[s \ {one(s)}]
          BY <3>1
        <4>. QED BY <4>1, <4>2, <4>3
      <3> HIDE DEF new
      <3>. QED BY <3>2
    <2>4. new = G(new, n + 1)
      BY <2>2, <2>3
    <2> HIDE DEF new, G
    <2>. QED BY <2>4
  <1>5. Cardinality(S) \in N
    <2> HIDE DEF N
    <2>. QED BY <1>1, <1>3, <1>4, Counting, FS_CardinalityType
  <1>6. D(Cardinality(S)) = SUBSET S
    BY <1>1
  <1>7. PICK it : it = G(it, Cardinality(S))
    BY <1>5
  <1>8. IsSum(it, v, S)
    <2> HIDE DEF D
    <2>. QED BY <1>6, <1>7 DEF IsSum
  <1>. QED
    BY <1>8

\* What one step of the recursion gives.
LEMMA SumUnfolds ==
    ASSUME NEW S, NEW v, NEW it, IsSum(it, v, S)
    PROVE  /\ it[{}] = 0
           /\ \A s \in SUBSET S : s # {} => \E x \in s : /\ x = CHOOSE y \in s : TRUE
                                                         /\ it[s] = v[x] + it[s \ {x}]
  <1> DEFINE one(s) == CHOOSE y \in s : TRUE
  <1>1. \A s \in SUBSET S : s # {} => one(s) \in s
    OBVIOUS
  <1>2. \A s \in SUBSET S : it[s] = IF s = {} THEN 0 ELSE v[one(s)] + it[s \ {one(s)}]
    BY DEF IsSum
  <1> HIDE DEF one
  <1>3. \A s \in SUBSET S : s # {} => \E x \in s : x = one(s) /\ it[s] = v[x] + it[s \ {x}]
    BY <1>1, <1>2
  <1>. QED
    BY <1>2, <1>3 DEF one

\* And one only, however large the set it is solved for.
LEMMA SumUnique ==
    ASSUME NEW S, IsFiniteSet(S), NEW T \in SUBSET S, NEW v, NEW it, NEW jt,
           IsSum(it, v, S), IsSum(jt, v, T)
    PROVE  it[T] = jt[T]
  <1> DEFINE F == {s \in SUBSET T : it[s] = jt[s]}
  <1>1. IsFiniteSet(T)
    BY FS_Subset
  <1>2. {} \in F
    BY SumUnfolds
  <1>3. ASSUME NEW s \in SUBSET T, s # {}, \A x \in s : s \ {x} \in F PROVE s \in F
    <2>1. PICK x \in s : x = (CHOOSE y \in s : TRUE) /\ it[s] = v[x] + it[s \ {x}]
      BY <1>3, SumUnfolds
    <2>2. PICK z \in s : z = (CHOOSE y \in s : TRUE) /\ jt[s] = v[z] + jt[s \ {z}]
      BY <1>3, SumUnfolds
    <2>3. z = x
      BY <2>1, <2>2
    <2>. QED BY <1>3, <2>1, <2>2, <2>3
  <1>4. T \in F
    <2> HIDE DEF F
    <2>. QED BY <1>1, <1>2, <1>3, Thinning
  <1>. QED
    BY <1>4

\* Total is the sum that solves the recursion.
LEMMA TotalIs ==
    ASSUME NEW S, IsFiniteSet(S), NEW v, NEW it, IsSum(it, v, S)
    PROVE  Total(v, S) = it[S]
  <1> DEFINE Q(jt) == jt = [s \in SUBSET S |-> IF s = {} THEN 0
                               ELSE v[CHOOSE x \in s : TRUE] + jt[s \ {CHOOSE x \in s : TRUE}]]
  <1>1. Total(v, S) = (CHOOSE jt : Q(jt))[S]
    BY DEF Total, SumFunctionOnSet, FoldFunctionOnSet, MapThenFoldSet
  <1>2. \A jt : Q(jt) <=> IsSum(jt, v, S)
    BY DEF IsSum
  <1> HIDE DEF Q
  <1>3. IsSum(CHOOSE jt : Q(jt), v, S)
    BY <1>2
  <1>4. \A jt : IsSum(jt, v, S) => it[S] = jt[S]
    BY SumUnique
  <1>. QED
    BY <1>1, <1>3, <1>4

\* The element that CHOOSE takes first, and the sum of the others.
LEMMA TotalUnfolds ==
    ASSUME NEW S, IsFiniteSet(S), NEW v
    PROVE  /\ S = {} => Total(v, S) = 0
           /\ S # {} => \E x \in S : /\ x = CHOOSE y \in S : TRUE
                                     /\ Total(v, S) = v[x] + Total(v, S \ {x})
  <1>1. PICK it : IsSum(it, v, S)
    BY SumExists
  <1>2. Total(v, S) = it[S]
    BY <1>1, TotalIs
  <1>3. CASE S = {}
    BY <1>1, <1>2, <1>3, SumUnfolds
  <1>4. CASE S # {}
    <2>1. PICK x \in S : x = (CHOOSE y \in S : TRUE) /\ it[S] = v[x] + it[S \ {x}]
      BY <1>1, <1>4, SumUnfolds
    <2> DEFINE T == S \ {x}
    <2>2. IsFiniteSet(T) /\ T \in SUBSET S
      BY FS_Subset
    <2> HIDE DEF T
    <2>3. PICK jt : IsSum(jt, v, T)
      BY <2>2, SumExists
    <2>4. Total(v, T) = jt[T] /\ it[T] = jt[T]
      BY <1>1, <2>2, <2>3, TotalIs, SumUnique
    <2>. QED BY <1>2, <1>4, <2>1, <2>4 DEF T
  <1>. QED
    BY <1>3, <1>4

\* The empty sum.
LEMMA TotalEmpty == \A v : Total(v, {}) = 0
  BY TotalUnfolds, FS_EmptySet

\* Natural numbers add up to one.
LEMMA TotalType ==
    ASSUME NEW S, IsFiniteSet(S), NEW v, \A x \in S : v[x] \in Nat
    PROVE  Total(v, S) \in Nat
  <1> DEFINE F == {s \in SUBSET S : Total(v, s) \in Nat}
  <1>1. {} \in F
    BY TotalEmpty
  <1>2. ASSUME NEW s \in SUBSET S, IsFiniteSet(s), s # {}, \A x \in s : s \ {x} \in F
        PROVE  s \in F
    <2>1. PICK x \in s : Total(v, s) = v[x] + Total(v, s \ {x})
      BY <1>2, TotalUnfolds
    <2>2. Total(v, s \ {x}) \in Nat
      BY <1>2
    <2>. QED BY <2>1, <2>2
  <1>3. S \in F
    <2> HIDE DEF F
    <2>. QED BY <1>1, <1>2, Thinning
  <1>. QED
    BY <1>3

\* Any element may be taken first: what CHOOSE takes does not matter.
LEMMA TotalRemove ==
    ASSUME NEW S, IsFiniteSet(S), NEW v, \A x \in S : v[x] \in Nat
    PROVE  \A x \in S : Total(v, S) = v[x] + Total(v, S \ {x})
  <1> DEFINE F == {s \in SUBSET S : \A x \in s : Total(v, s) = v[x] + Total(v, s \ {x})}
  <1>1. {} \in F
    OBVIOUS
  <1>2. ASSUME NEW s \in SUBSET S, IsFiniteSet(s), s # {}, \A x \in s : s \ {x} \in F
        PROVE  s \in F
    <2>1. PICK y \in s : Total(v, s) = v[y] + Total(v, s \ {y})
      BY <1>2, TotalUnfolds
    <2>2. ASSUME NEW x \in s, x # y PROVE Total(v, s) = v[x] + Total(v, s \ {x})
      <3> DEFINE rest == (s \ {y}) \ {x}
      <3>1. Total(v, s \ {y}) = v[x] + Total(v, rest)
        BY <1>2, <2>2
      <3>2. Total(v, s \ {x}) = v[y] + Total(v, (s \ {x}) \ {y})
        BY <1>2, <2>2
      <3>3. Total(v, s \ {x}) = v[y] + Total(v, rest)
        <4>1. (s \ {x}) \ {y} = rest
          OBVIOUS
        <4>. QED BY <3>2, <4>1
      <3>4. Total(v, rest) \in Nat
        <4>1. IsFiniteSet(rest) /\ rest \in SUBSET S
          BY <1>2, FS_Subset
        <4> HIDE DEF rest
        <4>. QED BY <4>1, TotalType
      <3>5. v[x] \in Nat /\ v[y] \in Nat
        OBVIOUS
      <3> HIDE DEF rest, F
      <3>. QED BY <2>1, <3>1, <3>3, <3>4, <3>5
    <2>. QED BY <2>1, <2>2
  <1>3. S \in F
    <2> HIDE DEF F
    <2>. QED BY <1>1, <1>2, Thinning
  <1>. QED
    BY <1>3

\* Sums look at nothing but the values.
LEMMA TotalSame ==
    ASSUME NEW S, IsFiniteSet(S), NEW v, NEW w, \A x \in S : v[x] = w[x]
    PROVE  Total(v, S) = Total(w, S)
  <1> DEFINE F == {s \in SUBSET S : Total(v, s) = Total(w, s)}
  <1>1. {} \in F
    BY TotalEmpty
  <1>2. ASSUME NEW s \in SUBSET S, IsFiniteSet(s), s # {}, \A x \in s : s \ {x} \in F
        PROVE  s \in F
    <2>1. PICK x \in s : x = (CHOOSE y \in s : TRUE) /\ Total(v, s) = v[x] + Total(v, s \ {x})
      BY <1>2, TotalUnfolds
    <2>2. PICK z \in s : z = (CHOOSE y \in s : TRUE) /\ Total(w, s) = w[z] + Total(w, s \ {z})
      BY <1>2, TotalUnfolds
    <2>3. z = x
      BY <2>1, <2>2
    <2>4. Total(v, s \ {x}) = Total(w, s \ {x}) /\ v[x] = w[x]
      BY <1>2
    <2>. QED BY <2>1, <2>2, <2>3, <2>4
  <1>3. S \in F
    <2> HIDE DEF F
    <2>. QED BY <1>1, <1>2, Thinning
  <1>. QED
    BY <1>3

\* The sum over two disjoint sets.
LEMMA TotalUnion ==
    ASSUME NEW P, NEW S, IsFiniteSet(P), IsFiniteSet(S), P \intersect S = {},
           NEW v, \A x \in P \union S : v[x] \in Nat
    PROVE  Total(v, P \union S) = Total(v, P) + Total(v, S)
  <1> DEFINE F == {s \in SUBSET S : Total(v, P \union s) = Total(v, P) + Total(v, s)}
  <1>1. {} \in F
    <2>1. P \union {} = P
      OBVIOUS
    <2>2. Total(v, P) \in Nat
      BY TotalType
    <2>. QED BY <2>1, <2>2, TotalEmpty
  <1>2. ASSUME NEW s \in SUBSET S, IsFiniteSet(s), s # {}, \A x \in s : s \ {x} \in F
        PROVE  s \in F
    <2>1. PICK x \in s : TRUE
      BY <1>2
    <2>2. Total(v, s) = v[x] + Total(v, s \ {x})
      BY <1>2, TotalRemove
    <2>3. Total(v, P \union s) = v[x] + Total(v, (P \union s) \ {x})
      <3> DEFINE U == P \union s
      <3>1. IsFiniteSet(U) /\ x \in U /\ \A y \in U : v[y] \in Nat
        BY <1>2, FS_Union
      <3> HIDE DEF U
      <3>2. Total(v, U) = v[x] + Total(v, U \ {x})
        BY <3>1, TotalRemove
      <3>. QED BY <3>2 DEF U
    <2>4. (P \union s) \ {x} = P \union (s \ {x})
      BY <2>1
    <2>5. Total(v, P \union (s \ {x})) = Total(v, P) + Total(v, s \ {x})
      BY <1>2
    <2>6. v[x] \in Nat /\ Total(v, P) \in Nat /\ Total(v, s \ {x}) \in Nat
      <3>1. IsFiniteSet(s \ {x}) /\ \A y \in s \ {x} : v[y] \in Nat
        BY <1>2, FS_Subset
      <3>2. Total(v, s \ {x}) \in Nat
        BY <3>1, TotalType
      <3>3. Total(v, P) \in Nat
        BY TotalType
      <3>. QED BY <3>2, <3>3
    <2>. QED BY <2>2, <2>3, <2>4, <2>5, <2>6
  <1>3. S \in F
    <2> HIDE DEF F
    <2>. QED BY <1>1, <1>2, Thinning
  <1>. QED
    BY <1>3

\* Adding up part by part is adding up everything.
LEMMA TotalOfParts ==
    ASSUME NEW I, IsFiniteSet(I), NEW A, NEW v, NEW w,
           \A i \in I : IsFiniteSet(A[i]) /\ w[i] = Total(v, A[i]),
           \A i, j \in I : i # j => A[i] \intersect A[j] = {},
           \A i \in I : \A x \in A[i] : v[x] \in Nat
    PROVE  /\ IsFiniteSet(UNION {A[i] : i \in I})
           /\ Total(w, I) = Total(v, UNION {A[i] : i \in I})
  <1> DEFINE U(s) == UNION {A[i] : i \in s}
             F == {s \in SUBSET I : IsFiniteSet(U(s)) /\ Total(w, s) = Total(v, U(s))}
  <1>1. {} \in F
    <2>1. U({}) = {}
      OBVIOUS
    <2>. QED BY <2>1, TotalEmpty, FS_EmptySet
  <1>2. \A i \in I : w[i] \in Nat
    BY TotalType
  <1>3. ASSUME NEW s \in SUBSET I, IsFiniteSet(s), s # {}, \A i \in s : s \ {i} \in F
        PROVE  s \in F
    <2>1. PICK i \in s : TRUE
      BY <1>3
    <2> DEFINE t == s \ {i}
    <2>2. Total(w, s) = w[i] + Total(w, t)
      <3>1. \A x \in s : w[x] \in Nat
        BY <1>2
      <3>2. \A x \in s : Total(w, s) = w[x] + Total(w, s \ {x})
        BY <1>3, <3>1, TotalRemove
      <3>. QED BY <2>1, <3>2
    <2>3. IsFiniteSet(U(t)) /\ Total(w, t) = Total(v, U(t))
      BY <1>3
    <2>4. U(s) = U(t) \union A[i] /\ U(t) \intersect A[i] = {}
      BY <2>1
    <2>5. IsFiniteSet(A[i]) /\ w[i] = Total(v, A[i])
      OBVIOUS
    <2>6. \A x \in U(t) \union A[i] : v[x] \in Nat
      OBVIOUS
    <2> HIDE DEF U, t
    <2>7. IsFiniteSet(U(t) \union A[i])
      BY <2>3, <2>5, FS_Union
    <2>8. Total(v, U(t) \union A[i]) = Total(v, U(t)) + Total(v, A[i])
      BY <2>3, <2>4, <2>5, <2>6, TotalUnion
    <2>9. Total(v, U(t)) \in Nat /\ Total(v, A[i]) \in Nat
      BY <2>3, <2>5, <2>6, TotalType
    <2>10. Total(w, s) = Total(v, U(s)) /\ IsFiniteSet(U(s))
      BY <2>2, <2>3, <2>4, <2>5, <2>7, <2>8, <2>9
    <2>. QED BY <2>10
  <1>4. I \in F
    <2> HIDE DEF F
    <2>. QED BY <1>1, <1>3, Thinning
  <1>. QED
    BY <1>4

\* Counting is adding up ones.
LEMMA TotalOfOnes ==
    ASSUME NEW S, IsFiniteSet(S), NEW v, \A x \in S : v[x] = 1
    PROVE  Total(v, S) = Cardinality(S)
  <1> DEFINE F == {s \in SUBSET S : Total(v, s) = Cardinality(s)}
  <1>1. {} \in F
    BY TotalEmpty, FS_EmptySet
  <1>2. ASSUME NEW s \in SUBSET S, IsFiniteSet(s), s # {}, \A x \in s : s \ {x} \in F
        PROVE  s \in F
    <2>1. PICK x \in s : Total(v, s) = v[x] + Total(v, s \ {x})
      BY <1>2, TotalUnfolds
    <2>2. Cardinality(s \ {x}) = Cardinality(s) - 1 /\ Cardinality(s) \in Nat
      BY <1>2, FS_RemoveElement, FS_CardinalityType
    <2>3. Total(v, s \ {x}) = Cardinality(s \ {x}) /\ v[x] = 1
      BY <1>2
    <2>. QED BY <2>1, <2>2, <2>3
  <1>3. S \in F
    <2> HIDE DEF F
    <2>. QED BY <1>1, <1>2, Thinning
  <1>. QED
    BY <1>3

\* Disjoint sets counted one by one make the count of their union.
LEMMA CountOfParts ==
    ASSUME NEW I, IsFiniteSet(I), NEW A, NEW w,
           \A i \in I : IsFiniteSet(A[i]) /\ w[i] = Cardinality(A[i]),
           \A i, j \in I : i # j => A[i] \intersect A[j] = {}
    PROVE  Total(w, I) = Cardinality(UNION {A[i] : i \in I})
  <1> DEFINE U == UNION {A[i] : i \in I}
             v == [x \in U |-> 1]
  <1>1. \A i \in I : \A x \in A[i] : x \in U /\ v[x] = 1
    OBVIOUS
  <1>2. \A i \in I : w[i] = Total(v, A[i])
    <2> HIDE DEF v
    <2>. QED BY <1>1, TotalOfOnes
  <1>3. \A x \in U : v[x] = 1
    OBVIOUS
  <1>4. IsFiniteSet(U) /\ Total(w, I) = Total(v, U)
    <2> HIDE DEF v
    <2>. QED BY <1>1, <1>2, TotalOfParts
  <1>. QED
    BY <1>3, <1>4, TotalOfOnes

-----------------------------------------------------------------------------
(***************************************************************************)
(* Sequences laid end to end.  off[k] is where the k-th of them ends.      *)
(***************************************************************************)
LaidOut(off, seqs, all) ==
    /\ Len(seqs) \in Nat
    /\ off \in [0..Len(seqs) -> Nat]
    /\ off[0] = 0
    /\ Len(all) = off[Len(seqs)]
    /\ \A k \in 1..Len(seqs) : /\ Len(seqs[k]) \in Nat
                               /\ off[k] = off[k - 1] + Len(seqs[k])
                               /\ \A j \in 1..Len(seqs[k]) : all[off[k - 1] + j] = seqs[k][j]

\* fl[i] is the first i sequences laid end to end: what FlattenSeq unfolds to.
IsFlat(fl, seqs, m) ==
    fl = [i \in 1..m |-> IF i = 1 THEN seqs[i] ELSE fl[i - 1] \o seqs[i]]

\* The recursion has a solution.
LEMMA FlatExists == \A m \in Nat : \A seqs : \E fl : IsFlat(fl, seqs, m)
  <1> DEFINE N == {m \in Nat : \A seqs : \E fl : IsFlat(fl, seqs, m)}
  <1>1. 0 \in N
    <2> SUFFICES ASSUME NEW seqs PROVE \E fl : IsFlat(fl, seqs, 0)
      OBVIOUS
    <2>1. 1..0 = {}
      OBVIOUS
    <2>2. IsFlat([i \in 1..0 |-> 0], seqs, 0)
      BY <2>1 DEF IsFlat
    <2>. QED BY <2>2
  <1>2. ASSUME NEW m \in Nat, m \in N PROVE m + 1 \in N
    <2>1. SUFFICES ASSUME NEW seqs PROVE \E fl : IsFlat(fl, seqs, m + 1)
      OBVIOUS
    <2>2. PICK fl : IsFlat(fl, seqs, m)
      BY <1>2
    <2> DEFINE next == [i \in 1..(m + 1) |-> IF i = 1 THEN seqs[i] ELSE fl[i - 1] \o seqs[i]]
    <2>3. ASSUME NEW i \in 1..m PROVE next[i] = fl[i]
      <3>1. fl[i] = IF i = 1 THEN seqs[i] ELSE fl[i - 1] \o seqs[i]
        BY <2>2 DEF IsFlat
      <3>2. i \in 1..(m + 1)
        OBVIOUS
      <3>. QED BY <3>1, <3>2
    <2>4. next = [i \in 1..(m + 1) |-> IF i = 1 THEN seqs[i] ELSE next[i - 1] \o seqs[i]]
      <3>1. \A i \in 1..(m + 1) : i # 1 => i - 1 \in 1..m
        OBVIOUS
      <3>. QED BY <2>3, <3>1
    <2> HIDE DEF next
    <2>. QED BY <2>4 DEF IsFlat
  <1>. QED
    <2> HIDE DEF N
    <2>1. \A m \in Nat : m \in N
      BY <1>1, <1>2, Counting
    <2>. QED BY <2>1 DEF N

\* What fl[m] is when fl has come that far.
Base(fl, m) == IF m = 1 THEN 0 ELSE Len(fl[m - 1])

Flat(fl, seqs, A, m) ==
    /\ fl[m] \in Seq(A)
    /\ Len(fl[m]) = Base(fl, m) + Len(seqs[m])
    /\ \A k \in 1..m : /\ Len(fl[k]) <= Len(fl[m])
                       /\ \A x \in 1..Len(fl[k]) : fl[m][x] = fl[k][x]
    /\ \A j \in 1..Len(seqs[m]) : fl[m][Base(fl, m) + j] = seqs[m][j]

\* One sequence is appended to another.
LEMMA Appended ==
    ASSUME NEW A, NEW s \in Seq(A), NEW t \in Seq(A)
    PROVE  /\ s \o t \in Seq(A)
           /\ Len(s \o t) = Len(s) + Len(t)
           /\ \A x \in 1..Len(s) : (s \o t)[x] = s[x]
           /\ \A j \in 1..Len(t) : (s \o t)[Len(s) + j] = t[j]
  <1>1. s \o t \in Seq(A) /\ Len(s \o t) = Len(s) + Len(t)
    OBVIOUS
  <1>2. Len(s) \in Nat /\ Len(t) \in Nat
    OBVIOUS
  <1>3. ASSUME NEW x \in 1..Len(s) PROVE (s \o t)[x] = s[x]
    BY <1>1, <1>2
  <1>4. ASSUME NEW j \in 1..Len(t) PROVE (s \o t)[Len(s) + j] = t[j]
    BY <1>1, <1>2
  <1>. QED
    BY <1>1, <1>3, <1>4

\* fl has come as far as its domain goes.
LEMMA FlatFacts ==
    ASSUME NEW A, NEW seqs \in Seq(Seq(A)), NEW fl, IsFlat(fl, seqs, Len(seqs))
    PROVE  \A m \in 1..Len(seqs) : Flat(fl, seqs, A, m)
  <1> DEFINE N == {m \in Nat : \A i \in 1..m : i <= Len(seqs) => Flat(fl, seqs, A, i)}
  <1>0. Len(seqs) \in Nat
    OBVIOUS
  <1>1. 0 \in N
    <2>1. 1..0 = {}
      OBVIOUS
    <2>. QED BY <2>1
  <1>2. \A m \in 1..Len(seqs) : /\ fl[m] = IF m = 1 THEN seqs[m] ELSE fl[m - 1] \o seqs[m]
                                /\ seqs[m] \in Seq(A)
    <2>1. \A m \in 1..Len(seqs) : seqs[m] \in Seq(A)
      OBVIOUS
    <2>. QED BY <2>1 DEF IsFlat
  <1>3. ASSUME NEW m \in Nat, m \in N PROVE m + 1 \in N
    <2>1. SUFFICES ASSUME m + 1 <= Len(seqs) PROVE Flat(fl, seqs, A, m + 1)
      <3>1. \A i \in 1..(m + 1) : i \in 1..m \/ i = m + 1
        OBVIOUS
      <3>2. \A i \in 1..m : i <= Len(seqs) => Flat(fl, seqs, A, i)
        BY <1>3
      <3>3. ASSUME NEW i \in 1..(m + 1), i <= Len(seqs) PROVE Flat(fl, seqs, A, i)
        <4>1. CASE i \in 1..m
          BY <3>2, <3>3, <4>1
        <4>2. CASE i = m + 1
          BY <3>1, <3>3, <4>2
        <4>. QED BY <3>1, <4>1, <4>2
      <3>. QED BY <3>3
    <2>2. m + 1 \in 1..Len(seqs)
      BY <1>0, <2>1
    <2>3. CASE m = 0
      <3>1. fl[1] = seqs[1] /\ seqs[1] \in Seq(A)
        BY <1>2, <2>2, <2>3
      <3>2. Len(seqs[1]) \in Nat /\ 1..1 = {1}
        BY <3>1
      <3>3. Flat(fl, seqs, A, 1)
        BY <3>1, <3>2 DEF Flat, Base
      <3>. QED BY <2>3, <3>3
    <2>4. CASE m # 0
      <3>1. m \in 1..m /\ m \in 1..Len(seqs) /\ m + 1 # 1 /\ (m + 1) - 1 = m
        BY <1>0, <2>1, <2>4
      <3>2. ASSUME NEW k \in 1..m PROVE Flat(fl, seqs, A, k)
        BY <1>0, <1>3, <2>1
      <3>3. fl[m + 1] = fl[m] \o seqs[m + 1] /\ seqs[m + 1] \in Seq(A)
        BY <1>2, <2>2, <3>1
      <3>4. Base(fl, m + 1) = Len(fl[m])
        BY <3>1 DEF Base
      <3>5. \A k \in 1..m : fl[k] \in Seq(A) /\ Len(fl[k]) \in Nat
        BY <3>2 DEF Flat
      <3>6. /\ fl[m + 1] \in Seq(A)
            /\ Len(fl[m + 1]) = Len(fl[m]) + Len(seqs[m + 1])
            /\ \A x \in 1..Len(fl[m]) : fl[m + 1][x] = fl[m][x]
            /\ \A j \in 1..Len(seqs[m + 1]) : fl[m + 1][Len(fl[m]) + j] = seqs[m + 1][j]
        <4> DEFINE s == fl[m]
                   t == seqs[m + 1]
        <4>1. s \in Seq(A) /\ t \in Seq(A)
          BY <3>1, <3>3, <3>5
        <4> HIDE DEF s, t
        <4>2. /\ s \o t \in Seq(A)
              /\ Len(s \o t) = Len(s) + Len(t)
              /\ \A x \in 1..Len(s) : (s \o t)[x] = s[x]
              /\ \A j \in 1..Len(t) : (s \o t)[Len(s) + j] = t[j]
          BY <4>1, Appended
        <4>. QED BY <3>3, <4>2 DEF s, t
      <3>7. Len(fl[m]) \in Nat /\ Len(seqs[m + 1]) \in Nat
        BY <3>1, <3>3, <3>5
      <3>8. ASSUME NEW k \in 1..(m + 1)
            PROVE  /\ Len(fl[k]) <= Len(fl[m + 1])
                   /\ \A x \in 1..Len(fl[k]) : fl[m + 1][x] = fl[k][x]
        <4>1. CASE k = m + 1
          <5>1. Len(fl[m + 1]) <= Len(fl[m + 1])
            BY <3>6, <3>7
          <5>. QED BY <4>1, <5>1
        <4>2. CASE k \in 1..m
          <5>1. Len(fl[k]) <= Len(fl[m]) /\ \A x \in 1..Len(fl[k]) : fl[m][x] = fl[k][x]
            BY <3>1, <3>2, <4>2 DEF Flat
          <5>2. Len(fl[k]) \in Nat
            BY <3>5, <4>2
          <5>3. Len(fl[k]) <= Len(fl[m + 1])
            <6> DEFINE a == Len(fl[k])
                       b == Len(fl[m])
                       c == Len(fl[m + 1])
                       d == Len(seqs[m + 1])
            <6>1. a \in Nat /\ b \in Nat /\ d \in Nat /\ a <= b /\ c = b + d
              BY <3>6, <3>7, <5>1, <5>2
            <6> HIDE DEF a, b, c, d
            <6>2. a <= c
              BY <6>1
            <6>. QED BY <6>2 DEF a, c
          <5>4. ASSUME NEW x \in 1..Len(fl[k]) PROVE fl[m + 1][x] = fl[k][x]
            <6>1. x \in 1..Len(fl[m])
              BY <3>7, <5>1, <5>2
            <6>. QED BY <3>6, <5>1, <6>1
          <5>. QED BY <5>3, <5>4
        <4>. QED BY <4>1, <4>2
      <3>. QED BY <3>4, <3>6, <3>8 DEF Flat
    <2>. QED BY <2>3, <2>4
  <1>4. Len(seqs) \in N
    <2> HIDE DEF N
    <2>. QED BY <1>0, <1>1, <1>3, Counting
  <1>. QED
    BY <1>0, <1>4

\* FlattenSeq lays the sequences end to end.
LEMMA FlattenLaysOut ==
    ASSUME NEW A, NEW seqs \in Seq(Seq(A))
    PROVE  FlattenSeq(seqs) \in Seq(A) /\ \E off : LaidOut(off, seqs, FlattenSeq(seqs))
  <1> DEFINE n == Len(seqs)
  <1>1. n \in Nat
    OBVIOUS
  <1>2. CASE n = 0
    <2>1. FlattenSeq(seqs) = seqs /\ seqs = <<>>
      BY <1>2 DEF FlattenSeq
    <2>2. LaidOut([k \in 0..0 |-> 0], seqs, seqs)
      <3>1. 1..0 = {}
        OBVIOUS
      <3>. QED BY <1>1, <1>2, <3>1 DEF LaidOut
    <2>. QED BY <2>1, <2>2
  <1>3. CASE n # 0
    <2>1. PICK fl : IsFlat(fl, seqs, n) /\ FlattenSeq(seqs) = fl[n]
      <3> DEFINE Q(f) == f = [i \in 1..n |-> IF i = 1 THEN seqs[i] ELSE f[i - 1] \o seqs[i]]
      <3>1. FlattenSeq(seqs) = (CHOOSE f : Q(f))[n]
        BY <1>3 DEF FlattenSeq
      <3>2. \A f : Q(f) <=> IsFlat(f, seqs, n)
        BY DEF IsFlat
      <3> HIDE DEF Q, n
      <3>3. \E f : Q(f)
        BY <1>1, <3>2, FlatExists
      <3>4. Q(CHOOSE f : Q(f))
        BY <3>3
      <3>. QED BY <3>1, <3>2, <3>4
    <2> DEFINE all == fl[n]
               off == [k \in 0..n |-> IF k = 0 THEN 0 ELSE Len(fl[k])]
    <2>2. \A m \in 1..n : Flat(fl, seqs, A, m)
      BY <2>1, FlatFacts
    <2>3. n \in 1..n
      BY <1>1, <1>3
    <2>4. off \in [0..n -> Nat] /\ off[0] = 0 /\ Len(all) = off[n]
      <3>1. \A m \in 1..n : Len(fl[m]) \in Nat
        BY <2>2 DEF Flat
      <3>. QED BY <1>3, <2>3, <3>1
    <2>5. ASSUME NEW k \in 1..n
          PROVE  /\ off[k] = off[k - 1] + Len(seqs[k])
                 /\ \A j \in 1..Len(seqs[k]) : all[off[k - 1] + j] = seqs[k][j]
      <3>1. k \in 0..n /\ k - 1 \in 0..n /\ k # 0 /\ (k - 1 = 0 <=> k = 1)
        BY <1>1
      <3>2. off[k] = Len(fl[k]) /\ off[k - 1] = Base(fl, k)
        BY <3>1 DEF Base
      <3>5. off[k] \in Nat /\ off[k - 1] \in Nat
        BY <2>4, <3>1
      <3>6. seqs[k] \in Seq(A) /\ Len(seqs[k]) \in Nat
        OBVIOUS
      <3> HIDE DEF off, n
      <3>3. off[k] = off[k - 1] + Len(seqs[k])
        BY <2>2, <3>2 DEF Flat
      <3>4. ASSUME NEW j \in 1..Len(seqs[k]) PROVE all[off[k - 1] + j] = seqs[k][j]
        <4>1. fl[k][off[k - 1] + j] = seqs[k][j]
          BY <2>2, <3>2 DEF Flat
        <4>2. off[k - 1] + j \in 1..Len(fl[k])
          BY <3>2, <3>3, <3>5, <3>6
        <4>3. all[off[k - 1] + j] = fl[k][off[k - 1] + j]
          BY <2>2, <2>3, <4>2 DEF Flat
        <4>. QED BY <4>1, <4>3
      <3>. QED BY <3>3, <3>4
    <2>6. LaidOut(off, seqs, all)
      <3>1. \A k \in 1..n : /\ off[k] = off[k - 1] + Len(seqs[k])
                            /\ \A j \in 1..Len(seqs[k]) : all[off[k - 1] + j] = seqs[k][j]
        <4> HIDE DEF off, all, n
        <4>. QED BY <2>5
      <3> HIDE DEF off, all
      <3>2. \A k \in 1..n : Len(seqs[k]) \in Nat
        OBVIOUS
      <3>. QED BY <1>1, <2>4, <3>1, <3>2 DEF LaidOut
    <2>7. all \in Seq(A) /\ FlattenSeq(seqs) = all
      BY <2>1, <2>2, <2>3 DEF Flat
    <2> HIDE DEF all, off
    <2>. QED BY <2>6, <2>7
  <1>. QED
    BY <1>2, <1>3

\* The ends come one after the other.
LEMMA EndsRise ==
    ASSUME NEW off, NEW seqs, NEW all, LaidOut(off, seqs, all)
    PROVE  \A m \in 0..Len(seqs) : \A k \in 0..m : off[k] <= off[m]
  <1> DEFINE N == {m \in Nat : m <= Len(seqs) => \A k \in 0..m : off[k] <= off[m]}
  <1>1. Len(seqs) \in Nat /\ \A k \in 0..Len(seqs) : off[k] \in Nat
    BY DEF LaidOut
  <1>2. 0 \in N
    <2>1. 0..0 = {0}
      OBVIOUS
    <2>. QED BY <1>1, <2>1
  <1>3. ASSUME NEW m \in Nat, m \in N PROVE m + 1 \in N
    <2>1. SUFFICES ASSUME m + 1 <= Len(seqs), NEW k \in 0..(m + 1) PROVE off[k] <= off[m + 1]
      OBVIOUS
    <2>2. m + 1 \in 1..Len(seqs) /\ m \in 0..Len(seqs) /\ (m + 1) - 1 = m
      BY <1>1, <2>1
    <2>3. off[m + 1] = off[m] + Len(seqs[m + 1]) /\ Len(seqs[m + 1]) \in Nat
      BY <2>2 DEF LaidOut
    <2>4. off[m] <= off[m + 1] /\ off[m] \in Nat /\ off[m + 1] \in Nat
      BY <1>1, <2>2, <2>3
    <2>5. k = m + 1 \/ k \in 0..m
      OBVIOUS
    <2>6. k \in 0..Len(seqs)
      BY <1>1, <2>1
    <2>. QED BY <1>1, <1>3, <2>2, <2>4, <2>5, <2>6
  <1>4. \A m \in Nat : m \in N
    <2> HIDE DEF N
    <2>. QED BY <1>2, <1>3, Counting
  <1>. QED
    BY <1>1, <1>4

\* Every place belongs to one of the sequences.
LEMMA EveryPlaceIsLaid ==
    ASSUME NEW off, NEW seqs, NEW all, LaidOut(off, seqs, all)
    PROVE  \A x \in 1..off[Len(seqs)] :
              \E k \in 1..Len(seqs) : \E j \in 1..Len(seqs[k]) : x = off[k - 1] + j
  <1> SUFFICES ASSUME NEW x \in 1..off[Len(seqs)]
               PROVE  \E k \in 1..Len(seqs) : \E j \in 1..Len(seqs[k]) : x = off[k - 1] + j
    OBVIOUS
  <1> DEFINE N == {m \in Nat : m <= Len(seqs) /\ x <= off[m] =>
                      \E k \in 1..Len(seqs) : \E j \in 1..Len(seqs[k]) : x = off[k - 1] + j}
  <1>1. Len(seqs) \in Nat /\ (\A k \in 0..Len(seqs) : off[k] \in Nat) /\ off[0] = 0
    BY DEF LaidOut
  <1>2. x \in Nat /\ x >= 1
    BY <1>1
  <1>3. 0 \in N
    BY <1>1, <1>2
  <1>4. ASSUME NEW m \in Nat, m \in N PROVE m + 1 \in N
    <2>1. SUFFICES ASSUME m + 1 <= Len(seqs), x <= off[m + 1], ~(x <= off[m])
                   PROVE  \E k \in 1..Len(seqs) : \E j \in 1..Len(seqs[k]) : x = off[k - 1] + j
      BY <1>1, <1>4
    <2>2. m + 1 \in 1..Len(seqs) /\ m \in 0..Len(seqs) /\ (m + 1) - 1 = m
      BY <1>1, <2>1
    <2>3. off[m + 1] = off[m] + Len(seqs[m + 1]) /\ Len(seqs[m + 1]) \in Nat
      BY <2>2 DEF LaidOut
    <2>4. off[m] \in Nat
      BY <1>1, <2>2
    <2>5. x - off[m] \in 1..Len(seqs[m + 1]) /\ x = off[m] + (x - off[m])
      BY <1>2, <2>1, <2>3, <2>4
    <2>. QED BY <2>2, <2>5
  <1>5. Len(seqs) \in N
    <2> HIDE DEF N
    <2>. QED BY <1>1, <1>3, <1>4, Counting
  <1>. QED
    BY <1>1, <1>2, <1>5

\* The same sequences, or others as long with the same elements, laid end to
\* end make the same sequence.
LEMMA LayoutUnique ==
    ASSUME NEW A, NEW all \in Seq(A), NEW ell \in Seq(A), NEW seqs,
           NEW off, LaidOut(off, seqs, all), NEW eff, LaidOut(eff, seqs, ell)
    PROVE  all = ell
  <1> DEFINE N == {m \in Nat : m <= Len(seqs) => off[m] = eff[m]}
  <1>1. Len(seqs) \in Nat
    BY DEF LaidOut
  <1>2. 0 \in N
    BY DEF LaidOut
  <1>3. ASSUME NEW m \in Nat, m \in N PROVE m + 1 \in N
    <2>1. SUFFICES ASSUME m + 1 <= Len(seqs) PROVE off[m + 1] = eff[m + 1]
      OBVIOUS
    <2>2. m + 1 \in 1..Len(seqs) /\ (m + 1) - 1 = m
      BY <1>1, <2>1
    <2>3. off[m] = eff[m]
      BY <1>1, <1>3, <2>1
    <2>. QED BY <2>2, <2>3 DEF LaidOut
  <1>4. \A m \in Nat : m \in N
    <2> HIDE DEF N
    <2>. QED BY <1>2, <1>3, Counting
  <1>5. \A m \in 0..Len(seqs) : off[m] = eff[m]
    BY <1>4
  <1>6. Len(all) = Len(ell) /\ Len(all) = off[Len(seqs)]
    BY <1>1, <1>5 DEF LaidOut
  <1>7. ASSUME NEW x \in 1..Len(all) PROVE all[x] = ell[x]
    <2>1. x \in 1..off[Len(seqs)]
      BY <1>6
    <2>5. PICK k \in 1..Len(seqs) : \E j \in 1..Len(seqs[k]) : x = off[k - 1] + j
      BY <2>1, EveryPlaceIsLaid
    <2>6. PICK j \in 1..Len(seqs[k]) : x = off[k - 1] + j
      BY <2>5
    <2>2. all[off[k - 1] + j] = seqs[k][j]
      BY DEF LaidOut
    <2>3. ell[eff[k - 1] + j] = seqs[k][j]
      BY DEF LaidOut
    <2>4. off[k - 1] = eff[k - 1]
      BY <1>1, <1>5
    <2>. QED BY <2>2, <2>3, <2>4, <2>6
  <1>8. DOMAIN all = 1..Len(all) /\ DOMAIN ell = 1..Len(ell)
    OBVIOUS
  <1>9. all = [x \in DOMAIN all |-> all[x]] /\ ell = [x \in DOMAIN ell |-> ell[x]]
    OBVIOUS
  <1>. QED
    BY <1>6, <1>7, <1>8, <1>9

-----------------------------------------------------------------------------
(***************************************************************************)
(* The invariant: what each variable holds is what the code computes from  *)
(* the ones before it, for as far as the request has come.                 *)
(***************************************************************************)
LoadErrors == {"PDF_INVALID", "PDF_EMPTY"}

PageSet == [file_index : Nat, page_index : Nat, load_error : LoadErrors \union {None}]

ResultSet == UNION {Outcomes(p) : p \in PageSet}

RowSet == {Row(fi, rs) : fi \in Nat, rs \in Seq(ResultSet)}

IInv ==
    /\ step \in {"expand", "run", "record", "done"}
    /\ uploads \in Seq(RawUploads)
    /\ pages = IF step = "expand" THEN <<>> ELSE ExpandAll(uploads)
    /\ results \in Seq(ResultSet)
    /\ Len(results) <= Len(pages)
    /\ \A i \in 1..Len(results) : results[i] \in Outcomes(pages[i])
    /\ step \in {"record", "done"} =>
          /\ Len(results) = Len(pages)
          /\ files = [i \in DOMAIN uploads |-> FileEntry(i - 1, results)]
    /\ rows \in Seq(RowSet)
    /\ Len(rows) <= Len(uploads)
    /\ \A i \in 1..Len(rows) : rows[i] = Row(i - 1, results)
    /\ step \notin {"record", "done"} => rows = <<>>
    /\ step = "done" =>
          /\ Len(rows) = Len(uploads)
          /\ usage = AggregateUsage(results)
          /\ rollup = Rollup(rows)

\* What Expand makes of one upload, as the abstract module counts it.
LEMMA ExpandFacts ==
    ASSUME NEW up \in RawUploads, NEW fi \in Nat
    PROVE  LET abstract == AsUpload(up) IN
           /\ Expand(fi, up) \in Seq(PageSet)
           /\ Len(Expand(fi, up)) = PageCount(abstract)
           /\ PageCount(abstract) \in 1..MaxPages
           /\ \A j \in 1..PageCount(abstract) :
                 /\ Expand(fi, up)[j].file_index = fi
                 /\ Expand(fi, up)[j].page_index = j - 1
                 /\ Expand(fi, up)[j].load_error # None <=> LoadError(abstract)
  <1>1. up \in RawUpload /\ MaxPages \in Nat /\ MaxPages # 0
    BY RawUploadsAssumption, MaxPagesAssumption
  <1>2. up.document \in Nat \/ up.document = Unreadable
    BY <1>1 DEF RawUpload
  <1>3. \A pi \in Nat : \A e \in LoadErrors \union {None} :
            /\ Page(fi, pi, e) \in PageSet
            /\ Page(fi, pi, e).file_index = fi
            /\ Page(fi, pi, e).page_index = pi
            /\ Page(fi, pi, e).load_error = e
    BY DEF Page, PageSet
  <1>4. /\ None \notin LoadErrors
        /\ {"PDF_INVALID", "PDF_EMPTY"} \subseteq LoadErrors
    BY DEF LoadErrors, None
  <1>5. ASSUME NEW e \in LoadErrors \union {None}, Expand(fi, up) = <<Page(fi, 0, e)>>,
               PageCount(AsUpload(up)) = 1, LoadError(AsUpload(up)) <=> e # None
        PROVE  /\ Expand(fi, up) \in Seq(PageSet)
               /\ Len(Expand(fi, up)) = PageCount(AsUpload(up))
               /\ PageCount(AsUpload(up)) \in 1..MaxPages
               /\ \A j \in 1..PageCount(AsUpload(up)) :
                     /\ Expand(fi, up)[j].file_index = fi
                     /\ Expand(fi, up)[j].page_index = j - 1
                     /\ Expand(fi, up)[j].load_error # None <=> LoadError(AsUpload(up))
    <2> DEFINE p == Page(fi, 0, e)
    <2>1. p \in PageSet /\ p.file_index = fi /\ p.page_index = 0 /\ p.load_error = e
      BY <1>3
    <2> HIDE DEF p
    <2>2. /\ <<p>> \in Seq(PageSet)
          /\ Len(<<p>>) = 1
          /\ \A j \in 1..1 : j = 1 /\ <<p>>[j] = p
      BY <2>1
    <2>3. Expand(fi, up) = <<p>>
      BY <1>5 DEF p
    <2>4. 1 \in 1..MaxPages
      BY <1>1
    <2>. QED BY <1>5, <2>1, <2>2, <2>3, <2>4
  <1>6. CASE ~IsPdf(up)
    <2>1. AsUpload(up) = [kind |-> "image", pages |-> 1]
      BY <1>6 DEF AsUpload
    <2>2. PageCount(AsUpload(up)) = 1 /\ ~LoadError(AsUpload(up))
      BY <2>1 DEF PageCount, LoadError
    <2>3. Expand(fi, up) = <<Page(fi, 0, None)>>
      BY <1>6 DEF Expand
    <2>. QED BY <1>5, <2>2, <2>3
  <1>7. CASE IsPdf(up) /\ up.document = Unreadable
    <2>1. AsUpload(up) = [kind |-> "broken_pdf", pages |-> 0]
      BY <1>7 DEF AsUpload
    <2>2. PageCount(AsUpload(up)) = 1 /\ LoadError(AsUpload(up))
      BY <2>1 DEF PageCount, LoadError
    <2>3. Expand(fi, up) = <<Page(fi, 0, "PDF_INVALID")>>
      BY <1>7 DEF Expand
    <2>. QED BY <1>4, <1>5, <2>2, <2>3
  <1>8. CASE IsPdf(up) /\ up.document # Unreadable
    <2>1. AsUpload(up) = [kind |-> "pdf", pages |-> up.document] /\ up.document \in Nat
      BY <1>2, <1>8 DEF AsUpload
    <2>2. CASE up.document = 0
      <3>1. PageCount(AsUpload(up)) = 1 /\ LoadError(AsUpload(up))
        BY <2>1, <2>2 DEF PageCount, LoadError
      <3>2. Rendered(up) = 0
        BY <1>1, <2>2 DEF Rendered
      <3>3. Expand(fi, up) = <<Page(fi, 0, "PDF_EMPTY")>>
        BY <1>8, <3>2 DEF Expand
      <3>. QED BY <1>4, <1>5, <3>1, <3>3
    <2>3. CASE up.document # 0
      <3> DEFINE d == up.document
                 m == Rendered(up)
      <3>1. PageCount(AsUpload(up)) = (IF d < MaxPages THEN d ELSE MaxPages)
            /\ ~LoadError(AsUpload(up))
        BY <2>1, <2>3 DEF PageCount, LoadError
      <3>2. m = IF d > MaxPages THEN MaxPages ELSE d
        BY DEF Rendered
      <3> HIDE DEF d, m
      <3>3. d \in Nat /\ d # 0
        BY <2>1, <2>3 DEF d
      <3>4. PageCount(AsUpload(up)) = m /\ m \in 1..MaxPages
        BY <1>1, <3>1, <3>2, <3>3
      <3>5. Expand(fi, up) = [i \in 1..m |-> Page(fi, i - 1, None)]
        BY <1>1, <1>8, <3>4 DEF Expand, m
      <3>6. \A i \in 1..m : i - 1 \in Nat
        BY <3>4
      <3>7. \A i \in 1..m : Page(fi, i - 1, None) \in PageSet
        BY <1>3, <3>6
      <3>8. Expand(fi, up) \in Seq(PageSet) /\ Len(Expand(fi, up)) = m
        BY <3>4, <3>5, <3>7
      <3>9. \A j \in 1..m : /\ Expand(fi, up)[j].file_index = fi
                            /\ Expand(fi, up)[j].page_index = j - 1
                            /\ Expand(fi, up)[j].load_error = None
        BY <1>3, <3>5, <3>6
      <3>. QED BY <3>1, <3>4, <3>8, <3>9
    <2>. QED BY <2>2, <2>3
  <1>. QED
    BY <1>6, <1>7, <1>8

\* A page result is about the page it was made from; it has tokens and a
\* provider if it is a success, and a reason if it is not.
LEMMA ResultFacts ==
    ASSUME NEW p \in PageSet, NEW r \in Outcomes(p)
    PROVE  /\ r.file_index = p.file_index
           /\ r.page_index = p.page_index
           /\ r.ok \in BOOLEAN
           /\ r.out.tokens \in Nat
           /\ r.ok => r.out.provider \in Providers /\ r.out.provider # None
           /\ ~r.ok => r.out.provider = None /\ r.out.tokens = 0
  <1>1. ASSUME NEW e, r = Failed(p, e)
        PROVE  /\ r.file_index = p.file_index
               /\ r.page_index = p.page_index
               /\ r.ok = FALSE
               /\ r.out.provider = None
               /\ r.out.tokens = 0
    BY <1>1 DEF Failed, NoOut
  <1>2. ASSUME NEW out \in Outs, r = Done(p, out, out.tokens)
        PROVE  /\ r.file_index = p.file_index
               /\ r.page_index = p.page_index
               /\ r.ok = TRUE
               /\ r.out.provider \in Providers
               /\ r.out.provider # None
               /\ r.out.tokens \in Nat
    <2>1. out.provider \in Providers /\ out.tokens \in Nat
      BY BoundsAssumption DEF Outs
    <2>2. out.provider # None
      BY <2>1, ProvidersAssumption
    <2>. QED BY <1>2, <2>1, <2>2 DEF Done
  <1>3. CASE \E e : r = Failed(p, e)
    <2>1. PICK e : r = Failed(p, e)
      BY <1>3
    <2>2. /\ r.file_index = p.file_index
          /\ r.page_index = p.page_index
          /\ r.ok = FALSE
          /\ r.out.provider = None
          /\ r.out.tokens = 0
      BY <1>1, <2>1, Zenon
    <2>3. r.out.tokens \in Nat
      BY <2>2
    <2>. QED BY <2>2, <2>3, Zenon
  <1>4. CASE \E out \in Outs : r = Done(p, out, out.tokens)
    <2>1. PICK out \in Outs : r = Done(p, out, out.tokens)
      BY <1>4
    <2>. QED BY <1>2, <2>1
  <1>5. (\E e : r = Failed(p, e)) \/ (\E out \in Outs : r = Done(p, out, out.tokens))
    BY DEF Outcomes
  <1>. QED
    BY <1>3, <1>4, <1>5

\* What the uploads expand into.
Expanded(ups) == [i \in DOMAIN ups |-> Expand(i - 1, ups[i])]

\* The pages are the expanded uploads laid end to end.
LEMMA PagesAreLaid ==
    ASSUME NEW ups \in Seq(RawUploads)
    PROVE  /\ Expanded(ups) \in Seq(Seq(PageSet))
           /\ Len(Expanded(ups)) = Len(ups)
           /\ ExpandAll(ups) \in Seq(PageSet)
           /\ \E off : LaidOut(off, Expanded(ups), ExpandAll(ups))
  <1>1. Len(ups) \in Nat /\ DOMAIN ups = 1..Len(ups)
    OBVIOUS
  <1>2. \A i \in 1..Len(ups) : i - 1 \in Nat /\ ups[i] \in RawUploads
    OBVIOUS
  <1>3. \A i \in 1..Len(ups) : Expand(i - 1, ups[i]) \in Seq(PageSet)
    BY <1>2, ExpandFacts
  <1>4. Expanded(ups) \in [1..Len(ups) -> Seq(PageSet)]
    BY <1>1, <1>3 DEF Expanded
  <1>5. Expanded(ups) \in Seq(Seq(PageSet)) /\ Len(Expanded(ups)) = Len(ups)
    BY <1>1, <1>4
  <1>6. ExpandAll(ups) = FlattenSeq(Expanded(ups))
    BY DEF ExpandAll, Expanded
  <1>. QED
    BY <1>5, <1>6, FlattenLaysOut

-----------------------------------------------------------------------------
(***************************************************************************)
(* The invariant is inductive.                                             *)
(***************************************************************************)
\* Nothing has been done.
LEMMA InitHolds == Init => IInv
  <1> SUFFICES ASSUME Init PROVE IInv
    OBVIOUS
  <1>1. PICK n \in 1..MaxFiles : uploads \in [1..n -> RawUploads]
    BY DEF Init
  <1>2. n \in Nat
    BY BoundsAssumption
  <1>3. uploads \in Seq(RawUploads) /\ Len(uploads) = n
    BY <1>1, <1>2
  <1>4. /\ step = "expand" /\ pages = <<>> /\ results = <<>> /\ rows = <<>>
    BY DEF Init
  <1>5. Len(<<>>) = 0
    OBVIOUS
  <1>. QED
    BY <1>2, <1>3, <1>4, <1>5 DEF IInv

\* Each loop goes on from where it is.
LEMMA StepHolds == IInv /\ [Next]_vars => IInv'
  <1> SUFFICES ASSUME IInv, [Next]_vars PROVE IInv'
    OBVIOUS
  <1>1. CASE ExpandUploads
    <2>1. step = "expand" /\ step' = "run" /\ pages' = ExpandAll(uploads)
          /\ UNCHANGED <<uploads, results, files, rows, usage, rollup>>
      BY <1>1 DEF ExpandUploads
    <2>2. results \in Seq(ResultSet) /\ Len(results) <= Len(pages) /\ pages = <<>>
      BY <2>1 DEF IInv
    <2>3. Len(results) = 0
      BY <2>2
    <2>4. ExpandAll(uploads) \in Seq(PageSet)
      BY PagesAreLaid DEF IInv
    <2>5. Len(ExpandAll(uploads)) \in Nat
      BY <2>4
    <2>. QED BY <2>1, <2>3, <2>5 DEF IInv
  <1>2. CASE RunPage
    <2>1. PICK r \in Outcomes(pages[Len(results) + 1]) : results' = Append(results, r)
      BY <1>2 DEF RunPage
    <2>2. step = "run" /\ Len(results) < Len(pages)
          /\ UNCHANGED <<step, uploads, pages, files, rows, usage, rollup>>
      BY <1>2 DEF RunPage
    <2>3. pages \in Seq(PageSet)
      BY <2>2, PagesAreLaid DEF IInv
    <2>4. results \in Seq(ResultSet)
      BY DEF IInv
    <2> DEFINE n == Len(results)
    <2>5. n \in Nat /\ Len(pages) \in Nat /\ n + 1 \in 1..Len(pages)
      BY <2>2, <2>3, <2>4
    <2>6. pages[n + 1] \in PageSet
      BY <2>3, <2>5
    <2>7. r \in ResultSet
      BY <2>1, <2>6 DEF ResultSet
    <2>8. /\ results' \in Seq(ResultSet)
          /\ Len(results') = n + 1
          /\ results'[n + 1] = r
          /\ \A i \in 1..n : results'[i] = results[i]
      BY <2>1, <2>4, <2>7
    <2>9. ASSUME NEW i \in 1..Len(results') PROVE results'[i] \in Outcomes(pages[i])
      <3>1. i \in 1..n \/ i = n + 1
        BY <2>5, <2>8
      <3>2. \A j \in 1..n : results[j] \in Outcomes(pages[j])
        BY DEF IInv
      <3>. QED BY <2>1, <2>8, <3>1, <3>2
    <2>10. Len(results') <= Len(pages)
      BY <2>5, <2>8
    <2>11. rows = <<>> /\ Len(rows) = 0
      <3>1. rows = <<>>
        BY <2>2 DEF IInv
      <3>. QED BY <3>1
    <2>. QED BY <2>2, <2>8, <2>9, <2>10, <2>11 DEF IInv
  <1>3. CASE GroupByFile
    <2>1. /\ step = "run" /\ step' = "record"
          /\ Len(results) = Len(pages)
          /\ files' = [i \in DOMAIN uploads |-> FileEntry(i - 1, results)]
          /\ UNCHANGED <<uploads, pages, results, rows, usage, rollup>>
      BY <1>3 DEF GroupByFile
    <2>. QED BY <2>1 DEF IInv
  <1>4. CASE RecordFile
    <2>1. /\ step = "record" /\ Len(rows) < Len(uploads)
          /\ rows' = Append(rows, Row(Len(rows), results))
          /\ UNCHANGED <<step, uploads, pages, results, files, usage, rollup>>
      BY <1>4 DEF RecordFile
    <2> DEFINE m == Len(rows)
               row == Row(m, results)
    <2>2. rows \in Seq(RowSet) /\ results \in Seq(ResultSet) /\ uploads \in Seq(RawUploads)
      BY DEF IInv
    <2>3. m \in Nat /\ Len(uploads) \in Nat
      BY <2>2
    <2>4. row \in RowSet
      BY <2>2, <2>3 DEF RowSet
    <2>5. rows' = Append(rows, row)
      BY <2>1
    <2> HIDE DEF row
    <2>6. /\ rows' \in Seq(RowSet)
          /\ Len(rows') = m + 1
          /\ rows'[m + 1] = row
          /\ \A i \in 1..m : rows'[i] = rows[i]
      BY <2>2, <2>4, <2>5
    <2>7. ASSUME NEW i \in 1..Len(rows') PROVE rows'[i] = Row(i - 1, results)
      <3>1. i \in 1..m \/ i = m + 1
        BY <2>3, <2>6
      <3>2. \A j \in 1..m : rows[j] = Row(j - 1, results)
        BY DEF IInv
      <3>3. (m + 1) - 1 = m
        BY <2>3
      <3>. QED BY <2>6, <3>1, <3>2, <3>3 DEF row
    <2>8. Len(rows') <= Len(uploads)
      BY <2>1, <2>3, <2>6
    <2>. QED BY <2>1, <2>6, <2>7, <2>8 DEF IInv
  <1>5. CASE Finish
    <2>1. /\ step = "record" /\ step' = "done"
          /\ Len(rows) = Len(uploads)
          /\ usage' = AggregateUsage(results) /\ rollup' = Rollup(rows)
          /\ UNCHANGED <<uploads, pages, results, files, rows>>
      BY <1>5 DEF Finish
    <2>. QED BY <2>1 DEF IInv
  <1>6. CASE UNCHANGED vars
    BY <1>6 DEF IInv, vars
  <1>. QED
    BY <1>1, <1>2, <1>3, <1>4, <1>5, <1>6 DEF Next

\* What the other theorems are proved from.
THEOREM InductiveInvariant == Spec => []IInv
  BY InitHolds, StepHolds, PTL DEF Spec

-----------------------------------------------------------------------------
(***************************************************************************)
(* Where the pages of a file are.                                          *)
(***************************************************************************)
Abstract == [i \in DOMAIN uploads |-> AsUpload(uploads[i])]

Block(off, k) == (off[k - 1] + 1)..off[k]

\* off[k] is how many pages the first k files have.
Lay(off) ==
    /\ off \in [0..Len(uploads) -> Nat]
    /\ off[0] = 0
    /\ off[Len(uploads)] = Len(pages)
    /\ \A k \in 1..Len(uploads) :
          /\ off[k] = off[k - 1] + PageCount(Abstract[k])
          /\ \A x \in Block(off, k) :
                /\ x \in 1..Len(pages)
                /\ pages[x].file_index = k - 1
                /\ pages[x].page_index = x - off[k - 1] - 1
                /\ pages[x].load_error # None <=> LoadError(Abstract[k])
    /\ \A m \in 0..Len(uploads) : \A k \in 0..m : off[k] <= off[m]
    /\ \A x \in 1..Len(pages) : \E k \in 1..Len(uploads) : x \in Block(off, k)

\* The uploads, their kinds and the pages are sequences.
LEMMA Lengths ==
    ASSUME IInv, step # "expand"
    PROVE  /\ uploads \in Seq(RawUploads) /\ Len(uploads) \in Nat /\ DOMAIN uploads = 1..Len(uploads)
           /\ pages = ExpandAll(uploads)
           /\ pages \in Seq(PageSet) /\ Len(pages) \in Nat /\ DOMAIN pages = 1..Len(pages)
           /\ DOMAIN Abstract = 1..Len(uploads) /\ Len(Abstract) = Len(uploads)
           /\ \A k \in 1..Len(uploads) : /\ Abstract[k] = AsUpload(uploads[k])
                                         /\ PageCount(Abstract[k]) \in 1..MaxPages
  <1>1. uploads \in Seq(RawUploads) /\ pages = ExpandAll(uploads)
    BY DEF IInv
  <1>2. Len(uploads) \in Nat /\ DOMAIN uploads = 1..Len(uploads)
    BY <1>1
  <1>3. pages \in Seq(PageSet)
    BY <1>1, PagesAreLaid
  <1>4. Len(pages) \in Nat /\ DOMAIN pages = 1..Len(pages)
    BY <1>3
  <1>5. DOMAIN Abstract = 1..Len(uploads) /\ \A k \in 1..Len(uploads) : Abstract[k] = AsUpload(uploads[k])
    BY <1>2 DEF Abstract
  <1>6. Len(Abstract) = Len(uploads)
    <2>1. Abstract = [k \in 1..Len(uploads) |-> AsUpload(uploads[k])]
      BY <1>2 DEF Abstract
    <2>. QED BY <1>2, <2>1
  <1>7. \A k \in 1..Len(uploads) : uploads[k] \in RawUploads
    BY <1>1
  <1>8. \A k \in 1..Len(uploads) : PageCount(Abstract[k]) \in 1..MaxPages
    BY <1>5, <1>7, ExpandFacts
  <1>. QED
    BY <1>1, <1>2, <1>3, <1>4, <1>5, <1>6, <1>8

\* Each file has a block of the pages, one for each page that OcrService counts.
LEMMA PagesHaveBlocks ==
    ASSUME IInv, step # "expand"
    PROVE  \E off : Lay(off)
  <1> DEFINE n == Len(uploads)
  <1>1. PICK off : LaidOut(off, Expanded(uploads), pages)
    BY Lengths, PagesAreLaid
  <1>2. Len(Expanded(uploads)) = n
    BY Lengths, PagesAreLaid
  <1>3. n \in Nat /\ off \in [0..n -> Nat] /\ off[0] = 0 /\ off[n] = Len(pages)
    BY <1>1, <1>2, Lengths DEF LaidOut
  <1>4. \A m \in 0..n : \A k \in 0..m : off[k] <= off[m]
    BY <1>1, <1>2, EndsRise
  <1>5. ASSUME NEW k \in 1..n
        PROVE  /\ Len(Expanded(uploads)[k]) = PageCount(Abstract[k])
               /\ PageCount(Abstract[k]) \in Nat
               /\ off[k] = off[k - 1] + PageCount(Abstract[k])
               /\ \A j \in 1..PageCount(Abstract[k]) :
                     /\ pages[off[k - 1] + j].file_index = k - 1
                     /\ pages[off[k - 1] + j].page_index = j - 1
                     /\ pages[off[k - 1] + j].load_error # None <=> LoadError(Abstract[k])
    <2>1. uploads[k] \in RawUploads /\ k - 1 \in Nat /\ k \in DOMAIN uploads
      BY Lengths
    <2>2. Expanded(uploads)[k] = Expand(k - 1, uploads[k]) /\ Abstract[k] = AsUpload(uploads[k])
      BY <2>1 DEF Expanded, Abstract
    <2>3. /\ Len(Expanded(uploads)[k]) = PageCount(Abstract[k])
          /\ PageCount(Abstract[k]) \in 1..MaxPages
          /\ \A j \in 1..PageCount(Abstract[k]) :
                /\ Expanded(uploads)[k][j].file_index = k - 1
                /\ Expanded(uploads)[k][j].page_index = j - 1
                /\ Expanded(uploads)[k][j].load_error # None <=> LoadError(Abstract[k])
      BY <2>1, <2>2, ExpandFacts
    <2>4. PageCount(Abstract[k]) \in Nat
      BY <2>3, MaxPagesAssumption
    <2>5. /\ off[k] = off[k - 1] + Len(Expanded(uploads)[k])
          /\ \A j \in 1..Len(Expanded(uploads)[k]) : pages[off[k - 1] + j] = Expanded(uploads)[k][j]
      BY <1>1, <1>2 DEF LaidOut
    <2>. QED BY <2>3, <2>4, <2>5
  <1>6. ASSUME NEW k \in 1..n, NEW x \in Block(off, k)
        PROVE  /\ x \in 1..Len(pages)
               /\ pages[x].file_index = k - 1
               /\ pages[x].page_index = x - off[k - 1] - 1
               /\ pages[x].load_error # None <=> LoadError(Abstract[k])
    <2> DEFINE c == PageCount(Abstract[k])
               a == off[k - 1]
               j == x - a
    <2>1. k - 1 \in 0..n /\ k \in 0..n
      BY <1>3
    <2>2. a \in Nat /\ off[k] \in Nat /\ c \in Nat /\ off[k] = a + c
      BY <1>3, <1>5, <2>1
    <2>3. x \in (a + 1)..off[k]
      BY DEF Block
    <2>4. off[k] <= Len(pages)
      BY <1>3, <1>4, <2>1
    <2>5. \A i \in 1..c : /\ pages[a + i].file_index = k - 1
                          /\ pages[a + i].page_index = i - 1
                          /\ pages[a + i].load_error # None <=> LoadError(Abstract[k])
      BY <1>5
    <2> HIDE DEF a, c
    <2>6. j \in 1..c /\ a + j = x
      BY <2>2, <2>3
    <2>7. x \in 1..Len(pages)
      BY <2>2, <2>3, <2>4, Lengths
    <2>. QED BY <2>5, <2>6, <2>7 DEF a
  <1>7. ASSUME NEW x \in 1..Len(pages)
        PROVE  \E k \in 1..n : x \in Block(off, k)
    <2>1. x \in 1..off[Len(Expanded(uploads))]
      BY <1>2, <1>3
    <2>2. PICK k \in 1..n : \E j \in 1..Len(Expanded(uploads)[k]) : x = off[k - 1] + j
      BY <1>1, <1>2, <2>1, EveryPlaceIsLaid
    <2>3. PICK j \in 1..PageCount(Abstract[k]) : x = off[k - 1] + j
      BY <1>5, <2>2
    <2>4. k - 1 \in 0..n
      BY <1>3
    <2>5. off[k - 1] \in Nat
      BY <1>3, <2>4
    <2>6. x \in (off[k - 1] + 1)..off[k]
      BY <1>5, <2>3, <2>5
    <2>. QED BY <2>6 DEF Block
  <1>8. Lay(off)
    <2> HIDE DEF n
    <2>1. \A k \in 1..n : /\ off[k] = off[k - 1] + PageCount(Abstract[k])
                          /\ \A x \in Block(off, k) :
                                /\ x \in 1..Len(pages)
                                /\ pages[x].file_index = k - 1
                                /\ pages[x].page_index = x - off[k - 1] - 1
                                /\ pages[x].load_error # None <=> LoadError(Abstract[k])
      BY <1>5, <1>6
    <2>. QED BY <1>3, <1>4, <1>7, <2>1 DEF Lay, n
  <1>. QED
    BY <1>8

\* The blocks are apart and in the order of the files.
LEMMA BlocksInOrder ==
    ASSUME IInv, step # "expand", NEW off, Lay(off)
    PROVE  \A k, m \in 1..Len(uploads) : \A x \in Block(off, k) : \A y \in Block(off, m) :
              x <= y => k <= m
  <1> SUFFICES ASSUME NEW k \in 1..Len(uploads), NEW m \in 1..Len(uploads),
                      NEW x \in Block(off, k), NEW y \in Block(off, m), m < k
               PROVE  y < x
    BY Lengths DEF Lay, Block
  <1>1. m \in 0..(k - 1) /\ k - 1 \in 0..Len(uploads) /\ m - 1 \in 0..Len(uploads) /\ m \in 0..Len(uploads)
        /\ k \in 0..Len(uploads)
    BY Lengths
  <1>2. off[m] <= off[k - 1] /\ off[m] \in Nat /\ off[k - 1] \in Nat /\ off[m - 1] \in Nat /\ off[k] \in Nat
    BY <1>1 DEF Lay
  <1>3. x \in (off[k - 1] + 1)..off[k] /\ y \in (off[m - 1] + 1)..off[m]
    BY DEF Block
  <1>. QED
    BY <1>2, <1>3

-----------------------------------------------------------------------------
(***************************************************************************)
(* The expansion.                                                          *)
(***************************************************************************)
\* A page of a block is a page of the abstract module's set.
LEMMA PageOfBlock ==
    ASSUME IInv, step # "expand", NEW off, Lay(off),
           NEW k \in 1..Len(uploads), NEW x \in Block(off, k)
    PROVE  /\ pages[x].file_index + 1 = k
           /\ pages[x].page_index + 1 = x - off[k - 1]
           /\ x - off[k - 1] \in 1..PageCount(Abstract[k])
           /\ off[k - 1] \in Nat /\ x \in Nat
           /\ pages[x].load_error # None <=> LoadError(Abstract[k])
  <1>1. k - 1 \in 0..Len(uploads) /\ k \in 0..Len(uploads) /\ k \in Nat
    BY Lengths
  <1>2. off[k - 1] \in Nat /\ off[k] \in Nat /\ off[k] = off[k - 1] + PageCount(Abstract[k])
    BY <1>1 DEF Lay
  <1>3. PageCount(Abstract[k]) \in Nat
    BY Lengths, MaxPagesAssumption
  <1>4. x \in (off[k - 1] + 1)..off[k]
    BY DEF Block
  <1>5. /\ pages[x].file_index = k - 1
        /\ pages[x].page_index = x - off[k - 1] - 1
        /\ pages[x].load_error # None <=> LoadError(Abstract[k])
    BY DEF Lay
  <1>6. x \in Nat /\ x - off[k - 1] \in 1..PageCount(Abstract[k])
    BY <1>2, <1>3, <1>4
  <1>7. (k - 1) + 1 = k /\ (x - off[k - 1] - 1) + 1 = x - off[k - 1]
    BY <1>1, <1>2, <1>6
  <1>. QED
    BY <1>2, <1>5, <1>6, <1>7

\* The list of pages is the set OcrService works with, in its order.
LEMMA ExpansionMatches == IInv => ExpandMatchesService
  <1> SUFFICES ASSUME IInv, step # "expand" PROVE ExpandMatchesService
    BY DEF ExpandMatchesService
  <1> DEFINE at(i) == <<pages[i].file_index + 1, pages[i].page_index + 1>>
             n == Len(uploads)
  <1>1. PICK off : Lay(off)
    BY PagesHaveBlocks
  <1>2. n \in Nat /\ Len(pages) \in Nat /\ DOMAIN pages = 1..Len(pages) /\ Len(Abstract) = n
        /\ MaxPages \in Nat
    BY Lengths, MaxPagesAssumption
  <1>3. ASSUME NEW x \in 1..Len(pages)
        PROVE  \E k \in 1..n : /\ x \in Block(off, k)
                               /\ at(x) = <<k, x - off[k - 1]>>
                               /\ x - off[k - 1] \in 1..PageCount(Abstract[k])
                               /\ PageCount(Abstract[k]) \in 1..MaxPages
                               /\ off[k - 1] \in Nat
                               /\ pages[x].load_error # None <=> LoadError(Abstract[k])
    <2>1. PICK k \in 1..n : x \in Block(off, k)
      BY <1>1 DEF Lay
    <2>2. /\ pages[x].file_index + 1 = k
          /\ pages[x].page_index + 1 = x - off[k - 1]
          /\ x - off[k - 1] \in 1..PageCount(Abstract[k])
          /\ off[k - 1] \in Nat
          /\ pages[x].load_error # None <=> LoadError(Abstract[k])
      BY <1>1, <2>1, PageOfBlock
    <2>3. PageCount(Abstract[k]) \in 1..MaxPages
      BY Lengths
    <2>. QED BY <2>1, <2>2, <2>3
  <1>4. {at(i) : i \in DOMAIN pages} \subseteq PagesOf(Abstract)
    <2>1. SUFFICES ASSUME NEW x \in 1..Len(pages) PROVE at(x) \in PagesOf(Abstract)
      BY <1>2
    <2>2. PICK k \in 1..n : /\ at(x) = <<k, x - off[k - 1]>>
                            /\ x - off[k - 1] \in 1..PageCount(Abstract[k])
                            /\ PageCount(Abstract[k]) \in 1..MaxPages
      BY <1>3
    <2> DEFINE j == x - off[k - 1]
    <2> HIDE DEF j
    <2>3. j \in 1..MaxPages /\ j <= PageCount(Abstract[k])
      BY <1>2, <2>2 DEF j
    <2>4. at(x) = <<k, j>>
      BY <2>2 DEF j
    <2> HIDE DEF at
    <2>5. at(x)[1] = k /\ at(x)[2] = j
      BY <2>4
    <2>6. at(x) \in (1..Len(Abstract)) \X (1..MaxPages)
      BY <1>2, <2>3, <2>4
    <2> DEFINE e == at(x)
    <2> HIDE DEF e
    <2>7. /\ e \in (1..Len(Abstract)) \X (1..MaxPages)
          /\ e[2] <= PageCount(Abstract[e[1]])
      BY <2>3, <2>5, <2>6 DEF e
    <2>8. e \in PagesOf(Abstract)
      BY <2>7 DEF PagesOf
    <2>. QED BY <2>8 DEF e
  <1>5. PagesOf(Abstract) \subseteq {at(i) : i \in DOMAIN pages}
    <2> SUFFICES ASSUME NEW p \in PagesOf(Abstract) PROVE \E x \in 1..Len(pages) : at(x) = p
      BY <1>2
    <2>0. p \in (1..Len(Abstract)) \X (1..MaxPages) /\ p[2] <= PageCount(Abstract[p[1]])
      BY DEF PagesOf
    <2>1. PICK k \in 1..n, j \in 1..MaxPages : p = <<k, j>> /\ j <= PageCount(Abstract[k])
      <3>1. p[1] \in 1..n /\ p[2] \in 1..MaxPages /\ p = <<p[1], p[2]>>
        BY <1>2, <2>0
      <3>. QED BY <2>0, <3>1
    <2> DEFINE x == off[k - 1] + j
    <2>2. k - 1 \in 0..n /\ k \in 0..n
      BY <1>2
    <2>3. off[k - 1] \in Nat /\ off[k] = off[k - 1] + PageCount(Abstract[k]) /\ off[k] \in Nat
      BY <1>1, <2>2 DEF Lay
    <2>4. PageCount(Abstract[k]) \in Nat
      BY <1>2, Lengths
    <2>5. x \in Block(off, k) /\ x - off[k - 1] = j
      BY <2>1, <2>3, <2>4 DEF Block
    <2> HIDE DEF x
    <2>6. x \in 1..Len(pages)
      BY <1>1, <2>5 DEF Lay
    <2>7. at(x) = <<k, j>>
      BY <1>1, <2>5, PageOfBlock
    <2>. QED BY <2>1, <2>6, <2>7
  <1>6. ASSUME NEW x \in 1..Len(pages), NEW y \in 1..Len(pages), x < y
        PROVE  Before(at(x), at(y))
    <2>1. PICK k \in 1..n : /\ x \in Block(off, k)
                            /\ at(x) = <<k, x - off[k - 1]>>
                            /\ off[k - 1] \in Nat
      BY <1>3
    <2>2. PICK m \in 1..n : /\ y \in Block(off, m)
                            /\ at(y) = <<m, y - off[m - 1]>>
      BY <1>3
    <2>3. k <= m
      <3>1. x <= y
        BY <1>6
      <3>. QED BY <1>1, <2>1, <2>2, <3>1, BlocksInOrder
    <2>4. CASE k = m
      <3>1. x - off[k - 1] < y - off[k - 1]
        BY <1>6, <2>1
      <3>. QED BY <2>1, <2>2, <2>4, <3>1 DEF Before
    <2>5. CASE k # m
      <3>1. k < m
        BY <2>3, <2>5
      <3>. QED BY <2>1, <2>2, <3>1 DEF Before
    <2>. QED BY <2>4, <2>5
  <1>7. ASSUME NEW x \in 1..Len(pages)
        PROVE  pages[x].load_error # None <=> LoadError(Abstract[at(x)[1]])
    <2>1. PICK k \in 1..n : /\ at(x) = <<k, x - off[k - 1]>>
                            /\ pages[x].load_error # None <=> LoadError(Abstract[k])
      BY <1>3
    <2>2. at(x)[1] = k
      BY <2>1
    <2>. QED BY <2>1, <2>2
  <1>8. /\ {at(i) : i \in DOMAIN pages} = PagesOf(Abstract)
        /\ \A i, j \in DOMAIN pages : i < j => Before(at(i), at(j))
        /\ \A i \in DOMAIN pages : pages[i].load_error # None <=> LoadError(Abstract[at(i)[1]])
    <2> HIDE DEF at
    <2>. QED BY <1>2, <1>4, <1>5, <1>6, <1>7
  <1>. QED
    BY <1>8 DEF ExpandMatchesService, Abstract

\* What _expand makes of the uploads is what OcrService takes for granted.
THEOREM ExpansionIsRight == Spec => []ExpandMatchesService
  BY InductiveInvariant, ExpansionMatches, PTL

-----------------------------------------------------------------------------
(***************************************************************************)
(* The pages of a file among the results.                                  *)
(***************************************************************************)
\* When all the pages have been run there is a result for each page, that is
\* about that page.
LEMMA ResultsOfPages ==
    ASSUME IInv
    PROVE  /\ results \in Seq(ResultSet) /\ Len(results) \in Nat /\ DOMAIN results = 1..Len(results)
           /\ \A x \in 1..Len(results) :
                 /\ results[x].file_index = pages[x].file_index
                 /\ results[x].page_index = pages[x].page_index
                 /\ results[x].ok \in BOOLEAN
                 /\ results[x].out.tokens \in Nat
                 /\ results[x].ok => /\ results[x].out.provider \in Providers
                                     /\ results[x].out.provider # None
                 /\ ~results[x].ok => /\ results[x].out.provider = None
                                      /\ results[x].out.tokens = 0
  <1>1. results \in Seq(ResultSet)
    BY DEF IInv
  <1>2. Len(results) \in Nat /\ DOMAIN results = 1..Len(results)
    BY <1>1
  <1>3. ASSUME NEW x \in 1..Len(results)
        PROVE  results[x] \in Outcomes(pages[x]) /\ pages[x] \in PageSet
    <2>1. results[x] \in Outcomes(pages[x]) /\ Len(results) <= Len(pages)
      BY DEF IInv
    <2>2. step # "expand"
      <3>1. SUFFICES ASSUME step = "expand" PROVE FALSE
        OBVIOUS
      <3>2. Len(pages) = 0
        BY <3>1 DEF IInv
      <3>. QED BY <1>2, <2>1, <3>2
    <2>3. pages \in Seq(PageSet) /\ Len(pages) \in Nat
      BY <2>2, Lengths
    <2>4. x \in 1..Len(pages)
      BY <1>2, <2>1, <2>3
    <2>. QED BY <2>1, <2>3, <2>4
  <1>. QED
    BY <1>1, <1>2, <1>3, ResultFacts

\* The results of a file are those of its block.
LEMMA MineIsBlock ==
    ASSUME IInv, step \in {"record", "done"}, NEW off, Lay(off)
    PROVE  \A k \in 1..Len(uploads) : Mine(k - 1, results) = Block(off, k)
  <1> SUFFICES ASSUME NEW k \in 1..Len(uploads) PROVE Mine(k - 1, results) = Block(off, k)
    OBVIOUS
  <1>1. step # "expand" /\ Len(results) = Len(pages)
    BY DEF IInv
  <1>2. DOMAIN results = 1..Len(pages)
    BY <1>1, ResultsOfPages
  <1>3. \A x \in 1..Len(pages) : results[x].file_index = pages[x].file_index
    BY <1>1, ResultsOfPages
  <1>4. ASSUME NEW x \in Block(off, k) PROVE x \in Mine(k - 1, results)
    <2>1. x \in 1..Len(pages) /\ pages[x].file_index = k - 1
      BY DEF Lay
    <2>. QED BY <1>2, <1>3, <2>1 DEF Mine
  <1>5. ASSUME NEW x \in Mine(k - 1, results) PROVE x \in Block(off, k)
    <2>1. x \in 1..Len(pages) /\ pages[x].file_index = k - 1
      BY <1>2, <1>3 DEF Mine
    <2>2. PICK m \in 1..Len(uploads) : x \in Block(off, m)
      BY <2>1 DEF Lay
    <2>3. pages[x].file_index = m - 1
      BY <2>2 DEF Lay
    <2>4. m = k
      BY <2>1, <2>3
    <2>. QED BY <2>2, <2>4
  <1>. QED
    BY <1>4, <1>5

\* Sorting what is in order changes nothing.
LEMMA SortedBlock ==
    ASSUME NEW a \in Nat, NEW c \in Nat, NEW rs,
           \A x \in (a + 1)..(a + c) : rs[x].page_index = x - a - 1
    PROVE  /\ IsFiniteSet((a + 1)..(a + c))
           /\ Cardinality((a + 1)..(a + c)) = c
           /\ Sorted((a + 1)..(a + c), rs) = [j \in 1..c |-> a + j]
  <1> DEFINE S == (a + 1)..(a + c)
             Precedes(i, j) == \/ rs[i].page_index < rs[j].page_index
                               \/ rs[i].page_index = rs[j].page_index /\ i < j
             Rank(j) == Cardinality({i \in S : Precedes(i, j)})
  <1>1. IsFiniteSet(S) /\ Cardinality(S) = c
    <2>1. a + 1 \in Int /\ a + c \in Int
      OBVIOUS
    <2>2. IsFiniteSet(S) /\ Cardinality(S) = IF a + 1 > a + c THEN 0 ELSE (a + c) - (a + 1) + 1
      BY <2>1, FS_Interval
    <2>3. (IF a + 1 > a + c THEN 0 ELSE (a + c) - (a + 1) + 1) = c
      OBVIOUS
    <2>. QED BY <2>2, <2>3
  <1>2. ASSUME NEW j \in S PROVE Rank(j) = j - a - 1
    <2>1. ASSUME NEW i \in S PROVE Precedes(i, j) <=> i < j
      <3>1. rs[i].page_index = i - a - 1 /\ rs[j].page_index = j - a - 1
        OBVIOUS
      <3>. QED BY <3>1
    <2>2. {i \in S : Precedes(i, j)} = (a + 1)..(j - 1)
      <3>1. {i \in S : Precedes(i, j)} = {i \in S : i < j}
        BY <2>1
      <3>2. {i \in S : i < j} = (a + 1)..(j - 1)
        OBVIOUS
      <3>. QED BY <3>1, <3>2
    <2>3. Cardinality((a + 1)..(j - 1)) = j - a - 1
      <3>1. a + 1 \in Int /\ j - 1 \in Int /\ j >= a + 1
        OBVIOUS
      <3>2. Cardinality((a + 1)..(j - 1)) = IF a + 1 > j - 1 THEN 0 ELSE (j - 1) - (a + 1) + 1
        BY <3>1, FS_Interval
      <3>. QED BY <3>1, <3>2
    <2>. QED BY <2>2, <2>3
  <1>3. Sorted(S, rs) = [k \in 1..Cardinality(S) |-> CHOOSE j \in S : Rank(j) = k - 1]
    BY DEF Sorted
  <1>4. ASSUME NEW k \in 1..c PROVE (CHOOSE j \in S : Rank(j) = k - 1) = a + k
    <2> HIDE DEF Rank
    <2>1. a + k \in S
      OBVIOUS
    <2>2. Rank(a + k) = k - 1
      <3>1. Rank(a + k) = (a + k) - a - 1
        BY <1>2, <2>1
      <3>. QED BY <3>1
    <2>3. ASSUME NEW j \in S, Rank(j) = k - 1 PROVE j = a + k
      <3>1. j - a - 1 = k - 1
        BY <1>2, <2>3
      <3>. QED BY <3>1
    <2>. QED BY <2>1, <2>2, <2>3
  <1>. QED
    BY <1>1, <1>3, <1>4

-----------------------------------------------------------------------------
(***************************************************************************)
(* The payload.                                                            *)
(***************************************************************************)
\* The files of the payload are those of the upload, each with its block.
LEMMA FileOfBlock ==
    ASSUME IInv, step \in {"record", "done"}, NEW off, Lay(off)
    PROVE  /\ DOMAIN files = 1..Len(uploads) /\ Len(files) = Len(uploads)
           /\ \A k \in 1..Len(uploads) :
                 /\ files[k] = EntryOf(Block(off, k), results)
                 /\ IsFiniteSet(Block(off, k))
                 /\ Cardinality(Block(off, k)) = PageCount(Abstract[k])
                 /\ files[k].pages =
                       [j \in 1..PageCount(Abstract[k]) |-> PagePayload(results[off[k - 1] + j])]
  <1>1. step # "expand" /\ Len(results) = Len(pages)
        /\ files = [i \in DOMAIN uploads |-> FileEntry(i - 1, results)]
    BY DEF IInv
  <1>2. Len(uploads) \in Nat /\ DOMAIN uploads = 1..Len(uploads)
    BY <1>1, Lengths
  <1>3. DOMAIN files = 1..Len(uploads) /\ Len(files) = Len(uploads)
    <2>1. files = [i \in 1..Len(uploads) |-> FileEntry(i - 1, results)]
      BY <1>1, <1>2
    <2>. QED BY <1>2, <2>1
  <1>4. ASSUME NEW k \in 1..Len(uploads)
        PROVE  /\ files[k] = EntryOf(Block(off, k), results)
               /\ IsFiniteSet(Block(off, k))
               /\ Cardinality(Block(off, k)) = PageCount(Abstract[k])
               /\ files[k].pages =
                     [j \in 1..PageCount(Abstract[k]) |-> PagePayload(results[off[k - 1] + j])]
    <2> DEFINE a == off[k - 1]
               c == PageCount(Abstract[k])
               S == Block(off, k)
    <2>1. files[k] = EntryOf(S, results)
      <3>1. files[k] = FileEntry(k - 1, results)
        BY <1>1, <1>2
      <3>2. Mine(k - 1, results) = S
        BY MineIsBlock
      <3>. QED BY <3>1, <3>2 DEF FileEntry
    <2>2. k - 1 \in 0..Len(uploads)
      BY <1>2
    <2>3. a \in Nat /\ c \in Nat /\ S = (a + 1)..(a + c)
      <3>1. c \in Nat
        BY <1>1, Lengths, MaxPagesAssumption
      <3>. QED BY <2>2, <3>1 DEF Lay, Block
    <2>4. \A x \in S : results[x].page_index = x - a - 1
      <3>1. \A x \in S : x \in 1..Len(pages) /\ pages[x].page_index = x - a - 1
        BY DEF Lay
      <3>. QED BY <1>1, <3>1, ResultsOfPages
    <2> HIDE DEF a, c, S
    <2>5. /\ IsFiniteSet(S)
          /\ Cardinality(S) = c
          /\ Sorted(S, results) = [j \in 1..c |-> a + j]
      BY <2>3, <2>4, SortedBlock
    <2>6. files[k].pages = [j \in 1..Cardinality(S) |-> PagePayload(results[Sorted(S, results)[j]])]
      BY <2>1 DEF EntryOf
    <2>7. files[k].pages = [j \in 1..c |-> PagePayload(results[a + j])]
      <3> DEFINE it == Sorted(S, results)
      <3>1. it = [j \in 1..c |-> a + j]
        BY <2>5
      <3> HIDE DEF it
      <3>2. \A j \in 1..c : it[j] = a + j
        BY <3>1
      <3>3. files[k].pages = [j \in 1..c |-> PagePayload(results[it[j]])]
        BY <2>5, <2>6 DEF it
      <3>. QED BY <3>2, <3>3
    <2>. QED BY <2>1, <2>5, <2>7 DEF a, c, S
  <1>. QED
    BY <1>3, <1>4

\* The files' pages laid end to end are the results.
LEMMA GroupingKeeps == IInv => GroupingLosesNothing
  <1> SUFFICES ASSUME IInv, step \in {"record", "done"}
               PROVE  FlattenSeq([i \in DOMAIN files |-> files[i].pages])
                         = [i \in DOMAIN results |-> PagePayload(results[i])]
    BY DEF GroupingLosesNothing
  <1> DEFINE n == Len(uploads)
             seqs == [i \in DOMAIN files |-> files[i].pages]
             all == [i \in DOMAIN results |-> PagePayload(results[i])]
             A == {PagePayload(results[i]) : i \in 1..Len(results)}
             c(k) == PageCount(Abstract[k])
  <1>1. step # "expand" /\ Len(results) = Len(pages)
    BY DEF IInv
  <1>2. PICK off : Lay(off)
    BY <1>1, PagesHaveBlocks
  <1>3. n \in Nat /\ DOMAIN files = 1..n /\ DOMAIN results = 1..Len(results) /\ Len(results) \in Nat
    BY <1>1, <1>2, Lengths, FileOfBlock, ResultsOfPages
  <1>4. all \in Seq(A) /\ Len(all) = Len(results)
    BY <1>3
  <1>5. ASSUME NEW k \in 1..n
        PROVE  /\ c(k) \in Nat
               /\ off[k - 1] \in Nat
               /\ off[k] = off[k - 1] + c(k)
               /\ seqs[k] = [j \in 1..c(k) |-> PagePayload(results[off[k - 1] + j])]
               /\ \A j \in 1..c(k) : off[k - 1] + j \in 1..Len(results)
    <2>1. k - 1 \in 0..n
      BY <1>3
    <2>2. off[k - 1] \in Nat /\ off[k] = off[k - 1] + c(k)
      BY <1>2, <2>1 DEF Lay
    <2>3. c(k) \in Nat
      BY <1>1, Lengths, MaxPagesAssumption
    <2>4. seqs[k] = [j \in 1..c(k) |-> PagePayload(results[off[k - 1] + j])]
      <3>1. files[k].pages = [j \in 1..c(k) |-> PagePayload(results[off[k - 1] + j])]
        BY <1>2, FileOfBlock
      <3>. QED BY <1>3, <3>1
    <2>5. ASSUME NEW j \in 1..c(k) PROVE off[k - 1] + j \in 1..Len(results)
      <3> HIDE DEF c
      <3>1. off[k - 1] + j \in Block(off, k)
        BY <2>2, <2>3 DEF Block
      <3>. QED BY <1>1, <1>2, <3>1 DEF Lay
    <2>. QED BY <2>2, <2>3, <2>4, <2>5
  <1>6. ASSUME NEW k \in 1..n
        PROVE  /\ seqs[k] \in Seq(A)
               /\ Len(seqs[k]) = c(k)
               /\ \A j \in 1..c(k) : all[off[k - 1] + j] = seqs[k][j]
    <2> HIDE DEF seqs, c
    <2>1. \A j \in 1..c(k) : PagePayload(results[off[k - 1] + j]) \in A
      BY <1>5
    <2>2. seqs[k] \in Seq(A) /\ Len(seqs[k]) = c(k)
      <3> HIDE DEF A
      <3>1. c(k) \in Nat /\ seqs[k] \in [1..c(k) -> A]
        BY <1>5, <2>1
      <3>. QED BY <3>1
    <2>3. ASSUME NEW j \in 1..c(k) PROVE all[off[k - 1] + j] = seqs[k][j]
      <3>1. off[k - 1] + j \in DOMAIN results
        BY <1>3, <1>5
      <3>2. all[off[k - 1] + j] = PagePayload(results[off[k - 1] + j])
        BY <3>1
      <3>. QED BY <1>5, <3>2
    <2>. QED BY <2>2, <2>3
  <1>7. seqs \in Seq(Seq(A)) /\ Len(seqs) = n
    <2>1. seqs = [i \in 1..n |-> files[i].pages]
      BY <1>3
    <2>2. \A i \in 1..n : files[i].pages \in Seq(A)
      BY <1>3, <1>6
    <2> HIDE DEF A
    <2>3. seqs \in [1..n -> Seq(A)]
      BY <2>1, <2>2
    <2> HIDE DEF seqs
    <2>. QED BY <1>3, <2>3
  <1>8. LaidOut(off, seqs, all)
    <2>1. off \in [0..n -> Nat] /\ off[0] = 0 /\ off[n] = Len(all)
      BY <1>1, <1>2, <1>4 DEF Lay
    <2> HIDE DEF seqs, all, c
    <2>2. ASSUME NEW k \in 1..n
          PROVE  /\ Len(seqs[k]) \in Nat
                 /\ off[k] = off[k - 1] + Len(seqs[k])
                 /\ \A j \in 1..Len(seqs[k]) : all[off[k - 1] + j] = seqs[k][j]
      BY <1>5, <1>6
    <2> HIDE DEF n
    <2>3. \A k \in 1..n : /\ Len(seqs[k]) \in Nat
                          /\ off[k] = off[k - 1] + Len(seqs[k])
                          /\ \A j \in 1..Len(seqs[k]) : all[off[k - 1] + j] = seqs[k][j]
      BY <2>2
    <2>. QED BY <1>3, <1>7, <2>1, <2>3 DEF LaidOut
  <1> HIDE DEF seqs, all, A
  <1>9. FlattenSeq(seqs) \in Seq(A) /\ \E eff : LaidOut(eff, seqs, FlattenSeq(seqs))
    BY <1>7, FlattenLaysOut
  <1>10. FlattenSeq(seqs) = all
    BY <1>4, <1>8, <1>9, LayoutUnique
  <1>. QED
    BY <1>10 DEF seqs, all

\* Grouping the results by file neither loses, repeats nor reorders a page.
THEOREM GroupingIsFaithful == Spec => []GroupingLosesNothing
  BY InductiveInvariant, GroupingKeeps, PTL

\* Counting by place in the file or by place among the results is the same.
LEMMA CountShifted ==
    ASSUME NEW a \in Nat, NEW c \in Nat, NEW P \in SUBSET (1..c)
    PROVE  Cardinality(P) = Cardinality({x \in (a + 1)..(a + c) : x - a \in P})
  <1> DEFINE T == {x \in (a + 1)..(a + c) : x - a \in P}
             f == [j \in P |-> a + j]
  <1>1. f \in Injection(P, T)
    <2>1. f \in [P -> T]
      OBVIOUS
    <2>2. \A i, j \in P : f[i] = f[j] => i = j
      OBVIOUS
    <2>. QED BY <2>1, <2>2 DEF Injection, IsInjective
  <1>2. f \in Surjection(P, T)
    <2>1. f \in [P -> T]
      OBVIOUS
    <2>2. ASSUME NEW x \in T PROVE \E j \in P : f[j] = x
      <3>1. x - a \in P /\ a + (x - a) = x
        OBVIOUS
      <3>2. f[x - a] = x
        BY <3>1
      <3>. QED BY <3>1, <3>2
    <2>. QED BY <2>1, <2>2 DEF Surjection
  <1>3. ExistsBijection(P, T)
    BY <1>1, <1>2 DEF ExistsBijection, Bijection
  <1>4. IsFiniteSet(P)
    <2>1. IsFiniteSet(1..c)
      <3>1. 1 \in Int /\ c \in Int
        OBVIOUS
      <3>. QED BY <3>1, FS_Interval
    <2>. QED BY <2>1, FS_Subset
  <1>. QED
    BY <1>3, <1>4, FS_Bijection

\* What a client is told about a file is what it is billed for.
LEMMA RowsMatch == IInv => RowsMatchPayload
  <1> SUFFICES ASSUME IInv, NEW k \in DOMAIN rows
               PROVE  /\ rows[k].ok = files[k].ok
                      /\ rows[k].pages = files[k].page_count
                      /\ rows[k].quantity
                            = Cardinality({j \in DOMAIN files[k].pages : files[k].pages[j].ok})
    BY DEF RowsMatchPayload
  <1>1. rows \in Seq(RowSet) /\ Len(rows) <= Len(uploads) /\ rows[k] = Row(k - 1, results)
        /\ DOMAIN rows = 1..Len(rows) /\ Len(rows) \in Nat
    <2>1. rows \in Seq(RowSet)
      BY DEF IInv
    <2>2. DOMAIN rows = 1..Len(rows) /\ Len(rows) \in Nat
      BY <2>1
    <2>. QED BY <2>1, <2>2 DEF IInv
  <1>2. step \in {"record", "done"}
    <2>1. rows # <<>>
      BY <1>1
    <2>. QED BY <2>1 DEF IInv
  <1>3. PICK off : Lay(off)
    BY <1>2, PagesHaveBlocks
  <1>4. k \in 1..Len(uploads) /\ k - 1 \in 0..Len(uploads)
    BY <1>1, <1>2, Lengths
  <1> DEFINE S == Block(off, k)
             a == off[k - 1]
             c == PageCount(Abstract[k])
  <1>5. rows[k] = RowOf(S, results)
    BY <1>1, <1>2, <1>3, <1>4, MineIsBlock DEF Row
  <1>6. /\ files[k] = EntryOf(S, results)
        /\ files[k].pages = [j \in 1..c |-> PagePayload(results[a + j])]
    BY <1>2, <1>3, <1>4, FileOfBlock
  <1>7. rows[k].ok = files[k].ok /\ rows[k].pages = files[k].page_count
        /\ rows[k].quantity = Cardinality(OkIn(S, results))
    BY <1>5, <1>6 DEF RowOf, EntryOf
  <1>8. a \in Nat /\ c \in Nat /\ S = (a + 1)..(a + c)
    <2>1. c \in Nat
      BY <1>2, <1>4, Lengths, MaxPagesAssumption
    <2>. QED BY <1>3, <1>4, <2>1 DEF Lay, Block
  <1> DEFINE P == {j \in DOMAIN files[k].pages : files[k].pages[j].ok}
  <1> HIDE DEF S, a, c
  <1>9. P = {j \in 1..c : results[a + j].ok}
    <2>1. DOMAIN files[k].pages = 1..c
      BY <1>6
    <2>2. \A j \in 1..c : files[k].pages[j] = PagePayload(results[a + j])
      BY <1>6
    <2>3. \A r : PagePayload(r).ok = r.ok
      BY DEF PagePayload
    <2>. QED BY <2>1, <2>2, <2>3
  <1>10. OkIn(S, results) = {x \in (a + 1)..(a + c) : x - a \in P}
    <2>1. ASSUME NEW x \in (a + 1)..(a + c) PROVE x - a \in P <=> results[x].ok
      <3>1. x - a \in 1..c /\ a + (x - a) = x
        BY <1>8
      <3>. QED BY <1>9, <3>1
    <2>. QED BY <1>8, <2>1 DEF OkIn
  <1>11. Cardinality(P) = Cardinality(OkIn(S, results))
    <2>1. P \in SUBSET (1..c)
      BY <1>9
    <2> HIDE DEF P
    <2>2. Cardinality(P) = Cardinality({x \in (a + 1)..(a + c) : x - a \in P})
      BY <1>8, <2>1, CountShifted
    <2>. QED BY <1>10, <2>2
  <1>. QED
    BY <1>7, <1>11

\* What a client is told about a file is what the ledger says of it.
THEOREM RowsAreTold == Spec => []RowsMatchPayload
  BY InductiveInvariant, RowsMatch, PTL

-----------------------------------------------------------------------------
(***************************************************************************)
(* The sums.                                                               *)
(***************************************************************************)
\* A sum over a function that is given by what it is on its domain.
LEMMA SumIsTotal ==
    ASSUME NEW S, IsFiniteSet(S), NEW v, NEW f, DOMAIN f = S, \A x \in S : f[x] = v[x]
    PROVE  SumFunction(f) = Total(v, S)
  <1>1. SumFunction(f) = Total(f, S)
    BY DEF SumFunction, Total
  <1>2. Total(f, S) = Total(v, S)
    BY TotalSame
  <1>. QED
    BY <1>1, <1>2

\* Nothing adds up to nothing.
LEMMA TotalOfZeros ==
    ASSUME NEW S, IsFiniteSet(S), NEW v, \A x \in S : v[x] = 0
    PROVE  Total(v, S) = 0
  <1> DEFINE it == [s \in SUBSET S |-> 0]
  <1>1. IsSum(it, v, S)
    <2>1. ASSUME NEW s \in SUBSET S
          PROVE  0 = IF s = {} THEN 0
                     ELSE v[CHOOSE x \in s : TRUE] + it[s \ {CHOOSE x \in s : TRUE}]
      <3>1. CASE s = {}
        BY <3>1
      <3>2. CASE s # {}
        <4> DEFINE one == CHOOSE x \in s : TRUE
        <4>1. one \in s
          BY <3>2
        <4> HIDE DEF one
        <4>2. v[one] = 0 /\ it[s \ {one}] = 0
          BY <4>1
        <4>. QED BY <3>2, <4>2 DEF one
      <3>. QED BY <3>1, <3>2
    <2>. QED BY <2>1 DEF IsSum
  <1>2. Total(v, S) = it[S]
    <2> HIDE DEF it
    <2>. QED BY <1>1, TotalIs
  <1>. QED
    BY <1>2

\* A finite set of numbers has a largest.
LEMMA LargestIsIn ==
    ASSUME NEW S \in SUBSET Nat, IsFiniteSet(S), S # {}
    PROVE  Max(S) \in S
  <1> DEFINE F == {s \in SUBSET S : s # {} => \E x \in s : \A y \in s : x >= y}
  <1>1. {} \in F
    OBVIOUS
  <1>2. ASSUME NEW s \in SUBSET S, IsFiniteSet(s), s # {}, \A x \in s : s \ {x} \in F
        PROVE  s \in F
    <2>1. PICK x \in s : TRUE
      BY <1>2
    <2>2. CASE s \ {x} = {}
      <3>1. \A y \in s : y = x
        BY <2>2
      <3>. QED BY <2>1, <3>1
    <2>3. CASE s \ {x} # {}
      <3>1. PICK z \in s \ {x} : \A y \in s \ {x} : z >= y
        BY <1>2, <2>1, <2>3
      <3>2. x \in Nat /\ z \in Nat
        BY <2>1, <3>1
      <3>3. CASE x >= z
        <4>1. \A y \in s : x >= y
          BY <2>1, <3>1, <3>2, <3>3
        <4>. QED BY <2>1, <4>1
      <3>4. CASE z >= x
        <4>1. \A y \in s : z >= y
          BY <2>1, <3>1, <3>4
        <4>. QED BY <3>1, <4>1
      <3>. QED BY <3>2, <3>3, <3>4
    <2>. QED BY <2>2, <2>3
  <1>3. S \in F
    <2> HIDE DEF F
    <2>. QED BY <1>1, <1>2, Thinning
  <1>4. \E x \in S : \A y \in S : x >= y
    BY <1>3
  <1>. QED
    BY <1>4 DEF Max

\* Every page result belongs to one of the files.
LEMMA Partition ==
    ASSUME IInv, step = "done"
    PROVE  /\ Len(rows) = Len(uploads) /\ DOMAIN rows = 1..Len(uploads) /\ Len(uploads) \in Nat
           /\ IsFiniteSet(DOMAIN rows)
           /\ IsFiniteSet(DOMAIN results) /\ Cardinality(DOMAIN results) = Len(results)
           /\ \A k \in 1..Len(uploads) : /\ rows[k] = RowOf(Mine(k - 1, results), results)
                                         /\ IsFiniteSet(Mine(k - 1, results))
           /\ \A x \in DOMAIN results : \E k \in 1..Len(uploads) : x \in Mine(k - 1, results)
           /\ \A k, m \in 1..Len(uploads) :
                 k # m => Mine(k - 1, results) \intersect Mine(m - 1, results) = {}
  <1>1. Len(results) = Len(pages) /\ Len(rows) = Len(uploads) /\ rows \in Seq(RowSet)
    BY DEF IInv
  <1>2. Len(uploads) \in Nat /\ Len(results) \in Nat /\ DOMAIN results = 1..Len(results)
    BY Lengths, ResultsOfPages
  <1>3. DOMAIN rows = 1..Len(uploads)
    BY <1>1
  <1>4. /\ IsFiniteSet(DOMAIN rows)
        /\ IsFiniteSet(DOMAIN results) /\ Cardinality(DOMAIN results) = Len(results)
    <2>1. ASSUME NEW m \in Nat PROVE IsFiniteSet(1..m) /\ Cardinality(1..m) = m
      <3>1. 1 \in Int /\ m \in Int
        OBVIOUS
      <3>2. IsFiniteSet(1..m) /\ Cardinality(1..m) = IF 1 > m THEN 0 ELSE m - 1 + 1
        BY <3>1, FS_Interval
      <3>. QED BY <3>2
    <2>. QED BY <1>2, <1>3, <2>1
  <1>5. ASSUME NEW k \in 1..Len(uploads)
        PROVE  /\ rows[k] = RowOf(Mine(k - 1, results), results)
               /\ IsFiniteSet(Mine(k - 1, results))
    <2>1. rows[k] = Row(k - 1, results)
      BY <1>1 DEF IInv
    <2>2. Mine(k - 1, results) \in SUBSET (DOMAIN results)
      BY DEF Mine
    <2>3. IsFiniteSet(Mine(k - 1, results))
      BY <1>4, <2>2, FS_Subset
    <2>. QED BY <2>1, <2>3 DEF Row
  <1>6. ASSUME NEW x \in DOMAIN results
        PROVE  \E k \in 1..Len(uploads) : x \in Mine(k - 1, results)
    <2>1. PICK off : Lay(off)
      BY PagesHaveBlocks
    <2>2. PICK k \in 1..Len(uploads) : x \in Block(off, k)
      BY <1>1, <1>2, <2>1 DEF Lay
    <2>3. x \in Mine(k - 1, results)
      BY <2>1, <2>2, MineIsBlock
    <2>. QED BY <2>3
  <1>7. ASSUME NEW k \in 1..Len(uploads), NEW m \in 1..Len(uploads), k # m
        PROVE  Mine(k - 1, results) \intersect Mine(m - 1, results) = {}
    <2>1. k - 1 # m - 1
      BY <1>2, <1>7
    <2>. QED BY <2>1 DEF Mine
  <1>. QED
    BY <1>1, <1>2, <1>3, <1>4, <1>5, <1>6, <1>7

\* The tokens of the rows are those of the results.
LEMMA TokensAddUp ==
    ASSUME IInv, step = "done"
    PROVE  Tokens(DOMAIN results, results) = SumFunction([i \in DOMAIN rows |-> rows[i].tokens])
  <1> DEFINE I == DOMAIN rows
             D == DOMAIN results
             A == [k \in I |-> Mine(k - 1, results)]
             v == [x \in D |-> results[x].out.tokens]
             w == [k \in I |-> rows[k].tokens]
  <1>1. IsFiniteSet(I) /\ IsFiniteSet(D)
    BY Partition
  <1>2. ASSUME NEW S \in SUBSET D PROVE IsFiniteSet(S) /\ Tokens(S, results) = Total(v, S)
    <2>1. IsFiniteSet(S)
      BY <1>1, FS_Subset
    <2> DEFINE f == [x \in S |-> results[x].out.tokens]
    <2>2. DOMAIN f = S /\ \A x \in S : f[x] = v[x]
      OBVIOUS
    <2>3. Tokens(S, results) = SumFunction(f)
      BY DEF Tokens
    <2> HIDE DEF f, v
    <2>. QED BY <2>1, <2>2, <2>3, SumIsTotal
  <1>3. \A k \in I : A[k] \in SUBSET D
    BY DEF Mine
  <1>4. \A k \in I : IsFiniteSet(A[k]) /\ w[k] = Total(v, A[k])
    <2>1. \A k \in I : w[k] = Tokens(A[k], results)
      BY Partition DEF RowOf
    <2> HIDE DEF A, v, w, I, D
    <2>. QED BY <1>2, <1>3, <2>1
  <1>5. \A k, m \in I : k # m => A[k] \intersect A[m] = {}
    BY Partition
  <1>6. \A k \in I : \A x \in A[k] : v[x] \in Nat
    <2>1. \A x \in D : v[x] \in Nat
      BY ResultsOfPages
    <2> HIDE DEF A, v
    <2>. QED BY <1>3, <2>1
  <1>7. UNION {A[k] : k \in I} = D
    <2>1. \A x \in D : \E k \in I : x \in A[k]
      BY Partition
    <2> HIDE DEF A
    <2>. QED BY <1>3, <2>1
  <1>8. Total(w, I) = Total(v, D)
    <2> HIDE DEF A, v, w, I, D
    <2>1. Total(w, I) = Total(v, UNION {A[k] : k \in I})
      BY <1>1, <1>4, <1>5, <1>6, TotalOfParts
    <2>. QED BY <1>7, <2>1
  <1>9. SumFunction(w) = Total(w, I)
    BY DEF SumFunction, Total
  <1>10. Tokens(D, results) = Total(v, D)
    <2> HIDE DEF v, D
    <2>. QED BY <1>2
  <1>. QED
    BY <1>8, <1>9, <1>10

\* The quantities of the rows are the successes among the results.
LEMMA QuantitiesAddUp ==
    ASSUME IInv, step = "done"
    PROVE  Cardinality(OkIn(DOMAIN results, results))
              = SumFunction([i \in DOMAIN rows |-> rows[i].quantity])
  <1> DEFINE I == DOMAIN rows
             D == DOMAIN results
             A == [k \in I |-> OkIn(Mine(k - 1, results), results)]
             w == [k \in I |-> rows[k].quantity]
  <1>1. IsFiniteSet(I) /\ IsFiniteSet(D)
    BY Partition
  <1>2. \A k \in I : A[k] \in SUBSET D
    BY DEF OkIn, Mine
  <1>3. \A k \in I : IsFiniteSet(A[k]) /\ w[k] = Cardinality(A[k])
    <2>1. \A k \in I : w[k] = Cardinality(A[k])
      BY Partition DEF RowOf
    <2> HIDE DEF A, w, I, D
    <2>. QED BY <1>1, <1>2, <2>1, FS_Subset
  <1>4. \A k, m \in I : k # m => A[k] \intersect A[m] = {}
    <2>1. \A k, m \in I : k # m => Mine(k - 1, results) \intersect Mine(m - 1, results) = {}
      BY Partition
    <2>2. \A k \in I : A[k] \subseteq Mine(k - 1, results)
      BY DEF OkIn
    <2> HIDE DEF A
    <2>. QED BY <2>1, <2>2
  <1>5. UNION {A[k] : k \in I} = OkIn(D, results)
    <2>1. \A x \in D : \E k \in I : x \in Mine(k - 1, results)
      BY Partition
    <2>2. \A k \in I : \A x : x \in A[k] <=> x \in Mine(k - 1, results) /\ results[x].ok
      BY DEF OkIn
    <2>3. \A k \in I : \A x \in Mine(k - 1, results) : x \in D
      BY DEF Mine
    <2>4. \A x : x \in OkIn(D, results) <=> x \in D /\ results[x].ok
      BY DEF OkIn
    <2> HIDE DEF A, I, D
    <2>5. \A x : x \in UNION {A[k] : k \in I} <=> \E k \in I : x \in A[k]
      OBVIOUS
    <2>. QED BY <2>1, <2>2, <2>3, <2>4, <2>5
  <1>6. Total(w, I) = Cardinality(OkIn(D, results))
    <2> HIDE DEF A, w, I, D
    <2>1. Total(w, I) = Cardinality(UNION {A[k] : k \in I})
      BY <1>1, <1>3, <1>4, CountOfParts
    <2>. QED BY <1>5, <2>1
  <1>7. SumFunction(w) = Total(w, I)
    BY DEF SumFunction, Total
  <1>. QED
    BY <1>6, <1>7

\* The rollup is the rows put together again by provider.
LEMMA RollupAddsUp ==
    ASSUME IInv, step = "done"
    PROVE  SumFunction([p \in DOMAIN rollup |-> rollup[p].quantity])
              = SumFunction([i \in DOMAIN rows |-> rows[i].quantity])
  <1> DEFINE D == DOMAIN rows
             I == {rows[i].provider : i \in D}
             A == [p \in I |-> {i \in D : rows[i].provider = p}]
             v == [i \in D |-> rows[i].quantity]
             w == [p \in I |-> rollup[p].quantity]
  <1>1. IsFiniteSet(D)
    BY Partition
  <1>2. IsFiniteSet(I)
    <2> DEFINE f == [i \in D |-> rows[i].provider]
    <2>1. f \in Surjection(D, I)
      BY DEF Surjection
    <2> HIDE DEF f, D, I
    <2>. QED BY <1>1, <2>1, FS_Surjection
  <1>3. DOMAIN rollup = I
    BY DEF IInv, Rollup
  <1>4. \A p \in I : A[p] \in SUBSET D
    OBVIOUS
  <1>5. \A i \in D : v[i] \in Nat
    <2>1. ASSUME NEW i \in D PROVE rows[i].quantity \in Nat
      <3>1. rows[i].quantity = Cardinality(OkIn(Mine(i - 1, results), results))
        BY Partition DEF RowOf
      <3>2. OkIn(Mine(i - 1, results), results) \in SUBSET (DOMAIN results)
        BY DEF OkIn, Mine
      <3>3. IsFiniteSet(OkIn(Mine(i - 1, results), results))
        BY <3>2, Partition, FS_Subset
      <3>. QED BY <3>1, <3>3, FS_CardinalityType
    <2>. QED BY <2>1
  <1>6. ASSUME NEW p \in I PROVE IsFiniteSet(A[p]) /\ w[p] = Total(v, A[p])
    <2>1. IsFiniteSet(A[p])
      <3> HIDE DEF A, D, I
      <3>. QED BY <1>1, <1>4, FS_Subset
    <2> DEFINE f == [i \in A[p] |-> rows[i].quantity]
    <2>2. DOMAIN f = A[p] /\ \A i \in A[p] : f[i] = v[i]
      OBVIOUS
    <2>3. w[p] = SumFunction(f)
      <3> DEFINE group == {i \in D : rows[i].provider = p}
      <3>1. A[p] = group
        OBVIOUS
      <3>2. rollup = Rollup(rows)
        BY DEF IInv
      <3>3. Rollup(rows)[p].quantity = SumFunction([i \in group |-> rows[i].quantity])
        BY DEF Rollup
      <3> HIDE DEF group
      <3>. QED BY <3>1, <3>2, <3>3
    <2> HIDE DEF f, v, w, A
    <2>. QED BY <2>1, <2>2, <2>3, SumIsTotal
  <1>7. \A p, q \in I : p # q => A[p] \intersect A[q] = {}
    OBVIOUS
  <1>8. UNION {A[p] : p \in I} = D
    <2>1. \A i \in D : rows[i].provider \in I /\ i \in A[rows[i].provider]
      OBVIOUS
    <2> HIDE DEF A, I, D
    <2>. QED BY <1>4, <2>1
  <1>9. Total(w, I) = Total(v, D)
    <2>1. \A p \in I : \A i \in A[p] : v[i] \in Nat
      <3> HIDE DEF A, v
      <3>. QED BY <1>4, <1>5
    <2> HIDE DEF A, v, w, I, D
    <2>2. \A p \in I : IsFiniteSet(A[p]) /\ w[p] = Total(v, A[p])
      BY <1>6
    <2>3. Total(w, I) = Total(v, UNION {A[p] : p \in I})
      BY <1>2, <1>7, <2>1, <2>2, TotalOfParts
    <2>. QED BY <1>8, <2>3
  <1>10. SumFunction(w) = Total(w, I) /\ SumFunction(v) = Total(v, D)
    BY DEF SumFunction, Total
  <1>. QED
    BY <1>3, <1>9, <1>10

\* A row names a provider that served a page of its file, or the alias.
LEMMA RowsNameServers ==
    ASSUME IInv, step = "done", NEW k \in DOMAIN rows
    PROVE  LET served == {x \in DOMAIN results : results[x].file_index = k - 1 /\ results[x].ok} IN
           IF served = {} THEN rows[k].provider = Alias /\ rows[k].tokens = 0
           ELSE rows[k].provider \in {results[x].out.provider : x \in served}
  <1> DEFINE S == Mine(k - 1, results)
             served == {x \in DOMAIN results : results[x].file_index = k - 1 /\ results[x].ok}
             named == {x \in S : results[x].out.provider # None}
  <1>1. k \in 1..Len(uploads) /\ rows[k] = RowOf(S, results) /\ IsFiniteSet(S)
        /\ S \subseteq DOMAIN results /\ DOMAIN results \in SUBSET Nat
    BY Partition, ResultsOfPages DEF Mine
  <1>2. ASSUME NEW x \in DOMAIN results
        PROVE  /\ results[x].ok <=> results[x].out.provider # None
               /\ ~results[x].ok => results[x].out.tokens = 0
    BY ResultsOfPages
  <1>3. named = served
    BY <1>2 DEF Mine
  <1>4. /\ rows[k].provider = IF named = {} THEN Alias ELSE results[Max(named)].out.provider
        /\ rows[k].tokens = Tokens(S, results)
    BY <1>1 DEF RowOf, LastProvider
  <1>5. CASE served = {}
    <2>1. \A x \in S : results[x].out.tokens = 0
      BY <1>1, <1>2, <1>5 DEF Mine
    <2> DEFINE f == [x \in S |-> results[x].out.tokens]
    <2>2. \A x \in S : f[x] = 0
      BY <2>1
    <2>3. Tokens(S, results) = Total(f, S)
      BY DEF Tokens, SumFunction, Total
    <2> HIDE DEF f
    <2>4. Total(f, S) = 0
      BY <1>1, <2>2, TotalOfZeros
    <2>. QED BY <1>3, <1>4, <1>5, <2>3, <2>4
  <1>6. CASE served # {}
    <2>1. named \in SUBSET Nat /\ IsFiniteSet(named)
      <3>1. named \in SUBSET S
        OBVIOUS
      <3> HIDE DEF S, named
      <3>. QED BY <1>1, <3>1, FS_Subset
    <2>2. Max(named) \in named
      <3> HIDE DEF named, served
      <3>. QED BY <1>3, <1>6, <2>1, LargestIsIn
    <2>3. rows[k].provider = results[Max(named)].out.provider
      BY <1>3, <1>4, <1>6
    <2>4. Max(named) \in served
      BY <1>3, <2>2
    <2> HIDE DEF named, served
    <2>. QED BY <1>6, <2>3, <2>4 DEF served
  <1>. QED
    BY <1>5, <1>6

\* The three foldings of the results agree.
LEMMA SumsAgree == IInv => RowsAddUp
  <1> SUFFICES ASSUME IInv, step = "done" PROVE RowsAddUp
    BY DEF RowsAddUp
  <1>1. usage = AggregateUsage(results)
    BY DEF IInv
  <1>2. /\ usage.tokens = Tokens(DOMAIN results, results)
        /\ usage.ok_count = Cardinality(OkIn(DOMAIN results, results))
    BY <1>1 DEF AggregateUsage
  <1>. QED
    BY <1>2, TokensAddUp, QuantitiesAddUp, RollupAddsUp, RowsNameServers DEF RowsAddUp

\* The rows add up to meta.usage, and so does the rollup.
THEOREM SumsAreRight == Spec => []RowsAddUp
  BY InductiveInvariant, SumsAgree, PTL

\* The reasons add up to the failures.
LEMMA ReasonsAddUp == IInv => ErrorsAddUp
  <1> SUFFICES ASSUME IInv, step = "done" PROVE ErrorsAddUp
    BY DEF ErrorsAddUp
  <1> DEFINE D == DOMAIN results
             failed == D \ OkIn(D, results)
             I == {results[i].error : i \in failed}
             A == [e \in I |-> {i \in failed : results[i].error = e}]
  <1>1. usage = AggregateUsage(results)
    BY DEF IInv
  <1>2. IsFiniteSet(D) /\ Cardinality(D) = Len(results)
    BY Partition
  <1>3. IsFiniteSet(failed)
        /\ Cardinality(failed) = Len(results) - Cardinality(OkIn(D, results))
    <2>1. OkIn(D, results) \subseteq D
      BY DEF OkIn
    <2>2. D \intersect OkIn(D, results) = OkIn(D, results)
      BY <2>1
    <2> DEFINE T == OkIn(D, results)
    <2>3. T = D \intersect T
      BY <2>2
    <2> HIDE DEF D, T
    <2>4. /\ IsFiniteSet(D \ T)
          /\ Cardinality(D \ T) = Cardinality(D) - Cardinality(D \intersect T)
      BY <1>2, FS_Difference
    <2>5. /\ IsFiniteSet(D \ T)
          /\ Cardinality(D \ T) = Len(results) - Cardinality(T)
      BY <1>2, <2>3, <2>4
    <2>. QED BY <2>5 DEF T
  <1>4. usage.fail_count = Cardinality(failed) /\ usage.errors = CountErrors(results)
    BY <1>1, <1>3 DEF AggregateUsage
  <1> DEFINE w == CountErrors(results)
  <1>5. DOMAIN w = I /\ \A e \in I : w[e] = Cardinality(A[e])
    BY DEF CountErrors
  <1> HIDE DEF failed
  <1>6. IsFiniteSet(I)
    <2> DEFINE f == [i \in failed |-> results[i].error]
    <2>1. f \in Surjection(failed, I)
      BY DEF Surjection
    <2> HIDE DEF f, I
    <2>. QED BY <1>3, <2>1, FS_Surjection
  <1>7. \A e \in I : IsFiniteSet(A[e])
    <2>1. \A e \in I : A[e] \in SUBSET failed
      OBVIOUS
    <2> HIDE DEF A, I
    <2>. QED BY <1>3, <2>1, FS_Subset
  <1>8. \A e, g \in I : e # g => A[e] \intersect A[g] = {}
    OBVIOUS
  <1>9. UNION {A[e] : e \in I} = failed
    <2>1. \A i \in failed : results[i].error \in I /\ i \in A[results[i].error]
      OBVIOUS
    <2>2. \A e \in I : A[e] \subseteq failed
      OBVIOUS
    <2> HIDE DEF A, I
    <2>. QED BY <2>1, <2>2
  <1>10. Total(w, I) = Cardinality(failed)
    <2> HIDE DEF A, w, I
    <2>1. Total(w, I) = Cardinality(UNION {A[e] : e \in I})
      BY <1>5, <1>6, <1>7, <1>8, CountOfParts
    <2>. QED BY <1>9, <2>1
  <1>11. SumFunction(w) = Total(w, I)
    <2> HIDE DEF w, I
    <2>. QED BY <1>5 DEF SumFunction, Total
  <1>12. usage.fail_count = SumFunction(usage.errors)
    BY <1>4, <1>10, <1>11
  <1>13. \A e \in DOMAIN usage.errors : \E i \in D : results[i].error = e
    BY <1>4, <1>5 DEF failed
  <1>. QED
    BY <1>12, <1>13 DEF ErrorsAddUp

\* Every failed page is counted under its reason.
THEOREM ReasonsAreRight == Spec => []ErrorsAddUp
  BY InductiveInvariant, ReasonsAddUp, PTL
=============================================================================
