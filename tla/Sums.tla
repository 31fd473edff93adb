-------------------------------- MODULE Sums --------------------------------
(***************************************************************************)
(* Lemmas about SumFunctionOnSet of the community modules, for the sums    *)
(* that the models keep: induction over the finite sets, and what a sum    *)
(* becomes when an element is added, taken away or changed.                *)
(***************************************************************************)
EXTENDS Integers, FiniteSets, Functions, FiniteSetTheorems,
        WellFoundedInduction, TLAPS

(* The sets of numbers that hold zero and every successor are Nat. *)
LEMMA NatSetInduction ==
  ASSUME NEW T \in SUBSET Nat, 0 \in T, \A n \in T : n + 1 \in T
  PROVE  T = Nat
<1> DEFINE R == OpToRel(<, Nat)
           U == Nat \ T
<1>1. SUFFICES ASSUME U # {}
               PROVE  FALSE
  OBVIOUS
<1>2. IsWellFoundedOn(R, Nat)
  BY NatLessThanWellFounded
<1>3. PICK x \in U : \A y \in U : ~(<<y, x>> \in R)
  <2> HIDE DEF R, U
  <2>1. U \subseteq Nat
    BY DEF U
  <2> QED
    BY <1>1, <1>2, <2>1, WFMin
<1>4. x # 0 /\ x - 1 \in Nat /\ x - 1 < x
  OBVIOUS
<1>5. x - 1 \in T
  BY <1>3, <1>4 DEF OpToRel
<1>6. (x - 1) + 1 \in T
  BY <1>5
<1> QED
  BY <1>6

(* The sets of subsets that hold the empty set and whatever has one more   *)
(* element are all subsets, of a finite set.                               *)
LEMMA SubsetInduction ==
  ASSUME NEW S, IsFiniteSet(S), NEW T \in SUBSET (SUBSET S), {} \in T,
         \A A \in T : \A x \in S \ A : A \cup {x} \in T
  PROVE  T = SUBSET S
<1> DEFINE N == {n \in Nat : \A A \in SUBSET S : Cardinality(A) = n => A \in T}
<1>1. \A A \in SUBSET S : IsFiniteSet(A) /\ Cardinality(A) \in Nat
  BY FS_Subset, FS_CardinalityType
<1>2. 0 \in N
  <2>1. \A A \in SUBSET S : Cardinality(A) = 0 => A = {}
    BY <1>1, FS_EmptySet
  <2> QED
    BY <2>1
<1>3. ASSUME NEW n \in N
      PROVE  n + 1 \in N
  <2> SUFFICES ASSUME NEW A \in SUBSET S, Cardinality(A) = n + 1
               PROVE  A \in T
    OBVIOUS
  <2>0. PICK m \in Nat : m = n
    OBVIOUS
  <2>1. A # {}
    <3>1. Cardinality(A) # 0
      BY <2>0
    <3> QED
      BY <3>1, FS_EmptySet
  <2>2. PICK x : x \in A
    BY <2>1
  <2>3. Cardinality(A \ {x}) = n
    <3>1. Cardinality(A \ {x}) = Cardinality(A) - 1
      BY <1>1, <2>2, FS_RemoveElement
    <3> QED
      BY <3>1, <2>0
  <2>4. A \ {x} \in T
    BY <2>3
  <2>5. (A \ {x}) \cup {x} = A /\ x \in S \ (A \ {x})
    BY <2>2
  <2> QED
    BY <2>4, <2>5
<1>4. N \in SUBSET Nat
  OBVIOUS
<1> HIDE DEF N
<1>5. N = Nat
  BY <1>2, <1>3, <1>4, NatSetInduction
<1> QED
  BY <1>1, <1>5 DEF N

-----------------------------------------------------------------------------
(* The function by which the sum is defined: the sum over every subset,    *)
(* one element after the other.                                            *)
SumRec(f, S, iter) ==
  iter = [s \in SUBSET S |->
            IF s = {} THEN 0
            ELSE LET x == CHOOSE x \in s : TRUE IN f[x] + iter[s \ {x}]]

LEMMA SumIs ==
  ASSUME NEW f, NEW S
  PROVE  SumFunctionOnSet(f, S) = (CHOOSE iter : SumRec(f, S, iter))[S]
BY DEF SumFunctionOnSet, FoldFunctionOnSet, MapThenFoldSet, SumRec

(* There is such a function on the subsets of a finite set. *)
LEMMA SumExists ==
  ASSUME NEW f, NEW S, IsFiniteSet(S)
  PROVE  \E iter : SumRec(f, S, iter)
<1> DEFINE first(s) == CHOOSE x \in s : TRUE
           step(F, s) == IF s = {} THEN 0 ELSE f[first(s)] + F[s \ {first(s)}]
           upto(F, n) == \A s \in SUBSET S : Cardinality(s) <= n => F[s] = step(F, s)
           N == {n \in Nat : \E F : upto(F, n)}
<1>1. \A A \in SUBSET S : IsFiniteSet(A) /\ Cardinality(A) \in Nat
  BY FS_Subset, FS_CardinalityType
<1>2. \A s \in SUBSET S : s # {} =>
        /\ first(s) \in s /\ s \ {first(s)} \in SUBSET S
        /\ Cardinality(s \ {first(s)}) = Cardinality(s) - 1
  BY <1>1, FS_RemoveElement
<1>3. \A s \in SUBSET S : Cardinality(s) = 0 => s = {}
  BY <1>1, FS_EmptySet
<1> HIDE DEF first
<1>4. 0 \in N
  <2> DEFINE F == [s \in SUBSET S |-> 0]
  <2>1. \A s \in SUBSET S : Cardinality(s) <= 0 => s = {}
    BY <1>1, <1>3
  <2>2. upto(F, 0)
    BY <2>1
  <2> HIDE DEF F
  <2> QED
    BY <2>2
<1>5. ASSUME NEW n \in N
      PROVE  n + 1 \in N
  <2>1. PICK F : upto(F, n)
    OBVIOUS
  <2> DEFINE G == [s \in SUBSET S |-> step(F, s)]
  <2>2. n \in Nat
    OBVIOUS
  <2>3. \A s \in SUBSET S : Cardinality(s) <= n => G[s] = F[s]
    BY <2>1
  <2>4. \A s \in SUBSET S : G[s] = step(F, s)
    OBVIOUS
  <2> HIDE DEF G
  <2>5. ASSUME NEW s \in SUBSET S, Cardinality(s) <= n + 1
        PROVE  G[s] = step(G, s)
    <3>1. CASE s = {}
      BY <3>1, <2>4
    <3>2. CASE s # {}
      <4>1. s \ {first(s)} \in SUBSET S /\ Cardinality(s \ {first(s)}) <= n
        BY <3>2, <2>2, <2>5, <1>1, <1>2
      <4>2. G[s \ {first(s)}] = F[s \ {first(s)}]
        BY <4>1, <2>3
      <4> QED
        BY <3>2, <4>2, <2>4
    <3> QED
      BY <3>1, <3>2
  <2>6. upto(G, n + 1)
    BY <2>5
  <2>7. n + 1 \in Nat
    BY <2>2
  <2> HIDE DEF upto
  <2> QED
    BY <2>6, <2>7
<1>6. N \in SUBSET Nat
  OBVIOUS
<1>7. Cardinality(S) \in N
  <2> HIDE DEF N
  <2> QED
    BY <1>1, <1>4, <1>5, <1>6, NatSetInduction
<1>8. PICK F : upto(F, Cardinality(S))
  BY <1>7
<1>9. \A s \in SUBSET S : F[s] = step(F, s)
  <2>1. \A s \in SUBSET S : Cardinality(s) <= Cardinality(S)
    BY FS_Subset
  <2> QED
    BY <2>1, <1>8
<1> DEFINE G == [s \in SUBSET S |-> step(F, s)]
<1>10. \A s \in SUBSET S : G[s] = F[s]
  BY <1>9
<1>11. \A s \in SUBSET S : s \ {first(s)} \in SUBSET S
  OBVIOUS
<1>12. \A s \in SUBSET S : step(F, s) = step(G, s)
  <2> HIDE DEF G
  <2> QED
    BY <1>10, <1>11
<1>13. G = [s \in SUBSET S |-> step(G, s)]
  <2>1. G = [s \in SUBSET S |-> step(F, s)]
    OBVIOUS
  <2> HIDE DEF G
  <2> QED
    BY <2>1, <1>12
<1> HIDE DEF G
<1>14. SumRec(f, S, G)
  BY <1>13 DEF SumRec, first
<1> QED
  BY <1>14

(* The functions for two sets agree on what both are about. *)
LEMMA SumUnique ==
  ASSUME NEW f, NEW S, IsFiniteSet(S), NEW A \in SUBSET S,
         NEW G, SumRec(f, S, G), NEW H, SumRec(f, A, H)
  PROVE  G[A] = H[A]
<1> DEFINE first(s) == CHOOSE x \in s : TRUE
           step(F, s) == IF s = {} THEN 0 ELSE f[first(s)] + F[s \ {first(s)}]
           N == {n \in Nat : \A s \in SUBSET A : Cardinality(s) = n => G[s] = H[s]}
<1>1. \A B \in SUBSET A : IsFiniteSet(B) /\ Cardinality(B) \in Nat
  BY FS_Subset, FS_CardinalityType
<1>2. \A s \in SUBSET A : s # {} =>
        /\ first(s) \in s /\ s \ {first(s)} \in SUBSET A
        /\ Cardinality(s \ {first(s)}) = Cardinality(s) - 1
  BY <1>1, FS_RemoveElement
<1>3. \A s \in SUBSET A : Cardinality(s) = 0 => s = {}
  BY <1>1, FS_EmptySet
<1>4. \A s \in SUBSET A : G[s] = step(G, s) /\ H[s] = step(H, s)
  BY DEF SumRec
<1> HIDE DEF first
<1>5. 0 \in N
  BY <1>3, <1>4
<1>6. ASSUME NEW n \in N
      PROVE  n + 1 \in N
  <2> SUFFICES ASSUME NEW s \in SUBSET A, Cardinality(s) = n + 1
               PROVE  G[s] = H[s]
    OBVIOUS
  <2>1. s # {}
    BY FS_EmptySet
  <2>2. s \ {first(s)} \in SUBSET A /\ Cardinality(s \ {first(s)}) = n
    BY <2>1, <1>2
  <2>3. G[s \ {first(s)}] = H[s \ {first(s)}]
    BY <2>2
  <2> QED
    BY <2>1, <2>3, <1>4
<1>7. N \in SUBSET Nat
  OBVIOUS
<1>8. Cardinality(A) \in N
  <2> HIDE DEF N
  <2> QED
    BY <1>1, <1>5, <1>6, <1>7, NatSetInduction
<1> QED
  BY <1>8

(* The sum of nothing, and of a set with a first element. *)
LEMMA SumEmpty ==
  ASSUME NEW f
  PROVE  SumFunctionOnSet(f, {}) = 0
<1>1. PICK h : SumRec(f, {}, h) /\ h = (CHOOSE iter : SumRec(f, {}, iter))
  BY SumExists, FS_EmptySet
<1>2. h[{}] = 0
  BY <1>1 DEF SumRec
<1> QED
  BY <1>1, <1>2, SumIs

LEMMA SumFirst ==
  ASSUME NEW f, NEW S, IsFiniteSet(S), S # {}
  PROVE  LET x == CHOOSE x \in S : TRUE
         IN  SumFunctionOnSet(f, S) = f[x] + SumFunctionOnSet(f, S \ {x})
<1> DEFINE x == CHOOSE x \in S : TRUE
           A == S \ {x}
<1>1. PICK G : SumRec(f, S, G) /\ G = (CHOOSE iter : SumRec(f, S, iter))
  BY SumExists
<1>2. IsFiniteSet(A)
  BY FS_RemoveElement
<1>3. PICK H : SumRec(f, A, H) /\ H = (CHOOSE iter : SumRec(f, A, iter))
  BY <1>2, SumExists
<1>4. G[S] = f[x] + G[A]
  BY <1>1 DEF SumRec
<1>5. G[A] = H[A]
  BY <1>1, <1>3, SumUnique
<1> HIDE DEF A, x
<1>6. SumFunctionOnSet(f, S) = G[S] /\ SumFunctionOnSet(f, A) = H[A]
  BY <1>1, <1>3, SumIs
<1>7. SumFunctionOnSet(f, S) = f[x] + SumFunctionOnSet(f, A)
  BY <1>4, <1>5, <1>6
<1> QED
  BY <1>7 DEF A, x

(* A sum of integers is an integer. *)
LEMMA SumType ==
  ASSUME NEW f, NEW S, IsFiniteSet(S), \A x \in S : f[x] \in Int
  PROVE  SumFunctionOnSet(f, S) \in Int
<1> DEFINE N == {n \in Nat : \A A \in SUBSET S : Cardinality(A) = n =>
                               SumFunctionOnSet(f, A) \in Int}
<1>1. \A A \in SUBSET S : IsFiniteSet(A) /\ Cardinality(A) \in Nat
  BY FS_Subset, FS_CardinalityType
<1>2. 0 \in N
  <2>1. \A A \in SUBSET S : Cardinality(A) = 0 => A = {}
    BY <1>1, FS_EmptySet
  <2> QED
    BY <2>1, SumEmpty
<1>3. ASSUME NEW n \in N
      PROVE  n + 1 \in N
  <2> SUFFICES ASSUME NEW A \in SUBSET S, Cardinality(A) = n + 1
               PROVE  SumFunctionOnSet(f, A) \in Int
    OBVIOUS
  <2>0. PICK m \in Nat : m = n
    OBVIOUS
  <2>1. A # {}
    <3>1. Cardinality(A) # 0
      BY <2>0
    <3> QED
      BY <3>1, FS_EmptySet
  <2> DEFINE x == CHOOSE x \in A : TRUE
  <2>2. x \in A
    BY <2>1
  <2>3. SumFunctionOnSet(f, A) = f[x] + SumFunctionOnSet(f, A \ {x})
    BY <1>1, <2>1, SumFirst
  <2> HIDE DEF x
  <2>4. Cardinality(A \ {x}) = n
    <3>1. Cardinality(A \ {x}) = Cardinality(A) - 1
      BY <1>1, <2>2, FS_RemoveElement
    <3> QED
      BY <3>1, <2>0
  <2>5. SumFunctionOnSet(f, A \ {x}) \in Int
    BY <2>4
  <2> QED
    BY <2>2, <2>3, <2>5
<1>4. N \in SUBSET Nat
  OBVIOUS
<1>5. Cardinality(S) \in N
  <2> HIDE DEF N
  <2> QED
    BY <1>1, <1>2, <1>3, <1>4, NatSetInduction
<1> QED
  BY <1>5

(* An element more adds its value, whatever element comes first: the sums of *)
(* bytes queued (msg_cbytes) and of adjustments (sem_undo) move by what one  *)
(* step adds or takes.                                                       *)
THEOREM SumAdd ==
  ASSUME NEW f, NEW S, IsFiniteSet(S), NEW x \in S, \A y \in S : f[y] \in Int
  PROVE  SumFunctionOnSet(f, S) = f[x] + SumFunctionOnSet(f, S \ {x})
<1> DEFINE sum(A) == SumFunctionOnSet(f, A)
           N == {n \in Nat : \A A \in SUBSET S : \A z \in A :
                               Cardinality(A) = n => sum(A) = f[z] + sum(A \ {z})}
<1>1. \A A \in SUBSET S : IsFiniteSet(A) /\ Cardinality(A) \in Nat
  BY FS_Subset, FS_CardinalityType
<1>2. \A A \in SUBSET S : sum(A) \in Int
  BY <1>1, SumType
<1>3. 0 \in N
  <2>1. \A A \in SUBSET S : Cardinality(A) = 0 => A = {}
    BY <1>1, FS_EmptySet
  <2> QED
    BY <2>1
<1>4. ASSUME NEW n \in N
      PROVE  n + 1 \in N
  <2> SUFFICES ASSUME NEW A \in SUBSET S, NEW z \in A, Cardinality(A) = n + 1
               PROVE  sum(A) = f[z] + sum(A \ {z})
    OBVIOUS
  <2>0. PICK m \in Nat : m = n
    OBVIOUS
  <2> DEFINE a == CHOOSE a \in A : TRUE
  <2>1. a \in A
    OBVIOUS
  <2>2. sum(A) = f[a] + sum(A \ {a})
    BY <1>1, SumFirst
  <2> HIDE DEF a
  <2>3. \A b \in A : Cardinality(A \ {b}) = n /\ A \ {b} \in SUBSET S
    <3>1. \A b \in A : Cardinality(A \ {b}) = Cardinality(A) - 1
      BY <1>1, FS_RemoveElement
    <3> QED
      BY <3>1, <2>0
  <2>4. CASE a = z
    BY <2>2, <2>4
  <2>5. CASE a # z
    <3> DEFINE B == (A \ {a}) \ {z}
    <3>1. z \in A \ {a} /\ a \in A \ {z} /\ (A \ {z}) \ {a} = B /\ B \in SUBSET S
      BY <2>1, <2>5
    <3>2. sum(A \ {a}) = f[z] + sum((A \ {a}) \ {z})
      BY <2>1, <2>3, <3>1
    <3>3. sum(A \ {z}) = f[a] + sum((A \ {z}) \ {a})
      BY <2>1, <2>3, <3>1
    <3>4. f[a] \in Int /\ f[z] \in Int /\ sum(B) \in Int
      BY <2>1, <3>1, <1>2
    <3> HIDE DEF B, sum
    <3>5. sum(A \ {a}) = f[z] + sum(B)
      BY <3>2 DEF B
    <3>6. sum(A \ {z}) = f[a] + sum(B)
      BY <3>1, <3>3
    <3> QED
      BY <2>2, <3>4, <3>5, <3>6
  <2> QED
    BY <2>4, <2>5
<1>5. N \in SUBSET Nat
  OBVIOUS
<1>6. Cardinality(S) \in N
  <2> HIDE DEF N
  <2> QED
    BY <1>1, <1>3, <1>4, <1>5, NatSetInduction
<1> QED
  BY <1>6

(* g maps S onto R, one to one. *)
Pairs(g, S, R) ==
  /\ \A x \in S : g[x] \in R
  /\ \A z \in R : \E x \in S : g[x] = z
  /\ \A x, y \in S : g[x] = g[y] => x = y

(* The sums over two sets that are paired. *)
LEMMA SumMoved ==
  ASSUME NEW f, NEW S, IsFiniteSet(S), NEW e, NEW R, NEW g, Pairs(g, S, R),
         \A x \in S : e[x] = f[g[x]] /\ e[x] \in Int
  PROVE  IsFiniteSet(R) /\ SumFunctionOnSet(f, R) = SumFunctionOnSet(e, S)
<1> DEFINE img(A) == {g[x] : x \in A}
           T == {A \in SUBSET S :
                   /\ IsFiniteSet(img(A))
                   /\ SumFunctionOnSet(f, img(A)) = SumFunctionOnSet(e, A)}
<1>0. R = img(S) /\ \A x, y \in S : g[x] = g[y] => x = y
  BY DEF Pairs
<1>1. {} \in T
  <2>1. img({}) = {}
    OBVIOUS
  <2> HIDE DEF img
  <2> QED
    BY <2>1, SumEmpty, FS_EmptySet
<1>2. ASSUME NEW A \in T, NEW x \in S \ A
      PROVE  A \cup {x} \in T
  <2>1. img(A \cup {x}) = img(A) \cup {g[x]} /\ g[x] \notin img(A)
    BY <1>0
  <2>2. \A y \in img(A) \cup {g[x]} : f[y] \in Int
    OBVIOUS
  <2>3. (A \cup {x}) \ {x} = A /\ (img(A) \cup {g[x]}) \ {g[x]} = img(A)
    BY <2>1
  <2>4. IsFiniteSet(A \cup {x}) /\ IsFiniteSet(img(A) \cup {g[x]})
    BY FS_Subset, FS_AddElement
  <2>5. \A y \in A \cup {x} : e[y] \in Int
    OBVIOUS
  <2> DEFINE B == img(A)
  <2>6. SumFunctionOnSet(f, B) = SumFunctionOnSet(e, A)
    OBVIOUS
  <2>7. B = img(A) /\ e[x] = f[g[x]]
    OBVIOUS
  <2> HIDE DEF B, img
  <2>8. SumFunctionOnSet(e, A \cup {x}) = e[x] + SumFunctionOnSet(e, A)
    <3> DEFINE C == A \cup {x}
    <3>1. x \in C /\ C \ {x} = A /\ IsFiniteSet(C) /\ \A y \in C : e[y] \in Int
      BY <2>3, <2>4, <2>5
    <3> HIDE DEF C
    <3>2. SumFunctionOnSet(e, C) = e[x] + SumFunctionOnSet(e, C \ {x})
      BY <3>1, SumAdd
    <3> QED
      BY <3>1, <3>2 DEF C
  <2>9. SumFunctionOnSet(f, B \cup {g[x]}) = f[g[x]] + SumFunctionOnSet(f, B)
    <3> DEFINE C == B \cup {g[x]}
               y == g[x]
    <3>1. y \in C /\ C \ {y} = B /\ IsFiniteSet(C) /\ \A z \in C : f[z] \in Int
      BY <2>2, <2>3, <2>4, <2>7
    <3> HIDE DEF C, y
    <3>2. SumFunctionOnSet(f, C) = f[y] + SumFunctionOnSet(f, C \ {y})
      BY <3>1, SumAdd
    <3> QED
      BY <3>1, <3>2 DEF C, y
  <2>10. SumFunctionOnSet(f, img(A \cup {x})) = SumFunctionOnSet(e, A \cup {x})
    BY <2>1, <2>6, <2>7, <2>8, <2>9
  <2>11. IsFiniteSet(img(A \cup {x})) /\ A \cup {x} \in SUBSET S
    BY <2>1, <2>4
  <2> QED
    BY <2>10, <2>11
<1>3. T \in SUBSET (SUBSET S)
  OBVIOUS
<1>4. S \in T
  <2> HIDE DEF T
  <2>1. \A A \in T : \A x \in S \ A : A \cup {x} \in T
    BY <1>2
  <2>2. T = SUBSET S
    BY <1>1, <1>3, <2>1, SubsetInduction
  <2> QED
    BY <2>2
<1> QED
  BY <1>0, <1>4

(* Sums of the same values are the same. *)
LEMMA SumSame ==
  ASSUME NEW f, NEW e, NEW S, IsFiniteSet(S),
         \A x \in S : e[x] = f[x] /\ e[x] \in Int
  PROVE  SumFunctionOnSet(e, S) = SumFunctionOnSet(f, S)
<1> DEFINE g == [x \in S |-> x]
<1>1. Pairs(g, S, S)
  BY DEF Pairs
<1>2. \A x \in S : e[x] = f[g[x]] /\ e[x] \in Int
  OBVIOUS
<1> HIDE DEF g
<1> QED
  BY <1>1, <1>2, SumMoved

(* The sum over two sets with nothing in common. *)
LEMMA SumSplit ==
  ASSUME NEW f, NEW A, NEW B, IsFiniteSet(A), IsFiniteSet(B), A \cap B = {},
         \A x \in A \cup B : f[x] \in Int
  PROVE  SumFunctionOnSet(f, A \cup B)
           = SumFunctionOnSet(f, A) + SumFunctionOnSet(f, B)
<1> DEFINE sum(X) == SumFunctionOnSet(f, X)
           T == {X \in SUBSET B : sum(A \cup X) = sum(A) + sum(X)}
<1>1. \A X \in SUBSET B : /\ IsFiniteSet(X) /\ IsFiniteSet(A \cup X)
                          /\ sum(X) \in Int /\ sum(A \cup X) \in Int
  <2>1. \A X \in SUBSET B : IsFiniteSet(X) /\ IsFiniteSet(A \cup X)
    BY FS_Subset, FS_Union
  <2> QED
    BY <2>1, SumType
<1>2. sum(A) \in Int
  BY SumType
<1>3. {} \in T
  <2>1. sum(A \cup {}) = sum(A) /\ sum({}) = 0
    <3>1. A \cup {} = A
      OBVIOUS
    <3> QED
      BY <3>1, SumEmpty
  <2> HIDE DEF sum
  <2> QED
    BY <1>2, <2>1
<1>4. ASSUME NEW X \in T, NEW x \in B \ X
      PROVE  X \cup {x} \in T
  <2> DEFINE Y == X \cup {x}
  <2>1. /\ Y \in SUBSET B /\ x \in Y /\ Y \ {x} = X
        /\ x \in A \cup Y /\ (A \cup Y) \ {x} = A \cup X
    OBVIOUS
  <2>2. \A y \in Y : f[y] \in Int
    BY <2>1
  <2>3. \A y \in A \cup Y : f[y] \in Int
    BY <2>1
  <2>4. X \in SUBSET B /\ f[x] \in Int
    OBVIOUS
  <2> HIDE DEF Y
  <2>5. sum(Y) = f[x] + sum(X)
    <3>0. IsFiniteSet(Y)
      BY <1>1, <2>1
    <3>1. sum(Y) = f[x] + sum(Y \ {x})
      BY <2>1, <2>2, <3>0, SumAdd
    <3> QED
      BY <2>1, <3>1
  <2>6. sum(A \cup Y) = f[x] + sum(A \cup X)
    <3> DEFINE C == A \cup Y
    <3>0. IsFiniteSet(C) /\ x \in C /\ C \ {x} = A \cup X /\ \A y \in C : f[y] \in Int
      BY <1>1, <2>1, <2>3
    <3> HIDE DEF C
    <3>1. sum(C) = f[x] + sum(C \ {x})
      BY <3>0, SumAdd
    <3> QED
      BY <3>0, <3>1 DEF C
  <2>7. sum(A \cup X) = sum(A) + sum(X) /\ sum(X) \in Int
    BY <1>1, <2>4
  <2> HIDE DEF sum
  <2>8. sum(A \cup Y) = sum(A) + sum(Y)
    BY <1>2, <2>4, <2>5, <2>6, <2>7
  <2> QED
    BY <2>1, <2>8 DEF Y
<1>5. T \in SUBSET (SUBSET B)
  OBVIOUS
<1> HIDE DEF T
<1>6. \A X \in T : \A x \in B \ X : X \cup {x} \in T
  BY <1>4
<1>7. T = SUBSET B
  BY <1>3, <1>5, <1>6, SubsetInduction
<1>8. B \in T
  BY <1>7
<1> QED
  BY <1>8 DEF T

(* Nothing but zeroes sums to zero. *)
LEMMA SumZero ==
  ASSUME NEW f, NEW S, IsFiniteSet(S), \A x \in S : f[x] = 0
  PROVE  SumFunctionOnSet(f, S) = 0
<1> DEFINE T == {X \in SUBSET S : SumFunctionOnSet(f, X) = 0}
<1>1. {} \in T
  BY SumEmpty
<1>2. ASSUME NEW X \in T, NEW x \in S \ X
      PROVE  X \cup {x} \in T
  <2> DEFINE Y == X \cup {x}
  <2>1. Y \in SUBSET S /\ x \in Y /\ Y \ {x} = X
    OBVIOUS
  <2>2. SumFunctionOnSet(f, X) = 0 /\ f[x] = 0
    OBVIOUS
  <2> HIDE DEF Y, T
  <2>3. \A y \in Y : f[y] \in Int
    <3>1. \A y \in Y : f[y] = 0
      BY <2>1
    <3> QED
      BY <3>1
  <2>4. IsFiniteSet(Y)
    BY <2>1, FS_Subset
  <2>5. SumFunctionOnSet(f, Y) = f[x] + SumFunctionOnSet(f, Y \ {x})
    BY <2>4, <2>1, <2>3, SumAdd
  <2>6. SumFunctionOnSet(f, Y) = 0
    BY <2>1, <2>2, <2>5
  <2> QED
    BY <2>1, <2>6 DEF Y, T
<1>3. T \in SUBSET (SUBSET S)
  OBVIOUS
<1> HIDE DEF T
<1>4. \A X \in T : \A x \in S \ X : X \cup {x} \in T
  BY <1>2
<1>5. T = SUBSET S
  BY <1>1, <1>3, <1>4, SubsetInduction
<1>6. S \in T
  BY <1>5
<1> QED
  BY <1>6 DEF T
=============================================================================
