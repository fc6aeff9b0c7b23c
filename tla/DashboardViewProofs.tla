------------------------- MODULE DashboardViewProofs ------------------------
(***************************************************************************)
(* Proofs about DashboardView and the arithmetic of Slo and Metrics, for   *)
(* any samples, queries, counts and latencies: what an objective says of   *)
(* its budget (BudgetsHold), the percentile of the live panel              *)
(* (PercentilesHold), the shape and count of the latency series            *)
(* (SeriesHold), which vendor a check belongs to (ScopesHold), the totals  *)
(* of a tile (StreamHolds), the heatmap against the series (HeatmapHold)   *)
(* and the table of checks (WorstRowsHold). Each holds in every state with *)
(* a finite table of samples that arrived and a clock that reads whole     *)
(* minutes; the work is in the arithmetic, the sums and the orders.        *)
(*                                                                         *)
(* The models add up with folds.  What a fold computes is proved by        *)
(* induction over finite sets, in the form of LeastSet and Subsets.        *)
(***************************************************************************)
EXTENDS DashboardView, FiniteSetTheorems, SequenceTheorems, TLAPS

----------------------------------------------------------------------------
(* Finite sets.                                                            *)

(* Induction over finite sets takes this form here: a non-empty set of     *)
(* finite sets has a member with no smaller one in it.                     *)
LEMMA LeastSet ==
    ASSUME NEW D, D # {}, \A T \in D : IsFiniteSet(T)
    PROVE  \E T \in D : \A U \in D : U \subseteq T => U = T
<1>1. D \subseteq FiniteSubsetsOf(UNION D)
  BY DEF FiniteSubsetsOf
<1>2. \E T \in D : \A U \in D : ~(<<U, T>> \in StrictSubsetOrdering(UNION D))
  BY <1>1, FS_StrictSubsetOrderingWellFounded, WFMin
<1>3. \A T, U \in D : U \subseteq T /\ U # T => <<U, T>> \in StrictSubsetOrdering(UNION D)
  BY <1>1 DEF StrictSubsetOrdering
<1>4. QED
  BY <1>2, <1>3

(* A set with {} in it, and with each subset of S that is in it but for    *)
(* one element, has S in it.                                               *)
LEMMA Subsets ==
    ASSUME NEW S, IsFiniteSet(S), NEW G, {} \in G,
           \A T \in SUBSET S : \A x \in T : T \ {x} \in G => T \in G
    PROVE  S \in G
<1> DEFINE D == {T \in SUBSET S : T \notin G}
<1>1. SUFFICES ASSUME D # {} PROVE FALSE
  BY <1>1
<1>2. \A T \in D : IsFiniteSet(T)
  BY FS_Subset
<1>3. PICK T \in D : \A U \in D : U \subseteq T => U = T
  <2> HIDE DEF D
  <2>1. QED
    BY <1>1, <1>2, LeastSet
<1>4. PICK x \in T : TRUE
  OBVIOUS
<1>5. T \ {x} \in G
  BY <1>3, <1>4
<1>6. QED
  BY <1>4, <1>5

----------------------------------------------------------------------------
(* Sums.  The sums of f over the subsets of S, as a fold takes them.       *)

Chosen(s) == CHOOSE x \in s : TRUE

Summing(g, f, S) ==
    /\ g = [s \in SUBSET S |-> g[s]]
    /\ \A s \in SUBSET S : g[s] = IF s = {} THEN 0 ELSE f[Chosen(s)] + g[s \ {Chosen(s)}]

SumOf(f, S) == LET g == CHOOSE g : Summing(g, f, S) IN g[S]

(* The element a fold takes first is one of the set.                       *)
LEMMA ChosenFrom == \A s : s # {} => Chosen(s) \in s
BY DEF Chosen

(* Such a sum is a function of the set summed over.                        *)
LEMMA SumsAgree ==
    ASSUME NEW f, NEW S, NEW T, NEW g, NEW h, Summing(g, f, S), Summing(h, f, T),
           NEW U, U \subseteq S, U \subseteq T, IsFiniteSet(U)
    PROVE  g[U] = h[U]
<1> DEFINE D == {V \in SUBSET U : g[V] # h[V]}
<1>1. SUFFICES ASSUME D # {} PROVE FALSE
  BY <1>1
<1>2. \A V \in D : IsFiniteSet(V)
  BY FS_Subset
<1>3. PICK V \in D : \A W \in D : W \subseteq V => W = V
  <2> HIDE DEF D
  <2>1. QED
    BY <1>1, <1>2, LeastSet
<1>4. V \in SUBSET S /\ V \in SUBSET T
  OBVIOUS
<1>5. V # {}
  BY <1>4 DEF Summing
<1>6. Chosen(V) \in V /\ V \ {Chosen(V)} \in SUBSET U
  BY <1>5, ChosenFrom
<1>7. g[V \ {Chosen(V)}] = h[V \ {Chosen(V)}]
  BY <1>3, <1>6
<1>8. QED
  BY <1>4, <1>5, <1>7 DEF Summing

(* Sums over a finite set exist.                                           *)
LEMMA SumsExist ==
    ASSUME NEW S, IsFiniteSet(S), NEW f, \A x \in S : f[x] \in Nat
    PROVE  \E g \in [SUBSET S -> Nat] : Summing(g, f, S)
<1> DEFINE D == {T \in SUBSET S : ~\E g \in [SUBSET T -> Nat] : Summing(g, f, T)}
<1>1. SUFFICES ASSUME D # {} PROVE FALSE
  BY <1>1
<1>2. \A T \in D : IsFiniteSet(T)
  BY FS_Subset
<1>3. PICK T \in D : \A U \in D : U \subseteq T => U = T
  <2> HIDE DEF D
  <2>1. QED
    BY <1>1, <1>2, LeastSet
<1> DEFINE part(s) == CHOOSE g \in [SUBSET s -> Nat] : Summing(g, f, s)
           value(s) == IF s = {} THEN 0
                       ELSE f[Chosen(s)] + part(s \ {Chosen(s)})[s \ {Chosen(s)}]
           g == [s \in SUBSET T |-> value(s)]
<1>4. \A s \in SUBSET T : s # T => part(s) \in [SUBSET s -> Nat] /\ Summing(part(s), f, s)
  BY <1>3
<1>5. \A s \in SUBSET T : s # {} =>
         /\ Chosen(s) \in s /\ s \ {Chosen(s)} \in SUBSET T /\ s \ {Chosen(s)} # T
         /\ f[Chosen(s)] \in Nat
  BY ChosenFrom
<1> HIDE DEF part
<1>6. \A s \in SUBSET T : s # T => part(s)[s] \in Nat
  BY <1>4 DEF Summing
<1>7. \A s \in SUBSET T : value(s) \in Nat
  BY <1>5, <1>6
<1>8. \A s \in SUBSET T : s # T => part(s)[s] = value(s)
  <2> SUFFICES ASSUME NEW s \in SUBSET T, s # T, s # {} PROVE part(s)[s] = value(s)
    BY <1>4 DEF Summing
  <2>1. part(s)[s] = f[Chosen(s)] + part(s)[s \ {Chosen(s)}]
    BY <1>4 DEF Summing
  <2>2. part(s)[s \ {Chosen(s)}] = part(s \ {Chosen(s)})[s \ {Chosen(s)}]
    <3> DEFINE r == s \ {Chosen(s)}
    <3>1. Summing(part(s), f, s) /\ Summing(part(r), f, r)
      BY <1>4, <1>5
    <3>2. IsFiniteSet(r)
      BY FS_Subset
    <3>3. r \subseteq s /\ r \subseteq r
      OBVIOUS
    <3>4. QED
      BY <3>1, <3>2, <3>3, SumsAgree
  <2>3. QED
    BY <2>1, <2>2
<1> HIDE DEF value
<1>9. \A s \in SUBSET T : s # {} => g[s] = f[Chosen(s)] + g[s \ {Chosen(s)}]
  <2> SUFFICES ASSUME NEW s \in SUBSET T, s # {}
               PROVE  g[s] = f[Chosen(s)] + g[s \ {Chosen(s)}]
    OBVIOUS
  <2>1. value(s) = f[Chosen(s)] + part(s \ {Chosen(s)})[s \ {Chosen(s)}]
    BY DEF value
  <2>2. part(s \ {Chosen(s)})[s \ {Chosen(s)}] = value(s \ {Chosen(s)})
    BY <1>5, <1>8
  <2>3. QED
    BY <1>5, <2>1, <2>2
<1>10. g[{}] = 0 /\ g \in [SUBSET T -> Nat]
  BY <1>7 DEF value
<1>11. g \in [SUBSET T -> Nat] /\ Summing(g, f, T)
  <2> HIDE DEF g
  <2>1. QED
    BY <1>9, <1>10 DEF Summing
<1>12. QED
  BY <1>3, <1>11

(* What a sum is, and what it does when an element leaves.                 *)
LEMMA SumIs ==
    ASSUME NEW S, IsFiniteSet(S), NEW f, \A x \in S : f[x] \in Nat,
           NEW g, Summing(g, f, S), NEW T \in SUBSET S
    PROVE  g[T] = SumOf(f, T)
<1>1. IsFiniteSet(T)
  BY FS_Subset
<1>2. \E h : Summing(h, f, T)
  BY <1>1, SumsExist
<1>3. PICK h : Summing(h, f, T) /\ h[T] = SumOf(f, T)
  BY <1>2 DEF SumOf
<1>4. QED
  BY <1>1, <1>3, SumsAgree

(* A sum is a number, 0 for no elements, and the sum of the rest and of    *)
(* the element taken first.                                                *)
LEMMA SumFacts ==
    ASSUME NEW S, IsFiniteSet(S), NEW f, \A x \in S : f[x] \in Nat
    PROVE  /\ SumOf(f, S) \in Nat
           /\ SumOf(f, {}) = 0
           /\ S # {} => Chosen(S) \in S /\ SumOf(f, S) = f[Chosen(S)] + SumOf(f, S \ {Chosen(S)})
<1>1. PICK g \in [SUBSET S -> Nat] : Summing(g, f, S)
  BY SumsExist
<1>2. \A T \in SUBSET S : g[T] = SumOf(f, T)
  BY <1>1, SumIs
<1>3. S # {} => Chosen(S) \in S /\ S \ {Chosen(S)} \in SUBSET S
  BY ChosenFrom
<1>4. {} \in SUBSET S /\ S \in SUBSET S
  OBVIOUS
<1>5. SumOf(f, S) \in Nat /\ SumOf(f, {}) = 0
  <2>1. g[S] \in Nat /\ g[{}] = 0
    BY <1>1, <1>4 DEF Summing
  <2>2. QED
    BY <1>2, <1>4, <2>1
<1>6. ASSUME S # {} PROVE SumOf(f, S) = f[Chosen(S)] + SumOf(f, S \ {Chosen(S)})
  <2>1. g[S] = f[Chosen(S)] + g[S \ {Chosen(S)}]
    BY <1>1, <1>4, <1>6 DEF Summing
  <2>2. QED
    BY <1>2, <1>3, <1>4, <1>6, <2>1
<1>7. QED
  BY <1>3, <1>5, <1>6

(* The order in which a fold takes the elements does not matter.           *)
LEMMA SumRemove ==
    ASSUME NEW S, IsFiniteSet(S), NEW f, \A x \in S : f[x] \in Nat
    PROVE  \A x \in S : SumOf(f, S) = f[x] + SumOf(f, S \ {x})
<1> DEFINE D == {T \in SUBSET S : \E x \in T : SumOf(f, T) # f[x] + SumOf(f, T \ {x})}
<1>1. SUFFICES ASSUME D # {} PROVE FALSE
  BY <1>1
<1>2. \A T \in D : IsFiniteSet(T)
  BY FS_Subset
<1>3. PICK T \in D : \A U \in D : U \subseteq T => U = T
  <2> HIDE DEF D
  <2>1. QED
    BY <1>1, <1>2, LeastSet
<1>4. PICK x \in T : SumOf(f, T) # f[x] + SumOf(f, T \ {x})
  OBVIOUS
<1> DEFINE y == Chosen(T)
           R == T \ {x}
           Q == T \ {y}
<1>5. /\ y \in T /\ SumOf(f, T) = f[y] + SumOf(f, Q)
      /\ IsFiniteSet(T) /\ IsFiniteSet(Q \ {x})
  BY <1>2, <1>4, SumFacts, FS_Subset
<1>6. x # y
  BY <1>4, <1>5
<1>7. Q \notin D /\ R \notin D /\ x \in Q /\ y \in R /\ Q \in SUBSET S /\ R \in SUBSET S
  BY <1>3, <1>4, <1>5, <1>6
<1>8. SumOf(f, Q) = f[x] + SumOf(f, Q \ {x}) /\ SumOf(f, R) = f[y] + SumOf(f, R \ {y})
  BY <1>7
<1>9. Q \ {x} = R \ {y}
  OBVIOUS
<1>10. SumOf(f, Q \ {x}) \in Nat /\ f[x] \in Nat /\ f[y] \in Nat
  <2>1. \A z \in Q \ {x} : f[z] \in Nat
    OBVIOUS
  <2>2. SumOf(f, Q \ {x}) \in Nat
    <3> HIDE DEF Q
    <3>1. QED
      BY <1>5, <2>1, SumFacts
  <2>3. QED
    BY <1>5, <2>2
<1>11. QED
  BY <1>4, <1>5, <1>8, <1>9, <1>10

(* The sum of smaller numbers is not larger.                               *)
LEMMA SumBelow ==
    ASSUME NEW S, IsFiniteSet(S), NEW f, NEW h,
           \A x \in S : f[x] \in Nat /\ h[x] \in Nat /\ f[x] <= h[x]
    PROVE  SumOf(f, S) \in Nat /\ SumOf(h, S) \in Nat /\ SumOf(f, S) <= SumOf(h, S)
<1> DEFINE G == {T \in SUBSET S : SumOf(f, T) <= SumOf(h, T)}
<1>1. \A T \in SUBSET S :
        /\ IsFiniteSet(T) /\ SumOf(f, T) \in Nat /\ SumOf(h, T) \in Nat
        /\ SumOf(f, {}) = 0 /\ SumOf(h, {}) = 0
  <2> SUFFICES ASSUME NEW T \in SUBSET S
               PROVE  /\ IsFiniteSet(T) /\ SumOf(f, T) \in Nat /\ SumOf(h, T) \in Nat
                      /\ SumOf(f, {}) = 0 /\ SumOf(h, {}) = 0
    OBVIOUS
  <2>1. IsFiniteSet(T) /\ (\A x \in T : f[x] \in Nat) /\ \A x \in T : h[x] \in Nat
    BY FS_Subset
  <2>2. QED
    BY <2>1, SumFacts
<1>2. {} \in G
  BY <1>1
<1>3. ASSUME NEW T \in SUBSET S, NEW x \in T, T \ {x} \in G PROVE T \in G
  <2>1. /\ SumOf(f, T) = f[x] + SumOf(f, T \ {x})
        /\ SumOf(h, T) = h[x] + SumOf(h, T \ {x})
    BY <1>1, SumRemove
  <2>2. SumOf(f, T \ {x}) \in Nat /\ SumOf(h, T \ {x}) \in Nat
    BY <1>1
  <2>3. QED
    BY <1>3, <2>1, <2>2
<1>4. S \in G
  <2> HIDE DEF G
  <2>1. QED
    BY <1>2, <1>3, Subsets
<1>5. QED
  BY <1>1, <1>4

(* Equal numbers have equal sums.                                          *)
LEMMA SumSame ==
    ASSUME NEW S, IsFiniteSet(S), NEW f, NEW h, \A x \in S : f[x] \in Nat /\ f[x] = h[x]
    PROVE  SumOf(f, S) = SumOf(h, S)
<1>1. /\ SumOf(f, S) \in Nat /\ SumOf(h, S) \in Nat
      /\ SumOf(f, S) <= SumOf(h, S) /\ SumOf(h, S) <= SumOf(f, S)
  BY SumBelow
<1>2. QED
  BY <1>1

(* Sums of the subsets of a finite set are numbers.                        *)
LEMMA SumTypes ==
    ASSUME NEW S, IsFiniteSet(S), NEW f, \A x \in S : f[x] \in Nat
    PROVE  \A T \in SUBSET S : IsFiniteSet(T) /\ SumOf(f, T) \in Nat
<1> SUFFICES ASSUME NEW T \in SUBSET S PROVE IsFiniteSet(T) /\ SumOf(f, T) \in Nat
  OBVIOUS
<1>1. IsFiniteSet(T) /\ \A x \in T : f[x] \in Nat
  BY FS_Subset
<1>2. QED
  BY <1>1, SumFacts

(* The sum over two sets with nothing in common.                           *)
LEMMA SumUnion ==
    ASSUME NEW A, NEW B, IsFiniteSet(A), IsFiniteSet(B), A \intersect B = {},
           NEW f, \A x \in A \union B : f[x] \in Nat
    PROVE  SumOf(f, A \union B) = SumOf(f, A) + SumOf(f, B)
<1> DEFINE G == {T \in SUBSET B : SumOf(f, A \union T) = SumOf(f, A) + SumOf(f, T)}
<1>1. IsFiniteSet(A \union B)
  BY FS_Union
<1>2. \A T \in SUBSET (A \union B) : IsFiniteSet(T) /\ SumOf(f, T) \in Nat
  BY <1>1, SumTypes
<1>3. {} \in G
  <2>1. A \union {} = A /\ SumOf(f, A) \in Nat
    BY <1>2
  <2>2. SumOf(f, {}) = 0
    BY SumFacts
  <2>3. QED
    BY <2>1, <2>2
<1>4. ASSUME NEW T \in SUBSET B, NEW x \in T, T \ {x} \in G PROVE T \in G
  <2>1. IsFiniteSet(T) /\ IsFiniteSet(A \union T) /\ f[x] \in Nat
    BY <1>2
  <2>2. SumOf(f, T) = f[x] + SumOf(f, T \ {x})
    BY <2>1, SumRemove
  <2>3. SumOf(f, A \union T) = f[x] + SumOf(f, (A \union T) \ {x})
    <3> DEFINE U == A \union T
    <3>1. IsFiniteSet(U) /\ x \in U /\ \A y \in U : f[y] \in Nat
      BY <2>1
    <3> HIDE DEF U
    <3>2. SumOf(f, U) = f[x] + SumOf(f, U \ {x})
      BY <3>1, SumRemove
    <3>3. QED
      BY <3>2 DEF U
  <2>4. (A \union T) \ {x} = A \union (T \ {x})
    OBVIOUS
  <2> DEFINE all == SumOf(f, A \union T)
             rest == SumOf(f, A \union (T \ {x}))
  <2>9. all = f[x] + rest
    BY <2>3, <2>4, Zenon
  <2>5. SumOf(f, A) \in Nat /\ SumOf(f, T \ {x}) \in Nat
    BY <1>2
  <2>6. SumOf(f, A \union (T \ {x})) = SumOf(f, A) + SumOf(f, T \ {x})
    BY <1>4
  <2>7. all = SumOf(f, A) + SumOf(f, T)
    <3> HIDE DEF all
    <3>1. QED
      BY <2>1, <2>2, <2>5, <2>6, <2>9
  <2>8. QED
    BY <2>7
<1>5. B \in G
  <2>1. \A T \in SUBSET B : \A x \in T : T \ {x} \in G => T \in G
    BY <1>4
  <2> HIDE DEF G
  <2>2. QED
    BY <1>3, <2>1, Subsets
<1>6. QED
  BY <1>5

(* The sum over a set is the sum of the sums over its parts, told apart by *)
(* a map of the elements.                                                  *)
LEMMA SumParts ==
    ASSUME NEW S, IsFiniteSet(S), NEW f, \A x \in S : f[x] \in Nat,
           NEW K, IsFiniteSet(K), NEW m, \A x \in S : m[x] \in K, NEW p, NEW c,
           \A k \in K : c[k] \in SUBSET S /\ p[k] = SumOf(f, c[k]),
           \A k \in K : \A x \in S : x \in c[k] <=> m[x] = k
    PROVE  SumOf(f, S) = SumOf(p, K)
<1> DEFINE Part(J) == {x \in S : m[x] \in J}
           G == {J \in SUBSET K : SumOf(f, Part(J)) = SumOf(p, J)}
<1>1. \A T \in SUBSET S : IsFiniteSet(T) /\ SumOf(f, T) \in Nat
  BY SumTypes
<1>2. \A k \in K : p[k] \in Nat
  BY <1>1
<1>3. \A J \in SUBSET K : IsFiniteSet(J) /\ SumOf(p, J) \in Nat
  BY <1>2, SumTypes
<1>4. {} \in G
  <2>1. Part({}) = {}
    OBVIOUS
  <2>2. SumOf(f, {}) = 0 /\ SumOf(p, {}) = 0
    BY <1>2, SumFacts
  <2>3. QED
    BY <2>1, <2>2
<1>5. ASSUME NEW J \in SUBSET K, NEW k \in J, J \ {k} \in G PROVE J \in G
  <2>1. SumOf(p, J) = p[k] + SumOf(p, J \ {k})
    <3>1. IsFiniteSet(J) /\ \A x \in J : p[x] \in Nat
      BY <1>2, <1>3
    <3>2. QED
      BY <3>1, SumRemove, SMTT(30)
  <2>2. /\ Part(J) = Part(J \ {k}) \union c[k]
        /\ Part(J \ {k}) \intersect c[k] = {}
        /\ IsFiniteSet(Part(J \ {k})) /\ IsFiniteSet(c[k])
    BY <1>1
  <2>3. SumOf(f, Part(J)) = SumOf(f, Part(J \ {k})) + SumOf(f, c[k])
    <3> DEFINE A == Part(J \ {k})
               B == c[k]
    <3>1. /\ IsFiniteSet(A) /\ IsFiniteSet(B) /\ A \intersect B = {}
          /\ \A x \in A \union B : f[x] \in Nat
      BY <2>2
    <3>2. Part(J) = A \union B
      BY <2>2
    <3> HIDE DEF A, B
    <3>3. SumOf(f, A \union B) = SumOf(f, A) + SumOf(f, B)
      BY <3>1, SumUnion
    <3> HIDE DEF Part
    <3>4. QED
      BY <3>2, <3>3 DEF A, B
  <2>4. /\ SumOf(f, Part(J \ {k})) = SumOf(p, J \ {k})
        /\ SumOf(f, c[k]) = p[k] /\ p[k] \in Nat
        /\ SumOf(p, J \ {k}) \in Nat
    BY <1>2, <1>3, <1>5
  <2> HIDE DEF Part
  <2>5. QED
    BY <2>1, <2>3, <2>4
<1>6. K \in G
  <2> HIDE DEF G
  <2>1. QED
    BY <1>4, <1>5, Subsets
<1>7. Part(K) = S
  OBVIOUS
<1>8. QED
  BY <1>6, <1>7

(* Only what is not zero counts.                                           *)
LEMMA SumNonZero ==
    ASSUME NEW S, IsFiniteSet(S), NEW f, \A x \in S : f[x] \in Nat
    PROVE  SumOf(f, S) = SumOf(f, {x \in S : f[x] > 0})
<1> DEFINE P == {x \in S : f[x] > 0}
           Z == {x \in S : f[x] = 0}
           G == {T \in SUBSET Z : SumOf(f, T) = 0}
<1>1. \A T \in SUBSET S : IsFiniteSet(T) /\ SumOf(f, T) \in Nat
  BY SumTypes
<1>2. {} \in G
  BY SumFacts
<1>3. ASSUME NEW T \in SUBSET Z, NEW x \in T, T \ {x} \in G PROVE T \in G
  <2>1. IsFiniteSet(T) /\ \A y \in T : f[y] \in Nat
    BY <1>1
  <2>2. SumOf(f, T) = f[x] + SumOf(f, T \ {x})
    BY <2>1, SumRemove
  <2>3. QED
    BY <1>3, <2>2
<1>4. Z \in G
  <2>1. IsFiniteSet(Z)
    BY <1>1
  <2> HIDE DEF G, Z
  <2>2. QED
    BY <1>2, <1>3, <2>1, Subsets
<1>5. S = P \union Z /\ P \intersect Z = {} /\ IsFiniteSet(P) /\ IsFiniteSet(Z)
  BY <1>1
<1>6. SumOf(f, P \union Z) = SumOf(f, P) + SumOf(f, Z)
  <2> HIDE DEF P, Z
  <2>1. QED
    BY <1>5, SumUnion
<1>7. SumOf(f, P) \in Nat
  BY <1>1
<1>8. SumOf(f, Z) = 0
  BY <1>4
<1>9. SumOf(f, S) = SumOf(f, P)
  <2> HIDE DEF P, Z
  <2>1. QED
    BY <1>5, <1>6, <1>7, <1>8
<1>10. QED
  BY <1>9

----------------------------------------------------------------------------
(* The folds of the models are such sums.                                  *)

(* A fold of the models that adds a function's values is such a sum.       *)
LEMMA FoldIsSum ==
    ASSUME NEW S, IsFiniteSet(S), NEW f, \A x \in S : f[x] \in Nat
    PROVE  MapThenSumSet(LAMBDA x : f[x], S) = SumOf(f, S)
<1>1. PICK g \in [SUBSET S -> Nat] : Summing(g, f, S)
  BY SumsExist
<1>2. g = [s \in SUBSET S |-> IF s = {} THEN 0
                             ELSE LET x == CHOOSE x \in s : TRUE IN f[x] + g[s \ {x}]]
  BY <1>1 DEF Summing, Chosen
<1>3. PICK h : /\ h = [s \in SUBSET S |-> IF s = {} THEN 0
                             ELSE LET x == CHOOSE x \in s : TRUE IN f[x] + h[s \ {x}]]
               /\ MapThenSumSet(LAMBDA x : f[x], S) = h[S]
  BY <1>2 DEF MapThenSumSet, MapThenFoldSet
<1>4. Summing(h, f, S)
  BY <1>3 DEF Summing, Chosen
<1>5. QED
  BY <1>3, <1>4, SumIs

(* So are the results of some samples,                                     *)
LEMMA TotalIsSum ==
    ASSUME NEW S, IsFiniteSet(S), NEW f, \A s \in S : s.total \in Nat /\ f[s] = s.total
    PROVE  Total(S) = SumOf(f, S)
<1>0. \A x \in S : f[x] \in Nat
  OBVIOUS
<1>1. PICK g \in [SUBSET S -> Nat] : Summing(g, f, S)
  BY <1>0, SumsExist
<1>2. g = [s \in SUBSET S |-> IF s = {} THEN 0
                             ELSE LET x == CHOOSE x \in s : TRUE IN x.total + g[s \ {x}]]
  <2>1. \A s \in SUBSET S : s # {} => Chosen(s) \in S /\ f[Chosen(s)] = Chosen(s).total
    BY ChosenFrom
  <2>2. g = [s \in SUBSET S |-> IF s = {} THEN 0
                                ELSE Chosen(s).total + g[s \ {Chosen(s)}]]
    BY <1>1, <2>1 DEF Summing
  <2>3. QED
    BY <2>2 DEF Chosen
<1>3. PICK h : /\ h = [s \in SUBSET S |-> IF s = {} THEN 0
                             ELSE LET x == CHOOSE x \in s : TRUE IN x.total + h[s \ {x}]]
               /\ Total(S) = h[S]
  BY <1>2 DEF Total, MapThenSumSet, MapThenFoldSet
<1>4. Summing(h, f, S)
  <2>1. \A s \in SUBSET S : s # {} => Chosen(s) \in S /\ f[Chosen(s)] = Chosen(s).total
    BY ChosenFrom
  <2>2. h = [s \in SUBSET S |-> IF s = {} THEN 0
                                ELSE Chosen(s).total + h[s \ {Chosen(s)}]]
    BY <1>3 DEF Chosen
  <2>3. QED
    BY <2>1, <2>2 DEF Summing
<1>5. QED
  BY <1>0, <1>3, <1>4, SumIs

(* the good ones among them,                                               *)
LEMMA OkTotalIsSum ==
    ASSUME NEW S, IsFiniteSet(S), NEW f, \A s \in S : s.ok \in Nat /\ f[s] = s.ok
    PROVE  OkTotal(S) = SumOf(f, S)
<1>0. \A x \in S : f[x] \in Nat
  OBVIOUS
<1>1. PICK g \in [SUBSET S -> Nat] : Summing(g, f, S)
  BY <1>0, SumsExist
<1>2. g = [s \in SUBSET S |-> IF s = {} THEN 0
                             ELSE LET x == CHOOSE x \in s : TRUE IN x.ok + g[s \ {x}]]
  <2>1. \A s \in SUBSET S : s # {} => Chosen(s) \in S /\ f[Chosen(s)] = Chosen(s).ok
    BY ChosenFrom
  <2>2. g = [s \in SUBSET S |-> IF s = {} THEN 0
                                ELSE Chosen(s).ok + g[s \ {Chosen(s)}]]
    BY <1>1, <2>1 DEF Summing
  <2>3. QED
    BY <2>2 DEF Chosen
<1>3. PICK h : /\ h = [s \in SUBSET S |-> IF s = {} THEN 0
                             ELSE LET x == CHOOSE x \in s : TRUE IN x.ok + h[s \ {x}]]
               /\ OkTotal(S) = h[S]
  BY <1>2 DEF OkTotal, MapThenSumSet, MapThenFoldSet
<1>4. Summing(h, f, S)
  <2>1. \A s \in SUBSET S : s # {} => Chosen(s) \in S /\ f[Chosen(s)] = Chosen(s).ok
    BY ChosenFrom
  <2>2. h = [s \in SUBSET S |-> IF s = {} THEN 0
                                ELSE Chosen(s).ok + h[s \ {Chosen(s)}]]
    BY <1>3 DEF Chosen
  <2>3. QED
    BY <2>1, <2>2 DEF Summing
<1>5. QED
  BY <1>0, <1>3, <1>4, SumIs

(* the samples of some rows                                                *)
LEMMA SampleCountIsSum ==
    ASSUME NEW S, IsFiniteSet(S), NEW f, \A s \in S : s.sampleCount \in Nat /\ f[s] = s.sampleCount
    PROVE  SampleCount(S) = SumOf(f, S)
<1>0. \A x \in S : f[x] \in Nat
  OBVIOUS
<1>1. PICK g \in [SUBSET S -> Nat] : Summing(g, f, S)
  BY <1>0, SumsExist
<1>2. g = [s \in SUBSET S |-> IF s = {} THEN 0
                             ELSE LET x == CHOOSE x \in s : TRUE IN x.sampleCount + g[s \ {x}]]
  <2>1. \A s \in SUBSET S : s # {} => Chosen(s) \in S /\ f[Chosen(s)] = Chosen(s).sampleCount
    BY ChosenFrom
  <2>2. g = [s \in SUBSET S |-> IF s = {} THEN 0
                                ELSE Chosen(s).sampleCount + g[s \ {Chosen(s)}]]
    BY <1>1, <2>1 DEF Summing
  <2>3. QED
    BY <2>2 DEF Chosen
<1>3. PICK h : /\ h = [s \in SUBSET S |-> IF s = {} THEN 0
                             ELSE LET x == CHOOSE x \in s : TRUE IN x.sampleCount + h[s \ {x}]]
               /\ SampleCount(S) = h[S]
  BY <1>2 DEF SampleCount, MapThenSumSet, MapThenFoldSet
<1>4. Summing(h, f, S)
  <2>1. \A s \in SUBSET S : s # {} => Chosen(s) \in S /\ f[Chosen(s)] = Chosen(s).sampleCount
    BY ChosenFrom
  <2>2. h = [s \in SUBSET S |-> IF s = {} THEN 0
                                ELSE Chosen(s).sampleCount + h[s \ {Chosen(s)}]]
    BY <1>3 DEF Chosen
  <2>3. QED
    BY <2>1, <2>2 DEF Summing
<1>5. QED
  BY <1>0, <1>3, <1>4, SumIs

(* and their errors.                                                       *)
LEMMA ErrorCountIsSum ==
    ASSUME NEW S, IsFiniteSet(S), NEW f, \A s \in S : f[s] \in Nat /\ f[s] = RowErrors(s)
    PROVE  ErrorCount(S) = SumOf(f, S)
<1>0. \A x \in S : f[x] \in Nat
  OBVIOUS
<1>1. PICK g \in [SUBSET S -> Nat] : Summing(g, f, S)
  BY <1>0, SumsExist
<1>2. g = [s \in SUBSET S |-> IF s = {} THEN 0
                             ELSE LET x == CHOOSE x \in s : TRUE IN RowErrors(x) + g[s \ {x}]]
  <2>1. \A s \in SUBSET S : s # {} => Chosen(s) \in S /\ f[Chosen(s)] = RowErrors(Chosen(s))
    BY ChosenFrom
  <2>2. g = [s \in SUBSET S |-> IF s = {} THEN 0
                                ELSE RowErrors(Chosen(s)) + g[s \ {Chosen(s)}]]
    BY <1>1, <2>1 DEF Summing
  <2>3. QED
    BY <2>2 DEF Chosen
<1>3. PICK h : /\ h = [s \in SUBSET S |-> IF s = {} THEN 0
                             ELSE LET x == CHOOSE x \in s : TRUE IN RowErrors(x) + h[s \ {x}]]
               /\ ErrorCount(S) = h[S]
  BY <1>2 DEF ErrorCount, MapThenSumSet, MapThenFoldSet
<1>4. Summing(h, f, S)
  <2>1. \A s \in SUBSET S : s # {} => Chosen(s) \in S /\ f[Chosen(s)] = RowErrors(Chosen(s))
    BY ChosenFrom
  <2>2. h = [s \in SUBSET S |-> IF s = {} THEN 0
                                ELSE RowErrors(Chosen(s)) + h[s \ {Chosen(s)}]]
    BY <1>3 DEF Chosen
  <2>3. QED
    BY <2>1, <2>2 DEF Summing
<1>5. QED
  BY <1>0, <1>3, <1>4, SumIs

----------------------------------------------------------------------------
(* Whole numbers.                                                          *)

(* The quotient of whole numbers rounds down.                              *)
LEMMA DivFacts ==
    ASSUME NEW a \in Int, NEW b \in Nat, b > 0
    PROVE  /\ a \div b \in Int
           /\ b * (a \div b) <= a
           /\ a < b * (a \div b) + b
OBVIOUS

(* The greater of two numbers.                                             *)
LEMMA MaxOfTwo ==
    ASSUME NEW a \in Int, NEW b \in Int
    PROVE  Max({a, b}) = (IF a >= b THEN a ELSE b) /\ Max({a, b}) \in Int
BY DEF Max

(* The smaller of two numbers.                                             *)
LEMMA MinOfTwo ==
    ASSUME NEW a \in Int, NEW b \in Int
    PROVE  Min({a, b}) = (IF a <= b THEN a ELSE b) /\ Min({a, b}) \in Int
BY DEF Min

(* Products with the same factor are ordered as what they multiply,        *)
LEMMA Scale ==
    ASSUME NEW a \in Int, NEW b \in Int, NEW n \in Nat
    PROVE  a * n < b * n => a + 1 <= b
OBVIOUS

(* and the other way round.                                                *)
LEMMA ScaleUp ==
    ASSUME NEW a \in Int, NEW b \in Int, NEW n \in Nat
    PROVE  a <= b => a * n <= b * n
OBVIOUS

(* The uptime a row shows, and the exact one.                              *)
LEMMA UptimeFacts ==
    ASSUME NEW total \in Nat, NEW ok \in 0..total
    PROVE  /\ UptimePct(ok, total) \in 0..10000
           /\ total > 0 =>
                /\ 2 * (UptimePct(ok, total) * total) <= 20000 * ok + total
                /\ 20000 * ok < 2 * (UptimePct(ok, total) * total) + total
<1>1. CASE total = 0
  BY <1>1 DEF UptimePct
<1>2. CASE total > 0
  <2> DEFINE u == (20000 * ok + total) \div (2 * total)
  <2>1. UptimePct(ok, total) = u
    BY <1>2 DEF UptimePct
  <2>2. u \in Int /\ (2 * total) * u <= 20000 * ok + total
        /\ 20000 * ok + total < (2 * total) * u + 2 * total
    BY <1>2, DivFacts
  <2> HIDE DEF u
  <2>3. (2 * total) * u = 2 * (u * total) /\ u * total \in Int
    BY <2>2
  <2>4. u >= 0
    <3>1. (-1) * total < u * total
      BY <1>2, <2>2, <2>3
    <3>2. QED
      BY <2>2, <3>1, Scale
  <2>5. u <= 10000
    <3>1. u * total < 10001 * total
      BY <1>2, <2>2, <2>3
    <3>2. QED
      BY <2>2, <3>1, Scale
  <2>6. QED
    BY <2>1, <2>2, <2>3, <2>4, <2>5
<1>3. total = 0 \/ total > 0
  OBVIOUS
<1>4. QED
  BY <1>1, <1>2, <1>3

----------------------------------------------------------------------------
(* Samples.                                                                *)

SamplesInv == IsFiniteSet(samples) /\ samples \subseteq Arrivals

(* The table of samples is a finite set of samples that arrived.           *)
LEMMA SamplesInvariant == Spec => []SamplesInv
<1>1. Init => SamplesInv
  BY FS_EmptySet DEF Init, SamplesInv
<1>2. SamplesInv /\ [Next]_vars => SamplesInv'
  <2> SUFFICES ASSUME SamplesInv, [Next]_vars PROVE SamplesInv'
    OBVIOUS
  <2>1. ASSUME NEW s \in Arrivals, Store(s) PROVE SamplesInv'
    BY <2>1, FS_AddElement DEF SamplesInv, Store
  <2>2. CASE UNCHANGED samples
    BY <2>2 DEF SamplesInv
  <2>3. QED
    BY <2>1, <2>2 DEF Next, Tick, Rest, vars
<1>3. QED
  BY <1>1, <1>2, PTL DEF Spec

(* Of the results of some samples, no more are good than there are.        *)
LEMMA SampleTotals ==
    ASSUME NEW S, IsFiniteSet(S), S \subseteq Arrivals
    PROVE  Total(S) \in Nat /\ OkTotal(S) \in 0..Total(S)
<1> DEFINE all == [s \in S |-> s.total]
           good == [s \in S |-> s.ok]
<1>1. \A s \in S : /\ s.total \in Nat /\ s.ok \in Nat /\ s.ok <= s.total
                   /\ all[s] = s.total /\ good[s] = s.ok
  BY MetricsAssumption
<1> HIDE DEF all, good
<1>2. Total(S) = SumOf(all, S) /\ OkTotal(S) = SumOf(good, S)
  BY <1>1, TotalIsSum, OkTotalIsSum
<1>3. SumOf(good, S) \in Nat /\ SumOf(all, S) \in Nat /\ SumOf(good, S) <= SumOf(all, S)
  BY <1>1, SumBelow
<1>4. QED
  BY <1>2, <1>3

----------------------------------------------------------------------------
(* Objectives.                                                             *)

(* What a single row adds up to.                                           *)
LEMMA SingleRow ==
    ASSUME NEW r, r.sampleCount \in Nat, RowErrors(r) \in Nat
    PROVE  SampleCount({r}) = r.sampleCount /\ ErrorCount({r}) = RowErrors(r)
<1> DEFINE counts == [row \in {r} |-> row.sampleCount]
           errors == [row \in {r} |-> RowErrors(row)]
<1>1. IsFiniteSet({r}) /\ {r} \ {r} = {}
  BY FS_Singleton
<1>2. \A row \in {r} : /\ counts[row] \in Nat /\ counts[row] = row.sampleCount
                       /\ errors[row] \in Nat /\ errors[row] = RowErrors(row)
  OBVIOUS
<1>3. counts[r] = r.sampleCount /\ errors[r] = RowErrors(r)
  OBVIOUS
<1> HIDE DEF counts, errors
<1>4. SampleCount({r}) = SumOf(counts, {r}) /\ ErrorCount({r}) = SumOf(errors, {r})
  BY <1>1, <1>2, SampleCountIsSum, ErrorCountIsSum
<1>5. /\ SumOf(counts, {r}) = counts[r] + SumOf(counts, {})
      /\ SumOf(errors, {r}) = errors[r] + SumOf(errors, {})
  BY <1>1, <1>2, SumRemove
<1>6. SumOf(counts, {}) = 0 /\ SumOf(errors, {}) = 0
  BY <1>1, <1>2, SumFacts
<1>7. QED
  BY <1>3, <1>4, <1>5, <1>6

(* What an evaluation says of an empty window.                             *)
LEMMA EvaluateSloEmpty ==
    ASSUME NEW ok, NEW target \in sloTargets
    PROVE  LET e == EvaluateSlo(ok, 0, target)
           IN  e.compliant /\ ~e.burnsBudget /\ ~e.pagingSeverity
<1> DEFINE e == EvaluateSlo(ok, 0, target)
           x == e.compliant
           y == e.burnsBudget
           z == e.pagingSeverity
           a == 1 * 10000
           b == target * 1
           c == (1 - 1) * 10000
           d == 1 * (10000 - target)
           d2 == 2 * (1 * (10000 - target))
<1>1. x = (a >= b) /\ y = (c > d) /\ z = (c > d2)
  BY DEF EvaluateSlo
<1>2. a >= b /\ ~(c > d) /\ ~(c > d2)
  BY DEF sloTargets
<1> HIDE DEF x, y, z, a, b, c, d, d2
<1>3. x
  BY <1>1, <1>2, Zenon
<1>4. ~y
  BY <1>1, <1>2, Zenon
<1>5. ~z
  BY <1>1, <1>2, Zenon
<1>6. QED
  BY <1>3, <1>4, <1>5 DEF x, y, z

(* The verdicts of an objective whose row has an uptime u: e is what the   *)
(* exact error rate and the row's differ in.                               *)
LEMMA SloRowFacts ==
    ASSUME NEW total \in Nat, NEW u \in Nat, u <= 10000,
           NEW target \in sloTargets, total > 0,
           NEW shown, shown = SloRow({[uptimePct |-> u, sampleCount |-> total]}, target)
    PROVE  /\ shown.remaining > 0 => 10000 - u < 10000 - target
           /\ 10000 - u >= 2 * (10000 - target)
                => shown.remaining = 0 /\ shown.burnTenths >= 20
<1> DEFINE r == [uptimePct |-> u, sampleCount |-> total]
           B == 10000 - target
           error == (10000 - u) * total
           budget == B * total
           share == (200 * (budget - error) + budget) \div (2 * budget)
           burn == (20 * error + budget) \div (2 * budget)
<1>1. B \in Nat /\ B > 0 /\ 10000 - u \in Nat
  BY DEF sloTargets
<1>2. budget \in Nat /\ budget > 0 /\ error \in Nat
  BY <1>1
<1>3. SampleCount({r}) = total /\ ErrorCount({r}) = error
  <2>1. r.sampleCount = total /\ RowErrors(r) = error
    BY DEF RowErrors
  <2> HIDE DEF r, error
  <2>2. QED
    BY <1>2, <2>1, SingleRow
<1>4. Max({1, B}) = B /\ Max({1, total}) = total
  BY <1>1, MaxOfTwo
<1>5. SloRow({r}, target) = [remaining |-> Max({0, Min({100, share})}), burnTenths |-> burn]
  <2> DEFINE rows == {r}
  <2>1. total # 0 /\ budget = Max({1, 10000 - target}) * Max({1, total})
    BY <1>4
  <2>2. SampleCount(rows) = total /\ ErrorCount(rows) = error
    BY <1>3
  <2> HIDE DEF budget, B, rows, error
  <2>3. SloRow(rows, target) =
            [remaining |-> Max({0, Min({100, (200 * (budget - error) + budget) \div (2 * budget)})}),
             burnTenths |-> (20 * error + budget) \div (2 * budget)]
    BY <2>1, <2>2 DEF SloRow
  <2>4. QED
    BY <2>3 DEF rows
<1> HIDE DEF error, budget
<1>6. /\ share \in Int /\ (2 * budget) * share <= 200 * (budget - error) + budget
      /\ burn \in Int /\ 20 * error + budget < (2 * budget) * burn + 2 * budget
  BY <1>2, DivFacts
<1> HIDE DEF share, burn
<1> DEFINE least == Min({100, share})
<1>12. least = (IF 100 <= share THEN 100 ELSE share) /\ least \in Int
  <2>1. share \in Int
    BY <1>6
  <2>2. QED
    BY <2>1, MinOfTwo
<1> HIDE DEF least
<1>13. Max({0, least}) = IF 0 >= least THEN 0 ELSE least
  BY <1>12, MaxOfTwo
<1>7. Max({0, least}) > 0 => share > 0
  BY <1>6, <1>12, <1>13
<1>8. share <= 0 => Max({0, least}) = 0
  BY <1>6, <1>12, <1>13
<1>9. ASSUME share > 0 PROVE 10000 - u < B
  <2>1. 1 * (2 * budget) <= share * (2 * budget)
    BY <1>2, <1>6, <1>9, ScaleUp
  <2>2. (2 * budget) * share = share * (2 * budget)
    BY <1>2, <1>6
  <2>3. error < budget
    BY <1>2, <1>6, <2>1, <2>2
  <2>4. QED
    BY <1>1, <2>3, Scale DEF error, budget
<1>10. ASSUME 10000 - u >= 2 * B PROVE share <= 0 /\ burn >= 20
  <2>1. error >= 2 * budget
    <3>1. (2 * B) * total <= (10000 - u) * total
      BY <1>1, <1>10, ScaleUp
    <3>2. (2 * B) * total = 2 * (B * total)
      BY <1>1
    <3>3. QED
      BY <3>1, <3>2 DEF error, budget
  <2>2. ASSUME share > 0 PROVE FALSE
    <3>1. 10000 - u < B
      BY <1>9, <2>2
    <3>2. QED
      BY <1>1, <1>10, <3>1
  <2>3. 20 < burn + 1
    <3>1. 20 * (2 * budget) < (burn + 1) * (2 * budget)
      BY <1>2, <1>6, <2>1
    <3>2. QED
      BY <1>2, <1>6, <3>1, Scale
  <2>4. QED
    BY <1>6, <2>2, <2>3
<1>11. QED
  <2> HIDE DEF B, r
  <2>1. shown.remaining = Max({0, least}) /\ shown.burnTenths = burn
    BY <1>5 DEF least, r
  <2>2. QED
    BY <1>7, <1>8, <1>9, <1>10, <2>1 DEF B, r

(* The arithmetic of an objective, for every window of results.            *)
LEMMA BudgetArithmetic ==
    ASSUME NEW total \in Nat, NEW ok \in 0..total, NEW target \in sloTargets
    PROVE  LET exact == EvaluateSlo(ok, total, target)
               shown == SloRow({[uptimePct |-> UptimePct(ok, total), sampleCount |-> total]},
                               target)
           IN  /\ shown.remaining > 0 => exact.compliant
               /\ exact.compliant <=> ~exact.burnsBudget
               /\ exact.pagingSeverity =>
                    exact.remainingBudget = 0 /\ shown.remaining = 0 /\ shown.burnTenths >= 20
<1> DEFINE u == UptimePct(ok, total)
           shown == SloRow({[uptimePct |-> u, sampleCount |-> total]}, target)
           exact == EvaluateSlo(ok, total, target)
           B == 10000 - target
<1>1. CASE total = 0
  BY <1>1, EvaluateSloEmpty
<1>2. CASE total > 0
  <2> DEFINE c == (total - ok) * 10000
             d == total * B
             P == u * total
  <2>1. B \in {50, 10, 100} /\ target = 10000 - B
    BY DEF sloTargets
  <2>2. c \in Nat /\ d \in Nat /\ ok * 10000 = 10000 * total - c
        /\ target * total = 10000 * total - d /\ d = B * total
    BY <2>1
  <2> DEFINE complies == exact.compliant
             burns == exact.burnsBudget
             pages == exact.pagingSeverity
             left == exact.remainingBudget
  <2>3. /\ complies <=> ok * 10000 >= target * total
        /\ burns <=> c > d
        /\ pages <=> c > 2 * d
        /\ left = Max({0, d - c})
    <3> DEFINE a == ok * 10000
               b == target * total
               d2 == 2 * d
    <3>1. complies = (a >= b) /\ burns = (c > d) /\ pages = (c > d2) /\ left = Max({0, d - c})
      BY <1>2 DEF EvaluateSlo
    <3> HIDE DEF complies, burns, pages, left, a, b, c, d, d2
    <3>2. complies <=> a >= b
      BY <3>1, Zenon
    <3>3. burns <=> c > d
      BY <3>1, Zenon
    <3>4. pages <=> c > d2
      BY <3>1, Zenon
    <3>5. QED
      BY <3>1, <3>2, <3>3, <3>4 DEF a, b, d2
  <2>4. u \in Nat /\ u <= 10000 /\ P \in Nat /\ 2 * P <= 20000 * ok + total
        /\ 20000 * ok < 2 * P + total
    <3>1. u \in 0..10000 /\ 2 * (u * total) <= 20000 * ok + total
          /\ 20000 * ok < 2 * (u * total) + total
      BY <1>2, UptimeFacts
    <3> HIDE DEF u
    <3>2. QED
      BY <3>1
  <2> HIDE DEF u, exact, complies, burns, pages, left
  <2>5. /\ shown.remaining > 0 => 10000 - u < B
        /\ 10000 - u >= 2 * B => shown.remaining = 0 /\ shown.burnTenths >= 20
    <3>1. shown = SloRow({[uptimePct |-> u, sampleCount |-> total]}, target)
      OBVIOUS
    <3> HIDE DEF shown
    <3>2. QED
      BY <1>2, <2>4, <3>1, SloRowFacts DEF B
  <2> HIDE DEF shown, c, d, P
  <2>6. ok * 10000 >= target * total <=> ~(c > d)
    BY <2>2
  <2>7. ASSUME 10000 - u < B PROVE ~(c > d)
    <3>1. (10001 - B) * total <= P
      <4>1. 10001 - B <= u /\ 10001 - B \in Int /\ u \in Int
        BY <2>1, <2>4, <2>7
      <4>2. QED
        BY <4>1, ScaleUp DEF P
    <3>2. (10001 - B) * total = 10001 * total - d
      BY <2>1, <2>2
    <3>3. QED
      BY <2>2, <2>4, <3>1, <3>2
  <2>8. ASSUME c > 2 * d PROVE 10000 - u >= 2 * B /\ Max({0, d - c}) = 0
    <3>1. P < (10001 - 2 * B) * total
      <4>1. (10001 - 2 * B) * total = 10001 * total - 2 * d
        BY <2>1, <2>2
      <4>2. QED
        BY <1>2, <2>2, <2>4, <2>8, <4>1
    <3>2. u < 10001 - 2 * B
      BY <2>1, <2>4, <3>1, Scale DEF P
    <3>3. Max({0, d - c}) = 0
      BY <2>2, <2>8, MaxOfTwo
    <3>4. QED
      BY <2>1, <2>4, <3>2, <3>3
  <2>9. /\ shown.remaining > 0 => complies
        /\ complies <=> ~burns
        /\ pages =>
                left = 0 /\ shown.remaining = 0 /\ shown.burnTenths >= 20
    <3>1. shown.remaining > 0 => complies
      BY <2>3, <2>5, <2>6, <2>7
    <3>2. complies <=> ~burns
      BY <2>3, <2>6
    <3>3. pages =>
                left = 0 /\ shown.remaining = 0 /\ shown.burnTenths >= 20
      BY <2>3, <2>5, <2>8
    <3>4. QED
      BY <3>1, <3>2, <3>3
  <2>10. QED
    BY <2>9 DEF complies, burns, pages, left, exact, shown, u
<1>3. QED
  BY <1>1, <1>2

(* The share of its budget a group is shown to have left never tells a     *)
(* breach of its target for compliance, nor a page for a quiet day, for any*)
(* number of results: rounding the uptime to two digits on the way costs   *)
(* less than the smallest budget (operations-dashboard.tsx:1326-1352).     *)
THEOREM BudgetsHold == Spec => []BudgetsAgree
<1>1. ASSUME SamplesInv PROVE BudgetsAgree
  <2>1. \A S \in SUBSET samples : Total(S) \in Nat /\ OkTotal(S) \in 0..Total(S)
    <3> SUFFICES ASSUME NEW S \in SUBSET samples
                 PROVE  Total(S) \in Nat /\ OkTotal(S) \in 0..Total(S)
      OBVIOUS
    <3>1. IsFiniteSet(S) /\ S \subseteq Arrivals
      BY <1>1, FS_Subset DEF SamplesInv
    <3>2. QED
      BY <3>1, SampleTotals
  <2>2. \A w \in Windows \union {[ok |-> OkTotal(S), total |-> Total(S)] : S \in SUBSET samples} :
            w.total \in Nat /\ w.ok \in 0..w.total
    BY <2>1, ViewAssumption, SMTT(30)
  <2>3. QED
    BY <2>2, BudgetArithmetic DEF BudgetsAgree
<1>2. QED
  BY <1>1, SamplesInvariant, PTL

----------------------------------------------------------------------------
(* Percentiles.                                                            *)

(* A finite set of integers has a least and a greatest element.            *)
LEMMA Extremes ==
    ASSUME NEW S, IsFiniteSet(S), S \subseteq Int, S # {}
    PROVE  /\ Min(S) \in S /\ \A x \in S : Min(S) <= x
           /\ Max(S) \in S /\ \A x \in S : x <= Max(S)
<1> DEFINE G == {T \in SUBSET S : T # {} => /\ \E m \in T : \A x \in T : m <= x
                                            /\ \E m \in T : \A x \in T : x <= m}
<1>1. {} \in G
  OBVIOUS
<1>2. ASSUME NEW T \in SUBSET S, NEW y \in T, T \ {y} \in G PROVE T \in G
  <2>1. CASE T \ {y} = {}
    <3>1. \A x \in T : x = y /\ y \in Int
      BY <2>1
    <3>2. QED
      BY <3>1
  <2>2. CASE T \ {y} # {}
    <3>1. PICK least \in T \ {y}, most \in T \ {y} :
              \A x \in T \ {y} : least <= x /\ x <= most
      BY <1>2, <2>2
    <3>2. least \in Int /\ most \in Int /\ y \in Int /\ \A x \in T : x \in Int
      OBVIOUS
    <3>3. \E m \in T : \A x \in T : m <= x
      <4>1. CASE y <= least
        BY <3>1, <3>2, <4>1
      <4>2. CASE ~(y <= least)
        BY <3>1, <3>2, <4>2
      <4>3. QED
        BY <4>1, <4>2
    <3>4. \E m \in T : \A x \in T : x <= m
      <4>1. CASE most <= y
        BY <3>1, <3>2, <4>1
      <4>2. CASE ~(most <= y)
        BY <3>1, <3>2, <4>2
      <4>3. QED
        BY <4>1, <4>2
    <3>5. QED
      BY <3>3, <3>4
  <2>3. QED
    BY <2>1, <2>2
<1> HIDE DEF G
<1>3. S \in G
  BY <1>1, <1>2, Subsets
<1>4. /\ \E m \in S : \A x \in S : m <= x
      /\ \E m \in S : \A x \in S : x <= m
  BY <1>3 DEF G
<1>5. Min(S) \in S /\ \A x \in S : Min(S) <= x
  BY <1>4 DEF Min
<1>6. Max(S) \in S /\ \A x \in S : x <= Max(S)
  <2>1. \E m \in S : \A x \in S : m >= x
    BY <1>4
  <2>2. Max(S) \in S /\ \A x \in S : Max(S) >= x
    BY <2>1 DEF Max
  <2>3. QED
    BY <2>2
<1>7. QED
  BY <1>5, <1>6

(* The nearest rank of a share of n values, in hundredths, is a place of   *)
(* theirs, and no place before it holds the share.                         *)
RankOf(pct, n) == Max({0, ((pct * n + 99) \div 100) - 1})

(* The rank the code takes is a place of the sorted latencies whose share  *)
(* reaches pct, and the place before it falls short.                       *)
LEMMA NearestRank ==
    ASSUME NEW pct \in Nat, pct <= 100, NEW n \in Nat, n > 0
    PROVE  /\ RankOf(pct, n) \in Nat /\ RankOf(pct, n) < n
           /\ pct * n <= 100 * (RankOf(pct, n) + 1)
           /\ RankOf(pct, n) = 0 \/ 100 * RankOf(pct, n) < pct * n
<1> DEFINE rank == RankOf(pct, n)
           m == pct * n
           k == (m + 99) \div 100
<1>1. m \in Nat /\ m <= 100 * n
  BY ScaleUp
<1> HIDE DEF m
<1>2. k \in Int /\ 100 * k <= m + 99 /\ m + 99 < 100 * k + 100 /\ k <= n
  BY <1>1
<1>3. rank = (IF 0 >= k - 1 THEN 0 ELSE k - 1)
  BY <1>2, MaxOfTwo DEF m, RankOf
<1> HIDE DEF k, rank
<1>4. /\ rank \in Nat /\ rank < n /\ m <= 100 * (rank + 1)
      /\ rank = 0 \/ 100 * rank < m
  BY <1>1, <1>2, <1>3
<1>5. QED
  BY <1>4 DEF m, rank

Clips(values) == [n \in DOMAIN values |-> Min({60000, Max({0, values[n]})})]
AtMost(c, v) == {n \in DOMAIN c : c[n] <= v}
Above(c, rank) == {v \in Range(c) : Cardinality(AtMost(c, v)) > rank}

(* Clipped latencies are between 0 and a minute, and a shorter one is as   *)
(* it was.                                                                 *)
LEMMA ClipsFacts ==
    ASSUME NEW values, \A n \in DOMAIN values : values[n] \in Nat
    PROVE  /\ DOMAIN Clips(values) = DOMAIN values
           /\ \A n \in DOMAIN values :
                /\ Clips(values)[n] = Clip(values[n])
                /\ Clips(values)[n] \in Nat /\ Clips(values)[n] <= 60000
                /\ values[n] <= 60000 => Clips(values)[n] = values[n]
<1>1. ASSUME NEW n \in DOMAIN values
      PROVE  /\ Clips(values)[n] = Clip(values[n])
             /\ Clips(values)[n] \in Nat /\ Clips(values)[n] <= 60000
             /\ values[n] <= 60000 => Clips(values)[n] = values[n]
  <2> DEFINE v == values[n]
  <2>1. v \in Nat /\ Clips(values)[n] = Min({60000, Max({0, v})})
    BY DEF Clips
  <2> HIDE DEF v
  <2>2. Max({0, v}) = v
    BY <2>1, MaxOfTwo
  <2>3. Min({60000, v}) = IF 60000 <= v THEN 60000 ELSE v
    BY <2>1, MinOfTwo
  <2>4. QED
    BY <2>1, <2>2, <2>3 DEF v, Clip
<1>2. QED
  BY <1>1 DEF Clips

(* The values of a bounded list are finitely many, and so are the places   *)
(* at or below one.                                                        *)
LEMMA RangeFacts ==
    ASSUME NEW k \in Nat,
           NEW c, IsFiniteSet(DOMAIN c), \A n \in DOMAIN c : c[n] \in Nat /\ c[n] <= k
    PROVE  /\ IsFiniteSet(Range(c)) /\ Range(c) \subseteq Nat
           /\ \A v : Cardinality(AtMost(c, v)) \in Nat
<1>1. \A v \in Range(c) : v \in Nat /\ v <= k
  BY DEF Range
<1>2. IsFiniteSet(Range(c))
  <2>1. Range(c) \in SUBSET Nat
    BY <1>1
  <2>2. QED
    BY <1>1, <2>1, FS_BoundedSetOfNaturals
<1>3. ASSUME NEW v PROVE Cardinality(AtMost(c, v)) \in Nat
  <2>1. AtMost(c, v) \in SUBSET DOMAIN c
    BY DEF AtMost
  <2>2. QED
    BY <2>1, FS_Subset, FS_CardinalityType
<1>4. QED
  BY <1>1, <1>2, <1>3

(* The least value that more than rank of the values lie at or below.      *)
LEMMA LeastAbove ==
    ASSUME NEW k \in Nat,
           NEW c, IsFiniteSet(DOMAIN c), \A n \in DOMAIN c : c[n] \in Nat /\ c[n] <= k,
           NEW rank \in Nat, rank < Cardinality(DOMAIN c)
    PROVE  LET least == Min(Above(c, rank))
           IN  /\ least \in Range(c) /\ Cardinality(AtMost(c, least)) > rank
               /\ \A v \in Range(c) : v < least => Cardinality(AtMost(c, v)) <= rank
<1> DEFINE least == Min(Above(c, rank))
           top == Max(Range(c))
<1>1. /\ IsFiniteSet(Range(c)) /\ Range(c) \subseteq Nat
      /\ \A v : Cardinality(AtMost(c, v)) \in Nat
  BY RangeFacts
<1>2. Range(c) # {}
  <2>1. DOMAIN c # {}
    BY FS_EmptySet
  <2>2. QED
    BY <2>1 DEF Range
<1>3. Range(c) \subseteq Int
  BY <1>1
<1>4. top \in Range(c) /\ \A x \in Range(c) : x <= top
  BY <1>1, <1>2, <1>3, Extremes
<1> HIDE DEF top
<1>5. AtMost(c, top) = DOMAIN c
  <2>1. \A n \in DOMAIN c : c[n] \in Range(c)
    BY DEF Range
  <2>2. QED
    BY <1>4, <2>1 DEF AtMost
<1>6. top \in Above(c, rank)
  BY <1>4, <1>5 DEF Above
<1>7. Above(c, rank) \in SUBSET Range(c)
  BY DEF Above
<1>8. IsFiniteSet(Above(c, rank)) /\ Above(c, rank) \subseteq Int /\ Above(c, rank) # {}
  BY <1>1, <1>3, <1>6, <1>7, FS_Subset
<1>9. least \in Above(c, rank) /\ \A v \in Above(c, rank) : least <= v
  BY <1>8, Extremes
<1> HIDE DEF least
<1>10. ASSUME NEW v \in Range(c), v < least PROVE Cardinality(AtMost(c, v)) <= rank
  <2>1. v \in Int /\ least \in Int /\ ~(least <= v)
    BY <1>3, <1>7, <1>9, <1>10
  <2>2. ~(Cardinality(AtMost(c, v)) > rank)
    BY <1>9, <2>1 DEF Above
  <2>3. Cardinality(AtMost(c, v)) \in Nat
    BY <1>1
  <2>4. QED
    BY <2>2, <2>3
<1>11. least \in Range(c) /\ Cardinality(AtMost(c, least)) > rank
  BY <1>9 DEF Above
<1>12. QED
  BY <1>10, <1>11 DEF least

(* Such a value of clipped ones is a percentile, m being the share of it.  *)
LEMMA LeastOfShare ==
    ASSUME NEW values, IsFiniteSet(DOMAIN values), \A n \in DOMAIN values : values[n] \in Nat,
           NEW rank \in Nat, rank < Cardinality(DOMAIN values),
           NEW m \in Nat, m <= 100 * (rank + 1), rank = 0 \/ 100 * rank < m,
           NEW shown, shown = Min(Above(Clips(values), rank))
    PROVE  /\ \E n \in DOMAIN values : shown = Clip(values[n])
           /\ 100 * Cardinality(AtMost(Clips(values), shown)) >= m
           /\ \A n \in DOMAIN values : values[n] < shown =>
                100 * Cardinality(AtMost(Clips(values), values[n])) < m
<1> DEFINE c == Clips(values)
<1>1. /\ DOMAIN c = DOMAIN values
      /\ \A n \in DOMAIN values :
            /\ c[n] = Clip(values[n])
            /\ c[n] \in Nat /\ c[n] <= 60000
            /\ values[n] <= 60000 => c[n] = values[n]
  BY ClipsFacts
<1> HIDE DEF c
<1>2. IsFiniteSet(DOMAIN c) /\ rank < Cardinality(DOMAIN c)
      /\ \A n \in DOMAIN c : c[n] \in Nat /\ c[n] <= 60000
  BY <1>1
<1>3. /\ shown \in Range(c) /\ Cardinality(AtMost(c, shown)) > rank
      /\ \A v \in Range(c) : v < shown => Cardinality(AtMost(c, v)) <= rank
  <2>1. shown = Min(Above(c, rank))
    BY DEF c
  <2>2. QED
    BY <1>2, <2>1, LeastAbove
<1>4. \A v : Cardinality(AtMost(c, v)) \in Nat
  BY <1>2, RangeFacts
<1>5. PICK k \in DOMAIN values : shown = c[k]
  BY <1>1, <1>3 DEF Range
<1>6. 100 * Cardinality(AtMost(c, shown)) >= m
  <2> DEFINE card == Cardinality(AtMost(c, shown))
  <2>1. card \in Nat /\ card > rank
    BY <1>3, <1>4
  <2> HIDE DEF card
  <2>2. 100 * card >= m
    BY <2>1
  <2>3. QED
    BY <2>2 DEF card
<1>7. ASSUME NEW n \in DOMAIN values, values[n] < shown
      PROVE  100 * Cardinality(AtMost(c, values[n])) < m
  <2>1. c[n] = values[n] /\ n \in AtMost(c, values[n])
    <3>1. shown \in Nat /\ shown <= 60000 /\ values[n] \in Nat
      BY <1>1, <1>5
    <3>2. c[n] = values[n]
      BY <1>1, <1>7, <3>1
    <3>3. QED
      BY <1>1, <3>1, <3>2 DEF AtMost
  <2>2. values[n] \in Range(c)
    BY <1>1, <2>1 DEF Range
  <2> DEFINE card == Cardinality(AtMost(c, values[n]))
  <2>3. card \in Nat /\ card <= rank
    BY <1>3, <1>4, <1>7, <2>2
  <2>4. card # 0
    <3>1. AtMost(c, values[n]) \in SUBSET DOMAIN c
      BY DEF AtMost
    <3>2. IsFiniteSet(AtMost(c, values[n])) /\ AtMost(c, values[n]) # {}
      BY <1>2, <2>1, <3>1, FS_Subset
    <3>3. QED
      BY <3>2, FS_EmptySet
  <2> HIDE DEF card
  <2>5. 100 * card < m
    BY <2>3, <2>4
  <2>6. QED
    BY <2>5 DEF card
<1>8. \E n \in DOMAIN values : shown = Clip(values[n])
  BY <1>1, <1>5
<1>9. QED
  BY <1>6, <1>7, <1>8 DEF c

(* The percentile is the least of the clipped values that more than the    *)
(* rank of them lie at or below.                                           *)
LEMMA PercentileIs ==
    ASSUME NEW values, NEW pct, values # <<>>
    PROVE  PercentileOf(values, pct, 60000) =
                Min(Above(Clips(values), RankOf(pct, Len(values))))
BY DEF PercentileOf, RankOf, Above, AtMost, Clips

(* The places of a list that is not empty: as many as it is long.          *)
LEMMA Places ==
    ASSUME NEW values \in Seq(Nat), values # <<>>
    PROVE  /\ Len(values) \in Nat /\ Len(values) > 0 /\ IsFiniteSet(DOMAIN values)
           /\ Cardinality(DOMAIN values) = Len(values)
           /\ \A n \in DOMAIN values : values[n] \in Nat
<1> DEFINE len == Len(values)
<1>1. len \in Nat /\ len > 0 /\ DOMAIN values = 1..len /\ \A n \in DOMAIN values : values[n] \in Nat
  OBVIOUS
<1> HIDE DEF len
<1>2. IsFiniteSet(1..len) /\ Cardinality(1..len) = IF 1 > len THEN 0 ELSE len - 1 + 1
  BY <1>1, FS_Interval
<1>3. QED
  BY <1>1, <1>2 DEF len

(* What is at or below a latency, in its own clipping.                     *)
LEMMA AtMostIs ==
    ASSUME NEW values, \A n \in DOMAIN values : values[n] \in Nat, NEW v
    PROVE  AtMost(Clips(values), v) = AtOrBelow(values, v)
<1>1. /\ DOMAIN Clips(values) = DOMAIN values
      /\ \A n \in DOMAIN values : Clips(values)[n] = Clip(values[n])
  BY ClipsFacts
<1>2. QED
  BY <1>1 DEF AtMost, AtOrBelow

(* Such a value has the nearest rank.                                      *)
LEMMA PercentileFacts ==
    ASSUME NEW values, IsFiniteSet(DOMAIN values), DOMAIN values # {},
           \A n \in DOMAIN values : values[n] \in Nat,
           NEW pct \in Nat, pct <= 100,
           NEW shown, shown = Min(Above(Clips(values), RankOf(pct, Cardinality(DOMAIN values))))
    PROVE  IsNearestRank(shown, values, pct)
<1> DEFINE len == Cardinality(DOMAIN values)
           rank == RankOf(pct, len)
           m == pct * len
<1>1. len \in Nat /\ len > 0
  BY FS_CardinalityType, FS_EmptySet
<1> HIDE DEF len
<1>2. /\ rank \in Nat /\ rank < len /\ m <= 100 * (rank + 1)
      /\ rank = 0 \/ 100 * rank < m
  BY <1>1, NearestRank
<1>3. m \in Nat /\ rank < Cardinality(DOMAIN values)
  BY <1>1, <1>2 DEF len
<1>4. shown = Min(Above(Clips(values), rank))
  BY DEF len
<1> HIDE DEF rank, m
<1>5. /\ \E n \in DOMAIN values : shown = Clip(values[n])
      /\ 100 * Cardinality(AtMost(Clips(values), shown)) >= m
      /\ \A n \in DOMAIN values : values[n] < shown =>
            100 * Cardinality(AtMost(Clips(values), values[n])) < m
  BY <1>2, <1>3, <1>4, LeastOfShare
<1>6. \A v : AtMost(Clips(values), v) = AtOrBelow(values, v)
  BY AtMostIs
<1>7. QED
  BY <1>5, <1>6 DEF IsNearestRank, m, len

(* The percentile of latencies has the nearest rank.                       *)
LEMMA PercentileHolds ==
    ASSUME NEW values \in Seq(Nat), values # <<>>, NEW pct \in Nat, pct <= 100
    PROVE  IsNearestRank(PercentileOf(values, pct, 60000), values, pct)
<1>1. /\ IsFiniteSet(DOMAIN values) /\ DOMAIN values # {}
      /\ Cardinality(DOMAIN values) = Len(values) /\ \A n \in DOMAIN values : values[n] \in Nat
  BY Places, FS_EmptySet
<1> DEFINE shown == PercentileOf(values, pct, 60000)
<1>2. shown = Min(Above(Clips(values), RankOf(pct, Cardinality(DOMAIN values))))
  BY <1>1, PercentileIs
<1> HIDE DEF shown
<1>3. IsNearestRank(shown, values, pct)
  BY <1>1, <1>2, PercentileFacts
<1>4. QED
  BY <1>3 DEF shown

(* The samples can be put in a sequence.                                   *)
LEMMA Listed ==
    ASSUME NEW S, IsFiniteSet(S)
    PROVE  SetToSeq(S) \in Seq(S)
<1>1. Cardinality(S) \in Nat /\ ExistsBijection(1..Cardinality(S), S)
  BY FS_CardinalityType
<1>2. \E f \in [1..Cardinality(S) -> S] : IsInjective(f)
  BY <1>1 DEF ExistsBijection, Bijection, Injection, IsInjective
<1>3. SetToSeq(S) \in [1..Cardinality(S) -> S]
  BY <1>2 DEF SetToSeq
<1>4. QED
  BY <1>1, <1>3

(* A percentile the dashboard computes is one of the clipped latencies, and*)
(* the nearest rank to its share, for any latencies, also at the ends and  *)
(* for a single one (core/src/slo.ts).                                     *)
THEOREM PercentilesHold == Spec => []PercentileIsNearestRank
<1>1. ASSUME SamplesInv PROVE PercentileIsNearestRank
  <2> DEFINE stored == SetToSeq(samples)
             latencies == [n \in DOMAIN stored |-> stored[n].latency]
  <2>1. latencies \in Seq(Nat)
    <3>1. stored \in Seq(samples) /\ \A s \in samples : s.latency \in Nat
      BY <1>1, Listed, MetricsAssumption DEF SamplesInv
    <3> HIDE DEF stored
    <3>2. Len(stored) \in Nat /\ DOMAIN stored = 1..Len(stored)
          /\ \A n \in 1..Len(stored) : stored[n] \in samples
      BY <3>1
    <3>3. latencies \in [1..Len(stored) -> Nat]
      BY <3>1, <3>2
    <3>4. QED
      BY <3>2, <3>3
  <2>2. \A values \in Latencies \union {latencies} : values \in Seq(Nat)
    BY <2>1, ViewAssumption
  <2> HIDE DEF latencies
  <2>3. ASSUME NEW values \in Latencies \union {latencies},
               NEW pct \in {0, 50, 95, 99, 100}, values # <<>>
        PROVE  IsNearestRank(PercentileOf(values, pct, 60000), values, pct)
    <3>1. values \in Seq(Nat) /\ pct \in Nat /\ pct <= 100
      BY <2>2
    <3>2. QED
      BY <2>3, <3>1, PercentileHolds
  <2>4. QED
    BY <2>3 DEF PercentileIsNearestRank, latencies
<1>2. QED
  BY <1>1, SamplesInvariant, PTL

----------------------------------------------------------------------------
(* The latency series.                                                     *)

(* What is counted of a query's buckets is the sum of what each holds.     *)
LEMMA CountedIsSum ==
    ASSUME NEW shown, IsFiniteSet(DOMAIN shown), NEW f,
           \A n \in DOMAIN shown : shown[n].total \in Nat /\ f[n] = shown[n].total
    PROVE  Counted(shown) = SumOf(f, DOMAIN shown)
<1> DEFINE S == {n \in DOMAIN shown : shown[n].total > 0}
<1>0. IsFiniteSet(S) /\ (\A x \in S : f[x] \in Nat /\ f[x] = shown[x].total)
      /\ \A x \in DOMAIN shown : f[x] \in Nat
  <2>1. S \in SUBSET DOMAIN shown
    OBVIOUS
  <2>2. IsFiniteSet(S)
    BY <2>1, FS_Subset
  <2>3. QED
    BY <2>2
<1>1. Counted(shown) = MapThenSumSet(LAMBDA n : shown[n].total, S)
  BY DEF Counted
<1>2. S = {n \in DOMAIN shown : f[n] > 0}
  OBVIOUS
<1>3. SumOf(f, DOMAIN shown) = SumOf(f, S)
  <2> HIDE DEF S
  <2>1. QED
    BY <1>0, <1>2, SumNonZero
<1> HIDE DEF S
<1>4. PICK g \in [SUBSET S -> Nat] : Summing(g, f, S)
  BY <1>0, SumsExist
<1>5. g = [s \in SUBSET S |-> IF s = {} THEN 0
                             ELSE LET x == CHOOSE x \in s : TRUE IN shown[x].total + g[s \ {x}]]
  <2>1. \A s \in SUBSET S : s # {} => Chosen(s) \in S /\ f[Chosen(s)] = shown[Chosen(s)].total
    BY <1>0, ChosenFrom
  <2>2. g = [s \in SUBSET S |-> IF s = {} THEN 0
                                ELSE shown[Chosen(s)].total + g[s \ {Chosen(s)}]]
    BY <1>4, <2>1 DEF Summing
  <2>3. QED
    BY <2>2 DEF Chosen
<1>6. PICK h : /\ h = [s \in SUBSET S |-> IF s = {} THEN 0
                             ELSE LET x == CHOOSE x \in s : TRUE IN shown[x].total + h[s \ {x}]]
               /\ Counted(shown) = h[S]
  BY <1>1, <1>5 DEF MapThenSumSet, MapThenFoldSet
<1>7. Summing(h, f, S)
  <2>1. \A s \in SUBSET S : s # {} => Chosen(s) \in S /\ f[Chosen(s)] = shown[Chosen(s)].total
    BY <1>0, ChosenFrom
  <2>2. h = [s \in SUBSET S |-> IF s = {} THEN 0
                                ELSE shown[Chosen(s)].total + h[s \ {Chosen(s)}]]
    BY <1>6 DEF Chosen
  <2>3. QED
    BY <2>1, <2>2 DEF Summing
<1>8. S \in SUBSET S
  OBVIOUS
<1>9. h[S] = SumOf(f, S)
  BY <1>0, <1>7, <1>8, SumIs
<1>10. QED
  BY <1>3, <1>6, <1>9

Point(w, S, b) ==
    LET B == {s \in S : TimeBucket(w, s.at) = b}
    IN  [at |-> b, total |-> Total(B), p50 |-> Latency(B, 50, Null),
         p95 |-> Latency(B, 95, Null), p99 |-> Latency(B, 99, Null)]

Points(w, S, b, n) == [i \in 1..n |-> Point(w, S, b + (i - 1) * w)]

Blank == [at |-> Null, total |-> 0, p50 |-> Null, p95 |-> Null, p99 |-> Null]

Padded(p, blank, shown) == [i \in 1..p - Len(shown) |-> blank] \o shown

(* The answer, put together from the operators above.                      *)
LEMMA LatencySeriesIs ==
    ASSUME NEW q, NEW w, w = BucketMinutes(q), NEW from, from = now - RangeMinutes(q),
           NEW S, S = Selected(q, from), NEW b, b = TimeBucket(w, from),
           NEW steps, steps = (TimeBucket(w, now) - b) \div w,
           NEW rows, rows = Points(w, S, b, steps + 1),
           NEW shown, shown = Trailing(rows, q.points)
    PROVE  LatencySeries(q) =
                [sampleCount |-> Counted(shown),
                 buckets |-> Padded(q.points, Blank, shown)]
BY DEF LatencySeries, Point, Points, Blank, Padded

(* Widths and times of buckets.                                            *)
LEMMA BucketFacts ==
    ASSUME NEW w \in Nat, w > 0, NEW t \in Int
    PROVE  /\ t \div w \in Int /\ TimeBucket(w, t) = (t \div w) * w
           /\ TimeBucket(w, t) \in Int /\ TimeBucket(w, t) <= t /\ t < TimeBucket(w, t) + w
<1>1. t \div w \in Int /\ w * (t \div w) <= t /\ t < w * (t \div w) + w
  BY DivFacts
<1> DEFINE j == t \div w
<1> HIDE DEF j
<1>2. j \in Int => w * j = j * w /\ j * w \in Int
  OBVIOUS
<1>3. QED
  BY <1>1, <1>2 DEF TimeBucket, j

(* The i-th bucket is at or before a time when its number is.              *)
LEMMA BucketOrder ==
    ASSUME NEW w \in Nat, w > 0, NEW t \in Int, NEW i \in Int
    PROVE  /\ i * w <= t <=> i <= t \div w
           /\ TimeBucket(w, t) <= i * w <=> t \div w <= i
           /\ TimeBucket(w, t) = i * w <=> t \div w = i
<1> DEFINE j == t \div w
<1>1. j \in Int /\ TimeBucket(w, t) = j * w /\ j * w <= t /\ t < j * w + w
  BY BucketFacts
<1> HIDE DEF j
<1>2. j * w + w = (j + 1) * w
  BY <1>1
<1>3. ASSUME i <= j PROVE i * w <= j * w
  BY <1>1, <1>3, ScaleUp
<1>4. ASSUME j <= i PROVE j * w <= i * w
  BY <1>1, <1>4, ScaleUp
<1>5. ASSUME j + 1 <= i PROVE (j + 1) * w <= i * w
  BY <1>1, <1>5, ScaleUp
<1>6. ASSUME i + 1 <= j PROVE i * w + w <= j * w
  <2>1. (i + 1) * w <= j * w
    BY <1>1, <1>6, ScaleUp
  <2>2. (i + 1) * w = i * w + w
    OBVIOUS
  <2>3. QED
    BY <2>1, <2>2
<1>7. i * w \in Int /\ j * w \in Int
  BY <1>1
<1>8. i * w <= t <=> i <= j
  BY <1>1, <1>2, <1>3, <1>5, <1>7
<1>9. TimeBucket(w, t) <= i * w <=> j <= i
  BY <1>1, <1>4, <1>6, <1>7
<1>10. TimeBucket(w, t) = i * w <=> j = i
  BY <1>1, <1>3, <1>4, <1>5, <1>6, <1>2, <1>7
<1>11. QED
  BY <1>8, <1>9, <1>10 DEF j

(* The steps from one bucket to another are the difference of their        *)
(* numbers.                                                                *)
LEMMA BucketSteps ==
    ASSUME NEW w \in Nat, w > 0, NEW i \in Int, NEW j \in Int
    PROVE  (i * w - j * w) \div w = i - j
<1> DEFINE k == (i * w - j * w) \div w
           d == i - j
<1>1. k \in Int /\ w * k <= i * w - j * w /\ i * w - j * w < w * k + w
  BY DivFacts
<1>2. i * w - j * w = d * w /\ d \in Int
  OBVIOUS
<1> HIDE DEF k, d
<1>3. w * k = k * w /\ k * w + w = (k + 1) * w /\ (d + 1) * w = d * w + w /\ d * w \in Int /\ k * w \in Int
  BY <1>1, <1>2
<1>4. d * w < (k + 1) * w /\ k * w < (d + 1) * w
  BY <1>1, <1>2, <1>3
<1>5. d + 1 <= k + 1 /\ k + 1 <= d + 1
  BY <1>1, <1>2, <1>4, Scale
<1>6. QED
  BY <1>1, <1>2, <1>5 DEF k, d

(* The last p of n rows.                                                   *)
LEMMA TrailingIs ==
    ASSUME NEW p \in Nat, p > 0, NEW n \in Nat, n > 0, NEW k \in Nat, k = IF n <= p THEN n ELSE p,
           NEW X, NEW rows \in Seq(X), Len(rows) = n
    PROVE  /\ Trailing(rows, p) \in Seq(X) /\ Len(Trailing(rows, p)) = k
           /\ \A i \in 1..k : Trailing(rows, p)[i] = rows[n - k + i]
<1> DEFINE from == n - k + 1
<1>0. from \in Int /\ from >= 1 /\ from <= n /\ n - from + 1 = k /\ n - p + 1 \in Int
  OBVIOUS
<1>1. Trailing(rows, p) = SubSeq(rows, from, n)
  <2>1. Max({1, n - p + 1}) = from
    BY <1>0, MaxOfTwo
  <2>2. QED
    BY <2>1 DEF Trailing
<1>2. \A i \in from..n : rows[i] \in X
  BY <1>0
<1>3. \A i \in 1..k : from + i - 1 = n - k + i
  OBVIOUS
<1> HIDE DEF from
<1>4. /\ SubSeq(rows, from, n) \in Seq(X)
      /\ Len(SubSeq(rows, from, n)) = n - from + 1
      /\ \A i \in 1..n - from + 1 : SubSeq(rows, from, n)[i] = rows[from + i - 1]
  BY <1>0, <1>2, SubSeqProperties
<1>5. QED
  BY <1>0, <1>1, <1>3, <1>4

(* With padding in front to make p.                                        *)
LEMMA PaddedIs ==
    ASSUME NEW p \in Nat, NEW k \in Nat, k <= p, NEW X, NEW blank \in X,
           NEW shown \in Seq(X), Len(shown) = k
    PROVE  /\ Len(Padded(p, blank, shown)) = p
           /\ \A i \in 1..p : Padded(p, blank, shown)[i] =
                                IF i <= p - k THEN blank ELSE shown[i - (p - k)]
<1> DEFINE padding == [i \in 1..p - Len(shown) |-> blank]
<1>1. p - k \in Nat
  OBVIOUS
<1>2. padding \in Seq(X) /\ Len(padding) = p - k /\ \A i \in 1..p - k : padding[i] = blank
  BY <1>1
<1> HIDE DEF padding
<1>3. /\ Len(padding \o shown) = Len(padding) + Len(shown)
      /\ \A i \in 1..Len(padding) + Len(shown) :
            (padding \o shown)[i] = IF i <= Len(padding) THEN padding[i] ELSE shown[i - Len(padding)]
  BY <1>2, ConcatProperties
<1>4. Len(padding) + Len(shown) = p
  BY <1>2
<1>5. \A i \in 1..p : i <= p - k => i \in 1..p - k
  BY <1>1
<1>6. QED
  BY <1>2, <1>3, <1>4, <1>5 DEF padding, Padded

(* A function on 1..n is a sequence of length n.                           *)
LEMMA AsSequence ==
    ASSUME NEW n \in Nat, NEW X, NEW f \in [1..n -> X]
    PROVE  f \in Seq(X) /\ Len(f) = n
OBVIOUS

(* Both together: the last of the rows, and blanks in front to make p.     *)
LEMMA PaddedTrailing ==
    ASSUME NEW p \in Nat, p > 0, NEW n \in Nat, n > 0, NEW k \in Nat, k = IF n <= p THEN n ELSE p,
           NEW X, NEW blank \in X, NEW rows \in Seq(X), Len(rows) = n,
           NEW shown, shown = Trailing(rows, p),
           NEW padded, padded = Padded(p, blank, shown)
    PROVE  /\ DOMAIN shown = 1..k /\ \A i \in 1..k : shown[i] = rows[n - k + i]
           /\ Len(padded) = p
           /\ \A i \in 1..p : padded[i] = IF i <= p - k THEN blank ELSE rows[n - p + i]
<1>1. k \in Nat /\ k > 0 /\ k <= p /\ k <= n
  OBVIOUS
<1> DEFINE cut == Trailing(rows, p)
<1>2. cut \in Seq(X) /\ Len(cut) = k /\ \A i \in 1..k : cut[i] = rows[n - k + i]
  BY TrailingIs
<1>3. shown \in Seq(X) /\ Len(shown) = k /\ \A i \in 1..k : shown[i] = rows[n - k + i]
  BY <1>2
<1> DEFINE series == Padded(p, blank, shown)
<1>4. /\ Len(series) = p
      /\ \A i \in 1..p : series[i] = IF i <= p - k THEN blank ELSE shown[i - (p - k)]
  BY <1>1, <1>3, PaddedIs
<1> HIDE DEF series
<1>5. padded = series
  BY DEF series
<1>6. ASSUME NEW i \in 1..p, ~(i <= p - k) PROVE padded[i] = rows[n - p + i]
  <2>1. i - (p - k) \in 1..k /\ n - k + (i - (p - k)) = n - p + i
    BY <1>1, <1>6
  <2>2. QED
    BY <1>3, <1>4, <1>5, <1>6, <2>1
<1>7. ASSUME NEW i \in 1..p, i <= p - k PROVE padded[i] = blank
  BY <1>4, <1>5, <1>7
<1>8. DOMAIN shown = 1..k
  BY <1>3
<1>9. Len(padded) = p
  BY <1>4, <1>5
<1>10. QED
  BY <1>3, <1>6, <1>7, <1>8, <1>9

(* The buckets after the one numbered base, k of them.                     *)
Following(shown, w, S, base, k) ==
    DOMAIN shown = 1..k /\ \A i \in 1..k : shown[i] = Point(w, S, (base + i) * w)

(* The places of a series that have a bucket, and a series of p buckets    *)
(* the last of which is numbered `last`, the first p - k of them blank.    *)
RealPlaces(buckets, p) == {i \in 1..p : buckets[i].at # Null}

Series(buckets, w, S, last, p, k) ==
    /\ Len(buckets) = p
    /\ \A i \in 1..p : buckets[i] = IF i <= p - k THEN Blank ELSE Point(w, S, (last - p + i) * w)

(* The series of p points from n buckets, the last of them at last * w: the*)
(* i-th is that of place i - p, unless there is no such bucket.            *)
LEMMA SeriesShape ==
    ASSUME NEW w \in Nat, w > 0, NEW p \in Nat, p > 0, NEW n \in Nat, n > 0, NEW last \in Int,
           NEW S, NEW b \in Int, b = (last - n + 1) * w,
           NEW rows, rows = Points(w, S, b, n),
           NEW k \in Nat, k = IF n <= p THEN n ELSE p,
           NEW shown, shown = Trailing(rows, p),
           NEW buckets, buckets = Padded(p, Blank, shown)
    PROVE  Following(shown, w, S, last - k, k) /\ Series(buckets, w, S, last, p, k)
<1> DEFINE X == {rows[i] : i \in 1..n} \union {Blank}
<1>1. k \in Nat /\ k > 0 /\ k <= p /\ k <= n
  OBVIOUS
<1>2. rows \in [1..n -> X] /\ Blank \in X
  BY DEF Points
<1>3. ASSUME NEW i \in Int, i >= 1, i <= n PROVE rows[i] = Point(w, S, (last - n + i) * w)
  <2>1. b + (i - 1) * w = (last - n + i) * w
    OBVIOUS
  <2>2. rows[i] = Point(w, S, b + (i - 1) * w)
    BY <1>3 DEF Points
  <2>3. QED
    BY <2>1, <2>2
<1> HIDE DEF X
<1>4. rows \in Seq(X) /\ Len(rows) = n
  BY <1>2, AsSequence
<1>5. /\ DOMAIN shown = 1..k /\ \A i \in 1..k : shown[i] = rows[n - k + i]
      /\ Len(buckets) = p
      /\ \A i \in 1..p : buckets[i] = IF i <= p - k THEN Blank ELSE rows[n - p + i]
  BY <1>2, <1>4, PaddedTrailing
<1>6. ASSUME NEW i \in 1..k PROVE shown[i] = Point(w, S, (last - k + i) * w)
  <2>1. n - k + i \in Int /\ n - k + i >= 1 /\ n - k + i <= n
        /\ last - n + (n - k + i) = last - k + i
    BY <1>1
  <2>2. shown[i] = rows[n - k + i]
    BY <1>5
  <2>3. QED
    BY <1>3, <2>1, <2>2
<1>7. ASSUME NEW i \in 1..p, ~(i <= p - k) PROVE buckets[i] = Point(w, S, (last - p + i) * w)
  <2>1. n - p + i \in Int /\ n - p + i >= 1 /\ n - p + i <= n
        /\ last - n + (n - p + i) = last - p + i
    BY <1>1, <1>7
  <2>2. buckets[i] = rows[n - p + i]
    BY <1>5, <1>7
  <2>3. QED
    BY <1>3, <2>1, <2>2
<1>8. QED
  BY <1>5, <1>6, <1>7 DEF Following, Series

(* What the buckets of a series count is every sample from the first of    *)
(* them to the end of the last.                                            *)
LEMMA SeriesCounts ==
    ASSUME NEW w \in Nat, w > 0, NEW S, IsFiniteSet(S),
           \A s \in S : s.total \in Nat /\ s.at \in Int,
           NEW k \in Nat, NEW base \in Int, NEW shown, Following(shown, w, S, base, k)
    PROVE  Counted(shown) = Total({s \in S : /\ s.at >= (base + 1) * w
                                             /\ TimeBucket(w, s.at) <= (base + k) * w})
<1> DEFINE T == {s \in S : s.at >= (base + 1) * w /\ TimeBucket(w, s.at) <= (base + k) * w}
           Cell(i) == {s \in S : TimeBucket(w, s.at) = (base + i) * w}
           f == [s \in S |-> s.total]
           d == [s \in S |-> s.at \div w]
           p == [i \in 1..k |-> shown[i].total]
<1>1. ASSUME NEW s \in S, NEW i \in 1..k
      PROVE  TimeBucket(w, s.at) = (base + i) * w <=> d[s] = base + i
  <2> DEFINE t == s.at
             j == base + i
  <2>1. t \in Int /\ j \in Int /\ d[s] = t \div w
    OBVIOUS
  <2> HIDE DEF t, j, d
  <2>2. TimeBucket(w, t) = j * w <=> t \div w = j
    BY <2>1, BucketOrder
  <2>3. QED
    BY <2>1, <2>2 DEF t, j
<1>2. ASSUME NEW s \in S
      PROVE  /\ d[s] \in Int
             /\ s \in T <=> base + 1 <= d[s] /\ d[s] <= base + k
  <2> DEFINE t == s.at
             j == base + 1
             last == base + k
  <2>1. t \in Int /\ j \in Int /\ last \in Int /\ d[s] = t \div w
    OBVIOUS
  <2>2. s \in T <=> t >= j * w /\ TimeBucket(w, t) <= last * w
    OBVIOUS
  <2> HIDE DEF t, j, last, d, T
  <2>3. t \div w \in Int /\ j * w \in Int
    BY <2>1, BucketFacts
  <2>4. j * w <= t <=> j <= t \div w
    BY <2>1, BucketOrder
  <2>5. TimeBucket(w, t) <= last * w <=> t \div w <= last
    BY <2>1, BucketOrder
  <2>6. t >= j * w <=> j * w <= t
    BY <2>1, <2>3
  <2>7. s \in T <=> j <= d[s] /\ d[s] <= last
    BY <2>1, <2>2, <2>4, <2>5, <2>6
  <2>8. j = base + 1 /\ last = base + k
    BY DEF j, last
  <2>9. QED
    BY <2>1, <2>3, <2>7, <2>8
<1>3. \A s \in S : f[s] = s.total /\ f[s] \in Nat
  OBVIOUS
<1>4. \A i \in 1..k : p[i] = Total(Cell(i))
  <2> SUFFICES ASSUME NEW i \in 1..k PROVE p[i] = Total(Cell(i))
    OBVIOUS
  <2>1. p[i] = Point(w, S, (base + i) * w).total
    BY DEF Following
  <2>2. QED
    BY <2>1 DEF Point
<1>6. T \in SUBSET S /\ \A i : Cell(i) \in SUBSET S
  OBVIOUS
<1>7. DOMAIN shown = 1..k /\ \A i \in DOMAIN shown : p[i] = shown[i].total
  BY DEF Following
<1>8. \A i \in 1..k, s \in S : s \in Cell(i) <=> d[s] = base + i
  <2> HIDE DEF d
  <2>1. QED
    BY <1>1
<1>9. \A i \in 1..k : p[i] = SumOf(f, Cell(i)) /\ p[i] \in Nat
  <2> HIDE DEF Cell, f, p
  <2> SUFFICES ASSUME NEW i \in 1..k PROVE p[i] = SumOf(f, Cell(i)) /\ p[i] \in Nat
    OBVIOUS
  <2>1. IsFiniteSet(Cell(i)) /\ \A s \in Cell(i) : s.total \in Nat /\ f[s] = s.total
    BY <1>3, <1>6, FS_Subset
  <2>2. Total(Cell(i)) = SumOf(f, Cell(i)) /\ SumOf(f, Cell(i)) \in Nat
    BY <2>1, TotalIsSum, SumFacts
  <2>3. QED
    BY <1>4, <2>2
<1> HIDE DEF T, Cell, f, p, d
<1> DEFINE K == 1..k
           c == [i \in K |-> Cell(i)]
           m == [s \in T |-> d[s] - base]
<1>10. /\ \A i \in K : c[i] \in SUBSET T /\ p[i] = SumOf(f, c[i])
       /\ \A i \in K : \A s \in T : s \in c[i] <=> m[s] = i
       /\ \A s \in T : m[s] \in K
  <2>1. ASSUME NEW s \in T PROVE m[s] = d[s] - base /\ m[s] \in K
    BY <1>2, <1>6
  <2>2. ASSUME NEW i \in K, NEW s \in T PROVE s \in c[i] <=> m[s] = i
    <3>1. s \in c[i] <=> d[s] = base + i
      BY <1>6, <1>8
    <3>2. d[s] \in Int
      BY <1>2, <1>6
    <3>3. QED
      BY <2>1, <3>1, <3>2
  <2>3. ASSUME NEW i \in K PROVE c[i] \in SUBSET T
    <3>1. ASSUME NEW s \in Cell(i) PROVE s \in T
      <4>1. s \in S /\ d[s] = base + i
        BY <1>6, <1>8, <3>1
      <4>2. QED
        BY <1>2, <4>1
    <3>2. QED
      BY <3>1
  <2>4. \A i \in K : p[i] = SumOf(f, c[i])
    BY <1>9
  <2> HIDE DEF K, c, m
  <2>5. QED
    BY <2>1, <2>2, <2>3, <2>4
<1> HIDE DEF c, m, K
<1>11. SumOf(f, T) = SumOf(p, K)
  <2>1. IsFiniteSet(T)
    BY <1>6, FS_Subset
  <2>4. IsFiniteSet(K)
    BY FS_Interval DEF K
  <2>2. \A s \in T : f[s] \in Nat
    BY <1>3, <1>6
  <2>3. QED
    BY <1>10, <2>1, <2>2, <2>4, SumParts
<1>12. Counted(shown) = SumOf(p, DOMAIN shown)
  <2>1. \A i \in DOMAIN shown : shown[i].total \in Nat /\ p[i] = shown[i].total
    BY <1>7, <1>9
  <2>3. IsFiniteSet(DOMAIN shown)
    BY <1>7, FS_Interval
  <2>2. QED
    BY <2>1, <2>3, CountedIsSum
<1>13. Total(T) = SumOf(f, T)
  <2>1. IsFiniteSet(T) /\ \A s \in T : s.total \in Nat /\ f[s] = s.total
    BY <1>3, <1>6, FS_Subset
  <2>2. QED
    BY <2>1, TotalIsSum
<1>14. QED
  BY <1>7, <1>11, <1>12, <1>13 DEF T, K

(* The number of points asked for is kept within 6 and 240.                *)
LEMMA PointsInBounds ==
    ASSUME NEW input \in Int \union {Null}
    PROVE  ParsePoints(input) \in Nat /\ ParsePoints(input) > 0
<1>1. CASE input = Null
  BY <1>1 DEF ParsePoints
<1>2. CASE input # Null
  <2>1. input \in Int
    BY <1>2
  <2> DEFINE most == Max({6, input})
  <2>2. most \in Int /\ most >= 6
    BY <2>1, MaxOfTwo
  <2>3. ParsePoints(input) = Min({240, most})
    BY <1>2 DEF ParsePoints
  <2> HIDE DEF most
  <2>4. Min({240, most}) = (IF 240 <= most THEN 240 ELSE most)
    BY <2>2, MinOfTwo
  <2>5. QED
    BY <2>2, <2>3, <2>4
<1>3. QED
  BY <1>1, <1>2

(* What the service makes of a request is within its bounds.               *)
LEMMA ParseFacts ==
    ASSUME NEW r, r.points \in Int \union {Null}, NEW q, q = Parse(r)
    PROVE  /\ q.points \in Nat /\ q.points > 0
           /\ RangeMinutes(q) \in Nat /\ BucketMinutes(q) \in Nat /\ BucketMinutes(q) > 0
<1>1. q.points = ParsePoints(r.points) /\ q.range \in Ranges
  BY DEF Parse, Ranges
<1>2. q.points \in Nat /\ q.points > 0
  BY <1>1, PointsInBounds
<1>3. RangeMinutes(q) \in Nat
  BY <1>1 DEF Ranges, RangeMinutes
<1>4. BucketMinutes(q) \in Nat /\ BucketMinutes(q) > 0
  <2> DEFINE width == RangeMinutes(q) \div q.points
  <2>1. width \in Int
    BY <1>2, <1>3, DivFacts
  <2> HIDE DEF width
  <2>2. Max({1, width}) \in Int /\ Max({1, width}) >= 1
    BY <2>1, MaxOfTwo
  <2>3. QED
    BY <2>2 DEF BucketMinutes, width
<1>5. QED
  BY <1>2, <1>3, <1>4

(* So it is for what clients ask.                                          *)
LEMMA QueryFacts ==
    ASSUME NEW r \in Queries, NEW q, q = Parse(r)
    PROVE  /\ q.points \in Nat /\ q.points > 0
           /\ RangeMinutes(q) \in Nat /\ BucketMinutes(q) \in Nat /\ BucketMinutes(q) > 0
BY MetricsAssumption, ParseFacts

(* A least element is the minimum.                                         *)
LEMMA LeastIs ==
    ASSUME NEW A \in SUBSET Int, NEW m \in A, \A x \in A : m <= x
    PROVE  Min(A) = m
<1>1. \E x \in A : \A y \in A : x <= y
  OBVIOUS
<1>2. Min(A) \in A /\ \A y \in A : Min(A) <= y
  BY <1>1 DEF Min
<1>3. Min(A) <= m /\ m <= Min(A) /\ Min(A) \in Int /\ m \in Int
  BY <1>2
<1>4. QED
  BY <1>3

(* The samples from a time on, up to the end of a bucket.                  *)
UpTo(S, w, b) == {s \in S : TimeBucket(w, s.at) <= b}

Between(S, first, w, b) == {s \in S : s.at >= first /\ TimeBucket(w, s.at) <= b}

(* The times of a series of p buckets, the first p - k of them blank: the  *)
(* others follow one another, and the last is at `end`.                    *)
LEMMA SeriesTimes ==
    ASSUME NEW w \in Nat, w > 0, NEW p \in Nat, NEW k \in Nat, k > 0, k <= p, NEW last \in Int,
           NEW S, NEW buckets, Series(buckets, w, S, last, p, k),
           NEW real, real = RealPlaces(buckets, p)
    PROVE  /\ p \in real /\ buckets[p].at = last * w
           /\ \A i \in real \ {p} : i + 1 \in real /\ buckets[i + 1].at = buckets[i].at + w
           /\ buckets[Min(real)].at = (last - k + 1) * w
<1>0. real = {i \in 1..p : buckets[i].at # Null}
  BY DEF RealPlaces
<1>1. ASSUME NEW i \in 1..p, i > p - k
      PROVE  buckets[i].at = (last - p + i) * w /\ i \in real
  <2>1. buckets[i] = Point(w, S, (last - p + i) * w)
    BY <1>1 DEF Series
  <2>2. buckets[i].at = (last - p + i) * w
    BY <2>1 DEF Point
  <2> DEFINE j == last - p + i
  <2>3. j \in Int
    OBVIOUS
  <2> HIDE DEF j
  <2>4. j * w \in Int
    BY <2>3
  <2>5. QED
    BY <1>0, <2>2, <2>4, MetricsAssumption DEF j
<1>2. ASSUME NEW i \in real PROVE i \in 1..p /\ i > p - k
  <2>0. i \in 1..p /\ buckets[i].at # Null
    BY <1>0
  <2>1. CASE i <= p - k
    <3>1. buckets[i] = Blank
      BY <2>0, <2>1 DEF Series
    <3>2. QED
      BY <2>0, <3>1 DEF Blank
  <2>2. QED
    BY <2>0, <2>1
<1>3. p \in real /\ buckets[p].at = last * w
  <2>1. p \in 1..p /\ p > p - k
    OBVIOUS
  <2>2. p \in real /\ buckets[p].at = (last - p + p) * w
    BY <1>1, <2>1
  <2>3. last - p + p = last
    OBVIOUS
  <2>4. QED
    BY <2>2, <2>3
<1>4. ASSUME NEW i \in real \ {p}
      PROVE  i + 1 \in real /\ buckets[i + 1].at = buckets[i].at + w
  <2>1. i \in 1..p /\ i > p - k /\ i + 1 \in 1..p /\ i + 1 > p - k
    BY <1>2
  <2>2. /\ i + 1 \in real /\ buckets[i].at = (last - p + i) * w
        /\ buckets[i + 1].at = (last - p + (i + 1)) * w
    BY <1>1, <2>1
  <2>3. (last - p + (i + 1)) * w = (last - p + i) * w + w
    BY <2>1
  <2>4. QED
    BY <2>2, <2>3
<1>5. buckets[Min(real)].at = (last - k + 1) * w
  <2> DEFINE m == p - k + 1
  <2>1. m \in 1..p /\ m > p - k /\ last - p + m = last - k + 1
    OBVIOUS
  <2>2. m \in real /\ buckets[m].at = (last - p + m) * w
    BY <1>1, <2>1
  <2>3. real \in SUBSET Int /\ \A i \in real : m <= i
    BY <1>2
  <2> HIDE DEF m
  <2>5. Min(real) = m
    BY <2>2, <2>3, LeastIs
  <2>6. QED
    BY <2>1, <2>2, <2>5
<1>6. QED
  BY <1>3, <1>4, <1>5

(* The times of the buckets between the start of a window and now.         *)
LEMMA WindowBuckets ==
    ASSUME NEW w \in Nat, w > 0, NEW t \in Int, NEW from \in Int, from <= t
    PROVE  LET last == t \div w
               n == last - from \div w + 1
           IN  /\ last \in Int /\ n \in Nat /\ n > 0
               /\ TimeBucket(w, t) = last * w /\ TimeBucket(w, from) = (last - n + 1) * w
               /\ (TimeBucket(w, t) - TimeBucket(w, from)) \div w + 1 = n
<1> DEFINE last == t \div w
           start == from \div w
           n == last - start + 1
<1>1. /\ last \in Int /\ TimeBucket(w, t) = last * w
      /\ start \in Int /\ TimeBucket(w, from) = start * w /\ TimeBucket(w, from) <= from
  BY BucketFacts
<1>2. start * w <= t <=> start <= t \div w
  BY <1>1, BucketOrder
<1>3. start <= last
  <2> HIDE DEF start
  <2> DEFINE b == start * w
  <2>1. b \in Int /\ b <= from
    BY <1>1
  <2> HIDE DEF b
  <2>2. b <= t
    BY <2>1
  <2>3. QED
    BY <1>2, <2>2 DEF b
<1>4. (last * w - start * w) \div w = last - start
  <2> HIDE DEF last, start
  <2>1. QED
    BY <1>1, BucketSteps
<1> HIDE DEF last, start
<1>5. n \in Nat /\ n > 0 /\ last - n + 1 = start /\ (last - start) + 1 = n
  BY <1>1, <1>3
<1> HIDE DEF n
<1>6. QED
  BY <1>1, <1>4, <1>5 DEF last, start, n

(* The samples of a query from a time on, and from a later one.            *)
LEMMA SelectedFrom ==
    ASSUME samples \subseteq Arrivals, NEW q, NEW from \in Int, NEW first \in Int,
           NEW w, NEW b
    PROVE  Between(Selected(q, from), first, w, b) =
           UpTo(Selected(q, Max({first, from})), w, b)
<1> DEFINE later == Max({first, from})
<1>1. later = (IF first >= from THEN first ELSE from)
  BY MaxOfTwo
<1> HIDE DEF later
<1>2. \A s \in samples : s.at \in Int
  BY MetricsAssumption
<1>3. \A s \in samples : s.at >= later <=> s.at >= from /\ s.at >= first
  BY <1>1, <1>2
<1> DEFINE In(s) == q.region \in {"all", s.region} /\ InScope(s.check, q)
<1>4. /\ Selected(q, from) = {s \in samples : s.at >= from /\ In(s)}
      /\ Selected(q, later) = {s \in samples : s.at >= later /\ In(s)}
  BY DEF Selected
<1> HIDE DEF In
<1>5. {s \in Selected(q, from) : s.at >= first /\ TimeBucket(w, s.at) <= b} =
      {s \in Selected(q, later) : TimeBucket(w, s.at) <= b}
  BY <1>3, <1>4, Zenon
<1>6. QED
  BY <1>5 DEF later, Between, UpTo

(* The start of the window of a query, the number of the bucket of now, how *)
(* many buckets there are from one to the other, and how many are shown.   *)
WindowStart(q) == now - RangeMinutes(q)
LastBucket(q) == now \div BucketMinutes(q)
BucketCount(q) == LastBucket(q) - WindowStart(q) \div BucketMinutes(q) + 1
ShownCount(q) == IF BucketCount(q) <= q.points THEN BucketCount(q) ELSE q.points

(* The latency series of a query shows the last buckets of its window.     *)
ShowsLast(q, shown, buckets) ==
    LET w == BucketMinutes(q)
        S == Selected(q, WindowStart(q))
        k == ShownCount(q)
    IN  /\ LatencySeries(q) = [sampleCount |-> Counted(shown), buckets |-> buckets]
        /\ Following(shown, w, S, LastBucket(q) - k, k)
        /\ Series(buckets, w, S, LastBucket(q), q.points, k)

(* The series of a request is made of the last buckets of its window.      *)
LEMMA SeriesIs ==
    ASSUME now \in Nat, NEW r \in Queries, NEW q, q = Parse(r)
    PROVE  /\ q.points \in Nat /\ q.points > 0
           /\ BucketMinutes(q) \in Nat /\ BucketMinutes(q) > 0
           /\ WindowStart(q) \in Int /\ WindowStart(q) <= now
           /\ LastBucket(q) \in Int
           /\ TimeBucket(BucketMinutes(q), now) = LastBucket(q) * BucketMinutes(q)
           /\ BucketCount(q) \in Nat
           /\ ShownCount(q) \in Nat /\ ShownCount(q) > 0 /\ ShownCount(q) <= q.points
           /\ \E shown, buckets : ShowsLast(q, shown, buckets)
<1> DEFINE p == q.points
           w == BucketMinutes(q)
           from == WindowStart(q)
           last == LastBucket(q)
           n == BucketCount(q)
           b == TimeBucket(w, from)
           S == Selected(q, from)
           steps == (TimeBucket(w, now) - b) \div w
           rows == Points(w, S, b, steps + 1)
           shown == Trailing(rows, p)
           buckets == Padded(p, Blank, shown)
           k == ShownCount(q)
<1>1. p \in Nat /\ p > 0 /\ RangeMinutes(q) \in Nat /\ w \in Nat /\ w > 0
  BY QueryFacts
<1>2. LatencySeries(q) = [sampleCount |-> Counted(shown), buckets |-> buckets]
  BY LatencySeriesIs DEF WindowStart
<1>3. from \in Int /\ from <= now /\ now \in Int
  BY <1>1 DEF WindowStart
<1>4. /\ last \in Int /\ n \in Nat /\ n > 0
      /\ TimeBucket(w, now) = last * w /\ b = (last - n + 1) * w /\ steps + 1 = n
  <2>1. last = now \div w /\ n = last - from \div w + 1
    BY DEF LastBucket, BucketCount
  <2> HIDE DEF w, from, last, n
  <2>2. QED
    BY <1>1, <1>3, <2>1, WindowBuckets
<1>5. rows = Points(w, S, b, n)
  BY <1>4
<1> HIDE DEF p, w, from, last, n, S, b, steps, rows, shown, buckets
<1>6. k \in Nat /\ k > 0 /\ k <= p /\ k = IF n <= p THEN n ELSE p
  <2>1. k = IF n <= p THEN n ELSE p
    BY DEF ShownCount, n, p
  <2> HIDE DEF k
  <2>2. QED
    BY <1>1, <1>4, <2>1
<1>7. b \in Int /\ last * w \in Int
  BY <1>1, <1>4
<1>8. Following(shown, w, S, last - k, k) /\ Series(buckets, w, S, last, p, k)
  <2>1. shown = Trailing(rows, p) /\ buckets = Padded(p, Blank, shown)
    BY DEF shown, buckets
  <2> HIDE DEF k
  <2>2. QED
    BY <1>1, <1>4, <1>5, <1>6, <1>7, <2>1, SeriesShape
<1>9. ShowsLast(q, shown, buckets)
  BY <1>2, <1>8 DEF ShowsLast, p, w, S, from, last
<1>10. QED
  BY <1>1, <1>3, <1>4, <1>6, <1>9 DEF p, w, from, last, n

(* The series of every request, in every state of the table and clock.     *)
LEMMA SeriesEnds ==
    ASSUME SamplesInv, now \in Nat, NEW r \in Queries, NEW q, q = Parse(r)
    PROVE  EndsNow(q)
<1> DEFINE p == q.points
           w == BucketMinutes(q)
           from == WindowStart(q)
           last == LastBucket(q)
           S == Selected(q, from)
           k == ShownCount(q)
<1>1. /\ p \in Nat /\ p > 0 /\ w \in Nat /\ w > 0 /\ from \in Int
      /\ last \in Int /\ TimeBucket(w, now) = last * w
      /\ k \in Nat /\ k > 0 /\ k <= p
  BY SeriesIs
<1>2. PICK shown, buckets :
        /\ LatencySeries(q) = [sampleCount |-> Counted(shown), buckets |-> buckets]
        /\ Following(shown, w, S, last - k, k) /\ Series(buckets, w, S, last, p, k)
  BY SeriesIs DEF ShowsLast
<1>3. S \subseteq samples /\ IsFiniteSet(S) /\ \A s \in S : s.total \in Nat /\ s.at \in Int
  <2>1. S \subseteq samples
    BY DEF Selected
  <2>2. IsFiniteSet(S)
    BY <2>1, FS_Subset DEF SamplesInv
  <2>3. QED
    BY <2>1, <2>2, MetricsAssumption DEF SamplesInv
<1> HIDE DEF p, w, from, last, S
<1> HIDE DEF k
<1> DEFINE real == RealPlaces(buckets, p)
           first == buckets[Min(real)].at
           base == last - k
<1>4. /\ p \in real /\ buckets[p].at = last * w
      /\ \A i \in real \ {p} : i + 1 \in real /\ buckets[i + 1].at = buckets[i].at + w
      /\ first = (last - k + 1) * w
  <2> HIDE DEF real
  <2>1. real = RealPlaces(buckets, p)
    BY DEF real
  <2>2. QED
    BY <1>1, <1>2, <2>1, SeriesTimes
<1>5. base \in Int /\ base + k = last /\ first = (base + 1) * w /\ first \in Int
  <2>1. base \in Int /\ base + k = last /\ last - k + 1 = base + 1
    BY <1>1
  <2> HIDE DEF base, first
  <2>2. (base + 1) * w \in Int
    BY <1>1, <2>1
  <2>3. QED
    BY <1>4, <2>1, <2>2
<1>6. Following(shown, w, S, base, k)
  BY <1>2
<1> HIDE DEF base, first, real
<1>7. Counted(shown) = Total(Between(S, first, w, last * w))
  <2>1. Counted(shown) = Total({s \in S : /\ s.at >= (base + 1) * w
                                          /\ TimeBucket(w, s.at) <= (base + k) * w})
    BY <1>1, <1>3, <1>5, <1>6, SeriesCounts
  <2>2. QED
    BY <1>5, <2>1 DEF Between
<1>8. Between(S, first, w, last * w) = UpTo(Selected(q, Max({first, from})), w, last * w)
  <2>1. S = Selected(q, from)
    BY DEF S
  <2>2. samples \subseteq Arrivals
    BY DEF SamplesInv
  <2>3. QED
    BY <1>1, <1>5, <2>1, <2>2, SelectedFrom
<1>9. /\ Len(buckets) = p /\ p \in real
      /\ buckets[p].at = TimeBucket(w, now)
      /\ \A i \in real \ {p} : i + 1 \in real /\ buckets[i + 1].at = buckets[i].at + w
      /\ Counted(shown) = Total({s \in Selected(q, Max({first, from})) :
                                       TimeBucket(w, s.at) <= TimeBucket(w, now)})
  <2>1. Len(buckets) = p
    BY <1>2 DEF Series
  <2>2. QED
    BY <1>1, <1>4, <1>7, <1>8, <2>1 DEF UpTo
<1>10. QED
  BY <1>2, <1>9 DEF EndsNow, RealPlaces, WindowStart, p, w, from, real, first

----------------------------------------------------------------------------
(* The clock only ever reads one of its instants.                          *)
ClockInv == now \in Nat

(* The clock reads whole minutes: ClockInv holds at all times.             *)
LEMMA ClockInvariant == Spec => []ClockInv
<1>1. Min(Instants) \in Instants
  <2>1. PICK t \in Instants : t \in Nat
    BY MetricsAssumption
  <2> DEFINE I == {u \in Instants : u <= t}
  <2>2. I \in SUBSET Nat /\ I \subseteq Int /\ I # {} /\ \A u \in I : u <= t
    <3>1. I \in SUBSET Instants /\ t \in I /\ \A u \in I : u <= t
      BY <2>1
    <3>2. Instants \subseteq Nat
      BY MetricsAssumption
    <3> HIDE DEF I
    <3>3. QED
      BY <3>1, <3>2
  <2>3. IsFiniteSet(I)
    <3> HIDE DEF I
    <3>1. QED
      BY <2>1, <2>2, FS_BoundedSetOfNaturals
  <2>4. Min(I) \in I /\ \A u \in I : Min(I) <= u
    <3> HIDE DEF I
    <3>1. QED
      BY <2>2, <2>3, Extremes
  <2> DEFINE m == Min(I)
  <2> HIDE DEF m
  <2>5. m \in Instants /\ m <= t /\ \A u \in I : m <= u
    BY <2>4 DEF m
  <2>6. \A u \in Instants : m <= u
    BY <2>1, <2>5, MetricsAssumption
  <2>7. QED
    BY <2>5, <2>6 DEF Min
<1>2. Init => ClockInv
  BY <1>1, MetricsAssumption DEF Init, ClockInv
<1>3. ClockInv /\ [Next]_vars => ClockInv'
  BY MetricsAssumption DEF ClockInv, Next, Store, Tick, Rest, vars
<1>4. QED
  BY <1>2, <1>3, PTL DEF Spec

(* At all times, for every query: the latency series ends with the bucket  *)
(* of now, is padded in front only, has no gap, and counts every sample of *)
(* its scope from its first bucket up to now.                              *)
THEOREM SeriesHold == Spec => []SeriesEndsNow
<1>1. SamplesInv /\ ClockInv => SeriesEndsNow
  <2> SUFFICES ASSUME SamplesInv, ClockInv, NEW r \in Queries PROVE EndsNow(Parse(r))
    BY DEF SeriesEndsNow
  <2>1. QED
    BY SeriesEnds DEF ClockInv
<1>2. QED
  BY <1>1, SamplesInvariant, ClockInvariant, PTL

----------------------------------------------------------------------------
(* Which vendor a check belongs to.                                        *)

(* What makes a rule fit a check.                                          *)
Fits(rule, words, tags) == rule.words \intersect words # {} \/ rule.tags \intersect tags # {}

(* The group is that of a rule that fits, when none before it does.        *)
LEMMA FirstRuleIs ==
    ASSUME NEW rules, NEW words, NEW tags, NEW n \in DOMAIN rules, DOMAIN rules \subseteq Nat,
           Fits(rules[n], words, tags),
           \A m \in DOMAIN rules : m < n => ~Fits(rules[m], words, tags)
    PROVE  FirstRule(rules, words, tags) = rules[n].group
<1> DEFINE fits == {m \in DOMAIN rules : Fits(rules[m], words, tags)}
<1>1. fits \in SUBSET Int /\ n \in fits /\ \A m \in fits : n <= m
  OBVIOUS
<1>2. FirstRule(rules, words, tags) = IF fits = {} THEN "other" ELSE rules[Min(fits)].group
  BY DEF FirstRule, Fits
<1> HIDE DEF fits
<1>3. Min(fits) = n
  BY <1>1, LeastIs
<1>4. QED
  BY <1>1, <1>2, <1>3

\* A list of rules, numbered from 1.
Numbered(rules) == \E k \in Nat : DOMAIN rules = 1..k

(* Of a numbered list of rules, the first that fits gives the group.       *)
LEMMA SomeRule ==
    ASSUME NEW rules, NEW words, NEW tags, Numbered(rules),
           \E n \in DOMAIN rules : Fits(rules[n], words, tags)
    PROVE  \E n \in DOMAIN rules :
              /\ Fits(rules[n], words, tags)
              /\ \A m \in DOMAIN rules : m < n => ~Fits(rules[m], words, tags)
              /\ FirstRule(rules, words, tags) = rules[n].group
<1> DEFINE F == {n \in DOMAIN rules : Fits(rules[n], words, tags)}
<1>0. DOMAIN rules \subseteq Nat /\ IsFiniteSet(DOMAIN rules)
  <2>1. PICK k \in Nat : DOMAIN rules = 1..k
    BY DEF Numbered
  <2>2. QED
    BY <2>1, FS_Interval
<1>1. F # {} /\ F \in SUBSET DOMAIN rules
  OBVIOUS
<1>2. F \subseteq Int /\ IsFiniteSet(F)
  BY <1>0, <1>1, FS_Subset
<1>3. PICK n \in F : \A m \in F : n <= m
  <2> HIDE DEF F
  <2>1. QED
    BY <1>1, <1>2, Extremes
<1>4. n \in DOMAIN rules /\ Fits(rules[n], words, tags)
      /\ \A m \in DOMAIN rules : m < n => ~Fits(rules[m], words, tags)
  BY <1>0, <1>3
<1>5. FirstRule(rules, words, tags) = rules[n].group
  BY <1>0, <1>4, FirstRuleIs
<1>6. QED
  BY <1>4, <1>5

(* Where no rule fits, the group is "other".                               *)
LEMMA NoRule ==
    ASSUME NEW rules, NEW words, NEW tags,
           \A m \in DOMAIN rules : ~Fits(rules[m], words, tags)
    PROVE  FirstRule(rules, words, tags) = "other"
BY DEF FirstRule, Fits

\* The vendor a name says first, in the order of the rules.
NameVendor(words) ==
    IF "github" \in words THEN "github"
    ELSE IF "openai" \in words THEN "openai"
    ELSE IF "stripe" \in words THEN "stripe"
    ELSE IF "cloudflare" \in words THEN "cloudflare" ELSE "none"

(* The words the browser reads as Stripe and the service as payments.      *)
paymentWords == {"payment", "checkout", "billing"}

(* Which of the service's rules fit, and that the first four are the       *)
(* vendors'.                                                               *)
LEMMA SqlFits ==
    ASSUME NEW words, NEW tags
    PROVE  /\ DOMAIN sqlRules = 1..9
           /\ Fits(sqlRules[1], words, tags) <=> "github" \in words
           /\ Fits(sqlRules[2], words, tags) <=> "openai" \in words
           /\ Fits(sqlRules[3], words, tags) <=> "stripe" \in words
           /\ Fits(sqlRules[4], words, tags) <=> "cloudflare" \in words
           /\ sqlRules[1].group = "github" /\ sqlRules[2].group = "openai"
           /\ sqlRules[3].group = "stripe" /\ sqlRules[4].group = "cloudflare"
           /\ \A n \in 5..9 : sqlRules[n].group \notin vendors
<1> DEFINE payments == Rule("payments", {"payment", "checkout", "billing"}, {})
           auth == Rule("auth", {"auth"}, {})
           search == Rule("search", {"search"}, {})
           cart == Rule("cart", {"cart"}, {})
           baseline == Rule("baseline", baselineWords \union {"pulse demo"}, {})
           By(v) == Rule(v, {v}, {})
<1>0. sqlRules = <<By("github"), By("openai"), By("stripe"), By("cloudflare"),
                   payments, auth, search, cart, baseline>>
  BY DEF sqlRules
<1>a. /\ payments.group = "payments" /\ auth.group = "auth" /\ search.group = "search"
      /\ cart.group = "cart" /\ baseline.group = "baseline"
      /\ \A v : By(v).group = v /\ (Fits(By(v), words, tags) <=> v \in words)
  BY DEF Rule, Fits
<1> HIDE DEF payments, auth, search, cart, baseline, By
<1>1. /\ DOMAIN sqlRules = 1..9 /\ sqlRules[1] = By("github") 
      /\ sqlRules[2] = By("openai") /\ sqlRules[3] = By("stripe")
      /\ sqlRules[4] = By("cloudflare")
      /\ sqlRules[5] = payments /\ sqlRules[6] = auth /\ sqlRules[7] = search
      /\ sqlRules[8] = cart /\ sqlRules[9] = baseline
  BY <1>0
<1>2. ASSUME NEW n \in 5..9 PROVE sqlRules[n].group \notin vendors
  <2>1. n \in {5, 6, 7, 8, 9}
    OBVIOUS
  <2>2. QED
    BY <1>a, <1>1, <2>1 DEF vendors
<1>4. QED
  BY <1>a, <1>1, <1>2

(* The service's rules are numbered.                                       *)
LEMMA SqlFirst ==
    ASSUME NEW words, NEW tags, \E n \in DOMAIN sqlRules : Fits(sqlRules[n], words, tags)
    PROVE  \E n \in DOMAIN sqlRules :
              /\ Fits(sqlRules[n], words, tags)
              /\ \A m \in DOMAIN sqlRules : m < n => ~Fits(sqlRules[m], words, tags)
              /\ FirstRule(sqlRules, words, tags) = sqlRules[n].group
<1>1. Numbered(sqlRules)
  BY SqlFits DEF Numbered
<1>2. QED
  BY <1>1, SomeRule

(* The vendor the service reads from a name is the one said first.         *)
LEMMA SqlGroup ==
    ASSUME NEW words, NEW tags, NEW v \in vendors
    PROVE  FirstRule(sqlRules, words, tags) = v <=> NameVendor(words) = v
<1> DEFINE Fit(n) == Fits(sqlRules[n], words, tags)
<1>1. /\ DOMAIN sqlRules = 1..9
      /\ Fit(1) <=> "github" \in words
      /\ Fit(2) <=> "openai" \in words
      /\ Fit(3) <=> "stripe" \in words
      /\ Fit(4) <=> "cloudflare" \in words
      /\ sqlRules[1].group = "github" /\ sqlRules[2].group = "openai"
      /\ sqlRules[3].group = "stripe" /\ sqlRules[4].group = "cloudflare"
      /\ \A n \in 5..9 : sqlRules[n].group \notin vendors
  BY SqlFits
<1> HIDE DEF Fit
<1>2. CASE \E n \in DOMAIN sqlRules : Fits(sqlRules[n], words, tags)
  <2>1. PICK n \in DOMAIN sqlRules :
            /\ Fits(sqlRules[n], words, tags)
            /\ \A m \in DOMAIN sqlRules : m < n => ~Fits(sqlRules[m], words, tags)
            /\ FirstRule(sqlRules, words, tags) = sqlRules[n].group
    BY <1>2, SqlFirst
  <2>0. n \in 1..9 /\ Fit(n) /\ \A m \in 1..9 : m < n => ~Fit(m)
    BY <1>1, <2>1 DEF Fit
  <2>2. CASE n \in 5..9
    <3>1. ~Fit(1) /\ ~Fit(2) /\ ~Fit(3) /\ ~Fit(4)
      BY <2>0, <2>2
    <3>2. NameVendor(words) = "none" /\ v # "none"
      BY <1>1, <3>1 DEF NameVendor, vendors
    <3>3. QED
      BY <1>1, <2>1, <2>2, <3>2
  <2>3. CASE n \in {1, 2, 3, 4}
    <3>1. NameVendor(words) = sqlRules[n].group
      BY <1>1, <2>0, <2>3 DEF NameVendor
    <3>2. QED
      BY <2>1, <3>1
  <2>4. QED
    BY <2>0, <2>2, <2>3
<1>3. CASE \A n \in DOMAIN sqlRules : ~Fits(sqlRules[n], words, tags)
  <2>1. FirstRule(sqlRules, words, tags) = "other"
    BY <1>3, NoRule
  <2>2. NameVendor(words) = "none" /\ v # "none" /\ v # "other"
    BY <1>1, <1>3 DEF Fit, NameVendor, vendors
  <2>3. QED
    BY <2>1, <2>2
<1>4. QED
  BY <1>2, <1>3

\* The vendor the browser finds, from the name and the tags.
ClientVendor(words, tags) ==
    LET Says(v) == v \in words \/ VendorTag(v) \in tags
    IN  IF Says("github") THEN "github"
        ELSE IF Says("openai") THEN "openai"
        ELSE IF Says("stripe") \/ paymentWords \intersect words # {} THEN "stripe"
        ELSE IF Says("cloudflare") THEN "cloudflare" ELSE "none"

(* Which of the browser's rules fit.                                       *)
LEMMA ClientFits ==
    ASSUME NEW words, NEW tags
    PROVE  /\ DOMAIN clientRules = 1..5
           /\ Fits(clientRules[1], words, tags) <=> "github" \in words \/ VendorTag("github") \in tags
           /\ Fits(clientRules[2], words, tags) <=> "openai" \in words \/ VendorTag("openai") \in tags
           /\ Fits(clientRules[3], words, tags) <=> \/ "stripe" \in words \/ VendorTag("stripe") \in tags
                                                    \/ paymentWords \intersect words # {}
           /\ Fits(clientRules[4], words, tags) <=>
                    "cloudflare" \in words \/ VendorTag("cloudflare") \in tags
           /\ clientRules[1].group = "github" /\ clientRules[2].group = "openai"
           /\ clientRules[3].group = "stripe" /\ clientRules[4].group = "cloudflare"
           /\ clientRules[5].group \notin vendors
<1> DEFINE By(v) == Rule(v, {v}, {VendorTag(v)})
           stripe == Rule("stripe", {"stripe", "payment", "checkout", "billing"}, {VendorTag("stripe")})
           baseline == Rule("baseline", baselineWords, {"baseline"})
<1>1. clientRules = <<By("github"), By("openai"), stripe, By("cloudflare"), baseline>>
  BY DEF clientRules
<1>2. /\ baseline.group \notin vendors /\ stripe.group = "stripe"
      /\ \A v : By(v).group = v /\ (Fits(By(v), words, tags) <=> v \in words \/ VendorTag(v) \in tags)
  BY DEF Rule, Fits, vendors
<1>3. Fits(stripe, words, tags) <=> \/ "stripe" \in words \/ VendorTag("stripe") \in tags
                                    \/ paymentWords \intersect words # {}
  BY DEF Rule, Fits, paymentWords
<1> HIDE DEF By, stripe, baseline
<1>4. /\ DOMAIN clientRules = 1..5 /\ clientRules[1] = By("github") /\ clientRules[2] = By("openai")
      /\ clientRules[3] = stripe /\ clientRules[4] = By("cloudflare") /\ clientRules[5] = baseline
  BY <1>1
<1>5. QED
  BY <1>2, <1>3, <1>4

(* The browser's rules are numbered.                                       *)
LEMMA ClientFirst ==
    ASSUME NEW words, NEW tags, \E n \in DOMAIN clientRules : Fits(clientRules[n], words, tags)
    PROVE  \E n \in DOMAIN clientRules :
              /\ Fits(clientRules[n], words, tags)
              /\ \A m \in DOMAIN clientRules : m < n => ~Fits(clientRules[m], words, tags)
              /\ FirstRule(clientRules, words, tags) = clientRules[n].group
<1>1. Numbered(clientRules)
  BY ClientFits DEF Numbered
<1>2. QED
  BY <1>1, SomeRule

(* The vendor the browser infers is the one said first, or spoken of.      *)
LEMMA ClientGroup ==
    ASSUME NEW words, NEW tags, NEW v \in vendors
    PROVE  InferServiceGroup(words, tags) = v <=> ClientVendor(words, tags) = v
<1> DEFINE Fit(n) == Fits(clientRules[n], words, tags)
<1>1. /\ DOMAIN clientRules = 1..5
      /\ Fit(1) <=> "github" \in words \/ VendorTag("github") \in tags
      /\ Fit(2) <=> "openai" \in words \/ VendorTag("openai") \in tags
      /\ Fit(3) <=> \/ "stripe" \in words \/ VendorTag("stripe") \in tags
                    \/ paymentWords \intersect words # {}
      /\ Fit(4) <=> "cloudflare" \in words \/ VendorTag("cloudflare") \in tags
      /\ clientRules[1].group = "github" /\ clientRules[2].group = "openai"
      /\ clientRules[3].group = "stripe" /\ clientRules[4].group = "cloudflare"
      /\ clientRules[5].group \notin vendors
  BY ClientFits
<1> HIDE DEF Fit
<1>2. CASE \E n \in DOMAIN clientRules : Fits(clientRules[n], words, tags)
  <2>1. PICK n \in DOMAIN clientRules :
            /\ Fits(clientRules[n], words, tags)
            /\ \A m \in DOMAIN clientRules : m < n => ~Fits(clientRules[m], words, tags)
            /\ FirstRule(clientRules, words, tags) = clientRules[n].group
    BY <1>2, ClientFirst
  <2>0. n \in 1..5 /\ Fit(n) /\ \A m \in 1..5 : m < n => ~Fit(m)
    BY <1>1, <2>1 DEF Fit
  <2>2. CASE n = 5
    <3>1. ~Fit(1) /\ ~Fit(2) /\ ~Fit(3) /\ ~Fit(4)
      BY <2>0, <2>2
    <3>2. ClientVendor(words, tags) = "none" /\ v # "none"
      BY <1>1, <3>1 DEF ClientVendor, vendors
    <3>3. QED
      BY <1>1, <2>1, <2>2, <3>2 DEF InferServiceGroup
  <2>3. CASE n \in {1, 2, 3, 4}
    <3>1. ClientVendor(words, tags) = clientRules[n].group
      BY <1>1, <2>0, <2>3 DEF ClientVendor
    <3>2. QED
      BY <2>1, <3>1 DEF InferServiceGroup
  <2>4. QED
    BY <2>0, <2>2, <2>3
<1>3. CASE \A n \in DOMAIN clientRules : ~Fits(clientRules[n], words, tags)
  <2>1. FirstRule(clientRules, words, tags) = "other"
    BY <1>3, NoRule
  <2>2. ClientVendor(words, tags) = "none" /\ v # "none" /\ v # "other"
    BY <1>1, <1>3 DEF Fit, ClientVendor, vendors
  <2>3. QED
    BY <2>1, <2>2 DEF InferServiceGroup
<1>4. QED
  BY <1>2, <1>3

(* The vendors the tags of a check give it to.                             *)
Tagged(c) == {v \in vendors : {VendorTag(v), v} \intersect c.tags # {}}

(* The two sets of rules agree on the vendor of a check exactly when it is *)
(* plain: the condition of the theorems below is as weak as can be.        *)
LEMMA VendorsAgree ==
    ASSUME NEW c
    PROVE  VendorIsPlain(c) <=> IsOfOneVendor(c)
<1> DEFINE said == NameVendor(c.words)
           named == ClientVendor(c.words, {})
           both == ClientVendor(c.words, c.tagWords)
           pays == paymentWords \intersect c.words # {}
<1>1. ASSUME NEW v \in vendors
      PROVE  /\ ServiceGroupSql(c, v) <=> said = v \/ v \in Tagged(c)
             /\ InferServiceGroup(c.words, c.tagWords) = v <=> both = v
             /\ InferServiceGroup(c.words, {}) = v <=> named = v
  <2>1. v # "all" /\ v # "baseline"
    BY DEF vendors
  <2>2. FirstRule(sqlRules, c.words, c.tags) = v <=> said = v
    BY SqlGroup
  <2>3. QED
    BY <2>1, <2>2, ClientGroup DEF ServiceGroupSql, Tagged
<1> DEFINE Found(v) == VendorTag(v) \in c.tagWords
           FirstFound == /\ Found("github") => named = "github"
                         /\ Found("openai") => named \in {"github", "openai"}
                         /\ Found("stripe") => named \in {"github", "openai", "stripe"}
                         /\ Found("cloudflare") => named \in vendors
<1>2. (\A n \in DOMAIN asked : Found(asked[n]) =>
          \E m \in 1..n : asked[m] = InferServiceGroup(c.words, {})) <=> FirstFound
  <2>1. /\ DOMAIN asked = 1..4 /\ asked[1] = "github" /\ asked[2] = "openai"
        /\ asked[3] = "stripe" /\ asked[4] = "cloudflare"
    BY DEF asked
  <2>2. \A v \in vendors : v = InferServiceGroup(c.words, {}) <=> v = named
    BY <1>1
  <2> HIDE DEF named, Found
  <2>3. \A n \in 1..4 : (\E m \in 1..n : asked[m] = InferServiceGroup(c.words, {}))
                            <=> \E m \in 1..n : asked[m] = named
    BY <2>1, <2>2 DEF vendors
  <2>4. /\ (\E m \in 1..1 : asked[m] = named) <=> named = "github"
        /\ (\E m \in 1..2 : asked[m] = named) <=> named \in {"github", "openai"}
        /\ (\E m \in 1..3 : asked[m] = named) <=> named \in {"github", "openai", "stripe"}
        /\ (\E m \in 1..4 : asked[m] = named) <=> named \in vendors
    BY <2>1 DEF vendors
  <2>5. \A n \in 1..4 : n \in {1, 2, 3, 4}
    OBVIOUS
  <2>6. QED
    BY <2>1, <2>3, <2>4, <2>5
<1>3. VendorIsPlain(c) <=>
        /\ \A v \in Tagged(c) : v = named
        /\ FirstFound
        /\ pays /\ {"github", "openai", "stripe"} \intersect c.words = {} =>
                "cloudflare" \notin c.words /\ "stripe" \in Tagged(c)
  <2>1. Tagged(c) \subseteq {InferServiceGroup(c.words, {})} <=> \A v \in Tagged(c) : v = named
    <3>1. \A v \in Tagged(c) : v \in vendors
      BY DEF Tagged
    <3> HIDE DEF named
    <3>2. \A v \in Tagged(c) : v = InferServiceGroup(c.words, {}) <=> v = named
      BY <1>1, <3>1
    <3>3. QED
      BY <3>2
  <2> HIDE DEF FirstFound
  <2>2. QED
    BY <1>2, <2>1 DEF VendorIsPlain, Tagged, paymentWords
<1>4. named = IF said \in {"github", "openai", "stripe"} THEN said
              ELSE IF pays THEN "stripe" ELSE said
  BY DEF NameVendor, ClientVendor
<1>5. FirstFound <=> \A v \in vendors : both = v <=> named = v
  <2>1. /\ named \in vendors \union {"none"} /\ both \in vendors \union {"none"}
        /\ "none" \notin vendors
    BY DEF ClientVendor, vendors
  <2>2. FirstFound <=> both = named
    BY DEF ClientVendor, vendors
  <2> HIDE DEF FirstFound, named, both
  <2>3. QED
    BY <2>1, <2>2
<1>6. /\ said \in vendors \union {"none"} /\ "none" \notin vendors
      /\ (said \in {"github", "openai", "stripe"} <=> {"github", "openai", "stripe"} \intersect c.words # {})
      /\ said = "cloudflare" <=> {"github", "openai", "stripe"} \intersect c.words = {} /\ "cloudflare" \in c.words
  BY DEF NameVendor, vendors
<1>7. Tagged(c) \subseteq vendors /\ "stripe" \in vendors /\ "cloudflare" \in vendors
      /\ {"github", "openai", "stripe"} \subseteq vendors
  BY DEF Tagged, vendors
<1> HIDE DEF said, named, both, FirstFound
<1>8. ASSUME VendorIsPlain(c) PROVE IsOfOneVendor(c)
  <2>1. \A v \in vendors : both = v <=> named = v
    BY <1>3, <1>5, <1>8
  <2>2. \A v \in vendors : named = v <=> said = v \/ v \in Tagged(c)
    <3>1. CASE said \in {"github", "openai", "stripe"}
      BY <1>3, <1>4, <1>7, <1>8, <3>1
    <3>2. CASE said \notin {"github", "openai", "stripe"} /\ pays
      <4>1. named = "stripe" /\ "stripe" \in Tagged(c) /\ said # "cloudflare"
        BY <1>3, <1>4, <1>6, <1>8, <3>2
      <4>2. said \notin vendors
        BY <1>6, <3>2, <4>1 DEF vendors
      <4>3. QED
        BY <1>3, <1>8, <4>1, <4>2
    <3>3. CASE said \notin {"github", "openai", "stripe"} /\ ~pays
      BY <1>3, <1>4, <1>8, <3>3
    <3>4. QED
      BY <3>1, <3>2, <3>3
  <2>3. QED
    BY <1>1, <2>1, <2>2 DEF IsOfOneVendor
<1>9. ASSUME IsOfOneVendor(c) PROVE VendorIsPlain(c)
  <2>1. \A v \in vendors : named = v <=> said = v \/ v \in Tagged(c)
    BY <1>1, <1>9 DEF IsOfOneVendor
  <2>2. \A v \in Tagged(c) : v = named
    BY <1>7, <2>1
  <2>3. ASSUME pays, {"github", "openai", "stripe"} \intersect c.words = {}
        PROVE  "cloudflare" \notin c.words /\ "stripe" \in Tagged(c)
    <3>1. named = "stripe" /\ said # "stripe"
      BY <1>4, <1>6, <2>3
    <3>2. QED
      BY <1>6, <1>7, <2>1, <2>3, <3>1
  <2>4. FirstFound
    BY <1>1, <1>5, <1>9 DEF IsOfOneVendor
  <2>5. QED
    BY <1>3, <2>2, <2>3, <2>4
<1>10. QED
  BY <1>8, <1>9

(* On environments they agree for every check.                             *)
LEMMA EnvironmentsAgree ==
    ASSUME NEW c, NEW env
    PROVE  EnvironmentSql(c, env) <=> MatchesEnvironment(c.tags, env)
BY DEF EnvironmentSql, MatchesEnvironment

(* For any checks the service (metrics.service.ts:514-557) and the browser  *)
(* (operations-dashboard.tsx:129-141 and 391-414) put each in the same     *)
(* environments, and they give one the same vendor, by name and tags as    *)
(* well as by the name alone, if it is plain and only then.                *)
THEOREM ScopesHold == Spec => []ScopesAgree
<1>1. ASSUME NEW c PROVE ScopedAlike(c)
  BY EnvironmentsAgree, VendorsAgree DEF ScopedAlike
<1>2. ScopesAgree
  BY <1>1 DEF ScopesAgree, CreatedAlike
<1>3. QED
  BY <1>2, PTL

----------------------------------------------------------------------------
(* The summary and the stream.                                             *)

(* The results of two sets of samples with nothing in common.              *)
LEMMA TotalUnion ==
    ASSUME NEW A, NEW B, IsFiniteSet(A), IsFiniteSet(B), A \intersect B = {},
           A \union B \subseteq Arrivals
    PROVE  Total(A \union B) = Total(A) + Total(B)
<1> DEFINE f == [s \in A \union B |-> s.total]
<1>1. \A s \in A \union B : s.total \in Nat /\ f[s] = s.total
  BY MetricsAssumption
<1> HIDE DEF f
<1>2. IsFiniteSet(A \union B)
  BY FS_Union
<1>3. Total(A) = SumOf(f, A) /\ Total(B) = SumOf(f, B)
  BY <1>1, TotalIsSum
<1>4. Total(A \union B) = SumOf(f, A \union B)
  BY <1>1, <1>2, TotalIsSum
<1>5. SumOf(f, A \union B) = SumOf(f, A) + SumOf(f, B)
  BY <1>1, SumUnion
<1>6. QED
  BY <1>3, <1>4, <1>5

(* The regions go by one name each, which no filter changes.               *)
LEMMA KnownRegions ==
    /\ Range(known) = {"us-east", "eu-west", "ap-south"}
    /\ \A r \in Range(known) : /\ NormalizeRegion(r, Null) = r /\ NormalizeRegionFilter(r) = r
                               /\ r # "all" /\ r # Null
    /\ NormalizeRegionFilter("all") = "all"
<1>1. Range(known) = {"us-east", "eu-west", "ap-south"}
  BY DEF known, Range
<1>2. \A r \in {"us-east", "eu-west", "ap-south"} :
            NormalizeRegion(r, Null) = r /\ NormalizeRegionFilter(r) = r /\ r # "all"
  BY DEF NormalizeRegion, NormalizeRegionFilter
<1>3. NormalizeRegionFilter("all") = "all"
  BY DEF NormalizeRegion, NormalizeRegionFilter
<1>4. QED
  BY <1>1, <1>2, <1>3, ChecksAssumption

(* For a vendor, or everything, the service reads the dashboard's filters  *)
(* as they were set.                                                       *)
LEMMA RequestFacts ==
    ASSUME NEW f \in Filters, f.group \in vendors \union {"all"}, NEW q, q = Request(f)
    PROVE  /\ q = [range |-> q.range, region |-> f.region, group |-> f.group, env |-> f.env,
                   points |-> q.points]
           /\ RangeMinutes(q) \in Nat
<1>1. q = [range |-> q.range, region |-> NormalizeRegionFilter(f.region),
           group |-> IF f.group \in ServiceGroups THEN f.group ELSE "all",
           env |-> IF f.env \in Environments THEN f.env ELSE "production", points |-> q.points]
      /\ q.range \in Ranges
  BY DEF Request, Parse, Ranges
<1>2. f.group \in ServiceGroups \/ f.group = "all"
  BY DEF vendors, ServiceGroups
<1>3. NormalizeRegionFilter(f.region) = f.region
  BY KnownRegions, FiltersAssumption
<1>4. f.env \in Environments
  BY FiltersAssumption
<1>5. RangeMinutes(q) \in Nat
  BY <1>1 DEF RangeMinutes, Ranges
<1>6. QED
  BY <1>1, <1>2, <1>3, <1>4, <1>5

(* Of some samples, those the browser's list of regions leaves out; and the*)
(* events behind a tile without a summary.                                 *)
Stray(f, S) == {s \in S : f.region # "all" /\ f.region \notin Range(s.check.regions)}
Streamed(f) == {e \in RecentProbeEvents(f) : Shown(e.check)}

(* A sample of a summary was streamed as well or is a stray, and never     *)
(* both.                                                                   *)
LEMMA StreamedIs ==
    ASSUME SamplesInv, now \in Nat,
           \A s \in Arrivals : s.check \in Range(liveChecks),
           \A c \in Range(liveChecks) : VendorIsPlain(c),
           NEW f \in Filters, f.group \in vendors \union {"all"}, NEW q, q = Request(f),
           NEW S, S = Selected(q, now - RangeMinutes(q)), NEW s
    PROVE  /\ s \in S <=> s \in Streamed(f) \/ s \in Stray(f, S)
           /\ s \in Streamed(f) => s \notin Stray(f, S)
<1> DEFINE c == s.check
           Recent == s.at >= now - RangeMinutes(q)
           Mine == Shown(c) /\ MatchesEnvironment(c.tags, f.env)
                   /\ f.group \in {"all", InferServiceGroup(c.words, c.tagWords)}
           Configured == f.region \in Range(c.regions)
<1>1. /\ q.region = f.region /\ q.group = f.group /\ q.env = f.env /\ RangeMinutes(q) \in Nat
  BY RequestFacts
<1>2. SUFFICES ASSUME s \in samples
      PROVE  /\ s \in S <=> s \in Streamed(f) \/ s \in Stray(f, S)
             /\ s \in Streamed(f) => s \notin Stray(f, S)
  BY DEF Streamed, RecentProbeEvents, Stray, Selected
<1>3. /\ s \in Arrivals /\ s.at \in Nat /\ s.region \in Range(known) /\ Range(c.regions) \subseteq Range(known)
      /\ c \in Range(liveChecks) /\ f.region \in Range(known) \union {"all"}
  BY <1>2, MetricsAssumption, ChecksAssumption, FiltersAssumption DEF SamplesInv
<1>4. InScope(c, q) <=> Mine
  <2>1. IsOfOneVendor(c)
    BY <1>3, VendorsAgree
  <2>2. ServiceGroupSql(c, f.group) <=> f.group \in {"all", InferServiceGroup(c.words, c.tagWords)}
    <3>1. CASE f.group = "all"
      BY <3>1 DEF ServiceGroupSql
    <3>2. CASE f.group \in vendors
      <4>1. f.group # "all"
        BY <3>2 DEF vendors
      <4>2. QED
        BY <2>1, <3>2, <4>1 DEF IsOfOneVendor
    <3>3. QED
      BY <3>1, <3>2
  <2>3. QED
    BY <1>1, <2>2, EnvironmentsAgree DEF InScope
<1>5. s \in S <=> Recent /\ f.region \in {"all", s.region} /\ Mine
  BY <1>1, <1>2, <1>4 DEF Selected
<1>6. s \in Streamed(f) <=> /\ Recent /\ Mine
                            /\ f.region = "all" \/ (f.region = s.region /\ Configured)
  <2>1. liveChecks # <<>>
    BY <1>3 DEF Range
  <2>2. now - s.at <= RangeMinutes(q) <=> Recent
    BY <1>1, <1>3
  <2>3. c \in ScopedCheckIds(f) <=>
            /\ MatchesEnvironment(c.tags, f.env)
            /\ f.group \in {"all", InferServiceGroup(c.words, c.tagWords)}
            /\ f.region = "all" \/ Configured
    <3>1. f.region # "all" =>
            (NormalizeRegion(f.region, Null) \in {NormalizeRegion(r, Null) : r \in Range(c.regions)}
                <=> Configured)
      BY <1>3, KnownRegions
    <3>2. QED
      BY <1>3, <3>1 DEF ScopedCheckIds
  <2>4. f.region # "all" =>
            (NormalizeRegion(s.region, Null) = NormalizeRegion(f.region, Null)
                 /\ NormalizeRegion(f.region, Null) # Null <=> f.region = s.region)
    BY <1>3, KnownRegions
  <2> HIDE DEF Recent, Configured
  <2>5. QED
    BY <1>2, <2>1, <2>2, <2>3, <2>4 DEF Streamed, RecentProbeEvents
<1>7. s \in Stray(f, S) <=> s \in S /\ f.region # "all" /\ ~Configured
  BY DEF Stray
<1> HIDE DEF Recent, Configured, Mine
<1>8. QED
  BY <1>5, <1>6, <1>7

(* The total of a summary, and of the summary of a region, is what was     *)
(* streamed and what is stray, for any samples of listed plain checks and  *)
(* any filters of a vendor or of everything (metrics.service.ts:44-99 and  *)
(* 438-512, operations-dashboard.tsx:1012-1037).                           *)
THEOREM StreamHolds ==
    ASSUME \A s \in Arrivals : s.check \in Range(liveChecks),
           \A c \in Range(liveChecks) : VendorIsPlain(c)
    PROVE  Spec => []StreamAgreesWithSummary
<1>1. ASSUME SamplesInv, ClockInv PROVE StreamAgreesWithSummary
  <2> SUFFICES ASSUME NEW f \in Filters, f.group \in vendors \union {"all"}
      PROVE  LET q == Request(f)
                 S == Selected(q, now - RangeMinutes(q))
             IN  /\ HistoricalSummary(q).all.sampleCount = Total(Streamed(f)) + Total(Stray(f, S))
                 /\ \A n \in DOMAIN known : f.region = known[n] =>
                        RegionalSummary(q)[n].all.sampleCount = HistoricalSummary(q).all.sampleCount
    BY DEF StreamAgreesWithSummary, Streamed, Stray
  <2> DEFINE q == Request(f)
             S == Selected(q, now - RangeMinutes(q))
             streamed == Streamed(f)
             stray == Stray(f, S)
  <2>1. \A s : /\ s \in S <=> s \in streamed \/ s \in stray
               /\ s \in streamed => s \notin stray
    <3> SUFFICES ASSUME NEW s PROVE /\ s \in S <=> s \in streamed \/ s \in stray
                                    /\ s \in streamed => s \notin stray
      OBVIOUS
    <3>1. q = Request(f) /\ S = Selected(q, now - RangeMinutes(q)) /\ now \in Nat
      BY <1>1 DEF ClockInv
    <3> HIDE DEF q, S
    <3>2. QED
      BY <1>1, <3>1, StreamedIs
  <2>2. S = streamed \union stray /\ streamed \intersect stray = {}
    <3> HIDE DEF S, streamed, stray
    <3>1. QED
      BY <2>1
  <2>3. S \subseteq samples
    BY DEF Selected
  <2>4. /\ IsFiniteSet(streamed) /\ IsFiniteSet(stray)
        /\ streamed \union stray \subseteq Arrivals
    <3> HIDE DEF S, streamed, stray
    <3>1. streamed \in SUBSET samples /\ stray \in SUBSET samples
      BY <2>2, <2>3
    <3>2. QED
      BY <1>1, <3>1, FS_Subset DEF SamplesInv
  <2>5. Total(S) = Total(streamed) + Total(stray)
    <3> HIDE DEF S, streamed, stray
    <3>1. QED
      BY <2>2, <2>4, TotalUnion
  <2>6. HistoricalSummary(q).all.sampleCount = Total(S)
    BY DEF HistoricalSummary, Aggregate
  <2>7. ASSUME NEW n \in DOMAIN known, f.region = known[n]
        PROVE  RegionalSummary(q)[n].all.sampleCount = Total(S)
    <3>1. [q EXCEPT !.region = known[n]] = q
      <4>1. q = [range |-> q.range, region |-> f.region, group |-> f.group, env |-> f.env,
                 points |-> q.points]
        <5>1. q = Request(f)
          OBVIOUS
        <5> HIDE DEF q
        <5>2. QED
          BY <5>1, RequestFacts
      <4> HIDE DEF q
      <4>2. QED
        BY <2>7, <4>1
    <3>2. RegionalSummary(q)[n].all.sampleCount =
            Total(Selected([q EXCEPT !.region = known[n]], now - RangeMinutes(q)))
      <4> HIDE DEF q
      <4>1. QED
        BY DEF RegionalSummary, Aggregate
    <3>3. QED
      BY <3>1, <3>2
  <2> HIDE DEF S, streamed, stray
  <2>8. QED
    BY <2>5, <2>6, <2>7 DEF S, streamed, stray
<1>2. QED
  BY <1>1, SamplesInvariant, ClockInvariant, PTL

----------------------------------------------------------------------------
(* Sorting.                                                                *)

\* A strict total order on S.
Orders(before, S) ==
    /\ \A x, y \in S : x # y => <<x, y>> \in before \/ <<y, x>> \in before
    /\ \A x, y \in S : <<x, y>> \in before => <<y, x>> \notin before
    /\ \A x, y, z \in S : <<x, y>> \in before /\ <<y, z>> \in before => <<x, z>> \in before

(* What comes before x in the order, and how much that is.                 *)
Ahead(before, S, x) == {y \in S : <<y, x>> \in before}
PlaceOf(before, S, x) == Cardinality(Ahead(before, S, x))

(* No two elements have the same place, and places keep the order.         *)
LEMMA PlacesApart ==
    ASSUME NEW S, IsFiniteSet(S), NEW before, Orders(before, S), NEW x \in S, NEW y \in S
    PROVE  /\ PlaceOf(before, S, x) \in Nat /\ PlaceOf(before, S, x) < Cardinality(S)
           /\ <<x, y>> \in before => PlaceOf(before, S, x) < PlaceOf(before, S, y)
<1> DEFINE P == Ahead(before, S, x)
           Q == Ahead(before, S, y)
<1>1. P \in SUBSET S /\ Q \in SUBSET S /\ x \notin P
  BY DEF Ahead, Orders
<1>2. <<x, y>> \in before => P \in SUBSET Q /\ x \in Q
  BY DEF Ahead, Orders
<1> HIDE DEF P, Q
<1>3. IsFiniteSet(P) /\ IsFiniteSet(Q) /\ Cardinality(P) \in Nat /\ Cardinality(Q) \in Nat
  BY <1>1, FS_Subset, FS_CardinalityType
<1>4. Cardinality(P) <= Cardinality(S) /\ (Cardinality(P) = Cardinality(S) => S = P)
  BY <1>1, FS_Subset
<1>5. P \in SUBSET Q => Cardinality(P) <= Cardinality(Q) /\ (Cardinality(P) = Cardinality(Q) => Q = P)
  BY <1>3, FS_Subset
<1>6. Cardinality(S) \in Nat
  BY FS_CardinalityType
<1>7. QED
  BY <1>1, <1>2, <1>3, <1>4, <1>5, <1>6 DEF P, Q, PlaceOf

(* Each place is taken.                                                    *)
LEMMA EveryPlace ==
    ASSUME NEW S, IsFiniteSet(S), NEW before, Orders(before, S),
           NEW n \in 1..Cardinality(S)
    PROVE  \E x \in S : PlaceOf(before, S, x) = n - 1
<1> DEFINE size == Cardinality(S)
           T == 0..size - 1
           r == [x \in S |-> PlaceOf(before, S, x)]
<1>1. size \in Nat /\ n - 1 \in T /\ n - 1 \in Int
  BY FS_CardinalityType
<1>2. IsFiniteSet(T) /\ Cardinality(T) = size
  <2> HIDE DEF size
  <2>1. size - 1 \in Int /\ size - 1 - 0 + 1 = size
    BY <1>1
  <2>2. QED
    BY <1>1, <2>1, FS_Interval
<1>3. \A x \in S : r[x] = PlaceOf(before, S, x) /\ r[x] \in T
  <2> SUFFICES ASSUME NEW x \in S PROVE PlaceOf(before, S, x) \in T
    OBVIOUS
  <2>1. PlaceOf(before, S, x) \in Nat /\ PlaceOf(before, S, x) < Cardinality(S)
    BY PlacesApart
  <2>2. QED
    BY <1>1, <2>1
<1>4. \A x, y \in S : r[x] = r[y] => x = y
  <2> SUFFICES ASSUME NEW x \in S, NEW y \in S, r[x] = r[y], x # y PROVE FALSE
    OBVIOUS
  <2>1. <<x, y>> \in before \/ <<y, x>> \in before
    BY DEF Orders
  <2>2. r[x] < r[y] \/ r[y] < r[x]
    BY <1>3, <2>1, PlacesApart
  <2>3. QED
    BY <1>1, <1>3, <2>2
<1>5. r \in [S -> T]
  BY <1>3
<1> HIDE DEF T, r, size
<1>6. r \in Injection(S, T)
  BY <1>4, <1>5 DEF Injection, IsInjective
<1>7. r \in Surjection(S, T)
  BY <1>2, <1>6, FS_Injection DEF size
<1>8. \E x \in S : r[x] = n - 1
  BY <1>1, <1>7 DEF Surjection
<1>9. QED
  BY <1>3, <1>8

(* Sorting a finite set gives a sequence of its elements, each of them and *)
(* no more, in the order.                                                  *)
LEMMA SortedIs ==
    ASSUME NEW S, IsFiniteSet(S), NEW before, Orders(before, S),
           NEW order, order = Sorted(S, before), NEW size, size = Cardinality(S)
    PROVE  /\ size \in Nat /\ order \in [1..size -> S]
           /\ \A i, j \in 1..size : i < j => <<order[i], order[j]>> \in before
           /\ \A x \in S : \E i \in 1..size : order[i] = x
<1> DEFINE Place(n) == CHOOSE x \in S : PlaceOf(before, S, x) = n - 1
           f == [n \in 1..size |-> Place(n)]
<1>1. size \in Nat
  BY FS_CardinalityType
<1>2. ASSUME NEW n \in 1..size PROVE Place(n) \in S /\ PlaceOf(before, S, Place(n)) = n - 1
  <2>1. \E x \in S : PlaceOf(before, S, x) = n - 1
    BY EveryPlace
  <2>2. QED
    BY <2>1
<1>3. order = SubSeq(f, 1, size)
  BY DEF Sorted, PlaceOf, Ahead
<1>4. f \in Seq(S) /\ Len(f) = size
  <2>1. f \in [1..size -> S]
    BY <1>2
  <2> HIDE DEF f
  <2>2. QED
    BY <1>1, <2>1, AsSequence
<1>5. order = f
  <2> HIDE DEF f
  <2>1. QED
    BY <1>1, <1>3, <1>4
<1>6. /\ order \in [1..size -> S]
      /\ \A i \in 1..size : PlaceOf(before, S, order[i]) = i - 1
  <2> HIDE DEF Place
  <2>1. QED
    BY <1>2, <1>5
<1> HIDE DEF f, Place
<1>7. ASSUME NEW i \in 1..size, NEW j \in 1..size, i < j
      PROVE  <<order[i], order[j]>> \in before
  <2> DEFINE x == order[i]
             y == order[j]
  <2>1. x \in S /\ y \in S /\ PlaceOf(before, S, x) = i - 1 /\ PlaceOf(before, S, y) = j - 1
    BY <1>6
  <2> HIDE DEF x, y
  <2>2. x # y /\ ~(PlaceOf(before, S, y) < PlaceOf(before, S, x))
    BY <1>1, <1>7, <2>1
  <2>3. <<y, x>> \notin before
    BY <2>1, <2>2, PlacesApart
  <2>4. <<x, y>> \in before
    BY <2>1, <2>2, <2>3 DEF Orders
  <2>5. QED
    BY <2>4 DEF x, y
<1>8. ASSUME NEW x \in S PROVE \E i \in 1..size : order[i] = x
  <2> DEFINE k == PlaceOf(before, S, x)
  <2>1. k \in Nat /\ k < size
    BY PlacesApart
  <2>2. k + 1 \in 1..size
    <3> HIDE DEF k
    <3>1. QED
      BY <1>1, <2>1
  <2>a. PICK i \in 1..size : i = k + 1
    BY <2>2
  <2> DEFINE y == order[i]
  <2>3. y \in S /\ PlaceOf(before, S, y) = k
    <3>1. y \in S /\ PlaceOf(before, S, y) = i - 1
      BY <1>6
    <3> HIDE DEF k
    <3>2. QED
      BY <2>1, <2>a, <3>1
  <2>4. ~(<<x, y>> \in before) /\ ~(<<y, x>> \in before)
    <3> HIDE DEF y
    <3>1. <<x, y>> \in before => k < PlaceOf(before, S, y)
      BY <2>3, PlacesApart
    <3>2. <<y, x>> \in before => PlaceOf(before, S, y) < k
      BY <2>3, PlacesApart
    <3> HIDE DEF k
    <3>3. QED
      BY <2>1, <2>3, <3>1, <3>2
  <2>5. y = x
    BY <2>3, <2>4 DEF Orders
  <2>6. QED
    BY <2>5
<1>9. QED
  BY <1>1, <1>6, <1>7, <1>8

----------------------------------------------------------------------------
(* The rows of the heatmap.                                                *)

(* A listing of a finite set has each element once.                        *)
LEMMA ListedOnce ==
    ASSUME NEW S, IsFiniteSet(S), NEW q, q = SetToSeq(S)
    PROVE  \E n \in Nat : /\ q \in [1..n -> S]
                          /\ \A i, j \in 1..n : q[i] = q[j] => i = j
                          /\ \A x \in S : \E i \in 1..n : q[i] = x
<1> DEFINE n == Cardinality(S)
<1>1. n \in Nat /\ ExistsBijection(1..n, S)
  BY FS_CardinalityType
<1>2. \E f \in [1..n -> S] : IsInjective(f)
  BY <1>1 DEF ExistsBijection, Bijection, Injection, IsInjective
<1>3. q \in [1..n -> S] /\ IsInjective(q)
  BY <1>2 DEF SetToSeq
<1>4. q \in Injection(1..n, S)
  BY <1>3 DEF Injection, IsInjective
<1>5. q \in Surjection(1..n, S)
  <2>1. IsFiniteSet(1..n) /\ Cardinality(1..n) = n
    <3>1. n \in Int /\ 1 \in Int /\ n - 1 + 1 = n
      BY <1>1
    <3> HIDE DEF n
    <3>2. QED
      BY <1>1, <3>1, FS_Interval
  <2>2. QED
    BY <1>4, <2>1, FS_Injection
<1>6. QED
  BY <1>1, <1>3, <1>5 DEF IsInjective, Surjection

(* The worst weight of a row is that of one of its states, and the largest *)
(* of them.                                                                *)
LEMMA WeightFacts ==
    ASSUME NEW row, NEW n \in Nat, n > 0, DOMAIN row.statuses = 1..n
    PROVE  /\ WorstWeight(row) \in Int
           /\ \E i \in 1..n : WorstWeight(row) = StateWeight(row.statuses[i])
           /\ \A i \in 1..n : StateWeight(row.statuses[i]) <= WorstWeight(row)
<1> DEFINE W == {StateWeight(state) : state \in Range(row.statuses)}
<1>1. \A state : StateWeight(state) \in 0..4
  BY DEF StateWeight
<1>2. W \in SUBSET (0..4) /\ IsFiniteSet(0..4) /\ W \subseteq Int
  <2>1. PICK k \in Nat : k = 4
    OBVIOUS
  <2>2. IsFiniteSet(0..k)
    BY FS_Interval
  <2>3. QED
    BY <1>1, <2>1, <2>2
<1>3. 1 \in 1..n
  OBVIOUS
<1>4. W # {} /\ IsFiniteSet(W)
  BY <1>2, <1>3, FS_Subset, SMTT(30) DEF Range
<1>5. \A i \in 1..n : StateWeight(row.statuses[i]) \in W
  BY DEF Range
<1>6. \A v \in W : \E i \in 1..n : v = StateWeight(row.statuses[i])
  BY DEF Range
<1>7. WorstWeight(row) = Max(W)
  BY DEF WorstWeight
<1> HIDE DEF W
<1>8. Max(W) \in W /\ \A v \in W : v <= Max(W)
  BY <1>2, <1>4, Extremes
<1>9. QED
  BY <1>2, <1>5, <1>6, <1>7, <1>8

\* What the heatmap of a query is put together from.
HeatSamples(q) == Selected(q, HeatBuckets(q)[1])
PairOf(s) == <<s.check, s.region>>
Pairs(q) == {PairOf(s) : s \in {s \in HeatSamples(q) : s.region \in Range(s.check.regions)}}
SamplesOf(q, p) == {s \in HeatSamples(q) : PairOf(s) = p}
RowOf(q, p) == HeatRow(q, p[1], p[2], SamplesOf(q, p))
Rows(q) == {RowOf(q, p) : p \in Pairs(q)}

(* The places of the rows of a heatmap, in its order.                      *)
RowOrder(rows) ==
    LET places == DOMAIN rows
    IN  Sorted(places, {p \in places \X places : Worse(rows, p[1], p[2])})

(* The heatmap of a query, put together from the operators above:          *)
LEMMA HeatmapIs ==
    ASSUME NEW q, NEW rows, rows = SetToSeq(HeatRows(q))
    PROVE  Heatmap(q) = [n \in DOMAIN rows |-> rows[RowOrder(rows)[n]]]
BY DEF Heatmap, InOrder, RowOrder

(* its rows,                                                               *)
LEMMA HeatRowsAre ==
    ASSUME NEW q
    PROVE  HeatRows(q) = {row \in Rows(q) : row.sampleCount > 0}
BY DEF HeatRows, HeatSamples, PairOf, Pairs, SamplesOf, RowOf, Rows

(* The samples of a row in its n-th bucket, and in any of its buckets.     *)
InCell(q, S, n) == {s \in S : TimeBucket(BucketMinutes(q), s.at) = HeatBuckets(q)[n]}
Seen(q, S) == UNION {InCell(q, S, n) : n \in 1..q.points}

(* and what is in a row.                                                   *)
LEMMA HeatRowIs ==
    ASSUME NEW q, NEW c, NEW region, NEW S, NEW row, row = HeatRow(q, c, region, S)
    PROVE  /\ row.check = c /\ row.region = region
           /\ DOMAIN row.statuses = 1..q.points /\ DOMAIN row.totals = 1..q.points
           /\ \A n \in 1..q.points : /\ row.statuses[n] = HealthState(InCell(q, S, n))
                                     /\ row.totals[n] = Total(InCell(q, S, n))
           /\ row.sampleCount = Total(Seen(q, S))
           /\ row.uptimePct = UptimePct(OkTotal(Seen(q, S)), Total(Seen(q, S)))
<1> DEFINE cells == [n \in 1..q.points |-> InCell(q, S, n)]
<1>1. UNION Range(cells) = Seen(q, S)
  BY DEF Range, Seen
<1>2. /\ row.check = c /\ row.region = region
      /\ row.statuses = [n \in 1..q.points |-> HealthState(cells[n])]
      /\ row.totals = [n \in 1..q.points |-> Total(cells[n])]
      /\ row.sampleCount = Total(UNION Range(cells))
      /\ row.uptimePct = UptimePct(OkTotal(UNION Range(cells)), Total(UNION Range(cells)))
  BY DEF HeatRow, InCell
<1>3. QED
  BY <1>1, <1>2

(* The place of a row's region among the known ones.                       *)
RegionPlace(row) == CHOOSE n \in DOMAIN known : known[n] = row.region

\* The order by three keys, the first and the last falling, the second rising, and
\* by the place where they are equal.
ByKeys(before, S, w, k, l) ==
    /\ \A x \in S : x \in Int /\ w[x] \in Int /\ k[x] \in Int /\ l[x] \in Int
    /\ \A x, y \in S : <<x, y>> \in before <=>
            \/ w[x] > w[y]
            \/ w[x] = w[y] /\ (k[x] < k[y] \/ (k[x] = k[y] /\
                                   (l[x] > l[y] \/ (l[x] = l[y] /\ x < y))))

(* Such an order is total.                                                 *)
LEMMA Lexical ==
    ASSUME NEW S, NEW w, NEW k, NEW l, NEW before, ByKeys(before, S, w, k, l)
    PROVE  Orders(before, S)
<1>1. ASSUME NEW x \in S, NEW y \in S, x # y PROVE <<x, y>> \in before \/ <<y, x>> \in before
  BY <1>1 DEF ByKeys
<1>2. ASSUME NEW x \in S, NEW y \in S, <<x, y>> \in before PROVE <<y, x>> \notin before
  BY <1>2 DEF ByKeys
<1>3. ASSUME NEW x \in S, NEW y \in S, NEW z \in S, <<x, y>> \in before, <<y, z>> \in before
      PROVE  <<x, z>> \in before
  BY <1>3 DEF ByKeys
<1>4. QED
  BY <1>1, <1>2, <1>3 DEF Orders

(* The values of a map on a finite set are finitely many.                  *)
LEMMA FiniteImage ==
    ASSUME NEW S, IsFiniteSet(S), NEW f, NEW T, \A y \in T : \E x \in S : y = f[x]
    PROVE  IsFiniteSet(T)
<1> DEFINE U == {f[x] : x \in S}
           g == [x \in S |-> f[x]]
<1>1. g \in Surjection(S, U)
  BY DEF Surjection
<1>2. T \in SUBSET U
  OBVIOUS
<1> HIDE DEF U, g
<1>3. QED
  BY <1>1, <1>2, FS_Surjection, FS_Subset

(* When a row of the heatmap comes before another.                         *)
LEMMA WorseIs ==
    ASSUME NEW rows, NEW m, NEW n, NEW a, a = rows[m], NEW b, b = rows[n]
    PROVE  Worse(rows, m, n) <=>
                \/ WorstWeight(a) > WorstWeight(b)
                \/ /\ WorstWeight(a) = WorstWeight(b)
                   /\ \/ a.check.rank < b.check.rank
                      \/ /\ a.check.rank = b.check.rank
                         /\ \/ RegionPlace(a) > RegionPlace(b)
                            \/ RegionPlace(a) = RegionPlace(b) /\ m < n
BY DEF Worse, RegionPlace

(* A row is that of its check and region, and its sort keys are numbers.   *)
LEMMA RowFacts ==
    ASSUME SamplesInv, NEW q, q.points \in Nat, q.points > 0, NEW row \in HeatRows(q)
    PROVE  /\ <<row.check, row.region>> \in Pairs(q)
           /\ row = RowOf(q, <<row.check, row.region>>)
           /\ WorstWeight(row) \in Int /\ row.check.rank \in Int
           /\ RegionPlace(row) \in Int /\ known[RegionPlace(row)] = row.region
<1>1. PICK p \in Pairs(q) : row = RowOf(q, p)
  BY HeatRowsAre DEF Rows
<1>2. PICK s \in HeatSamples(q) : p = PairOf(s)
  BY <1>1 DEF Pairs
<1>3. p = <<s.check, s.region>> /\ s \in Arrivals /\ s.check.rank \in Nat /\ s.region \in Range(known)
  BY <1>2, MetricsAssumption, ChecksAssumption DEF PairOf, HeatSamples, Selected, SamplesInv
<1>4. /\ row.check = p[1] /\ row.region = p[2] /\ DOMAIN row.statuses = 1..q.points
  BY <1>1, HeatRowIs DEF RowOf
<1>5. p = <<row.check, row.region>> /\ s.check = row.check /\ s.region = row.region
  BY <1>3, <1>4
<1>6. WorstWeight(row) \in Int
  BY <1>4, WeightFacts
<1>7. RegionPlace(row) \in Int /\ known[RegionPlace(row)] = row.region
  <2>1. \E n \in DOMAIN known : known[n] = row.region
    BY <1>3, <1>5 DEF Range
  <2>2. DOMAIN known = 1..3
    BY DEF known
  <2> DEFINE n == RegionPlace(row)
  <2>3. n \in DOMAIN known /\ known[n] = row.region
    BY <2>1 DEF RegionPlace
  <2>4. QED
    BY <2>2, <2>3
<1>8. row = RowOf(q, <<row.check, row.region>>) /\ <<row.check, row.region>> \in Pairs(q)
  BY <1>1, <1>5
<1>9. row.check.rank \in Int
  BY <1>3, <1>5
<1>10. QED
  BY <1>6, <1>7, <1>8, <1>9

\* Rows in the order of the heatmap, the worst state first.
Ordered(H, n) == \A i, j \in 1..n : i < j => WorstWeight(H[i]) >= WorstWeight(H[j])

(* The heatmap has each row with samples once, the worst state first.      *)
LEMMA HeatmapFacts ==
    ASSUME SamplesInv, NEW q, q.points \in Nat, q.points > 0, NEW H, H = Heatmap(q)
    PROVE  \E n \in Nat : /\ H \in [1..n -> HeatRows(q)]
                          /\ \A i, j \in 1..n : H[i] = H[j] => i = j
                          /\ \A row \in HeatRows(q) : \E i \in 1..n : H[i] = row
                          /\ Ordered(H, n)
<1> DEFINE R == HeatRows(q)
           rows == SetToSeq(R)
<1>1. IsFiniteSet(R)
  <2>1. IsFiniteSet(HeatSamples(q))
    BY FS_Subset DEF SamplesInv, HeatSamples, Selected
  <2>3. IsFiniteSet(Pairs(q))
    <3> DEFINE pair == [s \in HeatSamples(q) |-> PairOf(s)]
    <3>1. \A p \in Pairs(q) : \E s \in HeatSamples(q) : p = pair[s]
      BY DEF Pairs
    <3> HIDE DEF pair
    <3>2. QED
      BY <2>1, <3>1, FiniteImage
  <2>4. IsFiniteSet(Rows(q))
    <3> DEFINE row == [p \in Pairs(q) |-> RowOf(q, p)]
    <3>1. \A x \in Rows(q) : \E p \in Pairs(q) : x = row[p]
      BY DEF Rows
    <3> HIDE DEF row
    <3>2. QED
      BY <2>3, <3>1, FiniteImage
  <2>5. R \in SUBSET Rows(q)
    BY HeatRowsAre
  <2>6. QED
    BY <2>4, <2>5, FS_Subset
<1> HIDE DEF rows
<1>2. PICK n \in Nat : /\ rows \in [1..n -> R]
                       /\ \A i, j \in 1..n : rows[i] = rows[j] => i = j
                       /\ \A x \in R : \E i \in 1..n : rows[i] = x
  BY <1>1, ListedOnce DEF rows
<1> DEFINE S == 1..n
           w == [i \in S |-> WorstWeight(rows[i])]
           k == [i \in S |-> rows[i].check.rank]
           l == [i \in S |-> RegionPlace(rows[i])]
           before == {p \in S \X S : Worse(rows, p[1], p[2])}
<1>3. ASSUME NEW i \in S PROVE i \in Int /\ w[i] \in Int /\ k[i] \in Int /\ l[i] \in Int
  <2>1. rows[i] \in HeatRows(q) /\ i \in Int
    BY <1>2
  <2>2. w[i] \in Int /\ k[i] \in Int /\ l[i] \in Int
    BY <2>1, RowFacts
  <2>3. QED
    BY <2>1, <2>2
<1>4. DOMAIN rows = S
  BY <1>2
<1>5. ASSUME NEW i \in S, NEW j \in S
      PROVE  <<i, j>> \in before <=>
                \/ w[i] > w[j]
                \/ w[i] = w[j] /\ (k[i] < k[j] \/ (k[i] = k[j] /\
                                       (l[i] > l[j] \/ (l[i] = l[j] /\ i < j))))
  <2>1. <<i, j>> \in before <=> Worse(rows, i, j)
    OBVIOUS
  <2> HIDE DEF before
  <2>2. QED
    BY <2>1, WorseIs
<1> HIDE DEF w, k, l, before
<1>6. Orders(before, S)
  <2>1. ByKeys(before, S, w, k, l)
    BY <1>3, <1>5 DEF ByKeys
  <2> HIDE DEF S
  <2>2. QED
    BY <2>1, Lexical
<1> DEFINE order == RowOrder(rows)
<1>7. order = Sorted(S, before) /\ DOMAIN rows = S
  <2> HIDE DEF S
  <2>1. QED
    BY <1>4 DEF RowOrder, before
<1>8. IsFiniteSet(S) /\ Cardinality(S) = n
  <2>1. n \in Int /\ 1 \in Int /\ n - 1 + 1 = n
    BY <1>2
  <2>2. QED
    BY <1>2, <2>1, FS_Interval
<1> HIDE DEF order
<1>9. /\ order \in [1..n -> S]
      /\ \A i, j \in 1..n : i < j => <<order[i], order[j]>> \in before
      /\ \A x \in S : \E i \in 1..n : order[i] = x
  <2>1. /\ order \in [1..n -> S]
        /\ \A i, j \in 1..n : i < j => <<order[i], order[j]>> \in before
        /\ \A x \in S : \E i \in 1..n : order[i] = x
    <3> HIDE DEF S
    <3>1. QED
      BY <1>6, <1>7, <1>8, SortedIs, SMTT(30)
  <2>2. QED
    BY <2>1
<1>10. H = [i \in S |-> rows[order[i]]]
  BY <1>7, HeatmapIs DEF rows, order
<1>11. H \in [1..n -> HeatRows(q)]
  BY <1>2, <1>9, <1>10
<1>12. ASSUME NEW i \in 1..n, NEW j \in 1..n, H[i] = H[j] PROVE i = j
  <2>0. order[i] \in S /\ order[j] \in S /\ rows[order[i]] = rows[order[j]]
    BY <1>9, <1>10, <1>12
  <2>1. order[i] = order[j] /\ order[i] \in S
    BY <1>2, <2>0
  <2>2. <<order[i], order[i]>> \notin before
    BY <1>6, <2>1 DEF Orders
  <2>3. ~(i < j) /\ ~(j < i)
    BY <1>9, <2>1, <2>2
  <2>4. QED
    BY <1>2, <2>3
<1>13. ASSUME NEW row \in HeatRows(q) PROVE \E i \in 1..n : H[i] = row
  BY <1>2, <1>9, <1>10
<1>14. Ordered(H, n)
  <2> SUFFICES ASSUME NEW i \in 1..n, NEW j \in 1..n, i < j PROVE WorstWeight(H[i]) >= WorstWeight(H[j])
    BY DEF Ordered
  <2> DEFINE a == order[i]
             b == order[j]
  <2>1. a \in S /\ b \in S /\ <<a, b>> \in before /\ H[i] = rows[a] /\ H[j] = rows[b]
    BY <1>9, <1>10
  <2> HIDE DEF a, b
  <2>2. w[a] \in Int /\ w[b] \in Int /\ w[a] >= w[b]
    BY <1>3, <1>5, <2>1
  <2>3. QED
    BY <2>1, <2>2 DEF w
<1>15. QED
  BY <1>2, <1>11, <1>12, <1>13, <1>14

----------------------------------------------------------------------------
(* The buckets of the heatmap and of the series.                           *)

(* The buckets of a heatmap follow one another up to that of now, and with *)
(* no more points than minutes all of them start after the window does.    *)
LEMMA HeatTimes ==
    ASSUME now \in Nat, NEW q, NEW w \in Nat, w > 0, w = BucketMinutes(q),
           NEW p \in Nat, p > 0, p = q.points, NEW range \in Nat, range = RangeMinutes(q), p <= range,
           NEW last \in Int, last = now \div w
    PROVE  /\ \A n \in 1..p : HeatBuckets(q)[n] = (last - p + n) * w
           /\ now - range < (last - p + 1) * w
<1>1. ASSUME NEW n \in 1..p PROVE HeatBuckets(q)[n] = (last - p + n) * w
  <2>1. HeatBuckets(q)[n] = TimeBucket(w, now) - (p - n) * w
    BY DEF HeatBuckets
  <2>2. last * w - (p - n) * w = (last - p + n) * w
    OBVIOUS
  <2>3. QED
    BY <2>1, <2>2 DEF TimeBucket
<1>2. p * w <= range
  <2> DEFINE d == range \div p
  <2>1. d \in Int /\ p * d <= range /\ range < p * d + p
    BY DivFacts
  <2>2. w = Max({1, d})
    BY DEF BucketMinutes
  <2> HIDE DEF d
  <2>3. d >= 1
    <3>1. CASE d <= 0
      <4>1. p * d = d * p
        BY <2>1
      <4>2. d * p <= 0 * p
        BY <2>1, <3>1, ScaleUp
      <4>3. QED
        BY <2>1, <4>1, <4>2
    <3>2. QED
      BY <2>1, <3>1
  <2>4. w = d
    BY <2>1, <2>2, <2>3, MaxOfTwo
  <2>5. QED
    BY <2>1, <2>4
<1>3. now < last * w + w
  <2>1. now \in Int
    OBVIOUS
  <2>2. TimeBucket(w, now) = (now \div w) * w /\ now < TimeBucket(w, now) + w
    BY <2>1, BucketFacts
  <2>3. QED
    BY <2>2
<1>4. (last - p + 1) * w = last * w - p * w + w /\ last * w \in Int /\ p * w \in Int
  OBVIOUS
<1>5. QED
  BY <1>1, <1>2, <1>3, <1>4

\* The samples of a query in the bucket at b, from a time on.
InBucket(q, from, b) == {s \in Selected(q, from) : TimeBucket(BucketMinutes(q), s.at) = b}

(* A bucket has no samples from before it: where the selection starts, at  *)
(* or before the bucket, does not matter.                                  *)
LEMMA BucketsWhole ==
    ASSUME samples \subseteq Arrivals, NEW q, BucketMinutes(q) \in Nat, BucketMinutes(q) > 0,
           NEW from \in Int, NEW b \in Int, from <= b
    PROVE  InBucket(q, from, b) = InBucket(q, b, b)
<1> DEFINE w == BucketMinutes(q)
           In(s) == q.region \in {"all", s.region} /\ InScope(s.check, q)
<1>1. ASSUME NEW s \in samples, TimeBucket(w, s.at) = b PROVE s.at >= b /\ s.at >= from
  <2>1. s.at \in Int
    BY MetricsAssumption
  <2> DEFINE t == s.at
  <2>2. TimeBucket(w, t) <= t
    <3> HIDE DEF t, w
    <3>1. t \in Int /\ w \in Nat /\ w > 0
      BY <2>1 DEF t, w
    <3>2. QED
      BY <3>1, BucketFacts
  <2>3. QED
    BY <1>1, <2>1, <2>2
<1>2. /\ Selected(q, from) = {s \in samples : s.at >= from /\ In(s)}
      /\ Selected(q, b) = {s \in samples : s.at >= b /\ In(s)}
  BY DEF Selected
<1> HIDE DEF In
<1>3. \A s : s \in InBucket(q, from, b) <=> s \in InBucket(q, b, b)
  BY <1>1, <1>2 DEF InBucket
<1>4. QED
  BY <1>3

(* So two selections that start at or before a bucket see the same of it.  *)
LEMMA SameBucket ==
    ASSUME samples \subseteq Arrivals, NEW q, BucketMinutes(q) \in Nat, BucketMinutes(q) > 0,
           NEW from \in Int, NEW to \in Int, NEW b \in Int, from <= b, to <= b
    PROVE  InBucket(q, from, b) = InBucket(q, to, b)
BY BucketsWhole

(* A column of the heatmap is a sum in the sense of SumOf.                 *)
LEMMA ColumnIsSum ==
    ASSUME NEW H, NEW i, IsFiniteSet(DOMAIN H), NEW f,
           \A k \in DOMAIN H : H[k].totals[i] \in Nat /\ f[k] = H[k].totals[i]
    PROVE  Column(H, i) = SumOf(f, DOMAIN H)
<1> DEFINE K == DOMAIN H
<1>1. IsFiniteSet(K) /\ \A x \in K : f[x] \in Nat /\ f[x] = H[x].totals[i]
  OBVIOUS
<1>2. Column(H, i) = MapThenSumSet(LAMBDA k : H[k].totals[i], K)
  BY DEF Column
<1> HIDE DEF K
<1>3. PICK g \in [SUBSET K -> Nat] : Summing(g, f, K)
  BY <1>1, SumsExist
<1>4. g = [s \in SUBSET K |-> IF s = {} THEN 0
                             ELSE LET x == CHOOSE x \in s : TRUE IN H[x].totals[i] + g[s \ {x}]]
  <2>1. \A s \in SUBSET K : s # {} => Chosen(s) \in K /\ f[Chosen(s)] = H[Chosen(s)].totals[i]
    BY <1>1, ChosenFrom
  <2>2. g = [s \in SUBSET K |-> IF s = {} THEN 0
                                ELSE H[Chosen(s)].totals[i] + g[s \ {Chosen(s)}]]
    BY <1>3, <2>1 DEF Summing
  <2>3. QED
    BY <2>2 DEF Chosen
<1>5. PICK h : /\ h = [s \in SUBSET K |-> IF s = {} THEN 0
                             ELSE LET x == CHOOSE x \in s : TRUE IN H[x].totals[i] + h[s \ {x}]]
               /\ Column(H, i) = h[K]
  BY <1>4, <1>2 DEF MapThenSumSet, MapThenFoldSet
<1>6. Summing(h, f, K)
  <2>1. \A s \in SUBSET K : s # {} => Chosen(s) \in K /\ f[Chosen(s)] = H[Chosen(s)].totals[i]
    BY <1>1, ChosenFrom
  <2>2. h = [s \in SUBSET K |-> IF s = {} THEN 0
                                ELSE H[Chosen(s)].totals[i] + h[s \ {Chosen(s)}]]
    BY <1>5 DEF Chosen
  <2>3. QED
    BY <2>1, <2>2 DEF Summing
<1>7. h[K] = SumOf(f, K)
  <2>1. K \in SUBSET K /\ \A x \in K : f[x] \in Nat
    BY <1>1
  <2>2. QED
    BY <1>1, <1>6, <2>1, SumIs
<1>8. QED
  BY <1>5, <1>7 DEF K

\* The samples of the heatmap that are in the bucket of its column i.
Columned(q, i) == {s \in HeatSamples(q) : TimeBucket(BucketMinutes(q), s.at) = HeatBuckets(q)[i]}

(* Samples one of which has results have results.                          *)
LEMMA PositiveTotal ==
    ASSUME NEW S, IsFiniteSet(S), S \subseteq Arrivals, NEW s \in S, s.total > 0
    PROVE  Total(S) > 0
<1> DEFINE f == [x \in S |-> x.total]
<1>1. \A x \in S : x.total \in Nat /\ f[x] = x.total
  BY MetricsAssumption
<1> HIDE DEF f
<1>2. Total(S) = SumOf(f, S)
  BY <1>1, TotalIsSum
<1>3. SumOf(f, S) = f[s] + SumOf(f, S \ {s})
  BY <1>1, SumRemove
<1>4. SumOf(f, S \ {s}) \in Nat
  <2>1. S \ {s} \in SUBSET S
    OBVIOUS
  <2>2. QED
    BY <1>1, <2>1, SumTypes
<1>5. QED
  BY <1>1, <1>2, <1>3, <1>4

\* The check and region of a row.
RowPair(row) == <<row.check, row.region>>

(* A sample with results in a configured region is in a row of the answer. *)
LEMMA PairAnswered ==
    ASSUME SamplesInv, NEW q, q.points \in Nat, NEW i \in 1..q.points,
           NEW s \in HeatSamples(q), TimeBucket(BucketMinutes(q), s.at) = HeatBuckets(q)[i],
           s.region \in Range(s.check.regions), s.total > 0
    PROVE  \E row \in HeatRows(q) : RowPair(row) = PairOf(s)
<1> DEFINE p == PairOf(s)
           row == RowOf(q, p)
           seen == Seen(q, SamplesOf(q, p))
<1>1. row \in Rows(q)
  BY DEF Rows, Pairs
<1>2. row.sampleCount = Total(seen) /\ row.check = p[1] /\ row.region = p[2]
  BY HeatRowIs DEF RowOf
<1>3. s \in seen /\ seen \in SUBSET samples
  BY DEF Seen, InCell, SamplesOf, HeatSamples, Selected
<1> HIDE DEF seen, row
<1>4. Total(seen) > 0
  <2>1. IsFiniteSet(seen) /\ seen \subseteq Arrivals
    BY <1>3, FS_Subset DEF SamplesInv
  <2>2. QED
    BY <1>3, <2>1, PositiveTotal
<1>5. row \in HeatRows(q)
  BY <1>1, <1>2, <1>4, HeatRowsAre
<1>6. RowPair(row) = p
  BY <1>2 DEF RowPair, PairOf
<1>7. QED
  BY <1>5, <1>6

(* A row's total in a bucket is that of its samples there, and no other row*)
(* is about the same check and region.                                     *)
LEMMA RowCell ==
    ASSUME SamplesInv, NEW q, q.points \in Nat, q.points > 0, NEW i \in 1..q.points,
           NEW row \in HeatRows(q),
           NEW C, C = Columned(q, i)
    PROVE  /\ row.totals[i] = Total({s \in C : PairOf(s) = RowPair(row)})
           /\ \A s \in C : PairOf(s) = RowPair(row) => s.region \in Range(s.check.regions)
           /\ \A other \in HeatRows(q) : RowPair(other) = RowPair(row) => other = row
<1> DEFINE p == RowPair(row)
<1>1. p \in Pairs(q) /\ row = RowOf(q, p)
  BY RowFacts DEF RowPair
<1>2. row.totals[i] = Total(InCell(q, SamplesOf(q, p), i))
  <2> HIDE DEF p
  <2>1. row = HeatRow(q, p[1], p[2], SamplesOf(q, p))
    BY <1>1 DEF RowOf
  <2>2. QED
    BY <2>1, HeatRowIs
<1>3. InCell(q, SamplesOf(q, p), i) = {s \in C : PairOf(s) = p}
  BY DEF InCell, SamplesOf, Columned
<1>4. ASSUME NEW s \in C, PairOf(s) = p PROVE s.region \in Range(s.check.regions)
  <2>1. PICK t : t.region \in Range(t.check.regions) /\ PairOf(t) = p
    BY <1>1 DEF Pairs
  <2>2. t.region = s.region /\ t.check = s.check
    BY <1>4, <2>1 DEF PairOf
  <2>3. QED
    BY <2>1, <2>2
<1>5. ASSUME NEW other \in HeatRows(q), RowPair(other) = p PROVE other = row
  <2>1. other = RowOf(q, RowPair(other))
    BY RowFacts DEF RowPair
  <2>2. QED
    BY <1>1, <1>5, <2>1
<1>6. QED
  BY <1>2, <1>3, <1>4, <1>5

(* What a column adds up to, and the samples in regions that are not       *)
(* configured, are all samples of the bucket.                              *)
LEMMA HeatmapAdds ==
    ASSUME SamplesInv, NEW q, q.points \in Nat, q.points > 0, NEW i \in 1..q.points,
           NEW H, H = Heatmap(q),
           NEW C, C = Columned(q, i)
    PROVE  Total(C) = Column(H, i) + Total({s \in C : s.region \notin Range(s.check.regions)})
<1> DEFINE T == {s \in C : s.region \in Range(s.check.regions)}
           U == {s \in C : s.region \notin Range(s.check.regions)}
           f == [s \in C |-> s.total]
           T1 == {s \in T : f[s] > 0}
<1>1. C \in SUBSET samples /\ IsFiniteSet(C) /\ C \subseteq Arrivals
  <2>1. C \in SUBSET samples
    BY DEF Columned, HeatSamples, Selected
  <2>2. QED
    BY <2>1, FS_Subset DEF SamplesInv
<1>2. \A s \in C : f[s] = s.total /\ f[s] \in Nat
  BY <1>1, MetricsAssumption
<1>3. /\ C = T \union U /\ T \intersect U = {} /\ T \in SUBSET C /\ U \in SUBSET C
      /\ IsFiniteSet(T) /\ IsFiniteSet(U) /\ T1 \in SUBSET C /\ IsFiniteSet(T1)
  <2>1. C = T \union U /\ T \intersect U = {} /\ T \in SUBSET C /\ U \in SUBSET C /\ T1 \in SUBSET C
    OBVIOUS
  <2> HIDE DEF T, U, T1
  <2>2. QED
    BY <1>1, <2>1, FS_Subset
<1>4. Total(C) = Total(T) + Total(U)
  <2> HIDE DEF T, U
  <2>1. QED
    BY <1>1, <1>3, TotalUnion
<1>5. Total(T) = SumOf(f, T1)
  <2>1. \A s \in T : s.total \in Nat /\ f[s] = s.total /\ f[s] \in Nat
    BY <1>2, <1>3
  <2>2. T1 = {s \in T : f[s] > 0}
    OBVIOUS
  <2> HIDE DEF T, f, T1
  <2>3. QED
    BY <1>3, <2>1, <2>2, TotalIsSum, SumNonZero
<1>6. PICK n \in Nat : /\ H \in [1..n -> HeatRows(q)]
                       /\ \A j, k \in 1..n : H[j] = H[k] => j = k
                       /\ \A row \in HeatRows(q) : \E k \in 1..n : H[k] = row
  BY HeatmapFacts
<1> DEFINE K == 1..n
           Cell(k) == {s \in C : PairOf(s) = RowPair(H[k])}
           Piece(k) == {s \in Cell(k) : f[s] > 0}
           p == [k \in K |-> H[k].totals[i]]
           c == [k \in K |-> Piece(k)]
           m == [s \in T1 |-> CHOOSE k \in K : RowPair(H[k]) = PairOf(s)]
<1>7. ASSUME NEW k \in K
      PROVE  /\ p[k] = Total(Cell(k)) /\ Cell(k) \in SUBSET C
             /\ \A s \in C : PairOf(s) = RowPair(H[k]) => s \in T
             /\ \A j \in K : RowPair(H[j]) = RowPair(H[k]) => j = k
  <2> DEFINE row == H[k]
  <2>1. row \in HeatRows(q) /\ p[k] = row.totals[i]
    BY <1>6
  <2>2. /\ row.totals[i] = Total({s \in C : PairOf(s) = RowPair(row)})
        /\ \A s \in C : PairOf(s) = RowPair(row) => s.region \in Range(s.check.regions)
        /\ \A other \in HeatRows(q) : RowPair(other) = RowPair(row) => other = row
    <3> HIDE DEF row, f, T, U, T1
    <3>1. \A other \in HeatRows(q) : RowPair(other) = RowPair(row) => other = row
      BY <2>1, RowCell
    <3>2. /\ row.totals[i] = Total({s \in C : PairOf(s) = RowPair(row)})
          /\ \A s \in C : PairOf(s) = RowPair(row) => s.region \in Range(s.check.regions)
      BY <2>1, RowCell
    <3>3. QED
      BY <3>1, <3>2
  <2>3. \A j \in K : H[j] \in HeatRows(q)
    BY <1>6
  <2>4. QED
    BY <1>6, <2>1, <2>2, <2>3
<1>8. ASSUME NEW k \in K
      PROVE  p[k] = SumOf(f, c[k]) /\ c[k] \in SUBSET T1 /\ p[k] \in Nat
  <2> DEFINE A == Cell(k)
  <2>1. /\ p[k] = Total(A) /\ A \in SUBSET C
    BY <1>7
  <2>2. /\ c[k] = {s \in A : f[s] > 0} /\ c[k] \in SUBSET T1
    BY <1>7
  <2> HIDE DEF A, f, c, p
  <2>3. IsFiniteSet(A) /\ \A s \in A : s.total \in Nat /\ f[s] = s.total /\ f[s] \in Nat
    BY <1>1, <1>2, <2>1, FS_Subset
  <2>4. Total(A) = SumOf(f, A) /\ SumOf(f, A) = SumOf(f, {s \in A : f[s] > 0}) /\ SumOf(f, A) \in Nat
    BY <2>3, TotalIsSum, SumNonZero, SumFacts
  <2>5. QED
    BY <2>1, <2>2, <2>4
<1>9. ASSUME NEW s \in T1
      PROVE  m[s] \in K /\ RowPair(H[m[s]]) = PairOf(s)
  <2>1. /\ s \in HeatSamples(q) /\ TimeBucket(BucketMinutes(q), s.at) = HeatBuckets(q)[i]
        /\ s.region \in Range(s.check.regions) /\ s.total > 0
    BY <1>2 DEF Columned
  <2>2. PICK row \in HeatRows(q) : RowPair(row) = PairOf(s)
    BY <2>1, PairAnswered
  <2>3. \E k \in K : RowPair(H[k]) = PairOf(s)
    BY <1>6, <2>2
  <2>4. QED
    BY <2>3
<1>10. ASSUME NEW s \in T1, NEW k \in K PROVE s \in c[k] <=> m[s] = k
  <2>1. s \in c[k] <=> PairOf(s) = RowPair(H[k])
    OBVIOUS
  <2>2. PairOf(s) = RowPair(H[k]) <=> m[s] = k
    <3> HIDE DEF m
    <3>1. m[s] \in K /\ RowPair(H[m[s]]) = PairOf(s)
      BY <1>9
    <3>2. RowPair(H[m[s]]) = RowPair(H[k]) => m[s] = k
      BY <1>7, <3>1
    <3>3. QED
      BY <3>1, <3>2
  <2>3. QED
    BY <2>1, <2>2
<1>11. SumOf(f, T1) = SumOf(p, K)
  <2>1. IsFiniteSet(K)
    BY <1>6, FS_Interval
  <2>2. \A s \in T1 : f[s] \in Nat /\ m[s] \in K
    BY <1>2, <1>3, <1>9
  <2>3. /\ \A k \in K : c[k] \in SUBSET T1 /\ p[k] = SumOf(f, c[k])
        /\ \A k \in K : \A s \in T1 : s \in c[k] <=> m[s] = k
    BY <1>8, <1>10
  <2>4. IsFiniteSet(T1)
    BY <1>3
  <2> HIDE DEF T1, T, U, f, K, m, p, c
  <2>5. (\A s \in T1 : f[s] \in Nat) /\ \A s \in T1 : m[s] \in K
    BY <2>2
  <2>6. QED
    BY <2>1, <2>3, <2>4, <2>5, SumParts
<1>12. Column(H, i) = SumOf(p, K)
  <2>1. DOMAIN H = K /\ IsFiniteSet(K)
    BY <1>6, FS_Interval
  <2>2. \A k \in K : H[k].totals[i] \in Nat /\ p[k] = H[k].totals[i]
    BY <1>8
  <2> HIDE DEF K, p
  <2>3. QED
    BY <2>1, <2>2, ColumnIsSum
<1>13. QED
  BY <1>4, <1>5, <1>11, <1>12

(* The samples of a bucket are those of the table in it: none is older than*)
(* the clock's zero.                                                       *)
LEMMA StoredInBucket ==
    ASSUME samples \subseteq Arrivals, NEW q, BucketMinutes(q) \in Nat, BucketMinutes(q) > 0,
           NEW b \in Int
    PROVE  InBucket(q, 0, b) = InBucket(q, b, b)
<1> DEFINE w == BucketMinutes(q)
           In(s) == q.region \in {"all", s.region} /\ InScope(s.check, q)
<1>1. ASSUME NEW s \in samples, TimeBucket(w, s.at) = b PROVE s.at >= b /\ s.at >= 0
  <2>1. s.at \in Nat
    BY MetricsAssumption
  <2> DEFINE t == s.at
  <2>2. TimeBucket(w, t) <= t
    <3> HIDE DEF t, w
    <3>1. t \in Int /\ w \in Nat /\ w > 0
      BY <2>1 DEF t, w
    <3>2. QED
      BY <3>1, BucketFacts
  <2>3. QED
    BY <1>1, <2>1, <2>2
<1>2. /\ InBucket(q, 0, b) = {s \in samples : s.at >= 0 /\ In(s) /\ TimeBucket(w, s.at) = b}
      /\ InBucket(q, b, b) = {s \in samples : s.at >= b /\ In(s) /\ TimeBucket(w, s.at) = b}
  BY DEF InBucket, Selected
<1> HIDE DEF In, w
<1>3. QED
  BY <1>1, <1>2, Zenon

(* With no more points than minutes, no bucket of a series is padding.     *)
LEMMA FullWindow ==
    ASSUME now \in Nat, NEW r \in Queries, NEW q, q = Parse(r), q.points <= RangeMinutes(q)
    PROVE  ShownCount(q) = q.points
<1> DEFINE p == q.points
           w == BucketMinutes(q)
           from == WindowStart(q)
           last == LastBucket(q)
           range == RangeMinutes(q)
           first == last - p + 1
           start == from \div w
<1>1. /\ p \in Nat /\ p > 0 /\ range \in Nat /\ w \in Nat /\ w > 0
      /\ last \in Int /\ from \in Int /\ BucketCount(q) \in Nat
  BY QueryFacts, SeriesIs
<1>2. last = now \div w /\ from = now - range /\ BucketCount(q) = last - start + 1
  BY DEF LastBucket, WindowStart, BucketCount
<1>3. from < first * w
  <2>1. w = BucketMinutes(q) /\ p = q.points /\ range = RangeMinutes(q) /\ p <= range
    OBVIOUS
  <2> HIDE DEF p, w, from, last, range
  <2>2. now - range < (last - p + 1) * w
    BY <1>1, <1>2, <2>1, HeatTimes
  <2>3. QED
    BY <1>2, <2>2
<1> HIDE DEF p, w, from, last, range
<1>4. start \in Int /\ first \in Int
  BY <1>1, BucketFacts
<1>5. first * w <= from <=> first <= start
  <2> HIDE DEF first
  <2>1. QED
    BY <1>1, <1>4, BucketOrder
<1>6. ~(first * w <= from)
  <2> DEFINE t == first * w
  <2>1. t \in Int
    BY <1>1, <1>4
  <2> HIDE DEF t
  <2>2. ~(t <= from)
    BY <1>1, <1>3, <2>1 DEF t
  <2>3. QED
    BY <2>2 DEF t
<1>7. ~(first <= start)
  BY <1>5, <1>6
<1>8. BucketCount(q) > p
  <2> HIDE DEF start
  <2>1. QED
    BY <1>1, <1>2, <1>4, <1>7
<1>9. QED
  BY <1>1, <1>8 DEF ShownCount, p

(* Then the i-th bucket of the series is that of the heatmap, and counts   *)
(* its samples.                                                            *)
LEMMA SeriesBucket ==
    ASSUME now \in Nat, NEW r \in Queries, NEW q, q = Parse(r), q.points <= RangeMinutes(q),
           NEW i \in 1..q.points
    PROVE  LET b == HeatBuckets(q)[i]
               point == LatencySeries(q).buckets[i]
           IN  /\ b \in Int /\ HeatBuckets(q)[1] \in Int
               /\ WindowStart(q) \in Int /\ WindowStart(q) <= b /\ HeatBuckets(q)[1] <= b
               /\ point.at = b /\ point.total = Total(InBucket(q, WindowStart(q), b))
<1> DEFINE p == q.points
           w == BucketMinutes(q)
           from == WindowStart(q)
           last == LastBucket(q)
           range == RangeMinutes(q)
           S == Selected(q, from)
           b == HeatBuckets(q)[i]
           b1 == HeatBuckets(q)[1]
<1>1. /\ p \in Nat /\ p > 0 /\ range \in Nat /\ w \in Nat /\ w > 0
      /\ last \in Int /\ from \in Int /\ last = now \div w /\ from = now - range
  BY QueryFacts, SeriesIs DEF LastBucket, WindowStart
<1>2. PICK shown, buckets :
        /\ LatencySeries(q) = [sampleCount |-> Counted(shown), buckets |-> buckets]
        /\ Series(buckets, w, S, last, p, p)
  BY SeriesIs, FullWindow DEF ShowsLast
<1>3. b = (last - p + i) * w /\ b1 = (last - p + 1) * w /\ from < (last - p + 1) * w
  <2>1. w = BucketMinutes(q) /\ p = q.points /\ range = RangeMinutes(q) /\ p <= range
    OBVIOUS
  <2>2. i \in 1..p /\ 1 \in 1..p
    BY <1>1
  <2> HIDE DEF p, w, from, last, range
  <2>3. (\A n \in 1..p : HeatBuckets(q)[n] = (last - p + n) * w) /\ now - range < (last - p + 1) * w
    BY <1>1, <2>1, HeatTimes, SMTT(30)
  <2>4. QED
    BY <1>1, <2>2, <2>3
<1>4. i \in 1..p
  OBVIOUS
<1> HIDE DEF p, w, from, last, range, S, b, b1
<1>5. b \in Int /\ b1 \in Int /\ b1 <= b /\ from <= b
  <2> DEFINE m == last - p + 1
             n == last - p + i
  <2>1. m \in Int /\ n \in Int /\ m <= n /\ b = n * w /\ b1 = m * w
    BY <1>1, <1>3, <1>4
  <2>2. from < b1
    BY <1>3
  <2> HIDE DEF m, n
  <2>3. m * w <= n * w /\ m * w \in Int /\ n * w \in Int
    BY <1>1, <2>1, ScaleUp
  <2> HIDE DEF b, b1
  <2>4. b \in Int /\ b1 \in Int /\ b1 <= b
    BY <2>1, <2>3
  <2>5. QED
    BY <1>1, <2>2, <2>4
<1>6. buckets[i] = Point(w, S, b)
  <2>1. ~(i <= p - p)
    BY <1>1, <1>4
  <2>2. QED
    BY <1>2, <1>3, <1>4, <2>1 DEF Series
<1>7. buckets[i].at = b /\ buckets[i].total = Total({s \in S : TimeBucket(w, s.at) = b})
  BY <1>6 DEF Point
<1>8. {s \in S : TimeBucket(w, s.at) = b} = InBucket(q, from, b)
  BY DEF InBucket, S, w
<1>9. LatencySeries(q).buckets = buckets
  BY <1>2
<1>10. QED
  BY <1>1, <1>5, <1>7, <1>8, <1>9 DEF from, b, b1

\* The stored samples of a query in regions their check is not configured for.
Strays(q) == {s \in Selected(q, 0) : s.region \notin Range(s.check.regions)}
StraysIn(q, b) == {s \in Strays(q) : TimeBucket(BucketMinutes(q), s.at) = b}

(* So the two agree on the bucket.                                         *)
LEMMA BucketAgrees ==
    ASSUME SamplesInv, now \in Nat, NEW r \in Queries, NEW q, q = Parse(r),
           q.points <= RangeMinutes(q), NEW i \in 1..q.points,
           NEW b, b = HeatBuckets(q)[i]
    PROVE  /\ LatencySeries(q).buckets[i].at = b
           /\ LatencySeries(q).buckets[i].total =
                Column(Heatmap(q), i) + Total(StraysIn(q, b))
<1> DEFINE w == BucketMinutes(q)
           from == WindowStart(q)
           b1 == HeatBuckets(q)[1]
           H == Heatmap(q)
           C == Columned(q, i)
<1>1. /\ b \in Int /\ b1 \in Int /\ from \in Int /\ from <= b /\ b1 <= b
      /\ LatencySeries(q).buckets[i].at = b
      /\ LatencySeries(q).buckets[i].total = Total(InBucket(q, from, b))
  BY SeriesBucket
<1>2. q.points \in Nat /\ q.points > 0 /\ w \in Nat /\ w > 0 /\ samples \subseteq Arrivals
  BY QueryFacts DEF SamplesInv
<1>3. C = InBucket(q, b1, b)
  BY DEF Columned, HeatSamples, InBucket
<1> HIDE DEF from, b1
<1>4. InBucket(q, from, b) = C /\ InBucket(q, 0, b) = C
  <2>1. InBucket(q, from, b) = InBucket(q, b, b) /\ InBucket(q, b1, b) = InBucket(q, b, b)
    BY <1>1, <1>2, BucketsWhole
  <2>2. InBucket(q, 0, b) = InBucket(q, b, b)
    BY <1>1, <1>2, StoredInBucket
  <2> HIDE DEF C
  <2>3. QED
    BY <1>3, <2>1, <2>2
<1>5. {s \in C : s.region \notin Range(s.check.regions)} = StraysIn(q, b)
  <2>0. StraysIn(q, b) = {s \in Strays(q) : TimeBucket(w, s.at) = b}
    BY DEF StraysIn
  <2>1. InBucket(q, 0, b) = {s \in Selected(q, 0) : TimeBucket(w, s.at) = b}
    BY DEF InBucket
  <2> HIDE DEF C, w
  <2>2. C = {s \in Selected(q, 0) : TimeBucket(w, s.at) = b}
    BY <1>4, <2>1
  <2>3. QED
    BY <2>0, <2>2 DEF Strays
<1>6. Total(C) = Column(H, i) + Total({s \in C : s.region \notin Range(s.check.regions)})
  <2>1. H = Heatmap(q) /\ C = Columned(q, i)
    OBVIOUS
  <2> HIDE DEF H, C, w
  <2>2. QED
    BY <1>2, <2>1, HeatmapAdds
<1> HIDE DEF C
<1>7. QED
  BY <1>1, <1>4, <1>5, <1>6

(* For any queries, samples and clock, a bucket of the latency series has  *)
(* the time of the heatmap's, and counts what the rows of the heatmap and  *)
(* the samples of regions their check is not configured for add up to      *)
(* (metrics.service.ts:101-217 and 219-436): counting forward from the     *)
(* start of the window and back from now, and a region listed twice, make  *)
(* no difference.                                                          *)
THEOREM HeatmapHold == Spec => []HeatmapAgreesWithSeries
<1>1. SamplesInv /\ ClockInv => HeatmapAgreesWithSeries
  <2> SUFFICES ASSUME SamplesInv, ClockInv PROVE HeatmapAgreesWithSeries
    OBVIOUS
  <2>1. ASSUME NEW r \in Queries, Parse(r).points <= RangeMinutes(Parse(r)),
               NEW n \in 1..Parse(r).points
        PROVE  LET q == Parse(r)
                   point == LatencySeries(q).buckets[n]
               IN  /\ point.at = HeatBuckets(q)[n]
                   /\ point.total = Column(Heatmap(q), n) + Total(StraysIn(q, point.at))
    <3> DEFINE q == Parse(r)
               b == HeatBuckets(q)[n]
    <3>1. /\ q = Parse(r) /\ q.points <= RangeMinutes(q) /\ n \in 1..q.points /\ now \in Nat
          /\ b = HeatBuckets(q)[n]
      BY <2>1 DEF ClockInv
    <3> HIDE DEF q, b
    <3>2. /\ LatencySeries(q).buckets[n].at = b
          /\ LatencySeries(q).buckets[n].total = Column(Heatmap(q), n) + Total(StraysIn(q, b))
      BY <3>1, BucketAgrees
    <3>3. QED
      BY <3>1, <3>2 DEF q
  <2>2. QED
    BY <2>1 DEF HeatmapAgreesWithSeries, Strays, StraysIn
<1>2. QED
  BY <1>1, SamplesInvariant, ClockInvariant, PTL

----------------------------------------------------------------------------
(* Sequences and parts.                                                    *)

(* A set of numbers has a least one.                                       *)
LEMMA LeastNat ==
    ASSUME NEW A \in SUBSET Nat, A # {}
    PROVE  \E m \in A : \A x \in A : m <= x
<1>1. PICK t \in A : TRUE
  OBVIOUS
<1> DEFINE B == {x \in A : x <= t}
<1>2. B \in SUBSET Nat /\ B \subseteq Int /\ B # {} /\ t \in Nat /\ \A x \in B : x <= t
  <2>1. B \in SUBSET A /\ t \in B /\ \A x \in B : x <= t
    OBVIOUS
  <2> HIDE DEF B
  <2>2. QED
    BY <2>1
<1> HIDE DEF B
<1>3. IsFiniteSet(B)
  BY <1>2, FS_BoundedSetOfNaturals
<1>4. Min(B) \in B /\ \A x \in B : Min(B) <= x
  BY <1>2, <1>3, Extremes
<1> DEFINE m == Min(B)
<1> HIDE DEF m
<1>5. m \in A /\ m <= t /\ \A x \in B : m <= x
  BY <1>4 DEF B, m
<1>6. \A x \in A : m <= x
  <2> SUFFICES ASSUME NEW x \in A PROVE m <= x
    OBVIOUS
  <2>1. x <= t => x \in B
    BY DEF B
  <2>2. x \in Nat /\ t \in Nat /\ m \in Nat
    BY <1>5
  <2>3. QED
    BY <1>5, <2>1, <2>2
<1>7. QED
  BY <1>5, <1>6

(* The recursive function by which a sequence of sequences is flattened.   *)
Flattening(g, ss, n) == g = [i \in 1..n |-> IF i = 1 THEN ss[i] ELSE g[i - 1] \o ss[i]]

(* There is one.                                                           *)
LEMMA FlatteningExists ==
    ASSUME NEW ss, NEW n \in Nat
    PROVE  \E g : Flattening(g, ss, n)
<1> DEFINE A == {k \in Nat : ~\E g : Flattening(g, ss, k)}
<1>1. SUFFICES ASSUME A # {} PROVE FALSE
  OBVIOUS
<1>2. PICK k \in A : \A x \in A : k <= x
  <2>1. A \in SUBSET Nat
    OBVIOUS
  <2> HIDE DEF A
  <2>2. QED
    BY <1>1, <2>1, LeastNat
<1>3. k # 0
  <2> DEFINE g == [i \in 1..0 |-> ss]
  <2>1. g = [i \in 1..0 |-> IF i = 1 THEN ss[i] ELSE g[i - 1] \o ss[i]]
    OBVIOUS
  <2> HIDE DEF g
  <2>2. Flattening(g, ss, 0)
    BY <2>1 DEF Flattening
  <2>3. QED
    BY <2>2
<1>4. k - 1 \in Nat /\ ~(k <= k - 1)
  BY <1>3
<1>5. PICK h : Flattening(h, ss, k - 1)
  BY <1>2, <1>4
<1> DEFINE value(i) == IF i = 1 THEN ss[i] ELSE h[i - 1] \o ss[i]
           g == [i \in 1..k |-> value(i)]
<1>6. \A i \in 1..k - 1 : h[i] = value(i)
  BY <1>4, <1>5 DEF Flattening
<1>7. \A i \in 1..k : i # 1 => i - 1 \in 1..k - 1 /\ i - 1 \in 1..k
  BY <1>4
<1>8. \A i \in 1..k : value(i) = IF i = 1 THEN ss[i] ELSE g[i - 1] \o ss[i]
  BY <1>6, <1>7
<1> HIDE DEF value
<1>9. g = [i \in 1..k |-> IF i = 1 THEN ss[i] ELSE g[i - 1] \o ss[i]]
  BY <1>8
<1> HIDE DEF g
<1>10. Flattening(g, ss, k)
  BY <1>9 DEF Flattening
<1>11. QED
  BY <1>10

(* The sequences flattened have elements of X; so has the result.          *)
LEMMA Flattened ==
    ASSUME NEW X, NEW ss \in Seq(Seq(X))
    PROVE  FlattenSeq(ss) \in Seq(X)
<1> DEFINE n == Len(ss)
<1>1. CASE n = 0
  <2>1. FlattenSeq(ss) = ss /\ ss = <<>>
    BY <1>1 DEF FlattenSeq
  <2>2. QED
    BY <2>1
<1>2. CASE n # 0
  <2>1. n \in Nat /\ n \in 1..n /\ \A i \in 1..n : ss[i] \in Seq(X)
    BY <1>2
  <2>2. PICK g : Flattening(g, ss, n) /\ FlattenSeq(ss) = g[n]
    <3>1. \E g : g = [i \in 1..n |-> IF i = 1 THEN ss[i] ELSE g[i - 1] \o ss[i]]
      BY <2>1, FlatteningExists DEF Flattening
    <3>2. QED
      BY <1>2, <3>1 DEF Flattening, FlattenSeq
  <2> DEFINE A == {i \in 1..n : g[i] \notin Seq(X)}
  <2>3. A = {}
    <3> SUFFICES ASSUME A # {} PROVE FALSE
      OBVIOUS
    <3>1. A \in SUBSET Nat
      OBVIOUS
    <3>2. PICK m \in A : \A x \in A : m <= x
      <4> HIDE DEF A
      <4>1. QED
        BY <3>1, LeastNat
    <3>3. m \in 1..n /\ g[m] = IF m = 1 THEN ss[m] ELSE g[m - 1] \o ss[m]
      BY <2>2 DEF Flattening
    <3>4. CASE m = 1
      BY <2>1, <3>3, <3>4
    <3>5. CASE m # 1
      <4>1. m - 1 \in 1..n /\ ~(m <= m - 1)
        BY <2>1, <3>3, <3>5
      <4>2. g[m - 1] \in Seq(X)
        BY <3>2, <4>1
      <4>3. g[m] \in Seq(X)
        BY <2>1, <3>3, <3>5, <4>2
      <4>4. QED
        BY <4>3
    <3>6. QED
      BY <3>4, <3>5
  <2>4. QED
    BY <2>1, <2>2, <2>3
<1>3. QED
  BY <1>1, <1>2

(* A sum of multiples.                                                     *)
LEMMA SumTimes ==
    ASSUME NEW S, IsFiniteSet(S), NEW f, NEW a \in Nat, NEW h,
           \A x \in S : f[x] \in Nat /\ h[x] = a * f[x]
    PROVE  SumOf(h, S) = a * SumOf(f, S)
<1> DEFINE G == {T \in SUBSET S : SumOf(h, T) = a * SumOf(f, T)}
<1>1. \A x \in S : f[x] \in Nat /\ h[x] \in Nat /\ h[x] = a * f[x]
  OBVIOUS
<1>2. \A T \in SUBSET S : IsFiniteSet(T) /\ SumOf(f, T) \in Nat /\ SumOf(h, T) \in Nat
  BY <1>1, SumTypes
<1>3. {} \in G
  <2>1. SumOf(f, {}) = 0 /\ SumOf(h, {}) = 0
    BY <1>1, SumFacts
  <2>2. QED
    BY <2>1
<1>4. ASSUME NEW T \in SUBSET S, NEW x \in T, T \ {x} \in G PROVE T \in G
  <2> DEFINE R == T \ {x}
  <2>1. IsFiniteSet(T) /\ (\A y \in T : f[y] \in Nat) /\ \A y \in T : h[y] \in Nat
    BY <1>1, <1>2
  <2>2. SumOf(f, T) = f[x] + SumOf(f, R) /\ SumOf(h, T) = h[x] + SumOf(h, R)
    BY <2>1, SumRemove
  <2>3. R \in SUBSET S /\ SumOf(h, R) = a * SumOf(f, R)
    BY <1>4
  <2> HIDE DEF R
  <2> DEFINE y == f[x]
             z == SumOf(f, R)
  <2>4. y \in Nat /\ z \in Nat /\ h[x] = a * y /\ SumOf(h, R) = a * z
    BY <1>1, <1>2, <2>3
  <2> HIDE DEF y, z
  <2>5. a * (y + z) = a * y + a * z
    BY <2>4
  <2>6. SumOf(h, T) = a * SumOf(f, T)
    BY <2>2, <2>4, <2>5 DEF y, z
  <2>7. QED
    BY <2>6
<1>5. S \in G
  <2> HIDE DEF G
  <2>1. QED
    BY <1>3, <1>4, Subsets
<1>6. QED
  BY <1>5

(* What holds of the sums of each part of a set holds of the whole: here   *)
(* that b times one sum is at most a times the other.                      *)
LEMMA PartsAndWhole ==
    ASSUME NEW S, IsFiniteSet(S), NEW f, NEW g, \A x \in S : f[x] \in Nat,
           \A x \in S : g[x] \in Nat, NEW K, IsFiniteSet(K), NEW m, \A x \in S : m[x] \in K,
           NEW c, \A k \in K : c[k] \in SUBSET S,
           \A k \in K : \A x \in S : x \in c[k] <=> m[x] = k,
           NEW a \in Nat, NEW b \in Nat,
           \A k \in K : b * SumOf(g, c[k]) <= a * SumOf(f, c[k])
    PROVE  b * SumOf(g, S) <= a * SumOf(f, S)
<1> DEFINE p == [k \in K |-> SumOf(f, c[k])]
           q == [k \in K |-> SumOf(g, c[k])]
           v == [k \in K |-> a * p[k]]
           w == [k \in K |-> b * q[k]]
<1>1. \A T \in SUBSET S : SumOf(f, T) \in Nat /\ SumOf(g, T) \in Nat
  BY SumTypes
<1>2. ASSUME NEW k \in K
      PROVE  /\ p[k] = SumOf(f, c[k]) /\ q[k] = SumOf(g, c[k]) /\ p[k] \in Nat /\ q[k] \in Nat
             /\ v[k] = a * p[k] /\ w[k] = b * q[k] /\ w[k] <= v[k]
  <2>1. /\ p[k] = SumOf(f, c[k]) /\ q[k] = SumOf(g, c[k])
        /\ v[k] = a * p[k] /\ w[k] = b * q[k]
    OBVIOUS
  <2> HIDE DEF p, q, v, w
  <2>2. QED
    BY <1>1, <2>1
<1> HIDE DEF p, q, v, w
<1>3. SumOf(f, S) = SumOf(p, K)
  <2>1. \A k \in K : c[k] \in SUBSET S /\ p[k] = SumOf(f, c[k])
    BY <1>2
  <2>2. QED
    BY <2>1, SumParts
<1>4. SumOf(g, S) = SumOf(q, K)
  <2>1. \A k \in K : c[k] \in SUBSET S /\ q[k] = SumOf(g, c[k])
    BY <1>2
  <2>2. QED
    BY <2>1, SumParts
<1>5. SumOf(v, K) = a * SumOf(p, K) /\ SumOf(w, K) = b * SumOf(q, K)
  BY <1>2, SumTimes
<1>6. SumOf(w, K) <= SumOf(v, K)
  <2>1. \A k \in K : w[k] \in Nat /\ v[k] \in Nat /\ w[k] <= v[k]
    <3> SUFFICES ASSUME NEW k \in K PROVE w[k] \in Nat /\ v[k] \in Nat
      BY <1>2
    <3> DEFINE x == p[k]
               y == q[k]
    <3>1. x \in Nat /\ y \in Nat /\ v[k] = a * x /\ w[k] = b * y
      BY <1>2
    <3> HIDE DEF x, y
    <3>2. QED
      BY <3>1
  <2>2. QED
    BY <2>1, SumBelow
<1>7. QED
  BY <1>3, <1>4, <1>5, <1>6

----------------------------------------------------------------------------
(* What a row was like.                                                    *)

(* The cells of a row follow one another.                                  *)
LEMMA CellsApart ==
    ASSUME now \in Nat, NEW q, BucketMinutes(q) \in Nat, BucketMinutes(q) > 0,
           q.points \in Nat, NEW i \in 1..q.points, NEW j \in 1..q.points,
           HeatBuckets(q)[i] = HeatBuckets(q)[j]
    PROVE  i = j
<1> DEFINE w == BucketMinutes(q)
           p == q.points
           t == TimeBucket(w, now)
<1>1. HeatBuckets(q)[i] = t - (p - i) * w /\ HeatBuckets(q)[j] = t - (p - j) * w
  BY DEF HeatBuckets
<1>2. w \in Nat /\ w > 0 /\ p \in Nat /\ t \in Int /\ i \in Int /\ j \in Int
  BY BucketFacts
<1>3. t - (p - i) * w = t - (p - j) * w
  BY <1>1
<1> HIDE DEF w, p, t
<1> DEFINE a == p - i
           b == p - j
<1>4. a \in Int /\ b \in Int /\ a * w = b * w /\ (a = b => i = j)
  <2>1. a \in Int /\ b \in Int /\ (a = b => i = j)
    BY <1>2
  <2>2. t - a * w = t - b * w
    BY <1>3
  <2> HIDE DEF a, b
  <2>3. a * w \in Int /\ b * w \in Int
    BY <1>2, <2>1
  <2>4. QED
    BY <1>2, <2>1, <2>2, <2>3
<1> HIDE DEF a, b
<1>5. a = b
  <2>1. ASSUME a + 1 <= b PROVE FALSE
    <3>1. (a + 1) * w <= b * w /\ (a + 1) * w = a * w + w
      BY <1>2, <1>4, <2>1, ScaleUp
    <3>2. a * w \in Int
      BY <1>2, <1>4
    <3>3. QED
      BY <1>2, <1>4, <3>1, <3>2
  <2>2. ASSUME b + 1 <= a PROVE FALSE
    <3>1. (b + 1) * w <= a * w /\ (b + 1) * w = b * w + w
      BY <1>2, <1>4, <2>2, ScaleUp
    <3>2. a * w \in Int
      BY <1>2, <1>4
    <3>3. QED
      BY <1>2, <1>4, <3>1, <3>2
  <2>3. QED
    BY <1>4, <2>1, <2>2
<1>6. QED
  BY <1>4, <1>5

(* The uptime shown is a number.                                           *)
LEMMA UptimeIsNumber ==
    ASSUME NEW total \in Nat, NEW ok \in 0..total
    PROVE  UptimePct(ok, total) \in Int
<1>1. CASE total = 0
  BY <1>1 DEF UptimePct
<1>2. CASE total > 0
  BY <1>2, DivFacts DEF UptimePct
<1>3. QED
  BY <1>1, <1>2

(* A row's samples are stored ones; its numbers are numbers.               *)
LEMMA RowNumbers ==
    ASSUME SamplesInv, NEW q, q.points \in Nat, q.points > 0, NEW row \in HeatRows(q),
           NEW S, S = SamplesOf(q, <<row.check, row.region>>)
    PROVE  /\ IsFiniteSet(Seen(q, S)) /\ Seen(q, S) \subseteq Arrivals
           /\ row = HeatRow(q, row.check, row.region, S)
           /\ Total(Seen(q, S)) \in Nat /\ OkTotal(Seen(q, S)) \in 0..Total(Seen(q, S))
           /\ row.sampleCount = Total(Seen(q, S)) /\ row.sampleCount > 0
           /\ row.uptimePct = UptimePct(OkTotal(Seen(q, S)), Total(Seen(q, S)))
           /\ row.errorRate \in Int /\ row.sampleCount \in Nat
<1> DEFINE p == <<row.check, row.region>>
           X == Seen(q, S)
<1>1. row = RowOf(q, p) /\ row.sampleCount > 0
  BY RowFacts, HeatRowsAre
<1>2. row = HeatRow(q, row.check, row.region, S)
  BY <1>1 DEF RowOf
<1>3. row.sampleCount = Total(X) /\ row.uptimePct = UptimePct(OkTotal(X), Total(X))
  BY <1>2, HeatRowIs
<1>4. X \in SUBSET samples
  BY DEF Seen, InCell, SamplesOf, HeatSamples, Selected
<1>5. row.errorRate = 10000 - row.uptimePct
  <2>1. \A c, region, T : HeatRow(q, c, region, T).errorRate = 10000 - HeatRow(q, c, region, T).uptimePct
    BY DEF HeatRow
  <2>2. QED
    BY <1>2, <2>1
<1> HIDE DEF X
<1>6. IsFiniteSet(X) /\ X \subseteq Arrivals
  BY <1>4, FS_Subset DEF SamplesInv
<1>7. Total(X) \in Nat /\ OkTotal(X) \in 0..Total(X)
  BY <1>6, SampleTotals
<1>8. row.uptimePct \in Int
  <2>1. UptimePct(OkTotal(X), Total(X)) \in Int
    BY <1>7, UptimeIsNumber
  <2>2. QED
    BY <1>3, <2>1
<1>9. row.errorRate \in Int /\ row.sampleCount \in Nat
  BY <1>3, <1>5, <1>7, <1>8
<1>10. QED
  BY <1>1, <1>2, <1>3, <1>6, <1>7, <1>9 DEF X

(* A row below 99% was down in one of its buckets: were each of them good  *)
(* for 99%, the row would be.                                              *)
LEMMA LowWasDown ==
    ASSUME SamplesInv, now \in Nat, NEW q, q.points \in Nat, q.points > 0,
           BucketMinutes(q) \in Nat, BucketMinutes(q) > 0,
           NEW row \in HeatRows(q), row.uptimePct < 9900
    PROVE  \E i \in 1..q.points : row.statuses[i] = "down"
<1> DEFINE S == SamplesOf(q, <<row.check, row.region>>)
           X == Seen(q, S)
           K == 1..q.points
           ok == [s \in X |-> s.ok]
           total == [s \in X |-> s.total]
           m == [s \in X |-> CHOOSE i \in K : s \in InCell(q, S, i)]
           Cell(i) == InCell(q, S, i)
<1>1. /\ IsFiniteSet(X) /\ X \subseteq Arrivals
      /\ row = HeatRow(q, row.check, row.region, S)
      /\ Total(X) \in Nat /\ OkTotal(X) \in 0..Total(X)
      /\ row.sampleCount = Total(X) /\ row.sampleCount > 0
      /\ row.uptimePct = UptimePct(OkTotal(X), Total(X))
  <2>1. S = SamplesOf(q, <<row.check, row.region>>)
    OBVIOUS
  <2> HIDE DEF S
  <2>2. QED
    BY <2>1, RowNumbers
<1>2. \A i \in K : row.statuses[i] = HealthState(Cell(i)) /\ Cell(i) \in SUBSET X
  <2>1. \A i \in K : row.statuses[i] = HealthState(Cell(i))
    <3> HIDE DEF S, Cell, X
    <3>1. QED
      BY <1>1, HeatRowIs DEF Cell
  <2>2. \A i \in K : Cell(i) \in SUBSET X
    BY DEF Seen
  <2>3. QED
    BY <2>1, <2>2
<1>3. \A s \in X : m[s] \in K /\ s \in Cell(m[s])
  BY DEF Seen
<1>4. ASSUME NEW i \in K PROVE \A s \in X : s \in Cell(i) <=> m[s] = i
  <2>1. ASSUME NEW s \in X, s \in Cell(i) PROVE m[s] = i
    <3> HIDE DEF m
    <3>1. m[s] \in K /\ s \in Cell(m[s])
      BY <1>3
    <3>2. HeatBuckets(q)[m[s]] = HeatBuckets(q)[i]
      BY <2>1, <3>1 DEF InCell
    <3>3. QED
      BY <3>1, <3>2, CellsApart
  <2>2. \A s \in X : m[s] = i => s \in Cell(i)
    BY <1>3
  <2>3. QED
    BY <2>1, <2>2
<1>5. \A s \in X : /\ s.ok \in Nat /\ s.total \in Nat /\ ok[s] = s.ok /\ total[s] = s.total
                   /\ ok[s] \in Nat /\ total[s] \in Nat
  <2>1. ASSUME NEW s \in X PROVE s.ok \in Nat /\ s.total \in Nat /\ ok[s] = s.ok /\ total[s] = s.total
    BY <1>1, MetricsAssumption
  <2> HIDE DEF ok, total, X
  <2>2. QED
    BY <2>1
<1> HIDE DEF ok, total, m, Cell, X
<1>6. ASSUME NEW T \in SUBSET X
      PROVE  /\ OkTotal(T) = SumOf(ok, T) /\ Total(T) = SumOf(total, T)
             /\ SumOf(ok, T) \in Nat /\ SumOf(total, T) \in Nat
  <2>1. IsFiniteSet(T)
    BY <1>1, FS_Subset
  <2>2. /\ \A s \in T : s.ok \in Nat /\ ok[s] = s.ok
        /\ \A s \in T : s.total \in Nat /\ total[s] = s.total
        /\ (\A s \in T : ok[s] \in Nat) /\ \A s \in T : total[s] \in Nat
    BY <1>5
  <2>3. OkTotal(T) = SumOf(ok, T) /\ Total(T) = SumOf(total, T)
    BY <2>1, <2>2, OkTotalIsSum, TotalIsSum
  <2>4. SumOf(ok, T) \in Nat /\ SumOf(total, T) \in Nat
    <3>1. (\A s \in X : ok[s] \in Nat) /\ \A s \in X : total[s] \in Nat
      BY <1>5
    <3>2. SumOf(ok, T) \in Nat
      BY <1>1, <3>1, SumTypes
    <3>3. SumOf(total, T) \in Nat
      BY <1>1, <3>1, SumTypes
    <3>4. QED
      BY <3>2, <3>3
  <2>5. QED
    BY <2>3, <2>4
<1>7. ~(990 * SumOf(total, X) <= 1000 * SumOf(ok, X))
  <2> DEFINE good == OkTotal(X)
             all == Total(X)
             u == UptimePct(good, all)
  <2>1. all \in Nat /\ good \in 0..all /\ all > 0 /\ u < 9900
    BY <1>1
  <2>2. good = SumOf(ok, X) /\ all = SumOf(total, X)
    BY <1>6
  <2> HIDE DEF good, all
  <2>3. u \in 0..10000 /\ 20000 * good < 2 * (u * all) + all
    BY <2>1, UptimeFacts
  <2> HIDE DEF u
  <2>4. u * all <= 9899 * all
    BY <2>1, <2>3, ScaleUp
  <2>5. u * all \in Int
    BY <2>1, <2>3
  <2> DEFINE y == u * all
  <2> HIDE DEF y
  <2>6. y \in Int /\ y <= 9899 * all /\ 20000 * good < 2 * y + all
    BY <2>3, <2>4, <2>5 DEF y
  <2>8. ~(990 * all <= 1000 * good)
    BY <2>1, <2>6
  <2>7. QED
    BY <2>2, <2>8
<1>8. \E i \in K : ~(990 * SumOf(total, Cell(i)) <= 1000 * SumOf(ok, Cell(i)))
  <2> SUFFICES ASSUME \A i \in K : 990 * SumOf(total, Cell(i)) <= 1000 * SumOf(ok, Cell(i))
               PROVE  FALSE
    OBVIOUS
  <2> DEFINE c == [i \in K |-> Cell(i)]
  <2>1. IsFiniteSet(K)
    <3>1. PICK n \in Nat : n = q.points
      OBVIOUS
    <3>2. IsFiniteSet(1..n)
      BY FS_Interval
    <3>3. QED
      BY <3>1, <3>2
  <2>2. /\ \A i \in K : c[i] \in SUBSET X
        /\ \A i \in K : \A s \in X : s \in c[i] <=> m[s] = i
        /\ \A i \in K : 990 * SumOf(total, c[i]) <= 1000 * SumOf(ok, c[i])
    BY <1>2, <1>4
  <2> HIDE DEF K, c
  <2>3. /\ \A s \in X : ok[s] \in Nat
        /\ \A s \in X : total[s] \in Nat
        /\ \A s \in X : m[s] \in K
    BY <1>3, <1>5
  <2>4. PICK a \in Nat, b \in Nat : a = 1000 /\ b = 990
    OBVIOUS
  <2>5. \A i \in K : b * SumOf(total, c[i]) <= a * SumOf(ok, c[i])
    BY <2>2, <2>4
  <2>6. b * SumOf(total, X) <= a * SumOf(ok, X)
    BY <1>1, <2>1, <2>2, <2>3, <2>5, PartsAndWhole
  <2>7. QED
    BY <1>7, <2>4, <2>6
<1>9. PICK i \in K : ~(990 * SumOf(total, Cell(i)) <= 1000 * SumOf(ok, Cell(i)))
  BY <1>8
<1>10. HealthState(Cell(i)) = "down"
  <2> DEFINE T == Cell(i)
             good == OkTotal(T)
             all == Total(T)
  <2>1. T \in SUBSET X
    BY <1>2
  <2>2. good \in Nat /\ all \in Nat /\ ~(990 * all <= 1000 * good)
    BY <1>6, <1>9, <2>1
  <2>3. all > 0 /\ good * 1000 < 990 * all
    <3> HIDE DEF good, all
    <3>1. QED
      BY <2>2
  <2>4. QED
    BY <2>2, <2>3 DEF HealthState
<1>11. QED
  BY <1>2, <1>9, <1>10

----------------------------------------------------------------------------
(* The table of the dashboard.                                             *)

(* What is asked for the dashboard's filters is within the bounds too.     *)
LEMMA RequestBounds ==
    ASSUME NEW f \in Filters, NEW q, q = Request(f)
    PROVE  /\ q.points \in Nat /\ q.points > 0
           /\ BucketMinutes(q) \in Nat /\ BucketMinutes(q) > 0
<1> DEFINE r == [range |-> IF f.range = "custom" THEN "24h" ELSE f.range, region |-> f.region,
                 group |-> f.group, env |-> f.env, points |-> columnCountForRange[f.range]]
<1>1. r.points \in Int \union {Null} /\ q = Parse(r)
  <2>1. f.range \in {"1h", "24h", "7d", "30d", "custom"}
    BY FiltersAssumption
  <2>2. columnCountForRange[f.range] \in Int
    BY <2>1 DEF columnCountForRange
  <2>3. QED
    BY <2>2 DEF Request
<1> HIDE DEF r
<1>2. QED
  BY <1>1, ParseFacts

(* The noise of the service covers that of the browser.                    *)
LEMMA NotNoise ==
    ASSUME NEW s \in Arrivals, Shown(s.check)
    PROVE  ~IsNoiseCheckName(s.check.words)
BY ChecksAssumption DEF Shown, IsNoiseCheckName

(* The browser draws every row the service answers.                        *)
LEMMA RowDrawn ==
    ASSUME SamplesInv, \A s \in Arrivals : VendorIsPlain(s.check),
           NEW f \in Filters, f.group \in vendors \union {"all"}, NEW q, q = Request(f),
           NEW row \in HeatRows(q)
    PROVE  Drawn(f, InferServiceGroup(row.check.words, {}), row)
<1>1. q.points \in Nat /\ q.points > 0
  BY RequestBounds
<1>2. q.region = f.region /\ q.group = f.group
  BY RequestFacts
<1>3. <<row.check, row.region>> \in Pairs(q) /\ row.sampleCount > 0
  BY <1>1, RowFacts, HeatRowsAre
<1>4. PICK s \in HeatSamples(q) : <<row.check, row.region>> = PairOf(s)
  BY <1>3 DEF Pairs
<1>5. /\ row.check = s.check /\ row.region = s.region /\ s \in Arrivals
      /\ Shown(s.check) /\ ServiceGroupSql(s.check, f.group) /\ f.region \in {"all", row.region}
  BY <1>2, <1>4 DEF PairOf, HeatSamples, Selected, InScope, SamplesInv
<1>6. f.group \in {"all", InferServiceGroup(row.check.words, {})}
  <2>1. CASE f.group = "all"
    BY <2>1
  <2>2. CASE f.group \in vendors
    BY <1>5, <2>2, VendorsAgree DEF IsOfOneVendor
  <2>3. QED
    BY <2>1, <2>2
<1>7. ~IsNoiseCheckName(row.check.words)
  BY <1>5, NotNoise
<1>8. QED
  BY <1>3, <1>5, <1>6, <1>7 DEF Drawn

(* It draws no silent row.                                                 *)
LEMMA SilentNotDrawn ==
    ASSUME NEW f, NEW n \in DOMAIN SilentRows(f)
    PROVE  ~Drawn(f, SilentRows(f)[n].group, SilentRows(f)[n].row)
<1> DEFINE X == {SilentRow(f, c, region) : c \in Range(liveChecks), region \in Range(known)}
           RegionsOf(c) == IF c.regions = <<>> THEN known ELSE c.regions
           RowsOf(c) == [k \in DOMAIN RegionsOf(c) |-> SilentRow(f, c, RegionsOf(c)[k])]
           ss == [m \in DOMAIN liveChecks |-> RowsOf(liveChecks[m])]
<1>1. ss \in Seq(Seq(X))
  <2>1. ASSUME NEW c \in Range(liveChecks) PROVE RowsOf(c) \in Seq(X)
    <3>1. RegionsOf(c) \in Seq(Range(known))
      <4>1. c.regions \in Seq(Range(known))
        BY ChecksAssumption
      <4>2. known \in Seq(Range(known))
        BY DEF known, Range
      <4>3. QED
        BY <4>1, <4>2
    <3> HIDE DEF RegionsOf
    <3>2. \A k \in DOMAIN RegionsOf(c) : SilentRow(f, c, RegionsOf(c)[k]) \in X
      BY <3>1
    <3> HIDE DEF X
    <3>3. QED
      BY <3>1, <3>2
  <2>2. liveChecks \in Seq(Range(liveChecks))
    BY ChecksAssumption
  <2>3. \A m \in DOMAIN liveChecks : RowsOf(liveChecks[m]) \in Seq(X)
    BY <2>1, <2>2
  <2> HIDE DEF RowsOf, X
  <2>4. QED
    BY <2>2, <2>3
<1>2. SilentRows(f) = FlattenSeq(ss)
  BY DEF SilentRows
<1> HIDE DEF X, ss
<1>3. SilentRows(f) \in Seq(X)
  BY <1>1, <1>2, Flattened
<1>4. SilentRows(f)[n] \in X
  BY <1>3
<1>5. PICK c, region : SilentRows(f)[n] = SilentRow(f, c, region)
  BY <1>4 DEF X
<1> DEFINE r == SilentRow(f, c, region)
<1>6. ~(r.row.sampleCount > 0) /\ \A state \in Range(r.row.statuses) : state = "no-data"
  <2> DEFINE silent == [k \in 1..columnCountForRange[f.range] |-> "no-data"]
  <2>1. r.row.sampleCount = 0
    BY DEF SilentRow
  <2>2. r.row.statuses = silent
    BY DEF SilentRow
  <2>3. \A state \in Range(silent) : state = "no-data"
    BY DEF Range
  <2> HIDE DEF r, silent
  <2>4. QED
    BY <2>1, <2>2, <2>3
<1> HIDE DEF r
<1>7. ~Drawn(f, r.group, r.row)
  BY <1>6 DEF Drawn
<1>8. QED
  BY <1>5, <1>7 DEF r

(* The places of rows that are drawn, and which comes before which.        *)
Places3(f, rows) == {n \in DOMAIN rows : Drawn(f, rows[n].group, rows[n].row)}
Firsts(f, rows) ==
    {p \in Places3(f, rows) \X Places3(f, rows) : DrawnFirst(rows, p[1], p[2])}

(* The table is what is drawn, sorted.                                     *)
LEMMA FilteredIs ==
    ASSUME NEW f, NEW rows, NEW order, order = Sorted(Places3(f, rows), Firsts(f, rows))
    PROVE  FilteredRows(f, rows) = [n \in DOMAIN order |-> rows[order[n]].row]
BY DEF FilteredRows, Places3, Firsts

(* Where nothing is drawn, the table is empty.                             *)
LEMMA NothingDrawn ==
    ASSUME NEW f, NEW rows, \A n \in DOMAIN rows : ~Drawn(f, rows[n].group, rows[n].row)
    PROVE  DOMAIN FilteredRows(f, rows) = {} /\ Len(FilteredRows(f, rows)) = 0
<1> DEFINE S == Places3(f, rows)
           before == Firsts(f, rows)
           order == Sorted(S, before)
           table == FilteredRows(f, rows)
<1>1. S = {}
  BY DEF Places3
<1>2. IsFiniteSet(S) /\ Orders(before, S) /\ Cardinality(S) = 0
  BY <1>1, FS_EmptySet DEF Orders
<1> HIDE DEF S, before
<1>3. order \in [1..0 -> S]
  <2>1. order = Sorted(S, before)
    OBVIOUS
  <2> HIDE DEF order
  <2>2. QED
    BY <1>2, <2>1, SortedIs
<1>4. table = [n \in DOMAIN order |-> rows[order[n]].row]
  BY FilteredIs DEF S, before
<1> HIDE DEF order, table
<1>5. table \in [1..0 -> {}]
  BY <1>3, <1>4
<1>6. table \in Seq({}) /\ Len(table) = 0
  BY <1>5, AsSequence
<1>7. DOMAIN table = {}
  BY <1>5
<1>8. QED
  BY <1>6, <1>7 DEF table

(* The order by four keys: three falling, and the place.                   *)
ByPlace(before, S, w, e, c) ==
    /\ \A x \in S : x \in Int /\ w[x] \in Int /\ e[x] \in Int /\ c[x] \in Int
    /\ \A x, y \in S : <<x, y>> \in before <=>
            \/ w[x] > w[y]
            \/ w[x] = w[y] /\ (e[x] > e[y] \/ (e[x] = e[y] /\
                                   (c[x] > c[y] \/ (c[x] = c[y] /\ x < y))))

(* Such an order is total.                                                 *)
LEMMA LexicalPlaces ==
    ASSUME NEW S, NEW w, NEW e, NEW c, NEW before, ByPlace(before, S, w, e, c)
    PROVE  Orders(before, S)
<1>1. ASSUME NEW x \in S, NEW y \in S, x # y PROVE <<x, y>> \in before \/ <<y, x>> \in before
  BY <1>1 DEF ByPlace
<1>2. ASSUME NEW x \in S, NEW y \in S, <<x, y>> \in before PROVE <<y, x>> \notin before
  BY <1>2 DEF ByPlace
<1>3. ASSUME NEW x \in S, NEW y \in S, NEW z \in S, <<x, y>> \in before, <<y, z>> \in before
      PROVE  <<x, z>> \in before
  BY <1>3 DEF ByPlace
<1>4. QED
  BY <1>1, <1>2, <1>3 DEF Orders

(* When a row of the table comes before another.                           *)
LEMMA DrawnFirstIs ==
    ASSUME NEW rows, NEW m, NEW n, NEW a, a = rows[m].row, NEW b, b = rows[n].row
    PROVE  DrawnFirst(rows, m, n) <=>
            \/ WorstWeight(a) > WorstWeight(b)
            \/ /\ WorstWeight(a) = WorstWeight(b)
               /\ \/ a.errorRate > b.errorRate
                  \/ /\ a.errorRate = b.errorRate
                     /\ \/ a.sampleCount > b.sampleCount
                        \/ a.sampleCount = b.sampleCount /\ m < n
BY DEF DrawnFirst

(* What a row is sorted by is a number.                                    *)
LEMMA RowKeys ==
    ASSUME SamplesInv, NEW q, q.points \in Nat, q.points > 0, NEW row \in HeatRows(q)
    PROVE  row.errorRate \in Int /\ row.sampleCount \in Int /\ WorstWeight(row) \in Int
<1> DEFINE S == SamplesOf(q, <<row.check, row.region>>)
<1>1. S = SamplesOf(q, <<row.check, row.region>>)
  OBVIOUS
<1> HIDE DEF S
<1>2. row.errorRate \in Int /\ row.sampleCount \in Nat
  BY <1>1, RowNumbers
<1>3. WorstWeight(row) \in Int
  BY RowFacts
<1>4. QED
  BY <1>2, <1>3

(* A row has a state for each bucket.                                      *)
LEMMA RowStates ==
    ASSUME SamplesInv, NEW q, q.points \in Nat, q.points > 0, NEW row \in HeatRows(q)
    PROVE  DOMAIN row.statuses = 1..q.points
<1>1. row = RowOf(q, <<row.check, row.region>>)
  BY RowFacts
<1>2. QED
  BY <1>1, HeatRowIs DEF RowOf

(* Where the service answers rows, the table has each of them, the worst   *)
(* state first.                                                            *)
LEMMA AllDrawn ==
    ASSUME SamplesInv, \A s \in Arrivals : VendorIsPlain(s.check),
           NEW f \in Filters, f.group \in vendors \union {"all"}, NEW q, q = Request(f),
           NEW n \in Nat, n > 0, NEW H, H \in [1..n -> HeatRows(q)],
           NEW table, table = FilteredRows(f, CheckRows(f, H))
    PROVE  /\ table \in [1..n -> HeatRows(q)]
           /\ \A i \in 1..n : \E j \in 1..n : table[j] = H[i]
           /\ Ordered(table, n)
<1> DEFINE S == 1..n
           rows == CheckRows(f, H)
           before == Firsts(f, rows)
           order == Sorted(S, before)
           w == [i \in S |-> WorstWeight(H[i])]
           e == [i \in S |-> H[i].errorRate]
           c == [i \in S |-> H[i].sampleCount]
<1>1. q.points \in Nat /\ q.points > 0
  BY RequestBounds
<1>2. H # <<>>
  BY AsSequence
<1>3. /\ DOMAIN rows = S
      /\ \A i \in S : rows[i].row = H[i] /\ rows[i].group = InferServiceGroup(H[i].check.words, {})
  BY <1>2 DEF CheckRows
<1>4. \A i \in S : H[i] \in HeatRows(q)
  OBVIOUS
<1> HIDE DEF rows
<1>5. Places3(f, rows) = S
  <2>1. \A i \in S : Drawn(f, InferServiceGroup(H[i].check.words, {}), H[i])
    BY <1>4, RowDrawn
  <2>2. \A i \in S : Drawn(f, rows[i].group, rows[i].row)
    BY <1>3, <2>1
  <2> HIDE DEF S
  <2>3. QED
    BY <1>3, <2>2 DEF Places3
<1>6. ASSUME NEW i \in S PROVE i \in Int /\ w[i] \in Int /\ e[i] \in Int /\ c[i] \in Int
  <2> DEFINE row == H[i]
  <2>1. row \in HeatRows(q)
    BY <1>4
  <2> HIDE DEF row
  <2>2. row.errorRate \in Int /\ row.sampleCount \in Int /\ WorstWeight(row) \in Int
    BY <1>1, <2>1, RowKeys
  <2>3. QED
    BY <2>2 DEF row
<1>7. ASSUME NEW i \in S, NEW j \in S
      PROVE  <<i, j>> \in before <=>
                \/ w[i] > w[j]
                \/ w[i] = w[j] /\ (e[i] > e[j] \/ (e[i] = e[j] /\
                                       (c[i] > c[j] \/ (c[i] = c[j] /\ i < j))))
  <2>1. <<i, j>> \in before <=> DrawnFirst(rows, i, j)
    BY <1>5 DEF Firsts
  <2>2. rows[i].row = H[i] /\ rows[j].row = H[j]
    BY <1>3
  <2> HIDE DEF before
  <2>3. QED
    BY <2>1, <2>2, DrawnFirstIs
<1> HIDE DEF w, e, c, before
<1>8. Orders(before, S)
  <2>1. ByPlace(before, S, w, e, c)
    BY <1>6, <1>7 DEF ByPlace
  <2> HIDE DEF S
  <2>2. QED
    BY <2>1, LexicalPlaces
<1>9. IsFiniteSet(S) /\ Cardinality(S) = n
  <2>1. n \in Int /\ 1 \in Int /\ n - 1 + 1 = n
    OBVIOUS
  <2>2. QED
    BY <2>1, FS_Interval
<1>10. /\ order \in [1..n -> S]
       /\ \A i, j \in 1..n : i < j => <<order[i], order[j]>> \in before
       /\ \A x \in S : \E i \in 1..n : order[i] = x
  <2>1. order = Sorted(S, before)
    OBVIOUS
  <2> HIDE DEF S, order
  <2>2. n = Cardinality(S)
    BY <1>9
  <2>3. order \in [1..n -> S]
    BY <1>8, <1>9, <2>1, <2>2, SortedIs, SMTT(30)
  <2>4. \A i, j \in 1..n : i < j => <<order[i], order[j]>> \in before
    BY <1>8, <1>9, <2>1, <2>2, SortedIs, SMTT(30)
  <2>5. \A x \in S : \E i \in 1..n : order[i] = x
    BY <1>8, <1>9, <2>1, <2>2, SortedIs, SMTT(30)
  <2>6. QED
    BY <2>3, <2>4, <2>5
<1>11. table = [i \in 1..n |-> H[order[i]]]
  <2>1. order = Sorted(Places3(f, rows), Firsts(f, rows))
    BY <1>5 DEF before
  <2> HIDE DEF order
  <2>2. FilteredRows(f, rows) = [i \in DOMAIN order |-> rows[order[i]].row]
    BY <2>1, FilteredIs
  <2>3. \A i \in 1..n : rows[order[i]].row = H[order[i]]
    BY <1>3, <1>10
  <2>4. QED
    BY <1>10, <2>2, <2>3 DEF rows
<1> HIDE DEF order
<1>12. table \in [1..n -> HeatRows(q)]
  BY <1>10, <1>11
<1>13. ASSUME NEW i \in 1..n PROVE \E j \in 1..n : table[j] = H[i]
  BY <1>10, <1>11
<1>14. Ordered(table, n)
  <2> SUFFICES ASSUME NEW i \in 1..n, NEW j \in 1..n, i < j
               PROVE  WorstWeight(table[i]) >= WorstWeight(table[j])
    BY DEF Ordered
  <2> DEFINE a == order[i]
             b == order[j]
  <2>1. a \in S /\ b \in S /\ <<a, b>> \in before /\ table[i] = H[a] /\ table[j] = H[b]
    BY <1>10, <1>11
  <2> HIDE DEF a, b
  <2>2. w[a] \in Int /\ w[b] \in Int /\ w[a] >= w[b]
    BY <1>6, <1>7, <2>1
  <2>3. QED
    BY <2>1, <2>2 DEF w
<1>15. QED
  BY <1>12, <1>13, <1>14

(* A state of a row weighs 4 when it is down, and only then.               *)
LEMMA WorstIsDown ==
    ASSUME NEW row, NEW n \in Nat, n > 0, DOMAIN row.statuses = 1..n
    PROVE  WorstWeight(row) >= 4 <=> \E i \in 1..n : row.statuses[i] = "down"
<1>1. \A state : StateWeight(state) \in Int /\ (StateWeight(state) >= 4 <=> state = "down")
  BY DEF StateWeight
<1>2. /\ WorstWeight(row) \in Int
      /\ \E i \in 1..n : WorstWeight(row) = StateWeight(row.statuses[i])
      /\ \A i \in 1..n : StateWeight(row.statuses[i]) <= WorstWeight(row)
  BY WeightFacts
<1>3. ASSUME WorstWeight(row) >= 4 PROVE \E i \in 1..n : row.statuses[i] = "down"
  BY <1>1, <1>2, <1>3
<1>4. ASSUME NEW i \in 1..n, row.statuses[i] = "down" PROVE WorstWeight(row) >= 4
  <2>1. StateWeight(row.statuses[i]) \in Int /\ StateWeight(row.statuses[i]) >= 4
    BY <1>1, <1>4
  <2>2. QED
    BY <1>2, <2>1
<1>5. QED
  BY <1>3, <1>4

(* A row before one below 99% was down: that one was.                      *)
LEMMA WorstBefore ==
    ASSUME SamplesInv, now \in Nat, NEW f \in Filters, NEW q, q = Request(f),
           NEW n \in Nat, NEW table, table \in [1..n -> HeatRows(q)], Ordered(table, n),
           NEW i \in 1..n, NEW j \in 1..n, i < j, table[j].uptimePct < 9900
    PROVE  "down" \in Range(table[i].statuses)
<1> DEFINE a == table[i]
           b == table[j]
           p == q.points
<1>1. p \in Nat /\ p > 0 /\ BucketMinutes(q) \in Nat /\ BucketMinutes(q) > 0
  BY RequestBounds
<1>2. a \in HeatRows(q) /\ b \in HeatRows(q) /\ WorstWeight(a) >= WorstWeight(b) /\ b.uptimePct < 9900
  BY DEF Ordered
<1> HIDE DEF a, b
<1>3. WorstWeight(a) \in Int /\ WorstWeight(b) \in Int
  <2> HIDE DEF p
  <2>1. q.points \in Nat /\ q.points > 0
    BY <1>1 DEF p
  <2>2. QED
    BY <1>2, <2>1, RowKeys
<1>4. DOMAIN a.statuses = 1..p /\ DOMAIN b.statuses = 1..p
  BY <1>1, <1>2, RowStates
<1>5. \E k \in 1..p : b.statuses[k] = "down"
  BY <1>1, <1>2, LowWasDown
<1> HIDE DEF p
<1>6. WorstWeight(b) >= 4
  BY <1>1, <1>4, <1>5, WorstIsDown
<1>7. WorstWeight(a) >= 4
  BY <1>2, <1>3, <1>6
<1>8. \E k \in 1..p : a.statuses[k] = "down"
  <2>1. WorstWeight(a) >= 4 <=> \E k \in 1..p : a.statuses[k] = "down"
    BY <1>1, <1>4, WorstIsDown
  <2>2. QED
    BY <1>7, <2>1
<1>9. "down" \in Range(a.statuses)
  BY <1>4, <1>8 DEF Range
<1>10. QED
  BY <1>9 DEF a

(* For any samples of plain checks, the table of a vendor or of everything *)
(* draws every row the service answers, the worst state first, and a row   *)
(* below 99% uptime comes only after rows that were down in one of their   *)
(* buckets (operations-dashboard.tsx:705-773, metrics.service.ts:579-599   *)
(* and 423-429).                                                           *)
THEOREM WorstRowsHold ==
    ASSUME \A s \in Arrivals : VendorIsPlain(s.check)
    PROVE  Spec => []WorstRowsFirst
<1>1. ASSUME SamplesInv, ClockInv PROVE WorstRowsFirst
  <2>1. ASSUME NEW f \in Filters, f.group \in vendors \union {"all"}
        PROVE  LET rows == Table(f)
                   answered == Heatmap(Request(f))
               IN  /\ Len(rows) = Len(answered)
                   /\ \A n \in DOMAIN answered : answered[n].totals \in {row.totals : row \in Range(rows)}
                   /\ \A i, j \in DOMAIN rows :
                        i < j /\ rows[j].uptimePct < 9900 => "down" \in Range(rows[i].statuses)
    <3> DEFINE q == Request(f)
               H == Heatmap(q)
               rows == Table(f)
    <3>1. q.points \in Nat /\ q.points > 0
      BY RequestBounds
    <3>2. rows = FilteredRows(f, CheckRows(f, H))
      BY DEF Table
    <3> HIDE DEF H, rows
    <3>3. PICK n \in Nat : H \in [1..n -> HeatRows(q)]
      <4>1. q = q /\ H = Heatmap(q)
        BY DEF H
      <4> HIDE DEF q
      <4>2. QED
        BY <1>1, <3>1, <4>1, HeatmapFacts
    <3>4. Len(H) = n
      BY <3>3, AsSequence
    <3>5. CASE n = 0
      <4>1. H = <<>>
        <5>1. H \in Seq(HeatRows(q))
          BY <3>3, AsSequence
        <5>2. QED
          BY <3>4, <3>5, <5>1
      <4>2. CheckRows(f, H) = SilentRows(f)
        BY <4>1 DEF CheckRows
      <4>3. DOMAIN rows = {} /\ Len(rows) = 0
        BY <3>2, <4>2, SilentNotDrawn, NothingDrawn
      <4>4. DOMAIN H = {}
        BY <3>3, <3>5
      <4>5. QED
        BY <3>4, <3>5, <4>3, <4>4 DEF H, rows
    <3>6. CASE n # 0
      <4>1. n > 0
        BY <3>6
      <4>2. /\ rows \in [1..n -> HeatRows(q)]
            /\ \A i \in 1..n : \E j \in 1..n : rows[j] = H[i]
            /\ Ordered(rows, n)
        <5>1. q = Request(f) /\ f.group \in vendors \union {"all"}
          BY <2>1
        <5> HIDE DEF q
        <5>2. rows \in [1..n -> HeatRows(q)]
          BY <1>1, <3>2, <3>3, <4>1, <5>1, AllDrawn
        <5>3. \A i \in 1..n : \E j \in 1..n : rows[j] = H[i]
          BY <1>1, <3>2, <3>3, <4>1, <5>1, AllDrawn
        <5>4. Ordered(rows, n)
          BY <1>1, <3>2, <3>3, <4>1, <5>1, AllDrawn
        <5>5. QED
          BY <5>2, <5>3, <5>4
      <4>3. Len(rows) = n /\ DOMAIN rows = 1..n /\ DOMAIN H = 1..n
        BY <3>3, <4>2, AsSequence
      <4>4. ASSUME NEW i \in 1..n PROVE H[i].totals \in {row.totals : row \in Range(rows)}
        BY <4>2, <4>3 DEF Range
      <4>5. ASSUME NEW i \in 1..n, NEW j \in 1..n, i < j, rows[j].uptimePct < 9900
            PROVE  "down" \in Range(rows[i].statuses)
        <5>1. q = Request(f) /\ now \in Nat
          BY <1>1 DEF ClockInv
        <5> HIDE DEF q
        <5>2. rows \in [1..n -> HeatRows(q)] /\ Ordered(rows, n)
          BY <4>2
        <5>3. i < j /\ rows[j].uptimePct < 9900
          BY <4>5
        <5>4. QED
          BY <1>1, <5>1, <5>2, <5>3, WorstBefore
      <4>6. QED
        BY <3>4, <4>3, <4>4, <4>5 DEF H, rows
    <3>7. QED
      BY <3>5, <3>6
  <2>2. QED
    BY <2>1 DEF WorstRowsFirst
<1>2. QED
  BY <1>1, SamplesInvariant, ClockInvariant, PTL
=============================================================================
