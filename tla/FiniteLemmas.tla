----------------------------- MODULE FiniteLemmas ----------------------------
(***************************************************************************)
(* Facts about finite sets and sequences: sums, for the bounds on memory   *)
(* and on bytes in flight, greatest values, and the elements of sequences. *)
(* MapThenSumSet is a recursive function over subsets; that the recursion  *)
(* has a solution, that it has one only, and that the order in which       *)
(* elements are taken does not matter, follow here from the                *)
(* well-foundedness of inclusion among finite sets.                        *)
(***************************************************************************)
EXTENDS SequencesExt, FiniteSetsExt, FiniteSetTheorems, TLAPS

(* The sum of f over S. *)
SumOver(f, S) == MapThenSumSet(LAMBDA x : f[x], S)

(* The element MapThenSumSet takes first, and the function it computes. *)
Pick(s) == CHOOSE x \in s : TRUE

IsSum(f, D, h) ==
    h = [s \in SUBSET D |->
           IF s = {} THEN 0 ELSE f[Pick(s)] + h[s \ {Pick(s)}]]

(* A non-empty collection of subsets of a finite set has a minimal one. *)
LEMMA MinimalSubset ==
    ASSUME NEW D, IsFiniteSet(D), NEW B \in SUBSET (SUBSET D), B # {}
    PROVE  \E m \in B : \A s \in B : s \subseteq m => s = m
<1>1. IsWellFoundedOn(StrictSubsetOrdering(D), SUBSET D)
  BY FS_StrictSubsetOrderingWellFounded, FS_FiniteSubsetsOfFinite
<1>2. PICK m \in B : \A s \in B : ~ (<<s, m>> \in StrictSubsetOrdering(D))
  BY <1>1, WFMin
<1>3. \A s \in B : s \subseteq m => s = m
  BY <1>2 DEF StrictSubsetOrdering
<1> QED BY <1>3

(* What is picked from a set is of the set. *)
LEMMA PickIn ==
    ASSUME NEW s, s # {}
    PROVE  Pick(s) \in s
BY DEF Pick

(* Two solutions of the recursion agree where both are defined. *)
LEMMA SumAgree ==
    ASSUME NEW D, IsFiniteSet(D), NEW E \in SUBSET D, NEW f, NEW g, NEW h,
           IsSum(f, E, g), IsSum(f, D, h)
    PROVE  \A s \in SUBSET E : g[s] = h[s]
<1> DEFINE B == {s \in SUBSET E : g[s] # h[s]}
<1>1. SUFFICES ASSUME B # {} PROVE FALSE
  OBVIOUS
<1>2. B \in SUBSET (SUBSET E) /\ IsFiniteSet(E)
  BY FS_Subset
<1>3. PICK m \in B : \A s \in B : s \subseteq m => s = m
  <2> HIDE DEF B
  <2> QED BY <1>1, <1>2, MinimalSubset
<1>4. CASE m = {}
  <2>1. {} \in SUBSET E /\ {} \in SUBSET D
    OBVIOUS
  <2>2. g[{}] = 0 /\ h[{}] = 0
    BY <2>1 DEF IsSum
  <2> QED BY <1>4, <2>2
<1>5. CASE m # {}
  <2> DEFINE p == Pick(m)
  <2>1. p \in m
    BY <1>5, PickIn
  <2> HIDE DEF p
  <2>2. m \in SUBSET E /\ m \in SUBSET D /\ m \ {p} \in SUBSET E
    OBVIOUS
  <2>3. m \ {p} \notin B
    BY <1>3, <2>1
  <2>4. g[m \ {p}] = h[m \ {p}]
    BY <2>2, <2>3
  <2>5. g[m] = f[p] + g[m \ {p}]
    BY <1>5, <2>2 DEF IsSum, p
  <2>6. h[m] = f[p] + h[m \ {p}]
    BY <1>5, <2>2 DEF IsSum, p
  <2> QED BY <2>4, <2>5, <2>6
<1> QED BY <1>4, <1>5

(* The recursion has a solution. *)
LEMMA SumExists ==
    ASSUME NEW D, IsFiniteSet(D), NEW f \in [D -> Nat]
    PROVE  \E h \in [SUBSET D -> Nat] : IsSum(f, D, h)
<1> DEFINE Good(T) == \E h \in [SUBSET T -> Nat] : IsSum(f, T, h)
           B == {T \in SUBSET D : ~ Good(T)}
<1>1. SUFFICES ASSUME B # {} PROVE FALSE
  <2>1. D \in SUBSET D
    OBVIOUS
  <2> QED BY <2>1
<1>2. PICK T \in B : \A s \in B : s \subseteq T => s = T
  <2>1. B \in SUBSET (SUBSET D)
    OBVIOUS
  <2> HIDE DEF B
  <2> QED BY <1>1, <2>1, MinimalSubset
<1>3. \A s \in SUBSET T : s # T => Good(s)
  BY <1>2
<1> DEFINE H(s) == CHOOSE h \in [SUBSET s -> Nat] : IsSum(f, s, h)
           q(s) == s \ {Pick(s)}
           k == [s \in SUBSET T |->
                   IF s = {} THEN 0 ELSE f[Pick(s)] + H(q(s))[q(s)]]
<1>4. ASSUME NEW s \in SUBSET T, s # T
      PROVE  H(s) \in [SUBSET s -> Nat] /\ IsSum(f, s, H(s))
  BY <1>3, <1>4
<1>5. ASSUME NEW s \in SUBSET T, s # {}
      PROVE  /\ q(s) \in SUBSET T /\ q(s) # T /\ q(s) \in SUBSET s
             /\ Pick(s) \in D
  BY <1>5, PickIn
<1>6. ASSUME NEW s \in SUBSET T, s # {}
      PROVE  k[q(s)] = H(q(s))[q(s)]
  <2> DEFINE u == q(s)
  <2>1. u \in SUBSET T /\ u # T
    BY <1>5, <1>6
  <2> HIDE DEF u
  <2>2. H(u) \in [SUBSET u -> Nat] /\ IsSum(f, u, H(u))
    BY <1>4, <2>1
  <2>3. CASE u = {}
    <3>1. k[u] = 0
      BY <2>1, <2>3
    <3>2. u \in SUBSET u
      OBVIOUS
    <3> HIDE DEF H
    <3>3. H(u)[u] = 0
      BY <2>2, <2>3, <3>2 DEF IsSum
    <3> QED BY <3>1, <3>3 DEF u
  <2>4. CASE u # {}
    <3>1. q(u) \in SUBSET T /\ q(u) # T /\ q(u) \in SUBSET u
      BY <1>5, <2>1, <2>4
    <3>2. IsSum(f, q(u), H(q(u)))
      BY <1>4, <3>1
    <3> HIDE DEF H
    <3>3. IsFiniteSet(u)
      BY <2>1, FS_Subset
    <3>4. H(q(u))[q(u)] = H(u)[q(u)]
      BY <2>2, <3>1, <3>2, <3>3, SumAgree
    <3>5. k[u] = f[Pick(u)] + H(q(u))[q(u)]
      BY <2>1, <2>4
    <3>6. u \in SUBSET u
      OBVIOUS
    <3>7. H(u)[u] = f[Pick(u)] + H(u)[q(u)]
      BY <2>2, <2>4, <3>6 DEF IsSum
    <3> QED BY <3>4, <3>5, <3>7 DEF u
  <2> QED BY <2>3, <2>4
<1>7. IsSum(f, T, k)
  <2> HIDE DEF H
  <2>1. \A s \in SUBSET T :
          k[s] = IF s = {} THEN 0 ELSE f[Pick(s)] + k[s \ {Pick(s)}]
    BY <1>6
  <2>2. k = [s \in SUBSET T |-> k[s]]
    OBVIOUS
  <2> HIDE DEF k
  <2> QED BY <2>1, <2>2 DEF IsSum
<1>8. k \in [SUBSET T -> Nat]
  <2>1. ASSUME NEW s \in SUBSET T PROVE k[s] \in Nat
    <3>1. CASE s = {}
      BY <3>1
    <3>2. CASE s # {}
      <4>1. /\ q(s) \in SUBSET T /\ q(s) # T /\ q(s) \in SUBSET q(s)
            /\ Pick(s) \in D
        BY <1>5, <3>2
      <4>2. H(q(s)) \in [SUBSET q(s) -> Nat]
        BY <1>4, <4>1
      <4> HIDE DEF H
      <4>3. k[s] = f[Pick(s)] + H(q(s))[q(s)]
        BY <3>2
      <4>4. f[Pick(s)] \in Nat
        BY <4>1
      <4>5. H(q(s))[q(s)] \in Nat
        BY <4>1, <4>2
      <4> QED BY <4>3, <4>4, <4>5
    <3> QED BY <3>1, <3>2
  <2> HIDE DEF H
  <2> QED BY <2>1
<1> QED BY <1>2, <1>7, <1>8

(* The sum over any part of D is read off the one solution over D. *)
LEMMA SumIs ==
    ASSUME NEW D, IsFiniteSet(D), NEW f \in [D -> Nat], NEW h,
           IsSum(f, D, h), NEW S \in SUBSET D
    PROVE  SumOver(f, S) = h[S]
<1> DEFINE g == CHOOSE k : k = [s \in SUBSET S |->
                 IF s = {} THEN 0 ELSE f[Pick(s)] + k[s \ {Pick(s)}]]
<1>1. SumOver(f, S) = g[S]
  BY DEF SumOver, MapThenSumSet, MapThenFoldSet, Pick
<1>2. \E k : IsSum(f, S, k)
  <2> DEFINE fS == [x \in S |-> f[x]]
  <2>1. IsFiniteSet(S) /\ fS \in [S -> Nat]
    BY FS_Subset
  <2> HIDE DEF fS
  <2>2. PICK k \in [SUBSET S -> Nat] : IsSum(fS, S, k)
    BY <2>1, SumExists
  <2>3. \A s \in SUBSET S : s # {} => fS[Pick(s)] = f[Pick(s)]
    BY PickIn DEF fS
  <2>4. \A s \in SUBSET S :
          k[s] = IF s = {} THEN 0 ELSE f[Pick(s)] + k[s \ {Pick(s)}]
    BY <2>2, <2>3 DEF IsSum
  <2>5. k = [s \in SUBSET S |-> k[s]]
    BY <2>2
  <2>6. IsSum(f, S, k)
    BY <2>4, <2>5 DEF IsSum
  <2> QED BY <2>6
<1>3. IsSum(f, S, g)
  BY <1>2 DEF IsSum
<1> HIDE DEF g
<1>4. \A s \in SUBSET S : g[s] = h[s]
  BY <1>3, SumAgree
<1>5. S \in SUBSET S
  OBVIOUS
<1> QED BY <1>1, <1>4, <1>5

(* So is any solution over that part alone. *)
LEMMA SumSolved ==
    ASSUME NEW D, IsFiniteSet(D), NEW f \in [D -> Nat], NEW S \in SUBSET D,
           NEW g, IsSum(f, S, g)
    PROVE  g[S] = SumOver(f, S)
<1>1. PICK h : IsSum(f, D, h)
  BY SumExists
<1>2. SumOver(f, S) = h[S]
  BY <1>1, SumIs
<1>3. \A s \in SUBSET S : g[s] = h[s]
  BY <1>1, SumAgree
<1>4. S \in SUBSET S
  OBVIOUS
<1> QED BY <1>2, <1>3, <1>4

(* A sum of naturals is a natural, the empty sum is zero, and any element   *)
(* may be taken out.                                                        *)
LEMMA SumProps ==
    ASSUME NEW D, IsFiniteSet(D), NEW f \in [D -> Nat]
    PROVE  /\ SumOver(f, {}) = 0
           /\ \A S \in SUBSET D : SumOver(f, S) \in Nat
           /\ \A S \in SUBSET D : \A x \in S :
                SumOver(f, S) = f[x] + SumOver(f, S \ {x})
<1>1. PICK h \in [SUBSET D -> Nat] : IsSum(f, D, h)
  BY SumExists
<1>2. \A S \in SUBSET D : SumOver(f, S) = h[S]
  BY <1>1, SumIs
<1>3. {} \in SUBSET D /\ h[{}] = 0
  <2>1. {} \in SUBSET D
    OBVIOUS
  <2> QED BY <1>1, <2>1 DEF IsSum
<1>4. \A S \in SUBSET D : S # {} =>
        Pick(S) \in S /\ h[S] = f[Pick(S)] + h[S \ {Pick(S)}]
  BY <1>1, PickIn DEF IsSum
<1> DEFINE B == {S \in SUBSET D : \E x \in S : h[S] # f[x] + h[S \ {x}]}
<1>5. B = {}
  <2>1. SUFFICES ASSUME B # {} PROVE FALSE
    OBVIOUS
  <2>2. PICK m \in B : \A s \in B : s \subseteq m => s = m
    <3>1. B \in SUBSET (SUBSET D)
      OBVIOUS
    <3> HIDE DEF B
    <3> QED BY <2>1, <3>1, MinimalSubset
  <2>3. PICK x \in m : h[m] # f[x] + h[m \ {x}]
    OBVIOUS
  <2> DEFINE p == Pick(m)
  <2>4. m \in SUBSET D /\ p \in m /\ h[m] = f[p] + h[m \ {p}]
    BY <1>4
  <2> HIDE DEF p
  <2>5. x # p
    BY <2>3, <2>4
  <2>6. m \ {p} \notin B /\ m \ {x} \notin B
    BY <2>2, <2>4
  <2>7. m \ {p} \in SUBSET D /\ m \ {x} \in SUBSET D
    OBVIOUS
  <2>8. h[m \ {p}] = f[x] + h[(m \ {p}) \ {x}]
    BY <2>5, <2>6, <2>7
  <2>9. h[m \ {x}] = f[p] + h[(m \ {x}) \ {p}]
    BY <2>4, <2>5, <2>6, <2>7
  <2>10. (m \ {x}) \ {p} = (m \ {p}) \ {x}
    OBVIOUS
  <2>11. /\ f[x] \in Nat /\ f[p] \in Nat
         /\ h[(m \ {p}) \ {x}] \in Nat
    BY <1>1, <2>4
  <2>12. h[m] = f[p] + (f[x] + h[(m \ {p}) \ {x}])
    BY <2>4, <2>8
  <2>13. h[m] # f[x] + (f[p] + h[(m \ {p}) \ {x}])
    BY <2>3, <2>9, <2>10
  <2> HIDE DEF B
  <2> QED BY <2>11, <2>12, <2>13
<1>6. \A S \in SUBSET D : \A x \in S : h[S] = f[x] + h[S \ {x}]
  BY <1>5
<1> HIDE DEF B
<1>7. \A S \in SUBSET D : \A x \in S : S \ {x} \in SUBSET D
  OBVIOUS
<1>8. \A S \in SUBSET D : h[S] \in Nat
  BY <1>1
<1> QED BY <1>2, <1>3, <1>6, <1>7, <1>8

(* An element may be put in. *)
LEMMA SumInsert ==
    ASSUME NEW D, IsFiniteSet(D), NEW f \in [D -> Nat],
           NEW S \in SUBSET D, NEW x \in D \ S
    PROVE  SumOver(f, S \cup {x}) = f[x] + SumOver(f, S)
<1>1. S \cup {x} \in SUBSET D /\ x \in S \cup {x}
      /\ (S \cup {x}) \ {x} = S
  OBVIOUS
<1>2. SumOver(f, S \cup {x}) = f[x] + SumOver(f, (S \cup {x}) \ {x})
  BY <1>1, SumProps
<1> QED BY <1>1, <1>2

(* Functions that agree on a set, under any larger domain, have one sum. *)
LEMMA SumCong ==
    ASSUME NEW D, IsFiniteSet(D), NEW f \in [D -> Nat],
           NEW E, IsFiniteSet(E), NEW g \in [E -> Nat],
           NEW S \in SUBSET D, S \in SUBSET E, \A x \in S : f[x] = g[x]
    PROVE  SumOver(f, S) = SumOver(g, S)
<1> DEFINE B == {s \in SUBSET S : SumOver(f, s) # SumOver(g, s)}
<1>1. SUFFICES ASSUME B # {} PROVE FALSE
  <2>1. S \in SUBSET S
    OBVIOUS
  <2> QED BY <2>1
<1>2. PICK m \in B : \A s \in B : s \subseteq m => s = m
  <2>1. B \in SUBSET (SUBSET S) /\ IsFiniteSet(S)
    BY FS_Subset
  <2> HIDE DEF B
  <2> QED BY <1>1, <2>1, MinimalSubset
<1>3. m # {}
  BY SumProps
<1>4. PICK x \in m : TRUE
  BY <1>3
<1>5. m \in SUBSET S /\ m \in SUBSET D /\ m \in SUBSET E
  OBVIOUS
<1>6. m \ {x} \notin B /\ m \ {x} \in SUBSET S
  BY <1>2, <1>4
<1>7. SumOver(f, m \ {x}) = SumOver(g, m \ {x})
  BY <1>6
<1>8. SumOver(f, m) = f[x] + SumOver(f, m \ {x})
  BY <1>4, <1>5, SumProps
<1>9. SumOver(g, m) = g[x] + SumOver(g, m \ {x})
  BY <1>4, <1>5, SumProps
<1>10. f[x] = g[x]
  BY <1>4, <1>5
<1> QED BY <1>7, <1>8, <1>9, <1>10

(* A sum is at most the number of its terms times a bound on them. *)
LEMMA SumBound ==
    ASSUME NEW D, IsFiniteSet(D), NEW f \in [D -> Nat], NEW b \in Nat,
           NEW S \in SUBSET D, \A x \in S : f[x] <= b
    PROVE  SumOver(f, S) <= Cardinality(S) * b
<1> DEFINE B == {s \in SUBSET S : ~ (SumOver(f, s) <= Cardinality(s) * b)}
<1>1. SUFFICES ASSUME B # {} PROVE FALSE
  <2>1. S \in SUBSET S
    OBVIOUS
  <2> QED BY <2>1
<1>2. PICK m \in B : \A s \in B : s \subseteq m => s = m
  <2>1. B \in SUBSET (SUBSET S) /\ IsFiniteSet(S)
    BY FS_Subset
  <2> HIDE DEF B
  <2> QED BY <1>1, <2>1, MinimalSubset
<1>3. m # {}
  <2>1. SumOver(f, {}) = 0 /\ Cardinality({}) = 0
    BY SumProps, FS_EmptySet
  <2>2. ~ (SumOver(f, m) <= Cardinality(m) * b)
    OBVIOUS
  <2> HIDE DEF B
  <2>3. ASSUME m = {} PROVE FALSE
    <3>1. Cardinality(m) = 0 /\ SumOver(f, m) = 0
      BY <2>1, <2>3
    <3>2. 0 * b = 0
      OBVIOUS
    <3> QED BY <2>2, <3>1, <3>2
  <2> QED BY <2>3
<1>4. PICK x \in m : TRUE
  BY <1>3
<1>5. m \in SUBSET S /\ m \in SUBSET D /\ m \ {x} \in SUBSET D
  OBVIOUS
<1>6. m \ {x} \notin B /\ m \ {x} \in SUBSET S
  BY <1>2, <1>4
<1>7. SumOver(f, m \ {x}) <= Cardinality(m \ {x}) * b
  BY <1>6
<1>8. SumOver(f, m) = f[x] + SumOver(f, m \ {x})
      /\ SumOver(f, m \ {x}) \in Nat
  BY <1>4, <1>5, SumProps
<1>9. IsFiniteSet(m) /\ Cardinality(m \ {x}) = Cardinality(m) - 1
      /\ Cardinality(m) \in Nat
  BY <1>4, <1>5, FS_Subset, FS_RemoveElement, FS_CardinalityType
<1>10. f[x] \in Nat /\ f[x] <= b
  BY <1>4, <1>5
<1> DEFINE c == Cardinality(m)
<1>11. c \in Nat /\ SumOver(f, m) <= b + (c - 1) * b
  BY <1>7, <1>8, <1>9, <1>10
<1>12. b + (c - 1) * b = c * b
  BY <1>9
<1>13. ~ (SumOver(f, m) <= c * b)
  OBVIOUS
<1> QED BY <1>11, <1>12, <1>13

(* A part sums to no more than the whole. *)
LEMMA SumMonotone ==
    ASSUME NEW D, IsFiniteSet(D), NEW f \in [D -> Nat],
           NEW S \in SUBSET D, NEW T \in SUBSET S
    PROVE  SumOver(f, T) <= SumOver(f, S)
<1> DEFINE B == {s \in SUBSET D : T \subseteq s
                                 /\ ~ (SumOver(f, T) <= SumOver(f, s))}
<1>1. SUFFICES ASSUME B # {} PROVE FALSE
  OBVIOUS
<1>2. PICK m \in B : \A s \in B : s \subseteq m => s = m
  <2>1. B \in SUBSET (SUBSET D)
    OBVIOUS
  <2> HIDE DEF B
  <2> QED BY <1>1, <2>1, MinimalSubset
<1>3. m \in SUBSET D /\ T \in SUBSET D /\ T \subseteq m
  OBVIOUS
<1>4. SumOver(f, T) \in Nat /\ SumOver(f, m) \in Nat
  BY <1>3, SumProps
<1>5. PICK x \in m : x \notin T
  <2>1. m # T
    BY <1>4
  <2> QED BY <1>3, <2>1
<1>6. m \ {x} \notin B /\ m \ {x} \in SUBSET D /\ T \subseteq m \ {x}
  BY <1>2, <1>5
<1>7. SumOver(f, T) <= SumOver(f, m \ {x})
  BY <1>6
<1>8. SumOver(f, m) = f[x] + SumOver(f, m \ {x})
      /\ SumOver(f, m \ {x}) \in Nat /\ f[x] \in Nat
  BY <1>3, <1>5, <1>6, SumProps
<1>9. ~ (SumOver(f, T) <= SumOver(f, m))
  OBVIOUS
<1> QED BY <1>4, <1>7, <1>8, <1>9

Multiple(n, c) == n * c

(* Terms that are all the same can be taken out of a sum at once. *)
LEMMA SumTakeOut ==
    ASSUME NEW D, IsFiniteSet(D), NEW f \in [D -> Nat], NEW c \in Nat,
           NEW S \in SUBSET D, \A x \in S : f[x] = c
    PROVE  SumOver(f, D) = Multiple(Cardinality(S), c) + SumOver(f, D \ S)
<1> DEFINE Good(T) == SumOver(f, D) = Cardinality(T) * c + SumOver(f, D \ T)
           B == {T \in SUBSET S : ~ Good(T)}
<1>1. SUFFICES ASSUME B # {} PROVE FALSE
  <2>1. S \in SUBSET S
    OBVIOUS
  <2> QED BY <2>1 DEF Multiple
<1>2. PICK m \in B : \A s \in B : s \subseteq m => s = m
  <2>1. B \in SUBSET (SUBSET S) /\ IsFiniteSet(S)
    BY FS_Subset
  <2> HIDE DEF B
  <2> QED BY <1>1, <2>1, MinimalSubset
<1>3. m \in SUBSET S /\ m \in SUBSET D /\ IsFiniteSet(m)
  BY FS_Subset
<1>4. m # {}
  <2>1. Cardinality({}) = 0 /\ D \ {} = D /\ SumOver(f, D) \in Nat
    BY FS_EmptySet, SumProps
  <2>2. Good({})
    BY <2>1
  <2> QED BY <2>2
<1>5. PICK x \in m : TRUE
  BY <1>4
<1> DEFINE t == m \ {x}
           n == Cardinality(t)
<1>6. t \notin B /\ t \in SUBSET S
  BY <1>2, <1>5
<1>7. Good(t)
  BY <1>6
<1>8. Cardinality(m) = n + 1 /\ n \in Nat
  <2>1. IsFiniteSet(t) /\ Cardinality(t) = Cardinality(m) - 1
    BY <1>3, <1>5, FS_RemoveElement
  <2>2. Cardinality(t) \in Nat /\ Cardinality(m) \in Nat
    BY <1>3, <2>1, FS_CardinalityType
  <2> QED BY <2>1, <2>2
<1>9. SumOver(f, D \ t) = f[x] + SumOver(f, (D \ t) \ {x})
  <2> DEFINE E == D \ t
  <2>1. E \in SUBSET D /\ x \in E
    BY <1>3, <1>5
  <2> HIDE DEF E
  <2>2. SumOver(f, E) = f[x] + SumOver(f, E \ {x})
    BY <2>1, SumProps
  <2> QED BY <2>2 DEF E
<1>10. (D \ t) \ {x} = D \ m /\ f[x] = c /\ D \ m \in SUBSET D
  BY <1>3, <1>5
<1>11. SumOver(f, D \ m) \in Nat /\ SumOver(f, D) \in Nat
  BY <1>10, SumProps
<1>12. (n + 1) * c = n * c + c /\ n * c \in Nat
  BY <1>8
<1> HIDE DEF n, t
<1>13. SumOver(f, D) = n * c + (c + SumOver(f, D \ m))
  BY <1>7, <1>9, <1>10 DEF n
<1>14. SumOver(f, D) = (n + 1) * c + SumOver(f, D \ m)
  BY <1>11, <1>12, <1>13
<1>15. Good(m)
  BY <1>8, <1>14
<1> QED BY <1>15

-----------------------------------------------------------------------------
(* A function to the naturals has a greatest value on a finite set. *)
LEMMA GreatestValue ==
    ASSUME NEW S, IsFiniteSet(S), S # {}, NEW f \in [S -> Nat]
    PROVE  \E x \in S : \A y \in S : f[y] <= f[x]
<1> DEFINE Has(T) == \E x \in T : \A y \in T : f[y] <= f[x]
           B == {T \in SUBSET S : T # {} /\ ~ Has(T)}
<1>1. SUFFICES ASSUME B # {} PROVE FALSE
  <2>1. S \in SUBSET S
    OBVIOUS
  <2> QED BY <2>1
<1>2. PICK m \in B : \A s \in B : s \subseteq m => s = m
  <2>1. B \in SUBSET (SUBSET S)
    OBVIOUS
  <2> HIDE DEF B
  <2> QED BY <1>1, <2>1, MinimalSubset
<1>3. PICK x \in m : TRUE
  OBVIOUS
<1>4. \A y \in m : f[y] \in Nat
  OBVIOUS
<1>5. CASE m = {x}
  BY <1>4, <1>5
<1>6. CASE m # {x}
  <2>1. m \ {x} \notin B /\ m \ {x} # {}
    BY <1>2, <1>3, <1>6
  <2>2. PICK z \in m \ {x} : \A y \in m \ {x} : f[y] <= f[z]
    BY <2>1
  <2>3. CASE f[z] <= f[x]
    <3>1. \A y \in m : f[y] <= f[x]
      BY <1>3, <1>4, <2>2, <2>3
    <3> QED BY <1>3, <3>1
  <2>4. CASE ~ (f[z] <= f[x])
    <3>1. \A y \in m : f[y] <= f[z]
      BY <1>3, <1>4, <2>2, <2>4
    <3> QED BY <2>2, <3>1
  <2> QED BY <2>3, <2>4
<1> QED BY <1>5, <1>6

-----------------------------------------------------------------------------
(* Sequences and the sets of their elements. *)

(* A sequence is as long as its set of elements is large, when no element   *)
(* repeats, and is never shorter.                                           *)
LEMMA ElementsCount ==
    ASSUME NEW S, NEW s \in Seq(S)
    PROVE  /\ IsFiniteSet(ToSet(s)) /\ Cardinality(ToSet(s)) \in Nat
           /\ Cardinality(ToSet(s)) <= Len(s)
           /\ IsInjective(s) => Cardinality(ToSet(s)) = Len(s)
<1> DEFINE n == Len(s)
<1>1. n \in Nat /\ DOMAIN s = 1 .. n
  OBVIOUS
<1>2. s \in Surjection(1 .. n, ToSet(s))
  BY <1>1 DEF Surjection, ToSet
<1>3. IsFiniteSet(1 .. n) /\ Cardinality(1 .. n) = n
  BY <1>1, FS_Interval
<1>4. /\ IsFiniteSet(ToSet(s))
      /\ Cardinality(ToSet(s)) <= Cardinality(1 .. n)
      /\ Cardinality(ToSet(s)) = Cardinality(1 .. n)
            <=> s \in Injection(1 .. n, ToSet(s))
  BY <1>2, <1>3, FS_Surjection
<1>5. IsInjective(s) => s \in Injection(1 .. n, ToSet(s))
  BY <1>1 DEF Injection, ToSet, IsInjective
<1>6. Cardinality(ToSet(s)) \in Nat
  BY <1>4, FS_CardinalityType
<1> QED BY <1>3, <1>4, <1>5, <1>6

(* A finite set laid out as a sequence: every element, once. *)
LEMMA SetToSeqProps ==
    ASSUME NEW S, IsFiniteSet(S)
    PROVE  /\ SetToSeq(S) \in Seq(S) /\ ToSet(SetToSeq(S)) = S
           /\ IsInjective(SetToSeq(S))
<1> DEFINE n == Cardinality(S)
           f == SetToSeq(S)
<1>1. n \in Nat /\ ExistsBijection(1 .. n, S)
  BY FS_CardinalityType
<1>2. PICK g \in Bijection(1 .. n, S) : TRUE
  BY <1>1 DEF ExistsBijection
<1>3. g \in [1 .. n -> S] /\ IsInjective(g)
  BY <1>2 DEF Bijection, Injection
<1>4. f \in [1 .. n -> S] /\ IsInjective(f)
  <2>1. \E h \in [1 .. n -> S] : IsInjective(h)
    BY <1>3
  <2> HIDE DEF n
  <2> QED BY <2>1 DEF SetToSeq, n
<1> HIDE DEF f
<1>5. f \in Injection(1 .. n, S)
  BY <1>4 DEF Injection
<1>6. IsFiniteSet(1 .. n) /\ Cardinality(1 .. n) = n
  BY <1>1, FS_Interval
<1>7. f \in Surjection(1 .. n, S)
  BY <1>5, <1>6, FS_Injection
<1>8. f \in Seq(S)
  BY <1>1, <1>4
<1>9. ToSet(f) = S
  BY <1>4, <1>7 DEF Surjection, ToSet
<1> QED BY <1>4, <1>8, <1>9 DEF f

(* What Reverse returns. *)
LEMMA ReverseProps ==
    ASSUME NEW S, NEW s \in Seq(S)
    PROVE  /\ Reverse(s) \in Seq(S)
           /\ Len(Reverse(s)) = Len(s)
           /\ \A k \in 1 .. Len(s) : Reverse(s)[k] = s[Len(s) - k + 1]
BY DEF Reverse

(* Reverse keeps the elements, and their being distinct. *)
LEMMA ReverseSet ==
    ASSUME NEW S, NEW s \in Seq(S)
    PROVE  /\ ToSet(Reverse(s)) = ToSet(s)
           /\ IsInjective(s) => IsInjective(Reverse(s))
<1>1. /\ Reverse(s) \in Seq(S) /\ Len(Reverse(s)) = Len(s) /\ Len(s) \in Nat
      /\ \A k \in 1 .. Len(s) : Reverse(s)[k] = s[Len(s) - k + 1]
  BY ReverseProps
<1>2. ASSUME NEW x \in ToSet(s) PROVE x \in ToSet(Reverse(s))
  <2>1. PICK k \in 1 .. Len(s) : s[k] = x
    BY DEF ToSet
  <2>2. Len(s) - k + 1 \in 1 .. Len(s) /\ Reverse(s)[Len(s) - k + 1] = x
    BY <1>1, <2>1
  <2> QED BY <1>1, <2>2 DEF ToSet
<1>3. ASSUME NEW x \in ToSet(Reverse(s)) PROVE x \in ToSet(s)
  <2>1. PICK k \in 1 .. Len(s) : Reverse(s)[k] = x
    BY <1>1 DEF ToSet
  <2>2. Len(s) - k + 1 \in 1 .. Len(s) /\ s[Len(s) - k + 1] = x
    BY <1>1, <2>1
  <2> QED BY <2>2 DEF ToSet
<1>4. ASSUME IsInjective(s), NEW a \in 1 .. Len(s), NEW b \in 1 .. Len(s),
             Reverse(s)[a] = Reverse(s)[b]
      PROVE  a = b
  <2>1. /\ Len(s) - a + 1 \in 1 .. Len(s) /\ Len(s) - b + 1 \in 1 .. Len(s)
        /\ s[Len(s) - a + 1] = s[Len(s) - b + 1]
    BY <1>1, <1>4
  <2>2. Len(s) - a + 1 = Len(s) - b + 1
    BY <1>4, <2>1 DEF IsInjective
  <2> QED BY <1>1, <2>2
<1>5. IsInjective(s) => IsInjective(Reverse(s))
  BY <1>1, <1>4 DEF IsInjective
<1> QED BY <1>2, <1>3, <1>5

(* What concatenation holds. *)
LEMMA ConcatSet ==
    ASSUME NEW S, NEW s \in Seq(S), NEW t \in Seq(S)
    PROVE  /\ ToSet(s \o t) = ToSet(s) \cup ToSet(t)
           /\ IsInjective(s) /\ IsInjective(t) /\ ToSet(s) \cap ToSet(t) = {}
                => IsInjective(s \o t)
<1>1. /\ s \o t \in Seq(S) /\ Len(s \o t) = Len(s) + Len(t)
      /\ \A k \in 1 .. Len(s) : (s \o t)[k] = s[k]
      /\ \A k \in 1 .. Len(t) : (s \o t)[Len(s) + k] = t[k]
      /\ Len(s) \in Nat /\ Len(t) \in Nat
  OBVIOUS
<1>2. \A k \in 1 .. Len(s \o t) :
        k \in 1 .. Len(s) \/ \E j \in 1 .. Len(t) : k = Len(s) + j
  <2> SUFFICES ASSUME NEW k \in 1 .. Len(s \o t), k \notin 1 .. Len(s)
               PROVE  \E j \in 1 .. Len(t) : k = Len(s) + j
    OBVIOUS
  <2>1. k - Len(s) \in 1 .. Len(t) /\ k = Len(s) + (k - Len(s))
    BY <1>1
  <2> QED BY <2>1
<1>3. ToSet(s \o t) = ToSet(s) \cup ToSet(t)
  <2>1. ASSUME NEW x \in ToSet(s \o t) PROVE x \in ToSet(s) \cup ToSet(t)
    BY <1>1, <1>2 DEF ToSet
  <2>2. ASSUME NEW x \in ToSet(s) PROVE x \in ToSet(s \o t)
    BY <1>1 DEF ToSet
  <2>3. ASSUME NEW x \in ToSet(t) PROVE x \in ToSet(s \o t)
    <3>1. PICK k \in 1 .. Len(t) : t[k] = x
      BY DEF ToSet
    <3>2. Len(s) + k \in 1 .. Len(s \o t)
      BY <1>1
    <3> QED BY <1>1, <3>1, <3>2 DEF ToSet
  <2> QED BY <2>1, <2>2, <2>3
<1>4. ASSUME IsInjective(s), IsInjective(t), ToSet(s) \cap ToSet(t) = {},
             NEW a \in 1 .. Len(s \o t), NEW b \in 1 .. Len(s \o t),
             (s \o t)[a] = (s \o t)[b]
      PROVE  a = b
  <2>1. ASSUME NEW j \in 1 .. Len(s), NEW k \in 1 .. Len(t) PROVE s[j] # t[k]
    <3>1. s[j] \in ToSet(s) /\ t[k] \in ToSet(t)
      BY DEF ToSet
    <3> QED BY <1>4, <3>1
  <2>2. CASE a \in 1 .. Len(s) /\ b \in 1 .. Len(s)
    BY <1>1, <1>4, <2>2 DEF IsInjective
  <2>3. CASE a \in 1 .. Len(s) /\ b \notin 1 .. Len(s)
    BY <1>1, <1>2, <1>4, <2>1, <2>3
  <2>4. CASE a \notin 1 .. Len(s) /\ b \in 1 .. Len(s)
    BY <1>1, <1>2, <1>4, <2>1, <2>4
  <2>5. CASE a \notin 1 .. Len(s) /\ b \notin 1 .. Len(s)
    <3>1. PICK j \in 1 .. Len(t) : a = Len(s) + j
      BY <1>2, <2>5
    <3>2. PICK k \in 1 .. Len(t) : b = Len(s) + k
      BY <1>2, <2>5
    <3>3. t[j] = t[k]
      BY <1>1, <1>4, <3>1, <3>2
    <3> QED BY <1>4, <3>1, <3>2, <3>3 DEF IsInjective
  <2> QED BY <2>2, <2>3, <2>4, <2>5
<1>5. IsInjective(s) /\ IsInjective(t) /\ ToSet(s) \cap ToSet(t) = {}
        => IsInjective(s \o t)
  BY <1>1, <1>4 DEF IsInjective
<1> QED BY <1>3, <1>5

(* What Append adds. *)
LEMMA AppendProps ==
    ASSUME NEW S, NEW s \in Seq(S), NEW x \in S
    PROVE  /\ ToSet(Append(s, x)) = ToSet(s) \cup {x}
           /\ Append(s, x) # << >>
           /\ s # << >> => Head(Append(s, x)) = Head(s)
           /\ s = << >> => Head(Append(s, x)) = x
<1>1. Append(s, x) \in Seq(S) /\ Len(Append(s, x)) = Len(s) + 1
  OBVIOUS
<1>2. \A k \in 1 .. Len(s) : Append(s, x)[k] = s[k]
  OBVIOUS
<1>3. Append(s, x)[Len(s) + 1] = x
  OBVIOUS
<1>4. ToSet(Append(s, x)) = ToSet(s) \cup {x}
  BY <1>1, <1>2, <1>3 DEF ToSet
<1> QED BY <1>1, <1>2, <1>3, <1>4

(* What \o returns, position by position. *)
LEMMA ConcatAt ==
    ASSUME NEW S, NEW s \in Seq(S), NEW t \in Seq(S)
    PROVE  /\ Len(s) \in Nat /\ Len(t) \in Nat
           /\ DOMAIN s = 1 .. Len(s)
           /\ DOMAIN (s \o t) = 1 .. Len(s) + Len(t)
           /\ \A k \in 1 .. Len(s) : (s \o t)[k] = s[k]
           /\ \A k \in Len(s) + 1 .. Len(s) + Len(t) : (s \o t)[k] = t[k - Len(s)]
OBVIOUS

LEMMA JoinAt ==
    ASSUME NEW S, NEW s \in Seq(S), NEW t \in Seq(S)
    PROVE  /\ s \o t \in Seq(S) /\ Len(s \o t) = Len(s) + Len(t)
           /\ \A k \in 1 .. Len(s) : (s \o t)[k] = s[k]
           /\ \A k \in 1 .. Len(t) : (s \o t)[Len(s) + k] = t[k]
<1>1. s \o t \in Seq(S) /\ Len(s \o t) = Len(s) + Len(t)
  OBVIOUS
<1>2. ASSUME NEW k \in 1 .. Len(t) PROVE (s \o t)[Len(s) + k] = t[k]
  <2>1. /\ Len(s) + k \in Len(s) + 1 .. Len(s) + Len(t)
        /\ (Len(s) + k) - Len(s) = k
    OBVIOUS
  <2> QED BY <2>1, ConcatAt
<1>3. \A k \in 1 .. Len(s) : (s \o t)[k] = s[k]
  BY ConcatAt
<1> QED BY <1>1, <1>2, <1>3

(* Max of a non-empty set of positive numbers is its largest element. *)
LEMMA MaxProps ==
    ASSUME NEW N \in Nat, NEW S \in SUBSET (1 .. N), S # {}
    PROVE  Max(S) \in S /\ \A y \in S : y <= Max(S)
<1> DEFINE B == {x .. N : x \in S}
<1>1. B \in SUBSET (SUBSET (1 .. N)) /\ B # {}
  <2>1. \A x \in S : x .. N \subseteq 1 .. N
    OBVIOUS
  <2>2. \A s \in B : s \subseteq 1 .. N
    BY <2>1
  <2> QED BY <2>2
<1>2. IsFiniteSet(1 .. N)
  BY FS_Interval
<1>3. PICK m \in B : \A s \in B : s \subseteq m => s = m
  <2> HIDE DEF B
  <2>1. PICK D : D = 1 .. N
    OBVIOUS
  <2>2. IsFiniteSet(D) /\ B \in SUBSET (SUBSET D) /\ B # {}
    BY <1>1, <1>2, <2>1
  <2> QED BY ONLY <2>2, MinimalSubset
<1>4. PICK x \in S : m = x .. N
  OBVIOUS
<1>5. ASSUME NEW y \in S, y > x PROVE FALSE
  <2>1. y .. N \subseteq x .. N /\ x \in x .. N /\ x \notin y .. N
    BY <1>5
  <2> QED BY <1>3, <1>4, <2>1
<1>6. \A y \in S : x >= y
  BY <1>5
<1>7. \E z \in S : \A y \in S : z >= y
  BY <1>6
<1> HIDE DEF B
<1> QED BY <1>7 DEF Max

(* A non-empty set of naturals up to N has a least element. *)
LEMMA LeastOf ==
    ASSUME NEW N \in Nat, NEW K \in SUBSET (0 .. N), K # {}
    PROVE  \E k \in K : \A j \in K : k <= j
<1> DEFINE B == {0 .. x : x \in K}
<1>1. B \in SUBSET (SUBSET (0 .. N)) /\ B # {}
  <2>1. \A x \in K : 0 .. x \subseteq 0 .. N
    OBVIOUS
  <2>2. \A s \in B : s \subseteq 0 .. N
    BY <2>1
  <2> QED BY <2>2
<1>2. PICK m \in B : \A s \in B : s \subseteq m => s = m
  <2> HIDE DEF B
  <2>1. PICK D : D = 0 .. N
    OBVIOUS
  <2>2. IsFiniteSet(D) /\ B \in SUBSET (SUBSET D) /\ B # {}
    BY <1>1, <2>1, FS_Interval
  <2> QED BY ONLY <2>2, MinimalSubset
<1>3. PICK x \in K : m = 0 .. x
  OBVIOUS
<1>4. ASSUME NEW y \in K, y < x PROVE FALSE
  <2>1. 0 .. y \subseteq 0 .. x /\ x \in 0 .. x /\ x \notin 0 .. y
    BY <1>4
  <2> QED BY <1>2, <1>3, <2>1
<1>5. \A y \in K : x <= y
  BY <1>4
<1> QED BY <1>5

(* The function FlattenSeq computes: the first k sequences, one after the other. *)
IsFlat(ss, k, f) ==
    f = [i \in 1 .. k |-> IF i = 1 THEN ss[i] ELSE f[i - 1] \o ss[i]]

LEMMA FlatExists ==
    ASSUME NEW S, NEW ss \in Seq(Seq(S))
    PROVE  \A k \in 0 .. Len(ss) : \E f \in [1 .. k -> Seq(S)] : IsFlat(ss, k, f)
<1> DEFINE K == {k \in 0 .. Len(ss) : ~ \E f \in [1 .. k -> Seq(S)] : IsFlat(ss, k, f)}
<1> SUFFICES ASSUME K # {} PROVE FALSE
  OBVIOUS
<1>1. PICK k \in K : \A j \in K : k <= j
  <2>1. Len(ss) \in Nat /\ K \in SUBSET (0 .. Len(ss))
    OBVIOUS
  <2> HIDE DEF K
  <2> QED BY <2>1, LeastOf
<1>2. k # 0
  <2>1. [i \in 1 .. 0 |-> << >>] \in [1 .. 0 -> Seq(S)]
    OBVIOUS
  <2>2. IsFlat(ss, 0, [i \in 1 .. 0 |-> << >>])
    BY DEF IsFlat
  <2> QED BY <2>1, <2>2
<1>3. PICK f \in [1 .. (k - 1) -> Seq(S)] : IsFlat(ss, k - 1, f)
  <2>1. k - 1 \in 0 .. Len(ss) /\ ~ (k <= k - 1)
    BY <1>2
  <2>2. k - 1 \notin K
    BY <1>1, <2>1
  <2> QED BY <2>1, <2>2
<1> DEFINE g == [i \in 1 .. k |-> IF i < k THEN f[i]
                                  ELSE IF k = 1 THEN ss[1] ELSE f[k - 1] \o ss[k]]
<1>4. k \in 1 .. Len(ss) /\ \A i \in 1 .. k : ss[i] \in Seq(S)
  BY <1>2
<1>5. g \in [1 .. k -> Seq(S)]
  <2>1. k # 1 => f[k - 1] \o ss[k] \in Seq(S)
    BY <1>4
  <2> QED BY <1>4, <2>1
<1>6. ASSUME NEW i \in 1 .. k
      PROVE  g[i] = IF i = 1 THEN ss[i] ELSE g[i - 1] \o ss[i]
  <2>1. CASE i < k
    <3>1. i \in 1 .. (k - 1)
      BY <1>4, <2>1
    <3>2. f[i] = IF i = 1 THEN ss[i] ELSE f[i - 1] \o ss[i]
      BY <1>3, <3>1 DEF IsFlat
    <3> QED BY <1>4, <2>1, <3>2
  <2>2. CASE i = k
    BY <1>4, <2>2
  <2> QED BY <1>4, <2>1, <2>2
<1>7. IsFlat(ss, k, g)
  <2> HIDE DEF g
  <2> QED BY <1>5, <1>6 DEF IsFlat
<1> QED BY <1>1, <1>5, <1>7

Agree(s, t, k) == \A i \in 1 .. k : t[i] = s[i]

(* It is the only one, and does not depend on what follows. *)
LEMMA FlatUnique ==
    ASSUME NEW n \in Nat, NEW k \in 0 .. n, NEW ss, NEW tt, NEW f, NEW g,
           IsFlat(ss, n, f), IsFlat(tt, k, g), Agree(ss, tt, k)
    PROVE  Agree(f, g, k)
<1> DEFINE K == {i \in 0 .. k : i > 0 /\ g[i] # f[i]}
<1>1. K = {}
  <2> SUFFICES ASSUME K # {} PROVE FALSE
    OBVIOUS
  <2>1. PICK i \in K : \A j \in K : i <= j
    <3>1. k \in Nat /\ K \in SUBSET (0 .. k)
      OBVIOUS
    <3> HIDE DEF K
    <3> QED BY <3>1, LeastOf
  <2>2. i \in 1 .. k /\ i \in 1 .. n /\ g[i] # f[i]
    OBVIOUS
  <2>3. ASSUME i # 1 PROVE g[i - 1] = f[i - 1]
    <3>1. i - 1 \in 0 .. k /\ i - 1 > 0 /\ ~ (i <= i - 1)
      BY <2>2, <2>3
    <3>2. i - 1 \notin K
      BY <2>1, <3>1
    <3> QED BY <3>1, <3>2
  <2>4. g[i] = IF i = 1 THEN tt[i] ELSE g[i - 1] \o tt[i]
    BY <2>2 DEF IsFlat
  <2>5. f[i] = IF i = 1 THEN ss[i] ELSE f[i - 1] \o ss[i]
    BY <2>2 DEF IsFlat
  <2>6. tt[i] = ss[i]
    BY <2>2 DEF Agree
  <2> QED BY <2>2, <2>3, <2>4, <2>5, <2>6
<1> QED BY <1>1 DEF Agree

LEMMA FlattenValue ==
    ASSUME NEW S, NEW ss \in Seq(Seq(S)), NEW n, n = Len(ss), n # 0
    PROVE  \E f \in [1 .. n -> Seq(S)] : IsFlat(ss, n, f) /\ FlattenSeq(ss) = f[n]
<1> DEFINE h == CHOOSE f : IsFlat(ss, n, f)
<1>1. n \in Nat /\ n \in 0 .. n /\ n \in 1 .. n
  OBVIOUS
<1>2. PICK f \in [1 .. n -> Seq(S)] : IsFlat(ss, n, f)
  BY <1>1, FlatExists
<1>3. IsFlat(ss, n, h)
  BY <1>2
<1>4. FlattenSeq(ss) = h[n]
  BY DEF FlattenSeq, IsFlat
<1> HIDE DEF h
<1>5. Agree(f, h, n)
  <2>1. Agree(ss, ss, n)
    BY DEF Agree
  <2> QED BY <1>1, <1>2, <1>3, <2>1, FlatUnique
<1> QED BY <1>1, <1>2, <1>4, <1>5 DEF Agree

(* What FlattenSeq returns is a sequence over the same set. *)
LEMMA FlattenType ==
    ASSUME NEW S, NEW ss \in Seq(Seq(S))
    PROVE  FlattenSeq(ss) \in Seq(S)
<1>1. CASE Len(ss) = 0
  BY <1>1 DEF FlattenSeq
<1>2. CASE Len(ss) # 0
  <2>1. PICK n : n = Len(ss)
    OBVIOUS
  <2>2. n \in 1 .. n
    BY <1>2, <2>1
  <2>3. PICK f \in [1 .. n -> Seq(S)] : FlattenSeq(ss) = f[n]
    BY <1>2, <2>1, FlattenValue
  <2>4. f[n] \in Seq(S)
    BY ONLY <2>2, f \in [1 .. n -> Seq(S)]
  <2> QED BY <2>3, <2>4
<1> QED BY <1>1, <1>2

(* The first k of the sequences flatten to a prefix that grows by the next. *)
FrontsOf(ss) ==
    [k \in 0 .. Len(ss) |-> FlattenSeq([j \in 1 .. k |-> ss[j]])]
FrontsJoin(S, h, s, n) ==
    /\ h \in [0 .. n -> Seq(S)] /\ s \in [1 .. n -> Seq(S)]
    /\ \A k \in 1 .. n : h[k] = h[k - 1] \o s[k]

LEMMA FlattenPrefix ==
    ASSUME NEW S, NEW ss \in Seq(Seq(S)), NEW n, n = Len(ss),
           NEW h, h = FrontsOf(ss)
    PROVE  h[0] = << >> /\ h[n] = FlattenSeq(ss) /\ FrontsJoin(S, h, ss, n)
<1> DEFINE First(k) == [j \in 1 .. k |-> ss[j]]
<1>1. n \in Nat /\ n \in 0 .. n /\ 0 \in 0 .. n
  OBVIOUS
<1>2. ASSUME NEW k \in 0 .. n PROVE First(k) \in Seq(Seq(S)) /\ Len(First(k)) = k
  <2>1. k \in Nat /\ \A j \in 1 .. k : ss[j] \in Seq(S)
    OBVIOUS
  <2> QED BY <2>1
<1>3. First(n) = ss
  BY <1>1, <1>2
<1>4. First(0) = << >>
  BY <1>1, <1>2
<1>5. \A k \in 0 .. n : \A j \in 1 .. k : First(k)[j] = ss[j]
  OBVIOUS
<1>6. \A k \in 0 .. n : h[k] = FlattenSeq(First(k))
  BY DEF FrontsOf
<1>7. DOMAIN h = 0 .. n /\ h = [k \in 0 .. n |-> h[k]]
  BY DEF FrontsOf
<1> HIDE DEF First
<1>8. \A k \in 0 .. n : h[k] \in Seq(S)
  BY <1>2, <1>6, FlattenType
<1>9. h[0] = << >>
  <2>1. Len(First(0)) = 0
    BY <1>1, <1>2
  <2>2. FlattenSeq(First(0)) = First(0)
    BY <2>1 DEF FlattenSeq
  <2> QED BY <1>1, <1>4, <1>6, <2>2
<1>10. ASSUME NEW k \in 1 .. n PROVE h[k] = h[k - 1] \o ss[k]
  <2>1. k \in 0 .. n /\ k # 0 /\ k \in 1 .. k /\ k \in Nat
    BY <1>1
  <2>2. PICK s : s = First(k)
    OBVIOUS
  <2>3. s \in Seq(Seq(S)) /\ k = Len(s) /\ \A j \in 1 .. k : s[j] = ss[j]
    BY <1>2, <1>5, <2>1, <2>2
  <2>4. PICK f \in [1 .. k -> Seq(S)] : IsFlat(s, k, f) /\ FlattenSeq(s) = f[k]
    BY <2>1, <2>3, FlattenValue
  <2>5. h[k] = f[k] /\ f[k] = IF k = 1 THEN s[k] ELSE f[k - 1] \o s[k]
    BY <1>6, <2>1, <2>2, <2>4 DEF IsFlat
  <2>6. CASE k = 1
    <3>1. h[k - 1] = << >>
      BY <1>9, <2>6
    <3>2. h[k] = ss[k]
      BY <2>1, <2>3, <2>5, <2>6
    <3>3. ss[k] \in Seq(S)
      OBVIOUS
    <3>4. << >> \o ss[k] = ss[k]
      BY ONLY <3>3
    <3> QED BY <3>1, <3>2, <3>4
  <2>7. CASE k # 1
    <3>1. PICK m : m = k - 1
      OBVIOUS
    <3>2. m \in 0 .. n /\ m # 0 /\ m \in 0 .. k /\ m \in 1 .. m
      BY <1>1, <2>1, <2>7, <3>1
    <3>3. PICK t : t = First(m)
      OBVIOUS
    <3>4. t \in Seq(Seq(S)) /\ m = Len(t) /\ \A j \in 1 .. m : t[j] = ss[j]
      BY <1>2, <1>5, <3>2, <3>3
    <3>5. PICK g \in [1 .. m -> Seq(S)] : IsFlat(t, m, g) /\ FlattenSeq(t) = g[m]
      <4>1. t \in Seq(Seq(S)) /\ m = Len(t) /\ m # 0
        BY <3>2, <3>4
      <4> QED BY ONLY <4>1, FlattenValue
    <3>6. \A j \in 1 .. m : t[j] = s[j]
      BY <2>3, <3>1, <3>2, <3>4
    <3>7. \A j \in 1 .. m : g[j] = f[j]
      <4>1. k \in Nat /\ m \in 0 .. k
        BY <2>1, <3>2
      <4>2. IsFlat(s, k, f) /\ IsFlat(t, m, g)
        BY <2>4, <3>5
      <4>3. Agree(s, t, m)
        BY <3>6 DEF Agree
      <4>4. Agree(f, g, m)
        BY ONLY <4>1, <4>2, <4>3, FlatUnique
      <4> QED BY <4>4 DEF Agree
    <3>8. h[m] = f[m]
      BY <1>6, <3>2, <3>3, <3>5, <3>7
    <3> QED BY <2>1, <2>3, <2>5, <2>7, <3>1, <3>8
  <2> QED BY <2>6, <2>7
<1>11. h \in [0 .. n -> Seq(S)] /\ ss \in [1 .. n -> Seq(S)]
  BY <1>7, <1>8
<1> QED BY <1>1, <1>3, <1>6, <1>9, <1>10, <1>11 DEF FrontsJoin

(* Sequences that grow by concatenation are prefixes of each other. *)
LEMMA PrefixGrows ==
    ASSUME NEW S, NEW n \in Nat, NEW h, NEW s, FrontsJoin(S, h, s, n),
           NEW k \in 0 .. n, NEW j \in k .. n
    PROVE  /\ Len(h[k]) \in Nat /\ Len(h[j]) \in Nat
           /\ Len(h[k]) <= Len(h[j])
           /\ \A x \in 1 .. Len(h[k]) : h[j][x] = h[k][x]
<1> DEFINE Grown(i) == Len(h[k]) <= Len(h[i])
                       /\ \A x \in 1 .. Len(h[k]) : h[i][x] = h[k][x]
           K == {i \in 0 .. n : i >= k /\ ~Grown(i)}
<1>1. \A i \in 0 .. n : h[i] \in Seq(S) /\ Len(h[i]) \in Nat
  BY DEF FrontsJoin
<1>2. K = {}
  <2> SUFFICES ASSUME K # {} PROVE FALSE
    OBVIOUS
  <2>1. PICK i \in K : \A l \in K : i <= l
    <3>1. n \in Nat /\ K \in SUBSET (0 .. n)
      OBVIOUS
    <3> HIDE DEF K
    <3> QED BY <3>1, LeastOf
  <2>2. i \in 0 .. n /\ i >= k /\ ~Grown(i)
    OBVIOUS
  <2>3. Grown(k)
    BY <1>1
  <2>4. i # k
    BY <2>2, <2>3
  <2>5. i - 1 \in 0 .. n /\ i - 1 >= k /\ ~ (i <= i - 1) /\ i \in 1 .. n
    BY <2>2, <2>4
  <2>6. Grown(i - 1)
    BY <2>1, <2>5
  <2>7. PICK a, b : a = h[i - 1] /\ b = s[i]
    OBVIOUS
  <2>8. a \in Seq(S) /\ b \in Seq(S) /\ h[i] = a \o b
    BY <2>5, <2>7 DEF FrontsJoin
  <2>9. Len(h[i]) = Len(a) + Len(b) /\ \A x \in 1 .. Len(a) : h[i][x] = a[x]
    BY <2>8
  <2>10. Len(a) \in Nat /\ Len(b) \in Nat
    BY ONLY <2>8
  <2>11. Len(h[k]) \in Nat
    BY <1>1
  <2>12. Len(h[k]) <= Len(a) /\ \A x \in 1 .. Len(h[k]) : a[x] = h[k][x]
    BY <2>6, <2>7
  <2>13. Len(h[k]) <= Len(h[i])
    BY <2>9, <2>10, <2>11, <2>12
  <2>14. ASSUME NEW x \in 1 .. Len(h[k]) PROVE h[i][x] = h[k][x]
    <3>1. x \in 1 .. Len(a)
      BY <2>10, <2>11, <2>12
    <3> QED BY <2>9, <2>12, <3>1
  <2>15. Grown(i)
    BY <2>13, <2>14
  <2> HIDE DEF Grown, K
  <2> QED BY <2>2, <2>15
<1>3. j \in 0 .. n /\ j >= k
  OBVIOUS
<1> QED BY <1>1, <1>2, <1>3

-----------------------------------------------------------------------------
(* The function MapThenFoldSet computes, for a step and a way to pick an   *)
(* element given as functions.                                             *)
IsFold(step, base, pick, D, h) ==
    h = [s \in SUBSET D |->
           IF s = {} THEN base ELSE step[<<pick[s], h[s \ {pick[s]}]>>]]

(* Two solutions agree where both are defined. *)
LEMMA FoldAgree ==
    ASSUME NEW D, IsFiniteSet(D), NEW E \in SUBSET D, NEW step, NEW base,
           NEW pick, \A s \in SUBSET D : s # {} => pick[s] \in s,
           NEW g, NEW h,
           IsFold(step, base, pick, E, g), IsFold(step, base, pick, D, h)
    PROVE  \A s \in SUBSET E : g[s] = h[s]
<1> DEFINE B == {s \in SUBSET E : g[s] # h[s]}
<1>1. SUFFICES ASSUME B # {} PROVE FALSE
  OBVIOUS
<1>2. B \in SUBSET (SUBSET E) /\ IsFiniteSet(E)
  BY FS_Subset
<1>3. PICK m \in B : \A s \in B : s \subseteq m => s = m
  <2> HIDE DEF B
  <2> QED BY <1>1, <1>2, MinimalSubset
<1>4. CASE m = {}
  <2>1. {} \in SUBSET E /\ {} \in SUBSET D
    OBVIOUS
  <2>2. g[{}] = base /\ h[{}] = base
    BY <2>1 DEF IsFold
  <2> QED BY <1>4, <2>2
<1>5. CASE m # {}
  <2>1. PICK p : p = pick[m]
    OBVIOUS
  <2>2. m \in SUBSET E /\ m \in SUBSET D /\ m \ {p} \in SUBSET E /\ p \in m
    BY <1>5, <2>1
  <2>3. m \ {p} \notin B
    BY <1>3, <2>2
  <2>4. g[m \ {p}] = h[m \ {p}]
    BY <2>2, <2>3
  <2>5. g[m] = step[<<p, g[m \ {p}]>>]
    BY <1>5, <2>1, <2>2 DEF IsFold
  <2>6. h[m] = step[<<p, h[m \ {p}]>>]
    BY <1>5, <2>1, <2>2 DEF IsFold
  <2> QED BY <2>4, <2>5, <2>6
<1> QED BY <1>4, <1>5

(* There is a solution. *)
LEMMA FoldExists ==
    ASSUME NEW D, IsFiniteSet(D), NEW step, NEW base,
           NEW pick, \A s \in SUBSET D : s # {} => pick[s] \in s
    PROVE  \E h : IsFold(step, base, pick, D, h)
<1> DEFINE Good(T) == \E h : IsFold(step, base, pick, T, h)
           B == {T \in SUBSET D : ~ Good(T)}
<1>1. SUFFICES ASSUME B # {} PROVE FALSE
  <2>1. D \in SUBSET D
    OBVIOUS
  <2> QED BY <2>1
<1>2. PICK T \in B : \A s \in B : s \subseteq T => s = T
  <2>1. B \in SUBSET (SUBSET D)
    OBVIOUS
  <2> HIDE DEF B
  <2> QED BY <1>1, <2>1, MinimalSubset
<1>3. \A s \in SUBSET T : s # T => Good(s)
  BY <1>2
<1> DEFINE H(s) == CHOOSE h : IsFold(step, base, pick, s, h)
           q(s) == s \ {pick[s]}
           k == [s \in SUBSET T |->
                   IF s = {} THEN base ELSE step[<<pick[s], H(q(s))[q(s)]>>]]
<1>4. ASSUME NEW s \in SUBSET T, s # T
      PROVE  IsFold(step, base, pick, s, H(s))
  BY <1>3, <1>4
<1>5. ASSUME NEW s \in SUBSET T, s # {}
      PROVE  q(s) \in SUBSET T /\ q(s) # T /\ q(s) \in SUBSET s
  <2>1. s \in SUBSET D /\ pick[s] \in s
    BY <1>5
  <2> QED BY <2>1
<1>6. ASSUME NEW s \in SUBSET T, s # {}
      PROVE  k[q(s)] = H(q(s))[q(s)]
  <2> DEFINE u == q(s)
  <2>1. u \in SUBSET T /\ u # T
    BY <1>5, <1>6
  <2> HIDE DEF u
  <2>2. IsFold(step, base, pick, u, H(u))
    BY <1>4, <2>1
  <2>3. CASE u = {}
    <3>1. k[u] = base
      BY <2>1, <2>3
    <3>2. u \in SUBSET u
      OBVIOUS
    <3> HIDE DEF H
    <3>3. H(u)[u] = base
      BY <2>2, <2>3, <3>2 DEF IsFold
    <3> QED BY <3>1, <3>3 DEF u
  <2>4. CASE u # {}
    <3>1. q(u) \in SUBSET T /\ q(u) # T /\ q(u) \in SUBSET u
      BY <1>5, <2>1, <2>4
    <3>2. IsFold(step, base, pick, q(u), H(q(u)))
      BY <1>4, <3>1
    <3> HIDE DEF H
    <3>3. IsFiniteSet(u) /\ \A v \in SUBSET u : v # {} => pick[v] \in v
      BY <2>1, FS_Subset
    <3>4. H(q(u))[q(u)] = H(u)[q(u)]
      <4>1. PICK w : w = q(u)
        OBVIOUS
      <4>2. PICK a, b : a = H(w) /\ b = H(u)
        OBVIOUS
      <4>3. w \in SUBSET u /\ w \in SUBSET w
        BY <3>1, <4>1
      <4>4. IsFold(step, base, pick, w, a) /\ IsFold(step, base, pick, u, b)
        BY <2>2, <3>2, <4>1, <4>2
      <4>5. \A v \in SUBSET w : a[v] = b[v]
        BY ONLY <3>3, <4>3, <4>4, FoldAgree
      <4> QED BY <4>1, <4>2, <4>3, <4>5
    <3>5. k[u] = step[<<pick[u], H(q(u))[q(u)]>>]
      BY <2>1, <2>4
    <3>6. u \in SUBSET u
      OBVIOUS
    <3>7. H(u)[u] = step[<<pick[u], H(u)[q(u)]>>]
      BY <2>2, <2>4, <3>6 DEF IsFold
    <3> QED BY <3>4, <3>5, <3>7 DEF u
  <2> QED BY <2>3, <2>4
<1>7. IsFold(step, base, pick, T, k)
  <2> HIDE DEF H
  <2>1. \A s \in SUBSET T :
          k[s] = IF s = {} THEN base ELSE step[<<pick[s], k[s \ {pick[s]}]>>]
    BY <1>6
  <2>2. k = [s \in SUBSET T |-> k[s]]
    OBVIOUS
  <2> HIDE DEF k
  <2> QED BY <2>1, <2>2 DEF IsFold
<1> QED BY <1>2, <1>7

(* It takes its values where the step does. *)
LEMMA FoldTyped ==
    ASSUME NEW D, IsFiniteSet(D), NEW V, NEW step \in [D \X V -> V],
           NEW base \in V,
           NEW pick, \A s \in SUBSET D : s # {} => pick[s] \in s
    PROVE  \E h \in [SUBSET D -> V] : IsFold(step, base, pick, D, h)
<1>1. PICK h : IsFold(step, base, pick, D, h)
  BY FoldExists
<1> DEFINE B == {s \in SUBSET D : h[s] \notin V}
<1>2. SUFFICES ASSUME B # {} PROVE FALSE
  <2>1. h = [s \in SUBSET D |-> h[s]]
    BY <1>1 DEF IsFold
  <2>2. (\A s \in SUBSET D : h[s] \in V) => [s \in SUBSET D |-> h[s]] \in [SUBSET D -> V]
    OBVIOUS
  <2> QED BY <1>1, <2>1, <2>2
<1>3. PICK m \in B : \A s \in B : s \subseteq m => s = m
  <2>1. B \in SUBSET (SUBSET D)
    OBVIOUS
  <2> HIDE DEF B
  <2> QED BY <1>2, <2>1, MinimalSubset
<1>4. m # {}
  <2>1. {} \in SUBSET D
    OBVIOUS
  <2>2. h[{}] = base
    BY <1>1, <2>1 DEF IsFold
  <2> QED BY <2>2
<1>5. PICK p : p = pick[m]
  OBVIOUS
<1>6. m \in SUBSET D /\ m \ {p} \in SUBSET D /\ p \in m
  BY <1>4, <1>5
<1>7. m \ {p} \notin B
  BY <1>3, <1>6
<1>8. h[m] = step[<<p, h[m \ {p}]>>]
  BY <1>1, <1>4, <1>5, <1>6 DEF IsFold
<1>9. h[m \ {p}] \in V /\ p \in D
  BY <1>6, <1>7
<1> QED BY <1>8, <1>9
=============================================================================
