------------------------------- MODULE Totals -------------------------------
(***************************************************************************)
(* What the proofs need of induction, of sums over finite sets and of      *)
(* rounding down. The induction theorems of the library take an operator,  *)
(* which no prover here can instantiate: these start from its theorems of  *)
(* well-foundedness, and state the induction hypothesis as a set.          *)
(***************************************************************************)
EXTENDS Integers, FiniteSetsExt, WellFoundedInduction, FiniteSetTheorems, TLAPS

-----------------------------------------------------------------------------
(* Induction, from the well-foundedness theorems of the library: a set of  *)
(* naturals has a least element;                                           *)
LEMMA LeastOf ==
  ASSUME NEW T \in SUBSET Nat, T # {}
  PROVE  \E n \in T : \A m \in T : n <= m
PROOF
  <1> DEFINE R == OpToRel(<, Nat)
  <1>1. IsWellFoundedOn(R, Nat)
    BY NatLessThanWellFounded
  <1> HIDE DEF R
  <1>2. PICK n \in T : \A m \in T : <<m, n>> \notin R
    BY <1>1, WFMin
  <1>3. \A m \in T : m < n => <<m, n>> \in R
    BY <1>2, SMT DEF R, OpToRel
  <1>4. \A m \in T : ~(m < n)
    BY <1>2, <1>3, Zenon
  <1> QED BY <1>4

(* a set that holds 0 and is closed under successor holds every natural;   *)
LEMMA Induct ==
  ASSUME NEW T, 0 \in T, \A n \in Nat : n \in T => n + 1 \in T
  PROVE  Nat \subseteq T
PROOF
  <1> SUFFICES ASSUME Nat \ T # {} PROVE FALSE
    OBVIOUS
  <1>1. PICK n \in Nat \ T : \A m \in Nat \ T : n <= m
    BY LeastOf
  <1>2. n # 0 /\ n - 1 \in Nat /\ ~(n <= n - 1)
    BY <1>1
  <1>3. n - 1 \in T
    BY <1>1, <1>2
  <1> QED BY <1>1, <1>2, <1>3

(* a family that holds the empty set and is closed under adding an element *)
(* of S holds S.                                                           *)
LEMMA InductFinite ==
  ASSUME NEW S, IsFiniteSet(S), NEW G, {} \in G,
         \A T \in SUBSET S, x \in S : T \in G /\ x \notin T => T \cup {x} \in G
  PROVE  S \in G
PROOF
  <1> DEFINE bad == (SUBSET S) \ G
             R == StrictSubsetOrdering(S)
  <1> SUFFICES ASSUME S \notin G PROVE FALSE
    OBVIOUS
  <1>1. IsWellFoundedOn(R, SUBSET S)
    BY FS_StrictSubsetOrderingWellFounded, FS_FiniteSubsetsOfFinite
  <1>2. PICK T \in bad : \A U \in bad : <<U, T>> \notin R
    <2>1. bad \subseteq SUBSET S /\ bad # {}
      OBVIOUS
    <2> HIDE DEF bad, R
    <2> QED BY <1>1, <2>1, WFMin
  <1>3. PICK x : x \in T
    BY <1>2
  <1>4. T \ {x} \in SUBSET S /\ (T \ {x}) \cup {x} = T /\ x \in S /\ x \notin T \ {x}
    BY <1>2, <1>3
  <1>5. <<T \ {x}, T>> \in R
    BY <1>2, <1>3 DEF StrictSubsetOrdering
  <1>6. T \ {x} \in G
    BY <1>2, <1>4, <1>5
  <1> QED BY <1>2, <1>4, <1>6

(* One of the elements of a set, the one a fold takes out first.           *)
Chosen(s) == CHOOSE x \in s : TRUE

(* g totals f over every subset of S, the way MapThenSumSet does.          *)
Accumulates(g, f, S) ==
  g = [s \in SUBSET S |-> IF s = {} THEN 0 ELSE f[Chosen(s)] + g[s \ {Chosen(s)}]]

(* The sum of f[x] for x in S.                                             *)
Total(f, S) == (CHOOSE g : Accumulates(g, f, S))[S]

(* The sizes of the subsets of a finite set.                               *)
LEMMA SubsetSizes ==
  ASSUME NEW S, IsFiniteSet(S)
  PROVE  \A T \in SUBSET S :
           /\ IsFiniteSet(T)
           /\ Cardinality(T) \in Nat
           /\ Cardinality(T) <= Cardinality(S)
           /\ Cardinality(T) <= 0 => T = {}
           /\ \A x \in T : Cardinality(T \ {x}) = Cardinality(T) - 1
PROOF
  <1> TAKE T \in SUBSET S
  <1>1. IsFiniteSet(T) /\ Cardinality(T) <= Cardinality(S)
    BY FS_Subset
  <1>2. Cardinality(T) \in Nat
    BY <1>1, FS_CardinalityType
  <1>3. Cardinality(T) = 0 => T = {}
    BY <1>1, FS_EmptySet
  <1>4. \A x \in T : Cardinality(T \ {x}) = Cardinality(T) - 1
    BY <1>1, FS_RemoveElement
  <1> QED BY <1>1, <1>2, <1>3, <1>4

(* There is such a g,                                                      *)
LEMMA AccumulationExists ==
  ASSUME NEW S, IsFiniteSet(S), NEW f
  PROVE  \E g : Accumulates(g, f, S)
PROOF
  <1> DEFINE sum(g, s) == IF s = {} THEN 0 ELSE f[Chosen(s)] + g[s \ {Chosen(s)}]
             Good(g, n) == \A s \in SUBSET S : Cardinality(s) <= n => g[s] = sum(g, s)
             T == {n \in Nat : \E g : g = [s \in SUBSET S |-> g[s]] /\ Good(g, n)}
  <1>1. \A s \in SUBSET S : s # {} => Chosen(s) \in s
    BY DEF Chosen
  <1>2. \A s \in SUBSET S :
          /\ Cardinality(s) \in Nat /\ IsFiniteSet(s)
          /\ Cardinality(s) <= Cardinality(S)
          /\ Cardinality(s) <= 0 => s = {}
          /\ s # {} => Cardinality(s \ {Chosen(s)}) = Cardinality(s) - 1
    BY <1>1, SubsetSizes
  <1>3. 0 \in T
    <2> DEFINE z == [s \in SUBSET S |-> 0]
    <2>1. z = [s \in SUBSET S |-> z[s]] /\ Good(z, 0)
      BY <1>2
    <2> QED BY <2>1
  <1>4. ASSUME NEW n \in Nat, n \in T PROVE n + 1 \in T
    <2>1. PICK g : g = [s \in SUBSET S |-> g[s]] /\ Good(g, n)
      BY <1>4
    <2> DEFINE h == [s \in SUBSET S |-> sum(g, s)]
    <2>2. \A s \in SUBSET S : Cardinality(s) <= n => h[s] = g[s]
      BY <2>1
    <2>3. ASSUME NEW s \in SUBSET S, Cardinality(s) <= n + 1, s # {}
          PROVE  h[s \ {Chosen(s)}] = g[s \ {Chosen(s)}]
      <3>1. s \ {Chosen(s)} \in SUBSET S /\ Cardinality(s \ {Chosen(s)}) <= n
        BY <1>2, <2>3
      <3> QED BY <3>1, <2>2
    <2>4. Good(h, n + 1)
      BY <2>3
    <2>5. h = [s \in SUBSET S |-> h[s]]
      OBVIOUS
    <2> HIDE DEF h, Good
    <2> QED BY <2>4, <2>5
  <1>5. Nat \subseteq T
    <2> HIDE DEF T
    <2> QED BY <1>3, <1>4, Induct
  <1>6. Cardinality(S) \in T
    BY <1>5, FS_CardinalityType
  <1>7. PICK g : g = [s \in SUBSET S |-> g[s]] /\ Good(g, Cardinality(S))
    BY <1>6
  <1>8. g = [s \in SUBSET S |-> sum(g, s)]
    BY <1>2, <1>7
  <1> QED BY <1>8 DEF Accumulates

(* and what it says of a subset depends on nothing else than f on that     *)
(* subset.                                                                 *)
LEMMA AccumulationsAgree ==
  ASSUME NEW S, IsFiniteSet(S), NEW T \in SUBSET S, NEW f, NEW h,
         \A x \in T : f[x] = h[x],
         NEW g1, Accumulates(g1, f, S), NEW g2, Accumulates(g2, h, T)
  PROVE  g1[T] = g2[T]
PROOF
  <1> DEFINE Agree(n) == \A s \in SUBSET T : Cardinality(s) <= n => g1[s] = g2[s]
             N == {n \in Nat : Agree(n)}
  <1>1. \A s \in SUBSET T :
          /\ Cardinality(s) \in Nat
          /\ Cardinality(s) <= 0 => s = {}
          /\ s # {} => /\ Chosen(s) \in s
                      /\ Cardinality(s \ {Chosen(s)}) = Cardinality(s) - 1
    <2>1. \A s : s # {} => Chosen(s) \in s
      BY DEF Chosen
    <2>2. \A s \in SUBSET T : s \in SUBSET S
      OBVIOUS
    <2> QED BY <2>1, <2>2, SubsetSizes
  <1>2. \A s \in SUBSET T :
          /\ g1[s] = IF s = {} THEN 0 ELSE f[Chosen(s)] + g1[s \ {Chosen(s)}]
          /\ g2[s] = IF s = {} THEN 0 ELSE h[Chosen(s)] + g2[s \ {Chosen(s)}]
    <2> TAKE s \in SUBSET T
    <2>1. s \in SUBSET S
      OBVIOUS
    <2> QED BY <2>1 DEF Accumulates
  <1>3. 0 \in N
    BY <1>1, <1>2
  <1>4. ASSUME NEW n \in Nat, n \in N PROVE n + 1 \in N
    <2>1. ASSUME NEW s \in SUBSET T, Cardinality(s) <= n + 1 PROVE g1[s] = g2[s]
      <3>1. CASE s = {}
        BY <3>1, <1>2
      <3>2. CASE s # {}
        <4>1. Chosen(s) \in T /\ Cardinality(s \ {Chosen(s)}) <= n /\ s \ {Chosen(s)} \in SUBSET T
          BY <2>1, <3>2, <1>1
        <4>2. g1[s \ {Chosen(s)}] = g2[s \ {Chosen(s)}]
          BY <4>1, <1>4
        <4> QED BY <3>2, <4>1, <4>2, <1>2
      <3> QED BY <3>1, <3>2
    <2> QED BY <2>1
  <1>5. Nat \subseteq N
    <2> HIDE DEF N
    <2> QED BY <1>3, <1>4, Induct
  <1>6. IsFiniteSet(T) /\ Cardinality(T) \in Nat
    BY FS_Subset, FS_CardinalityType
  <1>7. Agree(Cardinality(T))
    BY <1>5, <1>6
  <1> QED BY <1>6, <1>7

(* So a total may be read off the accumulation over any larger set,        *)
LEMMA TotalIs ==
  ASSUME NEW S, IsFiniteSet(S), NEW f, NEW g, Accumulates(g, f, S), NEW T \in SUBSET S
  PROVE  Total(f, T) = g[T]
PROOF
  <1>1. IsFiniteSet(T)
    BY FS_Subset
  <1>2. Accumulates(CHOOSE h : Accumulates(h, f, T), f, T)
    BY <1>1, AccumulationExists
  <1> QED BY <1>2, AccumulationsAgree DEF Total

(* it depends on the values of f alone,                                    *)
LEMMA TotalSame ==
  ASSUME NEW S, IsFiniteSet(S), NEW f, NEW h, \A x \in S : f[x] = h[x]
  PROVE  Total(f, S) = Total(h, S)
PROOF
  <1>1. /\ Accumulates(CHOOSE g : Accumulates(g, f, S), f, S)
        /\ Accumulates(CHOOSE g : Accumulates(g, h, S), h, S)
    BY AccumulationExists
  <1>2. S \in SUBSET S
    OBVIOUS
  <1> QED BY <1>1, <1>2, AccumulationsAgree DEF Total

(* an empty total is 0,                                                    *)
LEMMA TotalEmpty == ASSUME NEW f PROVE Total(f, {}) = 0
PROOF
  <1>1. IsFiniteSet({})
    BY FS_EmptySet
  <1>2. PICK g : Accumulates(g, f, {})
    BY <1>1, AccumulationExists
  <1>3. g[{}] = 0
    BY <1>2 DEF Accumulates
  <1> QED BY <1>1, <1>2, <1>3, TotalIs

(* and a total is the first term and the total of the others.              *)
LEMMA TotalStep ==
  ASSUME NEW S, IsFiniteSet(S), S # {}, NEW f
  PROVE  Chosen(S) \in S /\ Total(f, S) = f[Chosen(S)] + Total(f, S \ {Chosen(S)})
PROOF
  <1>1. PICK g : Accumulates(g, f, S)
    BY AccumulationExists
  <1>2. S \in SUBSET S /\ S \ {Chosen(S)} \in SUBSET S
    OBVIOUS
  <1>3. g[S] = f[Chosen(S)] + g[S \ {Chosen(S)}]
    BY <1>1, <1>2 DEF Accumulates
  <1>4. Chosen(S) \in S
    BY DEF Chosen
  <1> QED BY <1>1, <1>2, <1>3, <1>4, TotalIs

(* The total is an integer, and any term may be taken out first.           *)
LEMMA TotalRemove ==
  ASSUME NEW S, IsFiniteSet(S), NEW f, \A x \in S : f[x] \in Int
  PROVE  /\ Total(f, S) \in Int
         /\ \A x \in S : Total(f, S) = f[x] + Total(f, S \ {x})
PROOF
  <1> DEFINE Holds(T) == /\ Total(f, T) \in Int
                         /\ \A x \in T : Total(f, T) = f[x] + Total(f, T \ {x})
             N == {n \in Nat : \A T \in SUBSET S : Cardinality(T) <= n => Holds(T)}
  <1>1. \A T \in SUBSET S :
          /\ IsFiniteSet(T)
          /\ Cardinality(T) \in Nat
          /\ Cardinality(T) <= 0 => T = {}
          /\ \A x \in T : Cardinality(T \ {x}) = Cardinality(T) - 1
    BY SubsetSizes
  <1>2. 0 \in N
    BY <1>1, TotalEmpty
  <1>3. ASSUME NEW n \in Nat, n \in N PROVE n + 1 \in N
    <2> SUFFICES ASSUME NEW T \in SUBSET S, Cardinality(T) <= n + 1, T # {}
                 PROVE  Holds(T)
      BY TotalEmpty
    <2>1. PICK c : c = Chosen(T)
      OBVIOUS
    <2>2. c \in T /\ Total(f, T) = f[c] + Total(f, T \ {c})
      BY <2>1, <1>1, TotalStep
    <2>3. \A x \in T : Holds(T \ {x})
      <3> TAKE x \in T
      <3>1. T \ {x} \in SUBSET S /\ Cardinality(T \ {x}) <= n
        BY <1>1
      <3> QED BY <3>1, <1>3
    <2>4. ASSUME NEW x \in T, x # c PROVE Total(f, T) = f[x] + Total(f, T \ {x})
      <3>1. (T \ {c}) \ {x} = (T \ {x}) \ {c} /\ x \in T \ {c} /\ c \in T \ {x}
        BY <2>2, <2>4
      <3>2. Total(f, T \ {c}) = f[x] + Total(f, (T \ {c}) \ {x})
        BY <2>2, <2>3, <3>1
      <3>3. Total(f, T \ {x}) = f[c] + Total(f, (T \ {c}) \ {x})
        BY <2>3, <3>1
      <3>4. \/ (T \ {c}) \ {x} = {} /\ Total(f, (T \ {c}) \ {x}) \in Int
            \/ Total(f, (T \ {c}) \ {x}) \in Int
        <4>1. (T \ {c}) \ {x} \in SUBSET S /\ Cardinality((T \ {c}) \ {x}) <= n
          <5>1. T \ {c} \in SUBSET S /\ x \in T \ {c}
            BY <3>1
          <5> QED BY <5>1, <2>2, <1>1
        <4> QED BY <4>1, <1>3
      <3>5. f[x] \in Int /\ f[c] \in Int
        BY <2>2
      <3> QED BY <2>2, <3>2, <3>3, <3>4, <3>5
    <2>5. f[c] \in Int /\ Total(f, T \ {c}) \in Int
      BY <2>2, <2>3
    <2> QED BY <2>2, <2>4, <2>5
  <1>4. Nat \subseteq N
    <2> HIDE DEF N
    <2> QED BY <1>2, <1>3, Induct
  <1>5. Cardinality(S) \in N /\ S \in SUBSET S
    BY <1>4, FS_CardinalityType
  <1> QED BY <1>1, <1>5

(* A total splits at any element taken in.                                 *)
LEMMA TotalAdd ==
  ASSUME NEW S, IsFiniteSet(S), NEW f, \A x \in S : f[x] \in Int,
         NEW T \in SUBSET S, NEW x \in S \ T
  PROVE  /\ Total(f, T) \in Int
         /\ Total(f, T \cup {x}) = f[x] + Total(f, T)
PROOF
  <1>1. IsFiniteSet(T) /\ IsFiniteSet(T \cup {x})
    BY FS_Subset
  <1>2. \A y \in T \cup {x} : f[y] \in Int
    OBVIOUS
  <1>3. (T \cup {x}) \ {x} = T /\ x \in T \cup {x}
    OBVIOUS
  <1> QED BY <1>1, <1>2, <1>3, TotalRemove

(* The fold of the community modules, for a function.                      *)
LEMMA SumIsTotal ==
  ASSUME NEW S, IsFiniteSet(S), NEW f
  PROVE  MapThenSumSet(LAMBDA x : f[x], S) = Total(f, S)
PROOF
  <1>1. MapThenSumSet(LAMBDA x : f[x], S) = (CHOOSE g : Accumulates(g, f, S))[S]
    BY Zenon DEF MapThenSumSet, MapThenFoldSet, Accumulates, Chosen
  <1> QED BY <1>1 DEF Total

(* A total of naturals is one.                                             *)
LEMMA TotalNat ==
  ASSUME NEW S, IsFiniteSet(S), NEW f, \A x \in S : f[x] \in Nat
  PROVE  Total(f, S) \in Nat
PROOF
  <1> DEFINE G == {T \in SUBSET S : Total(f, T) \in Nat}
  <1>1. {} \in G
    BY TotalEmpty
  <1>2. ASSUME NEW T \in SUBSET S, NEW x \in S, T \in G, x \notin T
        PROVE  T \cup {x} \in G
    <2>1. x \in S \ T /\ Total(f, T) \in Nat /\ f[x] \in Nat
      BY <1>2
    <2>2. Total(f, T \cup {x}) = f[x] + Total(f, T)
      BY <2>1, TotalAdd
    <2> QED BY <2>1, <2>2
  <1>3. S \in G
    <2> HIDE DEF G
    <2> QED BY <1>1, <1>2, InductFinite
  <1> QED BY <1>3

(* A finite, non-empty set of naturals has a greatest element.             *)
LEMMA GreatestOf ==
  ASSUME NEW S \in SUBSET Int, IsFiniteSet(S), S # {}
  PROVE  Max(S) \in S /\ \A x \in S : Max(S) >= x
PROOF
  <1> DEFINE top(T, m) == \A x \in T : m >= x
             G == {T \in SUBSET S : T = {} \/ \E m \in T : top(T, m)}
  <1>1. {} \in G
    OBVIOUS
  <1>2. ASSUME NEW T \in SUBSET S, NEW x \in S, T \in G, x \notin T
        PROVE  T \cup {x} \in G
    <2>1. CASE T = {}
      <3>1. x \in T \cup {x} /\ top(T \cup {x}, x)
        BY <2>1
      <3> QED BY <3>1
    <2>2. CASE T # {}
      <3>1. PICK m \in T : top(T, m)
        BY <1>2, <2>2
      <3>2. m \in Int /\ x \in Int /\ T \subseteq Int
        OBVIOUS
      <3>3. top(T \cup {x}, m) \/ top(T \cup {x}, x)
        BY <3>1, <3>2
      <3> QED BY <3>3
    <2> QED BY <2>1, <2>2
  <1>3. S \in G
    <2> HIDE DEF G
    <2> QED BY <1>1, <1>2, InductFinite
  <1>4. \E m \in S : \A x \in S : m >= x
    BY <1>3
  <1> QED BY <1>4 DEF Max

(* A total splits into those of a subset and of the rest.                  *)
LEMMA TotalSplit ==
  ASSUME NEW S, IsFiniteSet(S), NEW f, \A x \in S : f[x] \in Int, NEW T \in SUBSET S
  PROVE  Total(f, S) = Total(f, T) + Total(f, S \ T)
PROOF
  <1> DEFINE G == {U \in SUBSET T : /\ Total(f, U) \in Int /\ Total(f, S \ U) \in Int
                                   /\ Total(f, S) = Total(f, U) + Total(f, S \ U)}
  <1>1. IsFiniteSet(T) /\ Total(f, S) \in Int
    BY FS_Subset, TotalRemove
  <1>2. {} \in G
    <2>1. S \ {} = S
      OBVIOUS
    <2> QED BY <1>1, <2>1, TotalEmpty
  <1>3. ASSUME NEW U \in SUBSET T, NEW x \in T, U \in G, x \notin U
        PROVE  U \cup {x} \in G
    <2>1. U \in SUBSET S /\ x \in S \ U /\ f[x] \in Int
      BY <1>3
    <2>2. Total(f, U \cup {x}) = f[x] + Total(f, U)
      BY <2>1, TotalAdd
    <2>3. PICK R : R = S \ U
      OBVIOUS
    <2>4. IsFiniteSet(R) /\ x \in R /\ R \ {x} = S \ (U \cup {x}) /\ \A y \in R : f[y] \in Int
      BY <2>1, <2>3, FS_Subset
    <2>5. Total(f, R) = f[x] + Total(f, R \ {x})
      BY <2>4, TotalRemove
    <2>6. Total(f, R \ {x}) \in Int
      <3>1. R \ {x} \in SUBSET R /\ x \in R \ (R \ {x})
        BY <2>4
      <3> QED BY <2>4, <3>1, TotalAdd
    <2>7. /\ Total(f, U) \in Int /\ Total(f, S) = Total(f, U) + Total(f, R)
      BY <1>3, <2>3
    <2>8. Total(f, S) = Total(f, U \cup {x}) + Total(f, R \ {x}) /\ Total(f, U \cup {x}) \in Int
      BY <2>1, <2>2, <2>5, <2>6, <2>7
    <2> QED BY <2>4, <2>6, <2>8
  <1>4. T \in G
    <2> HIDE DEF G
    <2> QED BY <1>1, <1>2, <1>3, InductFinite
  <1> QED BY <1>4

(* What is nothing outside T totals the same with and without the rest.    *)
LEMMA TotalZero ==
  ASSUME NEW S, IsFiniteSet(S), NEW f, \A x \in S : f[x] = 0
  PROVE  Total(f, S) = 0
PROOF
  <1> DEFINE G == {T \in SUBSET S : Total(f, T) = 0}
  <1>1. {} \in G
    BY TotalEmpty
  <1>2. ASSUME NEW T \in SUBSET S, NEW x \in S, T \in G, x \notin T
        PROVE  T \cup {x} \in G
    <2>1. x \in S \ T /\ \A y \in S : f[y] \in Int
      BY <1>2
    <2>2. Total(f, T \cup {x}) = f[x] + Total(f, T)
      BY <2>1, TotalAdd
    <2> QED BY <1>2, <2>2
  <1>3. S \in G
    <2> HIDE DEF G
    <2> QED BY <1>1, <1>2, InductFinite
  <1> QED BY <1>3

(* A total of naturals only grows with the set.                            *)
LEMMA TotalWithin ==
  ASSUME NEW S, IsFiniteSet(S), NEW f, \A x \in S : f[x] \in Nat, NEW T \in SUBSET S
  PROVE  Total(f, T) \in Nat /\ Total(f, S) \in Nat /\ Total(f, T) <= Total(f, S)
PROOF
  <1>1. IsFiniteSet(T) /\ IsFiniteSet(S \ T)
    BY FS_Subset
  <1>2. Total(f, T) \in Nat /\ Total(f, S \ T) \in Nat /\ Total(f, S) \in Nat
    BY <1>1, TotalNat
  <1>3. Total(f, S) = Total(f, T) + Total(f, S \ T)
    BY TotalSplit
  <1> QED BY <1>2, <1>3

(* A finite, non-empty set has an element of greatest quantity.            *)
LEMMA GreatestExists ==
  ASSUME NEW S, IsFiniteSet(S), S # {}, NEW f, \A x \in S : f[x] \in Int
  PROVE  \E x \in S : \A y \in S : f[y] <= f[x]
PROOF
  <1> DEFINE G == {T \in SUBSET S : T = {} \/ \E x \in T : \A y \in T : f[y] <= f[x]}
  <1>1. {} \in G
    OBVIOUS
  <1>2. ASSUME NEW T \in SUBSET S, NEW z \in S, T \in G, z \notin T
        PROVE  T \cup {z} \in G
    <2>1. CASE T = {}
      BY <2>1
    <2>2. CASE T # {}
      <3>1. PICK x \in T : \A y \in T : f[y] <= f[x]
        BY <1>2, <2>2
      <3>2. CASE f[z] <= f[x]
        <4>1. \A y \in T \cup {z} : f[y] <= f[x]
          BY <3>1, <3>2
        <4> QED BY <4>1
      <3>3. CASE ~(f[z] <= f[x])
        <4>1. \A y \in T \cup {z} : f[y] <= f[z]
          BY <3>1, <3>3
        <4> QED BY <4>1
      <3> QED BY <3>2, <3>3
    <2> QED BY <2>1, <2>2
  <1>3. S \in G
    <2> HIDE DEF G
    <2> QED BY <1>1, <1>2, InductFinite
  <1> QED BY <1>3

(* The total of the sums is the sum of the totals.                         *)
LEMMA TotalPlus ==
  ASSUME NEW S, IsFiniteSet(S), NEW f, NEW g, NEW h,
         \A x \in S : g[x] \in Int /\ h[x] \in Int /\ f[x] = g[x] + h[x]
  PROVE  /\ Total(g, S) \in Int /\ Total(h, S) \in Int
         /\ Total(f, S) = Total(g, S) + Total(h, S)
PROOF
  <1> DEFINE G == {U \in SUBSET S : /\ Total(g, U) \in Int /\ Total(h, U) \in Int
                                   /\ Total(f, U) = Total(g, U) + Total(h, U)}
  <1>1. {} \in G
    BY TotalEmpty
  <1>2. ASSUME NEW U \in SUBSET S, NEW x \in S, U \in G, x \notin U
        PROVE  U \cup {x} \in G
    <2>1. /\ x \in S \ U
          /\ \A y \in S : f[y] \in Int /\ g[y] \in Int /\ h[y] \in Int
      BY <1>2
    <2>2. /\ Total(f, U \cup {x}) = f[x] + Total(f, U)
          /\ Total(g, U \cup {x}) = g[x] + Total(g, U)
          /\ Total(h, U \cup {x}) = h[x] + Total(h, U)
      <3> HIDE DEF G
      <3> QED BY <2>1, TotalAdd
    <2>3. f[x] = g[x] + h[x] /\ g[x] \in Int /\ h[x] \in Int
      OBVIOUS
    <2> QED BY <1>2, <2>2, <2>3
  <1>3. S \in G
    <2> HIDE DEF G
    <2> QED BY <1>1, <1>2, InductFinite
  <1> QED BY <1>3

(* A single term is its total.                                             *)
LEMMA TotalOne ==
  ASSUME NEW f, NEW x, f[x] \in Int PROVE Total(f, {x}) = f[x]
PROOF
  <1>1. IsFiniteSet({x}) /\ \A y \in {x} : f[y] \in Int
    BY FS_Singleton
  <1>2. Total(f, {x}) = f[x] + Total(f, {x} \ {x})
    BY <1>1, TotalRemove
  <1>3. {x} \ {x} = {}
    OBVIOUS
  <1> QED BY <1>2, <1>3, TotalEmpty

(* Totals of naturals, one below the other term by term.                   *)
LEMMA TotalsBelow ==
  ASSUME NEW S, IsFiniteSet(S), NEW g, NEW h,
         \A x \in S : g[x] \in Nat /\ h[x] \in Nat /\ g[x] <= h[x]
  PROVE  Total(g, S) \in Nat /\ Total(h, S) \in Nat /\ Total(g, S) <= Total(h, S)
PROOF
  <1> DEFINE G == {U \in SUBSET S : /\ Total(g, U) \in Nat /\ Total(h, U) \in Nat
                                    /\ Total(g, U) <= Total(h, U)}
  <1>1. {} \in G
    BY TotalEmpty
  <1>2. ASSUME NEW U \in SUBSET S, NEW x \in S, U \in G, x \notin U
        PROVE  U \cup {x} \in G
    <2>1. /\ Total(g, U \cup {x}) = g[x] + Total(g, U)
          /\ Total(h, U \cup {x}) = h[x] + Total(h, U)
      <3>1. x \in S \ U /\ \A y \in S : g[y] \in Int /\ h[y] \in Int
        BY <1>2
      <3> HIDE DEF G
      <3> QED BY <3>1, TotalAdd
    <2>2. PICK a, b, c, d \in Nat : /\ a = g[x] /\ b = Total(g, U) /\ a <= c /\ b <= d
                                    /\ c = h[x] /\ d = Total(h, U)
      BY <1>2
    <2> QED BY <2>1, <2>2
  <1>3. S \in G
    <2> HIDE DEF G
    <2> QED BY <1>1, <1>2, InductFinite
  <1> QED BY <1>3

(* Those of S that c puts into class t.                                    *)
Class(c, S, t) == {x \in S : c[x] = t}

(* A total may be taken class by class.                                    *)
LEMMA TotalByClass ==
  ASSUME NEW S, IsFiniteSet(S), NEW f, \A x \in S : f[x] \in Int,
         NEW T, IsFiniteSet(T), NEW c, \A x \in S : c[x] \in T,
         NEW h, \A t \in T : h[t] = Total(f, Class(c, S, t))
  PROVE  Total(h, T) = Total(f, S)
PROOF
  <1> DEFINE of(U) == {x \in S : c[x] \in U}
             G == {U \in SUBSET T : Total(h, U) = Total(f, of(U))}
  <1>1. {} \in G
    <2>1. of({}) = {}
      OBVIOUS
    <2>2. Total(h, {}) = 0 /\ Total(f, {}) = 0
      BY TotalEmpty
    <2> QED BY <2>1, <2>2
  <1>2. \A t \in T : h[t] \in Int
    <2>1. \A t \in T : IsFiniteSet(Class(c, S, t)) /\ Class(c, S, t) \in SUBSET S
      BY FS_Subset DEF Class
    <2>2. ASSUME NEW U \in SUBSET S, IsFiniteSet(U) PROVE Total(f, U) \in Int
      BY <2>2, TotalRemove
    <2> QED BY <2>1, <2>2
  <1>3. ASSUME NEW U \in SUBSET T, NEW t \in T, U \in G, t \notin U
        PROVE  U \cup {t} \in G
    <2>1. PICK A, B, C : A = of(U \cup {t}) /\ B = of(U) /\ C = Class(c, S, t)
      OBVIOUS
    <2>2. B \in SUBSET A /\ A \ B = C /\ A \in SUBSET S
      BY <1>3, <2>1 DEF Class
    <2>3. IsFiniteSet(A) /\ \A x \in A : f[x] \in Int
      BY <2>2, FS_Subset
    <2>4. Total(f, A) = Total(f, B) + Total(f, C)
      BY <2>2, <2>3, TotalSplit
    <2>5. t \in T \ U
      BY <1>3
    <2>6. Total(h, U) \in Int /\ Total(h, U \cup {t}) = h[t] + Total(h, U)
      BY <1>2, <2>5, TotalAdd
    <2>7. Total(h, U) = Total(f, B) /\ h[t] = Total(f, C) /\ h[t] \in Int
      BY <1>2, <1>3, <2>1
    <2>8. Total(h, U \cup {t}) = Total(f, of(U \cup {t}))
      BY <2>1, <2>4, <2>6, <2>7
    <2> QED BY <2>8
  <1>4. T \in G
    <2> HIDE DEF G
    <2> QED BY <1>1, <1>3, InductFinite
  <1>5. of(T) = S
    OBVIOUS
  <1> QED BY <1>4, <1>5

-----------------------------------------------------------------------------
(* What reaches vessels with this much room in all when an amount is       *)
(* poured over a row of them, and those ahead hold so much.                *)
Pour(amount, ahead, room) ==
  LET rest == IF ahead < amount THEN amount - ahead ELSE 0
  IN  IF rest < room THEN rest ELSE room

(* What each has got is poured if nothing is kept back while there is room,*)
(* nothing goes to G while there is room in H, nor past G while there is   *)
(* room in it: then what G has got is determined.                          *)
LEMMA PourIs ==
  ASSUME NEW S, IsFiniteSet(S), NEW got, NEW room,
         \A x \in S : got[x] \in Nat /\ room[x] \in Nat /\ got[x] <= room[x],
         NEW amount \in Nat, Total(got, S) <= amount,
         Total(got, S) < amount => \A x \in S : got[x] = room[x],
         NEW G \in SUBSET S, NEW H \in SUBSET S, G \cap H = {},
         \A x \in G, y \in H : got[x] > 0 => got[y] = room[y],
         \A x \in G, y \in S \ (G \cup H) : got[y] > 0 => got[x] = room[x]
  PROVE  Total(got, G) = Pour(amount, Total(room, H), Total(room, G))
PROOF
  <1> DEFINE B == S \ (G \cup H)
  <1>1. /\ IsFiniteSet(G) /\ IsFiniteSet(H) /\ IsFiniteSet(B) /\ IsFiniteSet(S \ G)
        /\ B \in SUBSET S /\ H \in SUBSET (S \ G) /\ (S \ G) \ H = B
    BY FS_Subset
  <1>2. PICK g, h, b, rg, rh \in Nat :
          /\ g = Total(got, G) /\ h = Total(got, H) /\ b = Total(got, B)
          /\ rg = Total(room, G) /\ rh = Total(room, H)
    BY <1>1, TotalNat
  <1>3. Total(got, S) = g + h + b
    <2>1. \A x \in S : got[x] \in Int
      OBVIOUS
    <2>2. Total(got, S) = g + Total(got, S \ G)
      BY <1>2, <2>1, TotalSplit
    <2>3. Total(got, S \ G) = h + b
      BY <1>1, <1>2, <2>1, TotalSplit
    <2> QED BY <1>2, <2>2, <2>3
  <1>4. h <= rh /\ g <= rg
    BY <1>1, <1>2, TotalsBelow
  <1>5. ASSUME g > 0 PROVE h = rh
    <2>1. PICK x \in G : got[x] > 0
      <3>1. SUFFICES ASSUME \A x \in G : ~(got[x] > 0) PROVE FALSE
        OBVIOUS
      <3>2. \A x \in G : got[x] = 0
        BY <3>1
      <3> QED BY <1>1, <1>2, <1>5, <3>2, TotalZero
    <2>2. \A y \in H : got[y] = room[y]
      BY <2>1
    <2> QED BY <1>1, <1>2, <2>2, TotalSame
  <1>6. CASE \A x \in G : got[x] = room[x]
    <2>1. g = rg
      BY <1>1, <1>2, <1>6, TotalSame
    <2>2. g + h <= amount
      BY <1>2, <1>3
    <2> QED BY <1>2, <1>5, <2>1, <2>2 DEF Pour
  <1>7. CASE ~ \A x \in G : got[x] = room[x]
    <2>1. PICK x \in G : got[x] # room[x]
      BY <1>7
    <2>2. \A y \in B : got[y] = 0
      <3>1. \A y \in B : got[y] \in Nat /\ ~(got[y] > 0)
        BY <2>1
      <3> QED BY <3>1
    <2>3. b = 0
      BY <1>1, <1>2, <2>2, TotalZero
    <2>4. g + h = amount
      <3>1. ~(Total(got, S) < amount)
        BY <2>1
      <3>2. Total(got, S) = g + h
        BY <1>2, <1>3, <2>3
      <3> QED BY <1>2, <3>1, <3>2
    <2> QED BY <1>2, <1>4, <1>5, <2>4 DEF Pour
  <1> QED BY <1>6, <1>7

-----------------------------------------------------------------------------
(* The integer division, by its two bounds.                                *)
LEMMA DivBounds ==
  ASSUME NEW a \in Nat, NEW b \in Nat \ {0}
  PROVE  /\ a \div b \in Nat
         /\ b * (a \div b) <= a
         /\ a < b * (a \div b) + b
PROOF
  OBVIOUS

(* fill_qty * qty / total, with fill_qty at most total, is at most the     *)
(* order's quantity: a floor share never exceeds what the order offers.    *)
LEMMA FloorBounds ==
  ASSUME NEW f \in Nat, NEW q \in Nat, NEW t \in Nat \ {0}, f <= t
  PROVE  /\ (f * q) \div t \in Nat
         /\ (f * q) \div t <= q
PROOF
  <1>1. f * q \in Nat /\ f * q <= t * q
    OBVIOUS
  <1>2. PICK d \in Nat : d = (f * q) \div t /\ t * d <= f * q
    BY <1>1, DivBounds
  <1>3. t * d <= t * q
    BY <1>1, <1>2
  <1>4. d <= q
    BY <1>3
  <1> QED BY <1>2, <1>4

(* Rounded down, the shares of f units in proportion to the quantities add *)
(* up to no more than f.                                                   *)
LEMMA FloorsFit ==
  ASSUME NEW S, IsFiniteSet(S), NEW quantity, \A x \in S : quantity[x] \in Nat,
         NEW t \in Nat \ {0}, t = Total(quantity, S),
         NEW f \in Nat,
         NEW floor, \A x \in S : floor[x] = (f * quantity[x]) \div t
  PROVE  Total(floor, S) \in Nat /\ Total(floor, S) <= f
PROOF
  <1> DEFINE G == {U \in SUBSET S : /\ Total(floor, U) \in Nat /\ Total(quantity, U) \in Nat
                                    /\ t * Total(floor, U) <= f * Total(quantity, U)}
  <1>1. \A x \in S : /\ floor[x] \in Nat /\ floor[x] \in Int /\ quantity[x] \in Int
                     /\ t * floor[x] <= f * quantity[x]
    <2> TAKE x \in S
    <2>1. f * quantity[x] \in Nat
      OBVIOUS
    <2> QED BY <2>1, DivBounds
  <1>2. {} \in G
    BY TotalEmpty
  <1>3. ASSUME NEW U \in SUBSET S, NEW x \in S, U \in G, x \notin U
        PROVE  U \cup {x} \in G
    <2>1. /\ Total(floor, U \cup {x}) = floor[x] + Total(floor, U)
          /\ Total(quantity, U \cup {x}) = quantity[x] + Total(quantity, U)
      <3>1. x \in S \ U
        BY <1>3
      <3> HIDE DEF G
      <3> QED BY <1>1, <3>1, TotalAdd
    <2>2. PICK a, b, c, d \in Nat : /\ a = floor[x] /\ b = Total(floor, U)
                                    /\ c = quantity[x] /\ d = Total(quantity, U)
      BY <1>1, <1>3
    <2>3. t * a <= f * c /\ t * b <= f * d
      BY <1>1, <1>3, <2>2
    <2>4. t * (a + b) <= f * (c + d)
      BY <2>3
    <2>5. a + b \in Nat /\ c + d \in Nat
      OBVIOUS
    <2> QED BY <2>1, <2>2, <2>4, <2>5
  <1>4. S \in G
    <2> HIDE DEF G
    <2> QED BY <1>2, <1>3, InductFinite
  <1>5. PICK b \in Nat : b = Total(floor, S) /\ t * b <= f * t
    BY <1>4
  <1>6. b <= f
    BY <1>5
  <1> QED BY <1>5, <1>6
=============================================================================
