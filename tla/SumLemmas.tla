------------------------------ MODULE SumLemmas ------------------------------
(***************************************************************************)
(* What SumFunctionOnSet computes: the sum over a finite set is zero when  *)
(* the set is empty, and grows by an element's value with the element.     *)
(*                                                                         *)
(* SumFunctionOnSet takes the elements in the order of CHOOSE, by a        *)
(* function defined recursively on the subsets of the set.  Induction is   *)
(* on the number of elements: of the sets that fail a claim take a         *)
(* smallest one, and show that it does not.                                *)
(***************************************************************************)
EXTENDS Integers, Functions, FiniteSetTheorems, WellFoundedInduction, TLAPS

Smallest(F, T) == T \in F /\ \A U \in F : Cardinality(T) <= Cardinality(U)

LEMMA SmallestExists ==
  ASSUME NEW F, F # {}, \A T \in F : IsFiniteSet(T)
  PROVE  \E T \in F : Smallest(F, T)
  <1> DEFINE S == {Cardinality(T) : T \in F}
  <1>1. S \subseteq Nat /\ S # {}
    BY FS_CardinalityType
  <1>2. PICK n \in S : \A m \in S : ~ (<<m, n>> \in OpToRel(<, Nat))
    BY <1>1, NatLessThanWellFounded, WFMin
  <1>3. \A m \in S : n <= m
    <2>1. \A m \in S : m \in Nat /\ n \in Nat /\ ~ (m < n)
      BY <1>1, <1>2 DEF OpToRel
    <2>2. QED
      BY <2>1
  <1>4. PICK T \in F : n = Cardinality(T)
    BY <1>2
  <1>5. QED
    BY <1>3, <1>4 DEF Smallest

-----------------------------------------------------------------------------
(* The function of SumFunctionOnSet(val, A), on the subsets of A.           *)

First(s) == CHOOSE x \in s : TRUE

Partial(val, g, A) ==
  g = [s \in SUBSET A |-> IF s = {} THEN 0 ELSE val[First(s)] + g[s \ {First(s)}]]

LEMMA FirstIn ==
  ASSUME NEW s, s # {}
  PROVE  First(s) \in s
  BY DEF First

LEMMA PartialAt ==
  ASSUME NEW val, NEW g, NEW A, Partial(val, g, A), NEW s \in SUBSET A
  PROVE  g[s] = IF s = {} THEN 0 ELSE val[First(s)] + g[s \ {First(s)}]
  <1> DEFINE h == [t \in SUBSET A |->
                     IF t = {} THEN 0 ELSE val[First(t)] + g[t \ {First(t)}]]
  <1>1. g = h
    BY DEF Partial
  <1>2. h[s] = IF s = {} THEN 0 ELSE val[First(s)] + g[s \ {First(s)}]
    OBVIOUS
  <1> HIDE DEF h
  <1>3. g[s] = h[s]
    BY <1>1
  <1>4. QED
    BY <1>2, <1>3

LEMMA Fewer ==
  ASSUME NEW s, IsFiniteSet(s), s # {}
  PROVE  /\ IsFiniteSet(s \ {First(s)})
         /\ Cardinality(s \ {First(s)}) < Cardinality(s)
  BY FirstIn, FS_RemoveElement, FS_CardinalityType

LEMMA PartialsAgree ==
  ASSUME NEW val, NEW g, NEW h, NEW A, NEW B, IsFiniteSet(A),
         Partial(val, g, A), Partial(val, h, B), NEW s, s \subseteq A, s \subseteq B
  PROVE  g[s] = h[s]
  <1> DEFINE F == {t \in SUBSET A : t \subseteq B /\ g[t] # h[t]}
  <1> SUFFICES ASSUME F # {}
               PROVE  FALSE
    OBVIOUS
  <1>1. \A t \in F : IsFiniteSet(t)
    BY FS_Subset
  <1>2. PICK t \in F : Smallest(F, t)
    BY <1>1, SmallestExists
  <1>3. t \in SUBSET A /\ t \in SUBSET B /\ g[t] # h[t]
    OBVIOUS
  <1>4. t # {}
    BY <1>3, PartialAt
  <1> DEFINE u == t \ {First(t)}
  <1>5. g[t] = val[First(t)] + g[u] /\ h[t] = val[First(t)] + h[u]
    BY <1>3, <1>4, PartialAt
  <1>6. u \in F
    BY <1>3, <1>5
  <1>7. Cardinality(u) < Cardinality(t) /\ Cardinality(u) \in Nat /\ Cardinality(t) \in Nat
    BY <1>1, <1>4, <1>6, Fewer, FS_CardinalityType
  <1>8. QED
    BY <1>2, <1>6, <1>7 DEF Smallest

PartialOn(val, g, A) == g \in [SUBSET A -> Int] /\ Partial(val, g, A)

Rest(s) == s \ {First(s)}

ThePartial(val, A) == CHOOSE g : PartialOn(val, g, A)

LEMMA PartialExists ==
  ASSUME NEW val, NEW S, IsFiniteSet(S), \A x \in S : val[x] \in Int
  PROVE  \E g : PartialOn(val, g, S)
  <1> DEFINE F == {t \in SUBSET S : ~\E g : PartialOn(val, g, t)}
  <1> SUFFICES ASSUME F # {}
               PROVE  FALSE
    OBVIOUS
  <1>1. \A t \in SUBSET S : IsFiniteSet(t)
    BY FS_Subset
  <1>2. PICK t \in F : Smallest(F, t)
    BY <1>1, SmallestExists
  <1>3. t \in SUBSET S /\ IsFiniteSet(t) /\ ~\E g : PartialOn(val, g, t)
    BY <1>1
  <1> DEFINE G(u) == ThePartial(val, u)
             g == [s \in SUBSET t |-> IF s = {} THEN 0
                     ELSE val[First(s)] + ThePartial(val, Rest(s))[Rest(s)]]
  <1>4. ASSUME NEW s \in SUBSET t, s # {}
        PROVE  PartialOn(val, G(Rest(s)), Rest(s)) /\ Rest(s) \in SUBSET t
    <2>1. Rest(s) \in SUBSET S /\ Rest(s) \in SUBSET t /\ IsFiniteSet(s)
      BY <1>1, <1>3 DEF Rest
    <2>2. Cardinality(Rest(s)) < Cardinality(t)
      <3>1. Cardinality(Rest(s)) < Cardinality(s) /\ Cardinality(s) <= Cardinality(t)
        BY <1>3, <1>4, <2>1, Fewer, FS_Subset DEF Rest
      <3>2. /\ Cardinality(Rest(s)) \in Nat /\ Cardinality(s) \in Nat
            /\ Cardinality(t) \in Nat
        BY <1>1, <1>3, <2>1, FS_CardinalityType
      <3>3. QED
        BY <3>1, <3>2
    <2>3. Rest(s) \notin F
      <3>1. Cardinality(Rest(s)) \in Nat /\ Cardinality(t) \in Nat
        BY <1>1, <1>3, <2>1, FS_CardinalityType
      <3>2. QED
        BY <1>2, <2>2, <3>1 DEF Smallest
    <2>4. \E h : PartialOn(val, h, Rest(s))
      BY <2>1, <2>3
    <2>5. QED
      BY <2>1, <2>4 DEF ThePartial
  <1>5. ASSUME NEW s \in SUBSET t, s # {}
        PROVE  G(Rest(s))[Rest(s)] \in Int /\ val[First(s)] \in Int
    <2>1. PartialOn(val, G(Rest(s)), Rest(s))
      BY <1>4, <1>5
    <2>2. First(s) \in S
      BY <1>3, <1>5, FirstIn
    <2>3. QED
      BY <2>1, <2>2 DEF PartialOn
  <1>6. g \in [SUBSET t -> Int]
    BY <1>5
  <1>7. ASSUME NEW s \in SUBSET t, s # {}, NEW u, u = Rest(s)
        PROVE  G(u)[u] = g[u]
    <2>1. u \in SUBSET t /\ PartialOn(val, G(u), u)
      BY <1>4, <1>7
    <2>2. G(u)[u] = IF u = {} THEN 0 ELSE val[First(u)] + G(u)[Rest(u)]
      BY <2>1, PartialAt DEF PartialOn, Rest
    <2>3. g[u] = IF u = {} THEN 0 ELSE val[First(u)] + G(Rest(u))[Rest(u)]
      BY <2>1
    <2>4. CASE u = {}
      BY <2>2, <2>3, <2>4
    <2>5. CASE u # {}
      <3>1. PartialOn(val, G(Rest(u)), Rest(u))
        BY <1>4, <2>1, <2>5
      <3>2. IsFiniteSet(u) /\ Rest(u) \subseteq u
        BY <1>1, <1>3, <2>1 DEF Rest
      <3>3. Partial(val, G(u), u) /\ Partial(val, G(Rest(u)), Rest(u))
        BY <2>1, <3>1 DEF PartialOn
      <3> HIDE DEF G
      <3>4. G(u)[Rest(u)] = G(Rest(u))[Rest(u)]
        BY <3>2, <3>3, PartialsAgree
      <3>5. QED
        BY <2>2, <2>3, <2>5, <3>4
    <2>6. QED
      BY <2>4, <2>5
  <1>8. Partial(val, g, t)
    <2>1. \A s \in SUBSET t :
            g[s] = IF s = {} THEN 0 ELSE val[First(s)] + g[s \ {First(s)}]
      BY <1>7 DEF Rest
    <2> HIDE DEF g
    <2>2. QED
      BY <1>6, <2>1 DEF Partial
  <1>9. QED
    BY <1>3, <1>6, <1>8 DEF PartialOn

LEMMA SumIs ==
  ASSUME NEW val, NEW A, NEW h, Partial(val, h, A)
  PROVE  \E g : Partial(val, g, A) /\ SumFunctionOnSet(val, A) = g[A]
  <1> DEFINE eq(g) == g = [s \in SUBSET A |-> IF s = {} THEN 0
                ELSE val[CHOOSE x \in s : TRUE] + g[s \ {CHOOSE x \in s : TRUE}]]
  <1>1. \A g : eq(g) <=> Partial(val, g, A)
    BY DEF Partial, First
  <1>2. SumFunctionOnSet(val, A) = (CHOOSE g : eq(g))[A]
    BY DEF SumFunctionOnSet, FoldFunctionOnSet, MapThenFoldSet
  <1>3. eq(h)
    BY <1>1
  <1>4. eq(CHOOSE g : eq(g))
    <2> HIDE DEF eq
    <2>1. QED
      BY <1>3
  <1>5. QED
    BY <1>1, <1>2, <1>4

-----------------------------------------------------------------------------
(* The sum of an empty set, and of one with an element more.                *)

Summable(val, S) == IsFiniteSet(S) /\ \A x \in S : val[x] \in Int

LEMMA SummableSubset ==
  ASSUME NEW val, NEW S, Summable(val, S), NEW T, T \subseteq S
  PROVE  Summable(val, T)
  BY FS_Subset DEF Summable

LEMMA SumPartial ==
  ASSUME NEW val, NEW S, Summable(val, S)
  PROVE  \E g : PartialOn(val, g, S) /\ SumFunctionOnSet(val, S) = g[S]
  <1>1. PICK h : PartialOn(val, h, S)
    BY PartialExists DEF Summable
  <1>2. PICK g : Partial(val, g, S) /\ SumFunctionOnSet(val, S) = g[S]
    BY <1>1, SumIs DEF PartialOn
  <1>3. g[S] = h[S]
    BY <1>1, <1>2, PartialsAgree DEF PartialOn, Summable
  <1>4. QED
    BY <1>1, <1>2, <1>3

LEMMA SumInt ==
  ASSUME NEW val, NEW S, Summable(val, S)
  PROVE  SumFunctionOnSet(val, S) \in Int
  <1>1. PICK g : PartialOn(val, g, S) /\ SumFunctionOnSet(val, S) = g[S]
    BY SumPartial
  <1>2. QED
    BY <1>1, S \in SUBSET S DEF PartialOn

LEMMA SumEmpty ==
  ASSUME NEW val
  PROVE  SumFunctionOnSet(val, {}) = 0
  <1>1. Summable(val, {})
    BY FS_EmptySet DEF Summable
  <1>2. PICK g : PartialOn(val, g, {}) /\ SumFunctionOnSet(val, {}) = g[{}]
    BY <1>1, SumPartial
  <1>3. g[{}] = 0
    BY <1>2, PartialAt DEF PartialOn
  <1>4. QED
    BY <1>2, <1>3

LEMMA SumTakesFirst ==
  ASSUME NEW val, NEW S, Summable(val, S), S # {}
  PROVE  SumFunctionOnSet(val, S)
           = val[First(S)] + SumFunctionOnSet(val, S \ {First(S)})
  <1> DEFINE T == S \ {First(S)}
  <1>1. PICK g : PartialOn(val, g, S) /\ SumFunctionOnSet(val, S) = g[S]
    BY SumPartial
  <1>2. Summable(val, T) /\ T \subseteq S
    BY SummableSubset
  <1>3. PICK h : PartialOn(val, h, T) /\ SumFunctionOnSet(val, T) = h[T]
    BY <1>2, SumPartial
  <1>4. g[S] = val[First(S)] + g[T]
    BY <1>1, PartialAt DEF PartialOn
  <1>5. g[T] = h[T]
    BY <1>1, <1>2, <1>3, PartialsAgree DEF PartialOn, Summable
  <1>6. QED
    BY <1>1, <1>3, <1>4, <1>5

(* An element more adds its value, wherever CHOOSE takes it.                *)
LEMMA SumAdds ==
  ASSUME NEW val, NEW S, NEW x, x \notin S, Summable(val, S \cup {x})
  PROVE  SumFunctionOnSet(val, S \cup {x}) = SumFunctionOnSet(val, S) + val[x]
  <1> DEFINE Sum(T) == SumFunctionOnSet(val, T)
             F == {T \in SUBSET (S \cup {x}) :
                     \E y \in (S \cup {x}) \ T : Sum(T \cup {y}) # Sum(T) + val[y]}
  <1> SUFFICES ASSUME F # {}
               PROVE  FALSE
    OBVIOUS
  <1>1. \A T \in SUBSET (S \cup {x}) : Summable(val, T) /\ IsFiniteSet(T) /\ Sum(T) \in Int
    BY SummableSubset, SumInt DEF Summable
  <1>2. PICK T \in F : Smallest(F, T)
    BY <1>1, SmallestExists
  <1>3. PICK y \in (S \cup {x}) \ T : Sum(T \cup {y}) # Sum(T) + val[y]
    OBVIOUS
  <1> DEFINE U == T \cup {y}
             c == First(U)
             V == U \ {c}
  <1>4. /\ U \in SUBSET (S \cup {x}) /\ T \in SUBSET (S \cup {x}) /\ U # {}
        /\ V \in SUBSET (S \cup {x}) /\ y \notin T
    OBVIOUS
  <1>5. c \in U
    BY <1>4, FirstIn
  <1>6. Sum(U) = val[c] + Sum(V)
    BY <1>1, <1>4, SumTakesFirst
  <1>7. val[y] \in Int /\ val[c] \in Int
    <2>1. y \in S \cup {x} /\ c \in S \cup {x}
      BY <1>4, <1>5
    <2>2. QED
      BY <2>1 DEF Summable
  <1> HIDE DEF c, Sum
  <1>8. c # y
    <2> SUFFICES ASSUME c = y
                 PROVE  FALSE
      OBVIOUS
    <2>1. V = T
      BY <1>4, U \ {y} = T
    <2>2. Sum(U) = val[y] + Sum(T)
      BY <1>6, <2>1
    <2>3. Sum(T) \in Int
      BY <1>1, <1>4
    <2>4. QED
      BY <1>3, <1>7, <2>2, <2>3
  <1> DEFINE W == T \ {c}
  <1>9. c \in T /\ V = W \cup {y} /\ T = W \cup {c} /\ y \notin W /\ c \notin W
    BY <1>5, <1>8
  <1>10. /\ W \in SUBSET (S \cup {x}) /\ Cardinality(W) < Cardinality(T)
         /\ Cardinality(W) \in Nat /\ Cardinality(T) \in Nat
    <2>1. W \in SUBSET (S \cup {x}) /\ IsFiniteSet(T)
      BY <1>1, <1>4
    <2>2. QED
      BY <1>9, <2>1, FS_RemoveElement, FS_CardinalityType
  <1>11. W \notin F
    BY <1>2, <1>10 DEF Smallest
  <1>12. Sum(W \cup {y}) = Sum(W) + val[y] /\ Sum(W \cup {c}) = Sum(W) + val[c]
    BY <1>4, <1>9, <1>10, <1>11
  <1>13. Sum(U) = val[c] + (Sum(W) + val[y]) /\ Sum(T) = Sum(W) + val[c]
    BY <1>6, <1>9, <1>12
  <1>14. Sum(W) \in Int
    BY <1>1, <1>10
  <1>15. QED
    BY <1>3, <1>7, <1>13, <1>14

(* An element less takes its value away. *)
LEMMA SumTakesAway ==
  ASSUME NEW val, NEW S, NEW x \in S, Summable(val, S)
  PROVE  SumFunctionOnSet(val, S \ {x}) = SumFunctionOnSet(val, S) - val[x]
  <1> DEFINE T == S \ {x}
  <1>1. S = T \cup {x} /\ x \notin T
    OBVIOUS
  <1>2. SumFunctionOnSet(val, S) = SumFunctionOnSet(val, T) + val[x]
    BY <1>1, SumAdds
  <1>3. SumFunctionOnSet(val, T) \in Int /\ val[x] \in Int
    BY SumInt, SummableSubset DEF Summable
  <1>4. QED
    BY <1>2, <1>3

(* The sum depends on the values of the elements only.                      *)
LEMMA SumSame ==
  ASSUME NEW val, NEW new, NEW S, Summable(val, S), \A x \in S : new[x] = val[x]
  PROVE  SumFunctionOnSet(new, S) = SumFunctionOnSet(val, S)
  <1> DEFINE F == {T \in SUBSET S : SumFunctionOnSet(new, T) # SumFunctionOnSet(val, T)}
  <1> SUFFICES ASSUME F # {}
               PROVE  FALSE
    OBVIOUS
  <1>1. \A T \in SUBSET S : Summable(val, T) /\ Summable(new, T) /\ IsFiniteSet(T)
    BY SummableSubset DEF Summable
  <1>2. PICK T \in F : Smallest(F, T)
    BY <1>1, SmallestExists
  <1>3. T # {}
    BY SumEmpty
  <1> DEFINE U == T \ {First(T)}
  <1>4. /\ SumFunctionOnSet(new, T) = new[First(T)] + SumFunctionOnSet(new, U)
        /\ SumFunctionOnSet(val, T) = val[First(T)] + SumFunctionOnSet(val, U)
    BY <1>1, <1>3, SumTakesFirst
  <1>5. new[First(T)] = val[First(T)]
    BY <1>3, FirstIn
  <1>6. U \in F
    BY <1>4, <1>5
  <1>7. Cardinality(U) < Cardinality(T) /\ Cardinality(U) \in Nat /\ Cardinality(T) \in Nat
    BY <1>1, <1>3, <1>6, Fewer, FS_CardinalityType
  <1>8. QED
    BY <1>2, <1>6, <1>7 DEF Smallest

(* A larger set of values that are not negative has no smaller sum.         *)
LEMMA SumGrows ==
  ASSUME NEW val, NEW S, Summable(val, S), \A x \in S : val[x] >= 0, NEW T, T \subseteq S
  PROVE  SumFunctionOnSet(val, T) <= SumFunctionOnSet(val, S)
  <1> DEFINE Sum(U) == SumFunctionOnSet(val, U)
             F == {U \in SUBSET S : T \subseteq U /\ ~(Sum(T) <= Sum(U))}
  <1> SUFFICES ASSUME F # {}
               PROVE  FALSE
    BY S \in SUBSET S
  <1>1. \A U \in SUBSET S : Summable(val, U) /\ IsFiniteSet(U) /\ Sum(U) \in Int
    BY SummableSubset, SumInt DEF Summable
  <1>2. PICK U : Smallest(F, U)
    BY <1>1, SmallestExists
  <1>3. U \in SUBSET S /\ T \subseteq U /\ ~(Sum(T) <= Sum(U))
    BY <1>2 DEF Smallest
  <1>4. U # T
    BY <1>1, <1>3
  <1>5. PICK x \in U : x \notin T
    BY <1>3, <1>4
  <1>6. Sum(U \ {x}) = Sum(U) - val[x] /\ val[x] \in Int /\ val[x] >= 0
    BY <1>1, <1>3, SumTakesAway DEF Summable
  <1>7. U \ {x} \in F
    BY <1>1, <1>3, <1>5, <1>6
  <1>8. Cardinality(U \ {x}) = Cardinality(U) - 1 /\ Cardinality(U) \in Nat
    BY <1>1, <1>3, FS_RemoveElement, FS_CardinalityType
  <1>9. QED
    BY <1>2, <1>7, <1>8 DEF Smallest
=============================================================================
