----------------------------- MODULE SumTheorems -----------------------------
(***************************************************************************)
(* Sums over finite sets, as the models write them: MapThenSumSet of the   *)
(* values f[t] of a function f, for the members t of a set.  The library's *)
(* induction theorems take an operator; what is needed here is proved from *)
(* the theorem that strict inclusion of finite sets is well-founded: a     *)
(* nonempty collection of finite sets has a least counterexample.          *)
(***************************************************************************)
EXTENDS Integers, FiniteSets, FiniteSetsExt, FiniteSetTheorems, WellFoundedInduction, TLAPS

\* The sum of f over S.
SumOf(f, S) == MapThenSumSet(LAMBDA t : f[t], S)

\* The element the fold takes next.
Chosen(s) == CHOOSE x \in s : TRUE

\* g tabulates the sums of f over the subsets of T, in the fold's order.
Tabulates(g, f, T) ==
  g = [s \in SUBSET T |-> IF s = {} THEN 0 ELSE f[Chosen(s)] + g[s \ {Chosen(s)}]]

\* A nonempty collection of subsets of a finite set has a member without a strict
\* subset in the collection.
LEMMA LeastSubset ==
  ASSUME NEW S, IsFiniteSet(S), NEW C \in SUBSET SUBSET S, C # {}
  PROVE  \E T \in C : IsFiniteSet(T) /\ \A U \in C : U \subseteq T => U = T
<1>1. FiniteSubsetsOf(S) = SUBSET S
  BY FS_FiniteSubsetsOfFinite
<1>2. PICK T \in C : \A U \in C : ~(<<U, T>> \in StrictSubsetOrdering(S))
  BY <1>1, FS_StrictSubsetOrderingWellFounded, WFMin
<1>3. ASSUME NEW U \in C, U \subseteq T, U # T
      PROVE  <<U, T>> \in StrictSubsetOrdering(S)
  BY <1>3 DEF StrictSubsetOrdering
<1>4. IsFiniteSet(T)
  <2>1. T \in SUBSET S
    OBVIOUS
  <2>2. QED
    BY <2>1, FS_Subset
<1>5. \A U \in C : U \subseteq T => U = T
  BY <1>2, <1>3
<1>6. QED
  BY <1>4, <1>5

LEMMA ChosenIn ==
  ASSUME NEW s, s # {}
  PROVE  Chosen(s) \in s
  BY DEF Chosen

\* Tables agree wherever both are defined.
LEMMA TablesAgree ==
  ASSUME NEW f, NEW S, IsFiniteSet(S), NEW T \in SUBSET S, NEW U \in SUBSET S,
         NEW g, Tabulates(g, f, T), NEW h, Tabulates(h, f, U)
  PROVE  \A s \in SUBSET (T \cap U) : g[s] = h[s]
<1> DEFINE C == {s \in SUBSET (T \cap U) : g[s] # h[s]}
<1> SUFFICES ASSUME C # {} PROVE FALSE
  OBVIOUS
<1>1. C \in SUBSET SUBSET S /\ \A s \in C : s \in SUBSET (T \cap U) /\ g[s] # h[s]
  OBVIOUS
<1> HIDE DEF C
<1>2. PICK s \in C : \A v \in C : v \subseteq s => v = s
  <2>1. \E s \in C : IsFiniteSet(s) /\ \A v \in C : v \subseteq s => v = s
    BY <1>1, LeastSubset
  <2>2. QED
    BY <2>1
<1>3. s \subseteq T /\ s \subseteq U /\ g[s] # h[s]
  BY <1>1
<1>4. g[s] = (IF s = {} THEN 0 ELSE f[Chosen(s)] + g[s \ {Chosen(s)}])
  BY <1>3 DEF Tabulates
<1>5. h[s] = (IF s = {} THEN 0 ELSE f[Chosen(s)] + h[s \ {Chosen(s)}])
  BY <1>3 DEF Tabulates
<1>6. s # {}
  BY <1>3, <1>4, <1>5
<1>7. s \ {Chosen(s)} \notin C
  BY <1>2, <1>6, ChosenIn
<1>8. g[s \ {Chosen(s)}] = h[s \ {Chosen(s)}]
  BY <1>3, <1>7 DEF C
<1>9. QED
  BY <1>3, <1>4, <1>5, <1>6, <1>8

\* There is a table for every subset of a finite set.
LEMMA TableExists ==
  ASSUME NEW f, NEW S, IsFiniteSet(S)
  PROVE  \A T \in SUBSET S : \E g : Tabulates(g, f, T)
<1> DEFINE C == {T \in SUBSET S : ~\E g : Tabulates(g, f, T)}
<1> SUFFICES ASSUME C # {} PROVE FALSE
  OBVIOUS
<1>0. C \in SUBSET SUBSET S
  OBVIOUS
<1> HIDE DEF C
<1>1. PICK T \in C : \A U \in C : U \subseteq T => U = T
  <2>1. \E s \in C : IsFiniteSet(s) /\ \A v \in C : v \subseteq s => v = s
    BY <1>0, LeastSubset
  <2>2. QED
    BY <2>1
<1>2. T \subseteq S /\ ~\E g : Tabulates(g, f, T)
  BY DEF C
<1>3. \A U \in SUBSET T : U # T => \E g : Tabulates(g, f, U)
  BY <1>1, <1>2 DEF C
<1> DEFINE tab(U) == CHOOSE g : Tabulates(g, f, U)
           sum(s) == tab(s)[s]
           g0 == [s \in SUBSET T |-> IF s = {} THEN 0
                                     ELSE f[Chosen(s)] + sum(s \ {Chosen(s)})]
<1>4. ASSUME NEW U \in SUBSET T, U # T
      PROVE  Tabulates(tab(U), f, U)
  BY <1>3, <1>4
<1>5. ASSUME NEW s \in SUBSET T, s # {}
      PROVE  /\ Chosen(s) \in s
             /\ s \ {Chosen(s)} \in SUBSET T /\ s \ {Chosen(s)} # T
  BY <1>5, ChosenIn
<1>6. ASSUME NEW U \in SUBSET T, U # T
      PROVE  sum(U) = g0[U]
  <2>1. Tabulates(tab(U), f, U)
    BY <1>4, <1>6
  <2> HIDE DEF tab
  <2>2. tab(U)[U] = (IF U = {} THEN 0 ELSE f[Chosen(U)] + tab(U)[U \ {Chosen(U)}])
    BY <2>1 DEF Tabulates
  <2>3. ASSUME U # {}
        PROVE  tab(U)[U \ {Chosen(U)}] = tab(U \ {Chosen(U)})[U \ {Chosen(U)}]
    <3> DEFINE V == U \ {Chosen(U)}
    <3>1. V \in SUBSET T /\ V # T /\ V \subseteq U
      BY <1>5, <2>3
    <3>2. Tabulates(tab(V), f, V)
      BY <1>4, <3>1
    <3> HIDE DEF V
    <3>3. \A s \in SUBSET (U \cap V) : tab(U)[s] = tab(V)[s]
      BY <1>2, <2>1, <3>1, <3>2, TablesAgree
    <3>4. tab(U)[V] = tab(V)[V]
      BY <3>1, <3>3
    <3>5. QED
      BY <3>4 DEF V
  <2>4. g0[U] = (IF U = {} THEN 0 ELSE f[Chosen(U)] + sum(U \ {Chosen(U)}))
    OBVIOUS
  <2> HIDE DEF g0
  <2>5. QED
    BY <2>2, <2>3, <2>4
<1> HIDE DEF tab, sum
<1>7. g0 = [s \in SUBSET T |-> IF s = {} THEN 0 ELSE f[Chosen(s)] + g0[s \ {Chosen(s)}]]
  <2>1. \A s \in SUBSET T : s # {} => sum(s \ {Chosen(s)}) = g0[s \ {Chosen(s)}]
    BY <1>5, <1>6
  <2> DEFINE h0 == [s \in SUBSET T |-> IF s = {} THEN 0 ELSE f[Chosen(s)] + g0[s \ {Chosen(s)}]]
  <2>2. \A s \in SUBSET T : g0[s] = h0[s]
    BY <2>1
  <2>3. QED
    BY <2>2
<1>8. Tabulates(g0, f, T)
  BY <1>7 DEF Tabulates
<1>9. QED
  BY <1>2, <1>8

\* The sum over a finite set is what any table says.
LEMMA SumIsTabulated ==
  ASSUME NEW f, NEW S, IsFiniteSet(S)
  PROVE  \E g : Tabulates(g, f, S) /\ SumOf(f, S) = g[S]
<1> DEFINE it == CHOOSE g : Tabulates(g, f, S)
<1>1. \E g : Tabulates(g, f, S)
  BY TableExists
<1>2. Tabulates(it, f, S)
  BY <1>1
<1>3. SumOf(f, S) = it[S]
  BY DEF SumOf, MapThenSumSet, MapThenFoldSet, Tabulates, Chosen
<1>4. QED
  BY <1>2, <1>3

\* One table says the sums over all the subsets of a finite set.
LEMMA SumTable ==
  ASSUME NEW f, NEW S, IsFiniteSet(S)
  PROVE  \E g : Tabulates(g, f, S) /\ \A T \in SUBSET S : SumOf(f, T) = g[T]
<1>1. PICK g : Tabulates(g, f, S)
  BY TableExists
<1>2. ASSUME NEW T \in SUBSET S
      PROVE  SumOf(f, T) = g[T]
  <2>1. IsFiniteSet(T)
    BY FS_Subset
  <2>2. PICK h : Tabulates(h, f, T) /\ SumOf(f, T) = h[T]
    BY <2>1, SumIsTabulated
  <2>3. \A s \in SUBSET (S \cap T) : g[s] = h[s]
    BY <1>1, <2>2, TablesAgree
  <2>4. QED
    BY <2>2, <2>3
<1>3. QED
  BY <1>1, <1>2

LEMMA SumEmpty ==
  ASSUME NEW f
  PROVE  SumOf(f, {}) = 0
<1>1. PICK g : Tabulates(g, f, {}) /\ SumOf(f, {}) = g[{}]
  BY FS_EmptySet, SumIsTabulated
<1>2. QED
  BY <1>1 DEF Tabulates

\* The sum of integers is an integer.
LEMMA SumType ==
  ASSUME NEW S, IsFiniteSet(S), NEW f, \A t \in S : f[t] \in Int
  PROVE  \A T \in SUBSET S : SumOf(f, T) \in Int
<1>1. PICK g : Tabulates(g, f, S) /\ \A T \in SUBSET S : SumOf(f, T) = g[T]
  BY SumTable
<1> DEFINE C == {T \in SUBSET S : g[T] \notin Int}
<1> SUFFICES ASSUME C # {} PROVE FALSE
  BY <1>1
<1>2. C \in SUBSET SUBSET S /\ \A T \in C : T \subseteq S /\ g[T] \notin Int
  OBVIOUS
<1>3. \A T \in SUBSET S : T \notin C => g[T] \in Int
  OBVIOUS
<1> HIDE DEF C
<1>4. PICK T \in C : \A U \in C : U \subseteq T => U = T
  <2>1. \E T \in C : IsFiniteSet(T) /\ \A U \in C : U \subseteq T => U = T
    BY <1>2, LeastSubset
  <2>2. QED
    BY <2>1
<1>5. g[T] = (IF T = {} THEN 0 ELSE f[Chosen(T)] + g[T \ {Chosen(T)}])
  BY <1>1, <1>2 DEF Tabulates
<1>6. T # {}
  BY <1>2, <1>5
<1>7. Chosen(T) \in T
  BY <1>6, ChosenIn
<1>8. g[T \ {Chosen(T)}] \in Int
  BY <1>2, <1>3, <1>4, <1>7
<1>9. f[Chosen(T)] \in Int
  BY <1>2, <1>7
<1>10. QED
  BY <1>2, <1>5, <1>6, <1>8, <1>9

\* The order in which the fold takes the elements does not matter.
LEMMA SumRemove ==
  ASSUME NEW S, IsFiniteSet(S), NEW f, \A t \in S : f[t] \in Int
  PROVE  \A T \in SUBSET S : \A x \in T : SumOf(f, T) = f[x] + SumOf(f, T \ {x})
<1>1. PICK g : Tabulates(g, f, S) /\ \A T \in SUBSET S : SumOf(f, T) = g[T]
  BY SumTable
<1>2. \A T \in SUBSET S : g[T] \in Int
  BY <1>1, SumType
<1> DEFINE C == {T \in SUBSET S : \E x \in T : g[T] # f[x] + g[T \ {x}]}
<1> SUFFICES ASSUME C # {} PROVE FALSE
  <2>1. \A T \in SUBSET S : \A x \in T : g[T] = f[x] + g[T \ {x}]
    OBVIOUS
  <2>2. \A T \in SUBSET S : \A x \in T : T \ {x} \in SUBSET S
    OBVIOUS
  <2> HIDE DEF C
  <2>3. QED
    BY <1>1, <2>1, <2>2
<1>3. C \in SUBSET SUBSET S
  OBVIOUS
<1>4. \A T \in C : T \subseteq S /\ \E x \in T : g[T] # f[x] + g[T \ {x}]
  OBVIOUS
<1>5. \A T \in SUBSET S : T \notin C => \A x \in T : g[T] = f[x] + g[T \ {x}]
  OBVIOUS
<1> HIDE DEF C
<1>6. PICK T \in C : \A U \in C : U \subseteq T => U = T
  <2>1. \E T \in C : IsFiniteSet(T) /\ \A U \in C : U \subseteq T => U = T
    BY <1>3, LeastSubset
  <2>2. QED
    BY <2>1
<1>7. PICK x \in T : g[T] # f[x] + g[T \ {x}]
  BY <1>4
<1> DEFINE y == Chosen(T)
<1>8. T \subseteq S /\ y \in T
  BY <1>4, <1>7, ChosenIn
<1>9. g[T] = f[y] + g[T \ {y}]
  BY <1>1, <1>7, <1>8 DEF Tabulates
<1> HIDE DEF y
<1>10. x # y
  BY <1>7, <1>9
<1>11. \A z \in T : T \ {z} \notin C
  BY <1>6
<1>12. g[T \ {y}] = f[x] + g[(T \ {y}) \ {x}]
  BY <1>5, <1>8, <1>10, <1>11
<1>13. g[T \ {x}] = f[y] + g[(T \ {x}) \ {y}]
  BY <1>5, <1>8, <1>10, <1>11
<1>14. (T \ {y}) \ {x} = (T \ {x}) \ {y}
  OBVIOUS
<1>15. f[x] \in Int /\ f[y] \in Int /\ g[(T \ {x}) \ {y}] \in Int
  <2>1. (T \ {x}) \ {y} \in SUBSET S
    BY <1>8
  <2>2. QED
    BY <1>2, <1>8, <2>1
<1> DEFINE rest == g[(T \ {x}) \ {y}]
<1>16. g[T] = f[y] + (f[x] + rest) /\ g[T \ {x}] = f[y] + rest
  BY <1>9, <1>12, <1>13, <1>14
<1>17. rest \in Int
  BY <1>15
<1> HIDE DEF rest
<1>18. f[y] + (f[x] + rest) = f[x] + (f[y] + rest)
  BY <1>15, <1>17
<1>19. QED
  BY <1>7, <1>16, <1>18

\* A sum of natural numbers does not grow when elements are left out.
LEMMA SumMonotone ==
  ASSUME NEW S, IsFiniteSet(S), NEW f, \A t \in S : f[t] \in Nat, NEW T \in SUBSET S
  PROVE  SumOf(f, T) <= SumOf(f, S) /\ SumOf(f, T) \in Nat
<1>a. \A t \in S : f[t] \in Int
  OBVIOUS
<1>0. \A U \in SUBSET S : SumOf(f, U) \in Int
  BY <1>a, SumType
<1>1. ASSUME NEW U \in SUBSET S, NEW x \in U
      PROVE  SumOf(f, U) = f[x] + SumOf(f, U \ {x})
  BY <1>a, SumRemove
<1>2. ASSUME NEW B \in SUBSET S
      PROVE  \A U \in SUBSET S : B \subseteq U => SumOf(f, B) <= SumOf(f, U)
  <2> DEFINE C == {U \in SUBSET S : B \subseteq U /\ ~(SumOf(f, B) <= SumOf(f, U))}
  <2> SUFFICES ASSUME C # {} PROVE FALSE
    OBVIOUS
  <2>1. C \in SUBSET SUBSET S
    OBVIOUS
  <2>2. \A U \in C : U \subseteq S /\ B \subseteq U /\ ~(SumOf(f, B) <= SumOf(f, U))
    OBVIOUS
  <2>3. \A U \in SUBSET S : U \notin C /\ B \subseteq U => SumOf(f, B) <= SumOf(f, U)
    OBVIOUS
  <2> HIDE DEF C
  <2>4. PICK U \in C : \A V \in C : V \subseteq U => V = U
    <3>1. \E V \in C : IsFiniteSet(V) /\ \A W \in C : W \subseteq V => W = V
      BY <2>1, LeastSubset
    <3>2. QED
      BY <3>1
  <2>5. B # U
    BY <1>0, <2>2
  <2>6. PICK x \in U : x \notin B
    BY <2>2, <2>5
  <2>7. SumOf(f, B) <= SumOf(f, U \ {x})
    BY <2>2, <2>3, <2>4, <2>6
  <2>8. SumOf(f, U) = f[x] + SumOf(f, U \ {x}) /\ f[x] \in Nat
    BY <1>1, <2>2, <2>6
  <2>9. SumOf(f, B) \in Int /\ SumOf(f, U) \in Int /\ SumOf(f, U \ {x}) \in Int
    BY <1>0, <2>2
  <2>10. QED
    BY <2>2, <2>7, <2>8, <2>9
<1>3. SumOf(f, {}) <= SumOf(f, T)
  BY <1>2
<1>4. QED
  BY <1>0, <1>2, <1>3, SumEmpty

\* Adding an element adds its value.
LEMMA SumAdd ==
  ASSUME NEW S, IsFiniteSet(S), NEW f, \A t \in S : f[t] \in Int,
         NEW T \in SUBSET S, NEW x \in S, x \notin T
  PROVE  SumOf(f, T \cup {x}) = SumOf(f, T) + f[x]
<1>1. SumOf(f, T \cup {x}) = f[x] + SumOf(f, (T \cup {x}) \ {x})
  BY SumRemove
<1>2. (T \cup {x}) \ {x} = T
  OBVIOUS
<1>3. SumOf(f, T) \in Int
  BY SumType
<1>4. f[x] \in Int
  OBVIOUS
<1>5. f[x] + SumOf(f, T) = SumOf(f, T) + f[x]
  BY <1>3, <1>4
<1>6. QED
  BY <1>1, <1>2, <1>5

\* Functions that agree on a set have the same sum over it.
LEMMA SumSame ==
  ASSUME NEW S, IsFiniteSet(S), NEW f, NEW h, \A t \in S : f[t] = h[t]
  PROVE  SumOf(f, S) = SumOf(h, S)
<1>1. PICK g : Tabulates(g, f, S) /\ SumOf(f, S) = g[S]
  BY SumIsTabulated
<1>2. \A s \in SUBSET S : s # {} => f[Chosen(s)] = h[Chosen(s)]
  BY ChosenIn
<1>3. [s \in SUBSET S |-> IF s = {} THEN 0 ELSE f[Chosen(s)] + g[s \ {Chosen(s)}]]
        = [s \in SUBSET S |-> IF s = {} THEN 0 ELSE h[Chosen(s)] + g[s \ {Chosen(s)}]]
  BY <1>2
<1>4. Tabulates(g, h, S)
  BY <1>1, <1>3 DEF Tabulates
<1>5. PICK k : Tabulates(k, h, S) /\ SumOf(h, S) = k[S]
  BY SumIsTabulated
<1>6. \A s \in SUBSET (S \cap S) : g[s] = k[s]
  BY <1>4, <1>5, TablesAgree
<1>7. QED
  BY <1>1, <1>5, <1>6

\* Smaller values have a smaller sum.
LEMMA SumPointwise ==
  ASSUME NEW S, IsFiniteSet(S), NEW f, NEW h,
         \A t \in S : f[t] \in Int /\ h[t] \in Int /\ f[t] <= h[t]
  PROVE  SumOf(f, S) <= SumOf(h, S)
<1>1. ASSUME NEW U \in SUBSET S
      PROVE  SumOf(f, U) \in Int /\ SumOf(h, U) \in Int
  BY SumType
<1>2. ASSUME NEW U \in SUBSET S, NEW x \in U
      PROVE  /\ SumOf(f, U) = f[x] + SumOf(f, U \ {x})
             /\ SumOf(h, U) = h[x] + SumOf(h, U \ {x})
  BY SumRemove
<1> DEFINE C == {U \in SUBSET S : ~(SumOf(f, U) <= SumOf(h, U))}
<1> SUFFICES ASSUME C # {} PROVE FALSE
  OBVIOUS
<1>3. /\ C \in SUBSET SUBSET S
      /\ \A U \in C : U \subseteq S /\ ~(SumOf(f, U) <= SumOf(h, U))
      /\ \A U \in SUBSET S : U \notin C => SumOf(f, U) <= SumOf(h, U)
  OBVIOUS
<1> HIDE DEF C
<1>4. PICK T \in C : \A U \in C : U \subseteq T => U = T
  <2>1. \E T \in C : IsFiniteSet(T) /\ \A U \in C : U \subseteq T => U = T
    BY <1>3, LeastSubset
  <2>2. QED
    BY <2>1
<1>5. T # {}
  BY <1>3, SumEmpty
<1>6. PICK x \in T : TRUE
  BY <1>5
<1>7. T \in SUBSET S /\ T \ {x} \in SUBSET S /\ SumOf(f, T \ {x}) <= SumOf(h, T \ {x})
  BY <1>3, <1>4, <1>6
<1>8. f[x] \in Int /\ h[x] \in Int /\ f[x] <= h[x]
  BY <1>3, <1>6
<1>9. SumOf(f, T) <= SumOf(h, T)
  BY <1>1, <1>2, <1>7, <1>8
<1>10. QED
  BY <1>3, <1>9

\* A function of two values sums up to the lower one for everybody, and the difference for
\* those who have the higher one.
LEMMA SumTwoLevels ==
  ASSUME NEW S, IsFiniteSet(S), NEW T \in SUBSET S, NEW low \in Int, NEW more \in Int, NEW f,
         \A t \in S : f[t] = IF t \in T THEN low + more ELSE low
  PROVE  SumOf(f, S) = Cardinality(S) * low + Cardinality(T) * more
<1> DEFINE Right(U) == SumOf(f, U) = Cardinality(U) * low + Cardinality(U \cap T) * more
           C == {U \in SUBSET S : ~Right(U)}
<1>1. \A t \in S : f[t] \in Int
  OBVIOUS
<1>2. /\ C \in SUBSET SUBSET S
      /\ \A U \in C : U \subseteq S /\ ~Right(U)
      /\ \A U \in SUBSET S : U \notin C => Right(U)
  OBVIOUS
<1> HIDE DEF C
<1>3. C = {}
  <2> SUFFICES ASSUME C # {} PROVE FALSE
    OBVIOUS
  <2>1. PICK U \in C : \A V \in C : V \subseteq U => V = U
    <3>1. \E U \in C : IsFiniteSet(U) /\ \A V \in C : V \subseteq U => V = U
      BY <1>2, LeastSubset
    <3> QED BY <3>1
  <2>2. U \in SUBSET S /\ ~Right(U)
    BY <1>2
  <2>3. U # {}
    <3>1. {} \cap T = {} /\ Cardinality({}) = 0
      BY FS_EmptySet
    <3>2. Right({})
      BY <3>1, SumEmpty
    <3> QED BY <2>2, <3>2
  <2>4. PICK x \in U : TRUE
    BY <2>3
  <2> DEFINE V == U \ {x}
  <2>5. V \in SUBSET S /\ V # U /\ V \subseteq U /\ x \in S /\ x \notin V /\ U = V \cup {x}
    BY <2>2, <2>4
  <2>6. Right(V)
    BY <1>2, <2>1, <2>5
  <2> HIDE DEF V
  <2>7. SumOf(f, U) = SumOf(f, V) + f[x]
    BY <1>1, <2>5, SumAdd
  <2>8. IsFiniteSet(V) /\ Cardinality(V) \in Nat /\ Cardinality(U) = Cardinality(V) + 1
    <3>1. IsFiniteSet(V)
      BY <2>5, FS_Subset
    <3>2. Cardinality(V \cup {x}) = Cardinality(V) + 1
      BY <2>5, <3>1, FS_AddElement
    <3> QED BY <2>5, <3>1, <3>2, FS_CardinalityType
  <2>9. /\ Cardinality(V \cap T) \in Nat
        /\ Cardinality(U \cap T) =
             IF x \in T THEN Cardinality(V \cap T) + 1 ELSE Cardinality(V \cap T)
    <3>1. IsFiniteSet(V \cap T)
      BY <2>8, FS_Subset, V \cap T \in SUBSET V
    <3>2. /\ x \notin T => U \cap T = V \cap T
          /\ x \in T => U \cap T = (V \cap T) \cup {x}
          /\ x \notin V \cap T
      BY <2>5
    <3>3. Cardinality((V \cap T) \cup {x}) = Cardinality(V \cap T) + 1
      BY <3>1, <3>2, FS_AddElement
    <3> QED BY <3>1, <3>2, <3>3, FS_CardinalityType
  <2>10. PICK n \in Nat, m \in Nat : n = Cardinality(V) /\ m = Cardinality(V \cap T)
    BY <2>8, <2>9
  <2>11. SumOf(f, U) = n * low + m * more + f[x]
    BY <2>6, <2>7, <2>10
  <2>12. CASE x \in T
    <3>1. f[x] = low + more /\ Cardinality(U) = n + 1 /\ Cardinality(U \cap T) = m + 1
      BY <2>5, <2>8, <2>9, <2>10, <2>12
    <3>2. n * low + m * more + (low + more) = (n + 1) * low + (m + 1) * more
      OBVIOUS
    <3> QED BY <2>2, <2>11, <3>1, <3>2
  <2>13. CASE x \notin T
    <3>1. f[x] = low /\ Cardinality(U) = n + 1 /\ Cardinality(U \cap T) = m
      BY <2>5, <2>8, <2>9, <2>10, <2>13
    <3>2. n * low + m * more + low = (n + 1) * low + m * more
      OBVIOUS
    <3> QED BY <2>2, <2>11, <3>1, <3>2
  <2> QED BY <2>12, <2>13
<1>4. Right(S)
  BY <1>2, <1>3, S \in SUBSET S
<1>5. S \cap T = T
  OBVIOUS
<1> QED BY <1>4, <1>5
=============================================================================
