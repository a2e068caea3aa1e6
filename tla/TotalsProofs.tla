---------------------------- MODULE TotalsProofs ----------------------------
(* Facts about totals, cited by the proofs about the modules that take sums. *)
EXTENDS Totals, FiniteSetTheorems, TLAPS

\* The rows' units are a finite set whose elements name their row.
LEMMA UnitsFinite ==
  ASSUME NEW S, IsFiniteSet(S), NEW f \in [S -> Nat]
  PROVE  IsFiniteSet(UNION {Units(f, x) : x \in S})
<1>1. \A x \in S : IsFiniteSet(Units(f, x))
  <2> SUFFICES ASSUME NEW x \in S PROVE IsFiniteSet(Units(f, x))
    OBVIOUS
  <2>1. IsFiniteSet(1..f[x])
    <3>1. f[x] \in Int
      OBVIOUS
    <3> QED BY <3>1, FS_Interval
  <2>2. IsFiniteSet({x})
    BY FS_Singleton
  <2> QED BY <2>1, <2>2, FS_Product DEF Units
<1> DEFINE T == {Units(f, x) : x \in S}
           g == [x \in S |-> Units(f, x)]
<1>2. g \in Surjection(S, T)
  BY DEF Surjection
<1>3. IsFiniteSet(T)
  BY <1>2, FS_Surjection
<1>4. \A U \in T : IsFiniteSet(U)
  BY <1>1
<1> QED BY <1>3, <1>4, FS_UNION

\* A total of naturals is a natural.
LEMMA TotalType ==
  ASSUME NEW S, IsFiniteSet(S), NEW f \in [S -> Nat]
  PROVE  Total(f) \in Nat
<1>1. DOMAIN f = S
  OBVIOUS
<1> QED BY <1>1, UnitsFinite, FS_CardinalityType DEF Total

\* A column that is nowhere larger has no larger total.
LEMMA TotalMonotone ==
  ASSUME NEW S, IsFiniteSet(S), NEW f \in [S -> Nat], NEW g \in [S -> Nat],
         \A x \in S : f[x] <= g[x]
  PROVE  Total(f) <= Total(g)
<1> DEFINE F == UNION {Units(f, x) : x \in S}
           G == UNION {Units(g, x) : x \in S}
<1>1. \A x \in S : Units(f, x) \subseteq Units(g, x)
  <2> SUFFICES ASSUME NEW x \in S PROVE 1..f[x] \subseteq 1..g[x]
    BY DEF Units
  <2> QED OBVIOUS
<1>2. F \subseteq G
  BY <1>1
<1>3. IsFiniteSet(G)
  BY UnitsFinite
<1>4. Cardinality(F) <= Cardinality(G)
  BY <1>2, <1>3, FS_Subset
<1>5. Total(f) = Cardinality(F) /\ Total(g) = Cardinality(G)
  BY DEF Total
<1> QED BY <1>4, <1>5

\* The total is the value of one row plus the total of the others.
LEMMA TotalSplit ==
  ASSUME NEW S, IsFiniteSet(S), NEW x, x \notin S, NEW f \in [S \cup {x} -> Nat]
  PROVE  Total(f) = Total([y \in S |-> f[y]]) + f[x]
<1> DEFINE g == [y \in S |-> f[y]]
           G == UNION {Units(g, y) : y \in S}
           F == UNION {Units(f, y) : y \in S \cup {x}}
<1>1. g \in [S -> Nat] /\ f[x] \in Nat
  OBVIOUS
<1>2. \A y \in S : Units(g, y) = Units(f, y)
  BY DEF Units
<1>3. F = G \cup Units(f, x)
  BY <1>2
<1>4. G \cap Units(f, x) = {}
  BY DEF Units
<1>5. IsFiniteSet(G)
  BY <1>1, UnitsFinite, ZenonT(60)
<1>6. IsFiniteSet(Units(f, x)) /\ Cardinality(Units(f, x)) = f[x]
  <2>1. IsFiniteSet(1..f[x]) /\ Cardinality(1..f[x]) = f[x]
    <3>1. f[x] \in Int /\ 1 \in Int
      BY <1>1
    <3>2. IsFiniteSet(1..f[x])
          /\ Cardinality(1..f[x]) = IF 1 > f[x] THEN 0 ELSE f[x] - 1 + 1
      BY <3>1, FS_Interval
    <3> QED BY <3>2, <1>1
  <2>2. IsFiniteSet({x}) /\ Cardinality({x}) = 1
    BY FS_Singleton
  <2>3. /\ IsFiniteSet({x} \X (1..f[x]))
        /\ Cardinality({x} \X (1..f[x])) = Cardinality({x}) * Cardinality(1..f[x])
    BY <2>1, <2>2, FS_Product
  <2> QED BY <2>1, <2>2, <2>3, <1>1 DEF Units
<1>7. Cardinality(F) = Cardinality(G) + f[x] - Cardinality({})
  BY <1>3, <1>4, <1>5, <1>6, FS_Union
<1>8. Cardinality({}) = 0 /\ Cardinality(G) \in Nat
  BY <1>5, FS_EmptySet, FS_CardinalityType
<1>9. Total(f) = Cardinality(F) /\ Total(g) = Cardinality(G)
  BY DEF Total
<1> QED BY <1>1, <1>7, <1>8, <1>9

\* Changing the value of one row changes the total by the difference.
LEMMA TotalChange ==
  ASSUME NEW S, IsFiniteSet(S), NEW x \in S, NEW f \in [S -> Nat], NEW g \in [S -> Nat],
         \A y \in S \ {x} : f[y] = g[y]
  PROVE  Total(g) - g[x] = Total(f) - f[x]
<1> DEFINE T == S \ {x}
           rest == [y \in T |-> f[y]]
<1>1. IsFiniteSet(T) /\ x \notin T /\ S = T \cup {x}
  BY FS_RemoveElement
<1>2. Total(f) = Total([y \in T |-> f[y]]) + f[x]
  BY <1>1, TotalSplit
<1>3. Total(g) = Total([y \in T |-> g[y]]) + g[x]
  BY <1>1, TotalSplit
<1>4. [y \in T |-> g[y]] = rest
  OBVIOUS
<1>5. Total(rest) \in Nat
  BY <1>1, TotalType
<1> HIDE DEF rest
<1> QED BY <1>2, <1>3, <1>4, <1>5 DEF rest
=============================================================================
