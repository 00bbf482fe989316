---------------------------- MODULE AmountsProofs -----------------------------
(***************************************************************************)
(* Facts about totals (module Amounts): a total is a natural number, it    *)
(* changes by what one summand changes by, and it is monotone.             *)
(***************************************************************************)
EXTENDS Amounts, FiniteSetTheorems, TLAPS

\* The units of a function with natural values, element by element.
LEMMA UnitsMember ==
    ASSUME NEW S, NEW f \in [S -> Nat], NEW p
    PROVE  p \in Units(f) <=> \E x \in S : \E k \in 1 .. f[x] : p = <<x, k>>
<1> DEFINE Column(x) == {x} \X (1 .. f[x])
<1>1. DOMAIN f = S
  OBVIOUS
<1>2. p \in Units(f) <=> \E x \in S : p \in Column(x)
  BY <1>1 DEF Units
<1>3. ASSUME NEW x \in S
      PROVE  p \in Column(x) <=> \E k \in 1 .. f[x] : p = <<x, k>>
  OBVIOUS
<1> HIDE DEF Column
<1> QED BY <1>2, <1>3

\* Finitely many summands have finitely many units.
LEMMA UnitsFinite ==
    ASSUME NEW S, IsFiniteSet(S), NEW f \in [S -> Nat]
    PROVE  IsFiniteSet(Units(f))
<1> DEFINE Column(x) == {x} \X (1 .. f[x])
           Columns == {Column(x) : x \in S}
           g == [x \in S |-> Column(x)]
<1>1. g \in Surjection(S, Columns)
  BY DEF Surjection
<1>2. IsFiniteSet(Columns)
  <2> HIDE DEF g, Columns
  <2> QED BY <1>1, FS_Surjection
<1>3. \A T \in Columns : IsFiniteSet(T)
  <2> SUFFICES ASSUME NEW x \in S PROVE IsFiniteSet(Column(x))
    OBVIOUS
  <2>1. IsFiniteSet({x})
    BY FS_Singleton
  <2>2. IsFiniteSet(1 .. f[x])
    BY FS_Interval
  <2> QED BY <2>1, <2>2, FS_Product
<1>4. Units(f) = UNION Columns
  BY DEF Units
<1> HIDE DEF Columns
<1> QED BY <1>2, <1>3, <1>4, FS_UNION

\* A total is a natural number.
LEMMA TotalNat ==
    ASSUME NEW S, IsFiniteSet(S), NEW f \in [S -> Nat]
    PROVE  Total(f) \in Nat
BY UnitsFinite, FS_CardinalityType DEF Total

\* A larger function has the larger total.
LEMMA TotalMonotone ==
    ASSUME NEW S, IsFiniteSet(S), NEW f \in [S -> Nat], NEW g \in [S -> Nat],
           \A x \in S : f[x] <= g[x]
    PROVE  Total(f) <= Total(g)
<1>1. Units(f) \subseteq Units(g)
  <2> SUFFICES ASSUME NEW x \in S, NEW k \in 1 .. f[x] PROVE <<x, k>> \in Units(g)
    BY UnitsMember
  <2>1. k \in 1 .. g[x]
    OBVIOUS
  <2> QED BY <2>1, UnitsMember
<1>2. IsFiniteSet(Units(g))
  BY UnitsFinite
<1> QED BY <1>1, <1>2, FS_Subset DEF Total

\* Nothing adds up to nothing.
LEMMA TotalZero ==
    ASSUME NEW S, NEW f \in [S -> Nat], \A x \in S : f[x] = 0
    PROVE  Total(f) = 0
<1>1. Units(f) = {}
  <2> SUFFICES ASSUME NEW p \in Units(f) PROVE FALSE
    OBVIOUS
  <2>1. PICK x \in S : \E k \in 1 .. f[x] : p = <<x, k>>
    BY UnitsMember
  <2> QED BY <2>1
<1> QED BY <1>1, FS_EmptySet DEF Total

UnitsBut(f, r) == {p \in Units(f) : p[1] # r}

\* The units of every summand but one, and those of that one.
LEMMA TotalSplit ==
    ASSUME NEW S, IsFiniteSet(S), NEW f \in [S -> Nat], NEW r \in S
    PROVE  /\ IsFiniteSet(UnitsBut(f, r))
           /\ Total(f) = Cardinality(UnitsBut(f, r)) + f[r]
<1> DEFINE Rest == {p \in Units(f) : p[1] # r}
           Column == {r} \X (1 .. f[r])
<1>1. IsFiniteSet(Rest)
  BY UnitsFinite, FS_Subset
<1>2. IsFiniteSet(Column) /\ Cardinality(Column) = f[r]
  <2>1. IsFiniteSet({r}) /\ Cardinality({r}) = 1
    BY FS_Singleton
  <2>2. f[r] \in Nat
    OBVIOUS
  <2>3. IsFiniteSet(1 .. f[r]) /\ Cardinality(1 .. f[r]) = f[r]
    <3>1. IsFiniteSet(1 .. f[r])
          /\ Cardinality(1 .. f[r]) = IF 1 > f[r] THEN 0 ELSE f[r] - 1 + 1
      BY <2>2, FS_Interval
    <3> QED BY <2>2, <3>1
  <2>4. IsFiniteSet(Column) /\ Cardinality(Column) = Cardinality({r}) * Cardinality(1 .. f[r])
    BY <2>1, <2>3, FS_Product
  <2> QED BY <2>1, <2>2, <2>3, <2>4
<1>3. Units(f) = Rest \cup Column
  <2>1. ASSUME NEW p \in Units(f), p \notin Rest PROVE p \in Column
    <3>1. PICK x \in S : \E k \in 1 .. f[x] : p = <<x, k>>
      BY UnitsMember
    <3> QED BY <2>1, <3>1
  <2>2. ASSUME NEW p \in Column PROVE p \in Units(f)
    <3>1. PICK k \in 1 .. f[r] : p = <<r, k>>
      OBVIOUS
    <3> QED BY <3>1, UnitsMember
  <2> QED BY <2>1, <2>2
<1>4. Rest \cap Column = {}
  OBVIOUS
<1>5. Cardinality(Rest) \in Nat
  BY <1>1, FS_CardinalityType
<1>6. Cardinality(Rest \cup Column) =
        Cardinality(Rest) + Cardinality(Column) - Cardinality(Rest \cap Column)
  <2> HIDE DEF Rest, Column
  <2> QED BY <1>1, <1>2, FS_Union
<1>7. Cardinality(Rest \cap Column) = 0
  BY <1>4, FS_EmptySet
<1>8. Rest = UnitsBut(f, r)
  BY DEF UnitsBut
<1>9. Total(f) = Cardinality(Rest \cup Column)
  BY <1>3 DEF Total
<1> HIDE DEF Rest, Column
<1> QED BY <1>1, <1>2, <1>5, <1>6, <1>7, <1>8, <1>9

\* Changing one summand changes the total by as much.
LEMMA TotalUpdate ==
    ASSUME NEW S, IsFiniteSet(S), NEW f \in [S -> Nat], NEW g \in [S -> Nat],
           NEW r \in S, \A x \in S \ {r} : g[x] = f[x]
    PROVE  Total(g) = Total(f) - f[r] + g[r]
<1>1. UnitsBut(f, r) = UnitsBut(g, r)
  <2>1. ASSUME NEW p \in UnitsBut(f, r) PROVE p \in UnitsBut(g, r)
    <3>1. PICK x \in S : \E k \in 1 .. f[x] : p = <<x, k>>
      BY UnitsMember DEF UnitsBut
    <3> QED BY <3>1, UnitsMember DEF UnitsBut
  <2>2. ASSUME NEW p \in UnitsBut(g, r) PROVE p \in UnitsBut(f, r)
    <3>1. PICK x \in S : \E k \in 1 .. g[x] : p = <<x, k>>
      BY UnitsMember DEF UnitsBut
    <3> QED BY <3>1, UnitsMember DEF UnitsBut
  <2> QED BY <2>1, <2>2
<1>2. Total(f) = Cardinality(UnitsBut(f, r)) + f[r] /\ IsFiniteSet(UnitsBut(f, r))
  BY TotalSplit
<1>3. Total(g) = Cardinality(UnitsBut(g, r)) + g[r]
  BY TotalSplit
<1>4. Cardinality(UnitsBut(f, r)) \in Nat
  BY <1>2, FS_CardinalityType
<1> QED BY <1>1, <1>2, <1>3, <1>4

\* Two functions that no element has a share of both of add up.
LEMMA TotalDisjoint ==
    ASSUME NEW S, IsFiniteSet(S), NEW f \in [S -> Nat], NEW g \in [S -> Nat],
           NEW h \in [S -> Nat],
           \A x \in S : (f[x] = 0 /\ h[x] = g[x]) \/ (g[x] = 0 /\ h[x] = f[x])
    PROVE  Total(h) = Total(f) + Total(g)
<1>1. IsFiniteSet(Units(f)) /\ IsFiniteSet(Units(g))
  BY UnitsFinite
<1>2. Units(h) = Units(f) \cup Units(g)
  <2>1. ASSUME NEW p \in Units(h) PROVE p \in Units(f) \cup Units(g)
    <3>1. PICK x \in S : \E k \in 1 .. h[x] : p = <<x, k>>
      BY UnitsMember
    <3>2. (\E k \in 1 .. f[x] : p = <<x, k>>) \/ (\E k \in 1 .. g[x] : p = <<x, k>>)
      BY <3>1
    <3> QED BY <3>2, UnitsMember
  <2>2. ASSUME NEW x \in S, NEW k \in 1 .. f[x] PROVE <<x, k>> \in Units(h)
    <3>1. k \in 1 .. h[x]
      OBVIOUS
    <3> QED BY <3>1, UnitsMember
  <2>3. ASSUME NEW x \in S, NEW k \in 1 .. g[x] PROVE <<x, k>> \in Units(h)
    <3>1. k \in 1 .. h[x]
      OBVIOUS
    <3> QED BY <3>1, UnitsMember
  <2>4. Units(f) \subseteq Units(h)
    BY <2>2, UnitsMember
  <2>5. Units(g) \subseteq Units(h)
    BY <2>3, UnitsMember
  <2> QED BY <2>1, <2>4, <2>5
<1>3. Units(f) \cap Units(g) = {}
  <2> SUFFICES ASSUME NEW p \in Units(f), p \in Units(g) PROVE FALSE
    OBVIOUS
  <2>1. PICK x \in S : \E k \in 1 .. f[x] : p = <<x, k>>
    BY UnitsMember
  <2>2. PICK y \in S : \E k \in 1 .. g[y] : p = <<y, k>>
    BY UnitsMember
  <2>3. x = y
    BY <2>1, <2>2
  <2> QED BY <2>1, <2>2, <2>3
<1>4. Cardinality(Units(f) \cup Units(g))
         = Cardinality(Units(f)) + Cardinality(Units(g)) - Cardinality(Units(f) \cap Units(g))
  BY <1>1, FS_Union
<1>5. Cardinality(Units(f) \cap Units(g)) = 0
  BY <1>3, FS_EmptySet
<1>6. Cardinality(Units(f)) \in Nat /\ Cardinality(Units(g)) \in Nat
  BY <1>1, FS_CardinalityType
<1> QED BY <1>2, <1>4, <1>5, <1>6 DEF Total

===============================================================================
