------------------------------ MODULE SetSums ------------------------------
(***************************************************************************)
(* The sum of a function over a finite set, for any function and any set:  *)
(* what the models compute with MapThenSumSet.  The induction is over the  *)
(* subsets of a finite set, on the well-founded order of strict inclusion. *)
(***************************************************************************)
EXTENDS FiniteSetsExt, Integers, FiniteSetTheorems, WellFoundedInduction, TLAPS

SumOf(f, S) == MapThenSumSet(LAMBDA x : f[x], S)

\* The element the fold takes next.
Picked(s) == CHOOSE x \in s : TRUE

\* The function the fold defines by recursion, on the subsets of S.
IsTable(t, f, S) ==
  t = [s \in SUBSET S |-> IF s = {} THEN 0 ELSE f[Picked(s)] + t[s \ {Picked(s)}]]
Table(f, S) == CHOOSE t : IsTable(t, f, S)

-----------------------------------------------------------------------------
(* Induction over finite sets, with the good sets as a set.                *)

\* A set of subsets of a finite set that holds each one whose proper subsets it
\* holds has all of them.
LEMMA GoodSets ==
  ASSUME NEW S, IsFiniteSet(S), NEW G,
         \A T \in SUBSET S : (\A U \in SUBSET T : U # T => U \in G) => T \in G
  PROVE  \A T \in SUBSET S : T \in G
<1> DEFINE bad == {T \in SUBSET S : T \notin G}
<1> SUFFICES ASSUME bad # {} PROVE FALSE
  OBVIOUS
<1>1. IsWellFoundedOn(StrictSubsetOrdering(S), SUBSET S)
  <2>1. FiniteSubsetsOf(S) = SUBSET S
    BY FS_FiniteSubsetsOfFinite
  <2>2. IsWellFoundedOn(StrictSubsetOrdering(S), FiniteSubsetsOf(S))
    BY FS_StrictSubsetOrderingWellFounded, Zenon
  <2>. QED BY <2>1, <2>2, Zenon
<1>2. PICK T \in bad : \A U \in bad : <<U, T>> \notin StrictSubsetOrdering(S)
  <2>1. bad \subseteq SUBSET S
    OBVIOUS
  <2> HIDE DEF bad
  <2>. QED BY <1>1, <2>1, WFMin
<1>3. ASSUME NEW U \in SUBSET T, U # T PROVE U \in G
  <2>1. <<U, T>> \in StrictSubsetOrdering(S)
    BY <1>3 DEF StrictSubsetOrdering
  <2>. QED BY <1>2, <2>1
<1>. QED BY <1>3

-----------------------------------------------------------------------------
(* The recursion has a solution.                                           *)

\* The table of a set and that of one of its subsets agree on that one.
LEMMA SubTable ==
  ASSUME NEW f, NEW S, NEW R, R \subseteq S, IsFiniteSet(R),
         IsTable(Table(f, S), f, S), IsTable(Table(f, R), f, R)
  PROVE  Table(f, S)[R] = Table(f, R)[R]
<1> DEFINE t == Table(f, S)
           u == Table(f, R)
           G == {T \in SUBSET R : t[T] = u[T]}
<1>1. IsTable(t, f, S) /\ IsTable(u, f, R)
  OBVIOUS
<1> HIDE DEF t, u
<1>2. ASSUME NEW T \in SUBSET R, \A U \in SUBSET T : U # T => U \in G
      PROVE  T \in G
  <2>1. CASE T = {}
    BY <1>1, <2>1 DEF IsTable
  <2>2. CASE T # {}
    <3>1. Picked(T) \in T
      BY <2>2 DEF Picked
    <3>2. T \ {Picked(T)} \in G
      BY <1>2, <3>1
    <3>3. t[T] = f[Picked(T)] + t[T \ {Picked(T)}]
      BY <1>1, <2>2 DEF IsTable
    <3>4. u[T] = f[Picked(T)] + u[T \ {Picked(T)}]
      BY <1>1, <2>2 DEF IsTable
    <3>. QED BY <3>2, <3>3, <3>4
  <2>. QED BY <2>1, <2>2
<1>3. \A T \in SUBSET R : T \in G
  <2> HIDE DEF G
  <2>. QED BY <1>2, GoodSets
<1>. QED BY <1>3 DEF t, u

\* A sum is what its table says of the whole set.
LEMMA SumIsTable == ASSUME NEW f, NEW S PROVE SumOf(f, S) = Table(f, S)[S]
  BY DEF SumOf, MapThenSumSet, MapThenFoldSet, Table, IsTable, Picked

\* Every finite set has a table.
LEMMA TableExists ==
  ASSUME NEW f, NEW S, IsFiniteSet(S)
  PROVE  IsTable(Table(f, S), f, S)
<1> DEFINE G == {T \in SUBSET S : IsTable(Table(f, T), f, T)}
<1>1. ASSUME NEW T \in SUBSET S, \A U \in SUBSET T : U # T => U \in G
      PROVE  T \in G
  <2> DEFINE t == [s \in SUBSET T |->
                     IF s = {} THEN 0 ELSE f[Picked(s)] + SumOf(f, s \ {Picked(s)})]
  <2>1. ASSUME NEW U \in SUBSET T, U # T PROVE t[U] = SumOf(f, U)
    <3>1. IsTable(Table(f, U), f, U) /\ SumOf(f, U) = Table(f, U)[U]
      BY <1>1, <2>1, SumIsTable
    <3>2. CASE U = {}
      BY <3>1, <3>2 DEF IsTable
    <3>3. CASE U # {}
      <4> DEFINE V == U \ {Picked(U)}
      <4>1. Picked(U) \in U
        BY <3>3 DEF Picked
      <4>2. V \in SUBSET U /\ V \in SUBSET T /\ V # T
        BY <4>1
      <4>3. IsTable(Table(f, V), f, V) /\ SumOf(f, V) = Table(f, V)[V]
        BY <1>1, <4>2, SumIsTable
      <4>4. IsFiniteSet(V)
        BY <4>2, FS_Subset
      <4>5. Table(f, U)[V] = Table(f, V)[V]
        <5> HIDE DEF V
        <5>. QED BY <3>1, <4>2, <4>3, <4>4, SubTable
      <4>6. Table(f, U)[U] = f[Picked(U)] + Table(f, U)[V]
        BY <3>1, <3>3 DEF IsTable
      <4>7. t[U] = f[Picked(U)] + SumOf(f, V)
        BY <3>3
      <4>. QED BY <3>1, <4>3, <4>5, <4>6, <4>7
    <3>. QED BY <3>2, <3>3
  <2>2. ASSUME NEW s \in SUBSET T, s # {} PROVE t[s] = f[Picked(s)] + t[s \ {Picked(s)}]
    <3>1. Picked(s) \in s
      BY <2>2 DEF Picked
    <3>2. s \ {Picked(s)} \in SUBSET T /\ s \ {Picked(s)} # T
      BY <3>1
    <3>3. t[s \ {Picked(s)}] = SumOf(f, s \ {Picked(s)})
      BY <2>1, <3>2
    <3>4. t[s] = f[Picked(s)] + SumOf(f, s \ {Picked(s)})
      BY <2>2
    <3>. QED BY <3>3, <3>4
  <2>3. t[{}] = 0 /\ t = [s \in SUBSET T |-> t[s]]
    OBVIOUS
  <2>4. IsTable(t, f, T)
    <3> HIDE DEF t
    <3>1. \A s \in SUBSET T :
            t[s] = IF s = {} THEN 0 ELSE f[Picked(s)] + t[s \ {Picked(s)}]
      BY <2>2, <2>3
    <3>. QED BY <2>3, <3>1 DEF IsTable
  <2>5. IsTable(Table(f, T), f, T)
    <3> HIDE DEF t
    <3>. QED BY <2>4 DEF Table
  <2>. QED BY <2>5
<1>2. \A T \in SUBSET S : T \in G
  <2> HIDE DEF G
  <2>. QED BY <1>1, GoodSets
<1>. QED BY <1>2

\* A sum over no elements is 0; otherwise the picked element counts, and the rest.
LEMMA SumRec ==
  ASSUME NEW f, NEW S, IsFiniteSet(S)
  PROVE  SumOf(f, S) = IF S = {} THEN 0
                       ELSE f[Picked(S)] + SumOf(f, S \ {Picked(S)})
<1> DEFINE V == S \ {Picked(S)}
<1>1. IsFiniteSet(V) /\ V \in SUBSET S
  BY FS_Subset
<1>2. IsTable(Table(f, S), f, S) /\ IsTable(Table(f, V), f, V)
  BY <1>1, TableExists
<1>3. SumOf(f, S) = Table(f, S)[S] /\ SumOf(f, V) = Table(f, V)[V]
  BY SumIsTable
<1>4. Table(f, S)[V] = Table(f, V)[V]
  <2> HIDE DEF V
  <2>. QED BY <1>1, <1>2, SubTable
<1>5. Table(f, S)[S] = IF S = {} THEN 0 ELSE f[Picked(S)] + Table(f, S)[V]
  BY <1>2 DEF IsTable
<1>. QED BY <1>3, <1>4, <1>5

-----------------------------------------------------------------------------
(* Sums of natural numbers.                                                *)

\* A sum of natural numbers is one.
LEMMA SumNat ==
  ASSUME NEW f, NEW S, IsFiniteSet(S), \A x \in S : f[x] \in Nat
  PROVE  SumOf(f, S) \in Nat
<1> DEFINE G == {T \in SUBSET S : SumOf(f, T) \in Nat}
<1>1. ASSUME NEW T \in SUBSET S, \A U \in SUBSET T : U # T => U \in G
      PROVE  T \in G
  <2>1. SumOf(f, T) = IF T = {} THEN 0 ELSE f[Picked(T)] + SumOf(f, T \ {Picked(T)})
    BY FS_Subset, SumRec
  <2>2. CASE T = {}
    BY <2>1, <2>2
  <2>3. CASE T # {}
    <3>1. Picked(T) \in T
      BY <2>3 DEF Picked
    <3>. QED BY <1>1, <2>1, <2>3, <3>1
  <2>. QED BY <2>2, <2>3
<1>2. \A T \in SUBSET S : T \in G
  <2> HIDE DEF G
  <2>. QED BY <1>1, GoodSets
<1>. QED BY <1>2

\* Any element can be counted first.
LEMMA SumRemove ==
  ASSUME NEW f, NEW S, IsFiniteSet(S), \A x \in S : f[x] \in Nat, NEW z \in S
  PROVE  SumOf(f, S) = f[z] + SumOf(f, S \ {z})
<1> DEFINE G == {T \in SUBSET S : \A y \in T : SumOf(f, T) = f[y] + SumOf(f, T \ {y})}
<1>1. ASSUME NEW T \in SUBSET S, \A U \in SUBSET T : U # T => U \in G
      PROVE  T \in G
  <2> SUFFICES ASSUME NEW y \in T PROVE SumOf(f, T) = f[y] + SumOf(f, T \ {y})
    OBVIOUS
  <2> DEFINE p == Picked(T)
  <2>1. p \in T
    BY DEF Picked
  <2> HIDE DEF p
  <2>2. SumOf(f, T) = f[p] + SumOf(f, T \ {p})
    BY FS_Subset, SumRec DEF p
  <2>3. CASE y # p
    <3>1. T \ {p} \in G /\ T \ {y} \in G
      BY <1>1, <2>1
    <3>2. SumOf(f, T \ {p}) = f[y] + SumOf(f, (T \ {p}) \ {y})
      BY <2>3, <3>1
    <3>3. SumOf(f, T \ {y}) = f[p] + SumOf(f, (T \ {y}) \ {p})
      BY <2>1, <2>3, <3>1
    <3>4. (T \ {p}) \ {y} = (T \ {y}) \ {p}
      OBVIOUS
    <3> DEFINE rest == SumOf(f, (T \ {y}) \ {p})
    <3>5. rest \in Nat
      BY FS_Subset, SumNat
    <3>6. f[p] \in Nat /\ f[y] \in Nat
      BY <2>1
    <3>7. SumOf(f, T) = f[p] + (f[y] + rest) /\ SumOf(f, T \ {y}) = f[p] + rest
      BY <2>2, <3>2, <3>3, <3>4
    <3> HIDE DEF rest
    <3>. QED BY <3>5, <3>6, <3>7
  <2>. QED BY <2>2, <2>3
<1>2. \A T \in SUBSET S : T \in G
  <2> HIDE DEF G
  <2>. QED BY <1>1, GoodSets
<1>. QED BY <1>2

\* A new element adds what it counts for; the empty sum is 0.
LEMMA SumAdd ==
  ASSUME NEW f, NEW S, IsFiniteSet(S), NEW x, x \notin S,
         \A y \in S \cup {x} : f[y] \in Nat
  PROVE  SumOf(f, S \cup {x}) = f[x] + SumOf(f, S)
<1>1. IsFiniteSet(S \cup {x}) /\ (S \cup {x}) \ {x} = S
  BY FS_AddElement
<1>. QED BY <1>1, SumRemove

\* Leaving elements out does not raise a sum.
LEMMA SumSubset ==
  ASSUME NEW f, NEW S, IsFiniteSet(S), \A x \in S : f[x] \in Nat, NEW T \in SUBSET S
  PROVE  SumOf(f, T) <= SumOf(f, S)
<1> DEFINE G == {U \in SUBSET S : SumOf(f, T) <= SumOf(f, T \cup U)}
<1>1. ASSUME NEW U \in SUBSET S, \A W \in SUBSET U : W # U => W \in G
      PROVE  U \in G
  <2>1. CASE U \subseteq T
    <3>1. T \cup U = T /\ SumOf(f, T) \in Nat
      BY <2>1, FS_Subset, SumNat
    <3>. QED BY <3>1
  <2>2. ASSUME NEW z \in U, z \notin T PROVE U \in G
    <3> DEFINE W == U \ {z}
    <3>1. W \in G
      BY <1>1
    <3>2. T \cup U = (T \cup W) \cup {z} /\ z \notin T \cup W /\ T \cup W \in SUBSET S
      BY <2>2
    <3>3. IsFiniteSet(T \cup W) /\ IsFiniteSet(T)
      BY <3>2, FS_Subset
    <3>4. SumOf(f, T \cup U) = f[z] + SumOf(f, T \cup W)
      <4> HIDE DEF W
      <4>. QED BY <3>2, <3>3, SumAdd
    <3>5. SumOf(f, T \cup W) \in Nat /\ SumOf(f, T) \in Nat /\ f[z] \in Nat
      BY <3>2, <3>3, SumNat
    <3>. QED BY <3>1, <3>4, <3>5
  <2>. QED BY <2>1, <2>2
<1>2. \A U \in SUBSET S : U \in G
  <2> HIDE DEF G
  <2>. QED BY <1>1, GoodSets
<1>3. T \cup S = S
  OBVIOUS
<1>. QED BY <1>2, <1>3
\* No smaller numbers make no smaller sum.
LEMMA SumGrows ==
  ASSUME NEW f, NEW g, NEW S, IsFiniteSet(S),
         \A x \in S : f[x] \in Nat /\ g[x] \in Nat /\ f[x] <= g[x]
  PROVE  SumOf(f, S) <= SumOf(g, S)
<1> DEFINE G == {T \in SUBSET S : SumOf(f, T) <= SumOf(g, T)}
<1>1. ASSUME NEW T \in SUBSET S, \A U \in SUBSET T : U # T => U \in G
      PROVE  T \in G
  <2>0. IsFiniteSet(T)
    BY FS_Subset
  <2>1. SumOf(f, T) = IF T = {} THEN 0 ELSE f[Picked(T)] + SumOf(f, T \ {Picked(T)})
    BY <2>0, SumRec
  <2>2. SumOf(g, T) = IF T = {} THEN 0 ELSE g[Picked(T)] + SumOf(g, T \ {Picked(T)})
    BY <2>0, SumRec
  <2>3. CASE T = {}
    BY <2>1, <2>2, <2>3
  <2>4. CASE T # {}
    <3> DEFINE p == Picked(T)
               V == T \ {p}
    <3>1. p \in T
      BY <2>4 DEF Picked
    <3>2. V \in SUBSET T /\ V # T /\ V \in SUBSET S
      BY <3>1
    <3>3. SumOf(f, V) <= SumOf(g, V)
      <4> HIDE DEF p, V
      <4>. QED BY <1>1, <3>2
    <3>4. IsFiniteSet(V)
      BY <3>2, FS_Subset
    <3>5. SumOf(f, V) \in Nat /\ SumOf(g, V) \in Nat
      <4> HIDE DEF p, V
      <4>. QED BY <3>2, <3>4, SumNat
    <3>6. f[p] \in Nat /\ g[p] \in Nat /\ f[p] <= g[p]
      BY <3>1
    <3>7. SumOf(f, T) = f[p] + SumOf(f, V) /\ SumOf(g, T) = g[p] + SumOf(g, V)
      BY <2>1, <2>2, <2>4
    <3> HIDE DEF p, V
    <3>8. SumOf(f, T) <= SumOf(g, T)
      BY <3>3, <3>5, <3>6, <3>7
    <3>. QED BY <3>8
  <2>. QED BY <2>3, <2>4
<1>2. \A T \in SUBSET S : T \in G
  <2> HIDE DEF G
  <2>. QED BY <1>1, GoodSets
<1>. QED BY <1>2

=============================================================================
