-------------------------- MODULE PaperAccountProofs --------------------------
(***************************************************************************)
(* What the paper account promises, for any positions, payments, marks,    *)
(* clock and number of failures: funding is charged exactly once, a clean  *)
(* comparison means the cash is right, and a peak was really reached.      *)
(*                                                                         *)
(* Money here is sums: of the hours a position settled, of the entries of  *)
(* a ledger, of the positions of an account.  The first part proves what    *)
(* those sums obey, by the least counterexample; the second what booking   *)
(* does to a ledger; the third the invariants.                             *)
(***************************************************************************)
EXTENDS PaperAccount, FiniteSetTheorems, WellFoundedInduction, TLAPS

-----------------------------------------------------------------------------
(* Sums over finite sets. *)

(* A set of naturals that is not empty has a least element.                 *)
LEMMA Least ==
    ASSUME NEW I \in SUBSET Nat, I # {}
    PROVE  \E n \in I : \A m \in I : n <= m
<1>1. PICK n \in I : \A m \in I : ~(<<m, n>> \in OpToRel(<, Nat))
  BY NatLessThanWellFounded, WFMin, Zenon
<1>2. \A m \in I : ~(m < n)
  BY <1>1, Zenon DEF OpToRel
<1>3. \A m \in I : n <= m
  BY <1>2
<1> QED  BY <1>3

(* What holds of a finite set whenever it holds of its smaller subsets      *)
(* holds of all its subsets; here, of those that are in no set `bad`.       *)
LEMMA SmallestSubset ==
    ASSUME NEW S, IsFiniteSet(S), NEW bad \in SUBSET SUBSET S, bad # {}
    PROVE  \E U \in bad : \A x \in U : U \ {x} \notin bad
<1> DEFINE I == {Cardinality(U) : U \in bad}
<1>1. \A U \in SUBSET S : IsFiniteSet(U) /\ Cardinality(U) \in Nat
  BY FS_Subset, FS_CardinalityType
<1>2. I \in SUBSET Nat /\ I # {}
  BY <1>1
<1>3. PICK n \in I : \A m \in I : n <= m
  <2> HIDE DEF I
  <2> QED  BY <1>2, Least
<1>4. PICK U \in bad : Cardinality(U) = n
  OBVIOUS
<1>5. ASSUME NEW x \in U, U \ {x} \in bad PROVE FALSE
  <2>1. Cardinality(U \ {x}) = Cardinality(U) - 1
    BY <1>1, FS_RemoveElement
  <2>2. n <= Cardinality(U \ {x})
    BY <1>3, <1>5
  <2>3. Cardinality(U) \in Nat
    BY <1>1
  <2> QED  BY <1>4, <2>1, <2>2, <2>3
<1> QED  BY <1>5

-----------------------------------------------------------------------------
Some(s) == CHOOSE x \in s : TRUE
Sums(g, f, D) == g = [s \in D |-> IF s = {} THEN 0 ELSE f[Some(s)] + g[s \ {Some(s)}]]

LEMMA SomeIn == \A s : s # {} => Some(s) \in s
BY DEF Some

LEMMA SumIsChoice ==
    ASSUME NEW f, NEW S
    PROVE  SumFunctionOnSet(f, S) = (CHOOSE g : Sums(g, f, SUBSET S))[S]
BY Zenon DEF SumFunctionOnSet, FoldFunctionOnSet, MapThenFoldSet, Sums, Some

(* The recursion that a sum is defined by has a solution. *)
LEMMA SumsExist ==
    ASSUME NEW f, NEW S, IsFiniteSet(S)
    PROVE  \E g : Sums(g, f, SUBSET S)
<1> DEFINE D(n) == {s \in SUBSET S : Cardinality(s) <= n}
           Bad == {n \in Nat : ~\E g : Sums(g, f, D(n))}
<1>0. \A U \in SUBSET S : IsFiniteSet(U) /\ Cardinality(U) \in Nat
  BY FS_Subset, FS_CardinalityType
<1>1. Bad = {}
  <2> SUFFICES ASSUME Bad # {} PROVE FALSE  OBVIOUS
  <2>1. PICK n \in Bad : \A m \in Bad : n <= m
    <3>1. Bad \in SUBSET Nat  OBVIOUS
    <3> HIDE DEF Bad
    <3> QED  BY <3>1, Least
  <2>2. CASE n = 0
    <3>1. \A s \in D(0) : s = {}
      BY <1>0, FS_EmptySet
    <3> DEFINE z == [s \in D(0) |-> 0]
    <3>2. Sums(z, f, D(0))
      BY <3>1 DEF Sums
    <3> QED  BY <2>1, <2>2, <3>2
  <2>3. CASE n # 0
    <3>1. n - 1 \in Nat /\ n - 1 \notin Bad
      <4>1. n \in Nat  BY <2>1
      <4>2. n - 1 \in Nat /\ ~(n <= n - 1)  BY <2>3, <4>1
      <4> HIDE DEF Bad
      <4> QED  BY <2>1, <4>2
    <3>2. PICK g : Sums(g, f, D(n - 1))
      BY <3>1
    <3> DEFINE G == [s \in D(n) |-> IF s = {} THEN 0 ELSE f[Some(s)] + g[s \ {Some(s)}]]
    <3>3. \A s \in D(n - 1) : s \in D(n) /\ G[s] = g[s]
      <4>1. ASSUME NEW s \in D(n - 1) PROVE s \in D(n)
        BY <1>0, <2>1
      <4> QED  BY <3>2, <4>1 DEF Sums
    <3>4. \A s \in D(n) : s # {} => s \ {Some(s)} \in D(n - 1)
      <4> SUFFICES ASSUME NEW s \in D(n), s # {} PROVE s \ {Some(s)} \in D(n - 1)  OBVIOUS
      <4>1. Cardinality(s \ {Some(s)}) = Cardinality(s) - 1
        BY <1>0, FS_RemoveElement, SomeIn
      <4> QED  BY <1>0, <2>1, <4>1
    <3>5. Sums(G, f, D(n))
      <4>1. \A s \in D(n) : s # {} => G[s \ {Some(s)}] = g[s \ {Some(s)}]
        BY <3>3, <3>4
      <4> QED  BY <4>1 DEF Sums
    <3> QED  BY <2>1, <3>5
  <2> QED  BY <2>2, <2>3
<1>2. D(Cardinality(S)) = SUBSET S
  BY FS_Subset, <1>0
<1>3. Cardinality(S) \in Nat
  BY <1>0
<1>4. \E g : Sums(g, f, D(Cardinality(S)))
  BY <1>1, <1>3
<1> HIDE DEF D
<1> QED  BY <1>2, <1>4

(* Two solutions agree where the functions they sum do. *)
LEMMA SumsAgree ==
    ASSUME NEW f, NEW k, NEW g, NEW h, NEW S, NEW T \in SUBSET S, IsFiniteSet(S),
           Sums(g, f, SUBSET S), Sums(h, k, SUBSET T), \A x \in T : f[x] = k[x]
    PROVE  g[T] = h[T]
<1> DEFINE Bad == {U \in SUBSET T : g[U] # h[U]}
<1>1. ASSUME Bad # {} PROVE FALSE
  <2>1. IsFiniteSet(T) /\ Bad \in SUBSET SUBSET T
    BY FS_Subset
  <2>2. PICK U \in Bad : \A x \in U : U \ {x} \notin Bad
    <3> HIDE DEF Bad
    <3> QED  BY <1>1, <2>1, SmallestSubset
  <2>3. CASE U = {}
    BY <2>2, <2>3 DEF Sums
  <2>4. CASE U # {}
    <3>1. Some(U) \in U /\ U \in SUBSET T /\ U \in SUBSET S
      BY <2>4, SomeIn
    <3>2. g[U \ {Some(U)}] = h[U \ {Some(U)}]
      BY <2>2, <3>1
    <3>3. g[U] = f[Some(U)] + g[U \ {Some(U)}]
      BY <2>4, <3>1 DEF Sums
    <3>4. h[U] = k[Some(U)] + h[U \ {Some(U)}]
      BY <2>4, <3>1 DEF Sums
    <3>5. f[Some(U)] = k[Some(U)]
      BY <3>1
    <3> QED  BY <2>2, <3>2, <3>3, <3>4, <3>5
  <2> QED  BY <2>3, <2>4
<1> QED  BY <1>1

(* The sums the model takes, by the recursion. *)
LEMMA SumSolution ==
    ASSUME NEW f, NEW S, IsFiniteSet(S)
    PROVE  \E g : Sums(g, f, SUBSET S) /\ \A T \in SUBSET S : SumFunctionOnSet(f, T) = g[T]
<1> DEFINE c(T) == CHOOSE g : Sums(g, f, SUBSET T)
<1>1. \A T \in SUBSET S : Sums(c(T), f, SUBSET T)
  <2> SUFFICES ASSUME NEW T \in SUBSET S PROVE Sums(c(T), f, SUBSET T)  OBVIOUS
  <2>1. \E g : Sums(g, f, SUBSET T)
    BY FS_Subset, SumsExist
  <2> QED  BY <2>1, Zenon
<1>2. ASSUME NEW T \in SUBSET S PROVE c(S)[T] = c(T)[T]
  <2>1. Sums(c(S), f, SUBSET S) /\ Sums(c(T), f, SUBSET T)
    BY <1>1
  <2> HIDE DEF c
  <2> QED  BY <2>1, SumsAgree
<1>3. \A T \in SUBSET S : SumFunctionOnSet(f, T) = c(T)[T]
  BY SumIsChoice, Zenon
<1> HIDE DEF c
<1> QED  BY <1>1, <1>2, <1>3

LEMMA SumEmpty ==
    ASSUME NEW f PROVE SumFunctionOnSet(f, {}) = 0
<1>1. PICK g : Sums(g, f, SUBSET {}) /\ \A T \in SUBSET {} : SumFunctionOnSet(f, T) = g[T]
  BY FS_EmptySet, SumSolution
<1> QED  BY <1>1 DEF Sums

LEMMA SumSame ==
    ASSUME NEW f, NEW k, NEW S, IsFiniteSet(S), \A x \in S : f[x] = k[x]
    PROVE  SumFunctionOnSet(f, S) = SumFunctionOnSet(k, S)
<1>1. PICK g : Sums(g, f, SUBSET S) /\ \A T \in SUBSET S : SumFunctionOnSet(f, T) = g[T]
  BY SumSolution
<1>2. PICK h : Sums(h, k, SUBSET S) /\ \A T \in SUBSET S : SumFunctionOnSet(k, T) = h[T]
  BY SumSolution
<1>3. g[S] = h[S]
  BY <1>1, <1>2, SumsAgree
<1> QED  BY <1>1, <1>2, <1>3

LEMMA SumInt ==
    ASSUME NEW f, NEW S, IsFiniteSet(S), \A x \in S : f[x] \in Int
    PROVE  SumFunctionOnSet(f, S) \in Int
<1>1. PICK g : Sums(g, f, SUBSET S) /\ \A T \in SUBSET S : SumFunctionOnSet(f, T) = g[T]
  BY SumSolution
<1> DEFINE Bad == {U \in SUBSET S : g[U] \notin Int}
<1>2. ASSUME Bad # {} PROVE FALSE
  <2>1. PICK U \in Bad : \A x \in U : U \ {x} \notin Bad
    <3>1. Bad \in SUBSET SUBSET S  OBVIOUS
    <3> HIDE DEF Bad
    <3> QED  BY <1>2, <3>1, SmallestSubset
  <2>2. CASE U = {}
    BY <1>1, <2>1, <2>2 DEF Sums
  <2>3. CASE U # {}
    <3>1. Some(U) \in U /\ U \in SUBSET S
      BY <2>3, SomeIn
    <3>2. g[U \ {Some(U)}] \in Int
      BY <2>1, <3>1
    <3>3. g[U] = f[Some(U)] + g[U \ {Some(U)}]
      BY <1>1, <2>3, <3>1 DEF Sums
    <3> QED  BY <2>1, <3>1, <3>2, <3>3
  <2> QED  BY <2>2, <2>3
<1> QED  BY <1>1, <1>2

LEMMA SumTake ==
    ASSUME NEW f, NEW S, IsFiniteSet(S), \A x \in S : f[x] \in Int, NEW e \in S
    PROVE  SumFunctionOnSet(f, S) = f[e] + SumFunctionOnSet(f, S \ {e})
<1>1. PICK g : Sums(g, f, SUBSET S) /\ \A T \in SUBSET S : SumFunctionOnSet(f, T) = g[T]
  BY SumSolution
<1>2. \A T \in SUBSET S : g[T] \in Int
  BY <1>1, FS_Subset, SumInt
<1> DEFINE Bad == {U \in SUBSET S : \E x \in U : g[U] # f[x] + g[U \ {x}]}
<1>3. ASSUME Bad # {} PROVE FALSE
  <2>1. PICK U \in Bad : \A x \in U : U \ {x} \notin Bad
    <3>1. Bad \in SUBSET SUBSET S  OBVIOUS
    <3> HIDE DEF Bad
    <3> QED  BY <1>3, <3>1, SmallestSubset
  <2>2. PICK x \in U : g[U] # f[x] + g[U \ {x}]
    BY <2>1
  <2> DEFINE c == Some(U)
  <2>3. c \in U /\ U \in SUBSET S
    BY <2>2, SomeIn
  <2> HIDE DEF c
  <2>4. g[U] = f[c] + g[U \ {c}]
    BY <1>1, <2>2, <2>3 DEF Sums, c
  <2>5. x # c
    BY <2>2, <2>4
  <2>6. g[U \ {c}] = f[x] + g[(U \ {c}) \ {x}]
    BY <2>1, <2>3, <2>5
  <2>7. g[U \ {x}] = f[c] + g[(U \ {x}) \ {c}]
    BY <2>1, <2>3, <2>5
  <2>8. (U \ {c}) \ {x} = (U \ {x}) \ {c}
    OBVIOUS
  <2>9. g[(U \ {x}) \ {c}] \in Int /\ f[x] \in Int /\ f[c] \in Int
    BY <1>2, <2>3
  <2> DEFINE v == g[(U \ {x}) \ {c}]
  <2>10. g[U] = f[c] + (f[x] + v) /\ g[U \ {x}] = f[c] + v
    BY <2>4, <2>6, <2>7, <2>8
  <2>11. v \in Int /\ f[x] \in Int /\ f[c] \in Int
    BY <2>9
  <2> HIDE DEF v, Bad
  <2> QED  BY <2>2, <2>10, <2>11
<1>4. g[S] = f[e] + g[S \ {e}]
  BY <1>3
<1> QED  BY <1>1, <1>4

LEMMA SumOne ==
    ASSUME NEW f, NEW e, f[e] \in Int
    PROVE  SumFunctionOnSet(f, {e}) = f[e]
<1>1. IsFiniteSet({e}) /\ e \in {e} /\ {e} \ {e} = {}
  BY FS_Singleton
<1>2. SumFunctionOnSet(f, {e}) = f[e] + SumFunctionOnSet(f, {e} \ {e})
  BY <1>1, SumTake
<1> QED  BY <1>1, <1>2, SumEmpty

LEMMA SumZero ==
    ASSUME NEW f, NEW S, IsFiniteSet(S), \A x \in S : f[x] = 0
    PROVE  SumFunctionOnSet(f, S) = 0
<1> DEFINE Bad == {U \in SUBSET S : SumFunctionOnSet(f, U) # 0}
<1>1. ASSUME Bad # {} PROVE FALSE
  <2>1. PICK U \in Bad : \A x \in U : U \ {x} \notin Bad
    <3>1. Bad \in SUBSET SUBSET S  OBVIOUS
    <3> HIDE DEF Bad
    <3> QED  BY <1>1, <3>1, SmallestSubset
  <2>2. PICK x : x \in U
    BY <2>1, SumEmpty
  <2>3. SumFunctionOnSet(f, U) = f[x] + SumFunctionOnSet(f, U \ {x})
    <3>1. U \subseteq S /\ IsFiniteSet(U) /\ \A y \in U : f[y] \in Int
      BY FS_Subset
    <3> QED  BY <2>2, <3>1, SumTake
  <2>4. SumFunctionOnSet(f, U \ {x}) = 0
    BY <2>1, <2>2
  <2> QED  BY <2>1, <2>2, <2>3, <2>4
<1> QED  BY <1>1

LEMMA SumPlus ==
    ASSUME NEW S, IsFiniteSet(S), NEW f, NEW g, NEW h,
           \A x \in S : f[x] \in Int /\ g[x] \in Int /\ h[x] = f[x] + g[x]
    PROVE  SumFunctionOnSet(h, S) = SumFunctionOnSet(f, S) + SumFunctionOnSet(g, S)
<1> DEFINE Bad == {U \in SUBSET S : SumFunctionOnSet(h, U) # SumFunctionOnSet(f, U) + SumFunctionOnSet(g, U)}
<1>1. ASSUME Bad # {} PROVE FALSE
  <2>1. PICK U \in Bad : \A x \in U : U \ {x} \notin Bad
    <3>1. Bad \in SUBSET SUBSET S  OBVIOUS
    <3> HIDE DEF Bad
    <3> QED  BY <1>1, <3>1, SmallestSubset
  <2>2. PICK x : x \in U
    BY <2>1, SumEmpty
  <2> DEFINE V == U \ {x}
  <2>3. U \subseteq S /\ V \subseteq S /\ IsFiniteSet(U) /\ IsFiniteSet(V)
    BY FS_Subset
  <2>4. \A y \in U : f[y] \in Int /\ g[y] \in Int /\ h[y] \in Int /\ h[y] = f[y] + g[y]
    BY <2>3
  <2>5. SumFunctionOnSet(f, U) = f[x] + SumFunctionOnSet(f, V)
    BY <2>2, <2>3, <2>4, SumTake
  <2>6. SumFunctionOnSet(g, U) = g[x] + SumFunctionOnSet(g, V)
    BY <2>2, <2>3, <2>4, SumTake
  <2>7. SumFunctionOnSet(h, U) = h[x] + SumFunctionOnSet(h, V)
    BY <2>2, <2>3, <2>4, SumTake
  <2>8. SumFunctionOnSet(f, V) \in Int /\ SumFunctionOnSet(g, V) \in Int
    BY <2>3, <2>4, SumInt
  <2>9. SumFunctionOnSet(h, V) = SumFunctionOnSet(f, V) + SumFunctionOnSet(g, V)
    BY <2>1, <2>2, <2>3
  <2>10. SumFunctionOnSet(h, U) # SumFunctionOnSet(f, U) + SumFunctionOnSet(g, U)
    BY <2>1
  <2> HIDE DEF V, Bad
  <2> QED  BY <2>2, <2>4, <2>5, <2>6, <2>7, <2>8, <2>9, <2>10
<1> QED  BY <1>1

LEMMA SumWithin ==
    ASSUME NEW S, IsFiniteSet(S), NEW T \in SUBSET S, NEW f, NEW h,
           \A x \in S : f[x] \in Int /\ h[x] = IF x \in T THEN f[x] ELSE 0
    PROVE  SumFunctionOnSet(f, T) = SumFunctionOnSet(h, S)
<1> DEFINE Bad == {U \in SUBSET S : SumFunctionOnSet(f, U \intersect T) # SumFunctionOnSet(h, U)}
<1>1. ASSUME Bad # {} PROVE FALSE
  <2>1. PICK U \in Bad : \A x \in U : U \ {x} \notin Bad
    <3>1. Bad \in SUBSET SUBSET S  OBVIOUS
    <3> HIDE DEF Bad
    <3> QED  BY <1>1, <3>1, SmallestSubset
  <2>2. PICK x : x \in U
    <3> SUFFICES ASSUME U = {} PROVE FALSE  OBVIOUS
    <3>1. U \intersect T = {}  OBVIOUS
    <3> QED  BY <2>1, <3>1, SumEmpty
  <2> DEFINE V == U \ {x}
  <2>3. U \subseteq S /\ IsFiniteSet(U) /\ IsFiniteSet(U \intersect T) /\ x \in S
    BY <2>2, FS_Subset
  <2>4. SumFunctionOnSet(h, U) = h[x] + SumFunctionOnSet(h, V)
    BY <2>2, <2>3, SumTake
  <2>5. SumFunctionOnSet(f, V \intersect T) = SumFunctionOnSet(h, V)
    BY <2>1, <2>2
  <2>6. SumFunctionOnSet(h, V) \in Int
    <3>1. IsFiniteSet(V) /\ \A y \in V : h[y] \in Int
      BY <2>3, FS_Subset
    <3> HIDE DEF V
    <3> QED  BY <3>1, SumInt
  <2>7. SumFunctionOnSet(f, U \intersect T) = h[x] + SumFunctionOnSet(f, V \intersect T)
    <3>1. CASE x \in T
      <4>1. (U \intersect T) \ {x} = V \intersect T /\ x \in U \intersect T /\ h[x] = f[x]
        BY <2>2, <2>3, <3>1
      <4>2. \A y \in U \intersect T : f[y] \in Int
        BY <2>3
      <4> HIDE DEF V
      <4> QED  BY <2>3, <4>1, <4>2, SumTake
    <3>2. CASE x \notin T
      <4>1. U \intersect T = V \intersect T /\ h[x] = 0
        BY <2>3, <3>2
      <4>2. SumFunctionOnSet(f, V \intersect T) \in Int
        BY <2>5, <2>6
      <4>3. SumFunctionOnSet(f, U \intersect T) = SumFunctionOnSet(f, V \intersect T)
        BY <4>1, Zenon
      <4> HIDE DEF V
      <4> QED  BY <4>1, <4>2, <4>3
    <3> QED  BY <3>1, <3>2
  <2> HIDE DEF V
  <2> QED  BY <2>1, <2>4, <2>5, <2>7
<1> QED
  <2>1. SumFunctionOnSet(f, S \intersect T) = SumFunctionOnSet(h, S)
    BY <1>1
  <2>2. S \intersect T = T
    OBVIOUS
  <2> QED  BY <2>1, <2>2

LEMMA SumAt ==
    ASSUME NEW S, IsFiniteSet(S), NEW e \in S, NEW f, NEW k,
           \A x \in S : f[x] \in Int /\ k[x] \in Int, \A x \in S \ {e} : k[x] = f[x]
    PROVE  SumFunctionOnSet(k, S) = SumFunctionOnSet(f, S) + (k[e] - f[e])
<1> DEFINE R == S \ {e}
<1>1. IsFiniteSet(R) /\ SumFunctionOnSet(f, R) \in Int
  <2>1. IsFiniteSet(R) /\ \A x \in R : f[x] \in Int
    BY FS_Subset
  <2> HIDE DEF R
  <2> QED  BY <2>1, SumInt
<1>2. SumFunctionOnSet(k, R) = SumFunctionOnSet(f, R)
  <2>1. \A x \in R : k[x] = f[x]
    OBVIOUS
  <2> HIDE DEF R
  <2> QED  BY <1>1, <2>1, SumSame
<1>3. SumFunctionOnSet(f, S) = f[e] + SumFunctionOnSet(f, R)
  BY SumTake
<1>4. SumFunctionOnSet(k, S) = k[e] + SumFunctionOnSet(k, R)
  BY SumTake
<1> HIDE DEF R
<1> QED  BY <1>1, <1>2, <1>3, <1>4

-----------------------------------------------------------------------------
(* The entries of a ledger. *)

AmountOf(entries, p, kind) ==
    SumFunctionOnSet([i \in DOMAIN entries |-> entries[i].amount], EntriesOf(entries, p, kind))

(* What the ledger says a position made.                                    *)
Made(entries, p) == AmountOf(entries, p, "realised") - FundingOf(entries, p, "adjustment")

(* Two ledgers hold the same of a position.                                 *)
SameFor(entries, others, p) ==
    \A kind \in {"realised", "adjustment"} :
        /\ EntriesOf(others, p, kind) = EntriesOf(entries, p, kind)
        /\ \A i \in EntriesOf(entries, p, kind) : others[i] = entries[i]

(* The ledger holds nothing of a position, or one realised entry that is     *)
(* its close's, and adjustments.                                            *)
Kept(entries, p, close) ==
    \/ EntriesOf(entries, p, "realised") = {} /\ EntriesOf(entries, p, "adjustment") = {}
    \/ \E i \in DOMAIN entries :
          /\ EntriesOf(entries, p, "realised") = {i}
          /\ entries[i].amount = Result(p, close) /\ entries[i].funding = Funding(p, close)

LEMMA FundingIsInt ==
    ASSUME NEW p \in Positions, NEW s, s.used \subseteq Clock
    PROVE  Funding(p, s) \in Int
<1>1. IsFiniteSet(Clock)
  BY NumbersAssumption, FS_Interval DEF Clock
<1>2. IsFiniteSet(s.used)
  BY <1>1, FS_Subset
<1>3. \A h \in s.used : Pay[p][h] \in Int
  BY NumbersAssumption DEF Clock
<1>4. SumFunctionOnSet(Pay[p], s.used) \in Int
  BY <1>2, <1>3, SumInt
<1> QED  BY <1>4 DEF Funding, Total

LEMMA EntriesAreFinite ==
    ASSUME NEW entries \in Seq(Entries), NEW p, NEW kind
    PROVE  /\ IsFiniteSet(EntriesOf(entries, p, kind))
           /\ EntriesOf(entries, p, kind) \subseteq DOMAIN entries
           /\ DOMAIN entries = 1..Len(entries) /\ Len(entries) \in Nat
           /\ \A i \in 1..Len(entries) : entries[i] \in Entries /\ entries[i].amount \in Int /\ entries[i].funding \in Int
<1>1. DOMAIN entries = 1..Len(entries) /\ Len(entries) \in Nat
  OBVIOUS
<1>2. IsFiniteSet(1..Len(entries))
  BY <1>1, FS_Interval
<1>3. EntriesOf(entries, p, kind) \subseteq 1..Len(entries)
  BY <1>1 DEF EntriesOf
<1>4. \A i \in 1..Len(entries) : entries[i] \in Entries
  OBVIOUS
<1>5. \A i \in 1..Len(entries) : entries[i].amount \in Int /\ entries[i].funding \in Int
  BY <1>4 DEF Entries
<1>6. IsFiniteSet(EntriesOf(entries, p, kind))
  BY <1>2, <1>3, FS_Subset
<1> QED  BY <1>1, <1>3, <1>4, <1>5, <1>6

LEMMA SumsOfEntries ==
    ASSUME NEW entries \in Seq(Entries), NEW p, NEW kind
    PROVE  AmountOf(entries, p, kind) \in Int /\ FundingOf(entries, p, kind) \in Int
<1> DEFINE T == EntriesOf(entries, p, kind)
           a == [i \in DOMAIN entries |-> entries[i].amount]
           f == [i \in DOMAIN entries |-> entries[i].funding]
<1>1. IsFiniteSet(T) /\ T \subseteq DOMAIN entries
  BY EntriesAreFinite
<1>2. \A i \in T : a[i] \in Int /\ f[i] \in Int
  BY EntriesAreFinite
<1>3. SumFunctionOnSet(a, T) \in Int /\ SumFunctionOnSet(f, T) \in Int
  <2> HIDE DEF a, f, T
  <2> QED  BY <1>1, <1>2, SumInt
<1> QED  BY <1>3 DEF AmountOf, FundingOf

LEMMA NothingOf ==
    ASSUME NEW entries, NEW p, NEW kind, EntriesOf(entries, p, kind) = {}
    PROVE  AmountOf(entries, p, kind) = 0 /\ FundingOf(entries, p, kind) = 0
BY SumEmpty DEF AmountOf, FundingOf

LEMMA SameForSums ==
    ASSUME NEW entries \in Seq(Entries), NEW others \in Seq(Entries), NEW p,
           SameFor(entries, others, p), NEW kind \in {"realised", "adjustment"}
    PROVE  /\ AmountOf(others, p, kind) = AmountOf(entries, p, kind)
           /\ FundingOf(others, p, kind) = FundingOf(entries, p, kind)
<1> DEFINE T == EntriesOf(entries, p, kind)
           a == [i \in DOMAIN entries |-> entries[i].amount]
           f == [i \in DOMAIN entries |-> entries[i].funding]
           b == [i \in DOMAIN others |-> others[i].amount]
           g == [i \in DOMAIN others |-> others[i].funding]
<1>1. EntriesOf(others, p, kind) = T /\ IsFiniteSet(T) /\ T \subseteq DOMAIN entries /\ T \subseteq DOMAIN others
  <2>1. EntriesOf(others, p, kind) = T
    BY DEF SameFor
  <2>2. IsFiniteSet(T) /\ T \subseteq DOMAIN entries
    BY EntriesAreFinite
  <2>3. EntriesOf(others, p, kind) \subseteq DOMAIN others
    BY EntriesAreFinite
  <2> HIDE DEF T
  <2> QED  BY <2>1, <2>2, <2>3
<1>2. \A i \in T : b[i] = a[i] /\ g[i] = f[i]
  BY <1>1 DEF SameFor
<1>3. SumFunctionOnSet(b, T) = SumFunctionOnSet(a, T) /\ SumFunctionOnSet(g, T) = SumFunctionOnSet(f, T)
  <2> HIDE DEF a, f, b, g, T
  <2> QED  BY <1>1, <1>2, SumSame
<1> QED  BY <1>1, <1>3 DEF AmountOf, FundingOf

LEMMA AppendedEntries ==
    ASSUME NEW entries \in Seq(Entries), NEW e \in Entries, NEW q, NEW kind
    PROVE  /\ Append(entries, e) \in Seq(Entries) /\ Len(entries) + 1 \notin EntriesOf(entries, q, kind)
           /\ EntriesOf(Append(entries, e), q, kind) =
                EntriesOf(entries, q, kind) \union (IF e.p = q /\ e.kind = kind THEN {Len(entries) + 1} ELSE {})
           /\ \A i \in DOMAIN entries : Append(entries, e)[i] = entries[i]
           /\ Append(entries, e)[Len(entries) + 1] = e
<1> DEFINE longer == Append(entries, e)
           n == Len(entries) + 1
<1>1. longer \in Seq(Entries) /\ DOMAIN longer = 1..n /\ DOMAIN entries = 1..Len(entries) /\ Len(entries) \in Nat
  OBVIOUS
<1>2. \A i \in 1..Len(entries) : longer[i] = entries[i]
  OBVIOUS
<1>3. longer[n] = e
  OBVIOUS
<1>4. 1..n = 1..Len(entries) \union {n} /\ n \notin 1..Len(entries)
  BY <1>1
<1> HIDE DEF longer, n
<1>5. EntriesOf(longer, q, kind) = EntriesOf(entries, q, kind) \union (IF e.p = q /\ e.kind = kind THEN {n} ELSE {})
  BY <1>1, <1>2, <1>3, <1>4 DEF EntriesOf
<1>6. n \notin EntriesOf(entries, q, kind)
  BY <1>1, <1>4 DEF EntriesOf
<1> QED  BY <1>1, <1>2, <1>3, <1>5, <1>6 DEF longer, n

LEMMA AppendedForOther ==
    ASSUME NEW entries \in Seq(Entries), NEW e \in Entries, NEW q, e.p # q
    PROVE  SameFor(entries, Append(entries, e), q)
<1>1. ASSUME NEW kind PROVE EntriesOf(Append(entries, e), q, kind) = EntriesOf(entries, q, kind)
  <2> DEFINE T == EntriesOf(entries, q, kind)
             U == EntriesOf(Append(entries, e), q, kind)
  <2>1. U = T \union (IF e.p = q /\ e.kind = kind THEN {Len(entries) + 1} ELSE {})
    BY AppendedEntries
  <2> HIDE DEF T, U
  <2>2. U = T
    BY <2>1
  <2> QED  BY <2>2 DEF T, U
<1>2. ASSUME NEW kind PROVE \A i \in EntriesOf(entries, q, kind) : Append(entries, e)[i] = entries[i]
  BY AppendedEntries, EntriesAreFinite
<1> QED  BY <1>1, <1>2 DEF SameFor

(* An entry appended for a position is an entry more of its kind, and       *)
(* leaves every other sum alone.                                            *)
LEMMA AppendedSums ==
    ASSUME NEW entries \in Seq(Entries), NEW e \in Entries, NEW q, NEW kind
    PROVE  LET counts == e.p = q /\ e.kind = kind IN
           /\ AmountOf(Append(entries, e), q, kind) =
                IF counts THEN AmountOf(entries, q, kind) + e.amount ELSE AmountOf(entries, q, kind)
           /\ FundingOf(Append(entries, e), q, kind) =
                IF counts THEN FundingOf(entries, q, kind) + e.funding ELSE FundingOf(entries, q, kind)
<1> DEFINE longer == Append(entries, e)
           n == Len(entries) + 1
           T == EntriesOf(entries, q, kind)
           U == EntriesOf(longer, q, kind)
           a == [i \in DOMAIN entries |-> entries[i].amount]
           f == [i \in DOMAIN entries |-> entries[i].funding]
           b == [i \in DOMAIN longer |-> longer[i].amount]
           g == [i \in DOMAIN longer |-> longer[i].funding]
<1>1. /\ longer \in Seq(Entries) /\ n \notin T /\ longer[n] = e
      /\ U = T \union (IF e.p = q /\ e.kind = kind THEN {n} ELSE {})
      /\ \A i \in DOMAIN entries : longer[i] = entries[i]
  BY AppendedEntries
<1>2. IsFiniteSet(T) /\ T \subseteq DOMAIN entries
  BY EntriesAreFinite
<1>3. IsFiniteSet(U) /\ U \subseteq DOMAIN longer /\ T \subseteq DOMAIN longer
  <2>1. IsFiniteSet(U) /\ U \subseteq DOMAIN longer
    <3> HIDE DEF longer
    <3> QED  BY <1>1, EntriesAreFinite
  <2> QED  BY <1>1, <2>1
<1>4. /\ \A i \in T : b[i] = a[i] /\ g[i] = f[i]
      /\ \A i \in U : b[i] \in Int /\ g[i] \in Int /\ b[i] = longer[i].amount /\ g[i] = longer[i].funding
  <2>1. \A i \in 1..Len(longer) : longer[i].amount \in Int /\ longer[i].funding \in Int
    <3> HIDE DEF longer
    <3> QED  BY <1>1, EntriesAreFinite
  <2>2. DOMAIN longer = 1..Len(longer)
    OBVIOUS
  <2> HIDE DEF longer, T, U
  <2> QED  BY <1>1, <1>2, <1>3, <2>1, <2>2
<1>5. SumFunctionOnSet(b, T) = SumFunctionOnSet(a, T) /\ SumFunctionOnSet(g, T) = SumFunctionOnSet(f, T)
  <2> HIDE DEF a, f, b, g, T
  <2> QED  BY <1>2, <1>4, SumSame
<1>6. SumFunctionOnSet(a, T) \in Int /\ SumFunctionOnSet(f, T) \in Int
  BY SumsOfEntries DEF AmountOf, FundingOf
<1>7. CASE e.p = q /\ e.kind = kind
  <2>1. n \in U /\ U \ {n} = T
    BY <1>1, <1>7
  <2>2. IsFiniteSet(U) /\ \A i \in U : b[i] \in Int /\ g[i] \in Int
    BY <1>3, <1>4
  <2>3. b[n] = e.amount /\ g[n] = e.funding /\ b[n] \in Int /\ g[n] \in Int
    BY <1>1, <1>4, <2>1
  <2>4. SumFunctionOnSet(b, U) = SumFunctionOnSet(a, T) + e.amount
    <3> HIDE DEF a, b, f, g, U, T, n, longer
    <3>1. SumFunctionOnSet(b, U) = b[n] + SumFunctionOnSet(b, U \ {n})
      BY <2>1, <2>2, SumTake
    <3>2. SumFunctionOnSet(b, U \ {n}) = SumFunctionOnSet(b, T)
      BY <2>1
    <3> QED  BY <1>5, <1>6, <2>3, <3>1, <3>2
  <2>5. SumFunctionOnSet(g, U) = SumFunctionOnSet(f, T) + e.funding
    <3> HIDE DEF a, b, f, g, U, T, n, longer
    <3>1. SumFunctionOnSet(g, U) = g[n] + SumFunctionOnSet(g, U \ {n})
      BY <2>1, <2>2, SumTake
    <3>2. SumFunctionOnSet(g, U \ {n}) = SumFunctionOnSet(g, T)
      BY <2>1
    <3> QED  BY <1>5, <1>6, <2>3, <3>1, <3>2
  <2> QED  BY <1>7, <2>4, <2>5 DEF AmountOf, FundingOf
<1>8. CASE ~(e.p = q /\ e.kind = kind)
  <2>1. U = T
    BY <1>1, <1>8
  <2> QED  BY <1>5, <1>8, <2>1 DEF AmountOf, FundingOf
<1> QED  BY <1>7, <1>8

-----------------------------------------------------------------------------
(* Booking. *)

Accounts == [exists: BOOLEAN, cash: Int, last: Nat, peak: Int]

BookOK(book) ==
    /\ book.account \in Accounts /\ book.ledger \in Seq(Entries)
    /\ ~book.account.exists => book.ledger = <<>>

(* From one book to another only what they hold of p changes, and the cash  *)
(* with it.                                                                 *)
OnlyFor(p, book, next) ==
    /\ BookOK(next) /\ book.account.exists /\ next.account.exists
    /\ next.account.peak = book.account.peak
    /\ next.account.cash = book.account.cash + (Made(next.ledger, p) - Made(book.ledger, p))
    /\ \A q \in Positions \ {p} : SameFor(book.ledger, next.ledger, q)

LEMMA MadeIsInt ==
    ASSUME NEW entries \in Seq(Entries), NEW p
    PROVE  Made(entries, p) \in Int
BY SumsOfEntries DEF Made

LEMMA SameForMade ==
    ASSUME NEW entries \in Seq(Entries), NEW others \in Seq(Entries), NEW p, SameFor(entries, others, p)
    PROVE  Made(others, p) = Made(entries, p)
BY SameForSums DEF Made

LEMMA OnlyForTwice ==
    ASSUME NEW p \in Positions, NEW b, NEW c, NEW d, BookOK(b), OnlyFor(p, b, c), OnlyFor(p, c, d)
    PROVE  OnlyFor(p, b, d)
<1>1. Made(b.ledger, p) \in Int /\ Made(c.ledger, p) \in Int /\ Made(d.ledger, p) \in Int
  BY MadeIsInt DEF OnlyFor, BookOK
<1>2. b.account.cash \in Int
  BY DEF BookOK, Accounts
<1>3. d.account.cash = b.account.cash + (Made(d.ledger, p) - Made(b.ledger, p))
  BY <1>1, <1>2 DEF OnlyFor
<1>4. \A q \in Positions \ {p} : SameFor(b.ledger, d.ledger, q)
  BY DEF OnlyFor, SameFor
<1> QED  BY <1>3, <1>4 DEF OnlyFor

LEMMA OnlyForNothing ==
    ASSUME NEW p, NEW b, BookOK(b), b.account.exists
    PROVE  OnlyFor(p, b, b)
<1>1. Made(b.ledger, p) \in Int /\ b.account.cash \in Int
  BY MadeIsInt DEF BookOK, Accounts
<1> QED  BY <1>1 DEF OnlyFor, SameFor

LEMMA MovedAccount ==
    ASSUME NEW a \in Accounts, NEW x \in Int
    PROVE  [a EXCEPT !.cash = @ + x, !.last = @ + 1] \in Accounts
<1>1. [a EXCEPT !.cash = @ + x] \in Accounts
  BY DEF Accounts
<1>2. \A b \in Accounts : [b EXCEPT !.last = @ + 1] \in Accounts
  BY DEF Accounts
<1>3. [a EXCEPT !.cash = @ + x, !.last = @ + 1] = [[a EXCEPT !.cash = @ + x] EXCEPT !.last = @ + 1]
  BY DEF Accounts
<1> QED  BY <1>1, <1>2, <1>3

LEMMA AppendedBook ==
    ASSUME NEW book, BookOK(book), book.account.exists, NEW p \in Positions,
           NEW kind \in {"realised", "adjustment"}, NEW amount \in Int, NEW funding \in Int,
           kind = "adjustment" => amount = -funding
    PROVE  LET next == Appended(book, kind, p, amount, funding)
               e == Entry(kind, p, amount, funding, book.account.cash)
           IN  /\ e \in Entries /\ next.ledger = Append(book.ledger, e)
               /\ OnlyFor(p, book, next)
<1> DEFINE next == Appended(book, kind, p, amount, funding)
           e == Entry(kind, p, amount, funding, book.account.cash)
<1>1. book.account.cash \in Int
  BY DEF BookOK, Accounts
<1>2. e \in Entries /\ e.p = p /\ e.kind = kind /\ e.amount = amount /\ e.funding = funding
  BY <1>1 DEF Entries, Entry
<1>3. next.ledger = Append(book.ledger, e) /\ book.ledger \in Seq(Entries)
  BY DEF Appended, BookOK
<1>4. next.account \in Accounts /\ next.account.exists /\ next.account.peak = book.account.peak
      /\ next.account.cash = book.account.cash + amount
  <2>1. book.account \in [exists: BOOLEAN, cash: Int, last: Nat, peak: Int]
    BY DEF BookOK, Accounts
  <2>2. next.account = [book.account EXCEPT !.cash = @ + amount, !.last = @ + 1]
    BY DEF Appended
  <2>3. next.account.exists = book.account.exists /\ next.account.peak = book.account.peak
        /\ next.account.cash = book.account.cash + amount
    BY <2>1 DEF Appended
  <2>4. next.account \in Accounts
    <3> HIDE DEF next
    <3> QED  BY <2>2, MovedAccount DEF BookOK
  <2> QED  BY <2>3, <2>4
<1>5. next.ledger \in Seq(Entries)
  BY <1>2, <1>3
<1>6. BookOK(next)
  BY <1>4, <1>5 DEF BookOK
<1> HIDE DEF next, e
<1>7. ASSUME NEW q \in Positions \ {p} PROVE SameFor(book.ledger, next.ledger, q)
  <2>1. e.p # q
    BY <1>2
  <2> DEFINE l == book.ledger
  <2>2. l \in Seq(Entries) /\ next.ledger = Append(l, e)
    BY <1>3
  <2> HIDE DEF l
  <2>3. SameFor(l, Append(l, e), q)
    BY <1>2, <2>1, <2>2, AppendedForOther
  <2> QED  BY <2>2, <2>3 DEF l
<1>8. Made(next.ledger, p) - Made(book.ledger, p) = amount
  <2>1. /\ AmountOf(book.ledger, p, "realised") \in Int
        /\ FundingOf(book.ledger, p, "adjustment") \in Int
    BY <1>3, SumsOfEntries
  <2>2. CASE kind = "realised"
    <3>1. AmountOf(next.ledger, p, "realised") = AmountOf(book.ledger, p, "realised") + amount
      BY <1>2, <1>3, <2>2, AppendedSums
    <3>2. FundingOf(next.ledger, p, "adjustment") = FundingOf(book.ledger, p, "adjustment")
      BY <1>2, <1>3, <2>2, AppendedSums
    <3> QED  BY <2>1, <3>1, <3>2 DEF Made
  <2>3. CASE kind = "adjustment"
    <3>1. AmountOf(next.ledger, p, "realised") = AmountOf(book.ledger, p, "realised")
      BY <1>2, <1>3, <2>3, AppendedSums
    <3>2. FundingOf(next.ledger, p, "adjustment") = FundingOf(book.ledger, p, "adjustment") + funding
      BY <1>2, <1>3, <2>3, AppendedSums
    <3> QED  BY <2>1, <2>3, <3>1, <3>2 DEF Made
  <2> QED  BY <2>2, <2>3
<1>9. OnlyFor(p, book, next)
  BY <1>4, <1>6, <1>7, <1>8 DEF OnlyFor
<1> QED  BY <1>2, <1>3, <1>9 DEF next, e

LEMMA OpenedBook ==
    ASSUME NEW book, BookOK(book)
    PROVE  LET next == Opened(book) IN
           /\ BookOK(next) /\ next.account.exists
           /\ next.account.cash = IF book.account.exists THEN book.account.cash ELSE Capital
           /\ next.account.peak = IF book.account.exists THEN book.account.peak ELSE Capital
           /\ \A q \in Positions : SameFor(book.ledger, next.ledger, q)
<1>1. CASE book.account.exists
  BY <1>1 DEF Opened, SameFor
<1>2. CASE ~book.account.exists
  <2> DEFINE e == Entry("capital", None, Capital, 0, 0)
             a == [exists |-> TRUE, cash |-> Capital, last |-> 1, peak |-> Capital]
  <2>1. Opened(book) = [account |-> a, ledger |-> <<e>>]
    BY <1>2 DEF Opened
  <2>2. a \in Accounts
    BY NumbersAssumption DEF Accounts
  <2>3. e \in Entries /\ e.p = None
    BY NumbersAssumption DEF Entries, Entry
  <2>4. book.ledger = <<>>
    BY <1>2 DEF BookOK
  <2> HIDE DEF e
  <2>5. <<e>> \in Seq(Entries)
    BY <2>3
  <2>6. ASSUME NEW q \in Positions PROVE SameFor(<<>>, <<e>>, q)
    <3>1. e.p # q
      BY <2>3, PositionsAssumption
    <3>2. EntriesOf(<<>>, q, "realised") = {} /\ EntriesOf(<<>>, q, "adjustment") = {}
      BY DEF EntriesOf
    <3>3. EntriesOf(<<e>>, q, "realised") = {} /\ EntriesOf(<<e>>, q, "adjustment") = {}
      BY <3>1 DEF EntriesOf
    <3> QED  BY <3>2, <3>3 DEF SameFor
  <2> QED  BY <1>2, <2>1, <2>2, <2>4, <2>5, <2>6 DEF BookOK
<1> QED  BY <1>1, <1>2

LEMMA KeptSums ==
    ASSUME NEW entries \in Seq(Entries), NEW p \in Positions,
           NEW close, close.mark \in Int, close.used \subseteq Clock, Kept(entries, p, close)
    PROVE  IF IsBooked(entries, p)
           THEN /\ AmountOf(entries, p, "realised") = Result(p, close)
                /\ FundingOf(entries, p, "realised") = Funding(p, close)
           ELSE Made(entries, p) = 0 /\ Charged(entries, p) = 0
<1>1. CASE EntriesOf(entries, p, "realised") = {} /\ EntriesOf(entries, p, "adjustment") = {}
  <2>1. /\ AmountOf(entries, p, "realised") = 0 /\ FundingOf(entries, p, "adjustment") = 0
        /\ FundingOf(entries, p, "realised") = 0
    BY <1>1, NothingOf
  <2> QED  BY <1>1, <2>1 DEF IsBooked, Made, Charged
<1>2. CASE ~(EntriesOf(entries, p, "realised") = {} /\ EntriesOf(entries, p, "adjustment") = {})
  <2>1. PICK i \in DOMAIN entries :
           /\ EntriesOf(entries, p, "realised") = {i}
           /\ entries[i].amount = Result(p, close) /\ entries[i].funding = Funding(p, close)
    BY <1>2 DEF Kept
  <2> DEFINE a == [j \in DOMAIN entries |-> entries[j].amount]
             f == [j \in DOMAIN entries |-> entries[j].funding]
  <2>2. a[i] \in Int /\ f[i] \in Int
    BY <2>1, FundingIsInt DEF Result
  <2>3. SumFunctionOnSet(a, {i}) = a[i] /\ SumFunctionOnSet(f, {i}) = f[i]
    <3> HIDE DEF a, f
    <3> QED  BY <2>2, SumOne
  <2> QED  BY <2>1, <2>3 DEF IsBooked, AmountOf, FundingOf
<1> QED  BY <1>1, <1>2

LEMMA SameForKept ==
    ASSUME NEW entries \in Seq(Entries), NEW others \in Seq(Entries), NEW p, NEW close,
           SameFor(entries, others, p)
    PROVE  /\ Kept(entries, p, close) => Kept(others, p, close)
           /\ IsBooked(others, p) = IsBooked(entries, p)
           /\ Charged(others, p) = Charged(entries, p)
           /\ Made(others, p) = Made(entries, p)
<1>1. /\ EntriesOf(others, p, "realised") = EntriesOf(entries, p, "realised")
      /\ EntriesOf(others, p, "adjustment") = EntriesOf(entries, p, "adjustment")
      /\ \A i \in EntriesOf(entries, p, "realised") : others[i] = entries[i]
  BY DEF SameFor
<1>2. EntriesOf(others, p, "realised") \subseteq DOMAIN others
  BY EntriesAreFinite
<1>3. Charged(others, p) = Charged(entries, p) /\ Made(others, p) = Made(entries, p)
  BY SameForSums DEF Charged, Made
<1>4. ASSUME Kept(entries, p, close) PROVE Kept(others, p, close)
  BY <1>1, <1>2, <1>4 DEF Kept
<1> QED  BY <1>1, <1>3, <1>4 DEF IsBooked

LEMMA RealisedBook ==
    ASSUME NEW book, BookOK(book), book.account.exists, NEW p \in Positions,
           NEW close, close.mark \in Int, close.used \subseteq Clock, Kept(book.ledger, p, close)
    PROVE  LET next == Realised(book, p, close) IN
           /\ OnlyFor(p, book, next)
           /\ Kept(next.ledger, p, close) /\ IsBooked(next.ledger, p)
<1>1. CASE IsBooked(book.ledger, p)
  BY <1>1, OnlyForNothing DEF Realised
<1>2. CASE ~IsBooked(book.ledger, p)
  <2> DEFINE l == book.ledger
             e == Entry("realised", p, Result(p, close), Funding(p, close), book.account.cash)
             next == Realised(book, p, close)
  <2>1. Funding(p, close) \in Int /\ Result(p, close) \in Int
    BY FundingIsInt DEF Result
  <2>2. next = Appended(book, "realised", p, Result(p, close), Funding(p, close))
    BY <1>2 DEF Realised
  <2>3. e \in Entries /\ next.ledger = Append(l, e) /\ OnlyFor(p, book, next)
    BY <2>1, <2>2, AppendedBook
  <2>4. e.p = p /\ e.kind = "realised" /\ e.amount = Result(p, close) /\ e.funding = Funding(p, close)
    BY DEF Entry
  <2>5. l \in Seq(Entries) /\ EntriesOf(l, p, "realised") = {} /\ EntriesOf(l, p, "adjustment") = {}
    BY <1>2 DEF BookOK, IsBooked, Kept
  <2> DEFINE n == Len(l) + 1
  <2> HIDE DEF l, e, next
  <2>6. EntriesOf(Append(l, e), p, "realised") = EntriesOf(l, p, "realised") \union {n} /\ Append(l, e)[n] = e
    BY <2>3, <2>4, <2>5, AppendedEntries
  <2>7. EntriesOf(next.ledger, p, "realised") = {n}
    BY <2>3, <2>5, <2>6
  <2>8. n \in DOMAIN next.ledger
    BY <2>7 DEF EntriesOf
  <2>9. next.ledger[n].amount = Result(p, close) /\ next.ledger[n].funding = Funding(p, close)
    BY <2>3, <2>4, <2>6
  <2>10. Kept(next.ledger, p, close) /\ IsBooked(next.ledger, p)
    BY <2>7, <2>8, <2>9 DEF Kept, IsBooked
  <2> QED  BY <2>3, <2>10 DEF next
<1> QED  BY <1>1, <1>2

LEMMA AdjustedBook ==
    ASSUME NEW book, BookOK(book), book.account.exists, NEW p \in Positions,
           NEW close, Kept(book.ledger, p, close), IsBooked(book.ledger, p),
           NEW state, state.used \subseteq Clock
    PROVE  LET next == Adjusted(book, p, state) IN
           /\ OnlyFor(p, book, next)
           /\ Kept(next.ledger, p, close) /\ IsBooked(next.ledger, p)
           /\ Charged(next.ledger, p) = Funding(p, state)
<1> DEFINE l == book.ledger
           change == Funding(p, state) - Charged(l, p)
<1>1. /\ l \in Seq(Entries) /\ Funding(p, state) \in Int
      /\ FundingOf(l, p, "realised") \in Int /\ FundingOf(l, p, "adjustment") \in Int /\ Charged(l, p) \in Int
  BY FundingIsInt, SumsOfEntries DEF BookOK, Charged
<1>2. CASE change = 0
  <2>1. Charged(l, p) = Funding(p, state)
    BY <1>1, <1>2
  <2> QED  BY <1>2, <2>1, OnlyForNothing DEF Adjusted
<1>3. CASE change # 0
  <2> DEFINE e == Entry("adjustment", p, -change, change, book.account.cash)
             next == Adjusted(book, p, state)
  <2>1. change \in Int /\ -change \in Int
    BY <1>1
  <2>2. next = Appended(book, "adjustment", p, -change, change)
    BY <1>3 DEF Adjusted
  <2>3. e.p = p /\ e.kind = "adjustment" /\ e.funding = change
    BY DEF Entry
  <2> HIDE DEF change
  <2>4. e \in Entries /\ next.ledger = Append(l, e) /\ OnlyFor(p, book, next)
    BY <2>1, <2>2, AppendedBook
  <2> HIDE DEF l, e, next
  <2>5. EntriesOf(next.ledger, p, "realised") = EntriesOf(l, p, "realised")
    <3>1. EntriesOf(Append(l, e), p, "realised") =
            EntriesOf(l, p, "realised") \union (IF e.p = p /\ e.kind = "realised" THEN {Len(l) + 1} ELSE {})
      BY <1>1, <2>4, AppendedEntries
    <3> QED  BY <2>3, <2>4, <3>1
  <2>6. \A i \in DOMAIN l : next.ledger[i] = l[i]
    BY <1>1, <2>4, AppendedEntries
  <2>7. IsBooked(next.ledger, p)
    BY <2>5 DEF IsBooked, l
  <2>8. Kept(next.ledger, p, close)
    <3>1. PICK i \in DOMAIN l :
             /\ EntriesOf(l, p, "realised") = {i}
             /\ l[i].amount = Result(p, close) /\ l[i].funding = Funding(p, close)
      BY DEF Kept, IsBooked, l
    <3>2. i \in DOMAIN next.ledger
      BY <2>5, <3>1 DEF EntriesOf
    <3> QED  BY <2>5, <2>6, <3>1, <3>2 DEF Kept
  <2>9. Charged(next.ledger, p) = Funding(p, state)
    <3>1. FundingOf(next.ledger, p, "realised") = FundingOf(l, p, "realised")
      BY <1>1, <2>3, <2>4, AppendedSums
    <3>2. FundingOf(next.ledger, p, "adjustment") = FundingOf(l, p, "adjustment") + change
      BY <1>1, <2>3, <2>4, AppendedSums
    <3> QED  BY <1>1, <3>1, <3>2 DEF Charged, change
  <2> QED  BY <2>4, <2>7, <2>8, <2>9 DEF next
<1> QED  BY <1>2, <1>3

-----------------------------------------------------------------------------
(* Type correctness. *)

Book0 == [account |-> account, ledger |-> ledger]

(* Everything a step may do to the account and its ledger by booking p.      *)
BookedFor(p, close, state) ==
    /\ account' \in Accounts /\ ledger' \in Seq(Entries) /\ account'.exists
    /\ account'.peak = IF account.exists THEN account.peak ELSE Capital
    /\ account'.cash = (IF account.exists THEN account.cash ELSE Capital) + (Made(ledger', p) - Made(ledger, p))
    /\ \A q \in Positions \ {p} : SameFor(ledger, ledger', q)
    /\ Kept(ledger', p, close) /\ IsBooked(ledger', p)
    /\ Charged(ledger', p) = Funding(p, state)

AccountOK ==
    /\ account \in Accounts /\ ledger \in Seq(Entries)
    /\ ~account.exists => ledger = <<>>

LEMMA BookStep ==
    ASSUME AccountOK, NEW p \in Positions,
           NEW close, close.mark \in Int, close.used \subseteq Clock, Kept(ledger, p, close),
           NEW state, state.used \subseteq Clock, Book(p, close, state, FALSE)
    PROVE  BookedFor(p, close, state) /\ Unlocked /\ behind' = behind \ {p}
<1> DEFINE o == Opened(Book0)
           r == Realised(o, p, close)
           a == Adjusted(r, p, state)
<1>1. Book0.account = account /\ Book0.ledger = ledger /\ BookOK(Book0)
  BY DEF Book0, AccountOK, BookOK
<1>2. /\ BookOK(o) /\ o.account.exists
      /\ o.account.cash = IF account.exists THEN account.cash ELSE Capital
      /\ o.account.peak = IF account.exists THEN account.peak ELSE Capital
      /\ \A q \in Positions : SameFor(ledger, o.ledger, q)
  <2> HIDE DEF o
  <2> QED  BY <1>1, OpenedBook DEF o
<1>3. ledger \in Seq(Entries) /\ o.ledger \in Seq(Entries)
  BY <1>2 DEF AccountOK, BookOK
<1> HIDE DEF o
<1>4. Kept(o.ledger, p, close) /\ Made(o.ledger, p) = Made(ledger, p)
  BY <1>2, <1>3, SameForKept
<1>5. OnlyFor(p, o, r) /\ Kept(r.ledger, p, close) /\ IsBooked(r.ledger, p)
  BY <1>2, <1>4, RealisedBook
<1>6. BookOK(r) /\ r.account.exists
  BY <1>5 DEF OnlyFor
<1> HIDE DEF r
<1>7. OnlyFor(p, r, a) /\ Kept(a.ledger, p, close) /\ IsBooked(a.ledger, p) /\ Charged(a.ledger, p) = Funding(p, state)
  BY <1>5, <1>6, AdjustedBook
<1> HIDE DEF a
<1>8. OnlyFor(p, o, a)
  BY <1>2, <1>5, <1>7, OnlyForTwice
<1>9. account' = a.account /\ ledger' = a.ledger /\ Unlocked /\ behind' = behind \ {p}
  BY DEF Book, Booked, Book0, a, r, o
<1>10. \A q \in Positions \ {p} : SameFor(ledger, a.ledger, q)
  BY <1>2, <1>8 DEF OnlyFor, SameFor
<1>11. BookOK(a) /\ a.account.exists /\ a.account.peak = o.account.peak
       /\ a.account.cash = o.account.cash + (Made(a.ledger, p) - Made(o.ledger, p))
  BY <1>8 DEF OnlyFor
<1> QED  BY <1>2, <1>4, <1>7, <1>9, <1>10, <1>11 DEF BookedFor, BookOK

-----------------------------------------------------------------------------
(* Steps that leave the positions, the ledger and the account alone. *)

(* What the ledger and the rows hold of a position.                         *)
LedgerOf(p) ==
    /\ pos[p].status = "none" => pos[p] = Unopened
    /\ Closed(p) => closeEvent[p].mark = pos[p].mark
    /\ Kept(ledger, p, closeEvent[p])
    /\ IsBooked(ledger, p) => Closed(p)
    /\ Closed(p) /\ p \notin behind => IsBooked(ledger, p) /\ Charged(ledger, p) = Funding(p, pos[p])
    /\ Closed(p) /\ pos[p].used # rows[p] => p \in lost

(* The cash is the capital and what the ledger says each position made.     *)
AllMade(entries) == SumFunctionOnSet([p \in Positions |-> Made(entries, p)], Positions)
CashIsTrue == account.exists => account.cash = Capital + AllMade(ledger)

(* While the monitor holds the account's row its cash is the account's.     *)
MonitorIsTrue == monitor.at = "locked" => account.exists /\ monitor.cash = account.cash

Inv ==
    /\ TypeOK
    /\ ~account.exists => ledger = <<>>
    /\ \A p \in Positions : LedgerOf(p)
    /\ CashIsTrue
    /\ MonitorIsTrue

LEMMA UnopenedState == Unopened \in States
BY NumbersAssumption DEF Unopened, States

LEMMA NothingBooked ==
    ASSUME NEW p
    PROVE  /\ EntriesOf(<<>>, p, "realised") = {} /\ EntriesOf(<<>>, p, "adjustment") = {}
           /\ Made(<<>>, p) = 0
<1>1. EntriesOf(<<>>, p, "realised") = {} /\ EntriesOf(<<>>, p, "adjustment") = {}
  BY DEF EntriesOf
<1>2. AmountOf(<<>>, p, "realised") = 0 /\ FundingOf(<<>>, p, "adjustment") = 0
  BY <1>1, NothingOf
<1> QED  BY <1>1, <1>2 DEF Made

LEMMA InitInv == Init => Inv
<1> SUFFICES ASSUME Init PROVE Inv  OBVIOUS
<1>1. hour \in 0..LastHour /\ published \subseteq 1..hour /\ older \in 0..PassLimit /\ faults \in 0..MaxFaults
  BY NumbersAssumption DEF Init
<1>2. pos \in [Positions -> States] /\ closeEvent \in [Positions -> States]
  BY UnopenedState DEF Init
<1>3. rows \in [Positions -> SUBSET Clock] /\ \A p \in Positions : rows[p] \subseteq Expected(pos[p], pos[p].through)
  BY DEF Init
<1>4. account \in [exists: BOOLEAN, cash: Int, last: Nat, peak: Int] /\ ~account.exists
  BY DEF Init, Absent
<1>5. ledger \in Seq(Entries) /\ ledger = <<>>
  BY DEF Init
<1>6. work \in [Workers -> Jobs]
  BY DEF Init, Jobs
<1>7. TypeOK
  BY <1>1, <1>2, <1>3, <1>4, <1>5, <1>6 DEF Init, TypeOK
<1>8. ASSUME NEW p \in Positions PROVE LedgerOf(p)
  <2>1. pos[p] = Unopened /\ ~Closed(p)
    BY DEF Init, Closed, Unopened
  <2>2. Kept(ledger, p, closeEvent[p]) /\ ~IsBooked(ledger, p)
    BY <1>5, NothingBooked DEF Kept, IsBooked
  <2> QED  BY <2>1, <2>2 DEF LedgerOf
<1>9. CashIsTrue /\ MonitorIsTrue
  BY <1>4 DEF CashIsTrue, MonitorIsTrue, Init, Idle
<1> QED  BY <1>4, <1>5, <1>7, <1>8, <1>9 DEF Inv

LEMMA JobTypes ==
    ASSUME TypeOK, NEW w \in Workers
    PROVE  /\ work[w].at = "fetch" => work[w].p \in Positions /\ work[w].need \subseteq Clock
           /\ work[w].at = "store" =>
                /\ work[w].p \in Positions /\ work[w].seen \in 0..LastHour /\ work[w].rates \subseteq Clock
<1>1. work[w] \in Jobs
  BY DEF TypeOK
<1> QED  BY <1>1 DEF Jobs, Idle

LEMMA PositionTypes ==
    ASSUME TypeOK, NEW p \in Positions
    PROVE  /\ pos[p] \in States /\ closeEvent[p] \in States
           /\ pos[p].mark \in Int /\ closeEvent[p].mark \in Int
           /\ pos[p].used \subseteq Clock /\ closeEvent[p].used \subseteq Clock
           /\ pos[p].entry \in 0..LastHour /\ pos[p].through \in 0..LastHour
           /\ rows[p] \subseteq Clock /\ rows[p] \subseteq Expected(pos[p], pos[p].through)
<1>1. pos[p] \in States /\ closeEvent[p] \in States /\ rows[p] \subseteq Clock
      /\ rows[p] \subseteq Expected(pos[p], pos[p].through)
  BY DEF TypeOK
<1>2. ASSUME NEW s \in States
      PROVE  s.mark \in Int /\ s.used \subseteq Clock /\ s.entry \in 0..LastHour /\ s.through \in 0..LastHour
  <2>1. s.mark \in Marks \union {0} /\ s.used \in SUBSET Clock /\ s.entry \in 0..LastHour /\ s.through \in 0..LastHour
    BY DEF States
  <2>2. Marks \union {0} \subseteq Int
    BY NumbersAssumption
  <2> QED  BY <2>1, <2>2
<1> QED  BY <1>1, <1>2

quiet == <<tables, monitor, hist>>

LEMMA QuietInv ==
    ASSUME Inv, TypeOK', UNCHANGED quiet
    PROVE  Inv'
<1>1. UNCHANGED <<pos, rows, closeEvent, account, ledger, monitor, behind, lost>>
  BY DEF quiet, tables, hist
<1>2. (~account.exists => ledger = <<>>)'
  BY <1>1 DEF Inv
<1>3. (\A p \in Positions : LedgerOf(p))'
  BY <1>1 DEF Inv, LedgerOf, Closed
<1>4. CashIsTrue' /\ MonitorIsTrue'
  BY <1>1 DEF Inv, CashIsTrue, MonitorIsTrue
<1> QED  BY <1>2, <1>3, <1>4 DEF Inv

(* Typing needs only what changes: the clock, what is published, the older   *)
(* positions, what the workers do.                                                              *)
LEMMA QuietTypes ==
    ASSUME TypeOK, UNCHANGED quiet, hour' \in 0..LastHour, published' \subseteq 1..hour',
           todo' \subseteq Positions, work' \in [Workers -> Jobs], older' \in 0..PassLimit,
           faults' \in 0..MaxFaults
    PROVE  TypeOK'
<1>1. UNCHANGED <<pos, rows, closeEvent, account, ledger, monitor, behind, lost>>
  BY DEF quiet, tables, hist
<1> QED  BY <1>1 DEF TypeOK

LEMMA FaultType ==
    ASSUME faults \in 0..MaxFaults, NEW happens, Fault(happens)
    PROVE  faults' \in 0..MaxFaults
BY NumbersAssumption DEF Fault

LEMMA WorkType ==
    ASSUME TypeOK, NEW w \in Workers, NEW job \in Jobs
    PROVE  [work EXCEPT ![w] = job] \in [Workers -> Jobs]
BY DEF TypeOK

LEMMA DoneType ==
    ASSUME TypeOK, NEW w \in Workers, Done(w)
    PROVE  work' \in [Workers -> Jobs]
BY WorkType DEF Done, Jobs

LEMMA ReadType ==
    ASSUME TypeOK, NEW w \in Workers, NEW p \in Positions, Read(w, p)
    PROVE  work' \in [Workers -> Jobs]
<1> DEFINE need == Expected(pos[p], IF Closed(p) THEN pos[p].through ELSE hour) \ rows[p]
<1>1. need \subseteq Clock
  BY DEF Expected
<1> HIDE DEF need
<1>2. [at |-> "fetch", p |-> p, need |-> need] \in Jobs
  BY <1>1 DEF Jobs
<1>3. work' = [work EXCEPT ![w] = [at |-> "fetch", p |-> p, need |-> need]]
  BY DEF Read, need
<1> QED  BY <1>2, <1>3, WorkType

LEMMA QuietSteps ==
    ASSUME Inv
    PROVE  /\ Tick => Inv'
           /\ \A h \in Clock : Publish(h) => Inv'
           /\ Others => Inv'
           /\ StartPass => Inv'
           /\ \A p \in Positions : (Observe(p) => Inv') /\ (Kill(p) => Inv')
           /\ \A w \in Workers : (Fetch(w) => Inv') /\ (Abandon(w) => Inv') /\ (Outdated(w) => Inv')
<1>0. TypeOK
  BY DEF Inv
<1>1. hour \in 0..LastHour /\ published \subseteq 1..hour /\ todo \subseteq Positions
      /\ work \in [Workers -> Jobs] /\ older \in 0..PassLimit /\ faults \in 0..MaxFaults
  BY <1>0 DEF TypeOK
<1>2. ASSUME Tick PROVE Inv'
  <2>1. UNCHANGED quiet /\ UNCHANGED <<published, older, todo, work, faults>> /\ hour' = hour + 1 /\ hour < LastHour
    BY <1>2 DEF Tick, quiet
  <2>2. hour' \in 0..LastHour /\ published' \subseteq 1..hour'
    BY <1>1, <2>1, NumbersAssumption
  <2> QED  BY <1>0, <1>1, <2>1, <2>2, QuietTypes, QuietInv
<1>3. ASSUME NEW h \in Clock, Publish(h) PROVE Inv'
  <2>1. UNCHANGED quiet /\ UNCHANGED <<hour, older, todo, work, faults>> /\ published' = published \union {h} /\ h <= hour
    BY <1>3 DEF Publish, quiet
  <2>2. published' \subseteq 1..hour'
    BY <1>1, <2>1 DEF Clock
  <2> QED  BY <1>0, <1>1, <2>1, <2>2, QuietTypes, QuietInv
<1>4. ASSUME StartPass PROVE Inv'
  <2>1. UNCHANGED quiet /\ UNCHANGED <<hour, published, older, work, faults>> /\ todo' \subseteq Positions
    BY <1>4 DEF StartPass, quiet
  <2> QED  BY <1>0, <1>1, <2>1, QuietTypes, QuietInv
<1>5. ASSUME NEW p \in Positions, Observe(p) PROVE Inv'
  <2>1. UNCHANGED quiet /\ UNCHANGED <<hour, published, older, faults>> /\ todo' \subseteq Positions /\ Read("observer", p)
    BY <1>1, <1>5 DEF Observe, quiet
  <2>2. work' \in [Workers -> Jobs]
    BY <1>0, <2>1, ReadType DEF Workers
  <2> QED  BY <1>0, <1>1, <2>1, <2>2, QuietTypes, QuietInv
<1>6. ASSUME NEW p \in Positions, Kill(p) PROVE Inv'
  <2>1. UNCHANGED quiet /\ UNCHANGED <<hour, published, older, todo, faults>> /\ Read("kill", p)
    BY <1>6 DEF Kill, quiet
  <2>2. work' \in [Workers -> Jobs]
    BY <1>0, <2>1, ReadType DEF Workers
  <2> QED  BY <1>0, <1>1, <2>1, <2>2, QuietTypes, QuietInv
<1>7. ASSUME NEW w \in Workers, Fetch(w) PROVE Inv'
  <2>1. UNCHANGED quiet /\ UNCHANGED <<hour, published, older, todo>> /\ work[w].at = "fetch"
    BY <1>7 DEF Fetch, quiet
  <2>2. PICK failed \in BOOLEAN, seen \in {hour - 1, hour} \intersect Nat :
           /\ Fault(failed)
           /\ work' = [work EXCEPT ![w] =
                         [at |-> "store", p |-> @.p, seen |-> seen,
                          rates |-> IF failed THEN {} ELSE @.need \intersect published]]
    BY <1>7 DEF Fetch
  <2>3. seen \in 0..LastHour
    BY <1>1, NumbersAssumption
  <2> DEFINE rates == IF failed THEN {} ELSE work[w].need \intersect published
  <2>4. work[w].p \in Positions /\ rates \subseteq Clock
    BY <1>0, <2>1, JobTypes
  <2> HIDE DEF rates
  <2>5. [at |-> "store", p |-> work[w].p, seen |-> seen, rates |-> rates] \in Jobs
    BY <2>3, <2>4 DEF Jobs
  <2>6. work' = [work EXCEPT ![w] = [at |-> "store", p |-> work[w].p, seen |-> seen, rates |-> rates]]
    BY <1>1, <2>2 DEF rates
  <2>7. work' \in [Workers -> Jobs] /\ faults' \in 0..MaxFaults
    BY <1>0, <1>1, <2>2, <2>5, <2>6, WorkType, FaultType
  <2> QED  BY <1>0, <1>1, <2>1, <2>7, QuietTypes, QuietInv
<1>8. ASSUME NEW w \in Workers, Abandon(w) PROVE Inv'
  <2>1. UNCHANGED quiet /\ UNCHANGED <<hour, published, older, todo>> /\ Done(w) /\ Fault(TRUE)
    BY <1>8 DEF Abandon, quiet
  <2>2. work' \in [Workers -> Jobs] /\ faults' \in 0..MaxFaults
    BY <1>0, <1>1, <2>1, DoneType, FaultType
  <2> QED  BY <1>0, <1>1, <2>1, <2>2, QuietTypes, QuietInv
<1>9. ASSUME NEW w \in Workers, Outdated(w) PROVE Inv'
  <2>1. UNCHANGED quiet /\ UNCHANGED <<hour, published, older, todo, faults>> /\ Done(w)
    BY <1>9 DEF Outdated, quiet
  <2>2. work' \in [Workers -> Jobs]
    BY <1>0, <2>1, DoneType
  <2> QED  BY <1>0, <1>1, <2>1, <2>2, QuietTypes, QuietInv
<1>10. ASSUME Others PROVE Inv'
  <2>1. UNCHANGED quiet /\ UNCHANGED <<hour, published, todo, work, faults>> /\ older' \in 0..PassLimit
    BY <1>10 DEF Others, quiet
  <2> QED  BY <1>0, <1>1, <2>1, QuietTypes, QuietInv
<1> QED  BY <1>2, <1>3, <1>4, <1>5, <1>6, <1>7, <1>8, <1>9, <1>10

-----------------------------------------------------------------------------
(* The account: cash moves with what the ledger says was made. *)

LEMMA FinitePositions == IsFiniteSet(Positions)
BY PositionsAssumption

LEMMA MadeOfAll ==
    ASSUME NEW entries \in Seq(Entries)
    PROVE  AllMade(entries) \in Int
<1> DEFINE f == [p \in Positions |-> Made(entries, p)]
<1>1. \A p \in Positions : f[p] \in Int
  BY MadeIsInt
<1>2. SumFunctionOnSet(f, Positions) \in Int
  <2> HIDE DEF f
  <2> QED  BY <1>1, FinitePositions, SumInt
<1> QED  BY <1>2 DEF AllMade

LEMMA MadeOfNone == AllMade(<<>>) = 0
<1> DEFINE f == [p \in Positions |-> Made(<<>>, p)]
<1>1. \A p \in Positions : f[p] = 0
  BY NothingBooked
<1>2. SumFunctionOnSet(f, Positions) = 0
  <2> HIDE DEF f
  <2> QED  BY <1>1, FinitePositions, SumZero
<1> QED  BY <1>2 DEF AllMade

LEMMA MadeOfSame ==
    ASSUME NEW entries \in Seq(Entries), NEW others \in Seq(Entries),
           \A q \in Positions : SameFor(entries, others, q)
    PROVE  AllMade(others) = AllMade(entries)
<1> DEFINE f == [p \in Positions |-> Made(entries, p)]
           g == [p \in Positions |-> Made(others, p)]
<1>1. \A p \in Positions : g[p] = f[p]
  BY SameForMade
<1>2. SumFunctionOnSet(g, Positions) = SumFunctionOnSet(f, Positions)
  <2> HIDE DEF f, g
  <2> QED  BY <1>1, FinitePositions, SumSame
<1> QED  BY <1>2 DEF AllMade

LEMMA MadeOfOne ==
    ASSUME NEW entries \in Seq(Entries), NEW others \in Seq(Entries), NEW p \in Positions,
           \A q \in Positions \ {p} : SameFor(entries, others, q)
    PROVE  AllMade(others) = AllMade(entries) + (Made(others, p) - Made(entries, p))
<1> DEFINE f == [q \in Positions |-> Made(entries, q)]
           g == [q \in Positions |-> Made(others, q)]
<1>1. \A q \in Positions : f[q] \in Int /\ g[q] \in Int
  BY MadeIsInt
<1>2. \A q \in Positions \ {p} : g[q] = f[q]
  BY SameForMade
<1>3. SumFunctionOnSet(g, Positions) = SumFunctionOnSet(f, Positions) + (g[p] - f[p])
  <2> HIDE DEF f, g
  <2> QED  BY <1>1, <1>2, FinitePositions, SumAt
<1> QED  BY <1>3 DEF AllMade

LEMMA CashStep ==
    ASSUME AccountOK, CashIsTrue, NEW p \in Positions, NEW close, NEW state, BookedFor(p, close, state)
    PROVE  CashIsTrue'
<1>1. ledger \in Seq(Entries) /\ ledger' \in Seq(Entries) /\ account.cash \in Int
  BY DEF AccountOK, BookedFor, Accounts
<1>2. AllMade(ledger') = AllMade(ledger) + (Made(ledger', p) - Made(ledger, p))
  BY <1>1, MadeOfOne DEF BookedFor
<1>3. AllMade(ledger) \in Int /\ Made(ledger', p) \in Int /\ Made(ledger, p) \in Int /\ Capital \in Int
  BY <1>1, MadeOfAll, MadeIsInt, NumbersAssumption
<1>4. (IF account.exists THEN account.cash ELSE Capital) = Capital + AllMade(ledger)
  <2>1. CASE account.exists
    BY <2>1 DEF CashIsTrue
  <2>2. CASE ~account.exists
    BY <1>3, <2>2, MadeOfNone DEF AccountOK
  <2> QED  BY <2>1, <2>2
<1>5. account'.cash = (IF account.exists THEN account.cash ELSE Capital) + (Made(ledger', p) - Made(ledger, p))
  BY DEF BookedFor
<1>6. account'.cash = Capital + AllMade(ledger')
  <2> DEFINE base == IF account.exists THEN account.cash ELSE Capital
  <2> HIDE DEF base
  <2> QED  BY <1>2, <1>3, <1>4, <1>5 DEF base
<1> QED  BY <1>6 DEF CashIsTrue, AllMade

(* A position the step does not touch keeps what its ledger, its rows and    *)
(* its history say.                                                         *)
LEMMA OthersKept ==
    ASSUME Inv, ledger' \in Seq(Entries), NEW q \in Positions, SameFor(ledger, ledger', q),
           pos'[q] = pos[q], rows'[q] = rows[q], closeEvent'[q] = closeEvent[q],
           q \in behind' <=> q \in behind, q \in lost' <=> q \in lost
    PROVE  LedgerOf(q)'
<1>1. ledger \in Seq(Entries) /\ LedgerOf(q)
  BY DEF Inv, TypeOK
<1>2. /\ Kept(ledger, q, closeEvent[q]) => Kept(ledger', q, closeEvent[q])
      /\ IsBooked(ledger', q) = IsBooked(ledger, q) /\ Charged(ledger', q) = Charged(ledger, q)
  BY <1>1, SameForKept
<1>3. Closed(q)' <=> Closed(q)
  BY DEF Closed
<1> QED  BY <1>1, <1>2, <1>3 DEF LedgerOf

LEMMA OpenPositionInv ==
    ASSUME Inv, NEW p \in Positions, OpenPosition(p)
    PROVE  Inv'
<1>0. TypeOK
  BY DEF Inv
<1>1. /\ UNCHANGED <<hour, published, older, rows, closeEvent, account, ledger, todo, work, monitor, behind, lost, faults>>
      /\ pos' = [pos EXCEPT ![p] = [Unopened EXCEPT !.status = "open", !.entry = hour, !.through = hour]]
      /\ pos[p].status = "none"
  BY DEF OpenPosition, hist
<1>2. pos' = [pos EXCEPT ![p] = [status |-> "open", entry |-> hour, through |-> hour, mark |-> 0, used |-> {}]]
  <2> DEFINE opened == [Unopened EXCEPT !.status = "open", !.entry = hour, !.through = hour]
  <2>1. opened = [[[Unopened EXCEPT !.status = "open"] EXCEPT !.entry = hour] EXCEPT !.through = hour]
    BY DEF Unopened
  <2>2. [Unopened EXCEPT !.status = "open"] = [status |-> "open", entry |-> 0, through |-> 0, mark |-> 0, used |-> {}]
    BY DEF Unopened
  <2>3. [[status |-> "open", entry |-> 0, through |-> 0, mark |-> 0, used |-> {}] EXCEPT !.entry = hour] =
          [status |-> "open", entry |-> hour, through |-> 0, mark |-> 0, used |-> {}]
    OBVIOUS
  <2>4. [[status |-> "open", entry |-> hour, through |-> 0, mark |-> 0, used |-> {}] EXCEPT !.through = hour] =
          [status |-> "open", entry |-> hour, through |-> hour, mark |-> 0, used |-> {}]
    OBVIOUS
  <2>5. opened = [status |-> "open", entry |-> hour, through |-> hour, mark |-> 0, used |-> {}]
    <3> HIDE DEF opened
    <3> QED  BY <2>1, <2>2, <2>3, <2>4, Zenon
  <2> HIDE DEF opened
  <2> QED  BY <1>1, <2>5 DEF opened
<1>3. hour \in 0..LastHour /\ pos \in [Positions -> States] /\ hour' = hour
  BY <1>0, <1>1 DEF TypeOK
<1>4. [status |-> "open", entry |-> hour, through |-> hour, mark |-> 0, used |-> {}] \in States
  BY <1>3 DEF States
<1>5. pos' \in [Positions -> States]
  BY <1>2, <1>3, <1>4
<1>6. ASSUME NEW q \in Positions PROVE rows'[q] \subseteq Expected(pos'[q], pos'[q].through)
  <2>1. rows'[q] = rows[q] /\ rows[q] \subseteq Expected(pos[q], pos[q].through)
    BY <1>0, <1>1, PositionTypes
  <2>2. CASE q # p
    BY <1>2, <1>3, <2>1, <2>2
  <2>3. CASE q = p
    <3>1. pos[p] = Unopened
      BY <1>1 DEF Inv, LedgerOf
    <3>2. Expected(Unopened, 0) = {}
      BY DEF Expected, Unopened, Clock
    <3> QED  BY <2>1, <2>3, <3>1, <3>2 DEF Unopened
  <2> QED  BY <2>2, <2>3
<1>7. TypeOK'
  BY <1>0, <1>1, <1>5, <1>6 DEF TypeOK
<1>8. ASSUME NEW q \in Positions PROVE LedgerOf(q)'
  <2>1. CASE q # p
    <3>1. pos'[q] = pos[q]
      BY <1>2, <1>3, <2>1
    <3> QED  BY <1>1, <1>7, <3>1, OthersKept DEF TypeOK, SameFor
  <2>2. CASE q = p
    <3>1. pos'[p].status = "open" /\ ~Closed(p) /\ ~Closed(p)'
      BY <1>1, <1>2, <1>3 DEF Closed
    <3> QED  BY <1>1, <2>2, <3>1 DEF Inv, LedgerOf
  <2> QED  BY <2>1, <2>2
<1>9. CashIsTrue' /\ MonitorIsTrue' /\ (~account.exists => ledger = <<>>)'
  BY <1>1 DEF Inv, CashIsTrue, MonitorIsTrue
<1> QED  BY <1>7, <1>8, <1>9 DEF Inv

LEMMA EnsureAccountInv ==
    ASSUME Inv, EnsureAccount
    PROVE  Inv'
<1>0. TypeOK /\ AccountOK
  BY DEF Inv, TypeOK, AccountOK, Accounts
<1> DEFINE o == Opened(Book0)
<1>1. /\ ~account.exists /\ Unlocked /\ account' = o.account /\ ledger' = o.ledger
      /\ UNCHANGED <<hour, published, older, pos, rows, closeEvent, todo, work, monitor, behind, lost, faults>>
  BY DEF EnsureAccount, Book0, hist
<1>2. Book0.account = account /\ Book0.ledger = ledger /\ BookOK(Book0)
  BY <1>0 DEF Book0, AccountOK, BookOK
<1>3. /\ BookOK(o) /\ o.account.exists /\ o.account.cash = Capital
      /\ \A q \in Positions : SameFor(ledger, o.ledger, q)
  <2> HIDE DEF o
  <2> QED  BY <1>1, <1>2, OpenedBook DEF o
<1>4. account' \in Accounts /\ ledger' \in Seq(Entries) /\ ledger \in Seq(Entries)
  BY <1>0, <1>1, <1>3 DEF BookOK, AccountOK
<1>5. TypeOK'
  BY <1>0, <1>1, <1>4 DEF TypeOK, Accounts
<1>6. ASSUME NEW q \in Positions PROVE LedgerOf(q)'
  BY <1>1, <1>3, <1>4, OthersKept
<1>7. AllMade(ledger') = 0
  <2>1. ledger = <<>>
    BY <1>1 DEF Inv
  <2>2. AllMade(ledger') = AllMade(ledger)
    BY <1>1, <1>3, <1>4, MadeOfSame
  <2> QED  BY <2>1, <2>2, MadeOfNone
<1>8. CashIsTrue'
  <2>1. account'.cash = Capital + AllMade(ledger')
    BY <1>1, <1>3, <1>7, NumbersAssumption
  <2> QED  BY <2>1 DEF CashIsTrue, AllMade
<1>9. MonitorIsTrue'
  BY <1>1 DEF MonitorIsTrue, Unlocked
<1>10. account'.exists
  BY <1>1, <1>3
<1> QED  BY <1>5, <1>6, <1>8, <1>9, <1>10 DEF Inv

LEMMA MonitorInv ==
    ASSUME Inv, LockAccount \/ RecordPeak
    PROVE  Inv'
<1>0. TypeOK /\ account \in Accounts /\ monitor \in {Idle} \union [at: {"locked"}, cash: Int]
  BY DEF Inv, TypeOK, Accounts
<1>1. CASE LockAccount
  <2>1. /\ UNCHANGED <<hour, published, older, pos, rows, closeEvent, account, ledger, todo, work, behind, lost, faults>>
        /\ account.exists /\ monitor' = [at |-> "locked", cash |-> account.cash]
    BY <1>1 DEF LockAccount, hist, tables
  <2>2. monitor' \in [at: {"locked"}, cash: Int]
    BY <1>0, <2>1 DEF Accounts
  <2>3. TypeOK'
    BY <1>0, <2>1, <2>2 DEF TypeOK
  <2>4. (\A p \in Positions : LedgerOf(p))'
    BY <2>1 DEF Inv, LedgerOf, Closed
  <2>5. CashIsTrue' /\ MonitorIsTrue' /\ (~account.exists => ledger = <<>>)'
    BY <2>1 DEF Inv, CashIsTrue, MonitorIsTrue
  <2> QED  BY <2>3, <2>4, <2>5 DEF Inv
<1>2. CASE RecordPeak
  <2> DEFINE marks == SumFunctionOnSet([p \in Positions |-> Result(p, pos[p])],
                                       {p \in Positions : pos[p].status = "open"})
             equity == monitor.cash + marks
  <2>1. /\ UNCHANGED <<hour, published, older, pos, rows, closeEvent, ledger, todo, work, behind, lost, faults>>
        /\ monitor # Idle /\ monitor' = Idle
        /\ account' = [account EXCEPT !.peak = IF equity > @ THEN equity ELSE @]
    BY <1>2 DEF RecordPeak, hist
  <2>2. monitor.at = "locked" /\ monitor.cash \in Int /\ account.exists
    BY <1>0, <2>1 DEF Inv, MonitorIsTrue
  <2>3. marks \in Int
    <3> DEFINE f == [p \in Positions |-> Result(p, pos[p])]
               S == {p \in Positions : pos[p].status = "open"}
    <3>1. IsFiniteSet(S) /\ S \subseteq Positions
      BY FinitePositions, FS_Subset
    <3>2. \A p \in S : f[p] \in Int
      BY <1>0, PositionTypes, FundingIsInt DEF Result
    <3> HIDE DEF f, S
    <3>3. SumFunctionOnSet(f, S) \in Int
      BY <3>1, <3>2, SumInt
    <3> QED  BY <3>3 DEF f, S
  <2>4. equity \in Int
    BY <2>2, <2>3
  <2> HIDE DEF marks, equity
  <2>5. account' \in Accounts /\ account'.exists = account.exists /\ account'.cash = account.cash
    BY <1>0, <2>1, <2>4 DEF Accounts
  <2>6. TypeOK'
    BY <1>0, <2>1, <2>5 DEF TypeOK, Accounts
  <2>7. (\A p \in Positions : LedgerOf(p))'
    BY <2>1 DEF Inv, LedgerOf, Closed
  <2>8. CashIsTrue' /\ MonitorIsTrue' /\ (~account.exists => ledger = <<>>)'
    BY <2>1, <2>2, <2>5 DEF Inv, CashIsTrue, MonitorIsTrue, Idle
  <2> QED  BY <2>6, <2>7, <2>8 DEF Inv
<1> QED  BY <1>1, <1>2

-----------------------------------------------------------------------------
(* Storing an observation, and storing late funding. *)

LEMMA SettledState ==
    ASSUME NEW s \in States, NEW u \in SUBSET Clock
    PROVE  LET r == [s EXCEPT !.used = u] IN
           /\ r \in States /\ r.used = u
           /\ r.status = s.status /\ r.entry = s.entry /\ r.through = s.through /\ r.mark = s.mark
BY DEF States

LEMMA AdvancedState ==
    ASSUME TypeOK, NEW w \in Workers, NEW s \in States, work[w].seen \in 0..LastHour,
           NEW status \in {"open", "closed"}, NEW mark \in Marks
    PROVE  LET a == Advanced(w, s, status, mark) IN
           /\ a \in States /\ a.status = status
           /\ a.through = work[w].seen /\ a.entry = s.entry /\ a.used = s.used
<1> DEFINE t == work[w].seen
           b == [s EXCEPT !.status = status]
           c == [b EXCEPT !.through = t]
           d == [c EXCEPT !.mark = mark]
<1>1. t \in 0..LastHour
  OBVIOUS
<1>2. Advanced(w, s, status, mark) = d
  BY DEF States, Advanced
<1> HIDE DEF t
<1>3. b \in States /\ b.status = status /\ b.entry = s.entry /\ b.used = s.used
  BY DEF States
<1> HIDE DEF b
<1>4. c \in States /\ c.status = status /\ c.entry = s.entry /\ c.used = s.used /\ c.through = t
  BY <1>1, <1>3 DEF States
<1> HIDE DEF c
<1>5. d \in States /\ d.status = status /\ d.entry = s.entry /\ d.used = s.used /\ d.through = t
  BY <1>4 DEF States
<1> QED  BY <1>2, <1>5 DEF t

(* A step that stores a state and rows for one position keeps the types.     *)
LEMMA StoredTypes ==
    ASSUME TypeOK, NEW w \in Workers, NEW p \in Positions, NEW result \in States, NEW stored \in SUBSET Clock,
           UNCHANGED <<hour, published, older, todo, monitor>>, Done(w), faults' \in 0..MaxFaults,
           pos' = [pos EXCEPT ![p] = result], rows' = [rows EXCEPT ![p] = stored],
           stored \subseteq Expected(result, result.through),
           closeEvent' = closeEvent \/ closeEvent' = [closeEvent EXCEPT ![p] = result],
           account' \in Accounts, ledger' \in Seq(Entries),
           behind' \subseteq Positions, lost' \subseteq Positions
    PROVE  TypeOK'
<1>1. pos \in [Positions -> States] /\ closeEvent \in [Positions -> States] /\ rows \in [Positions -> SUBSET Clock]
  BY DEF TypeOK
<1>2. pos' \in [Positions -> States] /\ closeEvent' \in [Positions -> States] /\ rows' \in [Positions -> SUBSET Clock]
  BY <1>1
<1>3. ASSUME NEW q \in Positions PROVE rows'[q] \subseteq Expected(pos'[q], pos'[q].through)
  <2>1. CASE q = p
    BY <1>1, <2>1
  <2>2. CASE q # p
    <3>1. rows'[q] = rows[q] /\ pos'[q] = pos[q]
      BY <1>1, <2>2
    <3> QED  BY <3>1 DEF TypeOK
  <2> QED  BY <2>1, <2>2
<1>4. work' \in [Workers -> Jobs]
  BY DoneType
<1> QED  BY <1>2, <1>3, <1>4 DEF TypeOK, Accounts

(* The rest of the invariant, when the step books the position, or leaves   *)
(* the account and its ledger alone.                                        *)
LEMMA StoredRest ==
    ASSUME Inv, TypeOK', NEW p \in Positions, NEW close, NEW state, LedgerOf(p)',
           \/ BookedFor(p, close, state) /\ Unlocked
           \/ UNCHANGED <<account, ledger>>,
           UNCHANGED monitor,
           \A q \in Positions \ {p} :
              /\ pos'[q] = pos[q] /\ rows'[q] = rows[q] /\ closeEvent'[q] = closeEvent[q]
              /\ q \in behind' <=> q \in behind
              /\ q \in lost' <=> q \in lost
    PROVE  Inv'
<1>1. AccountOK /\ CashIsTrue /\ ledger' \in Seq(Entries)
  BY DEF Inv, TypeOK, AccountOK, Accounts
<1>2. CASE BookedFor(p, close, state) /\ Unlocked
  <2>1. CashIsTrue'
    BY <1>1, <1>2, CashStep
  <2>2. account'.exists /\ monitor'.at # "locked"
    BY <1>2 DEF BookedFor, Unlocked
  <2>3. ASSUME NEW q \in Positions PROVE LedgerOf(q)'
    <3>1. CASE q # p
      BY <1>1, <1>2, <3>1, OthersKept DEF BookedFor
    <3> QED  BY <3>1
  <2> QED  BY <2>1, <2>2, <2>3 DEF Inv, MonitorIsTrue
<1>3. CASE UNCHANGED <<account, ledger>>
  <2>1. CashIsTrue' /\ MonitorIsTrue' /\ (~account.exists => ledger = <<>>)'
    BY <1>3 DEF Inv, CashIsTrue, MonitorIsTrue
  <2>2. ASSUME NEW q \in Positions PROVE LedgerOf(q)'
    <3>1. CASE q # p
      <4>1. SameFor(ledger, ledger', q)
        BY <1>3 DEF SameFor
      <4> QED  BY <1>1, <3>1, <4>1, OthersKept
    <3> QED  BY <3>1
  <2> QED  BY <2>1, <2>2 DEF Inv
<1> QED  BY <1>2, <1>3

(* What storing an observation does, once it is made.                       *)
StoredAs(w, p, status, mark, unread, unbooked) ==
    LET a == Advanced(w, pos[p], status, mark)
        stored == IF unread THEN rows[p] ELSE rows[p] \union SettledHours(w, p, a)
        result == [a EXCEPT !.used = IF unread THEN {} ELSE Expected(a, a.through) \intersect ReadBack(p, stored)]
    IN
    /\ Fault(unread \/ unbooked)
    /\ rows' = [rows EXCEPT ![p] = stored]
    /\ pos' = [pos EXCEPT ![p] = result]
    /\ IF status = "closed"
       THEN /\ closeEvent' = [closeEvent EXCEPT ![p] = result]
            /\ lost' = IF unread THEN lost \union {p} ELSE lost
            /\ Book(p, result, result, unbooked)
       ELSE ~unbooked /\ UNCHANGED <<closeEvent, lost, account, ledger, behind>>

LEMMA StoreOpenInv ==
    ASSUME Inv, NEW w \in Workers, StoreOpen(w)
    PROVE  Inv'
<1>0. TypeOK /\ AccountOK
  BY DEF Inv, TypeOK, AccountOK, Accounts
<1>3. PICK p \in Positions : p = work[w].p /\ work[w].seen \in 0..LastHour
  BY <1>0, JobTypes DEF StoreOpen
<1>1. /\ work[w].at = "store" /\ pos[p].status = "open" /\ pos[p].through <= work[w].seen
      /\ UNCHANGED <<hour, published, older, todo, monitor>> /\ Done(w)
  BY <1>3 DEF StoreOpen
<1>2. PICK status \in {"open", "closed"}, mark \in Marks, unread \in BOOLEAN, unbooked \in BOOLEAN :
         StoredAs(w, p, status, mark, unread, unbooked)
  <2>1. \E status \in {"open", "closed"}, mark \in Marks, unread, unbooked \in BOOLEAN :
           StoredAs(w, work[w].p, status, mark, unread, unbooked)
    BY DEF StoreOpen, StoredAs
  <2> QED  BY <1>3, <2>1
<1> DEFINE a == Advanced(w, pos[p], status, mark)
           stored == IF unread THEN rows[p] ELSE rows[p] \union SettledHours(w, p, a)
           u == IF unread THEN {} ELSE Expected(a, a.through) \intersect ReadBack(p, stored)
           result == [a EXCEPT !.used = u]
<1>4. pos[p] \in States /\ rows[p] \subseteq Clock /\ rows[p] \subseteq Expected(pos[p], pos[p].through)
      /\ pos[p].through \in 0..LastHour /\ pos[p].entry \in 0..LastHour
  BY <1>0, <1>3, PositionTypes
<1>5. /\ a \in States /\ a.status = status
      /\ a.through = work[w].seen /\ a.entry = pos[p].entry
  BY <1>0, <1>3, <1>4, AdvancedState
<1>6. rows[p] \subseteq Expected(a, a.through)
  BY <1>1, <1>3, <1>4, <1>5, NumbersAssumption DEF Expected, Clock
<1>7. stored \subseteq Expected(a, a.through) /\ stored \in SUBSET Clock
  BY <1>6 DEF SettledHours, SettleThrough, Expected
<1>8. u \in SUBSET Clock /\ (~unread => u = stored)
  BY <1>7 DEF ReadBack, Expected
<1>9. rows' = [rows EXCEPT ![p] = stored] /\ pos' = [pos EXCEPT ![p] = result] /\ Fault(unread \/ unbooked)
  BY <1>2 DEF StoredAs
<1>10. /\ status = "closed" =>
             /\ closeEvent' = [closeEvent EXCEPT ![p] = result]
             /\ lost' = IF unread THEN lost \union {p} ELSE lost
             /\ Book(p, result, result, unbooked)
       /\ status # "closed" => UNCHANGED <<closeEvent, lost, account, ledger, behind>>
  BY <1>2 DEF StoredAs
<1> HIDE DEF a, stored, u
<1>11. /\ result \in States /\ result.used = u /\ result.status = status
       /\ result.entry = a.entry /\ result.through = a.through
  BY <1>5, <1>8, SettledState
<1>12. stored \subseteq Expected(result, result.through)
  BY <1>7, <1>11 DEF Expected
<1>13. faults' \in 0..MaxFaults
  BY <1>0, <1>9, FaultType DEF TypeOK
<1>14. ~Closed(p) /\ ~IsBooked(ledger, p) /\ Kept(ledger, p, result)
  <2>1. ~Closed(p) /\ LedgerOf(p)
    BY <1>1, <1>3 DEF Closed, Inv
  <2> QED  BY <2>1 DEF LedgerOf, Kept, IsBooked
<1>15. pos \in [Positions -> States] /\ rows \in [Positions -> SUBSET Clock] /\ closeEvent \in [Positions -> States]
       /\ behind \subseteq Positions /\ lost \subseteq Positions
  BY <1>0 DEF TypeOK
<1> HIDE DEF result
<1>16. pos'[p] = result /\ rows'[p] = stored /\ \A q \in Positions \ {p} : pos'[q] = pos[q] /\ rows'[q] = rows[q]
  BY <1>3, <1>9, <1>15
<1>17. CASE status # "closed"
  <2>1. UNCHANGED <<closeEvent, lost, account, ledger, behind>>
    BY <1>10, <1>17
  <2>2. TypeOK'
    BY <1>0, <1>1, <1>3, <1>7, <1>9, <1>11, <1>12, <1>13, <1>15, <2>1, StoredTypes DEF AccountOK
  <2>3. LedgerOf(p)'
    <3>1. pos'[p].status = "open" /\ ~Closed(p)'
      BY <1>5, <1>11, <1>16, <1>17 DEF Closed
    <3>2. ~IsBooked(ledger, p)' /\ Kept(ledger, p, closeEvent[p])'
      BY <1>14, <2>1 DEF Kept, IsBooked
    <3> QED  BY <3>1, <3>2 DEF LedgerOf
  <2> QED  BY <1>1, <1>3, <1>16, <2>1, <2>2, <2>3, StoredRest
<1>18. CASE status = "closed"
  <2>1. /\ closeEvent' = [closeEvent EXCEPT ![p] = result]
        /\ lost' = IF unread THEN lost \union {p} ELSE lost
        /\ Book(p, result, result, unbooked)
    BY <1>10, <1>18
  <2>2. closeEvent'[p] = result /\ \A q \in Positions \ {p} : closeEvent'[q] = closeEvent[q]
    BY <1>3, <1>15, <2>1
  <2>3. result.mark \in Int /\ result.used \subseteq Clock
    <3>1. result.mark \in Marks \union {0} /\ result.used \in SUBSET Clock
      BY <1>11 DEF States
    <3>2. Marks \union {0} \subseteq Int
      BY NumbersAssumption
    <3> QED  BY <3>1, <3>2
  <2>4. pos'[p].status # "none" /\ Closed(p)'
    BY <1>11, <1>16, <1>18 DEF Closed
  <2>5. pos'[p].used # rows'[p] => p \in lost'
    BY <1>8, <1>11, <1>16, <2>1
  <2>6. lost' \subseteq Positions /\ \A q \in Positions \ {p} : q \in lost' <=> q \in lost
    BY <1>3, <1>15, <2>1
  <2>7. CASE unbooked
    <3>1. UNCHANGED <<account, ledger>> /\ behind' = behind \union {p}
      BY <2>1, <2>7 DEF Book
    <3>2. TypeOK'
      BY <1>0, <1>1, <1>3, <1>7, <1>9, <1>11, <1>12, <1>13, <1>15, <2>1, <2>6, <3>1, StoredTypes DEF AccountOK
    <3>3. LedgerOf(p)'
      <4>1. Kept(ledger, p, closeEvent[p])' /\ p \in behind'
        BY <1>14, <2>2, <3>1
      <4> QED  BY <1>16, <2>2, <2>4, <2>5, <4>1 DEF LedgerOf
    <3> QED  BY <1>1, <1>3, <1>15, <1>16, <2>2, <2>6, <3>1, <3>2, <3>3, StoredRest
  <2>8. CASE ~unbooked
    <3>1. BookedFor(p, result, result) /\ Unlocked /\ behind' = behind \ {p}
      <4>1. Book(p, result, result, FALSE)
        BY <2>1, <2>8 DEF Book
      <4> QED  BY <1>0, <1>3, <1>14, <2>3, <4>1, BookStep
    <3>2. account' \in Accounts /\ ledger' \in Seq(Entries)
      BY <3>1 DEF BookedFor
    <3>3. TypeOK'
      BY <1>0, <1>1, <1>3, <1>7, <1>9, <1>11, <1>12, <1>13, <1>15, <2>1, <2>6, <3>1, <3>2, StoredTypes
    <3>4. LedgerOf(p)'
      <4>1. Kept(ledger', p, result) /\ IsBooked(ledger', p) /\ Charged(ledger', p) = Funding(p, result)
        BY <3>1 DEF BookedFor
      <4>2. Kept(ledger, p, closeEvent[p])' /\ IsBooked(ledger, p)' /\ (Charged(ledger, p) = Funding(p, pos[p]))'
        BY <1>16, <2>2, <4>1
      <4> QED  BY <1>16, <2>2, <2>4, <2>5, <4>2 DEF LedgerOf
    <3> QED  BY <1>1, <1>3, <1>15, <1>16, <2>2, <2>6, <3>1, <3>3, <3>4, StoredRest
  <2> QED  BY <2>7, <2>8
<1> QED  BY <1>17, <1>18

LEMMA StoreClosedInv ==
    ASSUME Inv, StoreClosed
    PROVE  Inv'
<1>0. TypeOK /\ AccountOK /\ "observer" \in Workers
  BY DEF Inv, TypeOK, AccountOK, Accounts, Workers
<1>1. PICK p \in Positions : p = work["observer"].p /\ work["observer"].rates \subseteq Clock
  BY <1>0, JobTypes DEF StoreClosed
<1>2. Closed(p) /\ UNCHANGED <<hour, published, older, todo, monitor>> /\ Done("observer")
  BY <1>1 DEF StoreClosed
<1> DEFINE new == SettledHours("observer", p, pos[p])
           stored == rows[p] \union new
           u == Expected(pos[p], pos[p].through) \intersect ReadBack(p, stored)
           result == [pos[p] EXCEPT !.used = u]
<1>3. \/ UNCHANGED <<pos, rows, closeEvent, account, ledger, behind, lost>> /\ (UNCHANGED faults \/ Fault(TRUE))
      \/ \E unbooked \in BOOLEAN :
            /\ Fault(unbooked)
            /\ rows' = [rows EXCEPT ![p] = stored]
            /\ pos' = [pos EXCEPT ![p] = result]
            /\ lost' = lost \ {p}
            /\ Book(p, closeEvent[p], result, unbooked)
            /\ UNCHANGED closeEvent
  BY <1>1 DEF StoreClosed, tables, hist
<1>4. /\ pos \in [Positions -> States] /\ rows \in [Positions -> SUBSET Clock]
      /\ behind \subseteq Positions /\ lost \subseteq Positions /\ faults \in 0..MaxFaults
      /\ monitor' = monitor /\ work' \in [Workers -> Jobs]
  BY <1>0, <1>2, DoneType DEF TypeOK
<1>5. CASE UNCHANGED <<pos, rows, closeEvent, account, ledger, behind, lost>> /\ (UNCHANGED faults \/ Fault(TRUE))
  <2>1. UNCHANGED quiet
    BY <1>4, <1>5 DEF quiet, tables, hist
  <2>2. faults' \in 0..MaxFaults
    BY <1>4, <1>5, FaultType
  <2>3. hour' \in 0..LastHour /\ published' \subseteq 1..hour' /\ todo' \subseteq Positions /\ older' \in 0..PassLimit
    BY <1>0, <1>2 DEF TypeOK
  <2> QED  BY <1>0, <1>4, <2>1, <2>2, <2>3, QuietTypes, QuietInv
<1>6. ASSUME NEW unbooked \in BOOLEAN, Fault(unbooked), rows' = [rows EXCEPT ![p] = stored],
             pos' = [pos EXCEPT ![p] = result], lost' = lost \ {p},
             Book(p, closeEvent[p], result, unbooked), UNCHANGED closeEvent
      PROVE  Inv'
  <2>1. /\ pos[p] \in States /\ rows[p] \subseteq Clock /\ rows[p] \subseteq Expected(pos[p], pos[p].through)
        /\ closeEvent[p].mark \in Int /\ closeEvent[p].used \subseteq Clock
    BY <1>0, PositionTypes
  <2>2. stored \subseteq Expected(pos[p], pos[p].through) /\ stored \in SUBSET Clock
    BY <1>2, <2>1 DEF SettledHours, SettleThrough, Expected
  <2>3. u = stored /\ u \in SUBSET Clock
    BY <2>2 DEF ReadBack
  <2> HIDE DEF new, stored, u
  <2>4. /\ result \in States /\ result.used = u /\ result.status = pos[p].status
        /\ result.entry = pos[p].entry /\ result.through = pos[p].through /\ result.mark = pos[p].mark
    BY <2>1, <2>3, SettledState
  <2>5. stored \subseteq Expected(result, result.through)
    BY <2>2, <2>4 DEF Expected
  <2>6. faults' \in 0..MaxFaults
    BY <1>4, <1>6, FaultType
  <2> HIDE DEF result
  <2>7. pos'[p] = result /\ rows'[p] = stored /\ \A q \in Positions \ {p} : pos'[q] = pos[q] /\ rows'[q] = rows[q]
    BY <1>4, <1>6
  <2>8. /\ LedgerOf(p) /\ Kept(ledger, p, closeEvent[p]) /\ closeEvent'[p] = closeEvent[p]
        /\ closeEvent[p].mark = pos[p].mark
    BY <1>2, <1>6 DEF Inv, LedgerOf
  <2>9. pos'[p].status # "none" /\ Closed(p)' /\ closeEvent'[p].mark = pos'[p].mark /\ pos'[p].used = rows'[p]
    BY <1>2, <2>3, <2>4, <2>7, <2>8 DEF Closed
  <2>10. lost' \subseteq Positions /\ \A q \in Positions \ {p} : q \in lost' <=> q \in lost
    BY <1>4, <1>6
  <2>11. CASE unbooked
    <3>1. UNCHANGED <<account, ledger>> /\ behind' = behind \union {p}
      BY <1>6, <2>11 DEF Book
    <3>2. TypeOK'
      BY <1>0, <1>2, <1>4, <1>6, <2>2, <2>4, <2>5, <2>6, <2>10, <3>1, StoredTypes DEF AccountOK
    <3>3. LedgerOf(p)'
      <4>1. Kept(ledger, p, closeEvent[p])' /\ p \in behind'
        BY <2>8, <3>1
      <4> QED  BY <2>9, <4>1 DEF LedgerOf
    <3> QED  BY <1>2, <1>4, <1>6, <2>7, <2>10, <3>1, <3>2, <3>3, StoredRest
  <2>12. CASE ~unbooked
    <3>1. BookedFor(p, closeEvent[p], result) /\ Unlocked /\ behind' = behind \ {p}
      <4>1. Book(p, closeEvent[p], result, FALSE)
        BY <1>6, <2>12 DEF Book
      <4>2. result.used \subseteq Clock
        BY <2>3, <2>4
      <4> QED  BY <1>0, <2>1, <2>8, <4>1, <4>2, BookStep
    <3>2. account' \in Accounts /\ ledger' \in Seq(Entries)
      BY <3>1 DEF BookedFor
    <3>3. TypeOK'
      BY <1>0, <1>2, <1>4, <1>6, <2>2, <2>4, <2>5, <2>6, <2>10, <3>1, <3>2, StoredTypes
    <3>4. LedgerOf(p)'
      <4>1. Kept(ledger', p, closeEvent[p]) /\ IsBooked(ledger', p) /\ Charged(ledger', p) = Funding(p, result)
        BY <3>1 DEF BookedFor
      <4>2. Kept(ledger, p, closeEvent[p])' /\ IsBooked(ledger, p)' /\ (Charged(ledger, p) = Funding(p, pos[p]))'
        BY <2>7, <2>8, <4>1
      <4> QED  BY <2>9, <4>2 DEF LedgerOf
    <3> QED  BY <1>2, <1>4, <1>6, <2>7, <2>10, <3>1, <3>3, <3>4, StoredRest
  <2> QED  BY <2>11, <2>12
<1> QED  BY <1>3, <1>5, <1>6

LEMMA StepInv == Inv /\ [Next]_vars => Inv'
<1> SUFFICES ASSUME Inv, [Next]_vars PROVE Inv'  OBVIOUS
<1>1. CASE Next
  <2>1. ASSUME Tick PROVE Inv'  BY <2>1, QuietSteps
  <2>2. ASSUME NEW h \in Clock, Publish(h) PROVE Inv'  BY <2>2, QuietSteps
  <2>3. ASSUME NEW p \in Positions, OpenPosition(p) PROVE Inv'  BY <2>3, OpenPositionInv
  <2>4. ASSUME NEW p \in Positions, Observe(p) \/ Kill(p) PROVE Inv'  BY <2>4, QuietSteps
  <2>5. ASSUME Others \/ StartPass PROVE Inv'  BY <2>5, QuietSteps
  <2>6. ASSUME StoreClosed PROVE Inv'  BY <2>6, StoreClosedInv
  <2>7. ASSUME NEW w \in Workers, Fetch(w) \/ Abandon(w) \/ Outdated(w) PROVE Inv'  BY <2>7, QuietSteps
  <2>8. ASSUME NEW w \in Workers, StoreOpen(w) PROVE Inv'  BY <2>8, StoreOpenInv
  <2>9. ASSUME EnsureAccount PROVE Inv'  BY <2>9, EnsureAccountInv
  <2>10. ASSUME LockAccount \/ RecordPeak PROVE Inv'  BY <2>10, MonitorInv
  <2> QED  BY <1>1, <2>1, <2>2, <2>3, <2>4, <2>5, <2>6, <2>7, <2>8, <2>9, <2>10 DEF Next
<1>2. CASE UNCHANGED vars
  <2>1. TypeOK'
    BY <1>2 DEF Inv, TypeOK, vars, tables, hist
  <2>2. UNCHANGED quiet
    BY <1>2 DEF vars, quiet
  <2> QED  BY <2>1, <2>2, QuietInv
<1> QED  BY <1>1, <1>2

LEMMA InvAlways == Spec => []Inv
BY InitInv, StepInv, PTL DEF Spec

-----------------------------------------------------------------------------
(* The theorems. *)

(* Every variable has its type, and no funding row is for an hour its       *)
(* position was not observed to hold (settle_through, outstanding).         *)
THEOREM TypeCorrect == Spec => []TypeOK
<1>1. Inv => TypeOK
  BY DEF Inv
<1> QED  BY <1>1, InvAlways, PTL

(* book_position charges a position exactly its funding, once, however late *)
(* and in however many parts it was settled and its bookings failed.        *)
THEOREM ChargesExactly == Spec => []ChargedExactly
<1>1. Inv => ChargedExactly
  <2> SUFFICES ASSUME Inv, NEW p \in Positions
               PROVE  IF Closed(p)
                      THEN p \notin behind => /\ Cardinality(EntriesOf(ledger, p, "realised")) = 1
                                              /\ Charged(ledger, p) = Funding(p, pos[p])
                      ELSE EntriesOf(ledger, p, "realised") = {} /\ EntriesOf(ledger, p, "adjustment") = {}
    BY DEF ChargedExactly
  <2>1. LedgerOf(p)
    BY DEF Inv
  <2>2. CASE ~Closed(p)
    BY <2>1, <2>2 DEF LedgerOf, IsBooked, Kept
  <2>3. CASE Closed(p) /\ p \notin behind
    <3>1. \E i : EntriesOf(ledger, p, "realised") = {i}
      BY <2>1, <2>3 DEF LedgerOf, IsBooked, Kept
    <3>2. Cardinality(EntriesOf(ledger, p, "realised")) = 1
      BY <3>1, FS_Singleton
    <3> QED  BY <2>1, <2>3, <3>2 DEF LedgerOf
  <2> QED  BY <2>2, <2>3
<1> QED  BY <1>1, InvAlways, PTL

(* A closed position leaves out an hour that has a row only if its close    *)
(* could not read the rows back (settle_rows, update).                      *)
THEOREM LeavesOutLost == Spec => []LeftOutWasLost
<1>1. Inv => LeftOutWasLost
  BY DEF Inv, LedgerOf, LeftOutWasLost
<1> QED  BY <1>1, InvAlways, PTL

(* What the ledger says a closed position made, when nothing is behind.     *)
LEMMA MadeOfBooked ==
    ASSUME Inv, NEW p \in Positions, Closed(p), IsBooked(ledger, p), Charged(ledger, p) = Funding(p, pos[p])
    PROVE  Made(ledger, p) = Result(p, pos[p])
<1>1. LedgerOf(p) /\ ledger \in Seq(Entries) /\ TypeOK
  BY DEF Inv, TypeOK
<1>2. closeEvent[p].mark \in Int /\ closeEvent[p].used \subseteq Clock /\ pos[p].used \subseteq Clock
      /\ pos[p].mark = closeEvent[p].mark
  BY <1>1, PositionTypes DEF LedgerOf
<1>3. /\ AmountOf(ledger, p, "realised") = Result(p, closeEvent[p])
      /\ FundingOf(ledger, p, "realised") = Funding(p, closeEvent[p])
  BY <1>1, <1>2, KeptSums DEF LedgerOf
<1>4. Funding(p, closeEvent[p]) \in Int /\ Funding(p, pos[p]) \in Int /\ FundingOf(ledger, p, "adjustment") \in Int
  BY <1>1, <1>2, FundingIsInt, SumsOfEntries
<1> QED  BY <1>2, <1>3, <1>4 DEF Made, Charged, Result

LEMMA MadeOfUnbooked ==
    ASSUME Inv, NEW p \in Positions, ~Closed(p)
    PROVE  Made(ledger, p) = 0
<1>1. LedgerOf(p) /\ ledger \in Seq(Entries) /\ TypeOK
  BY DEF Inv, TypeOK
<1> QED  BY <1>1, PositionTypes, KeptSums DEF LedgerOf

(* When reconciliation's comparison finds nothing the cash is right, however *)
(* many positions closed and however often their funding was adjusted.      *)
THEOREM CleanIsTrue == Spec => []CleanMeansTrue
<1>1. Inv => CleanMeansTrue
  <2> DEFINE ps == [p \in Positions |-> IF Closed(p) THEN pos[p] ELSE Unopened]
             f == [p \in Positions |-> Made(ledger, p)]
             g == [p \in Positions |-> Result(p, ps[p])]
  <2> SUFFICES ASSUME Inv, account.exists, \A p \in Positions : ~Disagrees(p)
               PROVE  account.cash = Worth(ps)
    BY DEF CleanMeansTrue
  <2>1. account.cash = Capital + SumFunctionOnSet(f, Positions)
    BY DEF Inv, CashIsTrue, AllMade
  <2>2. ASSUME NEW p \in Positions PROVE f[p] = g[p]
    <3>1. CASE Closed(p)
      <4>1. /\ IsBooked(ledger, p)
            /\ FundingOf(ledger, p, "adjustment") = Funding(p, pos[p]) - Funding(p, closeEvent[p])
        BY <3>1 DEF Disagrees
      <4>2. LedgerOf(p) /\ ledger \in Seq(Entries) /\ TypeOK
        BY DEF Inv, TypeOK
      <4>3. closeEvent[p].mark \in Int /\ closeEvent[p].used \subseteq Clock /\ pos[p].used \subseteq Clock
        BY <4>2, PositionTypes
      <4>4. FundingOf(ledger, p, "realised") = Funding(p, closeEvent[p])
        BY <4>1, <4>2, <4>3, KeptSums DEF LedgerOf
      <4>5. Funding(p, closeEvent[p]) \in Int /\ Funding(p, pos[p]) \in Int
        BY <4>3, FundingIsInt
      <4>6. Charged(ledger, p) = Funding(p, pos[p])
        BY <4>1, <4>4, <4>5 DEF Charged
      <4>7. Made(ledger, p) = Result(p, pos[p])
        BY <3>1, <4>1, <4>6, MadeOfBooked
      <4> QED  BY <3>1, <4>7
    <3>2. CASE ~Closed(p)
      <4>1. Made(ledger, p) = 0
        BY <3>2, MadeOfUnbooked
      <4>2. Result(p, Unopened) = 0
        <5>1. Funding(p, Unopened) = 0
          BY SumEmpty DEF Funding, Total, Unopened
        <5> QED  BY <5>1 DEF Result, Unopened
      <4> QED  BY <3>2, <4>1, <4>2
    <3> QED  BY <3>1, <3>2
  <2>3. SumFunctionOnSet(f, Positions) = SumFunctionOnSet(g, Positions)
    <3> HIDE DEF f, g
    <3> QED  BY <2>2, FinitePositions, SumSame
  <2> QED  BY <2>1, <2>3 DEF Worth
<1> QED  BY <1>1, InvAlways, PTL

-----------------------------------------------------------------------------
(* Peaks. *)

LEMMA AppendedPeak ==
    ASSUME NEW book, book.account \in Accounts, NEW kind, NEW p, NEW amount \in Int, NEW funding
    PROVE  LET next == Appended(book, kind, p, amount, funding) IN
           next.account \in Accounts /\ next.account.peak = book.account.peak
<1> DEFINE a == book.account
           next == Appended(book, kind, p, amount, funding)
<1>1. next.account = [a EXCEPT !.cash = @ + amount, !.last = @ + 1] /\ a \in Accounts
  BY DEF Appended
<1>2. [a EXCEPT !.cash = @ + amount, !.last = @ + 1].peak = a.peak
  BY <1>1 DEF Accounts
<1> HIDE DEF next, a
<1> QED  BY <1>1, <1>2, MovedAccount DEF next, a

LEMMA BookPeak ==
    ASSUME AccountOK, account.exists, NEW p \in Positions,
           NEW close, close.mark \in Int, close.used \subseteq Clock,
           NEW state, state.used \subseteq Clock, NEW failed, Book(p, close, state, failed)
    PROVE  account'.peak = account.peak
<1>1. CASE failed
  BY <1>1 DEF Book
<1>2. CASE ~failed
  <2> DEFINE o == Opened(Book0)
             r == Realised(o, p, close)
             a == Adjusted(r, p, state)
  <2>1. account' = a.account
    BY <1>2 DEF Book, Booked, Book0
  <2>2. o.account = account /\ o.account \in Accounts /\ o.ledger \in Seq(Entries)
    BY DEF Opened, Book0, AccountOK
  <2>3. Funding(p, close) \in Int /\ Result(p, close) \in Int /\ Funding(p, state) \in Int
    BY FundingIsInt DEF Result
  <2> HIDE DEF o
  <2>4. r.account \in Accounts /\ r.account.peak = account.peak /\ r.ledger \in Seq(Entries)
    <3>1. CASE IsBooked(o.ledger, p)
      BY <2>2, <3>1 DEF Realised
    <3>2. CASE ~IsBooked(o.ledger, p)
      <4>1. r = Appended(o, "realised", p, Result(p, close), Funding(p, close))
        BY <3>2 DEF Realised
      <4>2. r.account \in Accounts /\ r.account.peak = account.peak
        BY <2>2, <2>3, <4>1, AppendedPeak
      <4>3. Entry("realised", p, Result(p, close), Funding(p, close), o.account.cash) \in Entries
        BY <2>2, <2>3 DEF Entry, Entries, Accounts
      <4>4. r.ledger \in Seq(Entries)
        BY <2>2, <4>1, <4>3 DEF Appended
      <4> QED  BY <4>2, <4>4
    <3> QED  BY <3>1, <3>2
  <2> HIDE DEF r
  <2>5. Funding(p, state) - Charged(r.ledger, p) \in Int
    BY <2>3, <2>4, SumsOfEntries DEF Charged
  <2> DEFINE change == Funding(p, state) - Charged(r.ledger, p)
  <2>6. a.account.peak = account.peak
    <3>1. CASE change = 0
      BY <2>4, <3>1 DEF Adjusted
    <3>2. CASE change # 0
      <4>1. a = Appended(r, "adjustment", p, -change, change)
        BY <3>2 DEF Adjusted
      <4>2. -change \in Int
        BY <2>5
      <4> HIDE DEF change, a
      <4> QED  BY <2>4, <4>1, <4>2, AppendedPeak
    <3> QED  BY <3>1, <3>2
  <2> QED  BY <2>1, <2>6
<1> QED  BY <1>1, <1>2

(* Only the monitor moves the peak of an account that exists.                *)
LEMMA OnlyMonitorMovesPeak ==
    ASSUME Inv, account.exists, [Next]_vars, ~RecordPeak
    PROVE  account'.peak = account.peak
<1>0. TypeOK /\ AccountOK
  BY DEF Inv, TypeOK, AccountOK, Accounts
<1>1. ASSUME NEW w \in Workers, StoreOpen(w) PROVE account'.peak = account.peak
  <2>1. PICK p \in Positions : p = work[w].p /\ work[w].seen \in 0..LastHour
    BY <1>0, <1>1, JobTypes DEF StoreOpen
  <2>2. PICK status \in {"open", "closed"}, mark \in Marks, unread \in BOOLEAN, unbooked \in BOOLEAN :
           StoredAs(w, p, status, mark, unread, unbooked)
    <3>1. \E status \in {"open", "closed"}, mark \in Marks, unread, unbooked \in BOOLEAN :
             StoredAs(w, work[w].p, status, mark, unread, unbooked)
      BY <1>1 DEF StoreOpen, StoredAs
    <3> QED  BY <2>1, <3>1
  <2> DEFINE a == Advanced(w, pos[p], status, mark)
             stored == IF unread THEN rows[p] ELSE rows[p] \union SettledHours(w, p, a)
             u == IF unread THEN {} ELSE Expected(a, a.through) \intersect ReadBack(p, stored)
             result == [a EXCEPT !.used = u]
  <2>3. status # "closed" => UNCHANGED account
    BY <2>2 DEF StoredAs
  <2>4. status = "closed" => Book(p, result, result, unbooked)
    BY <2>2 DEF StoredAs
  <2>5. a \in States /\ u \in SUBSET Clock
    <3>1. a \in States
      BY <1>0, <2>1, PositionTypes, AdvancedState
    <3> QED  BY <3>1 DEF Expected
  <2> HIDE DEF a, u
  <2>6. result \in States /\ result.used = u
    BY <2>5, SettledState
  <2> HIDE DEF result
  <2>7. result.mark \in Int /\ result.used \subseteq Clock
    <3>1. result.mark \in Marks \union {0}
      BY <2>6 DEF States
    <3>2. Marks \union {0} \subseteq Int
      BY NumbersAssumption
    <3> QED  BY <2>5, <2>6, <3>1, <3>2
  <2> QED  BY <1>0, <2>3, <2>4, <2>7, BookPeak
<1>2. ASSUME StoreClosed PROVE account'.peak = account.peak
  <2>1. PICK p \in Positions : p = work["observer"].p
    BY <1>0, <1>2, JobTypes DEF StoreClosed, Workers
  <2> DEFINE u == Expected(pos[p], pos[p].through)
                    \intersect ReadBack(p, rows[p] \union SettledHours("observer", p, pos[p]))
             result == [pos[p] EXCEPT !.used = u]
  <2>2. UNCHANGED account \/ \E unbooked \in BOOLEAN : Book(p, closeEvent[p], result, unbooked)
    BY <1>2, <2>1 DEF StoreClosed, tables
  <2>3. u \in SUBSET Clock
    BY DEF Expected
  <2> HIDE DEF u
  <2>4. result.used \subseteq Clock
    BY <1>0, <2>3, PositionTypes, SettledState
  <2> HIDE DEF result
  <2> QED  BY <1>0, <2>2, <2>4, PositionTypes, BookPeak
<1>3. CASE UNCHANGED vars
  BY <1>3 DEF vars, tables
<1>4. CASE Next
  <2>1. ASSUME NEW p \in Positions, OpenPosition(p) \/ Observe(p) \/ Kill(p) PROVE account' = account
    BY <2>1 DEF OpenPosition, Observe, Kill, tables
  <2>2. ASSUME NEW w \in Workers, Fetch(w) \/ Abandon(w) \/ Outdated(w) PROVE account' = account
    BY <2>2 DEF Fetch, Abandon, Outdated, tables
  <2>3. ASSUME Tick \/ Others \/ (\E h \in Clock : Publish(h)) \/ StartPass \/ LockAccount PROVE account' = account
    BY <2>3 DEF Tick, Others, Publish, StartPass, LockAccount, tables
  <2>4. ~EnsureAccount
    BY DEF EnsureAccount
  <2> QED  BY <1>1, <1>2, <1>4, <2>1, <2>2, <2>3, <2>4 DEF Next
<1> QED  BY <1>3, <1>4

(* When nothing is behind, cash and open positions make what the account is *)
(* worth.                                                                   *)
LEMMA WorthOfAll ==
    ASSUME Inv, account.exists, behind = {}
    PROVE  account.cash + SumFunctionOnSet([p \in Positions |-> Result(p, pos[p])],
                                           {p \in Positions : pos[p].status = "open"})
             = Worth(pos)
<1> DEFINE open == {p \in Positions : pos[p].status = "open"}
           f == [p \in Positions |-> Made(ledger, p)]
           g == [p \in Positions |-> Result(p, pos[p])]
           h == [p \in Positions |-> IF p \in open THEN Result(p, pos[p]) ELSE 0]
<1>0. TypeOK /\ ledger \in Seq(Entries) /\ account.cash = Capital + SumFunctionOnSet(f, Positions)
  BY DEF Inv, TypeOK, CashIsTrue, AllMade
<1>1. ASSUME NEW p \in Positions
      PROVE  f[p] \in Int /\ g[p] \in Int /\ h[p] \in Int /\ g[p] = f[p] + h[p] /\ h[p] = IF p \in open THEN g[p] ELSE 0
  <2>1. Made(ledger, p) \in Int /\ LedgerOf(p)
    BY <1>0, MadeIsInt DEF Inv
  <2>2. Result(p, pos[p]) \in Int
    BY <1>0, PositionTypes, FundingIsInt DEF Result
  <2>3. Made(ledger, p) + (IF p \in open THEN Result(p, pos[p]) ELSE 0) = Result(p, pos[p])
    <3>1. CASE Closed(p)
      <4>1. Made(ledger, p) = Result(p, pos[p])
        BY <2>1, <3>1, MadeOfBooked DEF LedgerOf
      <4> QED  BY <2>2, <3>1, <4>1 DEF Closed
    <3>2. CASE ~Closed(p)
      <4>1. Made(ledger, p) = 0
        BY <3>2, MadeOfUnbooked
      <4>2. CASE p \in open
        BY <2>2, <4>1, <4>2
      <4>3. CASE p \notin open
        <5>1. pos[p].status = "none"
          <6>1. pos[p].status \in {"none", "open", "closed"}
            BY <1>0, PositionTypes DEF States
          <6> QED  BY <3>2, <4>3, <6>1 DEF Closed
        <5>2. pos[p] = Unopened
          BY <2>1, <5>1 DEF LedgerOf
        <5>3. Result(p, Unopened) = 0
          <6>1. Funding(p, Unopened) = 0
            BY SumEmpty DEF Funding, Total, Unopened
          <6> QED  BY <6>1 DEF Result, Unopened
        <5> QED  BY <4>1, <4>3, <5>2, <5>3
      <4> QED  BY <4>2, <4>3
    <3> QED  BY <3>1, <3>2
  <2> HIDE DEF open
  <2> QED  BY <2>1, <2>2, <2>3
<1>2. open \in SUBSET Positions
  OBVIOUS
<1> HIDE DEF open, f, g, h
<1>3. SumFunctionOnSet(g, open) = SumFunctionOnSet(h, Positions)
  BY <1>1, <1>2, FinitePositions, SumWithin
<1>4. SumFunctionOnSet(g, Positions) = SumFunctionOnSet(f, Positions) + SumFunctionOnSet(h, Positions)
  BY <1>1, FinitePositions, SumPlus
<1>5. SumFunctionOnSet(f, Positions) \in Int /\ SumFunctionOnSet(h, Positions) \in Int
  BY <1>1, FinitePositions, SumInt
<1>6. account.cash + SumFunctionOnSet(g, open) = Capital + SumFunctionOnSet(g, Positions)
  BY <1>0, <1>3, <1>4, <1>5, NumbersAssumption
<1> QED  BY <1>6 DEF Worth, open, g

(* A peak is recorded only when the account was worth it: the lock the      *)
(* monitor takes first keeps a close from being counted twice, or not at    *)
(* all (record_peak).                                                       *)
THEOREM PeaksAreReached == Spec => PeakWasReached
<1>1. Inv /\ [Next]_vars =>
        [account.exists /\ behind = {} /\ account'.peak # account.peak => account'.peak = Worth(pos)]_vars
  <2> SUFFICES ASSUME Inv, [Next]_vars, account.exists, behind = {}, account'.peak # account.peak
               PROVE  account'.peak = Worth(pos)
    OBVIOUS
  <2>1. RecordPeak
    BY OnlyMonitorMovesPeak
  <2>2. monitor.at = "locked" /\ monitor.cash = account.cash /\ account \in Accounts
    <3>1. monitor \in {Idle} \union [at: {"locked"}, cash: Int]
      BY DEF Inv, TypeOK
    <3>2. monitor.at = "locked"
      BY <2>1, <3>1 DEF RecordPeak
    <3> QED  BY <3>2 DEF Inv, MonitorIsTrue, TypeOK, Accounts
  <2> DEFINE equity == monitor.cash + SumFunctionOnSet([p \in Positions |-> Result(p, pos[p])],
                                                       {p \in Positions : pos[p].status = "open"})
  <2>3. account' = [account EXCEPT !.peak = IF equity > @ THEN equity ELSE @]
    BY <2>1 DEF RecordPeak
  <2>4. equity = Worth(pos)
    BY <2>2, WorthOfAll
  <2> HIDE DEF equity
  <2>5. account'.peak = equity
    BY <2>2, <2>3 DEF Accounts
  <2> QED  BY <2>4, <2>5
<1> QED  BY <1>1, InvAlways, PTL DEF Spec, PeakWasReached

-----------------------------------------------------------------------------
(* The refinement of PositionBook. *)

(* A position uses only hours it has rows for: an hour that is stored for    *)
(* it is one it did miss.                                                    *)
UsesItsRows == \A p \in Positions : pos[p].used \subseteq rows[p]

Waits(p)  == Closed(p) /\ Missing(pos[p]) # {}
StatusNow == [p \in Positions |-> IF pos[p].status = "none" THEN "absent" ELSE pos[p].status]
BookedNow == {p \in Positions : IsBooked(ledger, p)}
WaitsNow  == {p \in Positions : Waits(p)}

Apart(p) == \A q \in Positions \ {p} : pos'[q] = pos[q] /\ (IsBooked(ledger, q)' <=> IsBooked(ledger, q))

(* The steps a position can make, when no other one makes any.              *)
Enters(p) ==
    /\ pos[p].status = "none" /\ pos'[p].status = "open"
    /\ IsBooked(ledger, p)' <=> IsBooked(ledger, p)
StaysOpen(p) ==
    /\ pos[p].status = "open" /\ pos'[p].status = "open"
    /\ IsBooked(ledger, p)' <=> IsBooked(ledger, p)
Closes(p) ==
    /\ pos[p].status = "open" /\ pos'[p].status = "closed"
    /\ IsBooked(ledger, p) => IsBooked(ledger, p)'
Settles(p) ==
    /\ Waits(p) /\ pos'[p].status = "closed" /\ Missing(pos[p])' \subseteq Missing(pos[p])
    /\ IsBooked(ledger, p) => IsBooked(ledger, p)'

Moves(p) == Apart(p) /\ (Enters(p) \/ StaysOpen(p) \/ Closes(p) \/ Settles(p))

(* What a booking, failed or not, does to who is booked.                     *)
LEMMA BookedSoFar ==
    ASSUME Inv, NEW p \in Positions,
           NEW close, close.mark \in Int, close.used \subseteq Clock, Kept(ledger, p, close),
           NEW state, state.used \subseteq Clock, NEW failed \in BOOLEAN, Book(p, close, state, failed)
    PROVE  /\ IsBooked(ledger, p) => IsBooked(ledger, p)'
           /\ \A q \in Positions \ {p} : IsBooked(ledger, q)' <=> IsBooked(ledger, q)
<1>1. CASE failed
  <2>1. ledger' = ledger
    BY <1>1 DEF Book
  <2> QED  BY <2>1
<1>2. CASE ~failed
  <2>1. AccountOK /\ Book(p, close, state, FALSE)
    BY <1>2 DEF Inv, TypeOK, AccountOK, Accounts, Book
  <2>2. BookedFor(p, close, state)
    BY <2>1, BookStep
  <2>3. ledger \in Seq(Entries) /\ ledger' \in Seq(Entries) /\ IsBooked(ledger', p)
    BY <2>1, <2>2 DEF AccountOK, BookedFor
  <2>4. ASSUME NEW q \in Positions \ {p} PROVE IsBooked(ledger', q) = IsBooked(ledger, q)
    <3>1. SameFor(ledger, ledger', q)
      BY <2>2 DEF BookedFor
    <3> QED  BY <2>3, <3>1, SameForKept
  <2> QED  BY <2>3, <2>4
<1> QED  BY <1>1, <1>2

LEMMA StoreOpenMoves ==
    ASSUME Inv, NEW w \in Workers, StoreOpen(w)
    PROVE  /\ \E p \in Positions : Moves(p)
           /\ \A p \in Positions : pos[p].used \subseteq rows[p] => pos'[p].used \subseteq rows'[p]
<1>0. TypeOK
  BY DEF Inv
<1>1. PICK p \in Positions : p = work[w].p /\ work[w].seen \in 0..LastHour
  BY <1>0, JobTypes DEF StoreOpen
<1>2. PICK status \in {"open", "closed"}, mark \in Marks, unread \in BOOLEAN, unbooked \in BOOLEAN :
         StoredAs(w, p, status, mark, unread, unbooked)
  <2>1. \E status \in {"open", "closed"}, mark \in Marks, unread, unbooked \in BOOLEAN :
           StoredAs(w, work[w].p, status, mark, unread, unbooked)
    BY DEF StoreOpen, StoredAs
  <2> QED  BY <1>1, <2>1
<1> DEFINE a == Advanced(w, pos[p], status, mark)
           stored == IF unread THEN rows[p] ELSE rows[p] \union SettledHours(w, p, a)
           u == IF unread THEN {} ELSE Expected(a, a.through) \intersect ReadBack(p, stored)
           result == [a EXCEPT !.used = u]
<1>3. pos[p].status = "open" /\ pos[p] \in States
  BY <1>0, <1>1, PositionTypes DEF StoreOpen
<1>4. a \in States /\ a.status = status /\ u \in SUBSET Clock /\ u \subseteq stored
  <2>1. a \in States /\ a.status = status
    BY <1>0, <1>1, <1>3, AdvancedState
  <2> QED  BY <2>1 DEF Expected, ReadBack
<1>5. pos' = [pos EXCEPT ![p] = result] /\ rows' = [rows EXCEPT ![p] = stored]
  BY <1>2 DEF StoredAs
<1>6. /\ status = "closed" => Book(p, result, result, unbooked)
      /\ status # "closed" => ledger' = ledger
  BY <1>2 DEF StoredAs
<1> HIDE DEF a, u, stored
<1>7. result \in States /\ result.used = u /\ result.status = status
  BY <1>4, SettledState
<1> HIDE DEF result
<1>8. pos \in [Positions -> States] /\ rows \in [Positions -> SUBSET Clock]
  BY <1>0 DEF TypeOK
<1>9. pos'[p] = result /\ rows'[p] = stored /\ \A q \in Positions \ {p} : pos'[q] = pos[q] /\ rows'[q] = rows[q]
  BY <1>1, <1>5, <1>8
<1>10. Kept(ledger, p, result)
  <2>1. LedgerOf(p) /\ ~Closed(p)
    BY <1>3 DEF Inv, Closed
  <2> QED  BY <2>1 DEF LedgerOf, Kept, IsBooked
<1>11. \A q \in Positions : pos[q].used \subseteq rows[q] => pos'[q].used \subseteq rows'[q]
  BY <1>4, <1>7, <1>9
<1>12. CASE status # "closed"
  <2>1. ledger' = ledger /\ pos'[p].status = "open"
    BY <1>6, <1>7, <1>9, <1>12
  <2>2. StaysOpen(p) /\ Apart(p)
    BY <1>3, <1>9, <2>1 DEF StaysOpen, Apart
  <2> QED  BY <1>1, <1>11, <2>2 DEF Moves
<1>13. CASE status = "closed"
  <2>1. result.mark \in Int /\ result.used \subseteq Clock
    <3>1. result.mark \in Marks \union {0}
      BY <1>7 DEF States
    <3>2. Marks \union {0} \subseteq Int
      BY NumbersAssumption
    <3> QED  BY <1>4, <1>7, <3>1, <3>2
  <2>2. /\ IsBooked(ledger, p) => IsBooked(ledger, p)'
        /\ \A q \in Positions \ {p} : IsBooked(ledger, q)' <=> IsBooked(ledger, q)
    BY <1>6, <1>10, <1>13, <2>1, BookedSoFar
  <2>3. Closes(p) /\ Apart(p)
    BY <1>3, <1>7, <1>9, <1>13, <2>2 DEF Closes, Apart
  <2> QED  BY <1>1, <1>11, <2>3 DEF Moves
<1> QED  BY <1>12, <1>13

LEMMA StoreClosedMoves ==
    ASSUME Inv, UsesItsRows, StoreClosed
    PROVE  /\ (\E p \in Positions : Moves(p)) \/ UNCHANGED <<pos, ledger>>
           /\ \A p \in Positions : pos[p].used \subseteq rows[p] => pos'[p].used \subseteq rows'[p]
<1>0. TypeOK
  BY DEF Inv
<1>1. PICK p \in Positions : p = work["observer"].p /\ work["observer"].rates \subseteq Clock
  BY <1>0, JobTypes DEF StoreClosed, Workers
<1> DEFINE new == SettledHours("observer", p, pos[p])
           stored == rows[p] \union new
           u == Expected(pos[p], pos[p].through) \intersect ReadBack(p, stored)
           result == [pos[p] EXCEPT !.used = u]
<1>2. \/ UNCHANGED <<pos, rows, ledger>>
      \/ \E unbooked \in BOOLEAN :
            /\ new # {}
            /\ rows' = [rows EXCEPT ![p] = stored]
            /\ pos' = [pos EXCEPT ![p] = result]
            /\ Book(p, closeEvent[p], result, unbooked)
  BY <1>1 DEF StoreClosed, tables
<1>3. CASE UNCHANGED <<pos, rows, ledger>>
  BY <1>3
<1>4. ASSUME NEW unbooked \in BOOLEAN, new # {}, rows' = [rows EXCEPT ![p] = stored],
             pos' = [pos EXCEPT ![p] = result], Book(p, closeEvent[p], result, unbooked)
      PROVE  /\ Moves(p)
             /\ \A q \in Positions : pos[q].used \subseteq rows[q] => pos'[q].used \subseteq rows'[q]
  <2>1. /\ pos[p] \in States /\ rows[p] \subseteq Clock /\ pos[p].used \subseteq rows[p]
        /\ rows[p] \subseteq Expected(pos[p], pos[p].through)
        /\ closeEvent[p].mark \in Int /\ closeEvent[p].used \subseteq Clock
    BY <1>0, PositionTypes DEF UsesItsRows
  <2>2. Closed(p) /\ new \subseteq Expected(pos[p], pos[p].through) \ rows[p]
    BY <1>1 DEF StoreClosed, SettledHours, SettleThrough
  <2>3. Missing(pos[p]) # {}
    BY <1>4, <2>1, <2>2 DEF Missing
  <2>4. u = stored /\ u \in SUBSET Clock /\ pos[p].used \subseteq u
    BY <2>1, <2>2 DEF ReadBack, Expected
  <2> HIDE DEF new, stored, u
  <2>5. /\ result \in States /\ result.used = u /\ result.status = pos[p].status
        /\ result.entry = pos[p].entry /\ result.through = pos[p].through
    BY <2>1, <2>4, SettledState
  <2> HIDE DEF result
  <2>6. pos \in [Positions -> States] /\ rows \in [Positions -> SUBSET Clock]
    BY <1>0 DEF TypeOK
  <2>7. pos'[p] = result /\ rows'[p] = stored /\ \A q \in Positions \ {p} : pos'[q] = pos[q] /\ rows'[q] = rows[q]
    BY <1>4, <2>6
  <2>8. Kept(ledger, p, closeEvent[p]) /\ result.used \subseteq Clock
    BY <2>4, <2>5 DEF Inv, LedgerOf
  <2>9. /\ IsBooked(ledger, p) => IsBooked(ledger, p)'
        /\ \A q \in Positions \ {p} : IsBooked(ledger, q)' <=> IsBooked(ledger, q)
    BY <1>4, <2>1, <2>8, BookedSoFar
  <2>10. Missing(pos[p])' \subseteq Missing(pos[p])
    <3>1. Expected(pos'[p], pos'[p].through) = Expected(pos[p], pos[p].through)
      BY <2>5, <2>7 DEF Expected
    <3>2. pos[p].used \subseteq pos'[p].used
      BY <2>4, <2>5, <2>7
    <3> QED  BY <3>1, <3>2 DEF Missing
  <2>11. pos'[p].status = "closed"
    BY <2>2, <2>5, <2>7 DEF Closed
  <2>12. Settles(p) /\ Apart(p)
    BY <2>2, <2>3, <2>7, <2>9, <2>10, <2>11 DEF Settles, Waits, Apart
  <2> QED  BY <2>4, <2>5, <2>7, <2>12 DEF Moves
<1> QED  BY <1>2, <1>3, <1>4

(* Every other step leaves positions and bookings as they are.               *)
LEMMA AccountKinds ==
    ASSUME Inv, UsesItsRows, [Next]_vars
    PROVE  /\ \/ \E p \in Positions : Moves(p)
              \/ pos' = pos /\ \A p \in Positions : IsBooked(ledger, p)' <=> IsBooked(ledger, p)
           /\ UsesItsRows'
<1>0. TypeOK /\ ledger \in Seq(Entries) /\ pos \in [Positions -> States]
  BY DEF Inv, TypeOK
<1> DEFINE Same == pos' = pos /\ rows' = rows /\ \A p \in Positions : IsBooked(ledger, p)' <=> IsBooked(ledger, p)
<1>1. ASSUME NEW p \in Positions, OpenPosition(p)
      PROVE  Moves(p) /\ UsesItsRows'
  <2>1. /\ pos' = [pos EXCEPT ![p] = [Unopened EXCEPT !.status = "open", !.entry = hour, !.through = hour]]
        /\ pos[p].status = "none" /\ UNCHANGED <<rows, ledger>>
    BY <1>1 DEF OpenPosition
  <2> DEFINE opened == [Unopened EXCEPT !.status = "open", !.entry = hour, !.through = hour]
  <2>2. opened.status = "open" /\ opened.used = {}
    BY DEF Unopened
  <2> HIDE DEF opened
  <2>3. pos'[p] = opened /\ \A q \in Positions \ {p} : pos'[q] = pos[q]
    BY <1>0, <2>1 DEF opened
  <2>4. Enters(p) /\ Apart(p)
    BY <2>1, <2>2, <2>3 DEF Enters, Apart
  <2>5. ASSUME NEW q \in Positions PROVE pos'[q].used \subseteq rows'[q]
    BY <2>1, <2>2, <2>3 DEF UsesItsRows
  <2> QED  BY <2>4, <2>5 DEF Moves, UsesItsRows
<1>2. ASSUME NEW w \in Workers, StoreOpen(w)
      PROVE  (\E p \in Positions : Moves(p)) /\ UsesItsRows'
  BY <1>2, StoreOpenMoves DEF UsesItsRows
<1>3. ASSUME StoreClosed
      PROVE  ((\E p \in Positions : Moves(p)) \/ UNCHANGED <<pos, ledger>>) /\ UsesItsRows'
  BY <1>3, StoreClosedMoves DEF UsesItsRows
<1>4. ASSUME EnsureAccount PROVE Same
  <2>1. ledger = <<>> /\ UNCHANGED <<pos, rows>>
    BY <1>4 DEF Inv, EnsureAccount
  <2>2. ledger' = Opened(Book0).ledger /\ BookOK(Book0) /\ Book0.ledger = ledger
    BY <1>0, <1>4, <2>1 DEF EnsureAccount, Book0, BookOK, TypeOK, Accounts
  <2>3. ASSUME NEW p \in Positions PROVE IsBooked(ledger', p) = IsBooked(ledger, p)
    <3>1. BookOK(Opened(Book0)) /\ SameFor(ledger, ledger', p)
      BY <2>2, OpenedBook
    <3>2. ledger' \in Seq(Entries)
      BY <2>2, <3>1 DEF BookOK
    <3> QED  BY <1>0, <3>1, <3>2, SameForKept
  <2> QED  BY <2>1, <2>3
<1>5. ASSUME NEW p \in Positions, Observe(p) \/ Kill(p) PROVE Same
  BY <1>5 DEF Observe, Kill, tables
<1>6. ASSUME NEW w \in Workers, Fetch(w) \/ Abandon(w) \/ Outdated(w) PROVE Same
  BY <1>6 DEF Fetch, Abandon, Outdated, tables
<1>7. ASSUME Tick \/ Others \/ (\E h \in Clock : Publish(h)) \/ StartPass \/ LockAccount \/ RecordPeak \/ UNCHANGED vars
      PROVE  Same
  BY <1>7 DEF Tick, Others, Publish, StartPass, LockAccount, RecordPeak, vars, tables
<1>8. ASSUME Same PROVE UsesItsRows'
  BY <1>8 DEF UsesItsRows
<1> QED  BY <1>1, <1>2, <1>3, <1>4, <1>5, <1>6, <1>7, <1>8 DEF Next

LEMMA UsesItsRowsInit == Init => UsesItsRows
BY DEF Init, UsesItsRows, Unopened

(* A position's step is one of PositionBook's, or none.                      *)
LEMMA MovesMap ==
    ASSUME Inv, NEW p \in Positions, Moves(p)
    PROVE  [Promised!Next]_<<StatusNow, BookedNow, WaitsNow>>
<1>1. \A q \in Positions \ {p} : /\ pos'[q] = pos[q]
                                 /\ IsBooked(ledger, q)' <=> IsBooked(ledger, q)
                                 /\ Waits(q)' <=> Waits(q)
  BY DEF Moves, Apart, Waits, Closed
<1>2. BookedNow' = IF IsBooked(ledger, p)' THEN BookedNow \union {p} ELSE BookedNow \ {p}
  <2>1. BookedNow' = {q \in Positions : IsBooked(ledger, q)'}
    BY DEF BookedNow
  <2> QED  BY <1>1, <2>1 DEF BookedNow
<1>3. WaitsNow' = IF Waits(p)' THEN WaitsNow \union {p} ELSE WaitsNow \ {p}
  <2>1. WaitsNow' = {q \in Positions : Waits(q)'}
    BY DEF WaitsNow
  <2> QED  BY <1>1, <2>1 DEF WaitsNow
<1>4. (p \in BookedNow <=> IsBooked(ledger, p)) /\ (p \in WaitsNow <=> Waits(p))
  BY DEF BookedNow, WaitsNow
<1>5. StatusNow' = [StatusNow EXCEPT ![p] = IF pos'[p].status = "none" THEN "absent" ELSE pos'[p].status]
  BY <1>1 DEF StatusNow
<1>6. StatusNow[p] = IF pos[p].status = "none" THEN "absent" ELSE pos[p].status
  BY DEF StatusNow
<1>7. (Waits(p) => pos[p].status = "closed") /\ (Waits(p)' => pos'[p].status = "closed")
  BY DEF Waits, Closed
<1>8. CASE Enters(p)
  <2>1. ~Waits(p) /\ ~Waits(p)' /\ pos[p].status = "none" /\ pos'[p].status = "open"
    BY <1>7, <1>8 DEF Enters
  <2>2. BookedNow' = BookedNow /\ WaitsNow' = WaitsNow
    <3>1. IsBooked(ledger, p)' <=> IsBooked(ledger, p)
      BY <1>8 DEF Enters
    <3> QED  BY <1>2, <1>3, <1>4, <2>1, <3>1
  <2>3. StatusNow[p] = "absent" /\ StatusNow' = [StatusNow EXCEPT ![p] = "open"]
    BY <1>5, <1>6, <2>1
  <2>4. Promised!Enter(p)
    BY <2>2, <2>3 DEF Promised!Enter, StatusNow, BookedNow, WaitsNow, Waits
  <2> QED  BY <2>4 DEF Promised!Next
<1>9. CASE StaysOpen(p)
  <2>1. ~Waits(p) /\ ~Waits(p)' /\ pos[p].status = "open" /\ pos'[p].status = "open"
    BY <1>7, <1>9 DEF StaysOpen
  <2>2. BookedNow' = BookedNow /\ WaitsNow' = WaitsNow
    <3>1. IsBooked(ledger, p)' <=> IsBooked(ledger, p)
      BY <1>9 DEF StaysOpen
    <3> QED  BY <1>2, <1>3, <1>4, <2>1, <3>1
  <2>3. StatusNow' = StatusNow
    BY <1>5, <1>6, <2>1 DEF StatusNow
  <2> QED  BY <2>2, <2>3
<1>10. CASE Closes(p)
  <2>1. ~Waits(p) /\ pos[p].status = "open" /\ pos'[p].status = "closed"
    BY <1>7, <1>10 DEF Closes
  <2>2. IsBooked(ledger, p) => IsBooked(ledger, p)'
    BY <1>10 DEF Closes
  <2>3. BookedNow' \in {BookedNow, BookedNow \union {p}}
    BY <1>2, <1>4, <2>2
  <2>4. WaitsNow' \in {WaitsNow, WaitsNow \union {p}}
    BY <1>3, <1>4, <2>1
  <2>5. StatusNow[p] = "open" /\ StatusNow' = [StatusNow EXCEPT ![p] = "closed"]
    BY <1>5, <1>6, <2>1
  <2>6. Promised!Close(p)
    BY <2>3, <2>4, <2>5 DEF Promised!Close, StatusNow, BookedNow, WaitsNow, Waits
  <2> QED  BY <2>6 DEF Promised!Next
<1>11. CASE Settles(p)
  <2>1. Waits(p) /\ pos[p].status = "closed" /\ pos'[p].status = "closed"
    BY <1>7, <1>11 DEF Settles
  <2>2. IsBooked(ledger, p) => IsBooked(ledger, p)'
    BY <1>11 DEF Settles
  <2>3. BookedNow' \in {BookedNow, BookedNow \union {p}}
    BY <1>2, <1>4, <2>2
  <2>4. p \in WaitsNow /\ WaitsNow' \in {WaitsNow, WaitsNow \ {p}}
    BY <1>3, <1>4, <2>1
  <2>5. StatusNow' = StatusNow
    BY <1>5, <1>6, <2>1 DEF StatusNow
  <2>6. Promised!Settle(p)
    BY <2>3, <2>4, <2>5 DEF Promised!Settle, StatusNow, BookedNow, WaitsNow, Waits
  <2> QED  BY <2>6 DEF Promised!Next
<1> QED  BY <1>8, <1>9, <1>10, <1>11 DEF Moves

(* The account implements PositionBook: a booking that fails at the close    *)
(* has another chance only while funding is missing (book_position_safely,  *)
(* update).                                                                 *)
THEOREM AccountKeepsBook == Spec => KeepsBook
<1>1. Init => Promised!Init
  <2> SUFFICES ASSUME Init PROVE Promised!Init  OBVIOUS
  <2>1. \A p \in Positions : pos[p] = Unopened /\ ~Closed(p) /\ ~IsBooked(ledger, p)
    BY NothingBooked DEF Init, Closed, Unopened, IsBooked
  <2> QED  BY <2>1 DEF Promised!Init, Unopened
<1>2. Inv /\ UsesItsRows /\ [Next]_vars => [Promised!Next]_<<StatusNow, BookedNow, WaitsNow>>
  <2> SUFFICES ASSUME Inv, UsesItsRows, [Next]_vars
               PROVE  [Promised!Next]_<<StatusNow, BookedNow, WaitsNow>>
    OBVIOUS
  <2>1. CASE pos' = pos /\ \A p \in Positions : IsBooked(ledger, p)' <=> IsBooked(ledger, p)
    <3>1. StatusNow' = StatusNow /\ WaitsNow' = WaitsNow
      BY <2>1 DEF StatusNow, WaitsNow, Waits, Closed
    <3>2. BookedNow' = BookedNow
      BY <2>1 DEF BookedNow
    <3> QED  BY <3>1, <3>2
  <2> QED  BY <2>1, AccountKinds, MovesMap
<1>3. <<StatusNow, BookedNow, WaitsNow>> =
        <<[p \in Positions |-> IF pos[p].status = "none" THEN "absent" ELSE pos[p].status],
          {p \in Positions : IsBooked(ledger, p)}, {p \in Positions : Closed(p) /\ Missing(pos[p]) # {}}>>
  BY DEF StatusNow, BookedNow, WaitsNow, Waits
<1>4. Inv /\ UsesItsRows /\ [Next]_vars => UsesItsRows'
  BY AccountKinds
<1> QED
  BY <1>1, <1>2, <1>4, InvAlways, UsesItsRowsInit, PTL
     DEF Spec, KeepsBook, Promised!Spec, StatusNow, BookedNow, WaitsNow, Waits

(* What the book promises of a close: nothing is booked, or waits, before    *)
(* it, and one left unbooked with its funding in stays unbooked, so that     *)
(* only reconciliation tells (compare's missing entry).                     *)
THEOREM UnbookedStays == Spec => []Promised!BookedIsClosed /\ Promised!LeftUnbooked
<1>1. Promised!Init => Promised!BookedIsClosed
  BY DEF Promised!Init, Promised!BookedIsClosed
<1>2. Promised!BookedIsClosed /\ [Promised!Next]_<<StatusNow, BookedNow, WaitsNow>> => Promised!BookedIsClosed'
  <2> SUFFICES ASSUME Promised!BookedIsClosed, [Promised!Next]_<<StatusNow, BookedNow, WaitsNow>>
               PROVE  Promised!BookedIsClosed'
    OBVIOUS
  <2> QED
    BY DEF Promised!Next, Promised!Enter, Promised!Close, Promised!Settle, Promised!BookedIsClosed,
           StatusNow, BookedNow, WaitsNow, Waits
<1>3. [Promised!Next]_<<StatusNow, BookedNow, WaitsNow>> =>
        [\A p \in Positions :
            StatusNow[p] = "closed" /\ p \notin BookedNow \union WaitsNow
               => p \notin BookedNow' \union WaitsNow']_<<StatusNow, BookedNow, WaitsNow>>
  <2> SUFFICES ASSUME Promised!Next, NEW p \in Positions,
                      StatusNow[p] = "closed", p \notin BookedNow \union WaitsNow
               PROVE  p \notin BookedNow' \union WaitsNow'
    OBVIOUS
  <2>1. PICK q \in Positions : Promised!Enter(q) \/ Promised!Close(q) \/ Promised!Settle(q)
    BY DEF Promised!Next
  <2>2. \/ UNCHANGED <<BookedNow, WaitsNow>>
        \/ StatusNow[q] = "open" /\ BookedNow' \subseteq BookedNow \union {q} /\ WaitsNow' \subseteq WaitsNow \union {q}
        \/ q \in WaitsNow /\ BookedNow' \subseteq BookedNow \union {q} /\ WaitsNow' \subseteq WaitsNow
    <3> USE DEF StatusNow, BookedNow, WaitsNow, Waits
    <3>1. CASE Promised!Enter(q)
      BY <3>1 DEF Promised!Enter
    <3>2. CASE Promised!Close(q)
      BY <3>2 DEF Promised!Close
    <3>3. CASE Promised!Settle(q)
      BY <3>3 DEF Promised!Settle
    <3> QED  BY <2>1, <3>1, <3>2, <3>3
  <2> QED  BY <2>2
<1> QED
  BY <1>1, <1>2, <1>3, AccountKeepsBook, PTL
     DEF KeepsBook, Promised!Spec, Promised!LeftUnbooked, StatusNow, BookedNow, WaitsNow, Waits
===============================================================================
