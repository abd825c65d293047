----------------------------- MODULE LedgerSums -----------------------------
(***************************************************************************)
(* What the ledgers of the models add up: SumFunctionOnSet(f, S) of the    *)
(* community module Functions, the SUM(...) of a reservation query, for    *)
(* any finite set of rows.  Induction over the rows is done here once,     *)
(* with a SET of good subsets in place of an operator parameter: the       *)
(* smallest subset that is not good leads to a contradiction.              *)
(***************************************************************************)
EXTENDS Integers, Functions, FiniteSetTheorems, TLAPS

(* The row a fold over s takes first, and the rows it leaves.               *)
Some(s) == CHOOSE x \in s : TRUE

Rest(s) == s \ {Some(s)}

(* g tabulates the sums of f over the subsets of S.                         *)
IsSum(g, f, S) ==
    g = [s \in SUBSET S |-> IF s = {} THEN 0 ELSE f[Some(s)] + g[Rest(s)]]

(* A sum is read off the table the fold chooses.                            *)
LEMMA SumIsChosen ==
    ASSUME NEW f, NEW S
    PROVE  SumFunctionOnSet(f, S) = (CHOOSE g : IsSum(g, f, S))[S]
BY DEF SumFunctionOnSet, FoldFunctionOnSet, MapThenFoldSet, IsSum, Some, Rest

(* A set that is not empty has a first row, and fewer rows without it.      *)
LEMMA SomeIsElement ==
    ASSUME NEW s, s # {}
    PROVE  Some(s) \in s /\ Rest(s) \subseteq s /\ Rest(s) # s
BY DEF Some, Rest

(* Among subsets of a finite set one has no other below it.                 *)
LEMMA SmallestSubset ==
    ASSUME NEW S, IsFiniteSet(S), NEW T \in SUBSET SUBSET S, T # {}
    PROVE  \E s \in T : \A t \in T : t \subseteq s => t = s
<1>1. IsWellFoundedOn(StrictSubsetOrdering(S), SUBSET S)
  BY FS_StrictSubsetOrderingWellFounded, FS_FiniteSubsetsOfFinite
<1>2. \E s \in T : \A t \in T : <<t, s>> \notin StrictSubsetOrdering(S)
  BY <1>1, WFMin
<1> QED BY <1>2 DEF StrictSubsetOrdering

(* Two tables agree wherever both are defined.                              *)
LEMMA SumsAgree ==
    ASSUME NEW f, NEW S, IsFiniteSet(S), NEW T, NEW g, IsSum(g, f, S), NEW h, IsSum(h, f, T)
    PROVE  \A s \in SUBSET S : s \subseteq T => g[s] = h[s]
<1> DEFINE Differ == {s \in SUBSET S : s \subseteq T /\ g[s] # h[s]}
<1> SUFFICES ASSUME Differ # {} PROVE FALSE
  OBVIOUS
<1>1. PICK s \in Differ : \A t \in Differ : t \subseteq s => t = s
  <2>1. Differ \in SUBSET SUBSET S
    OBVIOUS
  <2> HIDE DEF Differ
  <2> QED BY <2>1, SmallestSubset
<1>2. /\ g[s] = IF s = {} THEN 0 ELSE f[Some(s)] + g[Rest(s)]
      /\ h[s] = IF s = {} THEN 0 ELSE f[Some(s)] + h[Rest(s)]
  BY <1>1 DEF IsSum
<1>3. CASE s = {}
  BY <1>1, <1>2, <1>3
<1>4. CASE s # {}
  <2>1. /\ Rest(s) \in SUBSET S /\ Rest(s) \subseteq T
        /\ Rest(s) \subseteq s /\ Rest(s) # s
    BY <1>1, <1>4, SomeIsElement
  <2>2. g[Rest(s)] = h[Rest(s)]
    BY <1>1, <2>1
  <2> QED BY <1>1, <1>2, <1>4, <2>2
<1> QED BY <1>3, <1>4

(* Every finite set has a table, so that the choice is not empty.           *)
LEMMA SumExists ==
    ASSUME NEW f, NEW S, IsFiniteSet(S)
    PROVE  \E g : IsSum(g, f, S)
<1> DEFINE Without == {s \in SUBSET S : ~ \E g : IsSum(g, f, s)}
<1> SUFFICES ASSUME Without # {} PROVE FALSE
  OBVIOUS
<1>1. PICK s \in Without : \A t \in Without : t \subseteq s => t = s
  <2>1. Without \in SUBSET SUBSET S
    OBVIOUS
  <2> HIDE DEF Without
  <2> QED BY <2>1, SmallestSubset
<1> DEFINE G(t) == CHOOSE g : IsSum(g, f, t)
           Value(t) == IF t = {} THEN 0 ELSE f[Some(t)] + G(Rest(t))[Rest(t)]
           h == [t \in SUBSET s |-> Value(t)]
<1>2. ASSUME NEW t \in SUBSET s, t # s PROVE IsSum(G(t), f, t)
  BY <1>1, <1>2
<1>3. ASSUME NEW t \in SUBSET s, t # s PROVE G(t)[t] = Value(t)
  <2>1. G(t)[t] = IF t = {} THEN 0 ELSE f[Some(t)] + G(t)[Rest(t)]
    <3> HIDE DEF G
    <3> QED BY <1>2, <1>3 DEF IsSum
  <2>2. CASE t = {}
    BY <2>1, <2>2
  <2>3. CASE t # {}
    <3>1. Rest(t) \in SUBSET t /\ Rest(t) # t /\ Rest(t) \in SUBSET s /\ Rest(t) # s
      BY <1>3, <2>3, SomeIsElement
    <3>2. IsSum(G(t), f, t) /\ IsSum(G(Rest(t)), f, Rest(t))
      BY <1>2, <1>3, <3>1
    <3>3. IsFiniteSet(t)
      BY FS_Subset
    <3>4. G(t)[Rest(t)] = G(Rest(t))[Rest(t)]
      <4> HIDE DEF G
      <4> QED BY <3>1, <3>2, <3>3, SumsAgree
    <3> QED BY <2>1, <2>3, <3>4
  <2> QED BY <2>2, <2>3
<1>4. h = [t \in SUBSET s |-> IF t = {} THEN 0 ELSE f[Some(t)] + h[Rest(t)]]
  <2>1. ASSUME NEW t \in SUBSET s, t # {} PROVE h[Rest(t)] = G(Rest(t))[Rest(t)]
    <3>1. Rest(t) \in SUBSET s /\ Rest(t) # s
      BY <2>1, SomeIsElement
    <3>2. G(Rest(t))[Rest(t)] = Value(Rest(t))
      BY <1>3, <3>1
    <3> HIDE DEF G, Value
    <3> QED BY <3>1, <3>2
  <2> HIDE DEF G
  <2> QED BY <2>1
<1>5. IsSum(h, f, s)
  <2> HIDE DEF h
  <2> QED BY <1>4 DEF IsSum
<1> QED BY <1>1, <1>5

(* A sum is its first row and the sum of the rest.                          *)
LEMMA SumRecursion ==
    ASSUME NEW f, NEW S, IsFiniteSet(S)
    PROVE  SumFunctionOnSet(f, S) =
              IF S = {} THEN 0 ELSE f[Some(S)] + SumFunctionOnSet(f, Rest(S))
<1> DEFINE G(s) == CHOOSE g : IsSum(g, f, s)
<1>1. IsSum(G(S), f, S)
  BY SumExists
<1>2. G(S)[S] = IF S = {} THEN 0 ELSE f[Some(S)] + G(S)[Rest(S)]
  <2> HIDE DEF G
  <2> QED BY <1>1 DEF IsSum
<1>3. ASSUME S # {} PROVE G(S)[Rest(S)] = G(Rest(S))[Rest(S)]
  <2>1. Rest(S) \in SUBSET S /\ IsFiniteSet(Rest(S))
    BY <1>3, SomeIsElement, FS_Subset
  <2>2. IsSum(G(Rest(S)), f, Rest(S))
    BY <2>1, SumExists
  <2>3. Rest(S) \in SUBSET Rest(S)
    OBVIOUS
  <2>4. \A g, h : IsSum(g, f, S) /\ IsSum(h, f, Rest(S)) => g[Rest(S)] = h[Rest(S)]
    BY <2>1, <2>3, SumsAgree
  <2> HIDE DEF G
  <2> QED BY <1>1, <2>2, <2>4
<1>4. SumFunctionOnSet(f, S) = G(S)[S] /\ SumFunctionOnSet(f, Rest(S)) = G(Rest(S))[Rest(S)]
  BY SumIsChosen
<1> HIDE DEF G
<1> QED BY <1>2, <1>3, <1>4

(* A finite set is good when every subset with only good parts is.          *)
LEMMA StrongSubsetInduction ==
    ASSUME NEW S, IsFiniteSet(S), NEW Good \in SUBSET SUBSET S,
           \A s \in SUBSET S : (\A t \in SUBSET s : t # s => t \in Good) => s \in Good
    PROVE  S \in Good
<1> SUFFICES ASSUME S \notin Good PROVE FALSE
  OBVIOUS
<1> DEFINE Bad == (SUBSET S) \ Good
<1>1. PICK s \in Bad : \A t \in Bad : t \subseteq s => t = s
  <2>1. Bad \in SUBSET SUBSET S /\ Bad # {}
    OBVIOUS
  <2> HIDE DEF Bad
  <2> QED BY <2>1, SmallestSubset
<1>2. \A t \in SUBSET s : t # s => t \in Good
  BY <1>1
<1> QED BY <1>1, <1>2

(* The same, one row at a time.                                             *)
LEMMA SubsetInduction ==
    ASSUME NEW S, IsFiniteSet(S), NEW Good \in SUBSET SUBSET S,
           {} \in Good,
           \A s \in SUBSET S : s # {} /\ Rest(s) \in Good => s \in Good
    PROVE  S \in Good
<1>1. ASSUME NEW s \in SUBSET S, \A t \in SUBSET s : t # s => t \in Good PROVE s \in Good
  BY <1>1, SomeIsElement
<1> QED BY <1>1, StrongSubsetInduction

(* No rows add up to zero.                                                  *)
LEMMA SumEmpty ==
    ASSUME NEW f
    PROVE  SumFunctionOnSet(f, {}) = 0
BY SumRecursion, FS_EmptySet

(* Integers add up to an integer.                                           *)
LEMMA SumType ==
    ASSUME NEW S, IsFiniteSet(S), NEW f, \A s \in S : f[s] \in Int
    PROVE  SumFunctionOnSet(f, S) \in Int
<1> DEFINE Good == {s \in SUBSET S : SumFunctionOnSet(f, s) \in Int}
<1>1. {} \in Good
  BY SumEmpty
<1>2. ASSUME NEW s \in SUBSET S, s # {}, Rest(s) \in Good PROVE s \in Good
  <2>1. SumFunctionOnSet(f, s) = f[Some(s)] + SumFunctionOnSet(f, Rest(s))
    BY <1>2, SumRecursion, FS_Subset
  <2> QED BY <1>2, <2>1, SomeIsElement
<1>3. S \in Good
  <2>1. Good \in SUBSET SUBSET S
    OBVIOUS
  <2> HIDE DEF Good
  <2> QED BY <1>1, <1>2, <2>1, SubsetInduction
<1> QED BY <1>3

(* Rows of the same value have the same sum.                                *)
LEMMA SumSame ==
    ASSUME NEW S, IsFiniteSet(S), NEW f, NEW g, \A s \in S : f[s] = g[s]
    PROVE  SumFunctionOnSet(f, S) = SumFunctionOnSet(g, S)
<1> DEFINE Good == {s \in SUBSET S : SumFunctionOnSet(f, s) = SumFunctionOnSet(g, s)}
<1>1. {} \in Good
  BY SumEmpty
<1>2. ASSUME NEW s \in SUBSET S, s # {}, Rest(s) \in Good PROVE s \in Good
  <2>1. /\ SumFunctionOnSet(f, s) = f[Some(s)] + SumFunctionOnSet(f, Rest(s))
        /\ SumFunctionOnSet(g, s) = g[Some(s)] + SumFunctionOnSet(g, Rest(s))
    BY <1>2, SumRecursion, FS_Subset
  <2> QED BY <1>2, <2>1, SomeIsElement
<1>3. S \in Good
  <2>1. Good \in SUBSET SUBSET S
    OBVIOUS
  <2> HIDE DEF Good
  <2> QED BY <1>1, <1>2, <2>1, SubsetInduction
<1> QED BY <1>3

(* Larger rows have the larger sum.                                         *)
LEMMA SumMonotonic ==
    ASSUME NEW S, IsFiniteSet(S), NEW f, NEW g,
           \A s \in S : f[s] \in Int /\ g[s] \in Int /\ f[s] <= g[s]
    PROVE  SumFunctionOnSet(f, S) <= SumFunctionOnSet(g, S)
<1> DEFINE Good == {s \in SUBSET S : SumFunctionOnSet(f, s) <= SumFunctionOnSet(g, s)}
<1>1. {} \in Good
  BY SumEmpty
<1>2. ASSUME NEW s \in SUBSET S, s # {}, Rest(s) \in Good PROVE s \in Good
  <2>1. /\ SumFunctionOnSet(f, s) = f[Some(s)] + SumFunctionOnSet(f, Rest(s))
        /\ SumFunctionOnSet(g, s) = g[Some(s)] + SumFunctionOnSet(g, Rest(s))
    BY <1>2, SumRecursion, FS_Subset
  <2>2. SumFunctionOnSet(f, Rest(s)) \in Int /\ SumFunctionOnSet(g, Rest(s)) \in Int
    BY <1>2, SumType, FS_Subset
  <2>3. Some(s) \in S /\ SumFunctionOnSet(f, Rest(s)) <= SumFunctionOnSet(g, Rest(s))
    BY <1>2, SomeIsElement
  <2> QED BY <1>2, <2>1, <2>2, <2>3
<1>3. S \in Good
  <2>1. Good \in SUBSET SUBSET S
    OBVIOUS
  <2> HIDE DEF Good
  <2> QED BY <1>1, <1>2, <2>1, SubsetInduction
<1> QED BY <1>3

(* Any row can be taken out of a sum, not only the first.                   *)
LEMMA SumTakesOut ==
    ASSUME NEW S, IsFiniteSet(S), NEW f, \A s \in S : f[s] \in Int, NEW e \in S
    PROVE  SumFunctionOnSet(f, S) = f[e] + SumFunctionOnSet(f, S \ {e})
<1> DEFINE Sum(s) == SumFunctionOnSet(f, s)
           Good == {s \in SUBSET S : \A x \in s : Sum(s) = f[x] + Sum(s \ {x})}
<1>1. ASSUME NEW s \in SUBSET S, \A t \in SUBSET s : t # s => t \in Good PROVE s \in Good
  <2> SUFFICES ASSUME NEW x \in s PROVE Sum(s) = f[x] + Sum(s \ {x})
    OBVIOUS
  <2> DEFINE c == Some(s)
             u == s \ {x}
             v == s \ {c}
  <2>1. c \in s /\ Sum(s) = f[c] + Sum(v)
    BY <1>1, SumRecursion, SomeIsElement, FS_Subset DEF Rest
  <2>2. CASE c = x
    BY <2>1, <2>2
  <2>3. CASE c # x
    <3>1. c \in u /\ u \in Good /\ x \in v /\ v \in Good
      BY <1>1, <2>1, <2>3
    <3>2. Sum(u) = f[c] + Sum(u \ {c}) /\ Sum(v) = f[x] + Sum(v \ {x})
      BY <3>1
    <3>3. u \ {c} = v \ {x}
      OBVIOUS
    <3>4. Sum(u \ {c}) \in Int
      BY SumType, FS_Subset
    <3>5. f[c] \in Int /\ f[x] \in Int
      BY <2>1
    <3>6. Sum(s) = f[c] + (f[x] + Sum(u \ {c}))
      BY <2>1, <3>2, <3>3
    <3>7. Sum(s) = f[x] + (f[c] + Sum(u \ {c}))
      <4> HIDE DEF Sum, c, u
      <4> QED BY <3>4, <3>5, <3>6
    <3>8. Sum(s) = f[x] + Sum(u)
      BY <3>2, <3>7
    <3> QED BY <3>8
  <2> QED BY <2>2, <2>3
<1>2. Good \in SUBSET SUBSET S
  OBVIOUS
<1>3. S \in Good
  <2> HIDE DEF Good
  <2> QED BY <1>1, <1>2, StrongSubsetInduction
<1> QED BY <1>3

(* A write to one row changes the sum by that row's difference.             *)
LEMMA SumChanges ==
    ASSUME NEW S, IsFiniteSet(S), NEW e \in S,
           NEW f, \A s \in S : f[s] \in Int,
           NEW g, \A s \in S : g[s] \in Int,
           \A s \in S \ {e} : g[s] = f[s]
    PROVE  SumFunctionOnSet(g, S) = SumFunctionOnSet(f, S) - f[e] + g[e]
<1> DEFINE u == S \ {e}
<1>1. /\ SumFunctionOnSet(f, S) = f[e] + SumFunctionOnSet(f, u)
      /\ SumFunctionOnSet(g, S) = g[e] + SumFunctionOnSet(g, u)
  BY SumTakesOut
<1>2. IsFiniteSet(u)
  BY FS_Subset
<1>3. SumFunctionOnSet(f, u) = SumFunctionOnSet(g, u) /\ SumFunctionOnSet(f, u) \in Int
  BY <1>2, SumSame, SumType
<1> HIDE DEF u
<1> QED BY <1>1, <1>3

(* Empty rows add up to zero.                                               *)
LEMMA SumOfZeros ==
    ASSUME NEW S, IsFiniteSet(S), NEW f, \A s \in S : f[s] = 0
    PROVE  SumFunctionOnSet(f, S) = 0
<1> DEFINE Good == {s \in SUBSET S : SumFunctionOnSet(f, s) = 0}
<1>1. {} \in Good
  BY SumEmpty
<1>2. ASSUME NEW s \in SUBSET S, s # {}, Rest(s) \in Good PROVE s \in Good
  <2>1. SumFunctionOnSet(f, s) = f[Some(s)] + SumFunctionOnSet(f, Rest(s))
    BY <1>2, SumRecursion, FS_Subset
  <2> QED BY <1>2, <2>1, SomeIsElement
<1>3. S \in Good
  <2>1. Good \in SUBSET SUBSET S
    OBVIOUS
  <2> HIDE DEF Good
  <2> QED BY <1>1, <1>2, <2>1, SubsetInduction
<1> QED BY <1>3

(* Naturals add up to a natural.                                            *)
LEMMA SumNonNegative ==
    ASSUME NEW S, IsFiniteSet(S), NEW f, \A s \in S : f[s] \in Nat
    PROVE  SumFunctionOnSet(f, S) \in Nat
<1> DEFINE zero == [s \in S |-> 0]
<1>1. SumFunctionOnSet(zero, S) = 0
  BY SumOfZeros
<1>2. SumFunctionOnSet(zero, S) <= SumFunctionOnSet(f, S)
  BY SumMonotonic
<1>3. SumFunctionOnSet(f, S) \in Int
  BY SumType
<1> QED BY <1>1, <1>2, <1>3

(* A sum of naturals is at least each of its rows.                          *)
LEMMA SumBoundsElement ==
    ASSUME NEW S, IsFiniteSet(S), NEW f, \A s \in S : f[s] \in Nat, NEW e \in S
    PROVE  f[e] <= SumFunctionOnSet(f, S)
<1>1. SumFunctionOnSet(f, S) = f[e] + SumFunctionOnSet(f, S \ {e})
  BY SumTakesOut
<1>2. SumFunctionOnSet(f, S \ {e}) \in Nat
  BY SumNonNegative, FS_Subset
<1> QED BY <1>1, <1>2

(* Some of the rows have at most the sum of all.                            *)
LEMMA SumOfSubset ==
    ASSUME NEW S, IsFiniteSet(S), NEW f, \A s \in S : f[s] \in Nat, NEW T \in SUBSET S
    PROVE  SumFunctionOnSet(f, T) <= SumFunctionOnSet(f, S)
<1> DEFINE Good == {s \in SUBSET S : SumFunctionOnSet(f, s \cap T) <= SumFunctionOnSet(f, s)}
<1>1. {} \in Good
  BY SumEmpty
<1>2. ASSUME NEW s \in SUBSET S, s # {}, Rest(s) \in Good PROVE s \in Good
  <2> DEFINE c == Some(s)
             u == Rest(s)
  <2>1. c \in s /\ u \in SUBSET s /\ IsFiniteSet(u) /\ IsFiniteSet(u \cap T)
        /\ IsFiniteSet(s \cap T) /\ IsFiniteSet(s)
    BY <1>2, SomeIsElement, FS_Subset
  <2>2. SumFunctionOnSet(f, s) = f[c] + SumFunctionOnSet(f, u)
    BY <1>2, <2>1, SumRecursion
  <2>3. SumFunctionOnSet(f, u) \in Nat /\ SumFunctionOnSet(f, u \cap T) \in Nat
    BY <2>1, SumNonNegative
  <2>4. SumFunctionOnSet(f, u \cap T) <= SumFunctionOnSet(f, u) /\ f[c] \in Nat
    BY <1>2, <2>1
  <2>5. CASE c \in T
    <3>1. (s \cap T) \ {c} = u \cap T /\ c \in s \cap T
      BY <2>1, <2>5 DEF Rest
    <3>2. SumFunctionOnSet(f, s \cap T) = f[c] + SumFunctionOnSet(f, u \cap T)
      BY <2>1, <3>1, SumTakesOut
    <3>3. SumFunctionOnSet(f, s \cap T) <= SumFunctionOnSet(f, s)
      <4> HIDE DEF c, u
      <4> QED BY <2>2, <2>3, <2>4, <3>2
    <3> QED BY <3>3
  <2>6. CASE c \notin T
    <3>1. s \cap T = u \cap T
      BY <2>6 DEF Rest
    <3>2. SumFunctionOnSet(f, s \cap T) = SumFunctionOnSet(f, u \cap T)
      BY <3>1
    <3>3. SumFunctionOnSet(f, s \cap T) <= SumFunctionOnSet(f, s)
      <4> HIDE DEF c, u
      <4> QED BY <2>2, <2>3, <2>4, <3>2
    <3> QED BY <3>3
  <2> QED BY <2>5, <2>6
<1>3. S \in Good
  <2>1. Good \in SUBSET SUBSET S
    OBVIOUS
  <2> HIDE DEF Good
  <2> QED BY <1>1, <1>2, <2>1, SubsetInduction
<1>4. S \cap T = T
  OBVIOUS
<1> QED BY <1>3, <1>4

(* Two columns can be added before or after they are summed.                *)
LEMMA SumOfSums ==
    ASSUME NEW S, IsFiniteSet(S), NEW f, NEW g, NEW h,
           \A s \in S : f[s] \in Int /\ g[s] \in Int /\ h[s] = f[s] + g[s]
    PROVE  SumFunctionOnSet(h, S) = SumFunctionOnSet(f, S) + SumFunctionOnSet(g, S)
<1> DEFINE Good == {s \in SUBSET S : SumFunctionOnSet(h, s) =
                                        SumFunctionOnSet(f, s) + SumFunctionOnSet(g, s)}
<1>1. {} \in Good
  BY SumEmpty
<1>2. ASSUME NEW s \in SUBSET S, s # {}, Rest(s) \in Good PROVE s \in Good
  <2>1. /\ SumFunctionOnSet(f, s) = f[Some(s)] + SumFunctionOnSet(f, Rest(s))
        /\ SumFunctionOnSet(g, s) = g[Some(s)] + SumFunctionOnSet(g, Rest(s))
        /\ SumFunctionOnSet(h, s) = h[Some(s)] + SumFunctionOnSet(h, Rest(s))
    BY <1>2, SumRecursion, FS_Subset
  <2>2. SumFunctionOnSet(f, Rest(s)) \in Int /\ SumFunctionOnSet(g, Rest(s)) \in Int
    BY <1>2, SumType, FS_Subset
  <2>3. /\ Some(s) \in S
        /\ SumFunctionOnSet(h, Rest(s)) =
              SumFunctionOnSet(f, Rest(s)) + SumFunctionOnSet(g, Rest(s))
    BY <1>2, SomeIsElement
  <2> QED BY <1>2, <2>1, <2>2, <2>3
<1>3. S \in Good
  <2>1. Good \in SUBSET SUBSET S
    OBVIOUS
  <2> HIDE DEF Good
  <2> QED BY <1>1, <1>2, <2>1, SubsetInduction
<1> QED BY <1>3

(* A sum over the selected rows is one over all rows, others zero.          *)
LEMMA SumOfPart ==
    ASSUME NEW S, IsFiniteSet(S), NEW f, \A s \in S : f[s] \in Int, NEW T \in SUBSET S,
           NEW g, \A s \in S : g[s] = IF s \in T THEN f[s] ELSE 0
    PROVE  SumFunctionOnSet(f, T) = SumFunctionOnSet(g, S)
<1> DEFINE Good == {s \in SUBSET S : SumFunctionOnSet(f, s \cap T) = SumFunctionOnSet(g, s)}
<1>1. {} \in Good
  BY SumEmpty
<1>2. ASSUME NEW s \in SUBSET S, s # {}, Rest(s) \in Good PROVE s \in Good
  <2> DEFINE c == Some(s)
             u == Rest(s)
  <2>1. c \in s /\ u \in SUBSET s /\ IsFiniteSet(u) /\ IsFiniteSet(u \cap T)
        /\ IsFiniteSet(s \cap T) /\ IsFiniteSet(s)
    BY <1>2, SomeIsElement, FS_Subset
  <2>2. SumFunctionOnSet(g, s) = g[c] + SumFunctionOnSet(g, u)
    BY <1>2, <2>1, SumRecursion
  <2>3. SumFunctionOnSet(f, u \cap T) = SumFunctionOnSet(g, u)
        /\ SumFunctionOnSet(f, u \cap T) \in Int
    BY <1>2, <2>1, SumType
  <2>4. CASE c \in T
    <3>1. (s \cap T) \ {c} = u \cap T /\ c \in s \cap T /\ g[c] = f[c]
      BY <1>2, <2>1, <2>4 DEF Rest
    <3>2. SumFunctionOnSet(f, s \cap T) = f[c] + SumFunctionOnSet(f, u \cap T)
      BY <2>1, <3>1, SumTakesOut
    <3>3. SumFunctionOnSet(f, s \cap T) = SumFunctionOnSet(g, s)
      <4> HIDE DEF c, u
      <4> QED BY <2>2, <2>3, <3>1, <3>2
    <3> QED BY <3>3
  <2>5. CASE c \notin T
    <3>1. s \cap T = u \cap T /\ g[c] = 0
      BY <1>2, <2>1, <2>5 DEF Rest
    <3>2. SumFunctionOnSet(f, s \cap T) = SumFunctionOnSet(f, u \cap T)
      BY <3>1
    <3>3. SumFunctionOnSet(f, s \cap T) = SumFunctionOnSet(g, s)
      <4> HIDE DEF c, u
      <4> QED BY <2>2, <2>3, <3>1, <3>2
    <3> QED BY <3>3
  <2> QED BY <2>4, <2>5
<1>3. S \in Good
  <2>1. Good \in SUBSET SUBSET S
    OBVIOUS
  <2> HIDE DEF Good
  <2> QED BY <1>1, <1>2, <2>1, SubsetInduction
<1>4. S \cap T = T
  OBVIOUS
<1> QED BY <1>3, <1>4
=============================================================================
