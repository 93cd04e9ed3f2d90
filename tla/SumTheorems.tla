----------------------------- MODULE SumTheorems -----------------------------
(***************************************************************************)
(* What the proofs need to know of SumFunctionOnSet, the sum of a          *)
(* function's values over a finite set of indices (module Functions): that *)
(* it unfolds at any index, and so what one changed value makes of it.     *)
(*                                                                         *)
(* The library's induction theorems take an operator as a parameter, which *)
(* the provers cannot instantiate.  Each induction here is an argument     *)
(* about a least counterexample instead: the proper subsets of a finite    *)
(* set are well founded, so a set of subsets that is not empty has a       *)
(* member with no proper subset in it (WFMin).                             *)
(***************************************************************************)
EXTENDS Integers, FiniteSets, Functions, FiniteSetTheorems, WellFoundedInduction, TLAPS

\* The index the library's sum takes first.
FirstTaken(s) == CHOOSE x \in s : TRUE

\* g holds the sum of f over every subset of T.
IsPartialSums(f, T, g) ==
    g = [s \in SUBSET T |-> IF s = {} THEN 0 ELSE f[FirstTaken(s)] + g[s \ {FirstTaken(s)}]]
PartialSums(f, T) == CHOOSE g : IsPartialSums(f, T, g)

\* What the library's sum unfolds to.
LEMMA SumIsPartial ==
  ASSUME NEW f, NEW T
  PROVE SumFunctionOnSet(f, T) = PartialSums(f, T)[T]
BY DEF SumFunctionOnSet, FoldFunctionOnSet, MapThenFoldSet, PartialSums, IsPartialSums, FirstTaken

\* A set of subsets of a finite set has a member none of whose proper subsets is in it.
LEMMA LeastBad ==
  ASSUME NEW T, IsFiniteSet(T), NEW B, B \subseteq SUBSET T, B # {}
  PROVE \E s \in B : \A r \in SUBSET s : r # s => r \notin B
<1>1. IsWellFoundedOn(StrictSubsetOrdering(T), SUBSET T)
  BY FS_StrictSubsetOrderingWellFounded, FS_FiniteSubsetsOfFinite
<1>2. PICK x \in B : \A y \in B : <<y, x>> \notin StrictSubsetOrdering(T)
  BY <1>1, WFMin
<1> QED BY <1>2 DEF StrictSubsetOrdering

\* Two tables of partial sums are the same one.
LEMMA OnePartialSums ==
  ASSUME NEW f, NEW T, IsFiniteSet(T), NEW g, NEW h, IsPartialSums(f,T,g), IsPartialSums(f,T,h)
  PROVE g = h
<1> DEFINE B == {s \in SUBSET T : g[s] # h[s]}
<1>1. ASSUME B # {} PROVE FALSE
  <2>0. B \subseteq SUBSET T
    OBVIOUS
  <2>1. PICK s \in B : \A r \in SUBSET s : r # s => r \notin B
    <3> HIDE DEF B
    <3> QED BY <1>1, <2>0, LeastBad
  <2>2. CASE s = {}
    BY <2>2, <2>1 DEF IsPartialSums
  <2>3. CASE s # {}
    <3>1. FirstTaken(s) \in s
       BY <2>3 DEF FirstTaken
    <3>2. s \ {FirstTaken(s)} \in SUBSET T /\ s \ {FirstTaken(s)} # s
       BY <3>1, <2>1
    <3>3. g[s \ {FirstTaken(s)}] = h[s \ {FirstTaken(s)}]
       BY <3>2, <2>1
    <3> QED BY <3>3, <2>1, <2>3 DEF IsPartialSums
  <2> QED BY <2>2, <2>3
<1>2. \A s \in SUBSET T : g[s] = h[s]
  BY <1>1
<1> QED BY <1>2 DEF IsPartialSums

\* A table of partial sums, cut down to the subsets of S, is the table of S.
LEMMA Smaller ==
  ASSUME NEW f, NEW T, NEW g, IsPartialSums(f,T,g), NEW S \in SUBSET T
  PROVE IsPartialSums(f, S, [s \in SUBSET S |-> g[s]])
<1> DEFINE h == [s \in SUBSET S |-> g[s]]
<1>1. ASSUME NEW s \in SUBSET S, s # {}
      PROVE s \ {FirstTaken(s)} \in SUBSET S /\ s \in SUBSET T
  OBVIOUS
<1>2. \A s \in SUBSET S : h[s] = IF s = {} THEN 0 ELSE f[FirstTaken(s)] + h[s \ {FirstTaken(s)}]
  BY <1>1 DEF IsPartialSums
<1> QED BY <1>2 DEF IsPartialSums

\* There is such a table.
HavePartialSums(f, T) == \E g : IsPartialSums(f, T, g)

\* Every function has a table of partial sums over a finite set.
LEMMA EverySum ==
  ASSUME NEW f, NEW T, IsFiniteSet(T)
  PROVE HavePartialSums(f, T)
<1> DEFINE B == {s \in SUBSET T : ~ HavePartialSums(f, s)}
<1>1. ASSUME B # {} PROVE FALSE
  <2>0. B \subseteq SUBSET T
    OBVIOUS
  <2>1. PICK s \in B : \A r \in SUBSET s : r # s => r \notin B
    <3> HIDE DEF B
    <3> QED BY <1>1, <2>0, LeastBad
  <2>a. \A r \in SUBSET s : r # s => HavePartialSums(f, r)
    BY <2>1
  <2>b. \A r \in SUBSET s : r # s => IsPartialSums(f, r, PartialSums(f, r))
    BY <2>a DEF HavePartialSums, PartialSums
  <2>c. \A r \in SUBSET s : IsFiniteSet(r)
    BY <2>1, FS_Subset
  <2> DEFINE h == [r \in SUBSET s |->
                     IF r = {} THEN 0
                     ELSE f[FirstTaken(r)] + PartialSums(f, r \ {FirstTaken(r)})[r \ {FirstTaken(r)}]]
  <2>2. ASSUME NEW r \in SUBSET s, r # {}
        PROVE h[r] = f[FirstTaken(r)] + h[r \ {FirstTaken(r)}]
    <3> DEFINE q == r \ {FirstTaken(r)}
    <3>1. FirstTaken(r) \in r
       BY <2>2 DEF FirstTaken
    <3>2. q \in SUBSET s /\ q # s
       BY <3>1
    <3>3. IsPartialSums(f, q, PartialSums(f, q))
       BY <3>2, <2>b
    <3>4. CASE q = {}
       BY <3>3, <3>4, <2>2 DEF IsPartialSums
    <3>5. CASE q # {}
       <4> DEFINE p == q \ {FirstTaken(q)}
       <4>1. FirstTaken(q) \in q
         BY <3>5 DEF FirstTaken
       <4>2. p \in SUBSET q /\ p # s /\ p \in SUBSET s
         BY <4>1, <3>2
       <4>3. IsPartialSums(f, p, PartialSums(f, p))
         BY <4>2, <2>b
       <4>4. IsPartialSums(f, p, [t \in SUBSET p |-> PartialSums(f, q)[t]])
         BY <4>2, <3>3, Smaller
       <4>5. PartialSums(f, p) = [t \in SUBSET p |-> PartialSums(f, q)[t]]
         BY <4>3, <4>4, OnePartialSums, <2>c, <4>2
       <4>6. PartialSums(f, p)[p] = PartialSums(f, q)[p]
         <5> HIDE DEF p, q
         <5> QED BY <4>5
       <4>7. PartialSums(f, q)[q] = f[FirstTaken(q)] + PartialSums(f, q)[p]
         BY <3>3, <3>5 DEF IsPartialSums
       <4>8. h[q] = f[FirstTaken(q)] + PartialSums(f, p)[p]
         BY <3>2, <3>5
       <4>9. h[r] = f[FirstTaken(r)] + PartialSums(f, q)[q]
         BY <2>2
       <4> QED BY <4>6, <4>7, <4>8, <4>9
    <3> QED BY <3>4, <3>5
  <2>3. IsPartialSums(f, s, h)
    BY <2>2 DEF IsPartialSums
  <2>4. HavePartialSums(f, s)
    <3> HIDE DEF h
    <3> QED BY <2>3 DEF HavePartialSums
  <2> QED BY <2>4, <2>1
<1> QED BY <1>1

\* The sum over no index is zero.
THEOREM SumOfNone ==
  ASSUME NEW f
  PROVE SumFunctionOnSet(f, {}) = 0
<1>1. IsPartialSums(f, {}, PartialSums(f, {}))
  BY EverySum, FS_EmptySet DEF HavePartialSums, PartialSums
<1> QED BY <1>1, SumIsPartial DEF IsPartialSums

\* The sum unfolds at the index the library takes first.
LEMMA SumPicks ==
  ASSUME NEW f, NEW T, IsFiniteSet(T), T # {}
  PROVE SumFunctionOnSet(f, T) = f[FirstTaken(T)] + SumFunctionOnSet(f, T \ {FirstTaken(T)})
<1> DEFINE q == T \ {FirstTaken(T)}
<1>1. IsPartialSums(f, T, PartialSums(f, T))
  BY EverySum DEF HavePartialSums, PartialSums
<1>2. q \in SUBSET T /\ IsFiniteSet(q)
  BY FS_Subset
<1>3. IsPartialSums(f, q, PartialSums(f, q))
  BY <1>2, EverySum DEF HavePartialSums, PartialSums
<1>4. PartialSums(f, q) = [t \in SUBSET q |-> PartialSums(f, T)[t]]
  <2>1. IsPartialSums(f, q, [t \in SUBSET q |-> PartialSums(f, T)[t]])
    <3> HIDE DEF q
    <3> QED BY <1>1, <1>2, Smaller
  <2> HIDE DEF q
  <2> QED BY <1>2, <1>3, <2>1, OnePartialSums
<1>5. PartialSums(f, q)[q] = PartialSums(f, T)[q]
  <2> HIDE DEF q
  <2> QED BY <1>4
<1>6. PartialSums(f, T)[T] = f[FirstTaken(T)] + PartialSums(f, T)[q]
  BY <1>1 DEF IsPartialSums
<1> QED BY <1>5, <1>6, SumIsPartial

\* A sum of integers is an integer.
THEOREM SumInt ==
  ASSUME NEW S, IsFiniteSet(S), NEW f, \A x \in S : f[x] \in Int
  PROVE SumFunctionOnSet(f, S) \in Int
<1> DEFINE B == {s \in SUBSET S : SumFunctionOnSet(f, s) \notin Int}
<1>1. ASSUME B # {} PROVE FALSE
  <2>0. B \subseteq SUBSET S
    OBVIOUS
  <2>1. PICK s \in B : \A r \in SUBSET s : r # s => r \notin B
    <3> HIDE DEF B
    <3> QED BY <1>1, <2>0, LeastBad
  <2>n. SumFunctionOnSet(f, s) \notin Int
    BY <2>1
  <2>2. s # {}
    <3> HIDE DEF B
    <3> QED BY SumOfNone, <2>n
  <2>3. FirstTaken(s) \in s
    BY <2>2 DEF FirstTaken
  <2>4. IsFiniteSet(s) /\ s \in SUBSET S
    BY <2>1, FS_Subset
  <2>5. SumFunctionOnSet(f, s \ {FirstTaken(s)}) \in Int
    BY <2>1, <2>3
  <2>6. f[FirstTaken(s)] \in Int
    BY <2>3, <2>4
  <2> QED BY <2>2, <2>4, <2>5, <2>6, SumPicks, <2>1
<1> QED BY <1>1

\* The sum unfolds at any index: the order does not matter.
THEOREM SumSplits ==
  ASSUME NEW S, IsFiniteSet(S), NEW f, \A x \in S : f[x] \in Int, NEW y \in S
  PROVE SumFunctionOnSet(f, S) = f[y] + SumFunctionOnSet(f, S \ {y})
<1> DEFINE Sum(s) == SumFunctionOnSet(f, s)
           B == {s \in SUBSET S : \E x \in s : Sum(s) # f[x] + Sum(s \ {x})}
<1>1. ASSUME B # {} PROVE FALSE
  <2>0. B \subseteq SUBSET S
    OBVIOUS
  <2>1. PICK s \in B : \A r \in SUBSET s : r # s => r \notin B
    <3> HIDE DEF B
    <3> QED BY <1>1, <2>0, LeastBad
  <2>2. PICK x \in s : Sum(s) # f[x] + Sum(s \ {x})
    BY <2>1
  <2>i. \A r \in SUBSET S : IsFiniteSet(r) /\ Sum(r) \in Int
    BY FS_Subset, SumInt
  <2> DEFINE z == FirstTaken(s)
  <2>3. z \in s
    BY <2>2 DEF FirstTaken
  <2>4. Sum(s) = f[z] + Sum(s \ {z})
    BY <2>1, <2>2, <2>i, SumPicks
  <2>5. z # x
    BY <2>2, <2>4
  <2>6. Sum(s \ {z}) = f[x] + Sum((s \ {z}) \ {x})
    <3>1. s \ {z} \notin B /\ s \ {z} \in SUBSET S /\ x \in s \ {z}
      BY <2>1, <2>3, <2>2, <2>5
    <3> QED BY <3>1
  <2>7. Sum(s \ {x}) = f[z] + Sum((s \ {x}) \ {z})
    <3>1. s \ {x} \notin B /\ s \ {x} \in SUBSET S /\ z \in s \ {x}
      BY <2>1, <2>3, <2>2, <2>5
    <3> QED BY <3>1
  <2>8. (s \ {x}) \ {z} = (s \ {z}) \ {x} /\ (s \ {x}) \ {z} \in SUBSET S
    BY <2>1
  <2>9. f[x] \in Int /\ f[z] \in Int /\ Sum((s \ {z}) \ {x}) \in Int
    BY <2>8, <2>i, <2>1, <2>3, <2>2
  <2>10. \A a, b, c \in Int : b + (a + c) = a + (b + c)
    OBVIOUS
  <2>11. Sum(s \ {x}) = f[z] + Sum((s \ {z}) \ {x})
    BY <2>7, <2>8
  <2>12. Sum(s) = f[z] + (f[x] + Sum((s \ {z}) \ {x}))
    BY <2>4, <2>6
  <2>13. f[z] + (f[x] + Sum((s \ {z}) \ {x})) = f[x] + (f[z] + Sum((s \ {z}) \ {x}))
    <3> HIDE DEF Sum, z, B
    <3> QED BY <2>9, <2>10
  <2> HIDE DEF Sum, z, B
  <2> QED BY <2>2, <2>11, <2>12, <2>13
<1> QED BY <1>1

\* Functions that agree on the indices have the same sum.
THEOREM SumSame ==
  ASSUME NEW S, IsFiniteSet(S), NEW f, NEW g, \A x \in S : f[x] = g[x]
  PROVE  SumFunctionOnSet(f, S) = SumFunctionOnSet(g, S)
<1> DEFINE B == {s \in SUBSET S : SumFunctionOnSet(f, s) # SumFunctionOnSet(g, s)}
<1>1. ASSUME B # {} PROVE FALSE
  <2>0. B \subseteq SUBSET S
    OBVIOUS
  <2>1. PICK s \in B : \A r \in SUBSET s : r # s => r \notin B
    <3> HIDE DEF B
    <3> QED BY <1>1, <2>0, LeastBad
  <2>2. /\ s \in SUBSET S
        /\ SumFunctionOnSet(f, s) # SumFunctionOnSet(g, s)
    BY <2>1
  <2>3. IsFiniteSet(s)
    BY <2>2, FS_Subset
  <2>4. s # {}
    <3> HIDE DEF B
    <3> QED BY SumOfNone, <2>2
  <2>5. FirstTaken(s) \in s
    BY <2>4 DEF FirstTaken
  <2>6. SumFunctionOnSet(f, s \ {FirstTaken(s)}) = SumFunctionOnSet(g, s \ {FirstTaken(s)})
    BY <2>1, <2>5
  <2>7. f[FirstTaken(s)] = g[FirstTaken(s)]
    BY <2>2, <2>5
  <2>8. /\ SumFunctionOnSet(f, s) = f[FirstTaken(s)] + SumFunctionOnSet(f, s \ {FirstTaken(s)})
        /\ SumFunctionOnSet(g, s) = g[FirstTaken(s)] + SumFunctionOnSet(g, s \ {FirstTaken(s)})
    BY <2>3, <2>4, SumPicks
  <2> HIDE DEF B
  <2> QED BY <2>2, <2>6, <2>7, <2>8
<1> QED BY <1>1

\* One more index adds its value.
THEOREM SumAdds ==
  ASSUME NEW S, IsFiniteSet(S), NEW y, y \notin S,
         NEW f, \A x \in S \cup {y} : f[x] \in Int
  PROVE  SumFunctionOnSet(f, S \cup {y}) = SumFunctionOnSet(f, S) + f[y]
<1>1. IsFiniteSet(S \cup {y}) /\ (S \cup {y}) \ {y} = S
  BY FS_AddElement
<1>2. SumFunctionOnSet(f, S \cup {y}) = f[y] + SumFunctionOnSet(f, S)
  BY <1>1, SumSplits
<1>3. SumFunctionOnSet(f, S) \in Int /\ f[y] \in Int
  BY SumInt
<1> QED BY <1>2, <1>3

\* A value that changes at one index changes the sum by the difference.
THEOREM SumChanges ==
  ASSUME NEW S, IsFiniteSet(S), NEW y \in S, NEW f, NEW g,
         \A x \in S : f[x] \in Int /\ g[x] \in Int,
         \A x \in S \ {y} : f[x] = g[x]
  PROVE  SumFunctionOnSet(g, S) = SumFunctionOnSet(f, S) + (g[y] - f[y])
<1>1. IsFiniteSet(S \ {y})
  BY FS_Subset
<1>2. SumFunctionOnSet(f, S \ {y}) = SumFunctionOnSet(g, S \ {y})
  BY <1>1, SumSame
<1>3. /\ SumFunctionOnSet(f, S) = f[y] + SumFunctionOnSet(f, S \ {y})
      /\ SumFunctionOnSet(g, S) = g[y] + SumFunctionOnSet(g, S \ {y})
  BY SumSplits
<1>4. SumFunctionOnSet(f, S \ {y}) \in Int /\ f[y] \in Int /\ g[y] \in Int
  BY <1>1, SumInt
<1> QED BY <1>2, <1>3, <1>4

\* Smaller values have a smaller sum.
THEOREM SumAtMost ==
  ASSUME NEW S, IsFiniteSet(S), NEW f, NEW g,
         \A x \in S : f[x] \in Int /\ g[x] \in Int /\ f[x] <= g[x]
  PROVE  SumFunctionOnSet(f, S) <= SumFunctionOnSet(g, S)
<1> DEFINE B == {s \in SUBSET S : ~(SumFunctionOnSet(f, s) <= SumFunctionOnSet(g, s))}
<1>1. ASSUME B # {} PROVE FALSE
  <2>0. B \subseteq SUBSET S
    OBVIOUS
  <2>1. PICK s \in B : \A r \in SUBSET s : r # s => r \notin B
    <3> HIDE DEF B
    <3> QED BY <1>1, <2>0, LeastBad
  <2>2. /\ s \in SUBSET S
        /\ ~(SumFunctionOnSet(f, s) <= SumFunctionOnSet(g, s))
    BY <2>1
  <2>3. s # {}
    <3> HIDE DEF B
    <3> QED BY SumOfNone, <2>2
  <2>4. PICK y \in s : TRUE
    BY <2>3
  <2>5. IsFiniteSet(s) /\ IsFiniteSet(s \ {y})
    BY <2>2, FS_Subset
  <2>6. SumFunctionOnSet(f, s \ {y}) <= SumFunctionOnSet(g, s \ {y})
    BY <2>1, <2>4
  <2>7. /\ SumFunctionOnSet(f, s) = f[y] + SumFunctionOnSet(f, s \ {y})
        /\ SumFunctionOnSet(g, s) = g[y] + SumFunctionOnSet(g, s \ {y})
    BY <2>2, <2>4, <2>5, SumSplits
  <2>8. f[y] \in Int /\ g[y] \in Int /\ f[y] <= g[y]
    BY <2>2, <2>4
  <2>9. SumFunctionOnSet(f, s \ {y}) \in Int /\ SumFunctionOnSet(g, s \ {y}) \in Int
    BY <2>2, <2>5, SumInt
  <2> HIDE DEF B
  <2> QED BY <2>2, <2>6, <2>7, <2>8, <2>9
<1> QED BY <1>1

\* The sum of zeros is zero.
THEOREM SumOfZeros ==
  ASSUME NEW S, IsFiniteSet(S), NEW f, \A x \in S : f[x] = 0
  PROVE  SumFunctionOnSet(f, S) = 0
<1> DEFINE B == {s \in SUBSET S : SumFunctionOnSet(f, s) # 0}
<1>1. ASSUME B # {} PROVE FALSE
  <2>0. B \subseteq SUBSET S
    OBVIOUS
  <2>1. PICK s \in B : \A r \in SUBSET s : r # s => r \notin B
    <3> HIDE DEF B
    <3> QED BY <1>1, <2>0, LeastBad
  <2>2. s \in SUBSET S /\ SumFunctionOnSet(f, s) # 0
    BY <2>1
  <2>3. s # {}
    <3> HIDE DEF B
    <3> QED BY SumOfNone, <2>2
  <2>4. PICK y \in s : TRUE
    BY <2>3
  <2>5. IsFiniteSet(s)
    BY <2>2, FS_Subset
  <2>6. SumFunctionOnSet(f, s \ {y}) = 0
    BY <2>1, <2>4
  <2>7. SumFunctionOnSet(f, s) = f[y] + SumFunctionOnSet(f, s \ {y})
    BY <2>2, <2>4, <2>5, SumSplits
  <2>8. f[y] = 0
    BY <2>2, <2>4
  <2> HIDE DEF B
  <2> QED BY <2>2, <2>6, <2>7, <2>8
<1> QED BY <1>1

\* The sum over two sets apart is the sum of both sums.
THEOREM SumJoins ==
  ASSUME NEW S, IsFiniteSet(S), NEW T, IsFiniteSet(T), S \cap T = {},
         NEW f, \A x \in S \cup T : f[x] \in Int
  PROVE  SumFunctionOnSet(f, S \cup T) = SumFunctionOnSet(f, S) + SumFunctionOnSet(f, T)
<1> DEFINE Joins(s) == SumFunctionOnSet(f, S \cup s) = SumFunctionOnSet(f, S) + SumFunctionOnSet(f, s)
           B == {s \in SUBSET T : ~Joins(s)}
<1>0. IsFiniteSet(S \cup T)
  BY FS_Union
<1>i. \A s \in SUBSET (S \cup T) : IsFiniteSet(s) /\ SumFunctionOnSet(f, s) \in Int
  BY <1>0, FS_Subset, SumInt
<1>1. ASSUME B # {} PROVE FALSE
  <2>0. B \subseteq SUBSET T
    OBVIOUS
  <2>1. PICK s \in B : \A r \in SUBSET s : r # s => r \notin B
    <3> HIDE DEF B
    <3> QED BY <1>1, <2>0, LeastBad
  <2>2. s \in SUBSET T /\ ~Joins(s)
    BY <2>1
  <2>3. s # {}
    <3>1. SumFunctionOnSet(f, S) \in Int /\ S \cup {} = S
      BY <1>i
    <3>2. Joins({})
      BY <3>1, SumOfNone
    <3> HIDE DEF Joins, B
    <3> QED BY <2>2, <3>2
  <2>4. PICK y \in s : TRUE
    BY <2>3
  <2>5. Joins(s \ {y})
    <3>1. s \ {y} \in SUBSET s /\ s \ {y} # s /\ s \ {y} \in SUBSET T
      BY <2>2, <2>4
    <3> HIDE DEF Joins
    <3> QED BY <2>1, <3>1
  <2>6. /\ IsFiniteSet(S \cup s) /\ IsFiniteSet(s)
        /\ \A x \in S \cup s : f[x] \in Int
        /\ (S \cup s) \ {y} = S \cup (s \ {y})
    BY <1>i, <2>2, <2>4
  <2>7. SumFunctionOnSet(f, S \cup s) = f[y] + SumFunctionOnSet(f, (S \cup s) \ {y})
    BY <2>4, <2>6, SumSplits
  <2>8. SumFunctionOnSet(f, s) = f[y] + SumFunctionOnSet(f, s \ {y})
    BY <2>4, <2>6, SumSplits
  <2>9. /\ f[y] \in Int /\ SumFunctionOnSet(f, S) \in Int
        /\ SumFunctionOnSet(f, s \ {y}) \in Int
    BY <1>i, <2>2, <2>4
  <2>10. SumFunctionOnSet(f, S \cup s) = f[y] + (SumFunctionOnSet(f, S) + SumFunctionOnSet(f, s \ {y}))
    BY <2>5, <2>6, <2>7
  <2>11. Joins(s)
    BY <2>8, <2>9, <2>10
  <2> HIDE DEF Joins, B
  <2> QED BY <2>2, <2>11
<1>2. T \notin B
  BY <1>1
<1> QED BY <1>2

\* Indices of value zero may be left out.
THEOREM SumSkipsZeros ==
  ASSUME NEW T, IsFiniteSet(T), NEW S, S \subseteq T,
         NEW f, \A x \in T : f[x] \in Int, \A x \in T \ S : f[x] = 0
  PROVE  SumFunctionOnSet(f, T) = SumFunctionOnSet(f, S)
<1>1. IsFiniteSet(S) /\ IsFiniteSet(T \ S) /\ S \cap (T \ S) = {} /\ S \cup (T \ S) = T
  BY FS_Subset
<1>2. SumFunctionOnSet(f, T) = SumFunctionOnSet(f, S) + SumFunctionOnSet(f, T \ S)
  <2>1. SumFunctionOnSet(f, S \cup (T \ S)) = SumFunctionOnSet(f, S) + SumFunctionOnSet(f, T \ S)
    BY <1>1, SumJoins
  <2> QED BY <1>1, <2>1, Zenon
<1>3. SumFunctionOnSet(f, T \ S) = 0
  BY <1>1, SumOfZeros
<1>4. SumFunctionOnSet(f, S) \in Int
  BY <1>1, SumInt
<1> QED BY <1>2, <1>3, <1>4

\* A sum of natural numbers is one.
THEOREM SumNat ==
  ASSUME NEW S, IsFiniteSet(S), NEW f, \A x \in S : f[x] \in Nat
  PROVE  SumFunctionOnSet(f, S) \in Nat
<1> DEFINE zero == [x \in S |-> 0]
<1>1. \A x \in S : zero[x] \in Int /\ zero[x] = 0 /\ f[x] \in Int /\ zero[x] <= f[x]
  OBVIOUS
<1> HIDE DEF zero
<1>2. SumFunctionOnSet(zero, S) <= SumFunctionOnSet(f, S)
  BY <1>1, SumAtMost
<1>3. SumFunctionOnSet(zero, S) = 0
  BY <1>1, SumOfZeros
<1>4. SumFunctionOnSet(f, S) \in Int
  BY <1>1, SumInt
<1> QED BY <1>2, <1>3, <1>4

\* A function on one more index, with the other values as they were.
THEOREM SumExtends ==
  ASSUME NEW S, IsFiniteSet(S), NEW y, y \notin S, NEW f, NEW g,
         \A x \in S : f[x] \in Int /\ g[x] = f[x], g[y] \in Int
  PROVE  SumFunctionOnSet(g, S \cup {y}) = SumFunctionOnSet(f, S) + g[y]
<1>1. SumFunctionOnSet(g, S \cup {y}) = SumFunctionOnSet(g, S) + g[y]
  BY SumAdds
<1>2. SumFunctionOnSet(g, S) = SumFunctionOnSet(f, S)
  BY SumSame
<1> QED BY <1>1, <1>2

\* The sum of the sums of two functions.
THEOREM SumOfBoth ==
  ASSUME NEW S, IsFiniteSet(S), NEW f, NEW g, NEW h,
         \A x \in S : f[x] \in Int /\ g[x] \in Int /\ h[x] = f[x] + g[x]
  PROVE  SumFunctionOnSet(h, S) = SumFunctionOnSet(f, S) + SumFunctionOnSet(g, S)
<1> DEFINE Both(s) == SumFunctionOnSet(h, s) = SumFunctionOnSet(f, s) + SumFunctionOnSet(g, s)
           B == {s \in SUBSET S : ~Both(s)}
<1>1. ASSUME B # {} PROVE FALSE
  <2>0. B \subseteq SUBSET S
    OBVIOUS
  <2>1. PICK s \in B : \A r \in SUBSET s : r # s => r \notin B
    <3> HIDE DEF B
    <3> QED BY <1>1, <2>0, LeastBad
  <2>2. s \in SUBSET S /\ ~Both(s)
    BY <2>1
  <2>3. s # {}
    <3>1. Both({})
      BY SumOfNone
    <3> HIDE DEF Both, B
    <3> QED BY <2>2, <3>1
  <2>4. PICK y \in s : TRUE
    BY <2>3
  <2>5. Both(s \ {y})
    <3>1. s \ {y} \in SUBSET s /\ s \ {y} # s /\ s \ {y} \in SUBSET S
      BY <2>2, <2>4
    <3> HIDE DEF Both
    <3> QED BY <2>1, <3>1
  <2>6. /\ IsFiniteSet(s) /\ IsFiniteSet(s \ {y})
        /\ \A x \in s : f[x] \in Int /\ g[x] \in Int /\ h[x] \in Int /\ h[x] = f[x] + g[x]
    BY <2>2, FS_Subset
  <2>7. /\ SumFunctionOnSet(f, s) = f[y] + SumFunctionOnSet(f, s \ {y})
        /\ SumFunctionOnSet(g, s) = g[y] + SumFunctionOnSet(g, s \ {y})
        /\ SumFunctionOnSet(h, s) = h[y] + SumFunctionOnSet(h, s \ {y})
    BY <2>4, <2>6, SumSplits
  <2>8. /\ SumFunctionOnSet(f, s \ {y}) \in Int /\ SumFunctionOnSet(g, s \ {y}) \in Int
        /\ f[y] \in Int /\ g[y] \in Int /\ h[y] = f[y] + g[y]
    BY <2>4, <2>6, SumInt
  <2>9. Both(s)
    BY <2>5, <2>7, <2>8
  <2> HIDE DEF Both, B
  <2> QED BY <2>2, <2>9
<1>2. S \notin B
  BY <1>1
<1> QED BY <1>2

==============================================================================
