----------------------------- MODULE SumsProofs ------------------------------
(***************************************************************************)
(* What Total computes, for every finite domain.  It is a fold, that is, a *)
(* recursive function over the subsets of the domain that takes their      *)
(* elements out in an order of its own; that there is such a function, and *)
(* that the order is immaterial, follows from there being a least subset   *)
(* of any kind.                                                            *)
(***************************************************************************)
EXTENDS Sums, FiniteSetTheorems, WellFoundedInduction, TLAPS

\* The fold's own step: the element it takes out of a set, and what makes a function
\* over the subsets of S the fold of f.
OneOf(s) == CHOOSE x \in s : TRUE
IsRun(f, S, g) == g = [s \in SUBSET S |-> IF s = {} THEN 0 ELSE f[OneOf(s)] + g[s \ {OneOf(s)}]]
PartSum(f, S) == (CHOOSE g : IsRun(f, S, g))[S]

LEMMA TotalIsSum == ASSUME NEW f PROVE Total(f) = PartSum(f, DOMAIN f)
BY DEF Total, FoldFunction, FoldFunctionOnSet, MapThenFoldSet, IsRun, OneOf, PartSum

\* Of the finite sets of any kind there is one with no smaller one in it.
LEMMA LeastSubset ==
    ASSUME NEW S, IsFiniteSet(S), NEW B \in SUBSET (SUBSET S), B # {}
    PROVE  \E t \in B : \A u \in B : u \subseteq t => u = t
<1>1. IsWellFoundedOn(StrictSubsetOrdering(S), SUBSET S)
  BY FS_StrictSubsetOrderingWellFounded, FS_FiniteSubsetsOfFinite
<1>2. PICK t \in B : \A u \in B : <<u, t>> \notin StrictSubsetOrdering(S)
  BY <1>1, WFMin
<1> QED
  BY <1>2 DEF StrictSubsetOrdering

\* Induction over finite sets, where the property is a set of sets.
LEMMA FiniteInduction ==
    ASSUME NEW S, IsFiniteSet(S), NEW Good, {} \in Good,
           \A T \in SUBSET S, x \in S : T \in Good /\ x \notin T => T \cup {x} \in Good
    PROVE  S \in Good
<1> DEFINE B == {T \in SUBSET S : T \notin Good}
<1> SUFFICES ASSUME S \notin Good PROVE FALSE
  OBVIOUS
<1>1. PICK t \in B : \A u \in B : u \subseteq t => u = t
  <2>1. B \in SUBSET (SUBSET S) /\ B # {}
    OBVIOUS
  <2> HIDE DEF B
  <2> QED
    BY <2>1, LeastSubset
<1>2. PICK x \in t : TRUE
  BY <1>1
<1>3. t \ {x} \in Good
  <2>1. t \ {x} \in SUBSET S /\ t \ {x} \subseteq t /\ t \ {x} # t
    BY <1>1, <1>2
  <2> QED
    BY <1>1, <2>1
<1>4. (t \ {x}) \cup {x} = t
  BY <1>2
<1>5. t \ {x} \in SUBSET S /\ x \in S /\ x \notin t \ {x}
  BY <1>1, <1>2
<1>6. (t \ {x}) \cup {x} \in Good
  BY <1>3, <1>5
<1> QED
  BY <1>1, <1>4, <1>6

LEMMA RunTakesOne ==
    ASSUME NEW f, NEW S, NEW g, IsRun(f, S, g), NEW s \in SUBSET S
    PROVE  /\ s = {} => g[s] = 0
           /\ s # {} => /\ OneOf(s) \in s
                        /\ s \ {OneOf(s)} \in SUBSET S
                        /\ g[s] = f[OneOf(s)] + g[s \ {OneOf(s)}]
<1>1. s # {} => OneOf(s) \in s
  BY DEF OneOf
<1> QED
  BY <1>1 DEF IsRun

\* Two runs agree where both are defined and sum the same.
LEMMA RunsAgree ==
    ASSUME NEW S, NEW T \in SUBSET S, IsFiniteSet(T), NEW f, NEW e, \A x \in T : f[x] = e[x],
           NEW g, IsRun(f, S, g), NEW h, IsRun(e, T, h)
    PROVE  \A s \in SUBSET T : g[s] = h[s]
<1> DEFINE B == {s \in SUBSET T : g[s] # h[s]}
<1> SUFFICES ASSUME B # {} PROVE FALSE
  OBVIOUS
<1>1. PICK t \in B : \A u \in B : u \subseteq t => u = t
  <2>1. B \in SUBSET (SUBSET T)
    OBVIOUS
  <2> HIDE DEF B
  <2> QED
    BY <2>1, LeastSubset
<1>2. t \in SUBSET T /\ t \in SUBSET S /\ g[t] # h[t]
  BY <1>1
<1>3. t # {}
  <2>1. t = {} => g[t] = 0
    BY <1>2, RunTakesOne
  <2>2. t = {} => h[t] = 0
    <3>1. IsRun(e, T, h) /\ t \in SUBSET T
      BY <1>2
    <3> HIDE DEF B
    <3> QED
      BY <3>1 DEF IsRun
  <2> QED
    BY <1>2, <2>1, <2>2
<1>4. /\ OneOf(t) \in t
      /\ g[t] = f[OneOf(t)] + g[t \ {OneOf(t)}]
      /\ h[t] = e[OneOf(t)] + h[t \ {OneOf(t)}]
  BY <1>2, <1>3, RunTakesOne
<1>5. t \ {OneOf(t)} \notin B
  BY <1>1, <1>4
<1> QED
  BY <1>2, <1>4, <1>5

LEMMA RunIsThere ==
    ASSUME NEW f, NEW S, IsFiniteSet(S)
    PROVE  \E g : IsRun(f, S, g)
<1> DEFINE B == {u \in SUBSET S : ~\E g : IsRun(f, u, g)}
<1> SUFFICES ASSUME S \in B PROVE FALSE
  OBVIOUS
<1>1. PICK u \in B : \A v \in B : v \subseteq u => v = u
  <2>1. B \in SUBSET (SUBSET S) /\ B # {}
    OBVIOUS
  <2> HIDE DEF B
  <2> QED
    BY <2>1, LeastSubset
<1>2. \A v \in SUBSET u : v # u => \E g : IsRun(f, v, g)
  BY <1>1
<1> DEFINE g == [s \in SUBSET u |-> IF s = {} THEN 0 ELSE f[OneOf(s)] + PartSum(f, s \ {OneOf(s)})]
<1>3. ASSUME NEW s \in SUBSET u, s # u
      PROVE  g[s] = PartSum(f, s)
  <2> DEFINE h == CHOOSE k : IsRun(f, s, k)
  <2>1. IsRun(f, s, h)
    BY <1>2, <1>3
  <2>2. PartSum(f, s) = h[s]
    BY DEF PartSum
  <2> HIDE DEF h
  <2>3. CASE s = {}
    <3>1. s \in SUBSET s
      OBVIOUS
    <3>2. h[s] = 0
      BY <2>1, <2>3, <3>1, RunTakesOne
    <3>3. g[s] = 0
      BY <2>3
    <3> QED
      BY <2>2, <3>2, <3>3
  <2>4. CASE s # {}
    <3> DEFINE rest == s \ {OneOf(s)}
               k == CHOOSE m : IsRun(f, rest, m)
    <3>1. OneOf(s) \in s /\ rest \in SUBSET s /\ h[s] = f[OneOf(s)] + h[rest]
      BY <2>1, <2>4, RunTakesOne
    <3>2. rest \in SUBSET u /\ rest # u
      BY <3>1
    <3>3. IsRun(f, rest, k)
      BY <1>2, <3>2
    <3>4. PartSum(f, rest) = k[rest]
      BY DEF PartSum
    <3>5. IsFiniteSet(rest)
      BY <3>2, <1>1, FS_Subset
    <3> HIDE DEF k
    <3>6. h[rest] = k[rest]
      <4> HIDE DEF rest
      <4> QED
        BY <2>1, <3>1, <3>3, <3>5, RunsAgree
    <3> QED
      BY <2>2, <2>4, <3>1, <3>4, <3>6
  <2> QED
    BY <2>3, <2>4
<1>4. IsRun(f, u, g)
  <2>1. ASSUME NEW s \in SUBSET u, s # {}
        PROVE  g[s \ {OneOf(s)}] = PartSum(f, s \ {OneOf(s)})
    <3>1. OneOf(s) \in s
      BY <2>1 DEF OneOf
    <3>2. s \ {OneOf(s)} \in SUBSET u /\ s \ {OneOf(s)} # u
      BY <3>1
    <3> HIDE DEF g
    <3> QED
      BY <3>2, <1>3
  <2>2. ASSUME NEW s \in SUBSET u
        PROVE  g[s] = IF s = {} THEN 0 ELSE f[OneOf(s)] + g[s \ {OneOf(s)}]
    BY <2>1
  <2>3. g = [s \in SUBSET u |-> g[s]]
    OBVIOUS
  <2> HIDE DEF g
  <2> QED
    BY <2>2, <2>3 DEF IsRun
<1> HIDE DEF g
<1> QED
  BY <1>1, <1>4

-----------------------------------------------------------------------------
\* A sum over subsets of a finite set: none, one more, one less.
LEMMA SumsAreRuns ==
    ASSUME NEW f, NEW S, IsFiniteSet(S)
    PROVE  \E g : IsRun(f, S, g) /\ \A s \in SUBSET S : g[s] = PartSum(f, s)
<1> DEFINE g == CHOOSE k : IsRun(f, S, k)
<1>1. IsRun(f, S, g)
  BY RunIsThere
<1> HIDE DEF g
<1>2. ASSUME NEW s \in SUBSET S PROVE g[s] = PartSum(f, s)
  <2> DEFINE h == CHOOSE k : IsRun(f, s, k)
  <2>1. IsFiniteSet(s)
    BY FS_Subset
  <2>2. IsRun(f, s, h)
    BY <2>1, RunIsThere
  <2>3. PartSum(f, s) = h[s]
    BY DEF PartSum
  <2> HIDE DEF h
  <2> QED
    BY <1>1, <2>1, <2>2, <2>3, RunsAgree
<1> QED
  BY <1>1, <1>2

LEMMA SumEmpty == ASSUME NEW f PROVE PartSum(f, {}) = 0
<1>1. PICK g : IsRun(f, {}, g) /\ \A s \in SUBSET {} : g[s] = PartSum(f, s)
  BY FS_EmptySet, SumsAreRuns
<1>2. {} \in SUBSET {}
  OBVIOUS
<1>3. g[{}] = 0
  BY <1>1, <1>2, RunTakesOne
<1> QED
  BY <1>1, <1>2, <1>3

LEMMA SumAny ==
    ASSUME NEW f, NEW S, IsFiniteSet(S), S # {}
    PROVE  OneOf(S) \in S /\ PartSum(f, S) = f[OneOf(S)] + PartSum(f, S \ {OneOf(S)})
<1>1. PICK g : IsRun(f, S, g) /\ \A s \in SUBSET S : g[s] = PartSum(f, s)
  BY SumsAreRuns
<1>2. S \in SUBSET S /\ IsRun(f, S, g)
  BY <1>1
<1>3. /\ OneOf(S) \in S /\ S \ {OneOf(S)} \in SUBSET S
      /\ g[S] = f[OneOf(S)] + g[S \ {OneOf(S)}]
  <2>1. S # {} => /\ OneOf(S) \in S
                  /\ S \ {OneOf(S)} \in SUBSET S
                  /\ g[S] = f[OneOf(S)] + g[S \ {OneOf(S)}]
    BY <1>2, RunTakesOne, SMTT(60)
  <2> QED
    BY <2>1
<1>4. g[S] = PartSum(f, S) /\ g[S \ {OneOf(S)}] = PartSum(f, S \ {OneOf(S)})
  BY <1>1, <1>2, <1>3
<1> QED
  BY <1>3, <1>4

LEMMA SumSame ==
    ASSUME NEW f, NEW e, NEW S, IsFiniteSet(S), \A x \in S : f[x] = e[x]
    PROVE  PartSum(f, S) = PartSum(e, S)
<1>1. PICK g : IsRun(f, S, g) /\ \A s \in SUBSET S : g[s] = PartSum(f, s)
  BY SumsAreRuns
<1>2. PICK h : IsRun(e, S, h) /\ \A s \in SUBSET S : h[s] = PartSum(e, s)
  BY SumsAreRuns
<1>3. S \in SUBSET S /\ IsRun(f, S, g) /\ IsRun(e, S, h)
  BY <1>1, <1>2
<1>4. g[S] = h[S]
  <2>1. \A s \in SUBSET S : g[s] = h[s]
    BY <1>3, RunsAgree, SMTT(60)
  <2> QED
    BY <1>3, <2>1
<1> QED
  BY <1>1, <1>2, <1>3, <1>4

\* Sums of integers are integers, and any element may be taken out first.
LEMMA SumInt ==
    ASSUME NEW S, IsFiniteSet(S), NEW f, \A x \in S : f[x] \in Int
    PROVE  \A T \in SUBSET S : PartSum(f, T) \in Int
<1> DEFINE B == {T \in SUBSET S : PartSum(f, T) \notin Int}
<1> SUFFICES ASSUME B # {} PROVE FALSE
  OBVIOUS
<1>1. PICK t \in B : \A u \in B : u \subseteq t => u = t
  <2>1. B \in SUBSET (SUBSET S)
    OBVIOUS
  <2> HIDE DEF B
  <2> QED
    BY <2>1, LeastSubset
<1>2. t \in SUBSET S /\ PartSum(f, t) \notin Int
  BY <1>1
<1>3. t # {}
  BY <1>2, SumEmpty
<1>4. IsFiniteSet(t)
  BY <1>2, FS_Subset
<1>5. OneOf(t) \in t /\ PartSum(f, t) = f[OneOf(t)] + PartSum(f, t \ {OneOf(t)})
  BY <1>3, <1>4, SumAny
<1>6. t \ {OneOf(t)} \in SUBSET S /\ t \ {OneOf(t)} \subseteq t /\ t \ {OneOf(t)} # t
  BY <1>2, <1>5
<1>7. t \ {OneOf(t)} \notin B
  BY <1>1, <1>6
<1>8. PartSum(f, t \ {OneOf(t)}) \in Int
  BY <1>6, <1>7
<1> QED
  BY <1>2, <1>5, <1>8

LEMMA SumRemove ==
    ASSUME NEW S, IsFiniteSet(S), NEW f, \A x \in S : f[x] \in Int
    PROVE  \A T \in SUBSET S, x \in S : x \in T => PartSum(f, T) = f[x] + PartSum(f, T \ {x})
<1> DEFINE B == {T \in SUBSET S : \E x \in T : PartSum(f, T) # f[x] + PartSum(f, T \ {x})}
<1> SUFFICES ASSUME B # {} PROVE FALSE
  OBVIOUS
<1>1. PICK t \in B : \A u \in B : u \subseteq t => u = t
  <2>1. B \in SUBSET (SUBSET S)
    OBVIOUS
  <2> HIDE DEF B
  <2> QED
    BY <2>1, LeastSubset
<1>2. PICK x \in t : PartSum(f, t) # f[x] + PartSum(f, t \ {x})
  BY <1>1
<1> DEFINE a == OneOf(t)
<1>3. t \in SUBSET S /\ IsFiniteSet(t) /\ t # {}
  BY <1>1, <1>2, FS_Subset
<1>4. a \in t /\ PartSum(f, t) = f[a] + PartSum(f, t \ {a})
  BY <1>3, SumAny
<1> HIDE DEF a
<1>5. a # x
  BY <1>2, <1>4
<1>6. PartSum(f, t \ {a}) = f[x] + PartSum(f, (t \ {a}) \ {x})
  <2>1. t \ {a} \in SUBSET S /\ t \ {a} \subseteq t /\ t \ {a} # t /\ x \in t \ {a}
    BY <1>2, <1>3, <1>4, <1>5
  <2>2. t \ {a} \notin B
    BY <1>1, <2>1
  <2> QED
    BY <2>1, <2>2
<1>7. PartSum(f, t \ {x}) = f[a] + PartSum(f, (t \ {x}) \ {a})
  <2>1. t \ {x} \in SUBSET S /\ t \ {x} \subseteq t /\ t \ {x} # t /\ a \in t \ {x}
    BY <1>2, <1>3, <1>4, <1>5
  <2>2. t \ {x} \notin B
    BY <1>1, <2>1
  <2> QED
    BY <2>1, <2>2
<1>8. (t \ {a}) \ {x} = (t \ {x}) \ {a}
  OBVIOUS
<1>9. /\ f[x] \in Int /\ f[a] \in Int
      /\ PartSum(f, (t \ {x}) \ {a}) \in Int
  <2>1. (t \ {x}) \ {a} \in SUBSET S
    BY <1>3
  <2> QED
    BY <1>2, <1>3, <1>4, <2>1, SumInt
<1> DEFINE rest == PartSum(f, (t \ {x}) \ {a})
           less == PartSum(f, t \ {x})
           lessa == PartSum(f, t \ {a})
<1>10. /\ PartSum(f, t) = f[a] + lessa
       /\ lessa = f[x] + rest
       /\ less = f[a] + rest
       /\ PartSum(f, t) # f[x] + less
       /\ f[x] \in Int /\ f[a] \in Int /\ rest \in Int
  BY <1>2, <1>4, <1>6, <1>7, <1>8, <1>9
<1> HIDE DEF rest, less, lessa
<1> QED
  BY <1>10

\* One element more.
LEMMA SumAdd ==
    ASSUME NEW S, IsFiniteSet(S), NEW f, \A x \in S : f[x] \in Int,
           NEW T \in SUBSET S, NEW x \in S, x \notin T
    PROVE  /\ PartSum(f, T \cup {x}) = f[x] + PartSum(f, T)
           /\ f[x] \in Int
           /\ PartSum(f, T) \in Int
<1>1. T \cup {x} \in SUBSET S /\ x \in T \cup {x} /\ (T \cup {x}) \ {x} = T
  OBVIOUS
<1>2. PartSum(f, T \cup {x}) = f[x] + PartSum(f, (T \cup {x}) \ {x})
  BY <1>1, SumRemove
<1>3. PartSum(f, T) \in Int
  BY SumInt
<1> QED
  BY <1>1, <1>2, <1>3

\* A fact about the sums over S holds when it holds of nothing and adding one
\* element preserves it.
\* The same of a function named for having integers to sum.
IntsOn(f, S) == \A x \in S : f[x] \in Int

LEMMA SumGrows ==
    ASSUME NEW S, IsFiniteSet(S), NEW f, IntsOn(f, S), NEW T \in SUBSET S, NEW x \in S,
           x \notin T
    PROVE  /\ PartSum(f, T \cup {x}) = f[x] + PartSum(f, T)
           /\ f[x] \in Int
           /\ PartSum(f, T) \in Int
BY SumAdd DEF IntsOn

LEMMA PlusStep ==
    ASSUME NEW S, IsFiniteSet(S), NEW f, IntsOn(f, S), NEW e, IntsOn(e, S), NEW h, IntsOn(h, S),
           NEW T \in SUBSET S, NEW x \in S, x \notin T, h[x] = f[x] + e[x],
           PartSum(h, T) = PartSum(f, T) + PartSum(e, T)
    PROVE  PartSum(h, T \cup {x}) = PartSum(f, T \cup {x}) + PartSum(e, T \cup {x})
<1>1. PartSum(f, T \cup {x}) = f[x] + PartSum(f, T) /\ f[x] \in Int /\ PartSum(f, T) \in Int
  BY SumGrows
<1>2. PartSum(e, T \cup {x}) = e[x] + PartSum(e, T) /\ e[x] \in Int /\ PartSum(e, T) \in Int
  BY SumGrows
<1>3. PartSum(h, T \cup {x}) = h[x] + PartSum(h, T)
  BY SumGrows
<1> QED
  BY <1>1, <1>2, <1>3

LEMMA SumPlus ==
    ASSUME NEW S, IsFiniteSet(S), NEW f, NEW e, NEW h,
           \A x \in S : f[x] \in Int /\ e[x] \in Int /\ h[x] = f[x] + e[x]
    PROVE  PartSum(h, S) = PartSum(f, S) + PartSum(e, S)
<1> DEFINE Good == {T \in SUBSET S : PartSum(h, T) = PartSum(f, T) + PartSum(e, T)}
<1>1. {} \in Good
  <2>1. PartSum(h, {}) = 0 /\ PartSum(f, {}) = 0 /\ PartSum(e, {}) = 0
    BY SumEmpty
  <2> QED
    BY <2>1
<1>2. ASSUME NEW T \in SUBSET S, NEW x \in S, T \in Good, x \notin T
      PROVE  T \cup {x} \in Good
  <2>1. IntsOn(f, S) /\ IntsOn(e, S) /\ IntsOn(h, S)
    BY DEF IntsOn
  <2>2. x \notin T /\ h[x] = f[x] + e[x] /\ PartSum(h, T) = PartSum(f, T) + PartSum(e, T)
    BY <1>2
  <2>3. PartSum(h, T \cup {x}) = PartSum(f, T \cup {x}) + PartSum(e, T \cup {x})
    <3> HIDE DEF Good
    <3> QED
      BY <2>1, <2>2, PlusStep
  <2> QED
    BY <2>3
<1>3. S \in Good
  <2> HIDE DEF Good
  <2> QED
    BY <1>1, <1>2, FiniteInduction
<1> QED
  BY <1>3

LEMMA SumNeg ==
    ASSUME NEW S, IsFiniteSet(S), NEW f, NEW h,
           \A x \in S : f[x] \in Int /\ h[x] = -f[x]
    PROVE  PartSum(h, S) = -PartSum(f, S)
<1> DEFINE Good == {T \in SUBSET S : PartSum(h, T) = -PartSum(f, T)}
<1>1. {} \in Good
  <2>1. PartSum(h, {}) = 0 /\ PartSum(f, {}) = 0
    BY SumEmpty
  <2> QED
    BY <2>1
<1>2. ASSUME NEW T \in SUBSET S, NEW x \in S, T \in Good, x \notin T
      PROVE  T \cup {x} \in Good
  <2>1. IntsOn(f, S) /\ IntsOn(h, S)
    BY DEF IntsOn
  <2>0. x \notin T
    BY <1>2
  <2>2. PartSum(f, T \cup {x}) = f[x] + PartSum(f, T) /\ f[x] \in Int /\ PartSum(f, T) \in Int
    <3> HIDE DEF Good
    <3> QED
      BY <2>0, <2>1, SumGrows
  <2>3. PartSum(h, T \cup {x}) = h[x] + PartSum(h, T)
    <3> HIDE DEF Good
    <3> QED
      BY <2>0, <2>1, SumGrows
  <2>4. PartSum(h, T) = -PartSum(f, T) /\ h[x] = -f[x]
    BY <1>2
  <2>5. PartSum(h, T \cup {x}) = -PartSum(f, T \cup {x})
    BY <2>2, <2>3, <2>4
  <2> QED
    BY <2>5
<1>3. S \in Good
  <2> HIDE DEF Good
  <2> QED
    BY <1>1, <1>2, FiniteInduction
<1> QED
  BY <1>3

LEMMA SumZero ==
    ASSUME NEW S, IsFiniteSet(S), NEW f, \A x \in S : f[x] = 0
    PROVE  PartSum(f, S) = 0
<1> DEFINE Good == {T \in SUBSET S : PartSum(f, T) = 0}
<1>1. {} \in Good
  BY SumEmpty
<1>2. ASSUME NEW T \in SUBSET S, NEW x \in S, T \in Good, x \notin T
      PROVE  T \cup {x} \in Good
  <2>1. \A y \in S : f[y] \in Int
    OBVIOUS
  <2>2. PartSum(f, T \cup {x}) = f[x] + PartSum(f, T)
    BY <1>2, <2>1, SumAdd
  <2>3. PartSum(f, T) = 0 /\ f[x] = 0
    BY <1>2
  <2>4. PartSum(f, T \cup {x}) = 0
    BY <2>2, <2>3
  <2> QED
    BY <2>4
<1>3. S \in Good
  <2> HIDE DEF Good
  <2> QED
    BY <1>1, <1>2, FiniteInduction
<1> QED
  BY <1>3

LEMMA SumMono ==
    ASSUME NEW S, IsFiniteSet(S), NEW f, NEW e,
           \A x \in S : f[x] \in Int /\ e[x] \in Int /\ f[x] <= e[x]
    PROVE  PartSum(f, S) <= PartSum(e, S)
<1> DEFINE Good == {T \in SUBSET S : PartSum(f, T) <= PartSum(e, T)}
<1>1. {} \in Good
  <2>1. PartSum(f, {}) = 0 /\ PartSum(e, {}) = 0
    BY SumEmpty
  <2> QED
    BY <2>1
<1>2. ASSUME NEW T \in SUBSET S, NEW x \in S, T \in Good, x \notin T
      PROVE  T \cup {x} \in Good
  <2>1. /\ \A y \in S : f[y] \in Int
        /\ \A y \in S : e[y] \in Int
    OBVIOUS
  <2>2. PartSum(f, T \cup {x}) = f[x] + PartSum(f, T) /\ f[x] \in Int /\ PartSum(f, T) \in Int
    BY <1>2, <2>1, SumAdd
  <2>3. PartSum(e, T \cup {x}) = e[x] + PartSum(e, T) /\ e[x] \in Int /\ PartSum(e, T) \in Int
    BY <1>2, <2>1, SumAdd
  <2>4. PartSum(f, T) <= PartSum(e, T) /\ f[x] <= e[x]
    BY <1>2
  <2>5. PartSum(f, T \cup {x}) <= PartSum(e, T \cup {x})
    BY <2>2, <2>3, <2>4
  <2> QED
    BY <2>5
<1>3. S \in Good
  <2> HIDE DEF Good
  <2> QED
    BY <1>1, <1>2, FiniteInduction
<1> QED
  BY <1>3

\* A sum over two disjoint parts.
LEMMA SumSplit ==
    ASSUME NEW S, IsFiniteSet(S), NEW f, \A x \in S : f[x] \in Int,
           NEW P \in SUBSET S
    PROVE  PartSum(f, S) = PartSum(f, P) + PartSum(f, S \ P)
<1> DEFINE Good == {T \in SUBSET S : PartSum(f, T) = PartSum(f, T \cap P) + PartSum(f, T \ P)}
<1>1. {} \in Good
  <2>1. PartSum(f, {}) = 0 /\ {} \cap P = {} /\ {} \ P = {}
    BY SumEmpty
  <2>2. PartSum(f, {} \cap P) = 0 /\ PartSum(f, {} \ P) = 0
    BY <2>1
  <2> QED
    BY <2>1, <2>2
<1>2. ASSUME NEW T \in SUBSET S, NEW x \in S, T \in Good, x \notin T
      PROVE  T \cup {x} \in Good
  <2> DEFINE i == T \cap P
             o == T \ P
  <2>0. i \in SUBSET S /\ o \in SUBSET S /\ x \notin i /\ x \notin o
    BY <1>2
  <2>1. PartSum(f, i) \in Int /\ PartSum(f, o) \in Int
    BY <2>0, SumInt
  <2>2. PartSum(f, T) = PartSum(f, i) + PartSum(f, o)
    BY <1>2
  <2>3. PartSum(f, T \cup {x}) = f[x] + PartSum(f, T) /\ f[x] \in Int
    BY <1>2, SumAdd
  <2>4. PartSum(f, i \cup {x}) = f[x] + PartSum(f, i) /\ PartSum(f, o \cup {x}) = f[x] + PartSum(f, o)
    <3>1. IntsOn(f, S)
      BY DEF IntsOn
    <3> HIDE DEF i, o, Good
    <3>2. PartSum(f, i \cup {x}) = f[x] + PartSum(f, i)
      BY <2>0, <3>1, SumGrows
    <3>3. PartSum(f, o \cup {x}) = f[x] + PartSum(f, o)
      BY <2>0, <3>1, SumGrows
    <3> QED
      BY <3>2, <3>3
  <2>5. x \in P => (T \cup {x}) \cap P = i \cup {x} /\ (T \cup {x}) \ P = o
    OBVIOUS
  <2>6. x \notin P => (T \cup {x}) \cap P = i /\ (T \cup {x}) \ P = o \cup {x}
    OBVIOUS
  <2> HIDE DEF i, o
  <2>7. PartSum(f, T \cup {x}) = PartSum(f, (T \cup {x}) \cap P) + PartSum(f, (T \cup {x}) \ P)
    <3>1. CASE x \in P
      <4>1. /\ PartSum(f, (T \cup {x}) \cap P) = f[x] + PartSum(f, i)
            /\ PartSum(f, (T \cup {x}) \ P) = PartSum(f, o)
        BY <2>4, <2>5, <3>1
      <4> QED
        BY <2>1, <2>2, <2>3, <4>1
    <3>2. CASE x \notin P
      <4>1. /\ PartSum(f, (T \cup {x}) \cap P) = PartSum(f, i)
            /\ PartSum(f, (T \cup {x}) \ P) = f[x] + PartSum(f, o)
        BY <2>4, <2>6, <3>2
      <4> QED
        BY <2>1, <2>2, <2>3, <4>1
    <3> QED
      BY <3>1, <3>2
  <2> QED
    BY <2>7
<1>3. S \in Good
  <2> HIDE DEF Good
  <2> QED
    BY <1>1, <1>2, FiniteInduction
<1>4. S \cap P = P
  OBVIOUS
<1> QED
  BY <1>3, <1>4

-----------------------------------------------------------------------------
(***************************************************************************)
(* The facts the modules' proofs cite: sums over a whole domain.           *)
(***************************************************************************)
LEMMA TotalEmpty == ASSUME NEW f, DOMAIN f = {} PROVE Total(f) = 0
BY TotalIsSum, SumEmpty

LEMMA TotalInt ==
    ASSUME NEW f, IsFiniteSet(DOMAIN f), \A x \in DOMAIN f : f[x] \in Int
    PROVE  Total(f) \in Int
<1> DEFINE S == DOMAIN f
<1>1. S \in SUBSET S /\ Total(f) = PartSum(f, S)
  BY TotalIsSum
<1>2. \A T \in SUBSET S : PartSum(f, T) \in Int
  <2>1. IsFiniteSet(S) /\ \A x \in S : f[x] \in Int
    OBVIOUS
  <2> HIDE DEF S
  <2> QED
    BY <2>1, SumInt
<1> QED
  BY <1>1, <1>2

\* The function with one element x more than e.
LEMMA TotalAdd ==
    ASSUME NEW S, IsFiniteSet(S), NEW x, x \notin S,
           NEW f, DOMAIN f = S \cup {x}, \A y \in S \cup {x} : f[y] \in Int,
           NEW e, DOMAIN e = S, \A y \in S : e[y] = f[y]
    PROVE  Total(f) = f[x] + Total(e)
<1>1. IsFiniteSet(S \cup {x})
  BY FS_AddElement
<1>2. PartSum(f, S \cup {x}) = f[x] + PartSum(f, S)
  <2> DEFINE U == S \cup {x}
  <2>1. IsFiniteSet(U) /\ S \in SUBSET U /\ x \in U /\ \A y \in U : f[y] \in Int
    BY <1>1
  <2> HIDE DEF U
  <2>2. PartSum(f, S \cup {x}) = f[x] + PartSum(f, S)
    BY <2>1, SumAdd
  <2> QED
    BY <2>2
<1>3. PartSum(f, S) = PartSum(e, S)
  BY SumSame
<1> QED
  BY <1>2, <1>3, TotalIsSum

Grown(f, e, S, x) ==
    /\ IsFiniteSet(S) /\ x \notin S
    /\ DOMAIN f = S \cup {x} /\ \A y \in S \cup {x} : f[y] \in Int
    /\ DOMAIN e = S /\ \A y \in S : e[y] = f[y]

LEMMA TotalGrown ==
    ASSUME NEW f, NEW e, NEW S, NEW x, Grown(f, e, S, x)
    PROVE  Total(f) = f[x] + Total(e)
BY TotalAdd DEF Grown

LEMMA TotalOne ==
    ASSUME NEW f, NEW x, DOMAIN f = {x}, f[x] \in Int
    PROVE  Total(f) = f[x]
<1> DEFINE e == [y \in {} |-> 0]
<1>1. Total(e) = 0
  BY TotalEmpty
<1>2. DOMAIN e = {} /\ IsFiniteSet({}) /\ x \notin {} /\ DOMAIN f = {} \cup {x}
  BY FS_EmptySet
<1> HIDE DEF e
<1>3. Total(f) = f[x] + Total(e)
  <2>1. \A y \in {} \cup {x} : f[y] \in Int
    OBVIOUS
  <2>2. \A y \in {} : e[y] = f[y]
    OBVIOUS
  <2> QED
    <3> DEFINE N == {}
    <3>1. IsFiniteSet(N) /\ x \notin N /\ DOMAIN f = N \cup {x} /\ DOMAIN e = N
      BY <1>2
    <3>2. (\A y \in N \cup {x} : f[y] \in Int) /\ (\A y \in N : e[y] = f[y])
      OBVIOUS
    <3> HIDE DEF N
    <3> QED
      BY <3>1, <3>2, TotalAdd
<1> QED
  BY <1>1, <1>3

LEMMA TotalPlus ==
    ASSUME NEW S, IsFiniteSet(S), NEW f, NEW e, NEW h,
           DOMAIN f = S, DOMAIN e = S, DOMAIN h = S,
           \A x \in S : f[x] \in Int /\ e[x] \in Int /\ h[x] = f[x] + e[x]
    PROVE  Total(h) = Total(f) + Total(e)
BY TotalIsSum, SumPlus

LEMMA TotalNeg ==
    ASSUME NEW S, IsFiniteSet(S), NEW f, NEW h, DOMAIN f = S, DOMAIN h = S,
           \A x \in S : f[x] \in Int /\ h[x] = -f[x]
    PROVE  Total(h) = -Total(f)
BY TotalIsSum, SumNeg

LEMMA TotalZero ==
    ASSUME NEW f, IsFiniteSet(DOMAIN f), \A x \in DOMAIN f : f[x] = 0
    PROVE  Total(f) = 0
BY TotalIsSum, SumZero

LEMMA TotalMono ==
    ASSUME NEW S, IsFiniteSet(S), NEW f, NEW e, DOMAIN f = S, DOMAIN e = S,
           \A x \in S : f[x] \in Int /\ e[x] \in Int /\ f[x] <= e[x]
    PROVE  Total(f) <= Total(e)
BY TotalIsSum, SumMono

LEMMA TotalSame ==
    ASSUME NEW S, IsFiniteSet(S), NEW f, NEW e, DOMAIN f = S, DOMAIN e = S,
           \A x \in S : f[x] = e[x]
    PROVE  Total(f) = Total(e)
BY TotalIsSum, SumSame

LEMMA TotalSplit ==
    ASSUME NEW S, IsFiniteSet(S), NEW P \in SUBSET S,
           NEW f, DOMAIN f = S, \A x \in S : f[x] \in Int,
           NEW e, DOMAIN e = P, \A x \in P : e[x] = f[x],
           NEW h, DOMAIN h = S \ P, \A x \in S \ P : h[x] = f[x]
    PROVE  Total(f) = Total(e) + Total(h)
<1>1. IsFiniteSet(P) /\ IsFiniteSet(S \ P)
  BY FS_Subset
<1>2. PartSum(e, P) = PartSum(f, P)
  BY <1>1, SumSame
<1>3. PartSum(h, S \ P) = PartSum(f, S \ P)
  BY <1>1, SumSame
<1>4. PartSum(f, S) = PartSum(f, P) + PartSum(f, S \ P)
  BY SumSplit
<1> QED
  BY <1>2, <1>3, <1>4, TotalIsSum

\* A table adds up to the same by rows and by columns.
RowOf(m, T, x) == [y \in T |-> m[x, y]]
ColumnOf(m, S, y) == [x \in S |-> m[x, y]]

IsTable(m, S, T) == m \in [S \X T -> Int]
AddsRows(rows, m, S, T) ==
    DOMAIN rows = S /\ \A x \in S : rows[x] = Total(RowOf(m, T, x))
AddsColumns(columns, m, S, T) ==
    DOMAIN columns = T /\ \A y \in T : columns[y] = Total(ColumnOf(m, S, y))

LEMMA TotalSwap ==
    ASSUME NEW S, IsFiniteSet(S), NEW T, IsFiniteSet(T), NEW m, IsTable(m, S, T),
           NEW rows, AddsRows(rows, m, S, T),
           NEW columns, AddsColumns(columns, m, S, T)
    PROVE  Total(rows) = Total(columns)
<1> DEFINE r == [x \in S |-> Total([y \in T |-> m[x, y]])]
           q(A) == [y \in T |-> PartSum([x \in S |-> m[x, y]], A)]
           Good == {A \in SUBSET S : PartSum(r, A) = Total(q(A))}
<1> m \in [S \X T -> Int]
  BY DEF IsTable
<1>0. \A x \in S : r[x] \in Int
  <2> TAKE x \in S
  <2> DEFINE row == [y \in T |-> m[x, y]]
  <2>1. DOMAIN row = T /\ \A y \in T : row[y] \in Int
    OBVIOUS
  <2> HIDE DEF row
  <2>2. Total(row) \in Int
    BY <2>1, TotalInt
  <2> QED
    BY <2>2 DEF row
<1>1. {} \in Good
  <2>1. PartSum(r, {}) = 0
    BY SumEmpty
  <2>2. DOMAIN q({}) = T /\ \A y \in T : q({})[y] = 0
    BY SumEmpty
  <2>3. Total(q({})) = 0
    <3> HIDE DEF q
    <3> QED
      BY <2>2, TotalZero
  <2> QED
    BY <2>1, <2>3
<1>2. ASSUME NEW A \in SUBSET S, NEW z \in S, A \in Good, z \notin A
      PROVE  A \cup {z} \in Good
  <2> DEFINE row == [y \in T |-> m[z, y]]
  <2>1. PartSum(r, A \cup {z}) = r[z] + PartSum(r, A)
    <3> HIDE DEF r
    <3> QED
      <4>1. z \notin A /\ \A x \in S : r[x] \in Int
        BY <1>0, <1>2
      <4> HIDE DEF Good
      <4> QED
        BY <4>1, SumAdd
  <2>2. r[z] = Total(row) /\ PartSum(r, A) = Total(q(A))
    BY <1>2
  <2>3. ASSUME NEW y \in T
        PROVE  /\ q(A \cup {z})[y] = row[y] + q(A)[y]
               /\ row[y] \in Int
               /\ q(A)[y] \in Int
    <3> DEFINE col == [x \in S |-> m[x, y]]
    <3>1. \A x \in S : col[x] \in Int
      OBVIOUS
    <3>2. /\ q(A \cup {z})[y] = PartSum(col, A \cup {z})
          /\ q(A)[y] = PartSum(col, A)
          /\ row[y] = col[z]
      OBVIOUS
    <3> HIDE DEF col, q, row
    <3>3. /\ PartSum(col, A \cup {z}) = col[z] + PartSum(col, A)
          /\ col[z] \in Int
          /\ PartSum(col, A) \in Int
      <4>1. z \notin A
        BY <1>2
      <4> HIDE DEF Good, r
      <4> QED
        BY <3>1, <4>1, SumAdd
    <3> QED
      BY <3>2, <3>3
  <2>4. DOMAIN q(A \cup {z}) = T /\ DOMAIN row = T /\ DOMAIN q(A) = T
    OBVIOUS
  <2>5. Total(q(A \cup {z})) = Total(row) + Total(q(A))
    <3> HIDE DEF q, row
    <3> DEFINE qz == q(A \cup {z})
               qa == q(A)
    <3>1. /\ DOMAIN qz = T /\ DOMAIN qa = T /\ DOMAIN row = T
          /\ \A y \in T : row[y] \in Int /\ qa[y] \in Int /\ qz[y] = row[y] + qa[y]
      BY <2>3, <2>4
    <3> HIDE DEF qz, qa
    <3>2. Total(qz) = Total(row) + Total(qa)
      BY <3>1, TotalPlus
    <3> QED
      BY <3>2 DEF qz, qa
  <2>6. PartSum(r, A \cup {z}) = Total(q(A \cup {z}))
    <3> HIDE DEF r, q, row
    <3> QED
      BY <2>1, <2>2, <2>5
  <2> HIDE DEF r, q
  <2> QED
    BY <2>6
<1>3. S \in Good
  <2> HIDE DEF Good
  <2> QED
    BY <1>1, <1>2, FiniteInduction
<1>4. DOMAIN r = S /\ PartSum(r, S) = Total(q(S))
  BY <1>3
<1>5. Total(r) = PartSum(r, S)
  <2> HIDE DEF r
  <2> QED
    BY <1>4, TotalIsSum
<1>6. \A y \in T : q(S)[y] = columns[y]
  <2>1. ASSUME NEW y \in T
        PROVE  PartSum([x \in S |-> m[x, y]], S) = Total([x \in S |-> m[x, y]])
    <3> DEFINE col == [x \in S |-> m[x, y]]
    <3>1. DOMAIN col = S
      OBVIOUS
    <3> HIDE DEF col
    <3>2. PartSum(col, S) = Total(col)
      BY <3>1, TotalIsSum
    <3> QED
      BY <3>2 DEF col
  <2> QED
    BY <2>1 DEF AddsColumns, ColumnOf
<1>7. \A x \in S : r[x] = rows[x]
  BY DEF AddsRows, RowOf
<1>8. DOMAIN q(S) = T
  OBVIOUS
<1> DEFINE qs == q(S)
<1>9. Total(qs) = Total(columns)
  <2>1. DOMAIN qs = T /\ DOMAIN columns = T /\ \A y \in T : qs[y] = columns[y]
    BY <1>6, <1>8 DEF AddsColumns
  <2> HIDE DEF qs
  <2> QED
    BY <2>1, TotalSame
<1>10. Total(r) = Total(rows)
  <2>1. DOMAIN r = S /\ DOMAIN rows = S /\ \A x \in S : r[x] = rows[x]
    BY <1>4, <1>7 DEF AddsRows
  <2> HIDE DEF r, q, Good
  <2> QED
    BY <2>1, TotalSame
<1> QED
  BY <1>4, <1>5, <1>9, <1>10

\* One element alone counts.
LEMMA TotalSpike ==
    ASSUME NEW S, IsFiniteSet(S), NEW x \in S, NEW f, DOMAIN f = S, f[x] \in Int,
           \A y \in S : y # x => f[y] = 0
    PROVE  Total(f) = f[x]
<1> DEFINE R == S \ {x}
           e == [y \in R |-> f[y]]
<1>1. IsFiniteSet(R)
  BY FS_Subset
<1>2. /\ x \notin R
      /\ DOMAIN f = R \cup {x}
      /\ \A y \in R \cup {x} : f[y] \in Int
      /\ DOMAIN e = R
      /\ \A y \in R : e[y] = f[y]
      /\ \A y \in R : e[y] = 0
  OBVIOUS
<1> HIDE DEF R, e
<1>3. Total(f) = f[x] + Total(e)
  BY <1>1, <1>2, TotalAdd
<1>4. Total(e) = 0
  BY <1>1, <1>2, TotalZero
<1> QED
  BY <1>3, <1>4

\* A total of which one summand changes.
LEMMA TotalChange ==
    ASSUME NEW S, IsFiniteSet(S), NEW x \in S, NEW f, NEW h, DOMAIN f = S, DOMAIN h = S,
           \A y \in S : f[y] \in Int /\ h[y] \in Int,
           \A y \in S : y # x => h[y] = f[y]
    PROVE  /\ Total(h) = Total(f) + (h[x] - f[x])
           /\ Total(f) \in Int
<1> DEFINE d == [y \in S |-> h[y] - f[y]]
<1>1. DOMAIN d = S /\ d[x] = h[x] - f[x] /\ d[x] \in Int
  OBVIOUS
<1>2. \A y \in S : y # x => d[y] = 0
  OBVIOUS
<1>3. \A y \in S : f[y] \in Int /\ d[y] \in Int /\ h[y] = f[y] + d[y]
  OBVIOUS
<1> HIDE DEF d
<1>4. Total(h) = Total(f) + Total(d)
  BY <1>1, <1>3, TotalPlus
<1>5. Total(d) = d[x]
  BY <1>1, <1>2, TotalSpike
<1>6. Total(f) \in Int
  BY TotalInt
<1> QED
  BY <1>1, <1>4, <1>5, <1>6

\* Elements that count nothing do not matter.
LEMMA TotalPadded ==
    ASSUME NEW S, IsFiniteSet(S), NEW P \in SUBSET S,
           NEW f, DOMAIN f = S, NEW e, DOMAIN e = P,
           \A x \in P : e[x] = f[x] /\ f[x] \in Int,
           \A x \in S \ P : f[x] = 0
    PROVE  Total(f) = Total(e)
<1> DEFINE h == [x \in S \ P |-> f[x]]
<1>1. IsFiniteSet(P) /\ IsFiniteSet(S \ P)
  BY FS_Subset
<1>2. DOMAIN h = S \ P /\ \A x \in S \ P : h[x] = f[x]
  OBVIOUS
<1>3. (\A x \in S : f[x] \in Int) /\ \A x \in P : e[x] = f[x]
  OBVIOUS
<1> HIDE DEF h
<1>4. Total(f) = Total(e) + Total(h)
  BY <1>2, <1>3, TotalSplit
<1>5. Total(h) = 0
  BY <1>1, <1>2, TotalZero
<1>6. Total(e) \in Int
  BY <1>1, <1>3, TotalInt
<1> QED
  BY <1>4, <1>5, <1>6

\* Summands may be grouped, and the groups' totals added up.
Grouped(g, S, y) == {x \in S : g[x] = y}
AddsGroups(h, f, g, S, T) ==
    /\ DOMAIN h = T
    /\ \A y \in T : h[y] = Total([x \in Grouped(g, S, y) |-> f[x]])

LEMMA TotalGrouped ==
    ASSUME NEW S, IsFiniteSet(S), NEW T, IsFiniteSet(T),
           NEW f, DOMAIN f = S, \A x \in S : f[x] \in Int,
           NEW g, \A x \in S : g[x] \in T,
           NEW h, AddsGroups(h, f, g, S, T)
    PROVE  Total(f) = Total(h)
<1> DEFINE m == [p \in S \X T |-> IF g[p[1]] = p[2] THEN f[p[1]] ELSE 0]
<1>1. \A x \in S, y \in T : m[x, y] = IF g[x] = y THEN f[x] ELSE 0
  OBVIOUS
<1>2. IsTable(m, S, T)
  BY DEF IsTable
<1> HIDE DEF m
<1>3. AddsRows(f, m, S, T)
  <2>1. ASSUME NEW x \in S
        PROVE  f[x] = Total(RowOf(m, T, x))
    <3> DEFINE row == RowOf(m, T, x)
    <3>1. DOMAIN row = T /\ \A y \in T : row[y] = IF g[x] = y THEN f[x] ELSE 0
      BY <1>1 DEF RowOf
    <3>2. g[x] \in T /\ f[x] \in Int
      OBVIOUS
    <3> HIDE DEF row
    <3>3. row[g[x]] = f[x] /\ row[g[x]] \in Int /\ \A y \in T : y # g[x] => row[y] = 0
      BY <3>1, <3>2
    <3> QED
      BY <3>1, <3>2, <3>3, TotalSpike DEF row
  <2> QED
    BY <2>1 DEF AddsRows
<1>4. AddsColumns(h, m, S, T)
  <2>1. ASSUME NEW y \in T
        PROVE  h[y] = Total(ColumnOf(m, S, y))
    <3> DEFINE column == ColumnOf(m, S, y)
               P == Grouped(g, S, y)
               e == [x \in P |-> f[x]]
    <3>1. DOMAIN column = S /\ \A x \in S : column[x] = IF g[x] = y THEN f[x] ELSE 0
      BY <1>1 DEF ColumnOf
    <3>2. P \in SUBSET S /\ \A x \in S : x \in P <=> g[x] = y
      BY DEF Grouped
    <3>3. DOMAIN e = P /\ \A x \in P : e[x] = f[x]
      OBVIOUS
    <3>4. h[y] = Total(e)
      BY DEF AddsGroups
    <3> HIDE DEF column, P, e
    <3>5. /\ \A x \in P : e[x] = column[x] /\ column[x] \in Int
          /\ \A x \in S \ P : column[x] = 0
      BY <3>1, <3>2, <3>3
    <3>6. Total(column) = Total(e)
      BY <3>1, <3>2, <3>3, <3>5, TotalPadded
    <3> QED
      BY <3>4, <3>6 DEF column
  <2> QED
    BY <2>1 DEF AddsColumns, AddsGroups
<1> QED
  BY <1>2, <1>3, <1>4, TotalSwap

\* A total does not depend on what the summands are indexed by.
LEMMA TotalRenamed ==
    ASSUME NEW S, IsFiniteSet(S), NEW f, DOMAIN f = S, NEW T, NEW h, DOMAIN h = T,
           NEW g \in Bijection(S, T),
           \A x \in S : f[x] \in Int /\ h[g[x]] = f[x]
    PROVE  Total(f) = Total(h)
<1>0. /\ g \in [S -> T] /\ \A x, y \in S : g[x] = g[y] => x = y
      /\ \A y \in T : \E x \in S : g[x] = y
  BY DEF Bijection, Injection, Surjection, IsInjective
<1>1. IsFiniteSet(T)
  BY FS_Surjection DEF Bijection
<1>2. ASSUME NEW y \in T
      PROVE  h[y] = Total([x \in Grouped(g, S, y) |-> f[x]])
  <2> DEFINE one == [x \in Grouped(g, S, y) |-> f[x]]
  <2>1. PICK x \in S : y = g[x]
    BY <1>0
  <2>2. DOMAIN one = {x} /\ one[x] = f[x] /\ one[x] \in Int
    BY <1>0, <2>1 DEF Grouped
  <2> HIDE DEF one
  <2>3. Total(one) = one[x]
    BY <2>2, TotalOne
  <2> QED
    BY <2>1, <2>2, <2>3 DEF one
<1>3. AddsGroups(h, f, g, S, T)
  BY <1>2 DEF AddsGroups
<1>4. \A x \in S : g[x] \in T /\ f[x] \in Int
  BY <1>0
<1> QED
  BY <1>1, <1>3, <1>4, TotalGrouped
=============================================================================
