-------------------------- MODULE EvalSuite_proofs ---------------------------
(***************************************************************************)
(* What the pass over a trace in evaluateMustInclude finds, for all        *)
(* traces, and the lemmas about induction and recursive functions that     *)
(* this rests on.                                                          *)
(***************************************************************************)
EXTENDS EvalSuite, FiniteSetTheorems, SequenceTheorems, WellFoundedInduction, TLAPS

\* Induction over the naturals for sets of them.  Intervals are finite, so finite sets
\* being well-founded does for numbers as well.
LEMMA SetInduction ==
  ASSUME NEW T, 0 \in T, \A n \in Nat : n \in T => n + 1 \in T
  PROVE  Nat \subseteq T
<1> SUFFICES ASSUME Nat \ T # {} PROVE FALSE
  OBVIOUS
<1> DEFINE smaller == StrictSubsetOrdering(Nat)
           initial == { 0 .. n : n \in Nat \ T }
<1>1. IsWellFoundedOn(smaller, FiniteSubsetsOf(Nat))
  BY FS_StrictSubsetOrderingWellFounded
<1>2. initial \subseteq FiniteSubsetsOf(Nat) /\ initial # {}
  <2>1. \A n \in Nat : IsFiniteSet(0 .. n) /\ 0 .. n \subseteq Nat
    BY FS_Interval
  <2> QED
    BY <2>1 DEF FiniteSubsetsOf
<1>3. \A m, n \in Nat : m < n => <<0 .. m, 0 .. n>> \in smaller
  <2> SUFFICES ASSUME NEW m \in Nat, NEW n \in Nat, m < n PROVE <<0 .. m, 0 .. n>> \in smaller
    OBVIOUS
  <2>1. 0 .. m \subseteq 0 .. n /\ n \in 0 .. n /\ n \notin 0 .. m
    OBVIOUS
  <2> QED
    BY <2>1 DEF StrictSubsetOrdering
<1>4. PICK least \in initial : \A s \in initial : ~(<<s, least>> \in smaller)
  <2> HIDE DEF smaller, initial
  <2> QED
    BY <1>1, <1>2, WFMin
<1>5. PICK n \in Nat \ T : least = 0 .. n
  BY <1>4
<1> HIDE DEF smaller
<1>6. n - 1 \in Nat /\ n - 1 < n /\ n = (n - 1) + 1
  BY <1>5
<1>7. n - 1 \in T
  BY <1>3, <1>4, <1>5, <1>6
<1> QED
  BY <1>5, <1>6, <1>7

-----------------------------------------------------------------------------
\* The values of a loop of n rounds from base on.
Computes(f, n, S, base, step) ==
  /\ f \in [0 .. n -> S] /\ f[0] = base
  /\ \A k \in 1 .. n : f[k] = step[k][f[k - 1]]

\* A loop has values.
LEMMA LoopsCompute ==
  ASSUME NEW n \in Nat, NEW S, NEW base \in S, NEW step \in [1 .. n -> [S -> S]]
  PROVE  \E f : Computes(f, n, S, base, step)
<1> USE DEF Computes
<1> DEFINE T == { m \in Nat : m <= n => \E f : Computes(f, m, S, base, step) }
<1>1. 0 \in T
  <2> DEFINE f == [k \in 0 .. 0 |-> base]
  <2>1. Computes(f, 0, S, base, step)
    OBVIOUS
  <2> QED
    BY <2>1
<1>2. ASSUME NEW m \in Nat, m \in T PROVE m + 1 \in T
  <2> SUFFICES ASSUME m + 1 <= n PROVE \E f : Computes(f, m + 1, S, base, step)
    OBVIOUS
  <2>1. PICK f : Computes(f, m, S, base, step)
    BY <1>2
  <2> DEFINE g == [k \in 0 .. m + 1 |-> IF k = m + 1 THEN step[k][f[m]] ELSE f[k]]
  <2>2. f[m] \in S /\ m + 1 \in 1 .. n
    BY <2>1
  <2>3. step[m + 1][f[m]] \in S
    BY <2>2
  <2>4. g \in [0 .. m + 1 -> S] /\ g[0] = base
    BY <2>1, <2>3
  <2>5. \A k \in 1 .. m + 1 : g[k] = step[k][g[k - 1]]
    BY <2>1
  <2> QED
    BY <2>4, <2>5
<1>3. n \in T
  <2> HIDE DEF T
  <2> QED
    BY <1>1, <1>2, SetInduction
<1> QED
  BY <1>3

-----------------------------------------------------------------------------
\* The pass over the trace, round by round.
LEMMA PassOverTrace ==
  ASSUME NEW Tool, NEW tools \in Seq(Tool), NEW R, NEW trace \in Seq(R)
  PROVE  \E f \in [0 .. Len(trace) -> 0 .. Len(tools)] :
           /\ f[0] = 0
           /\ \A k \in 1 .. Len(trace) :
                f[k] = IF f[k - 1] < Len(tools) /\ trace[k].tool = tools[f[k - 1] + 1]
                         THEN f[k - 1] + 1 ELSE f[k - 1]
           /\ Includes(tools, trace) <=> f[Len(trace)] = Len(tools)
<1> DEFINE n == Len(trace)
           S == 0 .. Len(tools)
           After(k, m) == IF m < Len(tools) /\ trace[k].tool = tools[m + 1] THEN m + 1 ELSE m
           step == [k \in 1 .. n |-> [m \in S |-> After(k, m)]]
           P(f) == f = [k \in 0 .. n |-> IF k = 0 THEN 0 ELSE After(k, f[k - 1])]
<1>1. n \in Nat /\ Len(tools) \in Nat /\ 0 \in S
  OBVIOUS
<1>2. \A k \in 1 .. n, m \in S : After(k, m) \in S
  BY <1>1
<1>3. PICK f : Computes(f, n, S, 0, step)
  <2>1. step \in [1 .. n -> [S -> S]]
    BY <1>2
  <2> HIDE DEF n, S, step
  <2> QED
    BY <1>1, <2>1, LoopsCompute
<1>4. f \in [0 .. n -> S] /\ f[0] = 0
  BY <1>3 DEF Computes
<1>5. \A k \in 1 .. n : f[k - 1] \in S /\ f[k] = After(k, f[k - 1])
  <2> SUFFICES ASSUME NEW k \in 1 .. n PROVE f[k - 1] \in S /\ f[k] = After(k, f[k - 1])
    OBVIOUS
  <2>1. k - 1 \in 0 .. n
    BY <1>1
  <2>2. f[k] = step[k][f[k - 1]]
    BY <1>3 DEF Computes
  <2> HIDE DEF After
  <2> QED
    BY <1>4, <2>1, <2>2
<1>6. P(f)
  <2> DEFINE g == [k \in 0 .. n |-> IF k = 0 THEN 0 ELSE After(k, f[k - 1])]
  <2>1. f = [k \in 0 .. n |-> f[k]]
    BY <1>4
  <2> HIDE DEF After, n
  <2>2. \A k \in 0 .. n : f[k] = g[k]
    BY <1>1, <1>4, <1>5
  <2> QED
    BY <2>1, <2>2
<1> DEFINE found == CHOOSE h : P(h)
<1>7. P(found)
  <2> HIDE DEF P
  <2> QED
    BY <1>6
<1>8. Includes(tools, trace) <=> found[n] = Len(tools)
  BY DEF Includes
<1>9. found = f
  <2> DEFINE Same == { k \in Nat : k <= n => found[k] = f[k] }
  <2> HIDE DEF After, n, found
  <2>0. found[0] = 0 /\ \A k \in 1 .. n : found[k] = After(k, found[k - 1])
    BY <1>1, <1>7
  <2>1. 0 \in Same
    BY <1>4, <2>0
  <2>2. ASSUME NEW k \in Nat, k \in Same PROVE k + 1 \in Same
    <3> SUFFICES ASSUME k + 1 <= n PROVE found[k + 1] = f[k + 1]
      OBVIOUS
    <3>1. found[k] = f[k] /\ k + 1 \in 1 .. n /\ (k + 1) - 1 = k
      BY <1>1, <2>2
    <3>2. found[k + 1] = After(k + 1, found[k])
      BY <2>0, <3>1
    <3> QED
      BY <1>5, <3>1, <3>2
  <2>3. Nat \subseteq Same
    <3> HIDE DEF Same
    <3> QED
      BY <2>1, <2>2, SetInduction
  <2>4. \A k \in 0 .. n : found[k] = f[k]
    BY <1>1, <2>3
  <2>5. found = [k \in 0 .. n |-> found[k]] /\ f = [k \in 0 .. n |-> f[k]]
    BY <1>4, <1>7
  <2> QED
    BY <2>4, <2>5
<1>10. Includes(tools, trace) <=> f[n] = Len(tools)
  BY <1>8, <1>9
<1> QED
  BY <1>4, <1>5, <1>10

\* What the pass has found are rows with the tools, in the order of the rows.
LEMMA FoundInOrder ==
  ASSUME NEW Tool, NEW tools \in Seq(Tool), NEW R, NEW trace \in Seq(R), Includes(tools, trace)
  PROVE  InOrder(tools, trace)
<1>1. PICK f \in [0 .. Len(trace) -> 0 .. Len(tools)] :
        /\ f[0] = 0 /\ f[Len(trace)] = Len(tools)
        /\ \A k \in 1 .. Len(trace) :
             \/ f[k] = f[k - 1]
             \/ f[k] = f[k - 1] + 1 /\ trace[k].tool = tools[f[k]]
  <2>1. PICK f \in [0 .. Len(trace) -> 0 .. Len(tools)] :
          /\ f[0] = 0
          /\ \A k \in 1 .. Len(trace) :
               f[k] = IF f[k - 1] < Len(tools) /\ trace[k].tool = tools[f[k - 1] + 1]
                        THEN f[k - 1] + 1 ELSE f[k - 1]
          /\ Includes(tools, trace) <=> f[Len(trace)] = Len(tools)
    BY PassOverTrace
  <2>2. f[Len(trace)] = Len(tools)
    BY <2>1
  <2>3. \A k \in 1 .. Len(trace) :
          \/ f[k] = f[k - 1]
          \/ f[k] = f[k - 1] + 1 /\ trace[k].tool = tools[f[k]]
    BY <2>1
  <2> QED
    BY <2>1, <2>2, <2>3
<1> DEFINE n == Len(trace)
           Finds(at, k) ==
             /\ at \in [1 .. f[k] -> 1 .. k]
             /\ \A i \in 1 .. f[k] : trace[at[i]].tool = tools[i]
             /\ \A i, l \in 1 .. f[k] : i < l => at[i] < at[l]
           T == { k \in Nat : k <= n => \E at : Finds(at, k) }
<1>2. n \in Nat /\ Len(tools) \in Nat
  OBVIOUS
<1>3. 0 \in T
  <2> DEFINE at == [i \in 1 .. f[0] |-> 0]
  <2>1. 1 .. f[0] = {}
    BY <1>1
  <2>2. at \in [1 .. f[0] -> 1 .. 0]
    BY <2>1
  <2> HIDE DEF at
  <2>3. Finds(at, 0)
    BY <2>1, <2>2
  <2> QED
    BY <2>3
<1>4. ASSUME NEW k \in Nat, k \in T PROVE k + 1 \in T
  <2> SUFFICES ASSUME k + 1 <= n PROVE \E at : Finds(at, k + 1)
    OBVIOUS
  <2>1. PICK at : Finds(at, k)
    BY <1>2, <1>4
  <2>2. k + 1 \in 1 .. n /\ (k + 1) - 1 = k /\ f[k] \in Nat
    BY <1>1, <1>2
  <2>3. CASE f[k + 1] = f[k]
    <3>1. Finds(at, k + 1)
      BY <2>1, <2>3
    <3> QED
      BY <3>1
  <2>4. CASE f[k + 1] = f[k] + 1 /\ trace[k + 1].tool = tools[f[k + 1]]
    <3> DEFINE at1 == [i \in 1 .. f[k + 1] |-> IF i = f[k + 1] THEN k + 1 ELSE at[i]]
    <3>1. \A i \in 1 .. f[k + 1] : i # f[k + 1] => i \in 1 .. f[k]
      BY <2>2, <2>4
    <3>2. at1 \in [1 .. f[k + 1] -> 1 .. k + 1]
      BY <2>1, <2>2, <3>1
    <3>3. \A i \in 1 .. f[k + 1] : trace[at1[i]].tool = tools[i]
      BY <2>1, <2>4, <3>1
    <3>4. \A i, l \in 1 .. f[k + 1] : i < l => at1[i] < at1[l]
      <4> SUFFICES ASSUME NEW i \in 1 .. f[k + 1], NEW l \in 1 .. f[k + 1], i < l
                   PROVE  at1[i] < at1[l]
        OBVIOUS
      <4>1. i \in 1 .. f[k] /\ i # f[k + 1]
        BY <2>2, <2>4
      <4>2. at1[i] = at[i] /\ at[i] \in 1 .. k
        BY <2>1, <4>1
      <4>3. CASE l = f[k + 1]
        BY <4>2, <4>3
      <4>4. CASE l # f[k + 1]
        BY <2>1, <3>1, <4>1, <4>2, <4>4
      <4> QED
        BY <4>3, <4>4
    <3>5. Finds(at1, k + 1)
      BY <3>2, <3>3, <3>4
    <3> QED
      BY <3>5
  <2> QED
    BY <1>1, <2>2, <2>3, <2>4
<1>5. n \in T
  <2> HIDE DEF T
  <2> QED
    BY <1>2, <1>3, <1>4, SetInduction
<1>6. PICK at : Finds(at, n)
  <2> HIDE DEF Finds
  <2>1. n <= n => \E at : Finds(at, n)
    BY <1>5
  <2> QED
    BY <1>2, <2>1
<1>7. DOMAIN tools = 1 .. Len(tools) /\ DOMAIN trace = 1 .. n
  OBVIOUS
<1> QED
  BY <1>1, <1>6, <1>7 DEF InOrder

\* The pass takes the first row for each tool, and misses nothing by that: when it is
\* past the row that some choice of rows has for the i-th tool, it has found i tools.
LEMMA OrderFound ==
  ASSUME NEW Tool, NEW tools \in Seq(Tool), NEW R, NEW trace \in Seq(R), InOrder(tools, trace)
  PROVE  Includes(tools, trace)
<1> DEFINE n == Len(trace)
           L == Len(tools)
<1>1. n \in Nat /\ L \in Nat /\ DOMAIN tools = 1 .. L /\ DOMAIN trace = 1 .. n
  OBVIOUS
<1>2. PICK f \in [0 .. n -> 0 .. L] :
        /\ f[0] = 0
        /\ \A k \in 1 .. n :
             f[k] = IF f[k - 1] < L /\ trace[k].tool = tools[f[k - 1] + 1]
                      THEN f[k - 1] + 1 ELSE f[k - 1]
        /\ Includes(tools, trace) <=> f[n] = L
  BY PassOverTrace
<1>3. PICK at \in [1 .. L -> 1 .. n] :
        /\ \A i \in 1 .. L : trace[at[i]].tool = tools[i]
        /\ \A i, k \in 1 .. L : i < k => at[i] < at[k]
  BY <1>1 DEF InOrder
<1> HIDE DEF n, L
<1> DEFINE T == { k \in Nat : k <= n => \A i \in 1 .. L : at[i] <= k => i <= f[k] }
<1>4. 0 \in T
  BY <1>1, <1>3
<1>5. ASSUME NEW k \in Nat, k \in T PROVE k + 1 \in T
  <2> SUFFICES ASSUME k + 1 <= n, NEW i \in 1 .. L, at[i] <= k + 1 PROVE i <= f[k + 1]
    OBVIOUS
  <2>1. k + 1 \in 1 .. n /\ (k + 1) - 1 = k /\ f[k] \in 0 .. L /\ at[i] \in 1 .. n
    BY <1>1, <1>2, <1>3
  <2>2. /\ \A l \in 1 .. L : at[l] <= k => l <= f[k]
        /\ f[k + 1] = IF f[k] < L /\ trace[k + 1].tool = tools[f[k] + 1]
                        THEN f[k] + 1 ELSE f[k]
    BY <1>1, <1>2, <1>5, <2>1
  <2>3. CASE at[i] <= k
    BY <2>1, <2>2, <2>3
  <2>4. CASE at[i] = k + 1
    <3>1. trace[k + 1].tool = tools[i]
      BY <1>3, <2>4
    <3>2. i - 1 <= f[k]
      <4>1. CASE i = 1
        BY <2>1, <4>1
      <4>2. CASE i # 1
        <5>1. i - 1 \in 1 .. L /\ i - 1 < i
          BY <1>1, <4>2
        <5>2. at[i - 1] < at[i] /\ at[i - 1] \in 1 .. n
          BY <1>3, <5>1
        <5> QED
          BY <1>1, <2>2, <2>4, <5>1, <5>2
      <4> QED
        BY <4>1, <4>2
    <3>3. CASE f[k] = i - 1
      BY <1>1, <2>1, <2>2, <3>1, <3>3
    <3>4. CASE f[k] # i - 1
      BY <1>1, <2>1, <2>2, <3>2, <3>4
    <3> QED
      BY <3>3, <3>4
  <2> QED
    BY <2>1, <2>3, <2>4
<1>6. n \in T
  <2> HIDE DEF T
  <2> QED
    BY <1>1, <1>4, <1>5, SetInduction
<1>7. \A i \in 1 .. L : i <= f[n]
  BY <1>1, <1>3, <1>6
<1>8. f[n] = L
  <2>1. f[n] \in 0 .. L
    BY <1>1, <1>2
  <2>2. CASE L = 0
    BY <2>1, <2>2
  <2>3. CASE L # 0
    BY <1>1, <1>7, <2>1, <2>3
  <2> QED
    BY <2>2, <2>3
<1> QED
  BY <1>2, <1>8

\* evaluateMustInclude, which takes rows as they come and never goes back, accepts a
\* trace just when the tools are those of some rows, in the order of the rows.
THEOREM IncludesInOrder ==
  ASSUME NEW Tool, NEW tools \in Seq(Tool), NEW R, NEW trace \in Seq(R)
  PROVE  Includes(tools, trace) <=> InOrder(tools, trace)
BY FoundInOrder, OrderFound
=============================================================================
