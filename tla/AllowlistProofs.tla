-------------------------- MODULE AllowlistProofs --------------------------
(***************************************************************************)
(* For trees of any depth and lists of any length: what the Merkle tree of *)
(* a version policy proves.  Induction runs over sets of numbers: a        *)
(* recursion has a solution at every bound, because the bounds that have   *)
(* one contain zero and the successor of each member.                      *)
(***************************************************************************)
EXTENDS ManifestAllowlist, FiniteSets, FiniteSetTheorems, FunctionTheorems,
        SequenceTheorems, WellFoundedInduction, TLAPS

-----------------------------------------------------------------------------
(* Induction.                                                              *)
LEMMA Least ==
    ASSUME NEW T, T \subseteq Nat, T # {}
    PROVE  \E x \in T : \A y \in T : x <= y
<1>1. IsWellFoundedOn(OpToRel(<, Nat), Nat)
  BY NatLessThanWellFounded
<1>2. PICK x \in T : \A y \in T : ~(<<y, x>> \in OpToRel(<, Nat))
  BY <1>1, WFMin
<1>3. \A y \in T : ~(y < x)
  BY <1>2 DEF OpToRel
<1> QED BY <1>3

LEMMA UpTo ==
    ASSUME NEW N \in Nat, NEW T, 0 \in T, \A n \in 1..N : n - 1 \in T => n \in T
    PROVE  \A n \in 0..N : n \in T
<1> DEFINE Bad == {n \in 0..N : n \notin T}
<1>1. SUFFICES ASSUME Bad # {} PROVE FALSE
  OBVIOUS
<1>2. PICK n \in Bad : \A k \in Bad : n <= k
  <2>1. Bad \subseteq Nat
    OBVIOUS
  <2> HIDE DEF Bad
  <2> QED BY <1>1, <2>1, Least
<1>3. n \in 1..N /\ n - 1 \in 0..N /\ ~(n <= n - 1)
  BY <1>2
<1>4. n - 1 \in T
  BY <1>2, <1>3
<1> QED BY <1>2, <1>3, <1>4

-----------------------------------------------------------------------------
(* The recursive functions of the model.                                   *)
LEMMA DepthType == AllowlistDepth \in Nat \ {0} /\ ManifestFieldCount \in Nat \ {0}
  BY AllowlistConstants

LEMMA Pow2Unfolds ==
    Pow2 = [n \in 0..AllowlistDepth |-> IF n = 0 THEN 1 ELSE 2 * Pow2[n - 1]]
<1> DEFINE Step(n, x) == 2 * x
           Is(g, N) == g = [n \in 0..N |-> IF n = 0 THEN 1 ELSE Step(n, g[n - 1])]
           T == {N \in 0..AllowlistDepth : \E g : Is(g, N)}
<1> HIDE DEF Step
<1>1. Is([n \in 0..0 |-> 1], 0)
  OBVIOUS
<1>2. ASSUME NEW N \in 1..AllowlistDepth, NEW g, Is(g, N - 1)
      PROVE  Is([n \in 0..N |-> IF n < N THEN g[n] ELSE Step(N, g[N - 1])], N)
  <2> DEFINE h == [n \in 0..N |-> IF n < N THEN g[n] ELSE Step(N, g[N - 1])]
  <2>1. ASSUME NEW n \in 0..(N - 1)
        PROVE  n < N /\ h[n] = g[n] /\ g[n] = IF n = 0 THEN 1 ELSE Step(n, g[n - 1])
    BY <1>2, DepthType
  <2>2. ASSUME NEW n \in 0..N PROVE h[n] = IF n = 0 THEN 1 ELSE Step(n, h[n - 1])
    <3>1. CASE n = N
      <4>1. N # 0 /\ h[N] = Step(N, g[N - 1]) /\ h[N - 1] = g[N - 1]
        BY DepthType
      <4> QED BY <3>1, <4>1
    <3>2. CASE n # N
      <4>1. n \in 0..(N - 1) /\ (n # 0 => n - 1 \in 0..(N - 1))
        BY <3>2, DepthType
      <4> QED BY <2>1, <4>1
    <3> QED BY <3>1, <3>2
  <2> QED BY <2>2
<1>3. \E g : Is(g, AllowlistDepth)
  <2> HIDE DEF Is
  <2>1. \E g : Is(g, 0)
    BY <1>1
  <2>2. \A N \in 1..AllowlistDepth : (\E g : Is(g, N - 1)) => \E g : Is(g, N)
    BY <1>2
  <2>3. 0 \in T /\ \A N \in 1..AllowlistDepth : N - 1 \in T => N \in T
    BY <2>1, <2>2, DepthType
  <2>4. AllowlistDepth \in T
    <3> HIDE DEF T
    <3>1. \A n \in 0..AllowlistDepth : n \in T
      BY <2>3, UpTo, DepthType
    <3> QED BY <3>1, DepthType
  <2> QED BY <2>4
<1>4. Pow2 = CHOOSE g : Is(g, AllowlistDepth)
  BY DEF Pow2, Step
<1>5. Is(Pow2, AllowlistDepth)
  <2> HIDE DEF Is
  <2> QED BY <1>3, <1>4
<1> QED BY <1>5 DEF Step

LEMMA ShiftedUnfolds ==
    ASSUME NEW pos
    PROVE  Shifted(pos) = [n \in 0..AllowlistDepth |-> IF n = 0 THEN pos ELSE Shifted(pos)[n - 1] \div 2]
<1> DEFINE Step(n, x) == x \div 2
           Is(g, N) == g = [n \in 0..N |-> IF n = 0 THEN pos ELSE Step(n, g[n - 1])]
           T == {N \in 0..AllowlistDepth : \E g : Is(g, N)}
<1> HIDE DEF Step
<1>1. Is([n \in 0..0 |-> pos], 0)
  OBVIOUS
<1>2. ASSUME NEW N \in 1..AllowlistDepth, NEW g, Is(g, N - 1)
      PROVE  Is([n \in 0..N |-> IF n < N THEN g[n] ELSE Step(N, g[N - 1])], N)
  <2> DEFINE h == [n \in 0..N |-> IF n < N THEN g[n] ELSE Step(N, g[N - 1])]
  <2>1. ASSUME NEW n \in 0..(N - 1)
        PROVE  n < N /\ h[n] = g[n] /\ g[n] = IF n = 0 THEN pos ELSE Step(n, g[n - 1])
    BY <1>2, DepthType
  <2>2. ASSUME NEW n \in 0..N PROVE h[n] = IF n = 0 THEN pos ELSE Step(n, h[n - 1])
    <3>1. CASE n = N
      <4>1. N # 0 /\ h[N] = Step(N, g[N - 1]) /\ h[N - 1] = g[N - 1]
        BY DepthType
      <4> QED BY <3>1, <4>1
    <3>2. CASE n # N
      <4>1. n \in 0..(N - 1) /\ (n # 0 => n - 1 \in 0..(N - 1))
        BY <3>2, DepthType
      <4> QED BY <2>1, <4>1
    <3> QED BY <3>1, <3>2
  <2> QED BY <2>2
<1>3. \E g : Is(g, AllowlistDepth)
  <2> HIDE DEF Is
  <2>1. \E g : Is(g, 0)
    BY <1>1
  <2>2. \A N \in 1..AllowlistDepth : (\E g : Is(g, N - 1)) => \E g : Is(g, N)
    BY <1>2
  <2>3. 0 \in T /\ \A N \in 1..AllowlistDepth : N - 1 \in T => N \in T
    BY <2>1, <2>2, DepthType
  <2>4. AllowlistDepth \in T
    <3> HIDE DEF T
    <3>1. \A n \in 0..AllowlistDepth : n \in T
      BY <2>3, UpTo, DepthType
    <3> QED BY <3>1, DepthType
  <2> QED BY <2>4
<1>4. Shifted(pos) = CHOOSE g : Is(g, AllowlistDepth)
  BY DEF Shifted, Step
<1>5. Is(Shifted(pos), AllowlistDepth)
  <2> HIDE DEF Is
  <2> QED BY <1>3, <1>4
<1> QED BY <1>5 DEF Step

LEMMA LevelsUnfolds ==
    ASSUME NEW vp
    PROVE  Levels(vp) = [n \in 0..AllowlistDepth |-> IF n = 0 THEN Padded(Leaves(vp)) ELSE Above(Levels(vp)[n - 1], n)]
<1> DEFINE Step(n, x) == Above(x, n)
           Is(g, N) == g = [n \in 0..N |-> IF n = 0 THEN Padded(Leaves(vp)) ELSE Step(n, g[n - 1])]
           T == {N \in 0..AllowlistDepth : \E g : Is(g, N)}
<1> HIDE DEF Step
<1>1. Is([n \in 0..0 |-> Padded(Leaves(vp))], 0)
  OBVIOUS
<1>2. ASSUME NEW N \in 1..AllowlistDepth, NEW g, Is(g, N - 1)
      PROVE  Is([n \in 0..N |-> IF n < N THEN g[n] ELSE Step(N, g[N - 1])], N)
  <2> DEFINE h == [n \in 0..N |-> IF n < N THEN g[n] ELSE Step(N, g[N - 1])]
  <2>1. ASSUME NEW n \in 0..(N - 1)
        PROVE  n < N /\ h[n] = g[n] /\ g[n] = IF n = 0 THEN Padded(Leaves(vp)) ELSE Step(n, g[n - 1])
    BY <1>2, DepthType
  <2>2. ASSUME NEW n \in 0..N PROVE h[n] = IF n = 0 THEN Padded(Leaves(vp)) ELSE Step(n, h[n - 1])
    <3>1. CASE n = N
      <4>1. N # 0 /\ h[N] = Step(N, g[N - 1]) /\ h[N - 1] = g[N - 1]
        BY DepthType
      <4> QED BY <3>1, <4>1
    <3>2. CASE n # N
      <4>1. n \in 0..(N - 1) /\ (n # 0 => n - 1 \in 0..(N - 1))
        BY <3>2, DepthType
      <4> QED BY <2>1, <4>1
    <3> QED BY <3>1, <3>2
  <2> QED BY <2>2
<1>3. \E g : Is(g, AllowlistDepth)
  <2> HIDE DEF Is
  <2>1. \E g : Is(g, 0)
    BY <1>1
  <2>2. \A N \in 1..AllowlistDepth : (\E g : Is(g, N - 1)) => \E g : Is(g, N)
    BY <1>2
  <2>3. 0 \in T /\ \A N \in 1..AllowlistDepth : N - 1 \in T => N \in T
    BY <2>1, <2>2, DepthType
  <2>4. AllowlistDepth \in T
    <3> HIDE DEF T
    <3>1. \A n \in 0..AllowlistDepth : n \in T
      BY <2>3, UpTo, DepthType
    <3> QED BY <3>1, DepthType
  <2> QED BY <2>4
<1>4. Levels(vp) = CHOOSE g : Is(g, AllowlistDepth)
  BY DEF Levels, Step
<1>5. Is(Levels(vp), AllowlistDepth)
  <2> HIDE DEF Is
  <2> QED BY <1>3, <1>4
<1> QED BY <1>5 DEF Step

LEMMA NodesUnfold ==
    ASSUME NEW leaf, NEW path
    PROVE  NodesOfPath(leaf, path) = [n \in 0..AllowlistDepth |-> IF n = 0 THEN leaf ELSE Parent(NodesOfPath(leaf, path)[n - 1], path.siblings[n - 1],
                       Shifted(path.index)[n - 1] % 2 = 1)]
<1> DEFINE Step(n, x) == Parent(x, path.siblings[n - 1],
                       Shifted(path.index)[n - 1] % 2 = 1)
           Is(g, N) == g = [n \in 0..N |-> IF n = 0 THEN leaf ELSE Step(n, g[n - 1])]
           T == {N \in 0..AllowlistDepth : \E g : Is(g, N)}
<1> HIDE DEF Step
<1>1. Is([n \in 0..0 |-> leaf], 0)
  OBVIOUS
<1>2. ASSUME NEW N \in 1..AllowlistDepth, NEW g, Is(g, N - 1)
      PROVE  Is([n \in 0..N |-> IF n < N THEN g[n] ELSE Step(N, g[N - 1])], N)
  <2> DEFINE h == [n \in 0..N |-> IF n < N THEN g[n] ELSE Step(N, g[N - 1])]
  <2>1. ASSUME NEW n \in 0..(N - 1)
        PROVE  n < N /\ h[n] = g[n] /\ g[n] = IF n = 0 THEN leaf ELSE Step(n, g[n - 1])
    BY <1>2, DepthType
  <2>2. ASSUME NEW n \in 0..N PROVE h[n] = IF n = 0 THEN leaf ELSE Step(n, h[n - 1])
    <3>1. CASE n = N
      <4>1. N # 0 /\ h[N] = Step(N, g[N - 1]) /\ h[N - 1] = g[N - 1]
        BY DepthType
      <4> QED BY <3>1, <4>1
    <3>2. CASE n # N
      <4>1. n \in 0..(N - 1) /\ (n # 0 => n - 1 \in 0..(N - 1))
        BY <3>2, DepthType
      <4> QED BY <2>1, <4>1
    <3> QED BY <3>1, <3>2
  <2> QED BY <2>2
<1>3. \E g : Is(g, AllowlistDepth)
  <2> HIDE DEF Is
  <2>1. \E g : Is(g, 0)
    BY <1>1
  <2>2. \A N \in 1..AllowlistDepth : (\E g : Is(g, N - 1)) => \E g : Is(g, N)
    BY <1>2
  <2>3. 0 \in T /\ \A N \in 1..AllowlistDepth : N - 1 \in T => N \in T
    BY <2>1, <2>2, DepthType
  <2>4. AllowlistDepth \in T
    <3> HIDE DEF T
    <3>1. \A n \in 0..AllowlistDepth : n \in T
      BY <2>3, UpTo, DepthType
    <3> QED BY <3>1, DepthType
  <2> QED BY <2>4
<1>4. NodesOfPath(leaf, path) = CHOOSE g : Is(g, AllowlistDepth)
  BY DEF NodesOfPath, Step
<1>5. Is(NodesOfPath(leaf, path), AllowlistDepth)
  <2> HIDE DEF Is
  <2> QED BY <1>3, <1>4
<1> QED BY <1>5 DEF Step

LEMMA LeavesUnfold ==
    ASSUME NEW vp
    PROVE  LeavesUpTo(vp) = [n \in 0..ManifestFieldCount |-> IF n = 0 THEN <<>> ELSE AppendAll(LeavesUpTo(vp)[n - 1], LeavesOf(vp, n - 1))]
<1> DEFINE Step(n, x) == AppendAll(x, LeavesOf(vp, n - 1))
           Is(g, N) == g = [n \in 0..N |-> IF n = 0 THEN <<>> ELSE Step(n, g[n - 1])]
           T == {N \in 0..ManifestFieldCount : \E g : Is(g, N)}
<1> HIDE DEF Step
<1>1. Is([n \in 0..0 |-> <<>>], 0)
  OBVIOUS
<1>2. ASSUME NEW N \in 1..ManifestFieldCount, NEW g, Is(g, N - 1)
      PROVE  Is([n \in 0..N |-> IF n < N THEN g[n] ELSE Step(N, g[N - 1])], N)
  <2> DEFINE h == [n \in 0..N |-> IF n < N THEN g[n] ELSE Step(N, g[N - 1])]
  <2>1. ASSUME NEW n \in 0..(N - 1)
        PROVE  n < N /\ h[n] = g[n] /\ g[n] = IF n = 0 THEN <<>> ELSE Step(n, g[n - 1])
    BY <1>2, DepthType
  <2>2. ASSUME NEW n \in 0..N PROVE h[n] = IF n = 0 THEN <<>> ELSE Step(n, h[n - 1])
    <3>1. CASE n = N
      <4>1. N # 0 /\ h[N] = Step(N, g[N - 1]) /\ h[N - 1] = g[N - 1]
        BY DepthType
      <4> QED BY <3>1, <4>1
    <3>2. CASE n # N
      <4>1. n \in 0..(N - 1) /\ (n # 0 => n - 1 \in 0..(N - 1))
        BY <3>2, DepthType
      <4> QED BY <2>1, <4>1
    <3> QED BY <3>1, <3>2
  <2> QED BY <2>2
<1>3. \E g : Is(g, ManifestFieldCount)
  <2> HIDE DEF Is
  <2>1. \E g : Is(g, 0)
    BY <1>1
  <2>2. \A N \in 1..ManifestFieldCount : (\E g : Is(g, N - 1)) => \E g : Is(g, N)
    BY <1>2
  <2>3. 0 \in T /\ \A N \in 1..ManifestFieldCount : N - 1 \in T => N \in T
    BY <2>1, <2>2, DepthType
  <2>4. ManifestFieldCount \in T
    <3> HIDE DEF T
    <3>1. \A n \in 0..ManifestFieldCount : n \in T
      BY <2>3, UpTo, DepthType
    <3> QED BY <3>1, DepthType
  <2> QED BY <2>4
<1>4. LeavesUpTo(vp) = CHOOSE g : Is(g, ManifestFieldCount)
  BY DEF LeavesUpTo, Step
<1>5. Is(LeavesUpTo(vp), ManifestFieldCount)
  <2> HIDE DEF Is
  <2> QED BY <1>3, <1>4
<1> QED BY <1>5 DEF Step

LEMMA AppendAllUnfolds ==
    ASSUME NEW leaves, NEW new, Len(new) \in Nat
    PROVE  \E merged :
                /\ merged = [n \in 0..Len(new) |->
                        IF n = 0 THEN leaves ELSE AppendNew(merged[n - 1], new[n])]
                /\ AppendAll(leaves, new) = merged[Len(new)]
<1> DEFINE Step(n, x) == AppendNew(x, new[n])
           Is(g, N) == g = [n \in 0..N |-> IF n = 0 THEN leaves ELSE Step(n, g[n - 1])]
           T == {N \in 0..Len(new) : \E g : Is(g, N)}
<1> HIDE DEF Step
<1>1. Is([n \in 0..0 |-> leaves], 0)
  OBVIOUS
<1>2. ASSUME NEW N \in 1..Len(new), NEW g, Is(g, N - 1)
      PROVE  Is([n \in 0..N |-> IF n < N THEN g[n] ELSE Step(N, g[N - 1])], N)
  <2> DEFINE h == [n \in 0..N |-> IF n < N THEN g[n] ELSE Step(N, g[N - 1])]
  <2>1. ASSUME NEW n \in 0..(N - 1)
        PROVE  n < N /\ h[n] = g[n] /\ g[n] = IF n = 0 THEN leaves ELSE Step(n, g[n - 1])
    BY <1>2
  <2>2. ASSUME NEW n \in 0..N PROVE h[n] = IF n = 0 THEN leaves ELSE Step(n, h[n - 1])
    <3>1. CASE n = N
      <4>1. N # 0 /\ h[N] = Step(N, g[N - 1]) /\ h[N - 1] = g[N - 1]
        OBVIOUS
      <4> QED BY <3>1, <4>1
    <3>2. CASE n # N
      <4>1. n \in 0..(N - 1) /\ (n # 0 => n - 1 \in 0..(N - 1))
        BY <3>2
      <4> QED BY <2>1, <4>1
    <3> QED BY <3>1, <3>2
  <2> QED BY <2>2
<1>3. \E g : Is(g, Len(new))
  <2> HIDE DEF Is
  <2>1. \E g : Is(g, 0)
    BY <1>1
  <2>2. \A N \in 1..Len(new) : (\E g : Is(g, N - 1)) => \E g : Is(g, N)
    BY <1>2
  <2>3. 0 \in T /\ \A N \in 1..Len(new) : N - 1 \in T => N \in T
    BY <2>1, <2>2
  <2>4. Len(new) \in T
    <3> HIDE DEF T
    <3>1. \A n \in 0..Len(new) : n \in T
      BY <2>3, UpTo
    <3> QED BY <3>1
  <2> QED BY <2>4
<1>4. AppendAll(leaves, new) = (CHOOSE g : Is(g, Len(new)))[Len(new)]
  BY DEF AppendAll, Step
<1>5. PICK g : Is(g, Len(new)) /\ AppendAll(leaves, new) = g[Len(new)]
  <2> HIDE DEF Is
  <2> QED BY <1>3, <1>4
<1> QED BY <1>5 DEF Step

-----------------------------------------------------------------------------
(* Powers and positions.                                                   *)
LEMMA Powers ==
    /\ Pow2[0] = 1
    /\ \A n \in 1..AllowlistDepth : Pow2[n] = 2 * Pow2[n - 1]
    /\ \A n \in 0..AllowlistDepth : Pow2[n] \in Nat \ {0}
<1>1. /\ Pow2[0] = 1
      /\ \A n \in 1..AllowlistDepth : Pow2[n] = 2 * Pow2[n - 1]
  BY Pow2Unfolds, DepthType
<1> DEFINE T == {n \in 0..AllowlistDepth : Pow2[n] \in Nat \ {0}}
<1>2. 0 \in T /\ \A n \in 1..AllowlistDepth : n - 1 \in T => n \in T
  BY <1>1, DepthType
<1>3. \A n \in 0..AllowlistDepth : n \in T
  <2> HIDE DEF T
  <2> QED BY <1>2, UpTo, DepthType
<1> QED BY <1>1, <1>3

LEMMA CapacityType == Capacity \in Nat \ {0}
  BY Powers, DepthType DEF Capacity

LEMMA Halves ==
    ASSUME NEW x \in Nat
    PROVE  /\ x \div 2 \in Nat
           /\ x % 2 = 0 => x = 2 * (x \div 2)
           /\ x % 2 # 0 => x % 2 = 1 /\ x = 2 * (x \div 2) + 1
  OBVIOUS

(* The ancestors of a leaf: half the position on every level.              *)
LEMMA Positions ==
    ASSUME NEW pos \in 0..(Capacity - 1)
    PROVE  /\ Shifted(pos)[0] = pos
           /\ \A k \in 1..AllowlistDepth : Shifted(pos)[k] = Shifted(pos)[k - 1] \div 2
           /\ \A k \in 0..AllowlistDepth :
                Shifted(pos)[k] \in 0..(Pow2[AllowlistDepth - k] - 1)
<1>1. /\ Shifted(pos)[0] = pos
      /\ \A k \in 1..AllowlistDepth : Shifted(pos)[k] = Shifted(pos)[k - 1] \div 2
  BY ShiftedUnfolds, DepthType
<1> DEFINE T == {k \in 0..AllowlistDepth :
                    Shifted(pos)[k] \in 0..(Pow2[AllowlistDepth - k] - 1)}
<1>2. 0 \in T
  BY <1>1, DepthType DEF Capacity
<1>3. ASSUME NEW k \in 1..AllowlistDepth, k - 1 \in T PROVE k \in T
  <2> DEFINE w == Pow2[AllowlistDepth - k]
             x == Shifted(pos)[k - 1]
  <2>1. Pow2[AllowlistDepth - (k - 1)] = 2 * w /\ w \in Nat \ {0}
    <3>1. /\ AllowlistDepth - (k - 1) \in 1..AllowlistDepth
          /\ AllowlistDepth - (k - 1) - 1 = AllowlistDepth - k
          /\ AllowlistDepth - k \in 0..AllowlistDepth
      BY DepthType
    <3> QED BY <3>1, Powers
  <2>2. x \in 0..(2 * w - 1)
    BY <1>3, <2>1
  <2>3. Shifted(pos)[k] = x \div 2
    BY <1>1
  <2> HIDE DEF x, w
  <2>4. x \div 2 \in 0..(w - 1)
    BY <2>1, <2>2
  <2> QED BY <2>3, <2>4, DepthType DEF w
<1>4. \A k \in 0..AllowlistDepth : k \in T
  <2> HIDE DEF T
  <2> QED BY <1>2, <1>3, UpTo, DepthType
<1> QED BY <1>1, <1>4

-----------------------------------------------------------------------------
(* The tree.                                                               *)
(* Two neighbours and their parent.                                        *)
Joined(level, x) ==
    IF x % 2 = 0 THEN Hash(<<level[x], level[x + 1]>>) ELSE Hash(<<level[x - 1], level[x]>>)

LEMMA NodesAbove ==
    ASSUME NEW vp, NEW pos \in 0..(Capacity - 1), NEW k \in 1..AllowlistDepth
    PROVE  /\ Shifted(pos)[k - 1] \in Nat
           /\ Levels(vp)[k][Shifted(pos)[k]] = Joined(Levels(vp)[k - 1], Shifted(pos)[k - 1])
<1>1. PICK below : below = Shifted(pos)[k - 1]
  OBVIOUS
<1>2. PICK level : level = Levels(vp)[k - 1]
  OBVIOUS
<1>3. PICK s : s = Shifted(pos)[k]
  OBVIOUS
<1>4. s = below \div 2 /\ s \in 0..(Pow2[AllowlistDepth - k] - 1) /\ below \in Nat
  <2>1. k - 1 \in 0..AllowlistDepth /\ k \in 0..AllowlistDepth
    BY DepthType
  <2>2. Pow2[AllowlistDepth - (k - 1)] \in Nat
    BY <2>1, Powers, DepthType
  <2> QED BY <1>1, <1>3, <2>1, <2>2, Positions
<1>5. Levels(vp)[k] = Above(level, k)
  BY <1>2, LevelsUnfolds, DepthType
<1>6. Levels(vp)[k][s] = Hash(<<level[2 * s], level[2 * s + 1]>>)
  BY <1>4, <1>5 DEF Above
<1>7. Levels(vp)[k][s] = Joined(level, below)
  <2>1. CASE below % 2 = 0
    <3>1. 2 * s = below
      BY <1>4, <2>1, Halves
    <3> QED BY <1>6, <2>1, <3>1 DEF Joined
  <2>2. CASE below % 2 # 0
    <3>1. 2 * s + 1 = below /\ 2 * s = below - 1
      BY <1>4, <2>2, Halves
    <3> QED BY <1>6, <2>2, <3>1 DEF Joined
  <2> QED BY <2>1, <2>2
<1> QED BY <1>1, <1>2, <1>3, <1>4, <1>7

LEMMA HashInjective ==
    ASSUME NEW a, NEW b, NEW c, NEW d, Hash(<<a, b>>) = Hash(<<c, d>>)
    PROVE  a = c /\ b = d
  BY DEF Hash

LEMMA WalkUp ==
    ASSUME NEW leaf, NEW path
    PROVE  /\ NodesOfPath(leaf, path)[0] = leaf
           /\ \A k \in 1..AllowlistDepth :
                NodesOfPath(leaf, path)[k] =
                    Parent(NodesOfPath(leaf, path)[k - 1], path.siblings[k - 1],
                           Shifted(path.index)[k - 1] % 2 = 1)
  BY NodesUnfold, DepthType

(* Whatever the siblings, a walk that ends at the root of the tree passes  *)
(* through the tree's own nodes: it starts at one of its leaves.           *)
LEMMA OnlyLeavesReachTheRoot ==
    ASSUME NEW vp, NEW leaf, NEW path, path.index \in 0..(Capacity - 1),
           RootOfPath(leaf, path) = Root(vp)
    PROVE  Levels(vp)[0][path.index] = leaf
<1> DEFINE pos == path.index
           node == NodesOfPath(leaf, path)
           Meets(k) == node[k] = Levels(vp)[k][Shifted(pos)[k]]
           T == {n \in 0..AllowlistDepth : Meets(AllowlistDepth - n)}
<1>1. Meets(AllowlistDepth)
  <2>1. Shifted(pos)[AllowlistDepth] \in 0..(Pow2[0] - 1)
    BY Positions, DepthType
  <2>2. Shifted(pos)[AllowlistDepth] = 0
    BY <2>1, Powers
  <2> QED BY <2>2 DEF RootOfPath, Root
<1>2. ASSUME NEW k \in 1..AllowlistDepth, Meets(k) PROVE Meets(k - 1)
  <2>1. PICK x : x = Shifted(pos)[k - 1]
    OBVIOUS
  <2>2. PICK level : level = Levels(vp)[k - 1]
    OBVIOUS
  <2>3. /\ node[k] = Parent(node[k - 1], path.siblings[k - 1], x % 2 = 1)
        /\ node[k] = Joined(level, x) /\ x \in Nat
    BY <1>2, <2>1, <2>2, WalkUp, NodesAbove
  <2>4. CASE x % 2 = 0
    <3>1. node[k] = Hash(<<level[x], level[x + 1]>>)
      BY <2>3, <2>4 DEF Joined
    <3>2. node[k] = Hash(<<node[k - 1], path.siblings[k - 1]>>)
      BY <2>3, <2>4 DEF Parent
    <3>3. node[k - 1] = level[x]
      BY <3>1, <3>2, HashInjective
    <3> QED BY <2>1, <2>2, <3>3
  <2>5. CASE x % 2 # 0
    <3>1. x % 2 = 1 /\ node[k] = Hash(<<level[x - 1], level[x]>>)
      BY <2>3, <2>5, Halves DEF Joined
    <3>2. node[k] = Hash(<<path.siblings[k - 1], node[k - 1]>>)
      BY <2>3, <3>1 DEF Parent
    <3>3. node[k - 1] = level[x]
      BY <3>1, <3>2, HashInjective
    <3> QED BY <2>1, <2>2, <3>3
  <2> QED BY <2>4, <2>5
<1> HIDE DEF Meets
<1>3. 0 \in T
  BY <1>1, DepthType
<1>4. ASSUME NEW n \in 1..AllowlistDepth, n - 1 \in T PROVE n \in T
  <2>1. /\ AllowlistDepth - (n - 1) \in 1..AllowlistDepth
        /\ AllowlistDepth - (n - 1) - 1 = AllowlistDepth - n
    BY DepthType
  <2> QED BY <1>2, <1>4, <2>1, DepthType
<1>5. \A n \in 0..AllowlistDepth : n \in T
  <2> HIDE DEF T
  <2> QED BY <1>3, <1>4, UpTo, DepthType
<1>6. Meets(0)
  BY <1>5, DepthType
<1> QED BY <1>6, WalkUp, Positions DEF Meets

(* The siblings of a leaf lead to the root.                                *)
LEMMA LeavesReachTheRoot ==
    ASSUME NEW vp, NEW pos \in 0..(Capacity - 1)
    PROVE  RootOfPath(Levels(vp)[0][pos], PathTo(vp, pos)) = Root(vp)
<1> DEFINE path == PathTo(vp, pos)
           leaf == Levels(vp)[0][pos]
           node == NodesOfPath(leaf, path)
           Meets(k) == node[k] = Levels(vp)[k][Shifted(pos)[k]]
           T == {n \in 0..AllowlistDepth : Meets(n)}
<1>1. /\ path.index = pos
      /\ \A k \in 0..(AllowlistDepth - 1) :
            path.siblings[k] = Levels(vp)[k][Neighbour(Shifted(pos)[k])]
  BY DEF PathTo
<1> HIDE DEF path
<1>2. Meets(0)
  BY WalkUp, Positions
<1>3. ASSUME NEW k \in 1..AllowlistDepth, Meets(k - 1) PROVE Meets(k)
  <2>1. PICK x : x = Shifted(pos)[k - 1]
    OBVIOUS
  <2>2. PICK level : level = Levels(vp)[k - 1]
    OBVIOUS
  <2>3. node[k] = Parent(level[x], level[Neighbour(x)], x % 2 = 1)
    <3>1. k - 1 \in 0..(AllowlistDepth - 1)
      BY DepthType
    <3> QED BY <1>1, <1>3, <2>1, <2>2, <3>1, WalkUp
  <2>4. Levels(vp)[k][Shifted(pos)[k]] = Joined(level, x) /\ x \in Nat
    BY <2>1, <2>2, NodesAbove
  <2>5. CASE x % 2 = 0
    BY <2>3, <2>4, <2>5 DEF Parent, Neighbour, Joined
  <2>6. CASE x % 2 # 0
    <3>1. x % 2 = 1
      BY <2>4, <2>6, Halves
    <3> QED BY <2>3, <2>4, <3>1 DEF Parent, Neighbour, Joined
  <2> QED BY <2>5, <2>6
<1> HIDE DEF Meets
<1>4. 0 \in T /\ \A n \in 1..AllowlistDepth : n - 1 \in T => n \in T
  BY <1>2, <1>3, DepthType
<1>5. Meets(AllowlistDepth)
  <2>1. \A n \in 0..AllowlistDepth : n \in T
    <3> HIDE DEF T
    <3> QED BY <1>4, UpTo, DepthType
  <2> QED BY <2>1, DepthType
<1>6. Shifted(pos)[AllowlistDepth] = 0
  <2>1. Shifted(pos)[AllowlistDepth] \in 0..(Pow2[0] - 1)
    BY Positions, DepthType
  <2> QED BY <2>1, Powers
<1> QED BY <1>5, <1>6 DEF RootOfPath, Root, Meets, path

-----------------------------------------------------------------------------
(* The lists.                                                              *)
Distinct(s) == \A i, j \in 1..Len(s) : s[i] = s[j] => i = j

LEMMA AppendNewAdds ==
    ASSUME NEW S, NEW s \in Seq(S), NEW leaf \in S
    PROVE  /\ AppendNew(s, leaf) \in Seq(S)
           /\ \A x : Contains(AppendNew(s, leaf), x) <=> Contains(s, x) \/ x = leaf
           /\ Distinct(s) => Distinct(AppendNew(s, leaf))
<1>1. CASE Contains(s, leaf)
  BY <1>1 DEF AppendNew
<1>2. CASE ~Contains(s, leaf)
  <2> DEFINE t == Append(s, leaf)
  <2>1. AppendNew(s, leaf) = t
    BY <1>2 DEF AppendNew
  <2>2. /\ t \in Seq(S) /\ Len(s) \in Nat /\ Len(t) = Len(s) + 1
        /\ t[Len(s) + 1] = leaf
        /\ \A i \in 1..Len(s) : t[i] = s[i]
    OBVIOUS
  <2> HIDE DEF t
  <2>3. \A i \in 1..Len(s) : s[i] # leaf
    BY <1>2 DEF Contains
  <2>4. \A x : Contains(t, x) <=> Contains(s, x) \/ x = leaf
    <3> SUFFICES ASSUME NEW x PROVE Contains(t, x) <=> Contains(s, x) \/ x = leaf
      OBVIOUS
    <3>1. \A i : i \in 1..(Len(s) + 1) <=> i \in 1..Len(s) \/ i = Len(s) + 1
      BY <2>2
    <3> QED BY <2>2, <3>1 DEF Contains
  <2>5. Distinct(s) => Distinct(t)
    BY <2>2, <2>3 DEF Distinct
  <2> QED BY <2>1, <2>2, <2>4, <2>5
<1> QED BY <1>1, <1>2

LEMMA AppendAllAdds ==
    ASSUME NEW S, NEW s \in Seq(S), NEW new \in Seq(S)
    PROVE  /\ AppendAll(s, new) \in Seq(S)
           /\ \A x : Contains(AppendAll(s, new), x) <=> Contains(s, x) \/ Contains(new, x)
           /\ Distinct(s) => Distinct(AppendAll(s, new))
<1>1. Len(new) \in Nat /\ \A n \in 1..Len(new) : new[n] \in S
  OBVIOUS
<1>2. PICK m :
        /\ m = [n \in 0..Len(new) |-> IF n = 0 THEN s ELSE AppendNew(m[n - 1], new[n])]
        /\ AppendAll(s, new) = m[Len(new)]
  BY <1>1, AppendAllUnfolds
<1>3. m[0] = s /\ \A n \in 1..Len(new) : m[n] = AppendNew(m[n - 1], new[n])
  BY <1>1, <1>2
<1> DEFINE Added(n, x) == \E j \in 1..n : new[j] = x
           Good(n) == /\ m[n] \in Seq(S)
                      /\ \A x : Contains(m[n], x) <=> Contains(s, x) \/ Added(n, x)
                      /\ Distinct(s) => Distinct(m[n])
           T == {n \in 0..Len(new) : Good(n)}
<1>4. Good(0)
  BY <1>3
<1>5. ASSUME NEW n \in 1..Len(new), Good(n - 1) PROVE Good(n)
  <2>1. PICK r : r = m[n - 1]
    OBVIOUS
  <2>2. PICK leaf : leaf = new[n] /\ leaf \in S
    BY <1>1
  <2>3. /\ m[n] \in Seq(S) /\ (Distinct(s) => Distinct(m[n]))
        /\ \A x : Contains(m[n], x) <=> Contains(r, x) \/ x = leaf
    <3>1. m[n] = AppendNew(r, leaf)
      BY <1>3, <2>1, <2>2
    <3>2. r \in Seq(S) /\ (Distinct(s) => Distinct(r))
      BY <1>5, <2>1
    <3> QED BY <2>2, <3>1, <3>2, AppendNewAdds
  <2>4. \A x : Added(n, x) <=> Added(n - 1, x) \/ x = leaf
    <3>1. \A j : j \in 1..n <=> j \in 1..(n - 1) \/ j = n
      BY <1>1
    <3> QED BY <2>2, <3>1
  <2> QED BY <1>5, <2>1, <2>3, <2>4
<1> HIDE DEF Good
<1>6. 0 \in T /\ \A n \in 1..Len(new) : n - 1 \in T => n \in T
  BY <1>1, <1>4, <1>5
<1>7. Good(Len(new))
  <2>1. \A n \in 0..Len(new) : n \in T
    <3> HIDE DEF T
    <3> QED BY <1>1, <1>6, UpTo
  <2> QED BY <1>1, <2>1
<1> QED BY <1>2, <1>7 DEF Good, Contains

(* The version policies over these values.                                 *)
Lists(Values) == [Fields -> Seq(Values)]

(* The leaves that values may have.                                        *)
Digests(Values) == {AllowlistLeaf(f, v) : f \in Fields, v \in Values}

LEMMA LeavesOfType ==
    ASSUME NEW Values, NEW vp \in Lists(Values), NEW i \in Fields
    PROVE  /\ LeavesOf(vp, i) \in Seq(Digests(Values))
           /\ \A x : Contains(LeavesOf(vp, i), x) <=>
                \E v \in Values : Contains(vp[i], v) /\ x = AllowlistLeaf(i, v)
<1>1. PICK s : s = vp[i] /\ s \in Seq(Values)
  BY DEF Lists
<1>2. Len(s) \in Nat /\ \A j \in 1..Len(s) : s[j] \in Values
  BY <1>1
<1>3. LeavesOf(vp, i) = [j \in 1..Len(s) |-> AllowlistLeaf(i, s[j])]
  BY <1>1 DEF LeavesOf
<1>4. Len(LeavesOf(vp, i)) = Len(s)
  BY <1>2, <1>3
<1>5. \A x : Contains(LeavesOf(vp, i), x) <=>
                \E v \in Values : Contains(vp[i], v) /\ x = AllowlistLeaf(i, v)
  BY <1>1, <1>2, <1>3, <1>4 DEF Contains
<1>6. \A j \in 1..Len(s) : AllowlistLeaf(i, s[j]) \in Digests(Values)
  BY <1>2 DEF Digests
<1>7. LeavesOf(vp, i) \in Seq(Digests(Values))
  BY <1>2, <1>3, <1>6
<1> QED BY <1>5, <1>7

LEMMA LeavesList ==
    ASSUME NEW Values, NEW vp \in Lists(Values)
    PROVE  /\ Leaves(vp) \in Seq(Digests(Values))
           /\ Distinct(Leaves(vp))
           /\ \A x : Contains(Leaves(vp), x) <=>
                \E i \in Fields : \E v \in Values :
                    Contains(vp[i], v) /\ x = AllowlistLeaf(i, v)
<1> DEFINE S == Digests(Values)
           L == LeavesUpTo(vp)
           Taken(n, x) == \E i \in 0..(n - 1) : Contains(LeavesOf(vp, i), x)
           Good(n) == /\ L[n] \in Seq(S)
                      /\ \A x : Contains(L[n], x) <=> Taken(n, x)
                      /\ Distinct(L[n])
           T == {n \in 0..ManifestFieldCount : Good(n)}
<1>1. /\ L[0] = <<>>
      /\ \A n \in 1..ManifestFieldCount : L[n] = AppendAll(L[n - 1], LeavesOf(vp, n - 1))
  BY LeavesUnfold, DepthType
<1> HIDE DEF L, S
<1>2. Good(0)
  <2>1. \A x : ~Contains(<<>>, x)
    BY DEF Contains
  <2>2. \A x : ~Taken(0, x)
    OBVIOUS
  <2>3. <<>> \in Seq(S) /\ Distinct(<<>>)
    BY DEF Distinct
  <2> QED BY <1>1, <2>1, <2>2, <2>3
<1>3. ASSUME NEW n \in 1..ManifestFieldCount, Good(n - 1) PROVE Good(n)
  <2>1. n - 1 \in Fields
    BY DepthType DEF Fields
  <2>2. PICK new : new = LeavesOf(vp, n - 1) /\ new \in Seq(S)
    BY <2>1, LeavesOfType DEF S
  <2>3. PICK r : r = L[n - 1]
    OBVIOUS
  <2>4. L[n] = AppendAll(r, new)
    BY <1>1, <2>2, <2>3
  <2>5. r \in Seq(S) /\ Distinct(r) /\ \A x : Contains(r, x) <=> Taken(n - 1, x)
    BY <1>3, <2>3
  <2>6. /\ L[n] \in Seq(S) /\ Distinct(L[n])
        /\ \A x : Contains(L[n], x) <=> Contains(r, x) \/ Contains(new, x)
    BY <2>2, <2>4, <2>5, AppendAllAdds
  <2>7. \A x : Taken(n, x) <=> Taken(n - 1, x) \/ Contains(new, x)
    <3>1. \A i : i \in 0..(n - 1) <=> i \in 0..(n - 1 - 1) \/ i = n - 1
      BY DepthType
    <3> QED BY <2>2, <3>1
  <2> QED BY <2>5, <2>6, <2>7
<1> HIDE DEF Good
<1>4. 0 \in T /\ \A n \in 1..ManifestFieldCount : n - 1 \in T => n \in T
  BY <1>2, <1>3, DepthType
<1>5. Good(ManifestFieldCount)
  <2>1. \A n \in 0..ManifestFieldCount : n \in T
    <3> HIDE DEF T
    <3> QED BY <1>4, UpTo, DepthType
  <2> QED BY <2>1, DepthType
<1>6. \A x : Taken(ManifestFieldCount, x) <=>
        \E i \in Fields : \E v \in Values : Contains(vp[i], v) /\ x = AllowlistLeaf(i, v)
  <2>1. \A i \in Fields : \A x : Contains(LeavesOf(vp, i), x) <=>
            \E v \in Values : Contains(vp[i], v) /\ x = AllowlistLeaf(i, v)
    BY LeavesOfType
  <2>2. \A x : Taken(ManifestFieldCount, x) <=>
            \E i \in Fields : Contains(LeavesOf(vp, i), x)
    BY DEF Fields
  <2> HIDE DEF Taken
  <2> QED BY <2>1, <2>2
<1> QED BY <1>5, <1>6 DEF Good, Leaves, L, S

LEMMA LeafInjective ==
    ASSUME NEW i \in Fields, NEW j \in Fields, NEW x, NEW y, Leaf(i, x) = Leaf(j, y)
    PROVE  i = j /\ x = y
  BY DepthType DEF Leaf, Hash, FromInt, Fields

LEMMA TextInjective == \A a, b : FromText(a) = FromText(b) <=> a = b
  BY DEF FromText

(* Looking a value up in the tree finds it exactly when it is listed for   *)
(* the field, whatever the other fields list.                              *)
LEMMA ListedMeans ==
    ASSUME NEW Values, NEW vp \in Lists(Values), NEW i \in Fields, NEW v
    PROVE  Listed(vp, i, v) <=> Contains(vp[i], v)
<1>1. Listed(vp, i, v) <=>
        \E j \in Fields : \E w \in Values :
            Contains(vp[j], w) /\ AllowlistLeaf(i, v) = AllowlistLeaf(j, w)
  <2>1. \A x : Contains(Leaves(vp), x) <=>
            \E j \in Fields : \E w \in Values :
                Contains(vp[j], w) /\ x = AllowlistLeaf(j, w)
    BY LeavesList
  <2>2. PICK leaf : leaf = AllowlistLeaf(i, v)
    OBVIOUS
  <2>3. Listed(vp, i, v) <=> Contains(Leaves(vp), leaf)
    BY <2>2 DEF Listed
  <2> QED BY <2>1, <2>2, <2>3
<1>2. \A j \in Fields, w \in Values :
        AllowlistLeaf(i, v) = AllowlistLeaf(j, w) => i = j /\ v = w
  BY LeafInjective, TextInjective DEF AllowlistLeaf
<1>3. Contains(vp[i], v) => v \in Values
  <2>1. PICK s : s = vp[i] /\ s \in Seq(Values)
    BY DEF Lists
  <2> QED BY <2>1 DEF Contains
<1> QED BY <1>1, <1>2, <1>3

-----------------------------------------------------------------------------
(* What the circuit accepts.                                               *)
LEMMA ProvableIsListed ==
    ASSUME NEW Values, NEW vp \in Lists(Values), NEW i \in Fields, NEW v, NEW path,
           path.index \in 0..(Capacity - 1), RootOfPath(AllowlistLeaf(i, v), path) = Root(vp)
    PROVE  Contains(vp[i], v)
<1>1. PICK leaf : leaf = AllowlistLeaf(i, v)
  OBVIOUS
<1>2. PICK pos : pos = path.index /\ pos \in 0..(Capacity - 1)
  OBVIOUS
<1>3. PICK leaves : leaves = Leaves(vp) /\ Len(leaves) \in Nat
  <2>1. PICK S : Leaves(vp) \in Seq(S)
    BY LeavesList
  <2> QED BY <2>1
<1>4. Levels(vp)[0] = Padded(leaves)
  BY <1>3, LevelsUnfolds, DepthType
<1>5. leaf = IF pos < Len(leaves) THEN leaves[pos + 1] ELSE FromInt(0)
  <2>1. Levels(vp)[0][pos] = leaf
    BY <1>1, <1>2, OnlyLeavesReachTheRoot
  <2> QED BY <1>2, <1>4, <2>1 DEF Padded
<1>6. leaf # FromInt(0)
  BY <1>1 DEF AllowlistLeaf, Leaf, Hash, FromInt
<1>7. pos < Len(leaves) /\ leaf = leaves[pos + 1]
  BY <1>5, <1>6
<1>8. Contains(leaves, leaf)
  BY <1>2, <1>3, <1>7, CapacityType DEF Contains
<1> QED BY <1>1, <1>3, <1>8, ListedMeans DEF Listed

LEMMA ListedIsProvable ==
    ASSUME NEW Values, NEW vp \in Lists(Values), ~TooLarge(vp), NEW i \in Fields, NEW v,
           Listed(vp, i, v)
    PROVE  /\ Path(vp, i, v).index \in 0..(Capacity - 1)
           /\ RootOfPath(AllowlistLeaf(i, v), Path(vp, i, v)) = Root(vp)
<1>1. PICK leaf : leaf = AllowlistLeaf(i, v)
  OBVIOUS
<1>2. PICK leaves : leaves = Leaves(vp) /\ Len(leaves) \in Nat /\ DOMAIN leaves = 1..Len(leaves)
  <2>1. PICK S : Leaves(vp) \in Seq(S)
    BY LeavesList
  <2> QED BY <2>1
<1>3. PICK n : n = CHOOSE j \in DOMAIN leaves : leaves[j] = leaf
  OBVIOUS
<1>4. n \in 1..Len(leaves) /\ leaves[n] = leaf
  <2>1. \E j \in 1..Len(leaves) : leaves[j] = leaf
    BY <1>1, <1>2 DEF Listed, Contains
  <2> QED BY <1>2, <1>3, <2>1
<1>5. n - 1 \in 0..(Capacity - 1) /\ n - 1 < Len(leaves)
  BY <1>2, <1>4, CapacityType DEF TooLarge
<1>6. Path(vp, i, v) = PathTo(vp, n - 1)
  BY <1>1, <1>2, <1>3 DEF Path
<1>7. Levels(vp)[0][n - 1] = leaf
  <2>1. Levels(vp)[0] = Padded(leaves)
    BY <1>2, LevelsUnfolds, DepthType
  <2> QED BY <1>4, <1>5, <2>1 DEF Padded
<1>8. PathTo(vp, n - 1).index = n - 1
  BY DEF PathTo
<1> QED BY <1>1, <1>5, <1>6, <1>7, <1>8, LeavesReachTheRoot

LEMMA MaskOf ==
    ASSUME NEW vp, NEW i \in Fields, NEW v, Contains(vp[i], v)
    PROVE  i \in Mask(vp)
  BY DEF Contains, Mask, Mutable

(* BuildManifestAllowlist and Path give allowlistPaths what the circuit    *)
(* asks for: for every permitted change, the lookup succeeds and the paths *)
(* satisfy assertManifestVersionPolicy.                                    *)
THEOREM PermittedChangesHavePaths ==
    ASSUME NEW Values, NEW vp \in Lists(Values), ~TooLarge(vp),
           NEW certified, NEW current, Permits(vp, certified, current)
    PROVE  /\ \A i \in Fields : certified[i] # current[i] => Listed(vp, i, current[i])
           /\ AssertManifestVersionPolicy(Mask(vp), Root(vp),
                ManifestFields(certified), ManifestFields(current),
                AllowlistPaths(vp, certified, current))
<1> DEFINE paths == AllowlistPaths(vp, certified, current)
           old == ManifestFields(certified)
           new == ManifestFields(current)
<1>1. \A i \in Fields : certified[i] # current[i] => Contains(vp[i], current[i])
  BY DEF Permits, FieldPermitted
<1>2. \A i \in Fields : certified[i] # current[i] => Listed(vp, i, current[i])
  BY <1>1, ListedMeans
<1>3. Mask(vp) \subseteq Fields
  BY DEF Mask
<1>4. ASSUME NEW i \in Fields
      PROVE  /\ paths[i].index \in 0..(Capacity - 1)
             /\ old[i] = new[i] \/ ProvablyChanged(Mask(vp), Root(vp), new, paths[i], i)
  <2>1. old[i] = FromText(certified[i]) /\ new[i] = FromText(current[i])
    BY DEF ManifestFields
  <2>2. CASE certified[i] = current[i]
    <3>1. paths[i] = EmptyPath
      BY <2>2 DEF AllowlistPaths
    <3>2. EmptyPath.index = 0
      BY DEF EmptyPath
    <3> QED BY <2>1, <2>2, <3>1, <3>2, CapacityType
  <2>3. CASE certified[i] # current[i]
    <3>1. paths[i] = Path(vp, i, current[i])
      BY <2>3 DEF AllowlistPaths
    <3>2. /\ paths[i].index \in 0..(Capacity - 1)
          /\ RootOfPath(AllowlistLeaf(i, current[i]), paths[i]) = Root(vp)
      BY <1>2, <2>3, <3>1, ListedIsProvable
    <3>3. i \in Mask(vp)
      BY <1>1, <2>3, MaskOf
    <3>4. AllowlistLeaf(i, current[i]) = Leaf(i, new[i])
      BY <2>1 DEF AllowlistLeaf
    <3> QED BY <3>2, <3>3, <3>4 DEF ProvablyChanged
  <2> QED BY <2>2, <2>3
<1> QED BY <1>2, <1>3, <1>4 DEF AssertManifestVersionPolicy

(* The circuit lets nothing else through, whatever paths a holder makes up *)
(* (the siblings may be any numbers).  No hypothesis on the size.          *)
THEOREM ProvableChangesArePermitted ==
    ASSUME NEW Values, NEW vp \in Lists(Values), NEW certified, NEW current, NEW mask,
           NEW paths,
           AssertManifestVersionPolicy(mask, Root(vp),
                ManifestFields(certified), ManifestFields(current), paths)
    PROVE  Permits(vp, certified, current)
<1> SUFFICES ASSUME NEW i \in Fields PROVE FieldPermitted(vp, certified, current, i)
  BY DEF Permits
<1>1. /\ ManifestFields(certified)[i] = FromText(certified[i])
      /\ ManifestFields(current)[i] = FromText(current[i])
  BY DEF ManifestFields
<1>2. /\ paths[i].index \in 0..(Capacity - 1)
      /\ \/ FromText(certified[i]) = FromText(current[i])
         \/ ProvablyChanged(mask, Root(vp), ManifestFields(current), paths[i], i)
  BY <1>1 DEF AssertManifestVersionPolicy
<1>3. CASE FromText(certified[i]) = FromText(current[i])
  BY <1>3, TextInjective DEF FieldPermitted
<1>4. CASE ProvablyChanged(mask, Root(vp), ManifestFields(current), paths[i], i)
  <2>1. RootOfPath(AllowlistLeaf(i, current[i]), paths[i]) = Root(vp)
    BY <1>1, <1>4 DEF ProvablyChanged, AllowlistLeaf
  <2>2. Contains(vp[i], current[i])
    BY <1>2, <2>1, ProvableIsListed
  <2> QED BY <2>2 DEF FieldPermitted
<1> QED BY <1>2, <1>3, <1>4

(* "It mirrors the circuit's check" (the comment on Permits): the circuit  *)
(* has a witness for a change of manifest exactly when Permits allows it.  *)
THEOREM PermitsMirrors ==
    ASSUME NEW Values, NEW vp \in Lists(Values), ~TooLarge(vp), NEW certified, NEW current
    PROVE  Permits(vp, certified, current) <=>
            \E paths : AssertManifestVersionPolicy(Mask(vp), Root(vp),
                        ManifestFields(certified), ManifestFields(current), paths)
  BY PermittedChangesHavePaths, ProvableChangesArePermitted

(* The hash of a policy covers the root only, and the root covers the      *)
(* whole list: two version policies with one root allow the same values,   *)
(* in whatever order and however often they list them.                     *)
THEOREM RootCoversList ==
    ASSUME NEW Values, NEW vp1 \in Lists(Values), NEW vp2 \in Lists(Values),
           ~TooLarge(vp1), ~TooLarge(vp2), Root(vp1) = Root(vp2)
    PROVE  \A i \in Fields, v \in Values : Contains(vp1[i], v) <=> Contains(vp2[i], v)
<1>1. ASSUME NEW p \in Lists(Values), NEW q \in Lists(Values), ~TooLarge(p),
             Root(p) = Root(q), NEW i \in Fields, NEW v, Contains(p[i], v)
      PROVE  Contains(q[i], v)
  <2>1. Listed(p, i, v)
    BY <1>1, ListedMeans
  <2>2. /\ Path(p, i, v).index \in 0..(Capacity - 1)
        /\ RootOfPath(AllowlistLeaf(i, v), Path(p, i, v)) = Root(q)
    BY <1>1, <2>1, ListedIsProvable
  <2> QED BY <1>1, <2>2, ProvableIsListed
<1> QED BY <1>1

(* ErrAllowlistTooLarge: the tree has a leaf for each different pair of a  *)
(* field and a value, so that a list is refused exactly when it has more   *)
(* than 2^AllowlistDepth of them; repetitions cost nothing.                *)
THEOREM LeavesCountPairs ==
    ASSUME NEW Values, NEW vp \in Lists(Values)
    PROVE  LET pairs == {p \in Fields \X Values : Contains(vp[p[1]], p[2])}
           IN /\ IsFiniteSet(pairs)
              /\ TooLarge(vp) <=> Cardinality(pairs) > Capacity
<1> DEFINE pairs == {p \in Fields \X Values : Contains(vp[p[1]], p[2])}
           PairOf(leaf) == CHOOSE p \in pairs : AllowlistLeaf(p[1], p[2]) = leaf
<1>1. PICK leaves : leaves = Leaves(vp) /\ Len(leaves) \in Nat
  <2>1. PICK S : Leaves(vp) \in Seq(S)
    BY LeavesList
  <2> QED BY <2>1
<1> DEFINE N == 1..Len(leaves)
           f == [j \in N |-> PairOf(leaves[j])]
<1>2. Distinct(leaves)
  BY <1>1, LeavesList
<1>3. \A x : Contains(leaves, x) <=>
            \E i \in Fields : \E v \in Values : Contains(vp[i], v) /\ x = AllowlistLeaf(i, v)
  BY <1>1, LeavesList
<1>4. ASSUME NEW j \in N
      PROVE  f[j] \in pairs /\ AllowlistLeaf(f[j][1], f[j][2]) = leaves[j]
  <2>1. Contains(leaves, leaves[j])
    BY DEF Contains
  <2>2. PICK i \in Fields, v \in Values : Contains(vp[i], v) /\ leaves[j] = AllowlistLeaf(i, v)
    BY <1>3, <2>1
  <2>3. <<i, v>> \in pairs /\ AllowlistLeaf(<<i, v>>[1], <<i, v>>[2]) = leaves[j]
    BY <2>2
  <2> HIDE DEF pairs
  <2> QED BY <2>3
<1>5. ASSUME NEW p \in pairs PROVE \E j \in N : f[j] = p
  <2>1. /\ p[1] \in Fields /\ p[2] \in Values /\ Contains(vp[p[1]], p[2])
        /\ p = <<p[1], p[2]>>
    OBVIOUS
  <2>2. Contains(leaves, AllowlistLeaf(p[1], p[2]))
    BY <1>3, <2>1
  <2>3. PICK j \in N : leaves[j] = AllowlistLeaf(p[1], p[2])
    BY <2>2 DEF Contains
  <2>4. PICK q : q = f[j] /\ q \in pairs /\ AllowlistLeaf(q[1], q[2]) = leaves[j]
    BY <1>4
  <2>5. q[1] \in Fields /\ q = <<q[1], q[2]>>
    BY <2>4
  <2>6. q[1] = p[1] /\ q[2] = p[2]
    BY <2>1, <2>3, <2>4, <2>5, LeafInjective, TextInjective DEF AllowlistLeaf
  <2> QED BY <2>1, <2>4, <2>5, <2>6
<1> HIDE DEF PairOf, f, pairs
<1>6. f \in Bijection(N, pairs)
  <2>1. f = [j \in N |-> f[j]]
    BY DEF f
  <2>2. f \in [N -> pairs]
    BY <1>4, <2>1
  <2>3. \A j, k \in N : f[j] = f[k] => j = k
    BY <1>2, <1>4 DEF Distinct
  <2> QED BY <1>5, <2>2, <2>3, Fun_IsBij
<1>7. IsFiniteSet(N) /\ Cardinality(N) = Len(leaves)
  BY <1>1, FS_Interval
<1>8. IsFiniteSet(pairs) /\ Cardinality(pairs) = Len(leaves)
  BY <1>6, <1>7, FS_Bijection DEF ExistsBijection
<1> QED BY <1>1, <1>8 DEF TooLarge, pairs
=============================================================================
