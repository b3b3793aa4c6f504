------------------------ MODULE ManifestPolicyProofs ------------------------
(***************************************************************************)
(* For any manifests, version policies and trees: a bundle that was built  *)
(* or rebuilt stands for its version policy, and what it allows is what    *)
(* the circuit lets through.                                               *)
(***************************************************************************)
EXTENDS ManifestPolicy, AllowlistProofs

(* The parts of a bundle agree.                                            *)
Agrees(bundle) ==
    /\ bundle.versionPolicy \in Small
    /\ bundle.policy.manifestMutableMask = Mask(bundle.versionPolicy)
    /\ bundle.policy.manifestAllowlistRoot = Root(bundle.versionPolicy)
    /\ bundle.policyHash = PolicyHash(bundle.policy)

BInv ==
    /\ certified \in Manifests /\ current \in Manifests
    /\ published # NoBundle => Agrees(published)
    /\ received # NoBundle => Agrees(received)
    /\ refused \subseteq VersionPolicies \ Small

LEMMA SmallOnes ==
    ASSUME NEW vp \in VersionPolicies
    PROVE  /\ vp \in Lists(Values)
           /\ vp \in Small <=> ~TooLarge(vp)
           /\ Allowlist[vp].mask = Mask(vp) /\ Allowlist[vp].root = Root(vp)
<1>1. Allowlist[vp] = [tooLarge |-> TooLarge(vp), mask |-> Mask(vp), root |-> Root(vp)]
  BY DEF Allowlist
<1>2. vp \in Lists(Values)
  BY ManifestPolicyConstants DEF Lists
<1> QED BY <1>1, <1>2 DEF Small

LEMMA SmallList ==
    ASSUME NEW vp \in Small
    PROVE  vp \in VersionPolicies /\ vp \in Lists(Values) /\ ~TooLarge(vp)
  BY SmallOnes DEF Small

LEMMA ConsistentAgrees ==
    ASSUME NEW policy, NEW hash, NEW vp, Consistent(policy, hash, vp)
    PROVE  Agrees(Bundle(policy, hash, vp))
<1>1. vp \in Small /\ vp \in VersionPolicies
  BY DEF Consistent, Small
<1> QED BY <1>1, SmallOnes DEF Consistent, Agrees, Bundle

LEMMA NewPolicyAgrees ==
    ASSUME NEW terms, NEW manifest, NEW vp \in Small
    PROVE  LET policy == Policy(terms, manifest, Allowlist[vp].mask, Allowlist[vp].root)
           IN Agrees(Bundle(policy, PolicyHash(policy), vp))
<1> DEFINE policy == Policy(terms, manifest, Allowlist[vp].mask, Allowlist[vp].root)
<1>1. /\ policy.manifestMutableMask = Allowlist[vp].mask
      /\ policy.manifestAllowlistRoot = Allowlist[vp].root
  BY DEF Policy
<1>2. Allowlist[vp].mask = Mask(vp) /\ Allowlist[vp].root = Root(vp)
  BY SmallList, SmallOnes
<1> HIDE DEF policy
<1>3. Agrees(Bundle(policy, PolicyHash(policy), vp))
  BY <1>1, <1>2 DEF Agrees, Bundle
<1> QED BY <1>3 DEF policy

LEMMA InitBInv == Init => BInv
  BY DEF Init, BInv

LEMMA NextBInv == BInv /\ [Next]_vars => BInv'
<1> SUFFICES ASSUME BInv, [Next]_vars PROVE BInv'
  OBVIOUS
<1>1. CASE UNCHANGED vars
  BY <1>1 DEF BInv, vars
<1>2. ASSUME NEW m \in Manifests, UpdateManifest(m) PROVE BInv'
  BY <1>2 DEF UpdateManifest, BInv
<1>3. CASE Certify
  BY <1>3 DEF Certify, BInv
<1>4. ASSUME NEW t \in Terms, NEW vp \in VersionPolicies, NewPolicy(t, vp) PROVE BInv'
  <2>1. /\ vp \in Small /\ UNCHANGED <<certified, current, received, refused>>
        /\ published' = Bundle(
                Policy(t, ManifestCommitment(current), Allowlist[vp].mask, Allowlist[vp].root),
                PolicyHash(Policy(t, ManifestCommitment(current),
                                  Allowlist[vp].mask, Allowlist[vp].root)), vp)
    BY <1>4 DEF NewPolicy
  <2>2. Agrees(published')
    BY <2>1, NewPolicyAgrees
  <2> QED BY <2>1, <2>2 DEF BInv
<1>5. ASSUME NEW vp \in VersionPolicies, RefusePolicy(vp) PROVE BInv'
  BY <1>5 DEF RefusePolicy, BInv
<1>6. ASSUME NEW policy, NEW hash, NEW vp, RebuildPolicy(policy, hash, vp) PROVE BInv'
  <2>1. /\ Consistent(policy, hash, vp) /\ received' = Bundle(policy, hash, vp)
        /\ UNCHANGED <<certified, current, published, refused>>
    BY <1>6 DEF RebuildPolicy
  <2>2. Agrees(received')
    BY <2>1, ConsistentAgrees
  <2> QED BY <2>1, <2>2 DEF BInv
<1> QED BY <1>1, <1>2, <1>3, <1>4, <1>5, <1>6 DEF Next

LEMMA BundleInvariant == Spec => []BInv
  BY InitBInv, NextBInv, PTL DEF Spec

-----------------------------------------------------------------------------
(* A policy hash covers the elements of the policy, hence the mask and the *)
(* root, hence the list: a prover that accepts the published hash works    *)
(* from the published policy, but for the spelling of its terms, and       *)
(* allows the same changes of manifest.                                    *)
THEOREM HashCoversPolicy == Spec => []RebuiltIsPublished
<1>1. ASSUME BInv, received # NoBundle, published # NoBundle,
             received.policyHash = published.policyHash
      PROVE  /\ PolicyElements(received.policy) = PolicyElements(published.policy)
             /\ \A m1, m2 \in Manifests : Permits(received.versionPolicy, m1, m2)
                                            <=> Permits(published.versionPolicy, m1, m2)
  <2>1. PICK p, q : p = received.versionPolicy /\ q = published.versionPolicy
    OBVIOUS
  <2>2. PolicyElements(received.policy) = PolicyElements(published.policy)
    BY <1>1 DEF BInv, Agrees, PolicyHash
  <2>3. p \in Small /\ q \in Small /\ Root(p) = Root(q)
    <3>1. /\ Agrees(received) /\ Agrees(published)
          /\ received.versionPolicy = p /\ published.versionPolicy = q
      BY <1>1, <2>1 DEF BInv
    <3>2. received.policy.manifestAllowlistRoot = published.policy.manifestAllowlistRoot
      BY <2>2 DEF PolicyElements, Policy
    <3> QED BY <3>1, <3>2 DEF Agrees
  <2>4. \A i \in Fields, v \in Values : Contains(p[i], v) <=> Contains(q[i], v)
    BY <2>3, SmallList, RootCoversList
  <2>5. \A m \in Manifests, i \in Fields : m[i] \in Values
    BY ManifestPolicyConstants
  <2>6. \A m1, m2 \in Manifests : Permits(p, m1, m2) <=> Permits(q, m1, m2)
    BY <2>4, <2>5 DEF Permits, FieldPermitted
  <2> QED BY <2>1, <2>2, <2>6
<1>2. BInv => RebuiltIsPublished
  BY <1>1 DEF RebuiltIsPublished
<1> QED BY <1>2, BundleInvariant, PTL

(* When Permits agrees, the prover finds every path, and the circuit       *)
(* accepts them.                                                           *)
THEOREM PathsAreFound == Spec => []PathsConvince
<1>1. ASSUME BInv, published # NoBundle,
             Permits(published.versionPolicy, certified, current)
      PROVE  /\ \A i \in Fields : certified[i] # current[i]
                    => Listed(published.versionPolicy, i, current[i])
             /\ AssertManifestVersionPolicy(
                    published.policy.manifestMutableMask,
                    published.policy.manifestAllowlistRoot,
                    ManifestFields(certified), ManifestFields(current),
                    AllowlistPaths(published.versionPolicy, certified, current))
  <2>1. Agrees(published)
    BY <1>1 DEF BInv
  <2>2. /\ published.versionPolicy \in Lists(Values) /\ ~TooLarge(published.versionPolicy)
        /\ published.policy.manifestMutableMask = Mask(published.versionPolicy)
        /\ published.policy.manifestAllowlistRoot = Root(published.versionPolicy)
    BY <2>1, SmallList DEF Agrees
  <2> QED BY <1>1, <2>2, PermittedChangesHavePaths
<1>2. BInv => PathsConvince
  BY <1>1 DEF PathsConvince
<1> QED BY <1>2, BundleInvariant, PTL

(* The nodes next to the way up are nodes of the tree.                     *)
LEMMA PathIsPossible ==
    ASSUME NEW vp \in Small, NEW pos \in 0..(Capacity - 1)
    PROVE  PathTo(vp, pos) \in AnyPath
<1> DEFINE D == AllowlistDepth
           sib == [k \in 0..(D - 1) |-> Levels(vp)[k][Neighbour(Shifted(pos)[k])]]
<1>1. ASSUME NEW k \in 0..(D - 1) PROVE sib[k] \in Nodes
  <2>1. PICK x : x = Shifted(pos)[k]
    OBVIOUS
  <2>2. PICK w : w = Pow2[D - k - 1]
    OBVIOUS
  <2>3. Pow2[D - k] = 2 * w /\ w \in Nat \ {0}
    <3>1. D - k \in 1..D /\ D - k - 1 \in 0..D
      BY DepthType
    <3> QED BY <2>2, <3>1, Powers
  <2>4. x \in 0..(2 * w - 1)
    <3>1. k \in 0..D
      BY DepthType
    <3> QED BY <2>1, <2>3, <3>1, Positions
  <2>5. Neighbour(x) \in 0..(2 * w - 1)
    <3>1. CASE x % 2 = 0
      <4>1. x = 2 * (x \div 2) /\ x \div 2 \in Nat
        BY <2>4, <3>1, Halves
      <4>2. x + 1 \in 0..(2 * w - 1)
        BY <2>3, <2>4, <4>1
      <4> QED BY <3>1, <4>2 DEF Neighbour
    <3>2. CASE x % 2 # 0
      <4>1. x # 0
        BY <3>2
      <4>2. x - 1 \in 0..(2 * w - 1)
        BY <2>3, <2>4, <4>1
      <4> QED BY <3>2, <4>2 DEF Neighbour
    <3> QED BY <3>1, <3>2
  <2>6. k \in 0..D /\ Neighbour(x) \in 0..(Pow2[D - k] - 1)
    BY <2>3, <2>5, DepthType
  <2>7. sib[k] = Levels(vp)[k][Neighbour(x)]
    BY <2>1
  <2>8. sib[k] \in RowOf(vp, k)
    <3> HIDE DEF sib
    <3> QED BY <2>6, <2>7 DEF RowOf
  <2>9. RowOf(vp, k) \subseteq Nodes
    BY <2>6 DEF Nodes
  <2> HIDE DEF sib
  <2> QED BY <2>8, <2>9
<1>2. sib \in [0..(D - 1) -> Nodes]
  BY <1>1
<1>3. PathTo(vp, pos) = [index |-> pos, siblings |-> sib]
  BY DEF PathTo
<1> HIDE DEF sib
<1> QED BY <1>2, <1>3 DEF AnyPath

LEMMA FoundPathIsPossible ==
    ASSUME NEW vp \in Small, NEW i \in Fields, NEW v, Listed(vp, i, v)
    PROVE  Path(vp, i, v) \in AnyPath
<1>1. PICK pos : Path(vp, i, v) = PathTo(vp, pos)
  BY DEF Path
<1>2. Path(vp, i, v).index \in 0..(Capacity - 1)
  BY SmallList, ListedIsProvable
<1>3. PathTo(vp, pos).index = pos
  BY DEF PathTo
<1> QED BY <1>1, <1>2, <1>3, PathIsPossible

(* "It mirrors the circuit's check": whatever paths a prover comes up      *)
(* with, the circuit accepts a change exactly when Permits allows it.      *)
THEOREM CircuitMirrorsPermits == Spec => []PermitsMirrorsCircuit
<1>1. ASSUME NEW vp \in Small, NEW i \in Fields, NEW v \in Values
      PROVE  [list |-> vp, field |-> i, value |-> v] \in Provable <=> Contains(vp[i], v)
  <2>1. [list |-> vp, field |-> i, value |-> v] \in Provable <=>
            \E path \in AnyPath :
                ProvablyChanged(Mask(vp), Root(vp), [f \in Fields |-> FromText(v)], path, i)
    BY DEF Provable
  <2>2. \A path : ProvablyChanged(Mask(vp), Root(vp), [f \in Fields |-> FromText(v)], path, i)
            <=> i \in Mask(vp) /\ RootOfPath(AllowlistLeaf(i, v), path) = Root(vp)
    BY DEF ProvablyChanged, AllowlistLeaf
  <2>3. \A path \in AnyPath : path.index \in 0..(Capacity - 1)
    BY DEF AnyPath
  <2>4. ASSUME Contains(vp[i], v)
        PROVE  \E path \in AnyPath :
                i \in Mask(vp) /\ RootOfPath(AllowlistLeaf(i, v), path) = Root(vp)
    <3>1. Listed(vp, i, v)
      BY <2>4, SmallList, ListedMeans
    <3> QED BY <2>4, <3>1, SmallList, MaskOf, ListedIsProvable, FoundPathIsPossible
  <2>5. ASSUME NEW path \in AnyPath, RootOfPath(AllowlistLeaf(i, v), path) = Root(vp)
        PROVE  Contains(vp[i], v)
    BY <2>3, <2>5, SmallList, ProvableIsListed
  <2> QED BY <2>1, <2>2, <2>4, <2>5
<1>2. ASSUME BInv, published # NoBundle
      PROVE  LET vp == published.versionPolicy
             IN Permits(vp, certified, current) <=>
                \A i \in Fields : certified[i] = current[i]
                               \/ [list |-> vp, field |-> i, value |-> current[i]] \in Provable
  <2>1. published.versionPolicy \in Small
    BY <1>2 DEF BInv, Agrees
  <2>2. \A i \in Fields : current[i] \in Values
    BY <1>2, ManifestPolicyConstants DEF BInv
  <2> QED BY <1>1, <2>1, <2>2 DEF Permits, FieldPermitted
<1>3. BInv => PermitsMirrorsCircuit
  BY <1>2 DEF PermitsMirrorsCircuit
<1> QED BY <1>3, BundleInvariant, PTL

(* A list is refused exactly when it has more different entries than the   *)
(* tree has leaves.                                                        *)
THEOREM CapacityCountsEntries == Spec => []CapacityIsExact
<1>1. ASSUME NEW vp \in VersionPolicies
      PROVE  TooLarge(vp) <=> Cardinality(Entries(vp)) > Capacity
  BY SmallOnes, LeavesCountPairs DEF Entries
<1>2. ASSUME NEW vp \in VersionPolicies, ~TooLarge(vp)
      PROVE  Cardinality(Entries(vp)) <= Capacity
  <2>1. IsFiniteSet(Entries(vp))
    BY SmallOnes, LeavesCountPairs DEF Entries
  <2>2. Cardinality(Entries(vp)) \in Nat
    BY <2>1, FS_CardinalityType
  <2> QED BY <1>1, <1>2, <2>2, CapacityType
<1>3. BInv => CapacityIsExact
  BY <1>1, <1>2, SmallOnes, SmallList DEF BInv, Agrees, CapacityIsExact
<1> QED BY <1>3, BundleInvariant, PTL
=============================================================================
