--------------------------- MODULE ManifestPolicy ---------------------------
(***************************************************************************)
(* passport/policy.go and passport/agent.go: an agent that is certified    *)
(* with one manifest and moves to others, a service that publishes a       *)
(* policy with a version policy behind it, and the prover that rebuilds    *)
(* the policy from the parts it was sent.                                  *)
(***************************************************************************)
EXTENDS ManifestAllowlist, FiniteSets

CONSTANTS
    Values,             \* values of a manifest field
    Manifests,          \* manifests an agent may declare
    VersionPolicies,    \* version policies a service may choose
    Terms,              \* threshold, minimum, domain and epoch: strings by field
    NoBundle            \* nothing published, or nothing rebuilt

ASSUME ManifestPolicyConstants ==
    /\ Manifests \subseteq [Fields -> Values]
    /\ \A vp \in VersionPolicies : vp \in [Fields -> Seq(Values)]

VARIABLES
    certified,  \* the manifest the certificate is bound to
    current,    \* the manifest the agent declares
    published,  \* the bundle of the service
    received,   \* the bundle the prover rebuilt
    refused     \* history: the version policies that were too large

vars == <<certified, current, published, received, refused>>

(* BuildManifestAllowlist of every version policy, computed once.          *)
Allowlist ==
    [vp \in VersionPolicies |->
        [tooLarge |-> TooLarge(vp), mask |-> Mask(vp), root |-> Root(vp)]]
Small == {vp \in VersionPolicies : ~Allowlist[vp].tooLarge}

Bundle(policy, hash, vp) ==
    [policy |-> policy, policyHash |-> hash, versionPolicy |-> vp]

Init ==
    /\ certified \in Manifests
    /\ current = certified
    /\ published = NoBundle
    /\ received = NoBundle
    /\ refused = {}

UpdateManifest(m) ==
    /\ current' = m
    /\ UNCHANGED <<certified, published, received, refused>>

(* A new certificate binds the manifest of the day.                        *)
Certify ==
    /\ certified' = current
    /\ UNCHANGED <<current, published, received, refused>>

NewPolicy(terms, vp) ==
    /\ vp \in Small
    /\ LET policy == Policy(terms, ManifestCommitment(current),
                            Allowlist[vp].mask, Allowlist[vp].root)
       IN published' = Bundle(policy, PolicyHash(policy), vp)
    /\ UNCHANGED <<certified, current, received, refused>>

RefusePolicy(vp) ==
    /\ vp \notin Small
    /\ refused' = refused \cup {vp}
    /\ UNCHANGED <<certified, current, published, received>>

(* Mutant: the version policy is not compared with the root.               *)
ConsistentHash(policy, hash, vp) ==
    /\ vp \in Small
    /\ policy.manifestMutableMask = Allowlist[vp].mask
    /\ PolicyHash(policy) = hash

Consistent(policy, hash, vp) ==
    /\ vp \in Small
    /\ policy.manifestAllowlistRoot = Allowlist[vp].root
    /\ policy.manifestMutableMask = Allowlist[vp].mask
    /\ PolicyHash(policy) = hash

(* Parts that do not agree are an error and change nothing.                *)
RebuildPolicy(policy, hash, vp) ==
    /\ Consistent(policy, hash, vp)
    /\ received' = Bundle(policy, hash, vp)
    /\ UNCHANGED <<certified, current, published, refused>>

(* What may arrive: a policy put together from any parts, with its own     *)
(* hash or with the published one, next to any version policy.             *)
Policies ==
    {Policy(t, ManifestCommitment(m), Allowlist[vp1].mask, Allowlist[vp2].root) :
        t \in Terms, m \in Manifests, vp1 \in Small, vp2 \in Small}

Next ==
    \/ \E m \in Manifests : UpdateManifest(m)
    \/ Certify
    \/ \E t \in Terms, vp \in VersionPolicies : NewPolicy(t, vp)
    \/ \E vp \in VersionPolicies : RefusePolicy(vp)
    \/ /\ published # NoBundle
       /\ \E policy \in Policies :
            \E hash \in {published.policyHash, PolicyHash(policy)}, vp \in VersionPolicies :
                RebuildPolicy(policy, hash, vp)

Spec == Init /\ [][Next]_vars

-----------------------------------------------------------------------------
(* A bundle that was rebuilt under the published hash is the published     *)
(* policy, element by element, and its version policy allows the same      *)
(* changes: the hash covers the whole list although only a mask and a root *)
(* enter it.                                                               *)
RebuiltIsPublished ==
    received # NoBundle /\ published # NoBundle /\ received.policyHash = published.policyHash =>
        /\ PolicyElements(received.policy) = PolicyElements(published.policy)
        /\ \A m1, m2 \in Manifests :
            Permits(received.versionPolicy, m1, m2) <=> Permits(published.versionPolicy, m1, m2)

(* The paths a prover could come up with: any index and any siblings that  *)
(* occur in some tree.                                                     *)
RowOf(vp, d) == {Levels(vp)[d][j] : j \in 0..(Pow2[AllowlistDepth - d] - 1)}
Nodes == {FromInt(0)} \cup UNION {RowOf(vp, d) : vp \in Small, d \in 0..AllowlistDepth}
AnyPath == [index : 0..(Capacity - 1), siblings : [0..(AllowlistDepth - 1) -> Nodes]]

Provable ==
    {change \in [list : Small, field : Fields, value : Values] :
        \E path \in AnyPath :
            ProvablyChanged(Mask(change.list), Root(change.list),
                            [f \in Fields |-> FromText(change.value)], path, change.field)}

(* The circuit accepts a change of manifest, with whatever paths, exactly  *)
(* when Permits allows it (the comment "It mirrors the circuit's check").  *)
PermitsMirrorsCircuit ==
    published # NoBundle =>
        LET vp == published.versionPolicy
        IN Permits(vp, certified, current) <=>
            \A i \in Fields : certified[i] = current[i]
                           \/ [list |-> vp, field |-> i, value |-> current[i]] \in Provable

(* When Permits agrees, allowlistPaths finds every path, and they convince *)
(* the circuit.                                                            *)
PathsConvince ==
    published # NoBundle =>
        LET vp == published.versionPolicy
        IN Permits(vp, certified, current) =>
            /\ \A i \in Fields : certified[i] # current[i] => Listed(vp, i, current[i])
            /\ AssertManifestVersionPolicy(
                    published.policy.manifestMutableMask,
                    published.policy.manifestAllowlistRoot,
                    ManifestFields(certified), ManifestFields(current),
                    AllowlistPaths(vp, certified, current))

(* A list is too large exactly when it has more different entries than the *)
(* tree has leaves; repetitions are free ("up to 2^AllowlistDepth allowed  *)
(* (field, value) pairs").                                                 *)
Entries(vp) == {entry \in Fields \X Values : Contains(vp[entry[1]], entry[2])}

CapacityIsExact ==
    /\ \A vp \in refused : Cardinality(Entries(vp)) > Capacity
    /\ published # NoBundle => Cardinality(Entries(published.versionPolicy)) <= Capacity
=============================================================================
