------------------------- MODULE ManifestAllowlist -------------------------
(***************************************************************************)
(* passport/manifest_policy.go and the constraint behind it in             *)
(* zkp/circuit.go: a service lists the values that a manifest field may    *)
(* move to; a Merkle tree over the list stands for it in the policy, and   *)
(* the circuit sees only the mask of mutable fields and the root.          *)
(*                                                                         *)
(* Data.  Poseidon2 and SHA-256 are ideal: a digest is the value it was    *)
(* computed from, tagged.  Numbers that are hashed are tagged, too.  The   *)
(* mask, a bit per field, is the set of the fields whose bit is one.       *)
(* An element is identified with its canonical decimal string, the one     *)
(* that FromBig writes; DOMAIN Reads is a set of other strings, such as    *)
(* those with a sign or leading zeros.                                     *)
(***************************************************************************)
EXTENDS Integers, Sequences, SequencesExt

CONSTANTS
    ManifestFieldCount,     \* manifest fields (4 in the code)
    AllowlistDepth,         \* depth of the tree (4 in the code)
    Reads                   \* the element of each string that is not canonical

ASSUME AllowlistConstants ==
    /\ ManifestFieldCount \in Nat \ {0}
    /\ AllowlistDepth \in Nat \ {0}
    /\ \A e \in DOMAIN Reads : Reads[e] \notin DOMAIN Reads

(* field.ToBig: what the hash and the circuit make of a string.            *)
ToBig(e) == IF e \in DOMAIN Reads THEN Reads[e] ELSE e
Elements(fields) == [f \in DOMAIN fields |-> ToBig(fields[f])]

Hash(fields) == <<"hash", fields>>
FromText(text) == <<"text", text>>
FromInt(n) == <<"int", n>>
Commit(value, salt) == Hash(Elements(<<value, salt>>))

(* A manifest maps its fields to values.                                   *)
Fields == 0..(ManifestFieldCount - 1)

(* Powers of two, as a function that proofs can unfold.                    *)
Pow2[n \in 0..AllowlistDepth] == IF n = 0 THEN 1 ELSE 2 * Pow2[n - 1]

Capacity == Pow2[AllowlistDepth]

ManifestFields(m) == [i \in Fields |-> FromText(m[i])]
ManifestCommitment(m) == Hash(ManifestFields(m))

-----------------------------------------------------------------------------
(* A version policy vp maps each field to the list of allowed values.      *)
Mutable(vp, i) == vp[i] # <<>>
Mask(vp) == {i \in Fields : Mutable(vp, i)}

(* Permits, with the error of the first field that must not have changed.  *)
FieldPermitted(vp, certified, current, i) ==
    certified[i] = current[i] \/ Contains(vp[i], current[i])

Permits(vp, certified, current) ==
    \A i \in Fields : FieldPermitted(vp, certified, current, i)

(* Mutant: the index is left out, so that all fields share their values.   *)
LeafOfValue(i, value) == Hash(<<FromInt(1), value>>)

(* One leaf per allowed value of a field, given as its digest.             *)
Leaf(i, value) == Hash(<<FromInt(i + 1), value>>)
AllowlistLeaf(i, value) == Leaf(i, FromText(value))

(* Mutant: a value that is listed twice takes two leaves.                  *)
AppendAlways(leaves, leaf) == Append(leaves, leaf)

AppendNew(leaves, leaf) ==
    IF Contains(leaves, leaf) THEN leaves ELSE Append(leaves, leaf)

AppendAll(leaves, new) ==
    LET merged[n \in 0..Len(new)] ==
            IF n = 0 THEN leaves ELSE AppendNew(merged[n - 1], new[n])
    IN merged[Len(new)]

(* The leaves of the first fields, for every number of fields.             *)
LeavesOf(vp, i) == [j \in 1..Len(vp[i]) |-> AllowlistLeaf(i, vp[i][j])]
LeavesUpTo(vp) ==
    LET upTo[n \in 0..ManifestFieldCount] ==
            IF n = 0 THEN <<>> ELSE AppendAll(upTo[n - 1], LeavesOf(vp, n - 1))
    IN upTo

Leaves(vp) == LeavesUpTo(vp)[ManifestFieldCount]

(* ErrAllowlistTooLarge.                                                   *)
TooLarge(vp) == Len(Leaves(vp)) > Capacity

(* levels[0] are the padded leaves, levels[AllowlistDepth] is the root.    *)
Padded(leaves) ==
    [j \in 0..(Capacity - 1) |-> IF j < Len(leaves) THEN leaves[j + 1] ELSE FromInt(0)]
Above(level, d) ==
    [j \in 0..(Pow2[AllowlistDepth - d] - 1) |-> Hash(<<level[2 * j], level[2 * j + 1]>>)]
Levels(vp) ==
    LET levels[d \in 0..AllowlistDepth] ==
            IF d = 0 THEN Padded(Leaves(vp)) ELSE Above(levels[d - 1], d)
    IN levels

Root(vp) == Levels(vp)[AllowlistDepth][0]

(* Mutant: the path holds the nodes themselves, not their siblings.        *)
OwnNode(pos) == pos

Neighbour(pos) == IF pos % 2 = 0 THEN pos + 1 ELSE pos - 1

(* pos >> k, for every level k.                                            *)
Shifted(pos) ==
    LET shifted[k \in 0..AllowlistDepth] == IF k = 0 THEN pos ELSE shifted[k - 1] \div 2
    IN shifted

PathTo(vp, pos) ==
    [index |-> pos,
     siblings |-> [k \in 0..(AllowlistDepth - 1) |-> Levels(vp)[k][Neighbour(Shifted(pos)[k])]]]

(* The inclusion path of a value that Leaves(vp) contains.                 *)
Path(vp, i, value) ==
    PathTo(vp, (CHOOSE j \in DOMAIN Leaves(vp) : Leaves(vp)[j] = AllowlistLeaf(i, value)) - 1)

EmptyPath ==
    [index |-> 0, siblings |-> [k \in 0..(AllowlistDepth - 1) |-> FromInt(0)]]

Listed(vp, i, value) == Contains(Leaves(vp), AllowlistLeaf(i, value))

(* allowlistPaths in prove.go: a real path for a field that changed.       *)
AllowlistPaths(vp, certified, current) ==
    [i \in Fields |-> IF certified[i] # current[i] THEN Path(vp, i, current[i])
                      ELSE EmptyPath]

-----------------------------------------------------------------------------
(* A policy; terms stands for the fields that do not concern manifests.    *)
Policy(terms, manifest, mask, root) ==
    [terms |-> terms, requestedManifestCommitment |-> manifest,
     manifestMutableMask |-> mask, manifestAllowlistRoot |-> root]

(* The elements of a policy, whose mask and root are canonical.            *)
PolicyElements(policy) ==
    Policy(Elements(policy.terms), ToBig(policy.requestedManifestCommitment),
           policy.manifestMutableMask, policy.manifestAllowlistRoot)

PolicyHash(policy) == <<"policy", PolicyElements(policy)>>

-----------------------------------------------------------------------------
(* The circuit: the nodes on the way up from a leaf, the root included; a  *)
(* bit of the index says whether the node below is the right child.        *)
Parent(node, sibling, isRight) ==
    IF isRight THEN Hash(<<sibling, node>>) ELSE Hash(<<node, sibling>>)
NodesOfPath(leaf, path) ==
    LET node[k \in 0..AllowlistDepth] ==
            IF k = 0 THEN leaf
            ELSE Parent(node[k - 1], path.siblings[k - 1],
                        Shifted(path.index)[k - 1] % 2 = 1)
    IN node

RootOfPath(leaf, path) == NodesOfPath(leaf, path)[AllowlistDepth]

ProvablyChanged(mask, root, current, path, i) ==
    /\ i \in mask
    /\ RootOfPath(Leaf(i, current[i]), path) = root

(* certified and current are the digests of the values; the mask has a bit *)
(* per field and an index AllowlistDepth bits, changed or not.             *)
AssertManifestVersionPolicy(mask, root, certified, current, paths) ==
    /\ mask \subseteq Fields
    /\ \A i \in Fields :
        /\ paths[i].index \in 0..(Capacity - 1)
        /\ \/ certified[i] = current[i]
           \/ ProvablyChanged(mask, root, current, paths[i], i)
=============================================================================
