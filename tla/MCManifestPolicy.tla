-------------------------- MODULE MCManifestPolicy --------------------------
(* Two fields and a tree of four leaves.  The version policies are strict, *)
(* list one field or both, fill the tree exactly, do so in another order   *)
(* and with a repetition, and list one entry too many.  Policies spell     *)
(* their task domain in two ways.                                          *)
EXTENDS ManifestPolicy

CONSTANTS a, b, c, d1, plusD1

Two(x, y) == [i \in Fields |-> IF i = 0 THEN x ELSE y]

MCValues == {a, b, c}
MCManifests == {Two(a, a), Two(b, a), Two(b, c)}
MCReads == [e \in {plusD1} |-> d1]
MCTerms == [taskDomain : {d1, plusD1}]
MCVersionPolicies ==
    {Two(<<>>, <<>>), Two(<<a, b>>, <<>>), Two(<<b>>, <<>>), Two(<<>>, <<b>>), Two(<<a, b>>, <<b, c>>),
     Two(<<b, a, b>>, <<b, c>>), Two(<<a, b, c>>, <<a, b>>)}
=============================================================================
