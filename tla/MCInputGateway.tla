--------------------------- MODULE MCInputGateway ---------------------------
(* Two registered issuers, one identity that goes by the name of one of    *)
(* them and one that nobody registered; two identifiers, subjects and      *)
(* epochs; a rating in range and one out of range.                         *)
EXTENDS InputGateway, TLC

CONSTANTS a, b, impostor, stranger, alice, bob, mallory, r1, r2, s1, s2, e1, e2

MCIdentities == {a, b, impostor, stranger}
MCNames == {alice, bob, mallory}
MCNodeID == a :> alice @@ b :> bob @@ impostor :> alice @@ stranger :> mallory
MCRegistry == alice :> a @@ bob :> b
MCReceiptIDs == {r1, r2}
MCSubjects == {s1, s2}
MCRatings == {5, 6}
MCEpochs == {e1, e2}

Symmetry == Permutations(MCReceiptIDs) \cup Permutations(MCSubjects)
                \cup Permutations(MCEpochs)
=============================================================================
