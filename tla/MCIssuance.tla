----------------------------- MODULE MCIssuance -----------------------------
(* Two registered providers and an impostor under the name of one of them.  *)
(* They offer two receipts that fit together, a second one of the first     *)
(* provider, one about a subject whose domain is no canonical element and   *)
(* with an identifier that is taken, an impostor's, and one out of range.   *)
(* P exceeds every total of a batch.                                        *)
EXTENDS Issuance, TLC

CONSTANTS a, b, impostor, alice, bob, r1, r2, s1, s2, e1, e2

MCIdentities == {a, b, impostor}
MCNames == {alice, bob}
MCNodeID == a :> alice @@ b :> bob @@ impostor :> alice
MCRegistry == alice :> a @@ bob :> b
MCReceiptIDs == {r1, r2}
MCSubjects == {s1, s2}
MCRatings == {1, 2, 6}
MCEpochs == {e1, e2}
MCCanonical == {s1} \X MCEpochs

Offer(issuer, id, subject, rating) ==
    [issuer |-> issuer, id |-> id, subject |-> subject, rating |-> rating,
     expires |-> 0]
MCOffers ==
    {Offer(a, r1, s1, 2), Offer(b, r2, s1, 1), Offer(a, r2, s1, 1),
     Offer(b, r2, s2, 1), Offer(impostor, r2, s1, 2), Offer(b, r1, s1, 6)}

MCReceipts ==
    [receiptID : MCReceiptIDs, issuer : MCNames, subject : MCSubjects,
     rating : {1, 2}, epoch : MCEpochs]

Symmetry == Permutations(MCEpochs)
=============================================================================
