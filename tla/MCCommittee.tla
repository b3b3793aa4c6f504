---------------------------- MODULE MCCommittee ----------------------------
(* Two receipts of one batch, and one whose domain is no canonical field   *)
(* element.  P exceeds every total.                                        *)
EXTENDS Committee

CONSTANTS s1, s2, e1, e2, i1, i2

Validated(issuer, subject, epoch, rating) ==
    [issuer |-> issuer, subject |-> subject, epoch |-> epoch, rating |-> rating]

MCSubjects == {s1, s2}
MCEpochs == {e1, e2}
MCReceipts == {Validated(i1, s1, e1, 1), Validated(i2, s1, e1, 2),
               Validated(i1, s2, e1, 1)}
MCCanonical == {<<s1, e1>>, <<s1, e2>>}
=============================================================================
