---------------------------- MODULE Attestation ----------------------------
(***************************************************************************)
(* What a committee's certificates promise to the services that trust it:  *)
(* an attestation is about one subject and one epoch and the only one of   *)
(* them, and its score and count are those of receipts that registered     *)
(* providers gave, at most one of each provider, none of which counts in   *)
(* another attestation.  Nothing is said of signatures, submissions,       *)
(* tables, shares or nodes; Issuance implements this specification.        *)
(***************************************************************************)
EXTENDS Integers, FiniteSets, FiniteSetsExt

CONSTANTS
    Providers,      \* the registered providers
    ReceiptIDs,
    Subjects,       \* passport, manifest and domain
    Epochs,
    Scale           \* the ratings a provider may give

GivenReceipt == [receiptID : ReceiptIDs, issuer : Providers, subject : Subjects,
                 rating : Scale]

VARIABLES
    given,      \* the receipts that registered providers gave
    attested    \* the attestations, each with the receipts it rests on

vars == <<given, attested>>

Init == given = {} /\ attested = {}

Give ==
    /\ given \subseteq given'
    /\ given' \subseteq GivenReceipt
    /\ UNCHANGED attested

TotalOf(receipts) == MapThenSumSet(LAMBDA r : r.rating, receipts)

Attest(subject, epoch, receipts) ==
    /\ receipts # {}
    /\ \A r \in receipts : r.subject = subject
    /\ \A r, s \in receipts : r.issuer = s.issuer => r = s
    /\ \A a \in attested :
        /\ <<a.subject, a.epoch>> # <<subject, epoch>>
        /\ a.receipts \cap receipts = {}
    /\ attested' = attested \cup
            {[subject |-> subject, epoch |-> epoch, score |-> TotalOf(receipts),
              receiptCount |-> Cardinality(receipts), receipts |-> receipts]}
    /\ UNCHANGED given

Next ==
    \/ Give
    \/ \E subject \in Subjects, epoch \in Epochs, receipts \in SUBSET given :
        Attest(subject, epoch, receipts)

Spec == Init /\ [][Next]_vars
=============================================================================
