------------------------------ MODULE Issuance ------------------------------
(***************************************************************************)
(* The input gateway and the committee together, from the receipts that    *)
(* providers sign to the certificate: what enroll of cmd/agent and         *)
(* NewWorldWith of internal/demo put together.  The committee takes        *)
(* ValidatedReceipts, which only the gateway can make.                     *)
(*                                                                         *)
(* A requester may put any validated receipts into a request, in any       *)
(* order, for any epoch, also one receipt twice, and may have further      *)
(* receipts validated after an issuance, whether it failed or not.  Both   *)
(* parts run in one goroutine.                                             *)
(***************************************************************************)
EXTENDS Committee

CONSTANTS
    Identities, Names, NodeID, Registry, ReceiptIDs, Ratings, NoSignature,
    Offers,         \* the receipts that identities may sign: a small set
    MaxTime, MaxReceipts

VARIABLES now, signatures, usedReceiptIDs, issuerEpochKeys, validated

Gateway == INSTANCE InputGateway

(* What the gateway assumes of its constants; and the committee can be     *)
(* handed any receipt that the gateway lets through.                       *)
ASSUME IssuanceConstants ==
    /\ NodeID \in [Identities -> Names]
    /\ DOMAIN Registry \subseteq Names
    /\ \A name \in DOMAIN Registry : Registry[name] \in Identities
    /\ Ratings \subseteq Int
    /\ MaxTime \in Nat
    /\ MaxReceipts \in Nat
    /\ NoSignature \notin Gateway!Signature
    /\ Offers \subseteq
        [issuer : Identities, id : ReceiptIDs, subject : Subjects, rating : Ratings,
         expires : 0..MaxTime]
    /\ [receiptID : ReceiptIDs, issuer : DOMAIN Registry, subject : Subjects,
        rating : {rating \in Ratings : Gateway!InRange(rating)}, epoch : Epochs]
        \subseteq Receipts

gatewayVars == <<now, signatures, usedReceiptIDs, issuerEpochKeys, validated>>
committeeVars == <<partials, call, certificates>>
allVars == <<gatewayVars, committeeVars>>

(* What Receipt and AggregationEpoch return for a validated receipt.       *)
Handed(v) ==
    [receiptID |-> v.body.receiptID, issuer |-> v.body.issuerID,
     subject |-> v.body.subject, rating |-> v.body.rating, epoch |-> v.epoch]

HandedOn == {Handed(v) : v \in Range(validated)}

(* Mutant: receipts reach the committee past the gateway.                  *)
RequestsUnchecked ==
    [receipts : UNION {[1..n -> {[receiptID |-> sig.body.receiptID,
                                  issuer |-> sig.body.issuerID,
                                  subject |-> sig.body.subject,
                                  rating |-> sig.body.rating,
                                  epoch |-> e] : sig \in signatures, e \in Epochs}] :
                        n \in 0..MaxBatch},
     epoch : Epochs]

Requests ==
    [receipts : UNION {[1..n -> HandedOn] : n \in 0..MaxBatch}, epoch : Epochs]

IssuanceInit == Gateway!Init /\ Init

(* A receipt that is not submitted as it was signed is turned down and     *)
(* changes nothing (InputGateway, ReceiptSignature).                       *)
Submissions == {[body |-> sig.body, signature |-> sig] : sig \in signatures}

GatewayStep ==
    /\ call = Idle
    /\ \/ \E o \in Offers :
            \/ Gateway!IssueReceipt(o.issuer, o.id, o.subject, o.rating, o.expires)
            \/ Gateway!SignUnchecked(o.issuer, o.id, o.subject, o.rating, o.expires)
       \/ \E r \in Submissions, epoch \in Epochs :
            Gateway!ValidateReceipt(r, epoch)
       \/ Gateway!Tick
    /\ UNCHANGED committeeVars

CommitteeStep ==
    /\ \/ \E req \in Requests : RefuseRequest(req) \/ RefuseBatch(req) \/ Begin(req)
       \/ \E r1 \in Random, r2 \in Random : ShareNext(r1, r2)
       \/ RandomFails
       \/ HashFails
       \/ Certify
    /\ UNCHANGED gatewayVars

IssuanceNext == GatewayStep \/ CommitteeStep

IssuanceSpec == IssuanceInit /\ [][IssuanceNext]_allVars

-----------------------------------------------------------------------------
(* The certificates in the terms of Attestation.  A requester that lists a *)
(* receipt twice gets a certificate that counts it twice, as nothing in    *)
(* IssueScoreCertificate refuses it; both callers list each receipt once.  *)
ListedOnce == {i \in DOMAIN certificates : IsInjective(certificates[i].receipts)}

Given(r) ==
    [receiptID |-> r.receiptID, issuer |-> r.issuer, subject |-> r.subject,
     rating |-> r.rating]

Genuine(sig) ==
    /\ sig.body.issuerID \in DOMAIN Registry
    /\ sig.key = Registry[sig.body.issuerID]
    /\ Gateway!InRange(sig.body.rating)

GivenReceipts ==
    {[receiptID |-> sig.body.receiptID, issuer |-> sig.body.issuerID,
      subject |-> sig.body.subject, rating |-> sig.body.rating] :
        sig \in {s \in signatures : Genuine(s)}}

Attestations ==
    {[subject |-> certificates[i].batch[1], epoch |-> certificates[i].batch[2],
      score |-> certificates[i].score, receiptCount |-> certificates[i].receiptCount,
      receipts |-> {Given(r) : r \in Range(certificates[i].receipts)}] :
        i \in ListedOnce}

Abstract == INSTANCE Attestation WITH
    Providers <- DOMAIN Registry,
    Scale <- {rating \in Ratings : Gateway!InRange(rating)},
    given <- GivenReceipts,
    attested <- Attestations

(* Whatever was submitted, refused, repeated or left half done before, a   *)
(* certificate whose request lists each receipt once is an attestation:    *)
(* its score and count are those of genuine receipts, one per registered   *)
(* provider, that count in no other certificate.                           *)
ImplementsAttestation == Abstract!Spec
=============================================================================
