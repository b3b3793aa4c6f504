---------------------------- MODULE InputGateway ----------------------------
(***************************************************************************)
(* passport/receipt.go and passport/gateway.go: task providers sign        *)
(* receipts about an agent, and the gateway decides which of them are      *)
(* aggregated.                                                             *)
(*                                                                         *)
(* Data.  A subject is what a receipt is about: passport commitment,       *)
(* manifest commitment and task domain.  A signature is ideal: it is the   *)
(* pair of the key that made it and the body it was made over.             *)
(***************************************************************************)
EXTENDS CheckReport, FiniteSets

CONSTANTS
    Identities,     \* key pairs
    Names,          \* node identifiers
    NodeID,         \* NodeID[i]: the name identity i goes by
    Registry,       \* issuer registry: registered name -> identity
    ReceiptIDs,     \* identifiers chosen by the issuers
    Subjects,       \* passport, manifest and domain
    Ratings,        \* ratings a provider may write down
    Epochs,         \* aggregation epochs
    NoSignature,    \* a signature nobody made
    MaxTime,        \* bound on the clock
    MaxReceipts     \* bound on the receipts signed

RatingMin == 1
RatingMax == 5

ASSUME GatewayConstants ==
    /\ NodeID \in [Identities -> Names]
    /\ DOMAIN Registry \subseteq Names
    /\ \A name \in DOMAIN Registry : Registry[name] \in Identities
    /\ Ratings \subseteq Int
    /\ MaxTime \in Nat
    /\ MaxReceipts \in Nat

(* The signed content of a receipt.                                        *)
Body == [receiptID : ReceiptIDs, subject : Subjects, rating : Ratings,
         expiresAt : 0..MaxTime, issuerID : Names]
Signature == [key : Identities, body : Body]

ASSUME SignatureAssumption == NoSignature \notin Signature

Receipt == [body : Body, signature : Signature \cup {NoSignature}]

Slots == Names \X Subjects \X Epochs

(* Mutant: the slot of an issuer forgets what the receipt is about.        *)
SlotWithoutSubject(body, epoch) == <<body.issuerID, epoch>>

(* What an issuer may fill once: one passport, manifest, domain and epoch. *)
IssuerEpochKey(body, epoch) == <<body.issuerID, body.subject, epoch>>

-----------------------------------------------------------------------------
VARIABLES
    now,                \* the time a call is given
    signatures,         \* the signatures that exist
    usedReceiptIDs,     \* identifiers of consumed receipts
    issuerEpochKeys,    \* slots that were filled
    validated           \* the receipts handed on, in order, with their epoch

vars == <<now, signatures, usedReceiptIDs, issuerEpochKeys, validated>>

Init ==
    /\ now = 0
    /\ signatures = {}
    /\ usedReceiptIDs = {}
    /\ issuerEpochKeys = {}
    /\ validated = <<>>

InRange(rating) == rating >= RatingMin /\ rating <= RatingMax

Sign(issuer, id, subject, rating, expires) ==
    /\ Cardinality(signatures) < MaxReceipts
    /\ signatures' = signatures \cup
            {[key |-> issuer,
              body |-> [receiptID |-> id, subject |-> subject, rating |-> rating,
                        expiresAt |-> expires, issuerID |-> NodeID[issuer]]]}
    /\ UNCHANGED <<now, usedReceiptIDs, issuerEpochKeys, validated>>

(* IssueReceipt refuses a rating out of range and signs any other.         *)
IssueReceipt(issuer, id, subject, rating, expires) ==
    /\ InRange(rating)
    /\ Sign(issuer, id, subject, rating, expires)

(* Environment: a provider that signs a receipt without IssueReceipt, and  *)
(* so without its range check.                                             *)
SignUnchecked(issuer, id, subject, rating, expires) ==
    /\ ~InRange(rating)
    /\ Sign(issuer, id, subject, rating, expires)

-----------------------------------------------------------------------------
(* ValidateReceiptReport: the six checks, each as the error it returns.    *)
IssuerRegistered(body) ==
    IF body.issuerID \notin DOMAIN Registry THEN "ErrIssuerNotRegistered" ELSE NoError

(* Mutant: the key that signed is not compared with the registered one.    *)
SignedByAnyone(r) ==
    IF r.signature # NoSignature /\ r.signature.body = r.body
    THEN NoError ELSE "ErrReceiptSignature"

ReceiptSignature(r) ==
    IF /\ r.body.issuerID \in DOMAIN Registry
       /\ r.signature = [key |-> Registry[r.body.issuerID], body |-> r.body]
    THEN NoError ELSE "ErrReceiptSignature"

ReceiptUnexpired(body) ==
    IF body.expiresAt < now THEN "ErrReceiptExpired" ELSE NoError

RatingRange(body) ==
    IF body.rating < RatingMin \/ body.rating > RatingMax
    THEN "ErrRatingRange" ELSE NoError

(* Mutant: identifiers are remembered by the issuer's slots only.          *)
ReceiptNeverUsed(body) == NoError

ReceiptUnused(body) ==
    IF body.receiptID \in usedReceiptIDs THEN "ErrReceiptReused" ELSE NoError

(* Mutant: an issuer contributes as often as it has receipts.              *)
IssuerAnyNumberOfTimes(body, epoch) == NoError

IssuerOncePerEpoch(body, epoch) ==
    IF IssuerEpochKey(body, epoch) \in issuerEpochKeys
    THEN "ErrIssuerAlreadyContributed" ELSE NoError

Outcomes(r, epoch) ==
    <<IssuerRegistered(r.body),
      ReceiptSignature(r),
      ReceiptUnexpired(r.body),
      RatingRange(r.body),
      ReceiptUnused(r.body),
      IssuerOncePerEpoch(r.body, epoch)>>

Valid(r, epoch) == Passed(Outcomes(r, epoch))

Accept(r, epoch) ==
    /\ Valid(r, epoch)
    /\ usedReceiptIDs' = usedReceiptIDs \cup {r.body.receiptID}
    /\ issuerEpochKeys' = issuerEpochKeys \cup {IssuerEpochKey(r.body, epoch)}
    /\ validated' = Append(validated, [body |-> r.body, epoch |-> epoch, at |-> now])
    /\ UNCHANGED <<now, signatures>>

(* Mutant: the slot is taken before the last check had its say.            *)
RejectAndTakeSlot(r, epoch) ==
    /\ ~Valid(r, epoch)
    /\ issuerEpochKeys' = issuerEpochKeys \cup {IssuerEpochKey(r.body, epoch)}
    /\ UNCHANGED <<now, signatures, usedReceiptIDs, validated>>

Reject(r, epoch) ==
    /\ ~Valid(r, epoch)
    /\ UNCHANGED vars

ValidateReceipt(r, epoch) == Accept(r, epoch) \/ Reject(r, epoch)

Tick ==
    /\ now < MaxTime
    /\ now' = now + 1
    /\ UNCHANGED <<signatures, usedReceiptIDs, issuerEpochKeys, validated>>

(* What may be submitted: any content, with any signature there is.        *)
Submissions == [body : Body, signature : signatures \cup {NoSignature}]

Next ==
    \/ \E i \in Identities, id \in ReceiptIDs, s \in Subjects, rating \in Ratings,
          expires \in 0..MaxTime :
        \/ IssueReceipt(i, id, s, rating, expires)
        \/ SignUnchecked(i, id, s, rating, expires)
    \/ \E r \in Submissions, epoch \in Epochs : ValidateReceipt(r, epoch)
    \/ Tick

Spec == Init /\ [][Next]_vars

-----------------------------------------------------------------------------
ValidatedReceipt == [body : Body, epoch : Epochs, at : 0..MaxTime]

(* Types of the gateway's tables and of what it hands on.                  *)
TypeOK ==
    /\ now \in 0..MaxTime
    /\ signatures \subseteq Signature
    /\ usedReceiptIDs \subseteq ReceiptIDs
    /\ issuerEpochKeys \subseteq Slots
    /\ validated \in Seq(ValidatedReceipt)

(* One issuer fills one slot once: no two validated receipts share issuer, *)
(* subject and epoch (the comment on issuerEpochKey).                      *)
OneReceiptPerSlot ==
    \A i, j \in DOMAIN validated :
        /\ validated[i].body.issuerID = validated[j].body.issuerID
        /\ validated[i].body.subject = validated[j].body.subject
        /\ validated[i].epoch = validated[j].epoch
        => i = j

(* A receipt is handed on once, in whatever epochs it is submitted.        *)
NoReceiptTwice ==
    \A i, j \in DOMAIN validated :
        validated[i].body.receiptID = validated[j].body.receiptID => i = j

(* What is handed on was signed, as it stands, by the key registered for   *)
(* the issuer it names; it was alive and its rating in range.              *)
ValidatedAreGenuine ==
    \A i \in DOMAIN validated :
        LET v == validated[i]
        IN /\ v.body.issuerID \in DOMAIN Registry
           /\ [key |-> Registry[v.body.issuerID], body |-> v.body] \in signatures
           /\ v.at <= v.body.expiresAt
           /\ v.body.rating \in RatingMin..RatingMax

(* "A receipt that fails any check leaves no state behind": a genuine live *)
(* receipt is refused only because of one that was accepted before, with   *)
(* the same identifier or in the same slot.                                *)
OnlyAcceptedReceiptsBlock ==
    \A sig \in signatures, epoch \in Epochs :
        LET body == sig.body
        IN /\ body.issuerID \in DOMAIN Registry
           /\ sig.key = Registry[body.issuerID]
           /\ now <= body.expiresAt
           /\ InRange(body.rating)
           /\ ~Valid([body |-> body, signature |-> sig], epoch)
           => \E i \in DOMAIN validated :
                \/ validated[i].body.receiptID = body.receiptID
                \/ /\ validated[i].body.issuerID = body.issuerID
                   /\ validated[i].body.subject = body.subject
                   /\ validated[i].epoch = epoch
=============================================================================
