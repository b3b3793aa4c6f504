------------------------- MODULE InputGatewayProofs -------------------------
(***************************************************************************)
(* The gateway's promises for any registry, any receipts and any number of *)
(* submissions.                                                            *)
(***************************************************************************)
EXTENDS InputGateway, SequenceTheorems, TLAPS

(* A receipt is valid exactly if it passes the six checks.                 *)
LEMMA ValidMeans ==
    ASSUME NEW r, NEW epoch
    PROVE  Valid(r, epoch) <=>
                /\ r.body.issuerID \in DOMAIN Registry
                /\ r.signature = [key |-> Registry[r.body.issuerID], body |-> r.body]
                /\ ~(r.body.expiresAt < now)
                /\ ~(r.body.rating < RatingMin \/ r.body.rating > RatingMax)
                /\ r.body.receiptID \notin usedReceiptIDs
                /\ IssuerEpochKey(r.body, epoch) \notin issuerEpochKeys
<1> DEFINE o == Outcomes(r, epoch)
<1>1. /\ Len(o) = 6
      /\ o[1] = IssuerRegistered(r.body)
      /\ o[2] = ReceiptSignature(r)
      /\ o[3] = ReceiptUnexpired(r.body)
      /\ o[4] = RatingRange(r.body)
      /\ o[5] = ReceiptUnused(r.body)
      /\ o[6] = IssuerOncePerEpoch(r.body, epoch)
  BY DEF Outcomes
<1>2. Passed(o) <=> /\ IssuerRegistered(r.body) = NoError
                    /\ ReceiptSignature(r) = NoError
                    /\ ReceiptUnexpired(r.body) = NoError
                    /\ RatingRange(r.body) = NoError
                    /\ ReceiptUnused(r.body) = NoError
                    /\ IssuerOncePerEpoch(r.body, epoch) = NoError
  <2> HIDE DEF o
  <2> QED BY <1>1 DEF Passed
<1> QED BY <1>2 DEF Valid, IssuerRegistered, ReceiptSignature, ReceiptUnexpired,
           RatingRange, ReceiptUnused, IssuerOncePerEpoch, NoError

(* The record Accept appends.                                              *)
Validated(r, epoch) == [body |-> r.body, epoch |-> epoch, at |-> now]

LEMMA BodyTypes ==
    ASSUME TypeOK, NEW body \in Body
    PROVE  /\ body.rating \in Int
           /\ body.expiresAt \in Int
           /\ now \in Int
<1>1. Ratings \subseteq Int /\ MaxTime \in Nat
  BY GatewayConstants
<1>2. body.rating \in Ratings /\ body.expiresAt \in 0..MaxTime
  BY DEF Body
<1>3. now \in 0..MaxTime
  BY DEF TypeOK
<1>4. body.rating \in Int
  BY <1>1, <1>2
<1>5. \A t \in 0..MaxTime : t \in Int
  BY <1>1
<1> QED BY <1>2, <1>3, <1>4, <1>5

LEMMA ValidatedType ==
    ASSUME TypeOK, NEW r \in Submissions, NEW epoch \in Epochs
    PROVE  /\ r.body \in Body
           /\ Validated(r, epoch) \in ValidatedReceipt
           /\ IssuerEpochKey(r.body, epoch) \in Slots
BY DEF Submissions, Validated, ValidatedReceipt, IssuerEpochKey, Slots, Body, TypeOK

LEMMA TypeOKStep == TypeOK /\ [Next]_vars => TypeOK'
<1> SUFFICES ASSUME TypeOK, [Next]_vars PROVE TypeOK'
  OBVIOUS
<1>1. ASSUME NEW i \in Identities, NEW id \in ReceiptIDs, NEW s \in Subjects,
             NEW rating \in Ratings, NEW expires \in 0..MaxTime,
             Sign(i, id, s, rating, expires)
      PROVE  TypeOK'
  BY <1>1, GatewayConstants DEF Sign, TypeOK, Signature, Body
<1>2. ASSUME NEW r \in Submissions, NEW epoch \in Epochs, Accept(r, epoch)
      PROVE  TypeOK'
  <2>1. /\ r.body.receiptID \in ReceiptIDs
        /\ IssuerEpochKey(r.body, epoch) \in Slots
        /\ Validated(r, epoch) \in ValidatedReceipt
    BY ValidatedType DEF Body
  <2>2. validated' = Append(validated, Validated(r, epoch))
    BY <1>2 DEF Accept, Validated
  <2>3. validated' \in Seq(ValidatedReceipt)
    BY <2>1, <2>2 DEF TypeOK
  <2> QED BY <1>2, <2>1, <2>3 DEF Accept, TypeOK
<1>3. ASSUME NEW r \in Submissions, NEW epoch \in Epochs, Reject(r, epoch)
      PROVE  TypeOK'
  BY <1>3 DEF Reject, vars, TypeOK
<1>4. CASE Tick
  BY <1>4, GatewayConstants DEF Tick, TypeOK
<1>5. CASE UNCHANGED vars
  BY <1>5 DEF vars, TypeOK
<1> QED BY <1>1, <1>2, <1>3, <1>4, <1>5
        DEF Next, IssueReceipt, SignUnchecked, ValidateReceipt

(* The tables and the output have their types.                             *)
THEOREM TypeCorrect == Spec => []TypeOK
<1>1. Init => TypeOK
  BY GatewayConstants DEF Init, TypeOK
<1> QED BY <1>1, TypeOKStep, PTL DEF Spec

-----------------------------------------------------------------------------
(* The inductive invariant: the two tables hold what was handed on, no     *)
(* less (or a receipt would count twice) and no more (or a rejection would *)
(* block a genuine receipt).                                               *)
TablesMatchOutput ==
    /\ \A i \in 1..Len(validated) :
        /\ validated[i].body.receiptID \in usedReceiptIDs
        /\ IssuerEpochKey(validated[i].body, validated[i].epoch) \in issuerEpochKeys
    /\ \A id \in usedReceiptIDs :
        \E i \in 1..Len(validated) : validated[i].body.receiptID = id
    /\ \A slot \in issuerEpochKeys :
        \E i \in 1..Len(validated) :
            IssuerEpochKey(validated[i].body, validated[i].epoch) = slot

Genuine(v) ==
    /\ v.body.issuerID \in DOMAIN Registry
    /\ [key |-> Registry[v.body.issuerID], body |-> v.body] \in signatures
    /\ v.at <= v.body.expiresAt
    /\ v.body.rating \in RatingMin..RatingMax

AllGenuine == \A i \in 1..Len(validated) : Genuine(validated[i])

Distinct ==
    \A i, j \in 1..Len(validated) :
        \/ i = j
        \/ /\ validated[i].body.receiptID # validated[j].body.receiptID
           /\ IssuerEpochKey(validated[i].body, validated[i].epoch)
                # IssuerEpochKey(validated[j].body, validated[j].epoch)

IInv == TypeOK /\ TablesMatchOutput /\ AllGenuine /\ Distinct

LEMMA AcceptKeepsIInv ==
    ASSUME IInv, NEW r \in Submissions, NEW epoch \in Epochs, Accept(r, epoch), TypeOK'
    PROVE  IInv'
<1> DEFINE n == Len(validated)
           id == r.body.receiptID
           slot == IssuerEpochKey(r.body, epoch)
           v == Validated(r, epoch)
<1>1. /\ v \in ValidatedReceipt
      /\ validated \in Seq(ValidatedReceipt)
      /\ validated' = Append(validated, v)
      /\ usedReceiptIDs' = usedReceiptIDs \cup {id}
      /\ issuerEpochKeys' = issuerEpochKeys \cup {slot}
      /\ signatures' = signatures
  BY ValidatedType DEF IInv, TypeOK, Accept, Validated
<1>2. /\ id \notin usedReceiptIDs
      /\ slot \notin issuerEpochKeys
  BY ValidMeans DEF Accept
<1>3. v.body = r.body /\ v.epoch = epoch /\ v.at = now
  BY DEF Validated
<1>4. Genuine(v)
  <2>1. /\ r.body.issuerID \in DOMAIN Registry
        /\ r.signature = [key |-> Registry[r.body.issuerID], body |-> r.body]
        /\ ~(r.body.expiresAt < now)
        /\ ~(r.body.rating < RatingMin \/ r.body.rating > RatingMax)
    BY ValidMeans DEF Accept
  <2>2. r.body \in Body /\ r.body.rating \in Int /\ r.body.expiresAt \in Int /\ now \in Int
    BY ValidatedType, BodyTypes DEF IInv
  <2>3. r.signature \in Signature
    <3>1. Registry[r.body.issuerID] \in Identities
      BY <2>1, GatewayConstants
    <3> QED BY <2>1, <2>2, <3>1 DEF Signature
  <2>4. r.signature \in signatures
    BY <2>3, SignatureAssumption DEF Submissions
  <2>5. r.body.rating \in RatingMin..RatingMax
    BY <2>1, <2>2 DEF RatingMin, RatingMax
  <2> QED BY <1>3, <2>1, <2>2, <2>4, <2>5 DEF Genuine
<1> HIDE DEF v, id, slot
<1>5. /\ n \in Nat
      /\ Len(validated') = n + 1
      /\ validated'[n + 1] = v
      /\ \A i \in 1..n : validated'[i] = validated[i]
  BY <1>1
<1>6. v.body.receiptID = id /\ IssuerEpochKey(v.body, v.epoch) = slot
  BY <1>3 DEF id, slot
<1>7. TablesMatchOutput'
  <2>1. \A i \in 1..(n + 1) :
            /\ validated'[i].body.receiptID \in usedReceiptIDs'
            /\ IssuerEpochKey(validated'[i].body, validated'[i].epoch) \in issuerEpochKeys'
    BY <1>1, <1>5, <1>6 DEF IInv, TablesMatchOutput
  <2>2. ASSUME NEW x \in usedReceiptIDs'
        PROVE  \E i \in 1..(n + 1) : validated'[i].body.receiptID = x
    <3>1. CASE x = id
      BY <3>1, <1>5, <1>6
    <3>2. CASE x # id
      <4>1. PICK i \in 1..n : validated[i].body.receiptID = x
        BY <3>2, <1>1 DEF IInv, TablesMatchOutput
      <4> QED BY <4>1, <1>5
    <3> QED BY <3>1, <3>2
  <2>3. ASSUME NEW x \in issuerEpochKeys'
        PROVE  \E i \in 1..(n + 1) :
                IssuerEpochKey(validated'[i].body, validated'[i].epoch) = x
    <3>1. CASE x = slot
      BY <3>1, <1>5, <1>6
    <3>2. CASE x # slot
      <4>1. PICK i \in 1..n : IssuerEpochKey(validated[i].body, validated[i].epoch) = x
        BY <3>2, <1>1 DEF IInv, TablesMatchOutput
      <4> QED BY <4>1, <1>5
    <3> QED BY <3>1, <3>2
  <2> QED BY <1>5, <2>1, <2>2, <2>3 DEF TablesMatchOutput
<1>8. AllGenuine'
  <2> SUFFICES ASSUME NEW i \in 1..(n + 1) PROVE Genuine(validated[i])'
    BY <1>5 DEF AllGenuine
  <2>1. CASE i = n + 1
    BY <2>1, <1>1, <1>4, <1>5 DEF Genuine
  <2>2. CASE i # n + 1
    <3>1. i \in 1..n
      BY <2>2, <1>5
    <3>2. Genuine(validated[i])
      BY <3>1 DEF IInv, AllGenuine
    <3> QED BY <3>1, <3>2, <1>1, <1>5 DEF Genuine
  <2> QED BY <2>1, <2>2
<1>9. Distinct'
  <2>1. \A i \in 1..n :
            /\ validated[i].body.receiptID # id
            /\ IssuerEpochKey(validated[i].body, validated[i].epoch) # slot
    BY <1>2 DEF IInv, TablesMatchOutput
  <2> SUFFICES ASSUME NEW i \in 1..(n + 1), NEW j \in 1..(n + 1), i # j
               PROVE  /\ validated'[i].body.receiptID # validated'[j].body.receiptID
                      /\ IssuerEpochKey(validated'[i].body, validated'[i].epoch)
                            # IssuerEpochKey(validated'[j].body, validated'[j].epoch)
    BY <1>5 DEF Distinct
  <2>2. CASE i \in 1..n /\ j \in 1..n
    BY <2>2, <1>5 DEF IInv, Distinct
  <2>3. CASE i = n + 1 /\ j \in 1..n
    BY <2>1, <2>3, <1>5, <1>6
  <2>4. CASE i \in 1..n /\ j = n + 1
    BY <2>1, <2>4, <1>5, <1>6
  <2> QED BY <2>2, <2>3, <2>4, <1>5
<1> QED BY <1>7, <1>8, <1>9 DEF IInv

LEMMA IInvStep == IInv /\ [Next]_vars => IInv'
<1> SUFFICES ASSUME IInv, [Next]_vars PROVE IInv'
  OBVIOUS
<1>1. TypeOK'
  BY TypeOKStep DEF IInv
<1>2. ASSUME NEW i \in Identities, NEW id \in ReceiptIDs, NEW s \in Subjects,
             NEW rating \in Ratings, NEW expires \in 0..MaxTime,
             Sign(i, id, s, rating, expires)
      PROVE  IInv'
  <2>1. /\ signatures \subseteq signatures'
        /\ UNCHANGED <<now, usedReceiptIDs, issuerEpochKeys, validated>>
    BY <1>2 DEF Sign
  <2> QED BY <1>1, <2>1 DEF IInv, TablesMatchOutput, AllGenuine, Genuine, Distinct
<1>3. ASSUME NEW r \in Submissions, NEW epoch \in Epochs, Accept(r, epoch)
      PROVE  IInv'
  BY <1>1, <1>3, AcceptKeepsIInv
<1>4. ASSUME NEW r \in Submissions, NEW epoch \in Epochs, Reject(r, epoch)
      PROVE  IInv'
  BY <1>1, <1>4 DEF Reject, vars, IInv, TablesMatchOutput, AllGenuine, Genuine, Distinct
<1>5. CASE Tick
  BY <1>1, <1>5 DEF Tick, IInv, TablesMatchOutput, AllGenuine, Genuine, Distinct
<1>6. CASE UNCHANGED vars
  BY <1>1, <1>6 DEF vars, IInv, TablesMatchOutput, AllGenuine, Genuine, Distinct
<1> QED BY <1>2, <1>3, <1>4, <1>5, <1>6
        DEF Next, IssueReceipt, SignUnchecked, ValidateReceipt

THEOREM Invariant == Spec => []IInv
<1>1. Init => IInv
  BY GatewayConstants DEF Init, IInv, TypeOK, TablesMatchOutput, AllGenuine, Distinct
<1> QED BY <1>1, IInvStep, PTL DEF Spec

-----------------------------------------------------------------------------
(* One issuer contributes once to a passport, manifest, domain and epoch.  *)
THEOREM SlotsFilledOnce == Spec => []OneReceiptPerSlot
<1>1. IInv => OneReceiptPerSlot
  BY DEF IInv, TypeOK, Distinct, OneReceiptPerSlot, IssuerEpochKey
<1> QED BY <1>1, Invariant, PTL

(* A receipt reaches the committee at most once, over all epochs.          *)
THEOREM ReceiptsUsedOnce == Spec => []NoReceiptTwice
<1>1. IInv => NoReceiptTwice
  BY DEF IInv, TypeOK, Distinct, NoReceiptTwice
<1> QED BY <1>1, Invariant, PTL

(* Only what a registered issuer signed, alive and in range, is handed on. *)
THEOREM OnlyGenuine == Spec => []ValidatedAreGenuine
<1>1. IInv => ValidatedAreGenuine
  BY DEF IInv, TypeOK, AllGenuine, Genuine, ValidatedAreGenuine
<1> QED BY <1>1, Invariant, PTL

(* Rejected receipts leave no state behind that could block a genuine one. *)
THEOREM RejectionsLeaveNothing == Spec => []OnlyAcceptedReceiptsBlock
<1>1. IInv => OnlyAcceptedReceiptsBlock
  <2> SUFFICES ASSUME IInv, NEW sig \in signatures, NEW epoch \in Epochs,
                      sig.body.issuerID \in DOMAIN Registry,
                      sig.key = Registry[sig.body.issuerID],
                      now <= sig.body.expiresAt,
                      InRange(sig.body.rating),
                      ~Valid([body |-> sig.body, signature |-> sig], epoch)
               PROVE  \E i \in 1..Len(validated) :
                        \/ validated[i].body.receiptID = sig.body.receiptID
                        \/ /\ validated[i].body.issuerID = sig.body.issuerID
                           /\ validated[i].body.subject = sig.body.subject
                           /\ validated[i].epoch = epoch
    BY DEF IInv, TypeOK, OnlyAcceptedReceiptsBlock
  <2> DEFINE body == sig.body
             r == [body |-> body, signature |-> sig]
  <2>1. sig \in Signature /\ body \in Body
    BY DEF IInv, TypeOK, Signature
  <2>2. sig = [key |-> Registry[body.issuerID], body |-> body]
    BY <2>1 DEF Signature
  <2>3. body.rating \in Int /\ body.expiresAt \in Int /\ now \in Int
    BY <2>1, BodyTypes DEF IInv
  <2>4. \/ body.receiptID \in usedReceiptIDs
        \/ IssuerEpochKey(body, epoch) \in issuerEpochKeys
    <3>1. r.body = body /\ r.signature = sig
      OBVIOUS
    <3>2. ~(body.expiresAt < now) /\ ~(body.rating < RatingMin \/ body.rating > RatingMax)
      BY <2>3 DEF InRange, RatingMin, RatingMax
    <3> QED BY <2>2, <3>1, <3>2, ValidMeans
  <2>5. CASE body.receiptID \in usedReceiptIDs
    BY <2>5 DEF IInv, TablesMatchOutput
  <2>6. CASE IssuerEpochKey(body, epoch) \in issuerEpochKeys
    <3>1. PICK i \in 1..Len(validated) :
                IssuerEpochKey(validated[i].body, validated[i].epoch)
                    = IssuerEpochKey(body, epoch)
      BY <2>6 DEF IInv, TablesMatchOutput
    <3> QED BY <3>1 DEF IssuerEpochKey
  <2> QED BY <2>4, <2>5, <2>6
<1> QED BY <1>1, Invariant, PTL
=============================================================================
