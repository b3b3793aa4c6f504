----------------------------- MODULE Committee -----------------------------
(***************************************************************************)
(* passport/committee.go: three nodes hold additive shares of ratings,     *)
(* sum them per batch, and a quorum of them signs a certificate over the   *)
(* total.                                                                  *)
(*                                                                         *)
(* A node is not safe for concurrent use, so one issuance runs at a time.  *)
(* It is split into steps only where the code can return an error in the   *)
(* middle: the steps behind it stay done.                                  *)
(*                                                                         *)
(* Subjects and epochs are the strings that name them, as the key of a     *)
(* batch is.  ToBig reads a number with a sign or with leading zeros too,  *)
(* so two of them may be one field element; nothing here depends on that.  *)
(***************************************************************************)
EXTENDS Integers, Sequences, FiniteSets, Functions

CONSTANTS
    Subjects,       \* passport, manifest and domain of a receipt
    Epochs,         \* aggregation epochs
    Receipts,       \* validated receipts
    Canonical,      \* batches whose key consists of canonical field elements
    P,              \* field modulus
    NoEntry,        \* no entry in a node's table
    Idle,           \* no issuance is running
    RandomMayFail,  \* whether the random source may fail
    MaxBatch        \* bound on the receipts of a request

CommitteeSize == 3
Quorum == 2
Nodes == 1..CommitteeSize
Field == 0..(P - 1)

(* One passport, manifest, domain and epoch.                               *)
Batches == Subjects \X Epochs

ASSUME CommitteeConstants ==
    /\ \A r \in Receipts :
        r.subject \in Subjects /\ r.epoch \in Epochs /\ r.rating \in Nat
    /\ P \in Nat \ {0}
    /\ NoEntry \notin Field
    /\ Idle \notin [receipts : Seq(Receipts), epoch : Epochs, shared : Nat]

BatchKey(receipt, epoch) == <<receipt.subject, epoch>>
BatchOf(req) == BatchKey(req.receipts[1], req.epoch)

AggregationRequest ==
    [receipts : UNION {[1..n -> Receipts] : n \in 0..MaxBatch}, epoch : Epochs]

(* The ratings of the first receipts added up, for every number of them.   *)
RunningTotal(receipts) ==
    LET total[n \in 0..Len(receipts)] ==
            IF n = 0 THEN 0 ELSE total[n - 1] + receipts[n].rating
    IN total
TotalRating(receipts) == RunningTotal(receipts)[Len(receipts)]

(* Ratings are at most 5 and the modulus has 254 bits.                     *)
ASSUME TotalsFit == \A req \in AggregationRequest : TotalRating(req.receipts) < P

-----------------------------------------------------------------------------
(* The field.  Random never returns zero.                                  *)
(* Mutant: a sum that is not reduced into the field.                       *)
AddUnreduced(a, b) == a + b

Add(a, b) == (a + b) % P
Sub(a, b) == (a - b) % P
Random == 1..(P - 1)

(* Mutant: one random share is used twice.                                 *)
ShareWithOneRandom(rating, s1, s2) == <<s1, s1, Sub(Sub(rating, s1), s1)>>

(* rating = s1 + s2 + s3                                                   *)
ShareRating(rating, s1, s2) == <<s1, s2, Sub(Sub(rating, s1), s2)>>

-----------------------------------------------------------------------------
VARIABLES
    partials,       \* partials[n][b]: node n's partial sum of batch b
    call,           \* the issuance that is running, or Idle
    certificates    \* history: the certificates issued, in order

vars == <<partials, call, certificates>>

Init ==
    /\ partials = [n \in Nodes |-> [b \in Batches |-> NoEntry]]
    /\ call = Idle
    /\ certificates = <<>>

HasBatch(n, b) == partials[n][b] # NoEntry

PartialSum(n, b) == IF HasBatch(n, b) THEN partials[n][b] ELSE 0

(* Mutant: a share replaces the running total.                             *)
Replace(b, shares) ==
    [n \in Nodes |-> [partials[n] EXCEPT ![b] = shares[n]]]

Accumulate(b, shares) ==
    [n \in Nodes |-> [partials[n] EXCEPT ![b] = Add(PartialSum(n, b), shares[n])]]

(* Every receipt was validated for the epoch and is about one subject.     *)
Matches(req) ==
    \A i \in DOMAIN req.receipts :
        /\ req.receipts[i].epoch = req.epoch
        /\ req.receipts[i].subject = req.receipts[1].subject

(* An issuance of which so many receipts are shared.                       *)
Issuing(req, shared) ==
    [receipts |-> req.receipts, epoch |-> req.epoch, shared |-> shared]

(* An empty or mixed request is refused before anything is touched.        *)
RefuseRequest(req) ==
    /\ call = Idle
    /\ req.receipts = <<>> \/ ~Matches(req)
    /\ UNCHANGED vars

(* ErrBatchAlreadyIssued: some node holds shares of the batch.             *)
AlreadyIssued(b) == \E n \in Nodes : HasBatch(n, b)

RefuseBatch(req) ==
    /\ call = Idle
    /\ req.receipts # <<>> /\ Matches(req)
    /\ AlreadyIssued(BatchOf(req))
    /\ UNCHANGED vars

(* Mutant: nothing asks whether the batch was aggregated before.           *)
BeginAgain(req) ==
    /\ call = Idle
    /\ req.receipts # <<>> /\ Matches(req)
    /\ call' = Issuing(req, 0)
    /\ UNCHANGED <<partials, certificates>>

(* Mutant: receipts of other epochs and subjects are let through.          *)
BeginMixed(req) ==
    /\ call = Idle
    /\ req.receipts # <<>>
    /\ ~AlreadyIssued(BatchOf(req))
    /\ call' = Issuing(req, 0)
    /\ UNCHANGED <<partials, certificates>>

Begin(req) ==
    /\ call = Idle
    /\ req.receipts # <<>> /\ Matches(req)
    /\ ~AlreadyIssued(BatchOf(req))
    /\ call' = Issuing(req, 0)
    /\ UNCHANGED <<partials, certificates>>

(* One round of the sharing loop: the next rating is split, and node n     *)
(* accumulates share n.                                                    *)
ShareNext(s1, s2) ==
    /\ call # Idle
    /\ call.shared < Len(call.receipts)
    /\ LET rating == call.receipts[call.shared + 1].rating
       IN /\ partials' = Accumulate(BatchOf(call), ShareRating(rating, s1, s2))
          /\ call' = Issuing(call, call.shared + 1)
    /\ UNCHANGED certificates

(* No random element can be drawn: for a share, a salt or an identifier.   *)
RandomFails ==
    /\ RandomMayFail
    /\ call # Idle
    /\ call' = Idle
    /\ UNCHANGED <<partials, certificates>>

(* CertificateHash fails on a field that is no canonical element.          *)
HashFails ==
    /\ call # Idle
    /\ call.shared = Len(call.receipts)
    /\ BatchOf(call) \notin Canonical
    /\ call' = Idle
    /\ UNCHANGED <<partials, certificates>>

(* Mutant: one node's partial sum is left out.                             *)
TwoNodeScore(b) == Add(PartialSum(1, b), PartialSum(2, b))

(* Reconstruct the total from the partial sums.                            *)
Score(b) == Add(Add(PartialSum(1, b), PartialSum(2, b)), PartialSum(3, b))

(* The first Quorum nodes sign.                                            *)
Certify ==
    /\ call # Idle
    /\ call.shared = Len(call.receipts)
    /\ BatchOf(call) \in Canonical
    /\ certificates' = Append(certificates,
            [batch |-> BatchOf(call), score |-> Score(BatchOf(call)),
             receiptCount |-> Len(call.receipts), signers |-> 1..Quorum,
             receipts |-> call.receipts])
    /\ call' = Idle
    /\ UNCHANGED partials

Next ==
    \/ \E req \in AggregationRequest :
        RefuseRequest(req) \/ RefuseBatch(req) \/ Begin(req)
    \/ \E s1 \in Random, s2 \in Random : ShareNext(s1, s2)
    \/ RandomFails
    \/ HashFails
    \/ Certify

Spec == Init /\ [][Next]_vars

-----------------------------------------------------------------------------
Call == [receipts : Seq(Receipts), epoch : Epochs, shared : Nat]
Certificate ==
    [batch : Batches, score : Field, receiptCount : Nat, signers : SUBSET Nodes,
     receipts : Seq(Receipts)]

(* Types of the nodes' tables, the running call and the output.            *)
TypeOK ==
    /\ partials \in [Nodes -> [Batches -> Field \cup {NoEntry}]]
    /\ call \in Call \cup {Idle}
    /\ certificates \in Seq(Certificate)

(* The total that the nodes sign is the total of the receipts of exactly   *)
(* this request, although each node saw only random shares, although the   *)
(* partial sums are running totals, and whatever issuances failed before.  *)
ScoreIsTotalRating ==
    \A i \in DOMAIN certificates :
        LET cert == certificates[i]
        IN /\ cert.score = TotalRating(cert.receipts)
           /\ cert.receiptCount = Len(cert.receipts)

(* ... and all of them are about the passport, manifest, domain and epoch  *)
(* the certificate names.                                                  *)
CertificatesAreUnmixed ==
    \A i \in DOMAIN certificates :
        \A j \in DOMAIN certificates[i].receipts :
            LET r == certificates[i].receipts[j]
            IN <<r.subject, r.epoch>> = certificates[i].batch

(* A batch is certified at most once.                                      *)
OneCertificatePerBatch ==
    \A i, j \in DOMAIN certificates :
        certificates[i].batch = certificates[j].batch => i = j

(* Two nodes that put together what they hold of the first rating of a     *)
(* batch can rule out at most one value (one, as no random share is zero). *)
Splits(rating) == {ShareRating(rating, s1, s2) : s1 \in Random, s2 \in Random}

TwoSharesHideRating ==
    call # Idle /\ call.shared = 1 =>
        \A m, n \in Nodes :
            LET held == <<partials[m][BatchOf(call)], partials[n][BatchOf(call)]>>
            IN m < n =>
                Cardinality({r \in Field :
                    \A s \in Splits(r) : <<s[m], s[n]>> # held}) <= 1

(* committee.go:30, the text of ErrBatchAlreadyIssued: "a certificate was  *)
(* already issued for this aggregation batch".  RefuseBatch would be taken *)
(* in this state by a request for the batch.                               *)
RefusedBatchesHaveCertificate ==
    call = Idle =>
        \A b \in Batches :
            AlreadyIssued(b) => \E i \in DOMAIN certificates : certificates[i].batch = b
=============================================================================
