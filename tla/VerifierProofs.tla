--------------------------- MODULE VerifierProofs ---------------------------
(***************************************************************************)
(* The verifier's promises for any number of services, nonces, policies,   *)
(* agents and keysets, and any clock; and, first, what its reports and the *)
(* gateway's rest on: for any list of checks, however long, the report a   *)
(* CheckRun builds one call at a time is the declarative one.  Last, the   *)
(* browser demo, which shows the verifier's and the gateway's reports.     *)
(***************************************************************************)
EXTENDS Verifier, CheckRun, WebDemo, SequenceTheorems, TLAPS

(* The error of a list of checks is that of the first one that fails.      *)
LEMMA FirstErrorIs ==
    ASSUME NEW list, Len(list) \in Nat, NEW i \in 1..Len(list),
           list[i] # NoError, \A j \in 1..(i - 1) : list[j] = NoError
    PROVE  FirstError(list) = list[i]
<1> DEFINE First(k) == list[k] # NoError /\ \A j \in 1..(k - 1) : list[j] = NoError
<1>1. \A k \in 1..Len(list) : First(k) => k = i
  <2> SUFFICES ASSUME NEW k \in 1..Len(list), First(k) PROVE k = i
    OBVIOUS
  <2>1. ~(k < i)
    <3> SUFFICES ASSUME k < i PROVE FALSE
      OBVIOUS
    <3>1. k \in 1..(i - 1)
      OBVIOUS
    <3> QED BY <3>1
  <2>2. ~(i < k)
    <3> SUFFICES ASSUME i < k PROVE FALSE
      OBVIOUS
    <3>1. i \in 1..(k - 1)
      OBVIOUS
    <3> QED BY <3>1
  <2> QED BY <2>1, <2>2
<1>2. First(i)
  OBVIOUS
<1>3. (CHOOSE k \in 1..Len(list) : First(k)) = i
  <2> HIDE DEF First
  <2> QED BY <1>1, <1>2
<1>4. ~Passed(list)
  BY DEF Passed
<1> QED BY <1>3, <1>4 DEF FirstError

(* What is known of a run between two calls of Do.                         *)
RunInv ==
    /\ RunTypeOK
    /\ Len(checks) = Len(outcomes)
    /\ ReportIsDeclarative
    /\ (err = NoError) <=> Passed(outcomes)
    /\ err # NoError =>
        \E i \in 1..Len(outcomes) :
            /\ outcomes[i] = err
            /\ \A j \in 1..(i - 1) : outcomes[j] = NoError

(* A call of Do, whatever its function returns, keeps the report in step.  *)
LEMMA DoKeepsRunInv ==
    ASSUME RunInv, NEW outcome \in Errors \cup {NoError}, Do(outcome)
    PROVE  RunInv'
<1> DEFINE n == Len(outcomes)
<1>1. /\ checks \in Seq({"ok", "fail", "skipped"})
      /\ err \in Errors \cup {NoError}
      /\ outcomes \in Seq(Errors \cup {NoError})
      /\ Len(checks) = n
      /\ n \in Nat
  BY DEF RunInv, RunTypeOK
<1>2. /\ checks' = Append(checks, StatusOf(outcome))
      /\ err' = ErrorAfter(outcome)
      /\ outcomes' = Append(outcomes, outcome)
  BY DEF Do
<1>3. StatusOf(outcome) \in {"ok", "fail", "skipped"}
  BY DEF StatusOf
<1>4. RunTypeOK'
  BY <1>1, <1>2, <1>3 DEF RunTypeOK, ErrorAfter
<1>5. /\ Len(checks') = n + 1
      /\ Len(outcomes') = n + 1
      /\ outcomes'[n + 1] = outcome
      /\ \A i \in 1..n : outcomes'[i] = outcomes[i]
      /\ checks'[n + 1] = StatusOf(outcome)
      /\ \A i \in 1..n : checks'[i] = checks[i]
  BY <1>1, <1>2, <1>3
<1>6. (err = NoError) <=> \A j \in 1..n : outcomes[j] = NoError
  BY DEF RunInv, Passed
<1>7. Status(outcomes', n + 1) = StatusOf(outcome)
  BY <1>1, <1>5, <1>6 DEF Status, StatusOf
<1>8. \A i \in 1..n : Status(outcomes', i) = Status(outcomes, i)
  BY <1>1, <1>5 DEF Status
<1>9. ReportIsDeclarative'
  <2>1. checks = [i \in 1..n |-> Status(outcomes, i)]
    BY DEF RunInv, ReportIsDeclarative, Report
  <2>2. \A i \in 1..(n + 1) : checks'[i] = Status(outcomes', i)
    BY <1>1, <1>5, <1>7, <1>8, <2>1
  <2>3. checks' = [i \in 1..(n + 1) |-> checks'[i]]
    BY <1>4, <1>5, LenProperties DEF RunTypeOK
  <2>4. checks' = [i \in 1..(n + 1) |-> Status(outcomes', i)]
    BY <2>2, <2>3
  <2> QED BY <2>4, <1>5 DEF ReportIsDeclarative, Report
<1>10. ((err = NoError) <=> Passed(outcomes))'
  BY <1>1, <1>2, <1>5, <1>6 DEF Passed, ErrorAfter
<1>11. (err # NoError =>
        \E i \in 1..Len(outcomes) :
            /\ outcomes[i] = err
            /\ \A j \in 1..(i - 1) : outcomes[j] = NoError)'
  <2>1. CASE err # NoError
    <3>1. PICK i \in 1..n : /\ outcomes[i] = err
                            /\ \A j \in 1..(i - 1) : outcomes[j] = NoError
      BY <2>1 DEF RunInv
    <3>2. err' = err
      BY <2>1, <1>2 DEF ErrorAfter
    <3> QED BY <3>1, <3>2, <1>1, <1>5
  <2>2. CASE err = NoError
    <3>1. err' = outcome
      BY <2>2, <1>2 DEF ErrorAfter
    <3> QED BY <3>1, <2>2, <1>1, <1>5, <1>6
  <2> QED BY <2>1, <2>2
<1> QED BY <1>1, <1>4, <1>5, <1>9, <1>10, <1>11 DEF RunInv

(* CheckRun's report and error are the declarative ones, for every number  *)
(* of checks and every set of failures.                                    *)
THEOREM RunInvariant == RunSpec => []RunInv
<1>1. RunInit => RunInv
  BY DEF RunInit, RunInv, RunTypeOK, ReportIsDeclarative, Report, Passed
<1>2. RunInv /\ [RunNext]_runVars => RunInv'
  <2> SUFFICES ASSUME RunInv, [RunNext]_runVars PROVE RunInv'
    OBVIOUS
  <2>1. CASE RunNext
    BY <2>1, DoKeepsRunInv DEF RunNext
  <2>2. CASE UNCHANGED runVars
    BY <2>2 DEF runVars, RunInv, RunTypeOK, ReportIsDeclarative, Report, Status, Passed
  <2> QED BY <2>1, <2>2
<1> QED BY <1>1, <1>2, PTL DEF RunSpec

(* The comment on CheckRun: one entry per check, in the documented order,  *)
(* skipped after the first failure.                                        *)
THEOREM ReportCorrect == RunSpec => []ReportIsDeclarative
BY RunInvariant, PTL DEF RunInv

(* Err is the failure of the first check that failed.                      *)
THEOREM ErrCorrect == RunSpec => []ErrIsFirstFailure
<1>1. RunInv => ErrIsFirstFailure
  <2> SUFFICES ASSUME RunInv PROVE err = FirstError(outcomes)
    BY DEF ErrIsFirstFailure
  <2>1. CASE Passed(outcomes)
    BY <2>1 DEF RunInv, FirstError
  <2>2. CASE ~Passed(outcomes)
    <3>1. PICK i \in 1..Len(outcomes) :
                outcomes[i] = err /\ \A j \in 1..(i - 1) : outcomes[j] = NoError
      BY <2>2 DEF RunInv
    <3>2. outcomes[i] # NoError /\ Len(outcomes) \in Nat
      BY <2>2, <3>1 DEF RunInv, RunTypeOK
    <3> QED BY <3>1, <3>2, FirstErrorIs
  <2> QED BY <2>1, <2>2
<1> QED BY <1>1, RunInvariant, PTL
-----------------------------------------------------------------------------
(* The entry IssueChallenge records is of the right type.                  *)
LEMMA NewEntryType ==
    ASSUME TypeOK, NEW v \in Verifiers, NEW n \in Nonces, NEW h \in Hashes
    PROVE  /\ NewChallenge(v, n, now) \in Challenge
           /\ NonceKey(NewChallenge(v, n, now)) = <<v, n>>
           /\ <<v, n>> \in Keys
           /\ PendingEntry(NewChallenge(v, n, now), h)
                = [proofExpiresAt |-> now + ChallengeTTL, policyHash |-> h]
           /\ [proofExpiresAt |-> now + ChallengeTTL, policyHash |-> h] \in Pending
<1>1. now + ChallengeTTL \in Expiries
  BY VerifierConstants DEF TypeOK, Expiries
<1> QED BY <1>1 DEF NewChallenge, Challenge, NonceKey, Keys, PendingEntry, Pending

(* What an authorized request is known to be.                              *)
LEMMA AuthorizedRequest ==
    ASSUME TypeOK, NEW v \in Verifiers, NEW req \in Requests,
           Authorized(v, pending[v], used[v], req, now)
    PROVE  LET key == NonceKey(req.challenge)
           IN /\ req.challenge \in Challenge
              /\ req.bundle \in PolicyBundle
              /\ req.nullifier \in Nullifiers
              /\ key \in Keys
              /\ key = <<v, req.challenge.nonce>>
              /\ req.challenge.verifierID = v
              /\ key \notin used[v]
              /\ pending[v][key] \in Pending
              /\ pending[v][key] =
                    [proofExpiresAt |-> req.challenge.proofExpiresAt,
                     policyHash |-> req.bundle.policyHash]
              /\ now <= req.challenge.proofExpiresAt
              /\ req.proof \in proofs
              /\ req.proof \in Statement
              /\ req.proof = BuildStatement(req.bundle, req.challenge,
                                            KeysetOf[v], req.nullifier)
<1> DEFINE ch == req.challenge
           key == NonceKey(ch)
<1>1. /\ ch \in Challenge
      /\ req.bundle \in PolicyBundle
      /\ req.nullifier \in Nullifiers
      /\ req.proof \in proofs \cup {NoProof}
  BY DEF Requests
<1>2. key \in Keys /\ key = <<ch.verifierID, ch.nonce>>
  BY <1>1 DEF Challenge, NonceKey, Keys
<1>3. key \notin used[v]
  BY DEF Authorized, NonceUnused, NoError
<1>4. Recorded(v, pending[v], ch) /\ pending[v][key].policyHash = req.bundle.policyHash
  BY <1>3 DEF Authorized, NonceIssued, NoError
<1>5. pending[v][key] \in Pending
  BY <1>2, <1>4 DEF TypeOK, Recorded
<1>6. pending[v][key] = [proofExpiresAt |-> ch.proofExpiresAt,
                         policyHash |-> req.bundle.policyHash]
  BY <1>4, <1>5 DEF Pending, Recorded
<1>7. now <= ch.proofExpiresAt
  <2>1. ~(ch.proofExpiresAt < now)
    BY DEF Authorized, ProofUnexpired, NoError
  <2>2. ch.proofExpiresAt \in Int /\ now \in Int
    BY <1>1, VerifierConstants DEF Challenge, Expiries, TypeOK
  <2> QED BY <2>1, <2>2
<1>8. /\ req.proof # NoProof
      /\ req.proof = BuildStatement(req.bundle, ch, KeysetOf[v], req.nullifier)
  BY DEF Authorized, ProofValid, NoError
<1>9. req.proof \in proofs /\ req.proof \in Statement
  BY <1>1, <1>8 DEF TypeOK
<1> QED BY <1>1, <1>2, <1>3, <1>4, <1>5, <1>6, <1>7, <1>8, <1>9 DEF Recorded

(* The record Authorize appends to the history.                            *)
GrantOf(v, req) ==
    [verifier |-> v, challenge |-> req.challenge,
     policyHash |-> req.bundle.policyHash,
     nullifier |-> req.nullifier, proof |-> req.proof, at |-> now]

LEMMA GrantOfType ==
    ASSUME TypeOK, NEW v \in Verifiers, NEW req \in Requests,
           Authorized(v, pending[v], used[v], req, now)
    PROVE  GrantOf(v, req) \in GrantRecord
BY AuthorizedRequest DEF GrantOf, GrantRecord, PolicyBundle, TypeOK

-----------------------------------------------------------------------------
LEMMA TypeOKInit == Init => TypeOK
BY VerifierConstants DEF Init, TypeOK, NoEntries

LEMMA TypeOKStep == TypeOK /\ [Next]_vars => TypeOK'
<1> SUFFICES ASSUME TypeOK, [Next]_vars PROVE TypeOK'
  OBVIOUS
<1>1. ASSUME NEW v \in Verifiers, NEW n \in Nonces, NEW h \in Hashes,
             IssueChallenge(v, n, h)
      PROVE  TypeOK'
  BY <1>1, NewEntryType DEF IssueChallenge, TypeOK
<1>2. ASSUME NEW a \in Agents, NEW p \in Policies, NEW ch \in Challenge,
             NEW k \in Keysets, Prove(a, p, ch, k)
      PROVE  TypeOK'
  <2>1. BuildStatement(Published(p), ch, k, Nullifier(a, ch.verifierID)) \in Statement
    BY DEF BuildStatement, Statement, Published, PolicyBundle, Hashes, Nullifiers,
           Challenge
  <2> QED BY <1>2, <2>1 DEF Prove, TypeOK
<1>3. ASSUME NEW v \in Verifiers, NEW req \in Requests, Authorize(v, req)
      PROVE  TypeOK'
  <2>1. Authorized(v, pending[v], used[v], req, now)
    BY <1>3 DEF Authorize
  <2>2. NonceKey(req.challenge) \in Keys
    BY <2>1, AuthorizedRequest
  <2>3. GrantOf(v, req) \in GrantRecord
    BY <2>1, GrantOfType
  <2>4. grants' = Append(grants, GrantOf(v, req))
    BY <1>3 DEF Authorize, GrantOf
  <2>5. grants' \in Seq(GrantRecord)
    BY <2>3, <2>4 DEF TypeOK
  <2>6. /\ pending' \in [Verifiers -> [Keys -> Pending \cup {NotPending}]]
        /\ used' \in [Verifiers -> SUBSET Keys]
    BY <1>3, <2>2 DEF Authorize, DeletePending, ConsumeNonce, TypeOK
  <2> QED BY <1>3, <2>5, <2>6 DEF Authorize, TypeOK
<1>4. ASSUME NEW v \in Verifiers, NEW req \in Requests, Reject(v, req)
      PROVE  TypeOK'
  BY <1>4 DEF Reject, vars, TypeOK
<1>5. CASE Tick
  BY <1>5, VerifierConstants DEF Tick, TypeOK
<1>6. CASE UNCHANGED vars
  BY <1>6 DEF vars, TypeOK
<1> QED BY <1>1, <1>2, <1>3, <1>4, <1>5, <1>6 DEF Next, VerifyAccess

(* The tables of a verifier and the history have their types.              *)
THEOREM TypeCorrect == Spec => []TypeOK
BY TypeOKInit, TypeOKStep, PTL DEF Spec

-----------------------------------------------------------------------------
(* The inductive invariant.  The properties speak of grants and issued     *)
(* challenges only; what makes them inductive is how the two nonce tables  *)
(* and the set of proofs tie in with them.                                 *)

PendingWasIssued ==
    \A v \in Verifiers, k \in Keys :
        pending[v][k] # NotPending => pending[v][k] = issued[v][k]

OpenStaysPending ==
    \A v \in Verifiers, k \in Keys :
        issued[v][k] # NotPending /\ k \notin used[v] => pending[v][k] = issued[v][k]

UsedWasGranted ==
    \A v \in Verifiers : \A k \in used[v] :
        \E i \in 1..Len(grants) :
            grants[i].verifier = v /\ NonceKey(grants[i].challenge) = k

ProofsAreAccepted == \A s \in proofs : \E a \in Agents : CircuitAccepts(a, s)

(* What each grant was given for.                                          *)
Backed(g) ==
    /\ NonceKey(g.challenge) \in used[g.verifier]
    /\ g.challenge.verifierID = g.verifier
    /\ issued[g.verifier][NonceKey(g.challenge)]
        = [proofExpiresAt |-> g.challenge.proofExpiresAt,
           policyHash |-> g.policyHash]
    /\ g.at <= g.challenge.proofExpiresAt
    /\ g.proof \in proofs
    /\ g.proof.bundle.policyHash = g.policyHash
    /\ g.proof.challenge = g.challenge
    /\ g.proof.keyset = KeysetOf[g.verifier]
    /\ g.proof.nullifier = g.nullifier

GrantsAreBacked == \A i \in 1..Len(grants) : Backed(grants[i])

OnePerKey ==
    \A i, j \in 1..Len(grants) :
        /\ grants[i].verifier = grants[j].verifier
        /\ NonceKey(grants[i].challenge) = NonceKey(grants[j].challenge)
        => i = j

IInv ==
    /\ TypeOK
    /\ PendingWasIssued
    /\ OpenStaysPending
    /\ UsedWasGranted
    /\ ProofsAreAccepted
    /\ GrantsAreBacked
    /\ OnePerKey

(* Facts about the sequence of grants that the leaves below need.          *)
LEMMA GrantsSeq ==
    ASSUME TypeOK
    PROVE  /\ Len(grants) \in Nat
           /\ DOMAIN grants = 1..Len(grants)
           /\ \A i \in 1..Len(grants) :
                /\ grants[i] \in GrantRecord
                /\ NonceKey(grants[i].challenge) \in Keys
<1>1. /\ Len(grants) \in Nat
      /\ DOMAIN grants = 1..Len(grants)
      /\ \A i \in 1..Len(grants) : grants[i] \in GrantRecord
  BY DEF TypeOK
<1> QED BY <1>1 DEF GrantRecord, Challenge, NonceKey, Keys

LEMMA IInvInit == Init => IInv
<1> SUFFICES ASSUME Init PROVE IInv
  OBVIOUS
<1>1. TypeOK
  BY TypeOKInit
<1>2. Len(grants) = 0
  BY DEF Init
<1> QED BY <1>1, <1>2 DEF Init, IInv, NoEntries, PendingWasIssued, OpenStaysPending,
           UsedWasGranted, ProofsAreAccepted, GrantsAreBacked, OnePerKey

(* A fresh challenge touches no entry another conjunct speaks of.          *)
LEMMA IInvIssue ==
    ASSUME IInv, NEW v \in Verifiers, NEW n \in Nonces, NEW h \in Hashes,
           IssueChallenge(v, n, h), TypeOK'
    PROVE  IInv'
<1> DEFINE key == <<v, n>>
           entry == [proofExpiresAt |-> now + ChallengeTTL, policyHash |-> h]
<1>1. /\ key \in Keys
      /\ entry \in Pending
      /\ pending' = [pending EXCEPT ![v][key] = entry]
      /\ issued' = [issued EXCEPT ![v][key] = entry]
      /\ UNCHANGED <<now, used, proofs, grants>>
  BY NewEntryType DEF IInv, IssueChallenge
<1>2. issued[v][key] = NotPending
  BY DEF IssueChallenge, Fresh
<1> HIDE DEF entry
<1>3. TypeOK
  BY DEF IInv
<1>4. /\ \A w \in Verifiers, k \in Keys :
            pending'[w][k] = IF w = v /\ k = key THEN entry ELSE pending[w][k]
      /\ \A w \in Verifiers, k \in Keys :
            issued'[w][k] = IF w = v /\ k = key THEN entry ELSE issued[w][k]
  BY <1>1, <1>3 DEF TypeOK
<1>5. PendingWasIssued'
  BY <1>4 DEF IInv, PendingWasIssued
<1>6. OpenStaysPending'
  BY <1>1, <1>4 DEF IInv, OpenStaysPending
<1>7. UsedWasGranted' /\ ProofsAreAccepted' /\ OnePerKey'
  BY <1>1 DEF IInv, UsedWasGranted, ProofsAreAccepted, OnePerKey
<1>8. GrantsAreBacked'
  <2> SUFFICES ASSUME NEW i \in 1..Len(grants) PROVE Backed(grants[i])'
    BY <1>1 DEF GrantsAreBacked
  <2>1. Backed(grants[i])
    BY DEF IInv, GrantsAreBacked
  <2>2. /\ grants[i].verifier \in Verifiers
        /\ NonceKey(grants[i].challenge) \in Keys
        /\ [proofExpiresAt |-> grants[i].challenge.proofExpiresAt,
            policyHash |-> grants[i].policyHash] \in Pending
    BY <1>3, GrantsSeq DEF GrantRecord, Pending, Challenge
  <2>3. issued[grants[i].verifier][NonceKey(grants[i].challenge)] # NotPending
    BY <2>1, <2>2, SentinelsDiffer DEF Backed
  <2>4. issued'[grants[i].verifier][NonceKey(grants[i].challenge)]
        = issued[grants[i].verifier][NonceKey(grants[i].challenge)]
    BY <1>2, <1>4, <2>2, <2>3
  <2> QED BY <1>1, <2>1, <2>4 DEF Backed
<1> QED BY <1>5, <1>6, <1>7, <1>8 DEF IInv

(* The one step that grants: the nonce it consumes was not used before.    *)
LEMMA IInvAuthorize ==
    ASSUME IInv, NEW v \in Verifiers, NEW req \in Requests,
           Authorize(v, req), TypeOK'
    PROVE  IInv'
<1> DEFINE key == NonceKey(req.challenge)
           m == Len(grants)
<1>1. TypeOK /\ Authorized(v, pending[v], used[v], req, now)
  BY DEF IInv, Authorize
<1>2. /\ key \in Keys
      /\ key \notin used[v]
      /\ pending[v][key] \in Pending
      /\ pending[v][key] = [proofExpiresAt |-> req.challenge.proofExpiresAt,
                            policyHash |-> req.bundle.policyHash]
      /\ req.challenge.verifierID = v
      /\ now <= req.challenge.proofExpiresAt
      /\ req.proof \in proofs
      /\ req.proof = BuildStatement(req.bundle, req.challenge,
                                    KeysetOf[v], req.nullifier)
  BY <1>1, AuthorizedRequest
<1>3. /\ pending' = [pending EXCEPT ![v][key] = NotPending]
      /\ used' = [used EXCEPT ![v] = @ \cup {key}]
      /\ grants' = Append(grants, GrantOf(v, req))
      /\ UNCHANGED <<now, proofs, issued>>
  BY DEF Authorize, DeletePending, ConsumeNonce, GrantOf
<1>4. GrantOf(v, req) \in GrantRecord /\ grants \in Seq(GrantRecord)
  BY <1>1, GrantOfType DEF TypeOK
<1>5. /\ m \in Nat
      /\ Len(grants') = m + 1
      /\ grants'[m + 1] = GrantOf(v, req)
      /\ \A i \in 1..m : grants'[i] = grants[i]
  BY <1>3, <1>4
<1>6. GrantOf(v, req).verifier = v /\ NonceKey(GrantOf(v, req).challenge) = key
  BY DEF GrantOf
<1> HIDE DEF key
<1>7. /\ \A w \in Verifiers, k \in Keys :
            pending'[w][k] = IF w = v /\ k = key THEN NotPending ELSE pending[w][k]
      /\ \A w \in Verifiers : \A k :
            k \in used'[w] <=> k \in used[w] \/ (w = v /\ k = key)
  <2>1. key \in Keys
    BY <1>2
  <2>2. \A w \in Verifiers, k \in Keys :
            pending'[w][k] = IF w = v /\ k = key THEN NotPending ELSE pending[w][k]
    BY <1>1, <1>3, <2>1 DEF TypeOK
  <2>3. \A w \in Verifiers : \A k :
            k \in used'[w] <=> k \in used[w] \/ (w = v /\ k = key)
    BY <1>1, <1>3, <2>1 DEF TypeOK
  <2> QED BY <2>2, <2>3
<1>8. PendingWasIssued'
  BY <1>3, <1>7 DEF IInv, PendingWasIssued
<1>9. OpenStaysPending'
  BY <1>3, <1>7 DEF IInv, OpenStaysPending
<1>10. UsedWasGranted'
  <2> SUFFICES ASSUME NEW w \in Verifiers, NEW k \in used'[w]
               PROVE  \E i \in 1..(m + 1) : /\ grants'[i].verifier = w
                                            /\ NonceKey(grants'[i].challenge) = k
    BY <1>5 DEF UsedWasGranted
  <2>1. CASE k \in used[w]
    <3>1. PICK i \in 1..m : grants[i].verifier = w /\ NonceKey(grants[i].challenge) = k
      BY <2>1 DEF IInv, UsedWasGranted
    <3>2. i \in 1..(m + 1) /\ grants'[i] = grants[i]
      BY <1>5, <3>1
    <3> QED BY <3>1, <3>2
  <2>2. CASE k \notin used[w]
    <3>1. w = v /\ k = key
      BY <2>2, <1>7
    <3>2. m + 1 \in 1..(m + 1)
      BY <1>5
    <3> QED BY <3>1, <3>2, <1>5, <1>6
  <2> QED BY <2>1, <2>2
<1>11. ProofsAreAccepted'
  BY <1>3 DEF IInv, ProofsAreAccepted
<1>12. GrantsAreBacked'
  <2> SUFFICES ASSUME NEW i \in 1..(m + 1) PROVE Backed(grants[i])'
    BY <1>5 DEF GrantsAreBacked
  <2>1. CASE i \in 1..m
    <3>1. Backed(grants[i]) /\ grants'[i] = grants[i] /\ grants[i].verifier \in Verifiers
      BY <2>1, <1>1, <1>5, GrantsSeq DEF IInv, GrantsAreBacked, GrantRecord
    <3> QED BY <3>1, <1>3, <1>7 DEF Backed
  <2>2. CASE i = m + 1
    <3>1. /\ issued[v][key] = pending[v][key]
          /\ key \in used'[v]
      BY <1>2, <1>7, SentinelsDiffer DEF IInv, PendingWasIssued
    <3> QED BY <2>2, <3>1, <1>2, <1>3, <1>5 DEF Backed, GrantOf, BuildStatement, key
  <2> QED BY <2>1, <2>2, <1>5
<1>13. OnePerKey'
  <2>1. \A i \in 1..m : grants[i].verifier = v => NonceKey(grants[i].challenge) # key
    BY <1>2 DEF IInv, GrantsAreBacked, Backed
  <2> SUFFICES ASSUME NEW i \in 1..(m + 1), NEW j \in 1..(m + 1),
                      grants'[i].verifier = grants'[j].verifier,
                      NonceKey(grants'[i].challenge) = NonceKey(grants'[j].challenge)
               PROVE  i = j
    BY <1>5 DEF OnePerKey
  <2>2. CASE i \in 1..m /\ j \in 1..m
    BY <2>2, <1>5 DEF IInv, OnePerKey
  <2>3. CASE i = m + 1 \/ j = m + 1
    BY <2>1, <2>3, <1>5, <1>6
  <2> QED BY <2>2, <2>3, <1>5
<1> QED BY <1>8, <1>9, <1>10, <1>11, <1>12, <1>13 DEF IInv

LEMMA IInvStep == IInv /\ [Next]_vars => IInv'
<1> SUFFICES ASSUME IInv, [Next]_vars PROVE IInv'
  OBVIOUS
<1>1. TypeOK'
  BY TypeOKStep DEF IInv
<1>2. ASSUME NEW v \in Verifiers, NEW n \in Nonces, NEW h \in Hashes,
             IssueChallenge(v, n, h)
      PROVE  IInv'
  BY <1>1, <1>2, IInvIssue
<1>3. ASSUME NEW a \in Agents, NEW p \in Policies, NEW ch \in Challenge,
             NEW k \in Keysets, Prove(a, p, ch, k)
      PROVE  IInv'
  <2> DEFINE s == BuildStatement(Published(p), ch, k, Nullifier(a, ch.verifierID))
  <2>1. /\ proofs' = proofs \cup {s}
        /\ CircuitAccepts(a, s)
        /\ UNCHANGED <<now, pending, used, issued, grants>>
    BY <1>3 DEF Prove
  <2>2. ProofsAreAccepted'
    <3> HIDE DEF s
    <3>1. \A q \in proofs : \E b \in Agents : CircuitAccepts(b, q)
      BY DEF IInv, ProofsAreAccepted
    <3> QED BY <2>1, <3>1 DEF ProofsAreAccepted
  <2>3. GrantsAreBacked'
    BY <2>1 DEF IInv, GrantsAreBacked, Backed
  <2> QED BY <2>1, <2>2, <2>3, <1>1 DEF IInv, PendingWasIssued, OpenStaysPending,
             UsedWasGranted, OnePerKey
<1>4. ASSUME NEW v \in Verifiers, NEW req \in Requests, Authorize(v, req)
      PROVE  IInv'
  BY <1>1, <1>4, IInvAuthorize
<1>5. ASSUME UNCHANGED vars PROVE IInv'
  BY <1>1, <1>5 DEF vars, IInv, PendingWasIssued, OpenStaysPending,
     UsedWasGranted, ProofsAreAccepted, GrantsAreBacked, Backed, OnePerKey
<1>6. ASSUME NEW v \in Verifiers, NEW req \in Requests, Reject(v, req)
      PROVE  IInv'
  BY <1>5, <1>6 DEF Reject
<1>7. CASE Tick
  BY <1>1, <1>7 DEF Tick, IInv, PendingWasIssued, OpenStaysPending,
     UsedWasGranted, ProofsAreAccepted, GrantsAreBacked, Backed, OnePerKey
<1> QED BY <1>2, <1>3, <1>4, <1>5, <1>6, <1>7 DEF Next, VerifyAccess

THEOREM Invariant == Spec => []IInv
BY IInvInit, IInvStep, PTL DEF Spec

-----------------------------------------------------------------------------
(* A challenge lets in at most one request, whatever is replayed.          *)
THEOREM OneGrant == Spec => []AtMostOneGrantPerChallenge
<1>1. IInv => AtMostOneGrantPerChallenge
  BY GrantsSeq DEF IInv, OnePerKey, AtMostOneGrantPerChallenge
<1> QED BY <1>1, Invariant, PTL

(* Access is granted only on the terms of a challenge this verifier        *)
(* issued.                                                                 *)
THEOREM GrantsOnIssuedTerms == Spec => []GrantsMatchChallenge
<1>1. IInv => GrantsMatchChallenge
  <2> SUFFICES ASSUME IInv, NEW i \in 1..Len(grants)
               PROVE  LET g == grants[i]
                          entry == issued[g.verifier][NonceKey(g.challenge)]
                      IN /\ g.challenge.verifierID = g.verifier
                         /\ entry # NotPending
                         /\ entry.policyHash = g.policyHash
                         /\ entry.proofExpiresAt = g.challenge.proofExpiresAt
                         /\ g.at <= entry.proofExpiresAt
    BY GrantsSeq DEF IInv, GrantsMatchChallenge
  <2>1. Backed(grants[i])
    BY DEF IInv, GrantsAreBacked
  <2>2. [proofExpiresAt |-> grants[i].challenge.proofExpiresAt,
         policyHash |-> grants[i].policyHash] \in Pending
    BY GrantsSeq DEF IInv, GrantRecord, Pending, Challenge
  <2> QED BY <2>1, <2>2, SentinelsDiffer DEF Backed
<1> QED BY <1>1, Invariant, PTL

(* Whoever is let in holds a live certificate of the verifier's committee  *)
(* that satisfies the policy the verifier asked for.                       *)
THEOREM GrantsAreCertified == Spec => []GrantsHoldCertificate
<1>1. IInv => GrantsHoldCertificate
  <2> SUFFICES ASSUME IInv, NEW i \in 1..Len(grants)
               PROVE  \E a \in Agents, p \in Policies :
                        /\ issued[grants[i].verifier][NonceKey(grants[i].challenge)].policyHash
                            = PolicyHash(p)
                        /\ <<a, p, KeysetOf[grants[i].verifier]>> \in Qualified
                        /\ grants[i].nullifier = Nullifier(a, grants[i].verifier)
                        /\ grants[i].at <= CertExpires[a]
    BY GrantsSeq DEF IInv, GrantsHoldCertificate
  <2> DEFINE g == grants[i]
  <2>1. Backed(g)
    BY DEF IInv, GrantsAreBacked
  <2>2. PICK a \in Agents : CircuitAccepts(a, g.proof)
    BY <2>1 DEF IInv, ProofsAreAccepted, Backed
  <2>3. g.proof.bundle.policy \in Policies
    BY <2>1 DEF Backed, IInv, TypeOK, Statement, PolicyBundle
  <2>4. g.at <= CertExpires[a]
    <3>1. g.at \in Int /\ g.challenge.proofExpiresAt \in Int /\ CertExpires[a] \in Int
      BY GrantsSeq, VerifierConstants DEF IInv, GrantRecord, Challenge, Expiries
    <3>2. CertExpires[a] >= g.challenge.proofExpiresAt
      BY <2>1, <2>2 DEF Backed, CircuitAccepts
    <3> QED BY <3>1, <3>2, <2>1 DEF Backed
  <2>5. /\ issued[g.verifier][NonceKey(g.challenge)].policyHash
            = PolicyHash(g.proof.bundle.policy)
        /\ <<a, g.proof.bundle.policy, KeysetOf[g.verifier]>> \in Qualified
        /\ g.nullifier = Nullifier(a, g.verifier)
    BY <2>1, <2>2 DEF Backed, CircuitAccepts
  <2> QED BY <2>3, <2>4, <2>5
<1> QED BY <1>1, Invariant, PTL

(* Rejected requests never cost the holder of a live challenge its access. *)
THEOREM RejectionsAreHarmless == Spec => []RejectionsBurnNothing
<1>1. IInv => RejectionsBurnNothing
  <2> SUFFICES ASSUME IInv, NEW v \in Verifiers, NEW n \in Nonces, NEW s \in proofs,
                      issued[v][<<v, n>>] # NotPending,
                      now <= issued[v][<<v, n>>].proofExpiresAt,
                      \A i \in DOMAIN grants : NonceKey(grants[i].challenge) # <<v, n>>,
                      s.challenge = [verifierID |-> v, nonce |-> n,
                            proofExpiresAt |-> issued[v][<<v, n>>].proofExpiresAt],
                      s.bundle.policyHash = issued[v][<<v, n>>].policyHash,
                      s.keyset = KeysetOf[v]
               PROVE  Authorized(v, pending[v], used[v],
                        [bundle |-> s.bundle, challenge |-> s.challenge,
                         proof |-> s, nullifier |-> s.nullifier], now)
    BY DEF RejectionsBurnNothing
  <2> DEFINE key == <<v, n>>
             req == [bundle |-> s.bundle, challenge |-> s.challenge,
                     proof |-> s, nullifier |-> s.nullifier]
  <2>1. key \in Keys /\ NonceKey(s.challenge) = key
    BY DEF Keys, NonceKey
  <2>2. key \notin used[v]
    BY GrantsSeq DEF IInv, UsedWasGranted
  <2>3. pending[v][key] = issued[v][key]
    BY <2>1, <2>2 DEF IInv, OpenStaysPending
  <2>4. s \in Statement /\ s # NoProof
    BY SentinelsDiffer DEF IInv, TypeOK
  <2>5. PICK a \in Agents : CircuitAccepts(a, s)
    BY DEF IInv, ProofsAreAccepted
  <2>6. ProofUnexpired(req, now) = NoError
    <3>1. issued[v][key] \in Pending
      BY <2>1 DEF IInv, TypeOK
    <3>2. issued[v][key].proofExpiresAt \in Int /\ now \in Int
      BY <3>1, VerifierConstants DEF Pending, Expiries, IInv, TypeOK
    <3> QED BY <3>2 DEF ProofUnexpired
  <2>7. PolicyHashCheck(req) = NoError
    BY <2>5 DEF CircuitAccepts, PolicyHashCheck
  <2>8. NonceIssued(v, pending[v], used[v], req) = NoError
    BY <2>1, <2>2, <2>3 DEF NonceIssued, Recorded
  <2>9. NonceUnused(used[v], req) = NoError
    BY <2>1, <2>2 DEF NonceUnused
  <2>10. ProofValid(v, req) = NoError
    BY <2>4 DEF ProofValid, BuildStatement, Statement
  <2> QED BY <2>6, <2>7, <2>8, <2>9, <2>10 DEF Authorized
<1> QED BY <1>1, Invariant, PTL

(* A replay is told that its nonce is consumed while its challenge lives,  *)
(* and that its proof has expired later: none of the other checks of       *)
(* VerifyAccess gets in the way.                                           *)
THEOREM ReplaysAreDiagnosed == Spec => []ReplayIsDiagnosed
<1>1. IInv => ReplayIsDiagnosed
  <2> SUFFICES ASSUME IInv, NEW i \in 1..Len(grants)
               PROVE  LET g == grants[i]
                          req == [bundle |-> g.proof.bundle, challenge |-> g.challenge,
                                  proof |-> g.proof, nullifier |-> g.nullifier]
                      IN FirstError(Outcomes(g.verifier, pending[g.verifier],
                                             used[g.verifier], req, now))
                          = IF now <= g.challenge.proofExpiresAt
                            THEN "ErrNonceConsumed" ELSE "ErrProofExpired"
    BY GrantsSeq DEF IInv, ReplayIsDiagnosed
  <2> DEFINE g == grants[i]
             req == [bundle |-> g.proof.bundle, challenge |-> g.challenge,
                     proof |-> g.proof, nullifier |-> g.nullifier]
             out == Outcomes(g.verifier, pending[g.verifier], used[g.verifier], req, now)
  <2>1. Backed(g)
    BY DEF IInv, GrantsAreBacked
  <2>2. g.challenge.proofExpiresAt \in Int /\ now \in Int
    BY GrantsSeq, VerifierConstants DEF IInv, TypeOK, GrantRecord, Challenge, Expiries
  <2>3. /\ Len(out) = 5
        /\ out[1] = ProofUnexpired(req, now)
        /\ out[2] = PolicyHashCheck(req)
        /\ out[3] = NonceIssued(g.verifier, pending[g.verifier], used[g.verifier], req)
        /\ out[4] = NonceUnused(used[g.verifier], req)
    BY DEF Outcomes
  <2>4. out[2] = NoError /\ out[3] = NoError /\ out[4] = "ErrNonceConsumed"
    <3>1. PICK a \in Agents : CircuitAccepts(a, g.proof)
      BY <2>1 DEF IInv, ProofsAreAccepted, Backed
    <3>2. PolicyHash(req.bundle.policy) = req.bundle.policyHash
      BY <3>1 DEF CircuitAccepts
    <3>3. NonceKey(req.challenge) \in used[g.verifier]
      BY <2>1 DEF Backed
    <3> QED BY <2>3, <3>2, <3>3 DEF PolicyHashCheck, NonceIssued, NonceUnused
  <2>5. out[1] = IF now <= g.challenge.proofExpiresAt THEN NoError ELSE "ErrProofExpired"
    BY <2>2, <2>3 DEF ProofUnexpired
  <2> HIDE DEF out, g
  <2>6. CASE now <= g.challenge.proofExpiresAt
    <3>1. \A j \in 1..(4 - 1) : out[j] = NoError
      <4>1. out[1] = NoError
        BY <2>5, <2>6
      <4>2. \A j \in 1..(4 - 1) : j = 1 \/ j = 2 \/ j = 3
        OBVIOUS
      <4> QED BY <4>1, <4>2, <2>4
    <3>2. "ErrNonceConsumed" # NoError
      BY DEF NoError
    <3>3. FirstError(out) = out[4]
      <4>1. Len(out) \in Nat /\ 4 \in 1..Len(out) /\ out[4] # NoError
        BY <2>3, <2>4, <3>2
      <4> QED BY <3>1, <4>1, FirstErrorIs
    <3> QED BY <2>4, <2>6, <3>3 DEF out, g
  <2>7. CASE ~(now <= g.challenge.proofExpiresAt)
    <3>1. out[1] # NoError
      BY <2>5, <2>7 DEF NoError
    <3>2. FirstError(out) = out[1]
      BY <2>3, <3>1, FirstErrorIs
    <3> QED BY <2>5, <2>7, <3>2 DEF out, g
  <2> QED BY <2>6, <2>7
<1> QED BY <1>1, Invariant, PTL

(* docs/design-notes.md: sweeping expired entries changes no decision.     *)
THEOREM SweepingIsSound == Spec => []SweepIsSound
<1>1. IInv => SweepIsSound
  <2> SUFFICES ASSUME IInv, NEW v \in Verifiers, NEW req \in Requests
               PROVE  Authorized(v, SweptPending(v), SweptUsed(v), req, now)
                        <=> Authorized(v, pending[v], used[v], req, now)
    BY DEF SweepIsSound
  <2> DEFINE ch == req.challenge
             key == NonceKey(ch)
  <2>1. ch \in Challenge /\ key \in Keys
    BY DEF Requests, Challenge, NonceKey, Keys
  <2>2. CASE Alive(v, key)
    <3>1. SweptPending(v)[key] = pending[v][key]
      BY <2>1, <2>2 DEF SweptPending
    <3>2. key \in SweptUsed(v) <=> key \in used[v]
      BY <2>2 DEF SweptUsed
    <3> QED BY <3>1, <3>2 DEF Authorized, NonceIssued, NonceUnused, Recorded
  <2>3. CASE ~Alive(v, key)
    <3>1. ~Authorized(v, SweptPending(v), SweptUsed(v), req, now)
      <4>1. SweptPending(v)[key] = NotPending /\ key \notin SweptUsed(v)
        BY <2>1, <2>3 DEF SweptPending, SweptUsed
      <4> QED BY <4>1 DEF Authorized, NonceIssued, Recorded, NoError
    <3>2. ~Authorized(v, pending[v], used[v], req, now)
      <4> SUFFICES ASSUME Authorized(v, pending[v], used[v], req, now) PROVE FALSE
        OBVIOUS
      <4>1. /\ pending[v][key] \in Pending
            /\ pending[v][key].proofExpiresAt = ch.proofExpiresAt
            /\ now <= ch.proofExpiresAt
        <5>1. TypeOK
          BY DEF IInv
        <5>2. /\ pending[v][key] \in Pending
              /\ pending[v][key] = [proofExpiresAt |-> ch.proofExpiresAt,
                                    policyHash |-> req.bundle.policyHash]
              /\ now <= ch.proofExpiresAt
          BY <5>1, AuthorizedRequest
        <5> QED BY <5>2
      <4>2. pending[v][key] # NotPending
        BY <4>1, SentinelsDiffer
      <4>3. issued[v][key] = pending[v][key]
        BY <2>1, <4>2 DEF IInv, PendingWasIssued
      <4> QED BY <2>3, <4>1, <4>2, <4>3 DEF Alive
    <3> QED BY <3>1, <3>2
  <2> QED BY <2>2, <2>3
<1> QED BY <1>1, Invariant, PTL

-----------------------------------------------------------------------------
(* The refinement.  The abstract state as the detailed one defines it:     *)
absTerms == [v \in Verifiers |-> [n \in Nonces |-> AbstractTerms(v, n)]]
absSpent == [v \in Verifiers |-> {n \in Nonces : <<v, n>> \in used[v]}]
AbsGrant(g) == [verifier |-> g.verifier, nonce |-> g.challenge.nonce,
                policyHash |-> g.policyHash, at |-> g.at]
absGranted == [i \in 1..Len(grants) |-> AbsGrant(grants[i])]

(* An issued challenge has terms in the abstract state.                    *)
LEMMA TermsOfIssued ==
    ASSUME TypeOK, NEW v \in Verifiers, NEW n \in Nonces
    PROVE  /\ AbstractTerms(v, n) = NotPending <=> issued[v][<<v, n>>] = NotPending
           /\ issued[v][<<v, n>>] # NotPending =>
                AbstractTerms(v, n) =
                    [policyHash |-> issued[v][<<v, n>>].policyHash,
                     expires |-> issued[v][<<v, n>>].proofExpiresAt]
<1>1. <<v, n>> \in Keys
  BY DEF Keys
<1>2. CASE issued[v][<<v, n>>] = NotPending
  BY <1>2 DEF AbstractTerms
<1>3. CASE issued[v][<<v, n>>] # NotPending
  <2>1. issued[v][<<v, n>>] \in Pending
    BY <1>1, <1>3 DEF TypeOK
  <2>2. [policyHash |-> issued[v][<<v, n>>].policyHash,
         expires |-> issued[v][<<v, n>>].proofExpiresAt]
            \in [policyHash : Hashes, expires : Int]
    BY <2>1, VerifierConstants DEF Pending, Expiries
  <2> QED BY <1>3, <2>2, SentinelsDiffer DEF AbstractTerms
<1> QED BY <1>2, <1>3

(* Issuing a challenge is an abstract Issue.                               *)
LEMMA IssueRefines ==
    ASSUME IInv, NEW v \in Verifiers, NEW n \in Nonces, NEW h \in Hashes,
           IssueChallenge(v, n, h)
    PROVE  Abstract!Issue(v, n, h)
<1> DEFINE key == <<v, n>>
           entry == [proofExpiresAt |-> now + ChallengeTTL, policyHash |-> h]
<1>1. /\ key \in Keys
      /\ entry \in Pending
      /\ issued' = [issued EXCEPT ![v][key] = entry]
      /\ UNCHANGED <<now, used, proofs, grants>>
  BY NewEntryType DEF IInv, IssueChallenge
<1>2. \A w \in Verifiers : issued[w][<<w, n>>] = NotPending
  BY DEF IssueChallenge, Fresh
<1>3. TypeOK
  BY DEF IInv
<1>4. entry # NotPending
  BY <1>1, SentinelsDiffer
<1>5. \A w \in Verifiers, k \in Keys :
            issued'[w][k] = IF w = v /\ k = key THEN entry ELSE issued[w][k]
  BY <1>1, <1>3 DEF TypeOK
<1>6. \A w \in Verifiers : AbstractTerms(w, n) = NotPending
  BY <1>2 DEF AbstractTerms
<1>7. \A w \in Verifiers, m \in Nonces :
        AbstractTerms(w, m)' =
            IF w = v /\ m = n
            THEN [policyHash |-> h, expires |-> now + ChallengeTTL]
            ELSE AbstractTerms(w, m)
  <2> SUFFICES ASSUME NEW w \in Verifiers, NEW m \in Nonces
               PROVE  AbstractTerms(w, m)' =
                        IF w = v /\ m = n
                        THEN [policyHash |-> h, expires |-> now + ChallengeTTL]
                        ELSE AbstractTerms(w, m)
    OBVIOUS
  <2>1. <<w, m>> \in Keys
    BY DEF Keys
  <2>2. CASE w = v /\ m = n
    BY <1>1, <1>4, <1>5, <2>1, <2>2 DEF AbstractTerms
  <2>3. CASE ~(w = v /\ m = n)
    <3>1. issued'[w][<<w, m>>] = issued[w][<<w, m>>]
      BY <1>5, <2>1, <2>3
    <3> QED BY <2>3, <3>1 DEF AbstractTerms
  <2> QED BY <2>2, <2>3
<1>8. absTerms' = [absTerms EXCEPT ![v][n] =
                    [policyHash |-> h, expires |-> now + ChallengeTTL]]
  BY <1>7 DEF absTerms
<1>9. \A w \in Verifiers : absTerms[w][n] = NotPending
  BY <1>6 DEF absTerms
<1>10. absSpent' = absSpent /\ absGranted' = absGranted
  BY <1>1 DEF absSpent, absGranted
<1> QED BY <1>1, <1>8, <1>9, <1>10 DEF Abstract!Issue, absTerms, absSpent, absGranted, AbsGrant

(* Authorizing a request is an abstract Grant.                             *)
LEMMA AuthorizeRefines ==
    ASSUME IInv, NEW v \in Verifiers, NEW req \in Requests, Authorize(v, req)
    PROVE  Abstract!Grant(v, req.challenge.nonce)
<1> DEFINE ch == req.challenge
           n == ch.nonce
           key == <<v, n>>
           m == Len(grants)
<1>1. TypeOK /\ Authorized(v, pending[v], used[v], req, now)
  BY DEF IInv, Authorize
<1>2. /\ key \in Keys
      /\ NonceKey(ch) = key
      /\ key \notin used[v]
      /\ pending[v][key] \in Pending
      /\ pending[v][key] = [proofExpiresAt |-> ch.proofExpiresAt,
                            policyHash |-> req.bundle.policyHash]
      /\ now <= ch.proofExpiresAt
      /\ ch \in Challenge
  BY <1>1, AuthorizedRequest
<1>3. n \in Nonces
  BY <1>2 DEF Challenge
<1>4. issued[v][key] = pending[v][key] /\ issued[v][key] # NotPending
  BY <1>2, SentinelsDiffer DEF IInv, PendingWasIssued
<1>5. AbstractTerms(v, n) = [policyHash |-> req.bundle.policyHash,
                             expires |-> ch.proofExpiresAt]
  BY <1>1, <1>2, <1>3, <1>4, TermsOfIssued
<1>6. AbstractTerms(v, n) # NotPending
  BY <1>1, <1>3, <1>4, TermsOfIssued
<1>7. /\ used' = [used EXCEPT ![v] = @ \cup {key}]
      /\ grants' = Append(grants, GrantOf(v, req))
      /\ UNCHANGED <<now, proofs, issued>>
  BY <1>2 DEF Authorize, ConsumeNonce, GrantOf
<1>8. GrantOf(v, req) \in GrantRecord /\ grants \in Seq(GrantRecord)
  BY <1>1, GrantOfType DEF TypeOK
<1>9. absTerms' = absTerms
  BY <1>7 DEF absTerms, AbstractTerms
<1>10. absSpent' = [absSpent EXCEPT ![v] = @ \cup {n}]
  <2>1. \A w \in Verifiers : \A k :
            k \in used'[w] <=> k \in used[w] \/ (w = v /\ k = key)
    BY <1>1, <1>2, <1>7 DEF TypeOK
  <2>2. \A w \in Verifiers :
            {q \in Nonces : <<w, q>> \in used'[w]}
                = IF w = v THEN {q \in Nonces : <<w, q>> \in used[w]} \cup {n}
                  ELSE {q \in Nonces : <<w, q>> \in used[w]}
    BY <1>3, <2>1
  <2> QED BY <2>2 DEF absSpent
<1>11. absGranted' = Append(absGranted,
                        [verifier |-> v, nonce |-> n,
                         policyHash |-> AbstractTerms(v, n).policyHash, at |-> now])
  <2>1. AbsGrant(GrantOf(v, req)) =
            [verifier |-> v, nonce |-> n,
             policyHash |-> AbstractTerms(v, n).policyHash, at |-> now]
    BY <1>5 DEF AbsGrant, GrantOf
  <2>2. /\ m \in Nat
        /\ Len(grants') = m + 1
        /\ grants'[m + 1] = GrantOf(v, req)
        /\ \A i \in 1..m : grants'[i] = grants[i]
    BY <1>7, <1>8
  <2>3. absGranted' = [i \in 1..(m + 1) |->
                        IF i = m + 1 THEN AbsGrant(GrantOf(v, req)) ELSE absGranted[i]]
    BY <2>2 DEF absGranted, AbsGrant
  <2>4. /\ absGranted = [i \in 1..m |-> absGranted[i]]
        /\ Len(absGranted) = m
    BY <2>2 DEF absGranted
  <2>5. Append(absGranted, AbsGrant(GrantOf(v, req)))
            = [i \in 1..(m + 1) |->
                IF i = m + 1 THEN AbsGrant(GrantOf(v, req)) ELSE absGranted[i]]
    BY <2>2, <2>4
  <2> QED BY <2>1, <2>3, <2>5
<1>12. n \notin absSpent[v] /\ absTerms[v][n] = AbstractTerms(v, n)
  BY <1>2, <1>3 DEF absSpent, absTerms
<1>13. now <= absTerms[v][n].expires
  BY <1>2, <1>5, <1>12
<1> QED BY <1>6, <1>7, <1>9, <1>10, <1>11, <1>12, <1>13
        DEF Abstract!Grant, absTerms, absSpent, absGranted, AbsGrant

(* Every step is an abstract step or a stutter.                            *)
LEMMA StepRefines == IInv /\ [Next]_vars => [Abstract!Next]_(Abstract!vars)
<1> SUFFICES ASSUME IInv, [Next]_vars PROVE [Abstract!Next]_(Abstract!vars)
  OBVIOUS
<1>1. ASSUME NEW v \in Verifiers, NEW n \in Nonces, NEW h \in Hashes,
             IssueChallenge(v, n, h)
      PROVE  Abstract!Next
  BY <1>1, IssueRefines DEF Abstract!Next
<1>2. ASSUME NEW a \in Agents, NEW p \in Policies, NEW ch \in Challenge,
             NEW k \in Keysets, Prove(a, p, ch, k)
      PROVE  UNCHANGED Abstract!vars
  BY <1>2 DEF Prove, Abstract!vars, AbstractTerms
<1>3. ASSUME NEW v \in Verifiers, NEW req \in Requests, Authorize(v, req)
      PROVE  Abstract!Next
  <2>1. req.challenge.nonce \in Nonces
    BY DEF Requests, Challenge
  <2> QED BY <1>3, <2>1, AuthorizeRefines DEF Abstract!Next
<1>4. CASE Tick
  BY <1>4 DEF Tick, Abstract!Tick, Abstract!Next, AbstractTerms
<1>5. CASE UNCHANGED vars
  BY <1>5 DEF vars, Abstract!vars, AbstractTerms
<1>6. ASSUME NEW v \in Verifiers, NEW req \in Requests, Reject(v, req)
      PROVE  UNCHANGED Abstract!vars
  BY <1>6 DEF Reject, vars, Abstract!vars, AbstractTerms
<1> QED BY <1>1, <1>2, <1>3, <1>4, <1>5, <1>6 DEF Next, VerifyAccess

LEMMA InitRefines == Init => Abstract!Init
<1> SUFFICES ASSUME Init PROVE Abstract!Init
  OBVIOUS
<1>1. \A v \in Verifiers, n \in Nonces : AbstractTerms(v, n) = NotPending
  BY DEF Init, NoEntries, AbstractTerms, Keys
<1>2. [i \in 1..Len(grants) |-> AbsGrant(grants[i])] = <<>>
  BY DEF Init
<1> QED BY <1>1, <1>2 DEF Init, Abstract!Init, AbsGrant

(* The verifiers keep the promise of one-time access.                      *)
THEOREM Refinement == Spec => ImplementsOneTimeAccess
BY InitRefines, StepRefines, Invariant, PTL
   DEF Spec, ImplementsOneTimeAccess, Abstract!Spec

-----------------------------------------------------------------------------
(* The browser demo.  Its attacks meet the same list of checks.            *)

(* A world in which the first provider has rated the certified manifest,   *)
(* and in which the run's own proof has used up the run's challenge.       *)
Worlds ==
    [manifest : Manifests, provable : BOOLEAN, usedReceiptIDs : SUBSET Int,
     issuerSlots : SUBSET (Int \X Manifests), nonce : {"none", "pending", "used"},
     pkg : {"none", "own"}]

Provisioned(w) ==
    /\ w \in Worlds
    /\ 1 \in w.usedReceiptIDs
    /\ <<1, DefaultManifest>> \in w.issuerSlots
    /\ w.manifest = DefaultManifest => SecondID \notin w.usedReceiptIDs
    /\ w.pkg # "none" => w.nonce = "used"

DInv ==
    /\ requests \in [Clients -> HTTPRequests \cup {NoRequest}]
    /\ last # NoWorld => Provisioned(last)
    /\ server = "down" => answer = NoAnswer /\ \A c \in Clients : requests[c] = NoRequest
    /\ ReplayIsRefused
    /\ AttacksAreIndependent

LEMMA OptionsType ==
    ASSUME NEW r \in RunRequest
    PROVE  /\ Options(r).ratings \in 1..(MaxRatings + 1)
           /\ Options(r).manifest \in Manifests
           /\ Options(r).provable = r.provable
           /\ r.provable \in BOOLEAN
<1>1. /\ r.ratings \in 0..(MaxRatings + 1) /\ r.manifest \in Manifests \cup {Absent}
      /\ r.provable \in BOOLEAN
  BY DEF RunRequest
<1>2. Options(r) = [r EXCEPT !.ratings = IF r.ratings = 0 THEN MaxRatings ELSE r.ratings,
                             !.manifest = IF r.manifest = Absent THEN DefaultManifest
                                          ELSE r.manifest]
  BY DEF Options, DefaultRun
<1>3. /\ Options(r).ratings = IF r.ratings = 0 THEN MaxRatings ELSE r.ratings
      /\ Options(r).manifest = IF r.manifest = Absent THEN DefaultManifest ELSE r.manifest
      /\ Options(r).provable = r.provable
  BY <1>2 DEF RunRequest
<1> QED BY <1>1, <1>3, WebDemoConstants DEF MaxRatings

LEMMA NewWorld ==
    ASSUME NEW r, r.ratings \in 1..MaxRatings, r.manifest \in Manifests,
           r.provable \in BOOLEAN
    PROVE  Provisioned(World(r)) /\ Provisioned(AfterRun(r))
<1>1. PICK ids, slots : ids = 1..r.ratings /\ slots = (1..r.ratings) \X {DefaultManifest}
  OBVIOUS
<1>2. /\ ids \in SUBSET Int /\ 1 \in ids /\ SecondID \notin ids
      /\ slots \in SUBSET (Int \X Manifests) /\ <<1, DefaultManifest>> \in slots
  BY <1>1, WebDemoConstants DEF MaxRatings, SecondID
<1>3. World(r) = [manifest |-> r.manifest, provable |-> r.provable,
                  usedReceiptIDs |-> ids, issuerSlots |-> slots,
                  nonce |-> "none", pkg |-> "none"]
  BY <1>1 DEF World
<1>4. PICK w : w = World(r)
  OBVIOUS
<1>5. w \in Worlds
  BY <1>2, <1>3, <1>4 DEF Worlds
<1>6. /\ w.usedReceiptIDs = ids /\ w.issuerSlots = slots
      /\ w.nonce = "none" /\ w.pkg = "none"
  BY <1>3, <1>4
<1>7. ASSUME NEW v \in Worlds, v.usedReceiptIDs = ids, v.issuerSlots = slots,
             v.pkg # "none" => v.nonce = "used"
      PROVE  Provisioned(v)
  BY <1>2, <1>7 DEF Provisioned
<1>8. Provisioned(w)
  BY <1>5, <1>6, <1>7
<1>9. ASSUME NEW v, v = [w EXCEPT !.nonce = "used", !.pkg = "own"]
      PROVE  Provisioned(v)
  <2>1. v \in Worlds
    BY <1>5, <1>9 DEF Worlds
  <2>2. v.usedReceiptIDs = ids /\ v.issuerSlots = slots /\ v.nonce = "used"
    BY <1>5, <1>6, <1>9 DEF Worlds
  <2> QED BY <1>7, <2>1, <2>2
<1>10. ASSUME NEW v, v = [w EXCEPT !.nonce = "pending"]
       PROVE  Provisioned(v)
  <2>1. v \in Worlds
    BY <1>5, <1>10 DEF Worlds
  <2>2. v.usedReceiptIDs = ids /\ v.issuerSlots = slots /\ v.pkg = "none"
    BY <1>5, <1>6, <1>10 DEF Worlds
  <2> QED BY <1>7, <2>1, <2>2
<1>11. \/ AfterRun(r) = [w EXCEPT !.nonce = "used", !.pkg = "own"]
       \/ AfterRun(r) = [w EXCEPT !.nonce = "pending"]
  BY <1>4 DEF AfterRun
<1> QED BY <1>4, <1>8, <1>9, <1>10, <1>11

LEMMA TheCurrentWorld ==
    ASSUME DInv
    PROVE  Provisioned(CurrentWorld)
<1>1. Provisioned(World(DefaultRun))
  <2>1. /\ DefaultRun.ratings = MaxRatings /\ DefaultRun.manifest = DefaultManifest
        /\ DefaultRun.provable = TRUE
    BY DEF DefaultRun
  <2>2. MaxRatings \in 1..MaxRatings
    BY DEF MaxRatings
  <2> QED BY <2>1, <2>2, NewWorld, WebDemoConstants
<1> QED BY <1>1 DEF CurrentWorld, DInv

(* The check that stops an attack on any world that was provisioned.       *)
LEMMA AttackFails ==
    ASSUME NEW w, Provisioned(w), NEW kind \in AttackKinds
    PROVE  LET error == GatewayError(w, AttackReceipt(kind, w.manifest))
           IN /\ kind \in DOMAIN StoppedBy => error = StoppedBy[kind]
              /\ kind = "same-issuer" /\ w.manifest = DefaultManifest =>
                    error = "issuer-once-per-epoch"
<1>1. PICK r : r = AttackReceipt(kind, w.manifest)
  OBVIOUS
<1> DEFINE check(ok, key) == IF ok THEN NoError ELSE key
<1>2. PICK list : list = <<
        check(r.issuer \in 1..MaxRatings, "issuer-registered"),
        check(r.signed, "receipt-signature"),
        check(r.alive, "receipt-unexpired"),
        check(r.id \notin w.usedReceiptIDs, "receipt-unused"),
        check(<<r.issuer, r.manifest>> \notin w.issuerSlots, "issuer-once-per-epoch")>>
  OBVIOUS
<1>3. GatewayError(w, r) = FirstError(list)
  BY <1>2 DEF GatewayError
<1>4. Len(list) = 5
  BY <1>2
<1>5. /\ list[1] = check(r.issuer \in 1..MaxRatings, "issuer-registered")
      /\ list[2] = check(r.signed, "receipt-signature")
      /\ list[3] = check(r.alive, "receipt-unexpired")
      /\ list[4] = check(r.id \notin w.usedReceiptIDs, "receipt-unused")
      /\ list[5] = check(<<r.issuer, r.manifest>> \notin w.issuerSlots,
                         "issuer-once-per-epoch")
  BY <1>2
<1>6. ASSUME NEW i \in 1..5, list[i] # NoError, \A j \in 1..(i - 1) : list[j] = NoError
      PROVE  GatewayError(w, r) = list[i]
  <2>1. Len(list) \in Nat /\ i \in 1..Len(list)
    BY <1>4
  <2>2. FirstError(list) = list[i]
    <3> HIDE DEF check
    <3> QED BY <1>6, <2>1, FirstErrorIs
  <2> QED BY <1>3, <2>2
<1>7. CASE kind = "unregistered"
  <2>1. r.issuer = Stranger
    BY <1>1, <1>7 DEF AttackReceipt
  <2>2. list[1] = "issuer-registered"
    BY <1>5, <2>1 DEF Stranger, MaxRatings
  <2>3. GatewayError(w, r) = "issuer-registered"
    BY <1>6, <2>2 DEF NoError
  <2> QED BY <1>1, <1>7, <2>3 DEF StoppedBy
<1>8. CASE kind = "forged"
  <2>1. r.issuer = 1 /\ r.signed = FALSE
    BY <1>1, <1>8 DEF AttackReceipt
  <2>2. list[1] = NoError /\ list[2] = "receipt-signature"
    BY <1>5, <2>1 DEF MaxRatings
  <2>3. GatewayError(w, r) = "receipt-signature"
    BY <1>6, <2>2 DEF NoError
  <2> QED BY <1>1, <1>8, <2>3 DEF StoppedBy
<1>9. CASE kind = "expired"
  <2>1. r.issuer = 2 /\ r.signed = TRUE /\ r.alive = FALSE
    BY <1>1, <1>9 DEF AttackReceipt
  <2>2. list[1] = NoError /\ list[2] = NoError /\ list[3] = "receipt-unexpired"
    BY <1>5, <2>1 DEF MaxRatings
  <2>3. GatewayError(w, r) = "receipt-unexpired"
    BY <1>6, <2>2 DEF NoError
  <2> QED BY <1>1, <1>9, <2>3 DEF StoppedBy
<1>10. CASE kind = "duplicate"
  <2>1. r.issuer = 1 /\ r.signed = TRUE /\ r.alive = TRUE /\ r.id = 1
    BY <1>1, <1>10 DEF AttackReceipt
  <2>2. /\ list[1] = NoError /\ list[2] = NoError /\ list[3] = NoError
        /\ list[4] = "receipt-unused"
    BY <1>5, <2>1 DEF MaxRatings, Provisioned
  <2>3. GatewayError(w, r) = "receipt-unused"
    BY <1>6, <2>2 DEF NoError
  <2> QED BY <1>1, <1>10, <2>3 DEF StoppedBy
<1>11. CASE kind = "same-issuer"
  <2>1. /\ r.issuer = 1 /\ r.signed = TRUE /\ r.alive = TRUE /\ r.id = SecondID
        /\ r.manifest = w.manifest
    BY <1>1, <1>11 DEF AttackReceipt
  <2>2. kind \notin DOMAIN StoppedBy
    BY <1>11 DEF StoppedBy
  <2>3. ASSUME w.manifest = DefaultManifest
        PROVE  GatewayError(w, r) = "issuer-once-per-epoch"
    <3>1. /\ list[1] = NoError /\ list[2] = NoError /\ list[3] = NoError
          /\ list[4] = NoError /\ list[5] = "issuer-once-per-epoch"
      BY <1>5, <2>1, <2>3 DEF MaxRatings, Provisioned
    <3> QED BY <1>6, <3>1 DEF NoError
  <2> QED BY <1>1, <2>2, <2>3
<1> QED BY <1>7, <1>8, <1>9, <1>10, <1>11 DEF AttackKinds

(* A submission leaves a world as it was or adds the receipt's identifier  *)
(* and slot.                                                               *)
LEMMA RememberKeeps ==
    ASSUME NEW w, Provisioned(w), NEW kind \in AttackKinds
    PROVE  LET after == Remember(w, AttackReceipt(kind, w.manifest))
           IN Provisioned(after) /\ after.manifest = w.manifest
<1>1. PICK r : r = AttackReceipt(kind, w.manifest)
  OBVIOUS
<1>2. CASE GatewayError(w, r) # NoError
  BY <1>1, <1>2 DEF Remember
<1>3. CASE GatewayError(w, r) = NoError
  <2>1. kind = "same-issuer" /\ w.manifest # DefaultManifest
    <3>1. \A k \in DOMAIN StoppedBy : StoppedBy[k] # NoError
      BY DEF StoppedBy, NoError
    <3>2. kind \notin DOMAIN StoppedBy
      BY <1>1, <1>3, <3>1, AttackFails
    <3>3. kind = "same-issuer"
      BY <3>2 DEF AttackKinds, StoppedBy
    <3> QED BY <1>1, <1>3, <3>3, AttackFails DEF NoError
  <2>2. r.id = SecondID /\ r.issuer = 1 /\ r.manifest = w.manifest
    BY <1>1, <2>1 DEF AttackReceipt
  <2>3. PICK after : after = Remember(w, r)
    OBVIOUS
  <2>4. after = [w EXCEPT !.usedReceiptIDs = w.usedReceiptIDs \cup {SecondID},
                          !.issuerSlots = w.issuerSlots \cup {<<1, w.manifest>>}]
    BY <1>3, <2>2, <2>3 DEF Remember
  <2>5. /\ w \in Worlds
        /\ w.usedReceiptIDs \cup {SecondID} \in SUBSET Int
        /\ w.issuerSlots \cup {<<1, w.manifest>>} \in SUBSET (Int \X Manifests)
    BY DEF Provisioned, Worlds, SecondID
  <2>6. after \in Worlds
    BY <2>4, <2>5 DEF Worlds
  <2>7. /\ after.usedReceiptIDs = w.usedReceiptIDs \cup {SecondID}
        /\ after.issuerSlots = w.issuerSlots \cup {<<1, w.manifest>>}
        /\ after.manifest = w.manifest /\ after.nonce = w.nonce /\ after.pkg = w.pkg
    BY <2>4, <2>5 DEF Worlds
  <2> QED BY <1>1, <2>1, <2>3, <2>6, <2>7 DEF Provisioned
<1> QED BY <1>2, <1>3

-----------------------------------------------------------------------------
(* What one request does: the world it leaves behind and its answer.       *)
Served ==
    /\ last' # NoWorld => Provisioned(last')
    /\ ReplayIsRefused'
    /\ AttacksAreIndependent'

LEMMA OtherAnswers ==
    ASSUME NEW path \in {"run", "attack", "other-service"}, NEW outcome, NEW reason,
           answer' = Answer(path, outcome, reason)
    PROVE  ReplayIsRefused' /\ AttacksAreIndependent'
<1>1. answer'.path = path
  BY DEF Answer
<1>2. path \notin DOMAIN StoppedBy /\ path # "replay" /\ path # "same-issuer"
  BY DEF StoppedBy
<1> QED BY <1>1, <1>2 DEF ReplayIsRefused, AttacksAreIndependent

LEMMA RunServed ==
    ASSUME DInv, NEW r \in Runs, Run(r)
    PROVE  Served
<1>1. PICK options : options = Options(r)
  OBVIOUS
<1>2. /\ options.ratings \in 1..(MaxRatings + 1) /\ options.manifest \in Manifests
      /\ options.provable \in BOOLEAN
  BY <1>1, OptionsType, WebDemoConstants
<1>3. last' # NoWorld => Provisioned(last')
  <2>1. CASE ~Provisionable(options)
    BY <1>1, <2>1 DEF Run, DInv
  <2>2. CASE Provisionable(options)
    <3>1. options.ratings \in 1..MaxRatings
      BY <1>2, <2>2 DEF Provisionable, MaxRatings
    <3>2. last' = AfterRun(options)
      BY <1>1, <2>2 DEF Run
    <3> QED BY <1>2, <3>1, <3>2, NewWorld
  <2> QED BY <2>1, <2>2
<1>4. \E outcome : answer' = Answer("run", outcome, NoError)
  BY DEF Run
<1> QED BY <1>3, <1>4, OtherAnswers DEF Served

LEMMA ReplayServed ==
    ASSUME DInv, Replay
    PROVE  Served
<1>1. \/ last' = last /\ answer' = Answer("replay", "bad request", NoError)
      \/ last' = last /\ answer' = Answer("replay", "rejected", "nonce-unused")
  <2>1. ASSUME last # NoWorld, last.pkg # "none" PROVE last.nonce = "used"
    BY <2>1 DEF DInv, Provisioned
  <2> QED BY <2>1 DEF Replay
<1>2. /\ answer'.path = "replay"
      /\ \/ answer'.outcome = "bad request"
         \/ answer'.outcome = "rejected" /\ answer'.reason = "nonce-unused"
  <2>1. PICK a : a = answer'
    OBVIOUS
  <2>2. \/ a = [path |-> "replay", outcome |-> "bad request", reason |-> NoError]
        \/ a = [path |-> "replay", outcome |-> "rejected", reason |-> "nonce-unused"]
    BY <1>1, <2>1 DEF Answer
  <2>3. /\ a.path = "replay"
        /\ \/ a.outcome = "bad request"
           \/ a.outcome = "rejected" /\ a.reason = "nonce-unused"
    <3>1. CASE a = [path |-> "replay", outcome |-> "bad request", reason |-> NoError]
      BY <3>1
    <3>2. CASE a = [path |-> "replay", outcome |-> "rejected", reason |-> "nonce-unused"]
      BY <3>2
    <3> QED BY <2>2, <3>1, <3>2
  <2> QED BY <2>1, <2>3
<1>3. ReplayIsRefused'
  BY <1>2 DEF ReplayIsRefused
<1>4. AttacksAreIndependent'
  <2>1. "replay" \notin DOMAIN StoppedBy
    BY DEF StoppedBy
  <2> QED BY <1>2, <2>1 DEF AttacksAreIndependent
<1> QED BY <1>1, <1>3, <1>4 DEF Served, DInv

LEMMA AttackServed ==
    ASSUME DInv, NEW kind \in AttackKinds, Attack(kind)
    PROVE  Served
<1>1. PICK w : w = CurrentWorld
  OBVIOUS
<1>2. PICK error : error = GatewayError(w, AttackReceipt(kind, w.manifest))
  OBVIOUS
<1>3. Provisioned(w)
  BY <1>1, TheCurrentWorld
<1>4. /\ last' = Remember(w, AttackReceipt(kind, w.manifest))
      /\ answer'.path = kind /\ answer'.reason = error
  BY <1>1, <1>2 DEF Attack, Answer
<1>5. Provisioned(last') /\ last'.manifest = w.manifest
  BY <1>3, <1>4, RememberKeeps
<1>6. /\ kind \in DOMAIN StoppedBy => error = StoppedBy[kind]
      /\ kind = "same-issuer" /\ w.manifest = DefaultManifest =>
            error = "issuer-once-per-epoch"
  BY <1>2, <1>3, AttackFails
<1>7. kind # "replay"
  BY DEF AttackKinds
<1> QED BY <1>4, <1>5, <1>6, <1>7 DEF Served, ReplayIsRefused, AttacksAreIndependent

LEMMA OtherServiceServed ==
    ASSUME DInv, OtherService
    PROVE  Served
<1>1. Provisioned(last')
  BY TheCurrentWorld DEF OtherService
<1>2. \E outcome : answer' = Answer("other-service", outcome, NoError)
  BY DEF OtherService
<1> QED BY <1>1, <1>2, OtherAnswers DEF Served

LEMMA UnknownAttackServed ==
    ASSUME DInv, UnknownAttack
    PROVE  Served
<1>1. Provisioned(last')
  BY TheCurrentWorld DEF UnknownAttack
<1>2. answer' = Answer("attack", "bad request", NoError)
  BY DEF UnknownAttack
<1> QED BY <1>1, <1>2, OtherAnswers DEF Served

LEMMA InitDInv == DemoInit => DInv
BY DEF DemoInit, DInv, ReplayIsRefused, AttacksAreIndependent

LEMMA ServeDInv ==
    ASSUME DInv, NEW c \in Clients, Serve(c)
    PROVE  DInv'
<1>1. PICK r \in HTTPRequests : r = requests[c]
  BY DEF DInv, Serve
<1>2. Served
  <2>1. CASE r \in Runs
    <3>1. r.path = "run"
      BY <2>1, WebDemoConstants DEF RunRequest
    <3>2. Run(r)
      BY <1>1, <3>1 DEF Serve, Handle
    <3> QED BY <2>1, <3>2, RunServed
  <2>2. CASE r \in [path : {"attack"}, kind : AttackKinds \cup {"unknown"}]
    <3>1. IF r.kind \in AttackKinds THEN Attack(r.kind) ELSE UnknownAttack
      BY <1>1, <2>2 DEF Serve, Handle
    <3> QED BY <3>1, AttackServed, UnknownAttackServed
  <2>3. CASE r \in [path : {"replay", "other-service"}]
    <3>1. Replay \/ OtherService
      BY <1>1, <2>3 DEF Serve, Handle
    <3> QED BY <3>1, ReplayServed, OtherServiceServed
  <2> QED BY <2>1, <2>2, <2>3 DEF HTTPRequests
<1>3. requests' \in [Clients -> HTTPRequests \cup {NoRequest}]
  BY DEF DInv, Serve
<1>4. server # "down"
  BY DEF DInv, Serve
<1> QED BY <1>2, <1>3, <1>4 DEF DInv, Served, Serve

LEMMA NextDInv == DInv /\ [DemoNext]_demoVars => DInv'
<1> SUFFICES ASSUME DInv, [DemoNext]_demoVars PROVE DInv'
  OBVIOUS
<1>1. ASSUME UNCHANGED <<last, answer>> PROVE ReplayIsRefused' /\ AttacksAreIndependent'
  BY <1>1 DEF DInv, ReplayIsRefused, AttacksAreIndependent
<1>2. CASE UNCHANGED demoVars
  BY <1>1, <1>2 DEF demoVars, DInv
<1>3. ASSUME NEW c \in Clients, NEW r \in HTTPRequests, Arrive(c, r) PROVE DInv'
  BY <1>1, <1>3 DEF Arrive, DInv
<1>4. ASSUME NEW c \in Clients, Lock(c) PROVE DInv'
  BY <1>1, <1>4 DEF Lock, DInv
<1>5. ASSUME NEW c \in Clients, Serve(c) PROVE DInv'
  BY <1>5, ServeDInv
<1>6. CASE Interrupt
  BY <1>1, <1>6 DEF Interrupt, DInv
<1>7. CASE Exit
  BY <1>7 DEF Exit, DInv, ReplayIsRefused, AttacksAreIndependent
<1>8. CASE Start
  BY <1>8 DEF Start, DInv, ReplayIsRefused, AttacksAreIndependent
<1> QED BY <1>2, <1>3, <1>4, <1>5, <1>6, <1>7, <1>8 DEF DemoNext

LEMMA SpecDInv == DemoSpec => []DInv
BY InitDInv, NextDInv, PTL DEF DemoSpec

(* For any number of browsers and any runs they ask for: a replay is never *)
(* authorized, and is refused for the nonce, whatever runs, attacks and    *)
(* restarts come between the run and the replay (handleReplay).            *)
THEOREM ReplaysAreRefused == DemoSpec => []ReplayIsRefused
<1>1. DInv => ReplayIsRefused
  BY DEF DInv
<1> QED BY <1>1, SpecDInv, PTL

(* Each kind of attack is stopped by the check it is meant for, in every   *)
(* world the requests before it may have left behind (craftAttack).        *)
THEOREM AttacksStayApart == DemoSpec => []AttacksAreIndependent
<1>1. DInv => AttacksAreIndependent
  BY DEF DInv
<1> QED BY <1>1, SpecDInv, PTL
=============================================================================
