# Verification of zk-agent-passport

TLA+ modules for the protocol core of zk-agent-passport, TLC configurations
that check them on small instances, and proofs of their main properties for
every value of their constants. Paths are relative to the repository root;
`passport/gateway.go` stands for `src/passport/gateway.go` in `PROJECT.json`.

## 1. The system

An agent collects signed ratings from task providers; an input gateway decides
which of them count; a committee of three adds them up over secret shares and
signs a certificate; the agent proves in zero knowledge, for one challenge of
one service, that its certificate satisfies the service's policy.

| Part | Code | State | Operations | Module |
|---|---|---|---|---|
| Check reports | `passport/check.go` | statuses, first error | `Do` | `CheckReport`, `CheckRun` |
| Receipts, gateway | `passport/receipt.go`, `gateway.go` | used receipt ids, filled issuer slots | `IssueReceipt`, `ValidateReceipt` | `InputGateway` |
| Committee | `passport/committee.go`, `field/field.go` | per node: partial sums by batch | `IssueScoreCertificate` (share, accumulate, reconstruct, sign) | `Committee` |
| Issuance | `internal/demo/world.go`, `cmd/agent` (`enroll`) | the two above | receipts, gateway and committee put together | `Issuance`, `Attestation` |
| Manifests, policies | `passport/agent.go`, `policy.go`, `manifest_policy.go` | an agent's manifest; the rest are values | `UpdateManifest`, `NewPolicy`, `RebuildPolicy`, `Permits`, allowlist paths | `ManifestAllowlist`, `ManifestPolicy` |
| Prover | `passport/prove.go` | none | `Prove` and its native checks | `Prover` |
| Circuit | `zkp/circuit.go` | none | `Define` | `Circuit` |
| Verifier | `verifier/verifier.go`, `passport/challenge.go` | pending nonces, used nonces | `IssueChallenge`, `VerifyAccess`, `ExportState`, `ImportState` | `Verifier`, `OneTimeAccess` (and `Processes`) |
| Processes | `cmd/agent`, `cmd/service`, `internal/store` | six JSON files | `init`, `enroll`, `update-manifest`, `prove`, `challenge`, `verify` | `Processes` |
| Key cache | `zkp/system.go` | two key files | `LoadOrSetup` | `KeyCache` |
| Browser demo | `cmd/web`, `internal/demo/world.go` | last world, mutex | `run`, `replay`, `attack`, `otherService`, interrupt, restart | `WebDemo` |

How they interact: the gateway returns a `ValidatedReceipt`, the only input the
committee takes; the committee's certificate goes to the agent; the verifier
issues a challenge and records it; the agent's proof carries a statement; the
verifier rebuilds that statement from its own policy, challenge and keyset and
takes only the nullifier from the agent. Everything runs in one goroutine per
process; concurrency exists between invocations of the commands that share a
state directory or the key directory, and between HTTP requests of the demo
(behind a mutex, until an interrupt ends the process under them).

What makes each part correct, in one line each: a report says where the run
stopped; a receipt counts once and only if genuine; a certificate states the
total of its own receipts and is the only one of its batch; no rating is in two
certificates, and at most one of each provider in one; a policy covers its
whole version list by a mask and a root; whatever the native checks accept can
be proved and, spelling apart, nothing else; a proof means the conditions hold over the integers;
a challenge admits one request, on its own terms; a killed command loses work
but neither trust nor one-time use; all processes use the two halves of one key
pair; each HTTP request is answered for what it is.

What is hard here is not locking but *histories*: replays, expiry, a request
assembled from parts of several others, a step that fails after earlier steps
changed state, and (between processes) files overwritten or truncated.

## 2. Modules

`CheckReport` (pure operators) and `CheckRun` (the state machine of
`CheckRun.Do`). The gateway and the verifier describe their checks as a sequence
of outcomes; that the code's incremental report is the declarative one is
checked in `CheckRun` and proved at the head of `VerifierProofs`.

`Verifier`. Several verifiers with separate tables. `pending`, `used` are the
maps of `verifier.go:62-63`; `proofs` is the set of proofs that exist; `issued`
and `grants` are histories. Actions: `IssueChallenge`; `Prove` (any statement
the circuit accepts, for any challenge, also made-up ones); `VerifyAccess`,
which is `Authorize` or `Reject`; `Tick`. A request combines *any* bundle,
challenge, existing proof and declared nullifier, so every replay and mix-up of
parts is covered. Hashes are ideal: a value tagged with what it hashes. A
Groth16 proof is the statement it proves.

`OneTimeAccess` says what the service promises without nonce tables, requests
or proofs: challenges with fixed terms, each used once, on those terms, in time.
`Verifier!Abstract` is the refinement mapping.

`InputGateway`. `signatures` are the Ed25519 signatures that exist, by whatever
key over whatever receipt (a provider may also sign without `IssueReceipt`, and
so without its range check). A submission is any receipt body with any existing
signature, which covers tampering, impersonation, resubmission and late
submission.

`Committee`. One issuance runs at a time (a node is not safe for concurrent
use), but it is split where the code can return an error in the middle, because
what came before stays: `Begin`, one `ShareNext` per receipt, then `RandomFails`,
`HashFails` or `Certify`. The field is the integers modulo `P`.

`Issuance` extends `Committee` and has an instance of `InputGateway` next to it.
The receipts of a request are those the instance handed on (`HandedOn`, the
`ValidatedReceipt` that only the gateway can make), in any order, any number of
times and for any epoch; the code's callers submit each receipt once, for one
epoch, and list it once. Gateway steps happen between issuances only, because
both parts run in one goroutine. Whatever state earlier submissions and failed
issuances left behind, further receipts may be signed, submitted and requested.

`Attestation` is the abstract issuer: providers give receipts, and an
attestation states the total and number of receipts about one subject, at most
one of each provider, none of which counts in another one. `Issuance!Abstract`
maps the certificates whose request lists each receipt once; for a request that
lists one twice the promise is the caller's to keep.

`ManifestAllowlist` and `Circuit` are pure. The first has the version policies of
`manifest_policy.go`, with the loops of `BuildManifestAllowlist` and `Path` as
recursive functions (the leaves field by field, then one level after the other,
and the position halved on the way up), next to the constraint of the circuit
that walks a path; the second has the other constraints, one operator per
`assert...` method, with the range check of `assertGreaterEqual32` over
differences in a field of `Modulus` elements.

`ManifestPolicy`. An agent certified with one manifest (`certified`) updates its
`current` one, a service publishes a policy, a prover rebuilds one from the parts
it was sent (`received`), which may be mixed from several policies. What a hash
covers are the elements of a policy, not their spelling.

`Prover`. One request goes through the checks of `Prove` in their order, `step`
by `step`, and then to the proof system. `ProveAnyway` is a holder who skips the
native checks and picks signatures, positions, manifests and paths itself.
What may be asked is a constant, `Requests`, and four assumptions say what the
code makes of one: a bundle comes from `NewPolicy` or `RebuildPolicy`, which
compute its parts (no other function of `src/` makes a `PolicyBundle`); scores,
counts and times fit the range checks; a committee names the node next to each
signature, and the nodes of a keyset have different names; no statement is
`NoProof`. A list may hold any other signatures besides.

`Processes`. The six files as a function from names to contents, `Missing` or
`Unreadable`; a command loads, decides, truncates and writes one file at a time,
and exits, and may be killed between any two of these. `MaxOverlaps` commands may
start while another one runs. Only who is asked for what is kept of a
certificate, challenge or proof: what `Prove` and `VerifyAccess` make of the rest
is the subject of `Prover` and `Verifier`.

`KeyCache`. `LoadOrSetup` step by step over two files; a key is the number of the
setup that made it.

`WebDemo`. Requests arrive at any time, wait for the mutex and are served whole.
The last world is reduced to the tables of its gateway, the state of its nonce
and whether a proof of it was kept. An interrupt closes the listener; the
process ends when `ListenAndServe` returns, whatever the handlers are doing
(`Exit`), and a new one starts without a world. Which runs are asked for is a
constant, `Runs`: fields that are absent fall back to the defaults (`Options`),
and a run that cannot be provisioned leaves the last world alone. An attack of a
kind that `craftAttack` does not know is refused after the world was made.

Which module uses which: `CheckRun`, `Verifier`, `InputGateway`, `Prover` and
`WebDemo` extend `CheckReport`; `Circuit` extends `ManifestAllowlist`, `Prover`
extends `Circuit`, `ManifestPolicy` extends `ManifestAllowlist`; `Issuance`
extends `Committee` and instantiates `InputGateway`; `Verifier` and `Processes`
are mapped to `OneTimeAccess`, `Issuance` to `Attestation`; each `MC...` module gives one of them constants.

Abstractions that matter:

- Keys made with `strings.Join(..., ":")` and `+ ":" +` are tuples. Nonce keys
  are injective because recorded keys contain exactly one colon; slot and batch
  keys are because commitments, domains and epochs are decimal numbers.
- Nonces are drawn fresh from a field of 254 bits; a collision is left out.
- The clock is monotone and both issue and verification read it. In the code it
  is the wall clock; a clock set back would void the sweep argument below.
- An element of the field is identified with its canonical string. `field.ToBig`
  reads `007` and `+7` as well, so two strings may be one element. Where strings
  meet elements this is modelled: the constant `Reads` of `ManifestAllowlist` maps
  strings that are not canonical to their elements, `ToBig` reads them, hashes
  (`Commit`, `PolicyHash`, `CertificateHash`, the nullifier) and constraints
  (`AssertIsEqual`) are about elements, and the native checks of `Prover` compare
  strings. Scores, thresholds, counts and times are numbers at once, because
  `field.Less` parses both sides. Gateway, committee and verifier compare strings
  only, as their maps do, so for them two spellings of a domain are two domains:
  each has a slot, a batch and a certificate of its own.
- Field elements in a request are canonical. A malformed one makes a check fail
  with a parse error, like any other failing check.

## 3. What the runs check

| Run | Question | Bounds |
|---|---|---|
| `check_run` | Is the report what the comment on `CheckRun` says? | 6 checks, 2 errors; the gateway has 6 checks |
| `verifier` | Who gets in, what does a rejection change, may the tables be swept, and is this one-time access? | 2 services, keysets, challenges, policies; 2 proofs; clock 0..2, TTL 1, so a challenge is used early, at its last second, and late |
| `input_gateway` | What is handed on, and what blocks an honest receipt? | 2 registered issuers, an impostor under a registered name, a stranger; 2 ids, subjects, epochs; 3 signatures |
| `issuance` | Does a certificate state the total of its own receipts, and do gateway and committee together implement `Attestation`? | 2 providers, an impostor under the name of one; 6 receipts that may be signed, any 2 of them in one behaviour: two that fit, a second one of a provider, one with a taken identifier about a subject that cannot be hashed, an impostor's, one out of range; 2 epochs; field of 5 elements with totals up to 4, so partial sums wrap while totals do not; 2 receipts per request, repetitions included; clock 0..1, at which receipts expire |
| `committee_refused` | Is a batch refused as "already issued" really issued? | violated, see Findings |
| `manifest_policy` | Do `Permits`, the paths and the circuit agree on a change of manifest; is a rebuilt policy the published one? | 2 fields, 3 values, tree of 4 leaves; 7 version policies: strict, one or both fields, two lists for one mask, exactly full, the same in another order with a repetition, one too many; a task domain in 2 spellings |
| `prover` | Do the native checks and the constraints decide alike, and what does a proof mean? | 2-bit numbers in a field of 11 elements, so that a difference can wrap into or out of range; values below, at and above each boundary; 12 certificates, 5 of them with deficient or foreign signatures; 4 agents; the task domain and the keyset identifier also in a second spelling |
| `prover_checked_first` | Is every condition checked natively first? | violated, see Findings |
| `processes` | What survives kills, updates and an overlap? | 2 processes; 2 agents, one injected by the environment; 2 manifests, nonces, committees; 6 commands, enough for a grant and one more; 1 of them may start while another runs, and counts twice |
| `key_cache` | Do all commands work with one key pair? | 3 processes, 3 setups: one lost, one that replaces it, one in the way |
| `web_demo` | Does any request, or a restart, change what another is answered? | 2 connections, so one waits while the other is served; 2 manifests; 7 runs with no, 1, 3 or 4 ratings, 4 and out-of-range ones being refused; any number of restarts |
| `web_demo_attack` | Is every attack rejected? | violated, see Findings |

Challenge, identifier, subject and epoch names are interchangeable, so the
bounds need two of each: one to attack and one to attack with. `SYMMETRY` is
used for values that no constant distinguishes, and in no run with a liveness
property. Deadlock is not checked where the modelled environment really may
stop: with the clock, the nonces or the commands at their bound, or a request
done. It is checked in `key_cache` and `web_demo`, which never end.

Fairness is assumed in `web_demo` alone, the one part that serves for ever. A
handler that holds the mutex runs to its end (weak fairness of `Serve`): it waits
for nothing else and `net/http` gives it a goroutine. A waiting handler gets the
mutex although others keep taking it (strong fairness of `Lock`): `sync.Mutex`
hands itself to a waiter that has starved for a millisecond. Nothing is assumed
of `Interrupt` and `Start`: nobody has to stop the server or start it again.
`EveryRequestIsAnswered` counts a connection cut by `Exit` as answered: after
`Shutdown` has begun, `main` returns at once (`cmd/web/main.go:75-78`), so the two
seconds of grace in its goroutine are not given. The commands are
started by people; what must eventually happen there is decided outside, and
`HonestSequenceIsGranted` says as a safety property that it can.

Some properties deserve a remark. `RejectionsBurnNothing` is the availability
half of one-time access: as long as a challenge is alive and unused, an honest
proof for it is accepted, whatever was submitted before. `TwoSharesHideRating`
is weaker than the comment on `ShareRating` ("any two shares reveal nothing"):
`field.Random` never returns zero, so two shares rule out one rating (in the
real field, with probability about 2^-254), and the property says at most one.
`KeysAgree` and its companions hold *unless* a setup overlapped another command
that ran a setup or had loaded only the first file; the condition is a history
variable, and dropping it makes TLC show both ways to a mixed pair. Loads that
overlap loads, and kills anywhere, are covered without it.
`OneTimeAccessWhileAlone` and `TrustMovesForward` hold as long as no two commands
overlapped. Two `service verify` at the same time both load the pending nonce and
both print `AUTHORIZED` (`cmd/service/main.go:115-143` has no lock); TLC shows it
when the condition is dropped. `docs/design-notes.md:133-135` says that nothing
here is made for concurrent use, so it is a condition here and not a finding.
The first of the two says that each step of the commands is a step of
`OneTimeAccess` or leaves its state alone: a challenge is handed out when its
nonce is drawn, although the files that carry it may never be written, and used
up when `AUTHORIZED` is printed. Expiry is left to `Verifier` (the lifetime is 0
and the clock stands still under this mapping).
`GrantsAreEarned` needs no such condition.
`HonestSequenceIsGranted` starts at an `enroll` that completed alone; what the
files went through before it does not matter. Whether `enroll` gets through is not
counted, because it may be refused: an `update-manifest` that is killed while it
truncates `passport.json` destroys the secret, and with no other one in the
environment `loadAgent` (`cmd/agent/main.go:262`) fails from then on, until `init`
makes a new agent. The property also supposes that the declaration names the
certified manifest when the sequence starts: an injected agent that enrols with
another stored manifest is turned down, as the policy asks.
`NativeChecksNotTooStrict` names its exception. `prove.go:172` compares domain and
epoch as strings, and so do the checks of commitments and of the keyset
identifier; `circuit.go:213-214` compares elements. A provider may sign any task
domain, and a certificate for `+1001` is refused against a policy for `1001`
although a witness satisfies the circuit. The property says that a provable
request is refused for no other reason, and that the error is the one of such a
comparison (`Comparisons`, `OnlySpelling`); the bounds have a refused domain and a
refused keyset identifier. The comment of `prove.go:10-11`, that the errors "mirror
what the circuit would reject", is to be read with this exception.

## 4. Findings

`RefusedBatchesHaveCertificate` (run `committee_refused`): the error of
`passport/committee.go:30` says "a certificate was already issued for this
aggregation batch", but the check behind it, `hasBatch`, only knows that shares
were accumulated. If `CertificateHash` fails afterwards (a task domain or epoch
that is no canonical field element, `committee.go:331-334`), no certificate is
issued and every later request for the batch is refused with that text. The
harmful alternative, a score over both attempts, is excluded:
`ScoreIsTotalRating` holds with the same failures.

`EveryConditionIsCheckedFirst` (run `prover_checked_first`): `passport/prove.go:80-81`
says that every condition of the circuit is checked natively first. Signatures
are not: `selectQuorum` compares names and identifiers. After `service
challenge`, `agent enroll` (a new committee under the same names and keyset
identifier) and `agent prove`, the proof itself fails. With genuine signatures
the comment is right: `NativeChecksSuffice`.

`EveryAttackIsRejected` (run `web_demo_attack`): `cmd/web/attack.go:1-2` says each
attack receipt fails one of the gateway's checks. The same-issuer receipt is
issued for the agent's current manifest, and the gateway counts per manifest:
after a run with an updated manifest it is accepted, and the page reports
"unexpected".

## 5. What is proved

Proof modules extend the component and leave its definitions alone. They assume
only the named assumptions on constants, all evaluated by the runs. Recursive
functions are reasoned about by a least counterexample: a set of numbers that
contains zero, and the successor of each member up to `N`, contains `N` (lemma
`UpTo`, from the well-foundedness of the naturals). It gives both the solution
of a recursion and what its values have in common.

- `VerifierProofs`, which also holds the theorems of two small modules. Of a `CheckRun`: `checks = Report(outcomes)` and
  `err = FirstError(outcomes)`, because `err` is `NoError` exactly if no outcome so
  far is a failure. Of the verifiers, the inductive invariant connects `pending`,
  `used`, `issued` and `grants` per verifier and key: a recorded challenge is pending
  xor used, with its terms unchanged; a key is used iff a grant has it; entries
  have the lifetime the clock gave them; every proof satisfies the circuit. One-time
  use, granted terms, certification, harmless rejection, the diagnosis of a replay,
  the sweep and the refinement of `OneTimeAccess` follow. Of `WebDemo`: in every
  world that requests leave behind the first provider's receipt and slot are taken,
  a second receipt of that provider got in only if the agent has moved on, and a
  world that keeps a proof has used its nonce (`Provisioned`); so each attack meets
  the same first failing check as on a new world, and a replay meets the used nonce.

- `InputGatewayProofs`: the inductive invariant connects both tables with the
  history of validated receipts: an identifier is used iff a validated receipt
  has it, a slot is filled iff a validated receipt fills it. All four safety
  properties follow from it.

- `CommitteeProofs`: every node holds the batch of every certificate, and of the
  running call as soon as one receipt is shared; the running call's receipts
  match, and no certificate has its batch yet. So `hasBatch`, which asks for
  shares, also answers for certificates, and a batch is certified once and
  unmixed. A second invariant (`VInv`) is about values: the score of the batch
  in progress is congruent to the running total of the request, because what the
  three nodes add in a round sums up to the rating. The total fits the field
  (`TotalsFit`), so the score that is signed is the total. After the first round
  the nodes hold the shares of one rating, of which two leave every other rating
  possible but one. All for any modulus, receipts and failures.

  `CommitteeProofs` goes on with `Issuance`, and takes the gateway's invariant from
  an instance of `InputGatewayProofs` (a step of `Issuance` is a step of one of the
  two parts, or leaves it alone). What joins them is `FromGateway`: every receipt of
  the running call and of each certificate was handed on, by a gateway that hands on
  an identifier once and fills a slot once. Hence `ImplementsAttestation`, step by
  step: signing is `Give`; `Certify` is `Attest` when the request lists each receipt
  once, and a stutter otherwise; all else stutters. `Attestation` adds ratings up
  over a set, in an order nobody knows, and the committee along a list: `SumOfRest`
  (any member may be counted first) and `ListAddsUp` show that the totals agree.
  `IssuanceConstants` repeats the gateway's assumptions and asks that `Receipts`
  has whatever the gateway may hand on; it restricts none of the committee's
  constants by themselves, since an empty registry satisfies it.

- `KeyCacheProofs`: the verifying key is the last thing a setup writes, so it is in
  its file only if somebody got keys, and from then on both files hold the pair
  they got; a setup that was not overlapped is alone with the files and holds one
  pair. For any number of processes and setups.

- `ProcessesProofs`, one invariant per property over common ground (`Basics`: a
  readable file holds what its name says, backed by a certificate that exists
  where it matters; `Alone`: a command nobody overlapped works with the files as they
  are). `GrantsAreEarned` needs the ground only, so it holds with overlaps.
  `WhileAlone` says that no pending entry has a nonce that was used (`Once`) and in
  which order keysets stand in the files (`Trust`); the first gives the refinement of
  `OneTimeAccess`. `Sequence` follows an honest sequence from the end of its `enroll`
  through the commands after it.

- `AllowlistProofs`, about the operators alone and for any depth, number of fields
  and list: a leaf and a path lead to the root of a tree only if the leaf is in it
  (whatever the siblings), and each leaf of a tree has a path. Hence `Permits`
  mirrors the circuit, a root covers its list, and a list is too large exactly when
  it has more different pairs than the tree has leaves. Hashes are ideal.

- `ManifestPolicyProofs`: the parts of a bundle that was published or rebuilt agree
  (`BInv`); with the above, all four properties of the run follow.

- `ProverProofs`: `ChecksSuffice` and `ChecksNecessary` compare the native checks with
  the constraints, for any widths the circuit admits and any spellings: equal strings
  are equal elements, and a check that fails where the constraints hold compared
  two spellings of one element. The invariant says which checks lie behind each step
  and which check an error comes from. `ProofsMeanEligible` is in the invariant
  because a holder may prove at any step; its equations are between elements.

Only model-checked: `EveryRequestIsAnswered` of `WebDemo`, which is liveness under
fairness. Every other property of a passing run is stated by a theorem. The three
runs that expect a violation have nothing to prove.

## 6. Plan

1. Done: the core (`CheckRun`, `Verifier` with `OneTimeAccess`, `InputGateway`,
   `Committee`), the prover's side (`ManifestPolicy`, `Circuit`, `Prover`), what
   runs it (`Processes`, `KeyCache`, `WebDemo`), and the compositions
   (`Issuance` with `Attestation`, `Processes` as `OneTimeAccess`).
2. Proofs. Done: all safety and action properties and the three refinements.

Not modelled: formatting, the HTML page and its texts, and gnark itself.
`cmd/demo` and `cmd/bench` call the modelled parts in one fixed order, which is
among the orders explored here, and print or time what comes out; they keep no
state and decide nothing. `Setup` and the verifier's parsing of malformed field
elements are reduced to the errors they return. `VerifyCommitteeSignature` is
for tools and tests. A `CommitteeNode` is lost with its process: nothing saves
one, so there is no recovery of a committee to model.
