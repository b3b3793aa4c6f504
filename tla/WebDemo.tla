------------------------------ MODULE WebDemo ------------------------------
(***************************************************************************)
(* cmd/web and internal/demo: the browser demo.  HTTP requests arrive      *)
(* concurrently and are handled one at a time behind a mutex; a run        *)
(* provisions a new world, and the other requests work on the last one.    *)
(* All of it is in memory: a server that was stopped and started again     *)
(* knows no world.                                                         *)
(*                                                                         *)
(* Data.  A world is what its requests can tell apart: how many providers  *)
(* rated, the certified and the current manifest, whether the agent can    *)
(* satisfy the policy, and the tables of its gateway and its verifier.     *)
(***************************************************************************)
EXTENDS CheckReport

CONSTANTS
    Clients,        \* HTTP connections
    Manifests, DefaultManifest,
    Nobody,         \* the mutex is free
    NoRequest,      \* a client that waits for nothing
    NoAnswer,       \* nothing answered yet
    Absent,         \* a field that is absent from the request
    Runs,           \* the runs that are asked for: a small set
    NoWorld         \* server.last is nil

MaxRatings == 3
AttackKinds == {"forged", "unregistered", "duplicate", "same-issuer", "expired"}

(* What a run is configured with: how many ratings, or none for those of   *)
(* DefaultOptions; the manifest the agent moves to, or none for the one it *)
(* has; whether each rating is in range and the allowlists fit the tree;   *)
(* and, for the threshold, the minimum count and the allowlists, whether   *)
(* the certificate satisfies them.                                         *)
RunRequest ==
    [path : {"run"}, ratings : 0..(MaxRatings + 1),
     manifest : Manifests \cup {Absent}, inBounds : BOOLEAN, provable : BOOLEAN]
ASSUME WebDemoConstants ==
    /\ DefaultManifest \in Manifests
    /\ Runs \subseteq RunRequest

DefaultRun ==
    [path |-> "run", ratings |-> MaxRatings, manifest |-> DefaultManifest,
     inBounds |-> TRUE, provable |-> TRUE]

(* Zero values fall back to the defaults.                                  *)
Options(r) ==
    [r EXCEPT !.ratings = IF @ = 0 THEN DefaultRun.ratings ELSE @,
              !.manifest = IF @ = Absent THEN DefaultRun.manifest ELSE @]

(* NewWorldWith returns an error, and nothing of the world is kept.        *)
Provisionable(r) == r.ratings <= MaxRatings /\ r.inBounds
HTTPRequests ==
    Runs \cup [path : {"attack"}, kind : AttackKinds \cup {"unknown"}]
    \cup [path : {"replay", "other-service"}]

VARIABLES
    last,       \* server.last: the last world with its proof, if any
    requests,   \* the request each client waits for
    mutex,      \* server.mu
    answer,     \* what was answered last
    server      \* "up", "stopping" after an interrupt, or "down"

demoVars == <<last, requests, mutex, answer, server>>

DemoInit ==
    /\ last = NoWorld
    /\ requests = [c \in Clients |-> NoRequest]
    /\ mutex = Nobody
    /\ answer = NoAnswer
    /\ server = "up"

-----------------------------------------------------------------------------
(* NewWorldWith, without a proof: provider i has submitted receipt i about *)
(* the certified manifest; then the agent moves to its current one.        *)
World(r) ==
    [manifest |-> r.manifest, provable |-> r.provable,
     usedReceiptIDs |-> 1..r.ratings,
     issuerSlots |-> (1..r.ratings) \X {DefaultManifest},
     nonce |-> "none", pkg |-> "none"]

(* Mutant: the run's proof is accepted by a verifier other than the        *)
(* world's, which never consumes the nonce.                                *)
AfterRunElsewhere(r) ==
    [World(r) EXCEPT !.nonce = "pending", !.pkg = IF r.provable THEN "own" ELSE "none"]

(* execute: challenge, proof and access in the new world.                  *)
AfterRun(r) ==
    IF r.provable THEN [World(r) EXCEPT !.nonce = "used", !.pkg = "own"]
    ELSE [World(r) EXCEPT !.nonce = "pending"]

CurrentWorld == IF last = NoWorld THEN World(DefaultRun) ELSE last

(* craftAttack.  Receipts and providers are numbers: those of the world's  *)
(* own are 1..MaxRatings, the attacks bring new ones.                      *)
ForgedID == 11
StrangerID == 12
SecondID == 13
OldID == 14
Stranger == 9

AttackReceipt(kind, manifest) ==
    LET honest == [id |-> 1, issuer |-> 1, manifest |-> DefaultManifest,
                   signed |-> TRUE, alive |-> TRUE]
        issued == [honest EXCEPT !.manifest = manifest]
    IN CASE kind = "forged" -> [honest EXCEPT !.id = ForgedID, !.signed = FALSE]
         [] kind = "unregistered" ->
                [issued EXCEPT !.id = StrangerID, !.issuer = Stranger]
         [] kind = "duplicate" -> honest
         [] kind = "same-issuer" -> [issued EXCEPT !.id = SecondID]
         [] kind = "expired" -> [issued EXCEPT !.id = OldID, !.issuer = 2, !.alive = FALSE]

(* What the gateway of world w makes of receipt r (see InputGateway); the  *)
(* ratings are all in range.                                               *)
GatewayError(w, r) ==
    LET check(ok, key) == IF ok THEN NoError ELSE key
    IN FirstError(<<
        check(r.issuer \in 1..MaxRatings, "issuer-registered"),
        check(r.signed, "receipt-signature"),
        check(r.alive, "receipt-unexpired"),
        check(r.id \notin w.usedReceiptIDs, "receipt-unused"),
        check(<<r.issuer, r.manifest>> \notin w.issuerSlots, "issuer-once-per-epoch")>>)

(* Mutant: every submission is remembered.                                 *)
RememberAlways(w, r) ==
    [w EXCEPT !.usedReceiptIDs = @ \cup {r.id},
              !.issuerSlots = @ \cup {<<r.issuer, r.manifest>>}]

Remember(w, r) ==
    IF GatewayError(w, r) # NoError THEN w
    ELSE [w EXCEPT !.usedReceiptIDs = @ \cup {r.id},
                   !.issuerSlots = @ \cup {<<r.issuer, r.manifest>>}]

-----------------------------------------------------------------------------
Answer(path, outcome, reason) == [path |-> path, outcome |-> outcome, reason |-> reason]

Run(r) ==
    IF ~Provisionable(Options(r))
    THEN last' = last /\ answer' = Answer("run", "bad request", NoError)
    ELSE /\ last' = AfterRun(Options(r))
         /\ answer' = Answer("run", IF r.provable THEN "authorized" ELSE "rejected", NoError)

(* The proof kept by the last run, for the challenge of the last run.      *)
Replay ==
    IF last = NoWorld \/ last.pkg = "none"
    THEN last' = last /\ answer' = Answer("replay", "bad request", NoError)
    ELSE IF last.nonce = "used"
    THEN last' = last /\ answer' = Answer("replay", "rejected", "nonce-unused")
    ELSE /\ last' = [last EXCEPT !.nonce = "used"]
         /\ answer' = Answer("replay", "authorized", NoError)

Attack(kind) ==
    LET r == AttackReceipt(kind, CurrentWorld.manifest)
        error == GatewayError(CurrentWorld, r)
    IN /\ last' = Remember(CurrentWorld, r)
       /\ answer' = Answer(kind, IF error = NoError THEN "ok" ELSE "rejected", error)

(* craftAttack refuses any other kind, when the world is there already.    *)
UnknownAttack ==
    /\ last' = CurrentWorld
    /\ answer' = Answer("attack", "bad request", NoError)

(* A verifier of its own, used for one request.                            *)
OtherService ==
    /\ last' = CurrentWorld
    /\ answer' = Answer("other-service",
                        IF CurrentWorld.provable THEN "ok" ELSE "bad request", NoError)

Handle(r) ==
    CASE r.path = "run" -> Run(r)
      [] r.path = "replay" -> Replay
      [] r.path = "attack" -> IF r.kind \in AttackKinds THEN Attack(r.kind) ELSE UnknownAttack
      [] r.path = "other-service" -> OtherService

(* A body that does not parse is refused before the mutex and is left out. *)
Arrive(c, r) ==
    /\ server = "up"
    /\ requests[c] = NoRequest
    /\ requests' = [requests EXCEPT ![c] = r]
    /\ UNCHANGED <<last, mutex, answer, server>>

Lock(c) ==
    /\ requests[c] # NoRequest
    /\ mutex = Nobody
    /\ mutex' = c
    /\ UNCHANGED <<last, requests, answer, server>>

(* Mutant: a handler that returns an error forgets to unlock.              *)
ReleaseOnSuccess(c) ==
    mutex' = IF answer'.outcome = "bad request" THEN c ELSE Nobody

(* defer s.mu.Unlock().                                                    *)
Release(c) == mutex' = Nobody

Serve(c) ==
    /\ mutex = c
    /\ requests[c] # NoRequest
    /\ Handle(requests[c])
    /\ requests' = [requests EXCEPT ![c] = NoRequest]
    /\ Release(c)
    /\ UNCHANGED server

(* Shutdown closes the listener; the handlers go on.                       *)
Interrupt ==
    /\ server = "up"
    /\ server' = "stopping"
    /\ UNCHANGED <<last, requests, mutex, answer>>

(* ListenAndServe returns as soon as Shutdown begins, and main with it: no *)
(* handler is waited for, and the connections of those that run are cut.   *)
Exit ==
    /\ server = "stopping"
    /\ server' = "down"
    /\ requests' = [c \in Clients |-> NoRequest]
    /\ mutex' = Nobody
    /\ answer' = NoAnswer
    /\ UNCHANGED last

(* The command is run again.                                               *)
Start ==
    /\ server = "down"
    /\ server' = "up"
    /\ last' = NoWorld
    /\ UNCHANGED <<requests, mutex, answer>>

DemoNext ==
    \/ \E c \in Clients :
        \/ \E r \in HTTPRequests : Arrive(c, r)
        \/ Lock(c)
        \/ Serve(c)
    \/ Interrupt
    \/ Exit
    \/ Start

(* A handler that holds the mutex runs to its end; sync.Mutex hands itself *)
(* to a waiter that has been starved.                                      *)
Fairness == \A c \in Clients : WF_demoVars(Serve(c)) /\ SF_demoVars(Lock(c))

DemoSpec == DemoInit /\ [][DemoNext]_demoVars
FairDemoSpec == DemoSpec /\ Fairness

-----------------------------------------------------------------------------
(* A replay is never authorized, and is refused because the nonce is used, *)
(* whatever runs, attacks and visits came between the run and the replay.  *)
ReplayIsRefused ==
    answer # NoAnswer /\ answer.path = "replay" =>
        \/ answer.outcome = "bad request"
        \/ answer.outcome = "rejected" /\ answer.reason = "nonce-unused"

(* "attacks can be repeated in any order": whatever requests came before,  *)
(* each kind is stopped by the check it is meant for; a second rating by   *)
(* one provider is, as long as the agent has kept its certified manifest.  *)
StoppedBy ==
    [forged |-> "receipt-signature", unregistered |-> "issuer-registered",
     duplicate |-> "receipt-unused", expired |-> "receipt-unexpired"]

AttacksAreIndependent ==
    answer # NoAnswer =>
        /\ answer.path \in DOMAIN StoppedBy => answer.reason = StoppedBy[answer.path]
        /\ answer.path = "same-issuer" /\ last.manifest = DefaultManifest =>
            answer.reason = "issuer-once-per-epoch"

(* The comment on the attacks: each receipt fails a check of the gateway.  *)
EveryAttackIsRejected ==
    answer # NoAnswer /\ answer.path \in AttackKinds => answer.outcome = "rejected"

(* Every request is answered, however many others arrive, unless the       *)
(* server is interrupted, and then its connection is closed.               *)
EveryRequestIsAnswered ==
    \A c \in Clients : requests[c] # NoRequest ~> requests[c] = NoRequest
=============================================================================
