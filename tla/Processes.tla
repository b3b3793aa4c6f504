----------------------------- MODULE Processes -----------------------------
(***************************************************************************)
(* cmd/agent, cmd/service and internal/store: single-shot commands that    *)
(* share six JSON files in one directory.  A command loads its files,      *)
(* decides, saves its files one by one and exits.  Before any of these     *)
(* steps it may be killed, or fail for a reason that is not modelled (a    *)
(* full disk, a malformed flag, an expired certificate).                   *)
(*                                                                         *)
(* Data.  A secret with its salt is an agent, a committee a keyset.  What  *)
(* Prove and VerifyAccess make of their inputs is the subject of Prover    *)
(* and Verifier; here is which inputs they get.                            *)
(***************************************************************************)
EXTENDS Integers, Sequences, FiniteSets, Functions

CONSTANTS
    Agents,         \* secrets
    Injected,       \* those that AGENT_SECRET and PASSPORT_SALT may name
    Manifests, DefaultManifest,
    Permitted,      \* <<certified, current>> pairs of DefaultVersionPolicy
    Nonces,         \* drawn by service challenge
    Procs,          \* processes
    Idle,           \* a process that runs no command
    NoAgent,        \* the environment names no agent
    Missing,        \* no such file
    Unreadable,     \* an empty or garbled file
    MaxKeyset,      \* bound on the committees set up
    MaxCommands,    \* bound on the commands started, an overlap counted twice
    MaxOverlaps     \* bound on those started while another one runs

ASSUME ProcessesConstants ==
    /\ Injected \subseteq Agents
    /\ DefaultManifest \in Manifests
    /\ Permitted \subseteq Manifests \X Manifests
    /\ MaxKeyset \in Nat
    /\ MaxCommands \in Nat
    /\ MaxOverlaps \in Nat

Names == {"passport", "declaration", "certificate", "service", "challenge", "proof"}
Keysets == 1..MaxKeyset
Policies == [manifest : Manifests, strict : BOOLEAN]

Passport == [agent : Agents, manifest : Manifests]
Certificate == [agent : Agents, manifest : Manifests, keyset : Keysets]
Service == [keyset : Keysets, pending : SUBSET [nonce : Nonces, policy : Policies],
            used : SUBSET Nonces]
Challenge == [nonce : Nonces, policy : Policies, keyset : Keysets]
Proof == [agent : Agents, nonce : Nonces, policy : Policies, keyset : Keysets]

Contents ==
    [passport |-> Passport, declaration |-> Passport, certificate |-> Certificate,
     service |-> Service, challenge |-> Challenge, proof |-> Proof]

(* The files a command loads, and those it saves, in order.                *)
Loads ==
    [init |-> <<>>, enroll |-> <<"passport">>, update |-> <<"passport">>,
     prove |-> <<"passport", "certificate", "challenge">>,
     challenge |-> <<"service", "declaration">>,
     verify |-> <<"service", "challenge", "proof">>]

(* Mutant: the issued nonce stays in memory.                               *)
SavesButNonces ==
    [init |-> <<"passport", "declaration">>, enroll |-> <<"certificate", "service">>,
     update |-> <<"passport", "declaration">>, prove |-> <<"proof">>,
     challenge |-> <<"challenge">>, verify |-> <<"service">>]

(* Mutant: enroll publishes the committee before the certificate is safe.  *)
SavesServiceFirst ==
    [SavesButNonces EXCEPT !.enroll = <<"service", "certificate">>,
                           !.challenge = <<"service", "challenge">>]

Saves ==
    [init |-> <<"passport", "declaration">>, enroll |-> <<"certificate", "service">>,
     update |-> <<"passport", "declaration">>, prove |-> <<"proof">>,
     challenge |-> <<"service", "challenge">>, verify |-> <<"service">>]

Commands == DOMAIN Loads

(* A running command, what it holds in memory included.                    *)
Data == (UNION {Contents[f] : f \in Names}) \cup {Missing, Unreadable}
Memories == UNION {[D -> Data] : D \in SUBSET Names}
Environments == {NoAgent} \cup Injected
Loading == {"load", "decide"}
Saving == {"truncate", "write", "exit"}

Process ==
    [cmd : Commands, env : Environments, flag : BOOLEAN, alone : BOOLEAN,
     phase : Loading \cup Saving, todo : Seq(Names), memory : Memories,
     authorized : BOOLEAN]

(* A missing or garbled file is none that decodes, and no command is Idle. *)
ASSUME ProcessesSentinels ==
    /\ \A f \in Names : Missing \notin Contents[f] /\ Unreadable \notin Contents[f]
    /\ Missing \notin [policyHash : Policies, expires : Int]
    /\ Idle \notin Process

-----------------------------------------------------------------------------
VARIABLES
    files,      \* the state directory
    procs,      \* the commands that are running
    drawn,      \* history: the agents, challenges and keysets in use
    certified,  \* history: the certificates issued
    grants,     \* history: the accesses reported as AUTHORIZED
    started,    \* the number of commands started
    overlaps,   \* the number of those started while another one ran
    progress,   \* history: how far an undisturbed sequence of commands got
    denied      \* history: an undisturbed sequence was turned down

vars == <<files, procs, drawn, certified, grants, started, overlaps, progress, denied>>

NoProgress == [steps |-> 0, env |-> NoAgent]

Init ==
    /\ files = [f \in Names |-> Missing]
    /\ procs = [p \in Procs |-> Idle]
    /\ drawn = [agents |-> Injected, challenges |-> {}, keysets |-> 0]
    /\ certified = {}
    /\ grants = <<>>
    /\ started = 0
    /\ overlaps = 0
    /\ progress = NoProgress
    /\ denied = FALSE

Readable(f) == files[f] \notin {Missing, Unreadable}

Running(p) == procs[p] # Idle
At(p, phase) == Running(p) /\ procs[p].phase = phase
Cmd(p) == procs[p].cmd
NextFile(p) == Head(procs[p].todo)
Go(p, phase, todo) == [procs[p] EXCEPT !.phase = phase, !.todo = todo]

(* run and loadAgent read the flags and the environment: -force, -strict,  *)
(* and the pair of variables that overrides the stored agent.              *)
Start(p, cmd, env, flag) ==
    /\ ~Running(p)
    /\ started + overlaps < MaxCommands
    /\ env # NoAgent => cmd \in {"enroll", "update", "prove"}
    /\ flag => cmd \in {"init", "challenge", "verify"}
    /\ LET alone == \A q \in Procs : ~Running(q)
           command == [cmd |-> cmd, env |-> env, flag |-> flag, alone |-> alone,
                       phase |-> IF Loads[cmd] = <<>> THEN "decide" ELSE "load",
                       todo |-> Loads[cmd], memory |-> <<>>, authorized |-> FALSE]
       IN /\ alone \/ (overlaps < MaxOverlaps /\ started + overlaps + 1 < MaxCommands)
          /\ overlaps' = IF alone THEN overlaps ELSE overlaps + 1
          /\ progress' = IF alone THEN progress ELSE NoProgress
          /\ procs' = [q \in Procs |->
                IF q = p THEN command
                ELSE IF Running(q) THEN [procs[q] EXCEPT !.alone = FALSE] ELSE Idle]
    /\ started' = started + 1
    /\ UNCHANGED <<files, drawn, certified, grants, denied>>

-----------------------------------------------------------------------------
(* What follows a completed enroll under one environment: update-manifest   *)
(* (or not), challenge, prove, verify.  steps is 1 when enrolled, 2 when   *)
(* challenged with a policy that allows the update, 3 when proved, 0 when  *)
(* disturbed or when one of the commands was not alone.                    *)
InSequence(p) ==
    LET steps == progress.steps
    IN /\ procs[p].alone
       /\ CASE Cmd(p) = "update" -> steps \in 1..3 /\ procs[p].env = progress.env
            [] Cmd(p) = "challenge" -> steps \in 1..3
            [] Cmd(p) = "prove" -> steps = 2 /\ procs[p].env = progress.env
            [] Cmd(p) = "verify" -> steps = 3
            [] OTHER -> FALSE

(* A command returns an error, or is killed.                               *)
Quit(p) ==
    /\ procs' = [procs EXCEPT ![p] = Idle]
    /\ progress' = NoProgress
    /\ UNCHANGED <<files, drawn, certified, grants, started, overlaps>>

Fail(p) == Quit(p) /\ denied' = (denied \/ InSequence(p))

Kill(p) == Running(p) /\ Quit(p) /\ UNCHANGED denied

(* store.Load; loadAgent does without a passport when it has an override.  *)
LoadFile(p) ==
    /\ At(p, "load")
    /\ LET f == NextFile(p)
           rest == Tail(procs[p].todo)
           optional == f = "passport" /\ procs[p].env # NoAgent
       IN IF Readable(f) \/ optional
          THEN /\ procs' = [procs EXCEPT ![p] =
                    [Go(p, IF rest = <<>> THEN "decide" ELSE "load", rest) EXCEPT
                        !.memory = [g \in DOMAIN @ \cup {f} |->
                                        IF g = f THEN files[f] ELSE @[g]]]]
               /\ UNCHANGED <<files, drawn, certified, grants, started, overlaps, progress, denied>>
          ELSE Fail(p)

Memory(p) == procs[p].memory

(* The agent a command acts for.                                           *)
LoadAgent(p) ==
    LET stored == Memory(p).passport
        manifest == IF stored \in {Missing, Unreadable} THEN DefaultManifest
                    ELSE stored.manifest
    IN [agent |-> IF procs[p].env # NoAgent THEN procs[p].env ELSE stored.agent,
        manifest |-> manifest]

(* The command has decided what to save.                                   *)
Decided(p, outputs, authorized) ==
    /\ procs' = [procs EXCEPT ![p] =
            [Go(p, "truncate", Saves[Cmd(p)]) EXCEPT
                !.memory = outputs, !.authorized = authorized]]
    /\ UNCHANGED <<files, grants, started, overlaps, progress, denied>>

PassportAndDeclaration(agent) == [passport |-> agent, declaration |-> agent]

InitPassport(p) ==
    /\ At(p, "decide") /\ Cmd(p) = "init"
    /\ IF files["passport"] # Missing /\ ~procs[p].flag THEN Fail(p)
       ELSE \E a \in Agents \ drawn.agents :
            /\ drawn' = [drawn EXCEPT !.agents = @ \cup {a}]
            /\ certified' = certified
            /\ Decided(p, PassportAndDeclaration(
                    [agent |-> a, manifest |-> DefaultManifest]), FALSE)

UpdateManifest(p, m) ==
    /\ At(p, "decide") /\ Cmd(p) = "update"
    /\ Decided(p, PassportAndDeclaration([LoadAgent(p) EXCEPT !.manifest = m]), FALSE)
    /\ UNCHANGED <<drawn, certified>>

(* Providers, gateway and committee of the day sign a certificate.         *)
Enroll(p) ==
    /\ At(p, "decide") /\ Cmd(p) = "enroll"
    /\ drawn.keysets < MaxKeyset
    /\ LET k == drawn.keysets + 1
           certificate == [agent |-> LoadAgent(p).agent,
                           manifest |-> LoadAgent(p).manifest, keyset |-> k]
       IN /\ drawn' = [drawn EXCEPT !.keysets = k]
          /\ certified' = certified \cup {certificate}
          /\ Decided(p, [certificate |-> certificate,
                         service |-> [keyset |-> k, pending |-> {}, used |-> {}]], FALSE)

IssueChallenge(p) ==
    /\ At(p, "decide") /\ Cmd(p) = "challenge"
    /\ \E n \in Nonces \ {ch.nonce : ch \in drawn.challenges} :
        LET service == Memory(p).service
            policy == [manifest |-> Memory(p).declaration.manifest,
                       strict |-> procs[p].flag]
            entry == [nonce |-> n, policy |-> policy]
        IN /\ drawn' = [drawn EXCEPT !.challenges = @ \cup {entry}]
           /\ Decided(p,
                [service |-> [service EXCEPT !.pending = @ \cup {entry}],
                 challenge |-> [nonce |-> n, policy |-> policy, keyset |-> service.keyset]],
                FALSE)
    /\ UNCHANGED certified

Allows(policy, from, to) ==
    from = to \/ (~policy.strict /\ <<from, to>> \in Permitted)

(* Mutant: whoever has the certificate file is taken for its holder.       *)
AnyHolderConvinces(me, cert, ch) ==
    /\ ch.policy.manifest = me.manifest
    /\ Allows(ch.policy, cert.manifest, me.manifest)
    /\ cert.keyset = ch.keyset

Convinces(me, cert, ch) ==
    /\ cert.agent = me.agent
    /\ ch.policy.manifest = me.manifest
    /\ Allows(ch.policy, cert.manifest, me.manifest)
    /\ cert.keyset = ch.keyset

Prove(p) ==
    /\ At(p, "decide") /\ Cmd(p) = "prove"
    /\ LET me == LoadAgent(p)
           ch == Memory(p).challenge
       IN IF Convinces(me, Memory(p).certificate, ch)
          THEN /\ Decided(p, [proof |-> [agent |-> me.agent, nonce |-> ch.nonce,
                                         policy |-> ch.policy, keyset |-> ch.keyset]], FALSE)
               /\ UNCHANGED <<drawn, certified>>
          ELSE Fail(p)

(* Mutant: the nonce stays pending, and is not marked as used.             *)
NonceStillPending(service, ch) == service

(* Mutant: the entry is marked as used, not its nonce.                     *)
ConsumeEntry(service, ch) ==
    [service EXCEPT !.pending = {e \in @ : e.nonce # ch.nonce},
                    !.used = @ \cup {[nonce |-> ch.nonce, policy |-> ch.policy]}]

(* The tables after a successful request.                                  *)
ConsumeNonce(service, ch) ==
    [service EXCEPT !.pending = {e \in @ : e.nonce # ch.nonce},
                    !.used = @ \cup {ch.nonce}]

Accepts(service, ch, proof) ==
    /\ [nonce |-> ch.nonce, policy |-> ch.policy] \in service.pending
    /\ ch.nonce \notin service.used
    /\ proof.nonce = ch.nonce /\ proof.policy = ch.policy
    /\ proof.keyset = service.keyset

(* The flag of verify says that the challenge has expired by now.          *)
VerifyAccess(p) ==
    /\ At(p, "decide") /\ Cmd(p) = "verify"
    /\ LET service == Memory(p).service
           ch == Memory(p).challenge
           proof == Memory(p).proof
       IN IF ~procs[p].flag /\ Accepts(service, ch, proof)
          THEN Decided(p, [service |-> ConsumeNonce(service, ch),
                           challenge |-> ch, proof |-> proof], TRUE)
          ELSE Decided(p, [service |-> service], FALSE)
    /\ UNCHANGED <<drawn, certified>>

-----------------------------------------------------------------------------
(* store.Save: os.WriteFile truncates, then writes.                        *)
TruncateFile(p) ==
    /\ At(p, "truncate")
    /\ files' = [files EXCEPT ![NextFile(p)] = Unreadable]
    /\ procs' = [procs EXCEPT ![p] = Go(p, "write", @.todo)]
    /\ UNCHANGED <<drawn, certified, grants, started, overlaps, progress, denied>>

(* Over what another process wrote meanwhile, the tail of the longer text  *)
(* may stay.                                                               *)
WriteFile(p) ==
    /\ At(p, "write")
    /\ LET f == NextFile(p)
           rest == Tail(procs[p].todo)
       IN /\ \/ files' = [files EXCEPT ![f] = Memory(p)[f]]
             \/ files[f] # Unreadable /\ files' = [files EXCEPT ![f] = Unreadable]
          /\ procs' = [procs EXCEPT ![p] =
                Go(p, IF rest = <<>> THEN "exit" ELSE "truncate", rest)]
    /\ UNCHANGED <<drawn, certified, grants, started, overlaps, progress, denied>>

(* The steps that are completed when p exits.                              *)
StepsAfter(p) ==
    CASE Cmd(p) = "enroll" /\ procs[p].alone /\ Readable("declaration") ->
            IF files["declaration"].manifest = Memory(p).certificate.manifest THEN 1 ELSE 0
      [] Cmd(p) = "challenge" /\ InSequence(p) ->
            LET policy == Memory(p).challenge.policy
            IN IF Allows(policy, files["certificate"].manifest, policy.manifest) THEN 2 ELSE 0
      [] Cmd(p) = "prove" /\ InSequence(p) -> 3
      [] Cmd(p) \in {"update", "verify"} /\ InSequence(p) -> 1
      [] OTHER -> 0

(* verify prints AUTHORIZED or REJECTED after its save.                    *)
Exit(p) ==
    /\ At(p, "exit")
    /\ grants' = IF procs[p].authorized THEN Append(grants, Memory(p).proof) ELSE grants
    /\ denied' = (denied \/ (/\ Cmd(p) = "verify" /\ InSequence(p)
                             /\ ~procs[p].flag /\ ~procs[p].authorized))
    /\ progress' = IF StepsAfter(p) = 0 THEN NoProgress
                   ELSE [steps |-> StepsAfter(p),
                         env |-> IF Cmd(p) = "enroll" THEN procs[p].env ELSE progress.env]
    /\ procs' = [procs EXCEPT ![p] = Idle]
    /\ UNCHANGED <<files, drawn, certified, started, overlaps>>

Next ==
    \E p \in Procs :
        \/ \E cmd \in Commands, env \in Environments, flag \in BOOLEAN :
            Start(p, cmd, env, flag)
        \/ LoadFile(p)
        \/ InitPassport(p)
        \/ \E m \in Manifests : UpdateManifest(p, m)
        \/ Enroll(p)
        \/ IssueChallenge(p)
        \/ Prove(p)
        \/ VerifyAccess(p)
        \/ TruncateFile(p)
        \/ WriteFile(p)
        \/ Exit(p)
        \/ Kill(p)

Spec == Init /\ [][Next]_vars
-----------------------------------------------------------------------------
(* Types; a readable file holds what its name says.                        *)
TypeOK ==
    /\ \A f \in Names : Readable(f) => files[f] \in Contents[f]
    /\ \A p \in Procs : Running(p) =>
        /\ procs[p].phase \in Loading \cup Saving
        /\ procs[p].authorized => Cmd(p) = "verify"
    /\ certified \subseteq Certificate
    /\ Range(grants) \subseteq Proof
    /\ progress.steps \in 0..3

(* Access is reported for agents only that some committee certified, under *)
(* the keyset the service asked for and with a manifest the policy allows, *)
(* whichever files were overwritten or torn on the way.                    *)
GrantsAreEarned ==
    \A g \in Range(grants) : \E c \in certified :
        /\ c.agent = g.agent
        /\ c.keyset = g.keyset
        /\ Allows(g.policy, c.manifest, g.policy.manifest)

(* The committee that service.json trusts is never older than the one of a *)
(* challenge or proof, and never newer than that of the certificate: an    *)
(* interrupted enroll keeps the old trust anchor and loses no nonce of it, *)
(* unless commands overlapped.                                             *)
TrustMovesForward ==
    overlaps = 0 /\ Readable("service") =>
        /\ \A f \in {"challenge", "proof"} :
            Readable(f) => files[f].keyset <= files["service"].keyset
        /\ Readable("certificate") =>
            files["service"].keyset <= files["certificate"].keyset

(* Once an enroll has completed, whatever the files went through before,   *)
(* challenge, prove and verify in a row end in AUTHORIZED, provided that   *)
(* they and the enroll run alone, that the declaration names the certified *)
(* manifest and that nothing expires.  An enroll itself may be refused:    *)
(* when an update was killed while it wrote passport.json, the secret is   *)
(* gone, and only a new init helps.                                        *)
HonestSequenceIsGranted == ~denied

-----------------------------------------------------------------------------
(* The commands as a service in the terms of OneTimeAccess.  A challenge   *)
(* is handed out when its nonce is drawn, also if the command is killed    *)
(* before it has saved it, and used up when its access is reported.        *)
TheService == "service"

Abstract == INSTANCE OneTimeAccess WITH
    Verifiers <- {TheService},
    Hashes <- Policies,
    Unissued <- Missing,
    ChallengeTTL <- 0,
    clock <- 0,
    terms <- [v \in {TheService} |-> [n \in Nonces |->
                IF \E ch \in drawn.challenges : ch.nonce = n
                THEN LET ch == CHOOSE ch \in drawn.challenges : ch.nonce = n
                     IN [policyHash |-> ch.policy, expires |-> 0]
                ELSE Missing]],
    spent <- [v \in {TheService} |-> {g.nonce : g \in Range(grants)}],
    granted <- [i \in DOMAIN grants |->
                    [verifier |-> TheService, nonce |-> grants[i].nonce,
                     policyHash |-> grants[i].policy, at |-> 0]]

(* The design notes on replay: as long as no two commands overlapped, each *)
(* challenge is granted once at most and for the policy it was handed out  *)
(* for, whatever commands were killed, at whatever step, and whatever file *)
(* was left torn or stale.                                                 *)
OneTimeAccessWhileAlone ==
    /\ Abstract!Init
    /\ [][overlaps' = 0 =>
            UNCHANGED <<drawn, grants>> \/ [Abstract!Next]_(Abstract!vars)]_vars
=============================================================================
