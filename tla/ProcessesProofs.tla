------------------------- MODULE ProcessesProofs -------------------------
(***************************************************************************)
(* The promises of the commands for any agents, manifests, nonces and      *)
(* processes, and any number of commands, kills and overlaps.              *)
(***************************************************************************)
EXTENDS Processes, SequenceTheorems, TLAPS

-----------------------------------------------------------------------------
(* Types.  What a memory or a file holds is Data; which of it is said by   *)
(* the parts of the invariant.                                             *)
Entries == [nonce : Nonces, policy : Policies]

Types ==
    /\ files \in [Names -> Data]
    /\ procs \in [Procs -> Process \cup {Idle}]
    /\ drawn \in [agents : SUBSET Agents, challenges : SUBSET Entries,
                  keysets : 0..MaxKeyset]
    /\ certified \subseteq Certificate
    /\ grants \in Seq(Proof)
    /\ overlaps \in Nat
    /\ progress \in [steps : 0..3, env : Environments]

-----------------------------------------------------------------------------
(* A proof that somebody's certificate backs.                              *)
Earned(proof, certificates) ==
    \E c \in certificates :
        /\ c.agent = proof.agent
        /\ c.keyset = proof.keyset
        /\ Allows(proof.policy, c.manifest, proof.policy.manifest)

Entry(ch) == [nonce |-> ch.nonce, policy |-> ch.policy]

(* What a file of this name, or its copy in a memory, is known to hold.    *)
Good(f, content, certificates, challenges) ==
    /\ content \in Contents[f]
    /\ f = "certificate" => content \in certificates
    /\ f = "proof" => Earned(content, certificates)
    /\ f = "service" => /\ content.pending \subseteq challenges
                        /\ content.used \subseteq {ch.nonce : ch \in challenges}

FilesAreGood ==
    \A f \in Names : Readable(f) => Good(f, files[f], certified, drawn.challenges)

MemoryIsGood(p) ==
    \A f \in DOMAIN Memory(p) :
        \/ Good(f, Memory(p)[f], certified, drawn.challenges)
        \/ f = "passport" /\ procs[p].env # NoAgent /\ Memory(p)[f] \in {Missing, Unreadable}

(* Where a command stands: what is left to load or to save.                *)
OnTrack(p) ==
    LET todo == procs[p].todo
        loads == Range(Loads[Cmd(p)])
        saves == Range(Saves[Cmd(p)])
    IN /\ procs[p].phase \in Loading =>
            /\ ~procs[p].authorized
            /\ todo # <<>> <=> procs[p].phase = "load"
            /\ Range(todo) \subseteq loads
            /\ loads \subseteq Range(todo) \cup DOMAIN Memory(p)
       /\ procs[p].phase \in Saving =>
            /\ todo # <<>> <=> procs[p].phase # "exit"
            /\ todo \in {Saves[Cmd(p)], Tail(Saves[Cmd(p)]), <<>>}
            /\ saves \subseteq DOMAIN Memory(p)
       /\ procs[p].authorized =>
            /\ Cmd(p) = "verify"
            /\ "proof" \in DOMAIN Memory(p)
            /\ Entry(Memory(p).proof) \in drawn.challenges

NoncesAreFresh == \A c, d \in drawn.challenges : c.nonce = d.nonce => c = d

GrantsAreDrawn ==
    \A g \in Range(grants) : Earned(g, certified) /\ Entry(g) \in drawn.challenges

Basics ==
    /\ Types
    /\ FilesAreGood
    /\ \A p \in Procs : Running(p) => MemoryIsGood(p) /\ OnTrack(p)
    /\ NoncesAreFresh
    /\ GrantsAreDrawn

-----------------------------------------------------------------------------
(* A command that is alone works with the files as they are.               *)
Undisturbed(p) ==
    LET saved == Range(Saves[Cmd(p)]) \ Range(procs[p].todo)
    IN /\ \A q \in Procs \ {p} : ~Running(q)
       /\ procs[p].phase \in Loading =>
            \A f \in DOMAIN Memory(p) : Memory(p)[f] = files[f]
       /\ procs[p].phase \in Saving =>
            \A f \in saved : files[f] = Memory(p)[f]
       /\ procs[p].phase = "write" => files[NextFile(p)] = Unreadable

Alone ==
    \A p \in Procs : Running(p) =>
        /\ overlaps = 0 => procs[p].alone
        /\ procs[p].alone => Undisturbed(p)

-----------------------------------------------------------------------------
(* One-time access: nobody holds a pending entry whose nonce was used for  *)
(* a grant.                                                                *)
Spent == {g.nonce : g \in Range(grants)}
Unspent(service, spent) == \A e \in service.pending : e.nonce \notin spent

Once ==
    /\ Readable("service") => Unspent(files["service"], Spent)
    /\ \A p \in Procs : Running(p) =>
        /\ "service" \in DOMAIN Memory(p) => Unspent(Memory(p).service, Spent)
        /\ procs[p].authorized =>
            /\ Memory(p).proof.nonce \notin Spent
            /\ \A e \in Memory(p).service.pending : e.nonce # Memory(p).proof.nonce

(* The trust anchor: where each keyset stands in a directory F, and the    *)
(* one a command is about to save.                                         *)
Dated == {"certificate", "service", "challenge", "proof"}
Holds(F, f) == F[f] \notin {Missing, Unreadable}

Ordered(F, keyset) ==
    /\ \A f \in {"challenge", "proof"} : Holds(F, f) => F[f].keyset <= keyset
    /\ Holds(F, "certificate") => keyset <= F["certificate"].keyset

Numbered(p) ==
    /\ \A f \in Dated \cap Range(Saves[Cmd(p)]) : Memory(p)[f].keyset <= drawn.keysets
    /\ Cmd(p) = "enroll" =>
        /\ Memory(p).certificate.keyset = drawn.keysets
        /\ Memory(p).service.keyset = drawn.keysets
    /\ Cmd(p) \in {"challenge", "verify"} =>
        /\ Ordered(files, Memory(p).service.keyset)
        /\ Readable("service") => files["service"].keyset = Memory(p).service.keyset
    /\ Cmd(p) = "challenge" => Memory(p).challenge.keyset = Memory(p).service.keyset
    /\ Cmd(p) = "prove" /\ Readable("service") =>
        Memory(p).proof.keyset <= files["service"].keyset

Trust ==
    /\ \A f \in Dated : Readable(f) => files[f].keyset <= drawn.keysets
    /\ Readable("service") => Ordered(files, files["service"].keyset)
    /\ \A p \in Procs : Running(p) /\ procs[p].phase \in Saving => Numbered(p)

WhileAlone == overlaps = 0 => Once /\ Trust

-----------------------------------------------------------------------------
(* The honest sequence under an environment.                               *)
OwnManifest(F) == IF Holds(F, "passport") THEN F["passport"].manifest ELSE DefaultManifest

Enrolled(F, env) ==
    /\ Holds(F, "declaration") /\ Holds(F, "certificate") /\ Holds(F, "service")
    /\ F["service"].keyset = F["certificate"].keyset
    /\ IF env = NoAgent
       THEN Holds(F, "passport") /\ F["passport"].agent = F["certificate"].agent
       ELSE F["certificate"].agent = env
    /\ F["declaration"].manifest = OwnManifest(F)

Challenged(F) ==
    LET ch == F["challenge"]
    IN /\ Holds(F, "challenge")
       /\ ch.policy.manifest = F["declaration"].manifest
       /\ Allows(ch.policy, F["certificate"].manifest, ch.policy.manifest)
       /\ ch.keyset = F["service"].keyset
       /\ Entry(ch) \in F["service"].pending
       /\ ch.nonce \notin F["service"].used

Proved(F) ==
    /\ Holds(F, "proof")
    /\ F["proof"].nonce = F["challenge"].nonce
    /\ F["proof"].policy = F["challenge"].policy
    /\ F["proof"].keyset = F["service"].keyset

Ready(F, steps, env) ==
    /\ steps >= 1 => Enrolled(F, env)
    /\ steps >= 2 => Challenged(F)
    /\ steps >= 3 => Proved(F)

(* The directory when p has saved all its files.                           *)
View(p) ==
    [f \in Names |-> IF f \in Range(Saves[Cmd(p)]) THEN Memory(p)[f] ELSE files[f]]

EnvAhead(p) == IF Cmd(p) = "enroll" THEN procs[p].env ELSE progress.env

(* What a command that saves alone will leave.                             *)
Foreseen(p) ==
    /\ Ready(View(p), StepsAfter(p), EnvAhead(p))
    /\ Cmd(p) = "verify" /\ InSequence(p) => procs[p].flag \/ procs[p].authorized

Settled ==
    progress.steps # 0 =>
        /\ \A p \in Procs : Running(p) => procs[p].alone
        /\ (\A p \in Procs : Running(p) => procs[p].phase \in Loading) =>
            Ready(files, progress.steps, progress.env)

Sequence ==
    /\ ~denied
    /\ Settled
    /\ \A p \in Procs :
        Running(p) /\ procs[p].alone /\ procs[p].phase \in Saving => Foreseen(p)

-----------------------------------------------------------------------------
(* Sequences of names, and the two tables.                                 *)
LEMMA HeadAndTail ==
    ASSUME NEW S, NEW s \in Seq(S), s # <<>>
    PROVE  /\ Head(s) \in S /\ Tail(s) \in Seq(S)
           /\ Range(s) = {Head(s)} \cup Range(Tail(s))
<1>1. Head(s) \in S /\ Tail(s) \in Seq(S) /\ Len(Tail(s)) = Len(s) - 1
  BY HeadTailProperties
<1>2. /\ Len(s) \in Nat /\ Len(s) >= 1 /\ DOMAIN s = 1..Len(s)
      /\ DOMAIN Tail(s) = 1..(Len(s) - 1)
      /\ s[1] = Head(s)
      /\ \A i \in 1..(Len(s) - 1) : Tail(s)[i] = s[i + 1]
  BY <1>1, EmptySeq, LenProperties
<1>3. ASSUME NEW x \in Range(s) PROVE x \in {Head(s)} \cup Range(Tail(s))
  <2>1. PICK i \in 1..Len(s) : x = s[i]
    BY <1>2 DEF Range
  <2>2. CASE i = 1
    BY <2>1, <2>2, <1>2
  <2>3. CASE i # 1
    <3>1. i - 1 \in 1..(Len(s) - 1) /\ (i - 1) + 1 = i
      BY <2>3, <1>2
    <3> QED BY <3>1, <2>1, <1>2 DEF Range
  <2> QED BY <2>2, <2>3
<1>4. Head(s) \in Range(s)
  BY <1>2 DEF Range
<1>5. ASSUME NEW x \in Range(Tail(s)) PROVE x \in Range(s)
  <2>1. PICK i \in 1..(Len(s) - 1) : x = Tail(s)[i]
    BY <1>2 DEF Range
  <2>2. i + 1 \in 1..Len(s)
    BY <1>2
  <2> QED BY <2>1, <2>2, <1>2 DEF Range
<1> QED BY <1>1, <1>3, <1>4, <1>5

LEMMA CommandNames ==
    Commands = {"init", "enroll", "update", "prove", "challenge", "verify"}
BY DEF Commands, Loads

LEMMA OneName ==
    ASSUME NEW a \in Names
    PROVE  /\ <<a>> \in Seq(Names) /\ <<a>> # <<>>
           /\ Range(<<a>>) = {a} /\ Head(<<a>>) = a /\ Tail(<<a>>) = <<>>
BY DEF Range

LEMMA TwoNames ==
    ASSUME NEW a \in Names, NEW b \in Names
    PROVE  /\ <<a, b>> \in Seq(Names) /\ <<a, b>> # <<>>
           /\ Range(<<a, b>>) = {a, b} /\ Head(<<a, b>>) = a /\ Tail(<<a, b>>) = <<b>>
<1>1. Range(<<a, b>>) = {a, b}
  BY DEF Range
<1> QED BY <1>1

LEMMA ThreeNames ==
    ASSUME NEW a \in Names, NEW b \in Names, NEW c \in Names
    PROVE  /\ <<a, b, c>> \in Seq(Names) /\ <<a, b, c>> # <<>>
           /\ Range(<<a, b, c>>) = {a, b, c}
<1>1. Range(<<a, b, c>>) = {a, b, c}
  BY DEF Range
<1> QED BY <1>1

LEMMA NoNames == <<>> \in Seq(Names) /\ Range(<<>>) = {}
BY DEF Range

LEMMA TheNames ==
    /\ "passport" \in Names /\ "declaration" \in Names /\ "certificate" \in Names
    /\ "service" \in Names /\ "challenge" \in Names /\ "proof" \in Names
    /\ \A f \in Names : f \in {"passport", "declaration", "certificate",
                              "service", "challenge", "proof"}
BY DEF Names

LEMMA LoadsAre ==
    /\ \A cmd \in Commands : Loads[cmd] \in Seq(Names)
    /\ \A cmd \in Commands : Loads[cmd] = <<>> <=> cmd = "init"
    /\ Range(Loads["init"]) = {}
    /\ Range(Loads["enroll"]) = {"passport"}
    /\ Range(Loads["update"]) = {"passport"}
    /\ Range(Loads["prove"]) = {"passport", "certificate", "challenge"}
    /\ Range(Loads["challenge"]) = {"service", "declaration"}
    /\ Range(Loads["verify"]) = {"service", "challenge", "proof"}
<1>1. /\ Loads["init"] = <<>>
      /\ Loads["enroll"] = <<"passport">> /\ Loads["update"] = <<"passport">>
      /\ Loads["prove"] = <<"passport", "certificate", "challenge">>
      /\ Loads["challenge"] = <<"service", "declaration">>
      /\ Loads["verify"] = <<"service", "challenge", "proof">>
  BY DEF Loads
<1>2. /\ Loads["enroll"] \in Seq(Names) /\ Loads["enroll"] # <<>>
      /\ Range(Loads["enroll"]) = {"passport"}
      /\ Loads["update"] \in Seq(Names) /\ Loads["update"] # <<>>
      /\ Range(Loads["update"]) = {"passport"}
      /\ Loads["init"] \in Seq(Names) /\ Range(Loads["init"]) = {}
  BY <1>1, NoNames, OneName, TheNames
<1>3. /\ Loads["prove"] \in Seq(Names) /\ Loads["prove"] # <<>>
      /\ Range(Loads["prove"]) = {"passport", "certificate", "challenge"}
  BY <1>1, ThreeNames, TheNames
<1>4. /\ Loads["challenge"] \in Seq(Names) /\ Loads["challenge"] # <<>>
      /\ Range(Loads["challenge"]) = {"service", "declaration"}
  <2>1. "service" \in Names /\ "declaration" \in Names
    BY TheNames
  <2>2. /\ <<"service", "declaration">> \in Seq(Names)
        /\ <<"service", "declaration">> # <<>>
        /\ Range(<<"service", "declaration">>) = {"service", "declaration"}
    BY <2>1, TwoNames
  <2> QED BY <1>1, <2>2
<1>5. /\ Loads["verify"] \in Seq(Names) /\ Loads["verify"] # <<>>
      /\ Range(Loads["verify"]) = {"service", "challenge", "proof"}
  BY <1>1, ThreeNames, TheNames
<1> HIDE DEF Loads
<1> QED BY <1>1, <1>2, <1>3, <1>4, <1>5, CommandNames

LEMMA SavesAre ==
    /\ \A cmd \in Commands : Saves[cmd] \in Seq(Names) /\ Saves[cmd] # <<>>
    /\ Range(Saves["init"]) = {"passport", "declaration"}
    /\ Tail(Saves["init"]) = <<"declaration">>
    /\ Range(Saves["update"]) = {"passport", "declaration"}
    /\ Tail(Saves["update"]) = <<"declaration">>
    /\ Range(Saves["enroll"]) = {"certificate", "service"}
    /\ Tail(Saves["enroll"]) = <<"service">>
    /\ Range(Saves["prove"]) = {"proof"} /\ Tail(Saves["prove"]) = <<>>
    /\ Range(Saves["challenge"]) = {"service", "challenge"}
    /\ Tail(Saves["challenge"]) = <<"challenge">>
    /\ Range(Saves["verify"]) = {"service"} /\ Tail(Saves["verify"]) = <<>>
<1>1. /\ Saves["init"] = <<"passport", "declaration">>
      /\ Saves["update"] = <<"passport", "declaration">>
      /\ Saves["enroll"] = <<"certificate", "service">>
      /\ Saves["prove"] = <<"proof">>
      /\ Saves["challenge"] = <<"service", "challenge">>
      /\ Saves["verify"] = <<"service">>
  BY DEF Saves
<1>2. /\ Saves["init"] \in Seq(Names) /\ Saves["init"] # <<>>
      /\ Range(Saves["init"]) = {"passport", "declaration"}
      /\ Tail(Saves["init"]) = <<"declaration">>
      /\ Saves["update"] \in Seq(Names) /\ Saves["update"] # <<>>
      /\ Range(Saves["update"]) = {"passport", "declaration"}
      /\ Tail(Saves["update"]) = <<"declaration">>
  BY <1>1, TwoNames, TheNames
<1>3. /\ Saves["enroll"] \in Seq(Names) /\ Saves["enroll"] # <<>>
      /\ Range(Saves["enroll"]) = {"certificate", "service"}
      /\ Tail(Saves["enroll"]) = <<"service">>
  BY <1>1, TwoNames, TheNames
<1>4. /\ Saves["challenge"] \in Seq(Names) /\ Saves["challenge"] # <<>>
      /\ Range(Saves["challenge"]) = {"service", "challenge"}
      /\ Tail(Saves["challenge"]) = <<"challenge">>
  BY <1>1, TwoNames, TheNames
<1>5. /\ Saves["prove"] \in Seq(Names) /\ Saves["prove"] # <<>>
      /\ Range(Saves["prove"]) = {"proof"} /\ Tail(Saves["prove"]) = <<>>
      /\ Saves["verify"] \in Seq(Names) /\ Saves["verify"] # <<>>
      /\ Range(Saves["verify"]) = {"service"} /\ Tail(Saves["verify"]) = <<>>
  BY <1>1, OneName, TheNames
<1> HIDE DEF Saves
<1> QED BY <1>1, <1>2, <1>3, <1>4, <1>5, CommandNames

(* What is left to save after the file at hand.                            *)
LEMMA RestOfSaves ==
    ASSUME NEW cmd \in Commands, NEW todo \in {Saves[cmd], Tail(Saves[cmd]), <<>>},
           todo # <<>>
    PROVE  /\ todo \in Seq(Names) /\ Tail(todo) \in Seq(Names)
           /\ Head(todo) \in Names /\ Head(todo) \in Range(Saves[cmd])
           /\ Tail(todo) \in {Saves[cmd], Tail(Saves[cmd]), <<>>}
           /\ Range(todo) = {Head(todo)} \cup Range(Tail(todo))
           /\ Range(todo) \subseteq Range(Saves[cmd])
           /\ Head(todo) \notin Range(Tail(todo))
<1>1. Saves[cmd] \in Seq(Names) /\ Saves[cmd] # <<>>
  BY SavesAre
<1>2. /\ Tail(Saves[cmd]) \in Seq(Names)
      /\ Range(Saves[cmd]) = {Head(Saves[cmd])} \cup Range(Tail(Saves[cmd]))
  BY <1>1, HeadAndTail
<1>3. todo \in Seq(Names) /\ Range(todo) \subseteq Range(Saves[cmd])
  BY <1>1, <1>2, NoNames
<1>4. /\ Head(todo) \in Names /\ Tail(todo) \in Seq(Names)
      /\ Range(todo) = {Head(todo)} \cup Range(Tail(todo))
  BY <1>3, HeadAndTail
<1>5. Tail(Saves[cmd]) # <<>> => Tail(Tail(Saves[cmd])) = <<>>
  BY SavesAre, CommandNames, OneName, TheNames
<1>6. Tail(todo) \in {Saves[cmd], Tail(Saves[cmd]), <<>>}
  BY <1>5
<1>7. Head(todo) \notin Range(Tail(todo))
  <2>1. CASE todo = Tail(Saves[cmd])
    BY <2>1, <1>5, NoNames
  <2>2. CASE todo = Saves[cmd]
    <3>1. /\ Head(Saves["init"]) = "passport" /\ Head(Saves["update"]) = "passport"
          /\ Head(Saves["enroll"]) = "certificate" /\ Head(Saves["challenge"]) = "service"
      BY DEF Saves
    <3>2. /\ Range(Tail(Saves["init"])) = {"declaration"}
          /\ Range(Tail(Saves["update"])) = {"declaration"}
          /\ Range(Tail(Saves["enroll"])) = {"service"}
          /\ Range(Tail(Saves["challenge"])) = {"challenge"}
          /\ Range(Tail(Saves["prove"])) = {}
          /\ Range(Tail(Saves["verify"])) = {}
      BY SavesAre, OneName, NoNames, TheNames
    <3> QED BY <2>2, <3>1, <3>2, CommandNames
  <2> QED BY <2>1, <2>2
<1> QED BY <1>3, <1>4, <1>6, <1>7

-----------------------------------------------------------------------------
(* What the steps make of the state.  A step of p leaves the others alone, *)
(* and p with its command.                                                 *)
OthersWait(p) == \A q \in Procs : q # p => procs'[q] = procs[q]

SameCommand(p) ==
    /\ procs'[p].cmd = procs[p].cmd /\ procs'[p].env = procs[p].env
    /\ procs'[p].flag = procs[p].flag /\ procs'[p].alone = procs[p].alone

(* p stops.                                                                *)
Stops(p) ==
    /\ procs' \in [Procs -> Process \cup {Idle}]
    /\ ~Running(p)' /\ OthersWait(p)

(* p has read f.                                                           *)
Reads(p, f) ==
    /\ procs' \in [Procs -> Process \cup {Idle}]
    /\ SameCommand(p) /\ OthersWait(p)
    /\ procs'[p].authorized = procs[p].authorized
    /\ procs'[p].phase = IF Tail(procs[p].todo) = <<>> THEN "decide" ELSE "load"
    /\ procs'[p].todo = Tail(procs[p].todo)
    /\ DOMAIN procs'[p].memory = DOMAIN Memory(p) \cup {f}
    /\ procs'[p].memory[f] = files[f]
    /\ \A g \in DOMAIN Memory(p) : g # f => procs'[p].memory[g] = Memory(p)[g]

(* p is about to save outputs.                                             *)
Decides(p, outputs, authorized) ==
    /\ procs' \in [Procs -> Process \cup {Idle}]
    /\ SameCommand(p) /\ OthersWait(p)
    /\ procs'[p].authorized = authorized
    /\ procs'[p].phase = "truncate"
    /\ procs'[p].todo = Saves[Cmd(p)]
    /\ procs'[p].memory = outputs

(* p goes on to another phase with the same memory.                        *)
GoesOn(p, phase, todo) ==
    /\ procs' \in [Procs -> Process \cup {Idle}] /\ Running(p)'
    /\ SameCommand(p) /\ OthersWait(p)
    /\ procs'[p].authorized = procs[p].authorized
    /\ procs'[p].phase = phase
    /\ procs'[p].todo = todo
    /\ procs'[p].memory = Memory(p)

LEMMA ProcessOf ==
    ASSUME Types, NEW p \in Procs, Running(p)
    PROVE  /\ procs[p] \in Process
           /\ Cmd(p) \in Commands /\ procs[p].todo \in Seq(Names)
           /\ procs[p].memory \in Memories /\ procs[p].phase \in Loading \cup Saving
           /\ procs[p].env \in Environments
           /\ procs[p].alone \in BOOLEAN /\ procs[p].flag \in BOOLEAN
           /\ procs[p].authorized \in BOOLEAN
BY DEF Types, Running, Process, Cmd

LEMMA MemoryFiles ==
    ASSUME NEW m \in Memories
    PROVE  DOMAIN m \subseteq Names /\ \A f \in DOMAIN m : m[f] \in Data
BY DEF Memories

LEMMA QuitStops ==
    ASSUME Types, NEW p \in Procs, Quit(p)
    PROVE  Stops(p)
BY DEF Quit, Stops, OthersWait, Types, Running

LEMMA LoadFileReads ==
    ASSUME Types, NEW p \in Procs, LoadFile(p), procs[p].todo # <<>>
    PROVE  \/ Fail(p) /\ ~Readable(NextFile(p))
              /\ (NextFile(p) = "passport" => procs[p].env = NoAgent)
           \/ /\ Reads(p, NextFile(p))
              /\ \/ Readable(NextFile(p))
                 \/ NextFile(p) = "passport" /\ procs[p].env # NoAgent
              /\ UNCHANGED <<files, drawn, certified, grants, started, overlaps,
                            progress, denied>>
<1> DEFINE f == NextFile(p)
           m == [g \in DOMAIN Memory(p) \cup {f} |->
                        IF g = f THEN files[f] ELSE Memory(p)[g]]
           phase == IF Tail(procs[p].todo) = <<>> THEN "decide" ELSE "load"
           moved == [Go(p, phase, Tail(procs[p].todo)) EXCEPT !.memory = m]
<1>1. Running(p)
  BY DEF LoadFile, At
<1>2. f \in Names /\ Tail(procs[p].todo) \in Seq(Names)
  BY <1>1, ProcessOf, HeadAndTail DEF NextFile
<1>3. files[f] \in Data
  BY <1>2 DEF Types
<1>4. DOMAIN Memory(p) \subseteq Names /\ \A g \in DOMAIN Memory(p) : Memory(p)[g] \in Data
  BY <1>1, ProcessOf, MemoryFiles DEF Memory
<1>5. m \in Memories
  <2>1. m \in [DOMAIN Memory(p) \cup {f} -> Data]
    BY <1>3, <1>4
  <2>2. DOMAIN Memory(p) \cup {f} \in SUBSET Names
    BY <1>2, <1>4
  <2> HIDE DEF m, f
  <2> QED BY <2>1, <2>2 DEF Memories
<1>6. /\ DOMAIN m = DOMAIN Memory(p) \cup {f}
      /\ m[f] = files[f]
      /\ \A g \in DOMAIN Memory(p) : g # f => m[g] = Memory(p)[g]
  OBVIOUS
<1>7. phase \in Loading \cup Saving
  BY DEF Loading
<1>8. \/ Fail(p) /\ ~Readable(f) /\ (f = "passport" => procs[p].env = NoAgent)
      \/ /\ procs' = [procs EXCEPT ![p] = moved]
         /\ Readable(f) \/ (f = "passport" /\ procs[p].env # NoAgent)
         /\ UNCHANGED <<files, drawn, certified, grants, started, overlaps,
                       progress, denied>>
  <2> DEFINE gone == Go(p, phase, Tail(procs[p].todo))
             full == [gone EXCEPT !.memory = [g \in DOMAIN gone.memory \cup {f} |->
                                        IF g = f THEN files[f] ELSE gone.memory[g]]]
  <2>1. gone.memory = Memory(p) /\ gone \in Process
    <3> HIDE DEF phase
    <3> QED BY <1>1, <1>2, <1>7, ProcessOf DEF Go, Process, Memory
  <2>2. full = moved
    <3> HIDE DEF gone, f
    <3> QED BY <2>1 DEF gone
  <2>3. \/ Fail(p) /\ ~Readable(f) /\ (f = "passport" => procs[p].env = NoAgent)
        \/ /\ procs' = [procs EXCEPT ![p] = full]
           /\ Readable(f) \/ (f = "passport" /\ procs[p].env # NoAgent)
           /\ UNCHANGED <<files, drawn, certified, grants, started, overlaps,
                         progress, denied>>
    BY DEF LoadFile
  <2> HIDE DEF full, moved, f
  <2> QED BY <2>2, <2>3
<1>9. ASSUME procs' = [procs EXCEPT ![p] = moved] PROVE Reads(p, f)
  <2>1. /\ moved \in Process
        /\ moved.cmd = procs[p].cmd /\ moved.env = procs[p].env
        /\ moved.flag = procs[p].flag /\ moved.alone = procs[p].alone
        /\ moved.authorized = procs[p].authorized
        /\ moved.phase = phase /\ moved.todo = Tail(procs[p].todo)
        /\ moved.memory = m
    <3> HIDE DEF m, phase, f
    <3> QED BY <1>1, <1>2, <1>5, <1>7, ProcessOf DEF Process, Go
  <2> HIDE DEF moved, f, m
  <2>2. /\ procs'[p] = moved /\ OthersWait(p)
        /\ procs' \in [Procs -> Process \cup {Idle}]
    BY <1>9, <2>1 DEF Types, OthersWait
  <2> QED BY <2>1, <2>2, <1>6 DEF Reads, SameCommand, f
<1> QED BY <1>8, <1>9

LEMMA DecidedDecides ==
    ASSUME Types, NEW p \in Procs, Running(p), NEW outputs \in Memories,
           NEW authorized \in BOOLEAN, Decided(p, outputs, authorized)
    PROVE  /\ Decides(p, outputs, authorized)
           /\ UNCHANGED <<files, grants, started, overlaps, progress, denied>>
<1> DEFINE moved == [Go(p, "truncate", Saves[Cmd(p)]) EXCEPT
                        !.memory = outputs, !.authorized = authorized]
<1>1. Saves[Cmd(p)] \in Seq(Names)
  BY ProcessOf, SavesAre
<1>2. /\ moved \in Process
      /\ moved.cmd = procs[p].cmd /\ moved.env = procs[p].env
      /\ moved.flag = procs[p].flag /\ moved.alone = procs[p].alone
      /\ moved.authorized = authorized
      /\ moved.phase = "truncate" /\ moved.todo = Saves[Cmd(p)]
      /\ moved.memory = outputs
  BY <1>1, ProcessOf DEF Process, Go, Saving
<1>3. procs' = [procs EXCEPT ![p] = moved]
  BY DEF Decided
<1> HIDE DEF moved
<1>4. /\ procs'[p] = moved /\ OthersWait(p)
      /\ procs' \in [Procs -> Process \cup {Idle}]
  BY <1>2, <1>3 DEF Types, OthersWait
<1> QED BY <1>2, <1>4 DEF Decides, SameCommand, Decided

LEMMA GoGoesOn ==
    ASSUME Types, NEW p \in Procs, Running(p), NEW phase \in Loading \cup Saving,
           NEW todo \in Seq(Names), procs' = [procs EXCEPT ![p] = Go(p, phase, todo)]
    PROVE  GoesOn(p, phase, todo)
<1> DEFINE moved == Go(p, phase, todo)
<1>1. /\ moved \in Process
      /\ moved.cmd = procs[p].cmd /\ moved.env = procs[p].env
      /\ moved.flag = procs[p].flag /\ moved.alone = procs[p].alone
      /\ moved.authorized = procs[p].authorized
      /\ moved.phase = phase /\ moved.todo = todo
      /\ moved.memory = procs[p].memory
  BY ProcessOf DEF Process, Go
<1>2. /\ procs'[p] = moved /\ OthersWait(p)
      /\ procs' \in [Procs -> Process \cup {Idle}]
  BY <1>1 DEF Types, OthersWait
<1> HIDE DEF moved
<1>3. Running(p)'
  BY <1>1, <1>2, ProcessesSentinels DEF Running
<1> QED BY <1>1, <1>2, <1>3 DEF GoesOn, SameCommand, Memory

-----------------------------------------------------------------------------
(* The basics: types, and that files and memories hold what they should.   *)
LEMMA ContentsAre ==
    /\ Contents["passport"] = Passport /\ Contents["declaration"] = Passport
    /\ Contents["certificate"] = Certificate /\ Contents["service"] = Service
    /\ Contents["challenge"] = Challenge /\ Contents["proof"] = Proof
BY DEF Contents

LEMMA GoodGrows ==
    ASSUME NEW f, NEW content,
           NEW certificates, NEW later, certificates \subseteq later,
           NEW challenges, NEW issued, challenges \subseteq issued,
           Good(f, content, certificates, challenges)
    PROVE  Good(f, content, later, issued)
BY DEF Good, Earned

LEMMA GoodIsData ==
    ASSUME NEW f \in Names, NEW content, NEW certificates, NEW challenges,
           Good(f, content, certificates, challenges)
    PROVE  content \in Data
BY DEF Good, Data

LEMMA OthersKeepBasics ==
    ASSUME Basics, NEW p \in Procs, OthersWait(p),
           certified \subseteq certified', drawn.challenges \subseteq drawn'.challenges
    PROVE  \A q \in Procs : q # p /\ Running(q)' => MemoryIsGood(q)' /\ OnTrack(q)'
<1> SUFFICES ASSUME NEW q \in Procs, q # p, Running(q)'
             PROVE  MemoryIsGood(q)' /\ OnTrack(q)'
  OBVIOUS
<1>1. procs'[q] = procs[q] /\ Running(q)
  BY DEF OthersWait, Running
<1>2. MemoryIsGood(q) /\ OnTrack(q)
  BY <1>1 DEF Basics
<1>3. MemoryIsGood(q)'
  BY <1>1, <1>2, GoodGrows DEF MemoryIsGood, Memory
<1>4. OnTrack(q)'
  BY <1>1, <1>2 DEF OnTrack, Memory, Cmd
<1> QED BY <1>3, <1>4

LEMMA FilesStayGood ==
    ASSUME FilesAreGood, certified \subseteq certified',
           drawn.challenges \subseteq drawn'.challenges, UNCHANGED files
    PROVE  FilesAreGood'
BY GoodGrows DEF FilesAreGood, Readable

LEMMA StopKeepsBasics ==
    ASSUME Basics, NEW p \in Procs, Stops(p), UNCHANGED <<files, drawn, certified, overlaps>>,
           grants' \in Seq(Proof), GrantsAreDrawn',
           progress' \in [steps : 0..3, env : Environments]
    PROVE  Basics'
<1>1. Types'
  BY DEF Basics, Types, Stops
<1>2. \A q \in Procs : Running(q)' => MemoryIsGood(q)' /\ OnTrack(q)'
  BY OthersKeepBasics DEF Stops
<1> QED BY <1>1, <1>2, FilesStayGood DEF Basics, NoncesAreFresh

LEMMA DrawnGrows ==
    ASSUME GrantsAreDrawn, certified \subseteq certified',
           drawn.challenges \subseteq drawn'.challenges, UNCHANGED grants
    PROVE  GrantsAreDrawn'
BY DEF GrantsAreDrawn, Earned

LEMMA ReadKeepsBasics ==
    ASSUME Basics, NEW p \in Procs, At(p, "load"), Reads(p, NextFile(p)),
           \/ Readable(NextFile(p))
           \/ NextFile(p) = "passport" /\ procs[p].env # NoAgent,
           UNCHANGED <<files, drawn, certified, grants, overlaps, progress>>
    PROVE  Basics'
<1> DEFINE f == NextFile(p)
<1>1. /\ Running(p) /\ procs[p].phase = "load" /\ MemoryIsGood(p) /\ OnTrack(p)
      /\ Types
  BY DEF At, Basics
<1>2. /\ ~procs[p].authorized /\ procs[p].todo # <<>>
      /\ Range(procs[p].todo) \subseteq Range(Loads[Cmd(p)])
      /\ Range(Loads[Cmd(p)]) \subseteq Range(procs[p].todo) \cup DOMAIN Memory(p)
  BY <1>1 DEF OnTrack, Loading
<1>3. procs[p].todo \in Seq(Names)
  BY <1>1, ProcessOf
<1>4. /\ f \in Names /\ Tail(procs[p].todo) \in Seq(Names)
      /\ Range(procs[p].todo) = {f} \cup Range(Tail(procs[p].todo))
  BY <1>2, <1>3, HeadAndTail DEF NextFile
<1>5. Types'
  BY <1>1 DEF Types, Reads
<1>6. MemoryIsGood(p)'
  <2> SUFFICES ASSUME NEW g \in DOMAIN procs'[p].memory
               PROVE  \/ Good(g, procs'[p].memory[g], certified, drawn.challenges)
                      \/ /\ g = "passport" /\ procs[p].env # NoAgent
                         /\ procs'[p].memory[g] \in {Missing, Unreadable}
    BY DEF MemoryIsGood, Reads, SameCommand, Memory
  <2>1. CASE g = f
    <3>1. procs'[p].memory[g] = files[f]
      BY <2>1 DEF Reads
    <3>2. FilesAreGood
      BY DEF Basics
    <3>3. CASE Readable(f)
      BY <3>1, <3>2, <3>3, <1>4, <2>1 DEF FilesAreGood
    <3>4. CASE ~Readable(f)
      BY <3>1, <3>4, <2>1 DEF Readable
    <3> QED BY <3>3, <3>4
  <2>2. CASE g # f
    <3>1. g \in DOMAIN Memory(p) /\ procs'[p].memory[g] = Memory(p)[g]
      BY <2>2 DEF Reads
    <3> QED BY <3>1, <1>1 DEF MemoryIsGood
  <2> QED BY <2>1, <2>2
<1>7. OnTrack(p)'
  <2>1. /\ procs'[p].cmd = procs[p].cmd /\ procs'[p].authorized = procs[p].authorized
        /\ procs'[p].todo = Tail(procs[p].todo)
        /\ DOMAIN procs'[p].memory = DOMAIN Memory(p) \cup {f}
        /\ procs'[p].phase \in Loading /\ procs'[p].phase \notin Saving
        /\ procs'[p].todo # <<>> <=> procs'[p].phase = "load"
    BY DEF Reads, SameCommand, Loading, Saving
  <2> HIDE DEF f
  <2> QED BY <2>1, <1>2, <1>4 DEF OnTrack, Memory, Cmd
<1>8. \A q \in Procs : Running(q)' => MemoryIsGood(q)' /\ OnTrack(q)'
  BY <1>6, <1>7, OthersKeepBasics DEF Reads
<1> QED BY <1>5, <1>8, FilesStayGood, DrawnGrows DEF Basics, NoncesAreFresh

LEMMA GoodMemory ==
    ASSUME NEW m, NEW D \in SUBSET Names, m = [f \in D |-> m[f]],
           NEW certificates, NEW challenges,
           \A f \in D : Good(f, m[f], certificates, challenges)
    PROVE  m \in Memories
<1>1. m \in [D -> Data]
  BY GoodIsData
<1> QED BY <1>1 DEF Memories

LEMMA DecideKeepsBasics ==
    ASSUME Basics, NEW p \in Procs, Running(p), NEW outputs \in Memories,
           NEW authorized \in BOOLEAN, Decided(p, outputs, authorized),
           certified' \subseteq Certificate, certified \subseteq certified',
           drawn' \in [agents : SUBSET Agents, challenges : SUBSET Entries,
                       keysets : 0..MaxKeyset],
           drawn.challenges \subseteq drawn'.challenges, NoncesAreFresh',
           \A f \in DOMAIN outputs : Good(f, outputs[f], certified', drawn'.challenges),
           Range(Saves[Cmd(p)]) \subseteq DOMAIN outputs,
           authorized => /\ Cmd(p) = "verify" /\ "proof" \in DOMAIN outputs
                         /\ Entry(outputs.proof) \in drawn'.challenges
    PROVE  Basics'
<1>1. /\ Decides(p, outputs, authorized)
      /\ UNCHANGED <<files, grants, overlaps, progress>>
  BY DecidedDecides DEF Basics
<1>2. Types'
  BY <1>1 DEF Basics, Types, Decides
<1>3. MemoryIsGood(p)'
  BY <1>1 DEF Decides, MemoryIsGood, Memory
<1>4. OnTrack(p)'
  <2>1. /\ procs'[p].cmd = Cmd(p) /\ procs'[p].authorized = authorized
        /\ procs'[p].todo = Saves[Cmd(p)] /\ procs'[p].memory = outputs
        /\ procs'[p].phase = "truncate"
    BY <1>1 DEF Decides, SameCommand, Cmd
  <2>2. Saves[Cmd(p)] # <<>>
    BY ProcessOf, SavesAre DEF Basics
  <2> QED BY <2>1, <2>2 DEF OnTrack, Loading, Saving, Memory, Cmd
<1>5. \A q \in Procs : Running(q)' => MemoryIsGood(q)' /\ OnTrack(q)'
  BY <1>1, <1>3, <1>4, OthersKeepBasics DEF Decides
<1> QED BY <1>1, <1>2, <1>5, FilesStayGood, DrawnGrows DEF Basics

(* The truncation or the write of the file at hand.                        *)
LEMMA SaveKeepsBasics ==
    ASSUME Basics, NEW p \in Procs, Running(p), procs[p].phase \in Saving,
           procs[p].todo # <<>>,
           NEW content \in {Unreadable, Memory(p)[NextFile(p)]},
           files' = [files EXCEPT ![NextFile(p)] = content],
           NEW phase \in Saving, NEW todo \in {procs[p].todo, Tail(procs[p].todo)},
           todo # <<>> <=> phase # "exit",
           procs' = [procs EXCEPT ![p] = Go(p, phase, todo)],
           UNCHANGED <<drawn, certified, grants, overlaps, progress>>
    PROVE  GoesOn(p, phase, todo) /\ Basics'
<1> DEFINE f == NextFile(p)
<1>1. Types /\ MemoryIsGood(p) /\ OnTrack(p) /\ FilesAreGood /\ Cmd(p) \in Commands
  BY ProcessOf DEF Basics
<1>2. /\ procs[p].todo \in {Saves[Cmd(p)], Tail(Saves[Cmd(p)]), <<>>}
      /\ Range(Saves[Cmd(p)]) \subseteq DOMAIN Memory(p)
      /\ procs[p].authorized =>
            /\ Cmd(p) = "verify" /\ "proof" \in DOMAIN Memory(p)
            /\ Entry(Memory(p).proof) \in drawn.challenges
  BY <1>1 DEF OnTrack
<1>3. /\ f \in Names /\ f \in DOMAIN Memory(p) /\ todo \in Seq(Names)
      /\ todo \in {Saves[Cmd(p)], Tail(Saves[Cmd(p)]), <<>>}
  <2>1. /\ procs[p].todo \in Seq(Names) /\ Tail(procs[p].todo) \in Seq(Names)
        /\ Head(procs[p].todo) \in Names /\ Head(procs[p].todo) \in Range(Saves[Cmd(p)])
        /\ Tail(procs[p].todo) \in {Saves[Cmd(p)], Tail(Saves[Cmd(p)]), <<>>}
    BY <1>1, <1>2, RestOfSaves, ZenonT(40)
  <2> QED BY <2>1, <1>2 DEF NextFile
<1>4. GoesOn(p, phase, todo)
  BY <1>1, <1>3, GoGoesOn
<1>5. content = Unreadable \/ content = Missing \/ Good(f, content, certified, drawn.challenges)
  BY <1>1, <1>3 DEF MemoryIsGood
<1>6. content \in Data
  <2>1. CASE Good(f, content, certified, drawn.challenges)
    BY <2>1, <1>3 DEF Good, Data
  <2>2. CASE content \in {Missing, Unreadable}
    BY <2>2 DEF Data
  <2> QED BY <2>1, <2>2, <1>5
<1>7. Types'
  <2>1. files' \in [Names -> Data]
    BY <1>1, <1>6 DEF Types
  <2> QED BY <1>1, <1>4, <2>1 DEF Types, GoesOn
<1>8. FilesAreGood'
  BY <1>1, <1>3, <1>5 DEF FilesAreGood, Readable, Types
<1>9. MemoryIsGood(p)'
  BY <1>1, <1>4 DEF GoesOn, SameCommand, MemoryIsGood, Memory
<1>10. OnTrack(p)'
  <2>1. /\ procs'[p].cmd = Cmd(p) /\ procs'[p].authorized = procs[p].authorized
        /\ procs'[p].todo = todo /\ procs'[p].memory = Memory(p)
        /\ procs'[p].phase = phase
    BY <1>4 DEF GoesOn, SameCommand, Cmd
  <2>2. phase \notin Loading
    BY DEF Loading, Saving
  <2> QED BY <2>1, <2>2, <1>2, <1>3 DEF OnTrack, Memory, Cmd
<1>11. \A q \in Procs : Running(q)' => MemoryIsGood(q)' /\ OnTrack(q)'
  BY <1>4, <1>9, <1>10, OthersKeepBasics DEF GoesOn
<1>12. GrantsAreDrawn' /\ NoncesAreFresh'
  BY DrawnGrows DEF Basics, NoncesAreFresh
<1> QED BY <1>4, <1>7, <1>8, <1>11, <1>12 DEF Basics

-----------------------------------------------------------------------------
(* The commands, one by one.                                               *)
LEMMA AllLoaded ==
    ASSUME Basics, NEW p \in Procs, At(p, "decide")
    PROVE  /\ Types /\ Running(p) /\ MemoryIsGood(p) /\ Cmd(p) \in Commands
           /\ procs[p].env \in Environments
           /\ ~procs[p].authorized
           /\ Range(Loads[Cmd(p)]) \subseteq DOMAIN Memory(p)
<1>1. /\ Types /\ Running(p) /\ MemoryIsGood(p) /\ OnTrack(p)
      /\ procs[p].phase = "decide"
  BY DEF At, Basics
<1>2. /\ procs[p].todo = <<>> /\ ~procs[p].authorized
      /\ Range(Loads[Cmd(p)]) \subseteq Range(procs[p].todo) \cup DOMAIN Memory(p)
  BY <1>1 DEF OnTrack, Loading
<1> QED BY <1>1, <1>2, NoNames, ProcessOf

LEMMA AgentLoaded ==
    ASSUME Types, NEW p \in Procs, Running(p), MemoryIsGood(p),
           "passport" \in DOMAIN Memory(p)
    PROVE  LoadAgent(p) \in Passport
<1>1. \/ Memory(p).passport \in Passport
      \/ procs[p].env # NoAgent /\ Memory(p).passport \in {Missing, Unreadable}
  BY ContentsAre DEF MemoryIsGood, Good
<1>2. procs[p].env # NoAgent => procs[p].env \in Agents
  BY ProcessOf, ProcessesConstants DEF Environments
<1> QED BY <1>1, <1>2, ProcessesConstants DEF LoadAgent, Passport

LEMMA SavesPassport ==
    ASSUME Basics, NEW p \in Procs, Running(p), Cmd(p) \in {"init", "update"},
           NEW agent \in Passport,
           Decided(p, PassportAndDeclaration(agent), FALSE),
           UNCHANGED <<certified, drawn.challenges>>,
           drawn' \in [agents : SUBSET Agents, challenges : SUBSET Entries,
                       keysets : 0..MaxKeyset]
    PROVE  Basics' /\ Decides(p, PassportAndDeclaration(agent), FALSE)
<1> DEFINE out == PassportAndDeclaration(agent)
<1>1. /\ DOMAIN out = {"passport", "declaration"}
      /\ out = [f \in {"passport", "declaration"} |-> out[f]]
      /\ out["passport"] = agent /\ out["declaration"] = agent
  BY DEF PassportAndDeclaration
<1> HIDE DEF out
<1>2. \A f \in DOMAIN out : Good(f, out[f], certified', drawn'.challenges)
  BY <1>1, ContentsAre DEF Good
<1>3. out \in Memories
  <2>1. {"passport", "declaration"} \in SUBSET Names
    BY TheNames
  <2> QED BY <1>1, <1>2, <2>1, GoodMemory
<1>4. Range(Saves[Cmd(p)]) \subseteq DOMAIN out
  BY <1>1, SavesAre
<1>5. certified' \subseteq Certificate /\ NoncesAreFresh'
  BY DEF Basics, Types, NoncesAreFresh
<1>6. Decided(p, out, FALSE)
  BY DEF out
<1>7. Basics'
  BY <1>2, <1>3, <1>4, <1>5, <1>6, DecideKeepsBasics
<1> QED BY <1>3, <1>6, <1>7, DecidedDecides DEF Basics, out

LEMMA InitBasics ==
    ASSUME Basics, NEW p \in Procs, InitPassport(p)
    PROVE  \/ Fail(p)
           \/ /\ Basics' /\ UNCHANGED <<files, certified, grants, overlaps, progress, denied>>
              /\ drawn'.challenges = drawn.challenges /\ drawn'.keysets = drawn.keysets
              /\ \E a \in Agents : Decides(p, PassportAndDeclaration(
                    [agent |-> a, manifest |-> DefaultManifest]), FALSE)
<1> SUFFICES ASSUME ~Fail(p) PROVE
        /\ Basics' /\ UNCHANGED <<files, certified, grants, overlaps, progress, denied>>
        /\ drawn'.challenges = drawn.challenges /\ drawn'.keysets = drawn.keysets
        /\ \E a \in Agents : Decides(p, PassportAndDeclaration(
                    [agent |-> a, manifest |-> DefaultManifest]), FALSE)
  OBVIOUS
<1>1. PICK a \in Agents \ drawn.agents :
        /\ drawn' = [drawn EXCEPT !.agents = @ \cup {a}]
        /\ certified' = certified
        /\ Decided(p, PassportAndDeclaration(
                    [agent |-> a, manifest |-> DefaultManifest]), FALSE)
  BY DEF InitPassport
<1>2. /\ drawn' \in [agents : SUBSET Agents, challenges : SUBSET Entries,
                       keysets : 0..MaxKeyset]
      /\ drawn'.challenges = drawn.challenges /\ drawn'.keysets = drawn.keysets
  BY <1>1 DEF Basics, Types
<1>3. [agent |-> a, manifest |-> DefaultManifest] \in Passport
  BY ProcessesConstants DEF Passport
<1>4. Running(p) /\ Cmd(p) = "init"
  BY DEF InitPassport, At
<1>5. /\ Basics'
      /\ Decides(p, PassportAndDeclaration(
                    [agent |-> a, manifest |-> DefaultManifest]), FALSE)
  BY <1>1, <1>2, <1>3, <1>4, SavesPassport
<1> QED BY <1>1, <1>2, <1>5 DEF Decided

LEMMA UpdateBasics ==
    ASSUME Basics, NEW p \in Procs, NEW m \in Manifests, UpdateManifest(p, m)
    PROVE  /\ Basics'
           /\ UNCHANGED <<files, drawn, certified, grants, overlaps, progress, denied>>
           /\ [LoadAgent(p) EXCEPT !.manifest = m] \in Passport
           /\ Decides(p, PassportAndDeclaration([LoadAgent(p) EXCEPT !.manifest = m]), FALSE)
<1>1. At(p, "decide") /\ Cmd(p) = "update"
  BY DEF UpdateManifest
<1>2. LoadAgent(p) \in Passport
  BY <1>1, AllLoaded, AgentLoaded, LoadsAre
<1>3. [LoadAgent(p) EXCEPT !.manifest = m] \in Passport
  BY <1>2 DEF Passport
<1>4. /\ Running(p) /\ Decided(p, PassportAndDeclaration([LoadAgent(p) EXCEPT !.manifest = m]), FALSE)
      /\ UNCHANGED <<drawn, certified>>
  BY <1>1 DEF UpdateManifest, At
<1>5. drawn' \in [agents : SUBSET Agents, challenges : SUBSET Entries,
                       keysets : 0..MaxKeyset]
  BY <1>4 DEF Basics, Types
<1> QED BY <1>1, <1>3, <1>4, <1>5, SavesPassport DEF Decided

LEMMA EnrollBasics ==
    ASSUME Basics, NEW p \in Procs, Enroll(p)
    PROVE  /\ Basics'
           /\ UNCHANGED <<files, grants, overlaps, progress, denied>>
           /\ drawn'.challenges = drawn.challenges /\ drawn'.keysets = drawn.keysets + 1
           /\ \E certificate \in Certificate :
                /\ certificate.agent = LoadAgent(p).agent
                /\ certificate.manifest = LoadAgent(p).manifest
                /\ certificate.keyset = drawn.keysets + 1
                /\ Decides(p, [certificate |-> certificate,
                               service |-> [keyset |-> drawn.keysets + 1,
                                            pending |-> {}, used |-> {}]], FALSE)
<1> DEFINE k == drawn.keysets + 1
           certificate == [agent |-> LoadAgent(p).agent,
                           manifest |-> LoadAgent(p).manifest, keyset |-> k]
           service == [keyset |-> k, pending |-> {}, used |-> {}]
           out == [certificate |-> certificate, service |-> service]
<1>1. /\ At(p, "decide") /\ Cmd(p) = "enroll" /\ drawn.keysets < MaxKeyset
      /\ drawn' = [drawn EXCEPT !.keysets = k]
      /\ certified' = certified \cup {certificate}
      /\ Decided(p, out, FALSE)
  BY DEF Enroll
<1>2. LoadAgent(p) \in Passport
  BY <1>1, AllLoaded, AgentLoaded, LoadsAre
<1>3. /\ drawn \in [agents : SUBSET Agents, challenges : SUBSET Entries,
                    keysets : 0..MaxKeyset]
      /\ certified \subseteq Certificate
  BY DEF Basics, Types
<1>4. k \in Keysets
  BY <1>1, <1>3, ProcessesConstants DEF Keysets
<1>5. /\ drawn' \in [agents : SUBSET Agents, challenges : SUBSET Entries,
                       keysets : 0..MaxKeyset]
      /\ drawn'.challenges = drawn.challenges /\ drawn'.keysets = k
  <2>1. k \in 0..MaxKeyset
    BY <1>4 DEF Keysets
  <2> HIDE DEF k
  <2> QED BY <2>1, <1>1, <1>3
<1> HIDE DEF k
<1>6. certificate \in Certificate /\ service \in Service
  BY <1>2, <1>4 DEF Certificate, Service, Passport
<1>7. /\ certificate.agent = LoadAgent(p).agent
      /\ certificate.manifest = LoadAgent(p).manifest
      /\ certificate.keyset = k /\ service.pending = {} /\ service.used = {}
  OBVIOUS
<1> HIDE DEF certificate, service
<1>8. /\ DOMAIN out = {"certificate", "service"}
      /\ out = [f \in {"certificate", "service"} |-> out[f]]
      /\ out["certificate"] = certificate /\ out["service"] = service
  OBVIOUS
<1> HIDE DEF out
<1>9. \A f \in DOMAIN out : Good(f, out[f], certified', drawn'.challenges)
  BY <1>1, <1>6, <1>7, <1>8, ContentsAre DEF Good
<1>10. out \in Memories
  <2>1. {"certificate", "service"} \in SUBSET Names
    BY TheNames
  <2> QED BY <1>8, <1>9, <2>1, GoodMemory
<1>11. certified' \subseteq Certificate /\ certified \subseteq certified'
  BY <1>1, <1>3, <1>6
<1>12. NoncesAreFresh'
  BY <1>5 DEF Basics, NoncesAreFresh
<1>13. Running(p) /\ Range(Saves[Cmd(p)]) \subseteq DOMAIN out
  BY <1>1, <1>8, SavesAre DEF At
<1>14. Basics'
  BY <1>1, <1>5, <1>9, <1>10, <1>11, <1>12, <1>13, DecideKeepsBasics
<1>15. /\ Decides(p, out, FALSE)
       /\ UNCHANGED <<files, grants, overlaps, progress, denied>>
  BY <1>1, <1>10, <1>13, DecidedDecides DEF Basics
<1> QED BY <1>5, <1>6, <1>7, <1>14, <1>15 DEF out, service, k

LEMMA Remembered ==
    ASSUME NEW p \in Procs, MemoryIsGood(p), NEW f \in DOMAIN Memory(p), f # "passport"
    PROVE  Good(f, Memory(p)[f], certified, drawn.challenges)
BY DEF MemoryIsGood

(* What a challenge command decides.                                       *)
Challenges(p, n) ==
    LET service == Memory(p).service
        policy == [manifest |-> Memory(p).declaration.manifest, strict |-> procs[p].flag]
        entry == [nonce |-> n, policy |-> policy]
    IN /\ drawn'.challenges = drawn.challenges \cup {entry}
       /\ entry \in Entries
       /\ Decides(p, [service |-> [service EXCEPT !.pending = @ \cup {entry}],
                      challenge |-> [nonce |-> n, policy |-> policy,
                                     keyset |-> service.keyset]], FALSE)

LEMMA ChallengeBasics ==
    ASSUME Basics, NEW p \in Procs, IssueChallenge(p)
    PROVE  /\ Basics'
           /\ UNCHANGED <<files, certified, grants, overlaps, progress, denied>>
           /\ drawn'.keysets = drawn.keysets
           /\ "service" \in DOMAIN Memory(p) /\ "declaration" \in DOMAIN Memory(p)
           /\ \E n \in Nonces : /\ \A ch \in drawn.challenges : ch.nonce # n
                                /\ Challenges(p, n)
<1> DEFINE service == Memory(p).service
           policy == [manifest |-> Memory(p).declaration.manifest,
                      strict |-> procs[p].flag]
<1>1. At(p, "decide") /\ Cmd(p) = "challenge" /\ UNCHANGED certified
  BY DEF IssueChallenge
<1>2. PICK n \in Nonces \ {ch.nonce : ch \in drawn.challenges} :
        /\ drawn' = [drawn EXCEPT !.challenges = @ \cup {[nonce |-> n, policy |-> policy]}]
        /\ Decided(p,
                [service |-> [service EXCEPT !.pending = @ \cup {[nonce |-> n, policy |-> policy]}],
                 challenge |-> [nonce |-> n, policy |-> policy, keyset |-> service.keyset]],
                FALSE)
  BY DEF IssueChallenge
<1> DEFINE entry == [nonce |-> n, policy |-> policy]
           updated == [service EXCEPT !.pending = @ \cup {entry}]
           challenge == [nonce |-> n, policy |-> policy, keyset |-> service.keyset]
           out == [service |-> updated, challenge |-> challenge]
<1>3. /\ Types /\ Running(p) /\ MemoryIsGood(p)
      /\ "service" \in DOMAIN Memory(p) /\ "declaration" \in DOMAIN Memory(p)
      /\ procs[p].flag \in BOOLEAN
  BY <1>1, AllLoaded, LoadsAre, ProcessOf
<1>4. /\ service \in Service /\ service.pending \subseteq drawn.challenges
      /\ service.used \subseteq {ch.nonce : ch \in drawn.challenges}
      /\ Memory(p).declaration \in Passport
  BY <1>3, Remembered, ContentsAre DEF Good
<1>5. policy \in Policies
  BY <1>3, <1>4 DEF Policies, Passport
<1>6. n \in Nonces /\ \A ch \in drawn.challenges : ch.nonce # n
  OBVIOUS
<1>7. Decided(p, out, FALSE) /\ drawn' = [drawn EXCEPT !.challenges = @ \cup {entry}]
  BY <1>2
<1> HIDE DEF policy
<1>8. entry \in Entries /\ entry.nonce = n /\ entry.policy = policy
  BY <1>5, <1>6 DEF Entries
<1>9. challenge \in Challenge /\ service.keyset \in Keysets
  BY <1>4, <1>5, <1>6 DEF Challenge, Service
<1> HIDE DEF entry
<1>10. /\ drawn \in [agents : SUBSET Agents, challenges : SUBSET Entries,
                    keysets : 0..MaxKeyset]
       /\ certified \subseteq Certificate
  BY <1>3 DEF Types
<1>11. /\ drawn' \in [agents : SUBSET Agents, challenges : SUBSET Entries,
                       keysets : 0..MaxKeyset]
       /\ drawn'.challenges = drawn.challenges \cup {entry}
       /\ drawn'.keysets = drawn.keysets
  BY <1>7, <1>8, <1>10
<1>12. /\ updated \in Service /\ updated.pending = service.pending \cup {entry}
       /\ updated.used = service.used
  <2>1. entry \in [nonce : Nonces, policy : Policies]
    BY <1>8 DEF Entries
  <2> HIDE DEF service
  <2> QED BY <2>1, <1>4 DEF Service
<1> HIDE DEF updated, challenge
<1>13. /\ DOMAIN out = {"service", "challenge"}
       /\ out = [f \in {"service", "challenge"} |-> out[f]]
       /\ out["service"] = updated /\ out["challenge"] = challenge
  OBVIOUS
<1> HIDE DEF out, service
<1>14. \A f \in DOMAIN out : Good(f, out[f], certified', drawn'.challenges)
  <2>1. Good("challenge", challenge, certified', drawn'.challenges)
    BY <1>9, ContentsAre DEF Good
  <2>2. /\ updated.pending \subseteq drawn'.challenges
        /\ updated.used \subseteq {ch.nonce : ch \in drawn'.challenges}
    BY <1>4, <1>11, <1>12
  <2>3. Good("service", updated, certified', drawn'.challenges)
    BY <2>2, <1>12, ContentsAre DEF Good
  <2> QED BY <2>1, <2>3, <1>13
<1>15. out \in Memories
  <2>1. {"service", "challenge"} \in SUBSET Names
    BY TheNames
  <2> QED BY <1>13, <1>14, <2>1, GoodMemory
<1>16. certified' \subseteq Certificate /\ certified \subseteq certified'
  BY <1>1, <1>10
<1>17. NoncesAreFresh'
  BY <1>6, <1>8, <1>11 DEF Basics, NoncesAreFresh
<1>18. Range(Saves[Cmd(p)]) \subseteq DOMAIN out
  BY <1>1, <1>13, SavesAre
<1>19. Basics'
  BY <1>3, <1>7, <1>11, <1>14, <1>15, <1>16, <1>17, <1>18, DecideKeepsBasics
<1>20. /\ Decides(p, out, FALSE)
       /\ UNCHANGED <<files, grants, overlaps, progress, denied>>
  BY <1>3, <1>7, <1>15, DecidedDecides
<1>21. Challenges(p, n)
  BY <1>8, <1>11, <1>20 DEF Challenges, out, updated, challenge, service, entry, policy
<1> QED BY <1>1, <1>3, <1>6, <1>11, <1>19, <1>20, <1>21

LEMMA ProveBasics ==
    ASSUME Basics, NEW p \in Procs, Prove(p), ~Fail(p)
    PROVE  /\ Basics'
           /\ UNCHANGED <<files, drawn, certified, grants, overlaps, progress, denied>>
           /\ "challenge" \in DOMAIN Memory(p) /\ "certificate" \in DOMAIN Memory(p)
           /\ Convinces(LoadAgent(p), Memory(p).certificate, Memory(p).challenge)
           /\ Decides(p, [proof |-> [agent |-> LoadAgent(p).agent,
                                     nonce |-> Memory(p).challenge.nonce,
                                     policy |-> Memory(p).challenge.policy,
                                     keyset |-> Memory(p).challenge.keyset]], FALSE)
<1> DEFINE me == LoadAgent(p)
           ch == Memory(p).challenge
           cert == Memory(p).certificate
           proof == [agent |-> me.agent, nonce |-> ch.nonce, policy |-> ch.policy,
                     keyset |-> ch.keyset]
           out == [proof |-> proof]
<1>1. /\ At(p, "decide") /\ Cmd(p) = "prove"
      /\ Convinces(me, cert, ch) /\ Decided(p, out, FALSE)
      /\ UNCHANGED <<drawn, certified>>
  BY DEF Prove
<1>2. /\ Types /\ Running(p) /\ MemoryIsGood(p)
      /\ "passport" \in DOMAIN Memory(p)
      /\ "challenge" \in DOMAIN Memory(p) /\ "certificate" \in DOMAIN Memory(p)
  BY <1>1, AllLoaded, LoadsAre
<1>3. me \in Passport /\ ch \in Challenge /\ cert \in certified
  BY <1>2, AgentLoaded, Remembered, ContentsAre DEF Good
<1> HIDE DEF me, ch, cert
<1>4. /\ proof \in Proof /\ proof.agent = me.agent /\ proof.keyset = ch.keyset
      /\ proof.policy = ch.policy
  BY <1>3 DEF Passport, Challenge, Proof
<1> HIDE DEF proof
<1>5. Earned(proof, certified)
  BY <1>1, <1>3, <1>4 DEF Convinces, Earned
<1>6. /\ DOMAIN out = {"proof"} /\ out = [f \in {"proof"} |-> out[f]]
      /\ out["proof"] = proof
  OBVIOUS
<1> HIDE DEF out
<1>7. \A f \in DOMAIN out : Good(f, out[f], certified', drawn'.challenges)
  BY <1>1, <1>4, <1>5, <1>6, ContentsAre DEF Good
<1>8. out \in Memories
  <2>1. {"proof"} \in SUBSET Names
    BY TheNames
  <2> QED BY <1>6, <1>7, <2>1, GoodMemory
<1>9. /\ certified' \subseteq Certificate /\ NoncesAreFresh'
      /\ drawn' \in [agents : SUBSET Agents, challenges : SUBSET Entries,
                      keysets : 0..MaxKeyset]
  BY <1>1 DEF Basics, Types, NoncesAreFresh
<1>10. Range(Saves[Cmd(p)]) \subseteq DOMAIN out
  BY <1>1, <1>6, SavesAre
<1>11. Basics'
  BY <1>1, <1>2, <1>7, <1>8, <1>9, <1>10, DecideKeepsBasics
<1>12. /\ Decides(p, out, FALSE)
       /\ UNCHANGED <<files, grants, overlaps, progress, denied>>
  BY <1>1, <1>2, <1>8, DecidedDecides
<1> QED BY <1>1, <1>2, <1>11, <1>12 DEF out, proof, me, ch, cert

(* What a verify command decides.                                          *)
Authorizes(p) ==
    LET service == Memory(p).service
        ch == Memory(p).challenge
    IN /\ ~procs[p].flag /\ Accepts(service, ch, Memory(p).proof)
       /\ Decides(p, [service |-> ConsumeNonce(service, ch), challenge |-> ch,
                      proof |-> Memory(p).proof], TRUE)

Rejects(p) ==
    /\ procs[p].flag \/ ~Accepts(Memory(p).service, Memory(p).challenge, Memory(p).proof)
    /\ Decides(p, [service |-> Memory(p).service], FALSE)

LEMMA VerifyBasics ==
    ASSUME Basics, NEW p \in Procs, VerifyAccess(p)
    PROVE  /\ Basics'
           /\ UNCHANGED <<files, drawn, certified, grants, overlaps, progress, denied>>
           /\ "service" \in DOMAIN Memory(p) /\ "challenge" \in DOMAIN Memory(p)
           /\ "proof" \in DOMAIN Memory(p)
           /\ Authorizes(p) \/ Rejects(p)
<1> DEFINE service == Memory(p).service
           ch == Memory(p).challenge
           proof == Memory(p).proof
           updated == ConsumeNonce(service, ch)
           out == [service |-> updated, challenge |-> ch, proof |-> proof]
           rejected == [service |-> service]
<1>1. /\ At(p, "decide") /\ Cmd(p) = "verify" /\ UNCHANGED <<drawn, certified>>
      /\ \/ ~procs[p].flag /\ Accepts(service, ch, proof) /\ Decided(p, out, TRUE)
         \/ /\ procs[p].flag \/ ~Accepts(service, ch, proof)
            /\ Decided(p, rejected, FALSE)
  BY DEF VerifyAccess
<1>2. /\ Types /\ Running(p) /\ MemoryIsGood(p)
      /\ "service" \in DOMAIN Memory(p) /\ "challenge" \in DOMAIN Memory(p)
      /\ "proof" \in DOMAIN Memory(p)
  BY <1>1, AllLoaded, LoadsAre
<1>3. /\ Good("service", service, certified, drawn.challenges)
      /\ Good("challenge", ch, certified, drawn.challenges)
      /\ Good("proof", proof, certified, drawn.challenges)
  BY <1>2, Remembered
<1>4. /\ certified' \subseteq Certificate /\ NoncesAreFresh'
      /\ drawn' \in [agents : SUBSET Agents, challenges : SUBSET Entries,
                      keysets : 0..MaxKeyset]
  BY <1>1 DEF Basics, Types, NoncesAreFresh
<1>5. CASE ~procs[p].flag /\ Accepts(service, ch, proof) /\ Decided(p, out, TRUE)
  <2>1. /\ service \in Service /\ service.pending \subseteq drawn.challenges
        /\ service.used \subseteq {e.nonce : e \in drawn.challenges}
        /\ ch \in Challenge
    BY <1>3, ContentsAre DEF Good
  <2>2. Entry(proof) \in drawn.challenges
    BY <1>5, <2>1 DEF Accepts, Entry
  <2>3. updated \in Service /\ updated.pending \subseteq service.pending
    <3> HIDE DEF service, ch
    <3> QED BY <2>1 DEF ConsumeNonce, Service, Challenge
  <2>4. Good("service", updated, certified, drawn.challenges)
    <3>1. updated.used = service.used \cup {ch.nonce}
      <4> HIDE DEF service, ch
      <4> QED BY <2>1 DEF ConsumeNonce, Service
    <3>2. ch.nonce \in {e.nonce : e \in drawn.challenges}
      <4>1. [nonce |-> ch.nonce, policy |-> ch.policy] \in drawn.challenges
        BY <1>5, <2>1 DEF Accepts
      <4> HIDE DEF ch
      <4> QED BY <4>1
    <3>3. updated.used \subseteq {e.nonce : e \in drawn.challenges}
      BY <2>1, <3>1, <3>2
    <3> HIDE DEF updated
    <3> QED BY <2>1, <2>3, <3>3, ContentsAre DEF Good
  <2> HIDE DEF updated, ch, proof
  <2>5. /\ DOMAIN out = {"service", "challenge", "proof"}
        /\ out = [f \in {"service", "challenge", "proof"} |-> out[f]]
        /\ out["service"] = updated /\ out["challenge"] = ch /\ out["proof"] = proof
        /\ out.proof = proof
    OBVIOUS
  <2> HIDE DEF out
  <2>6. \A f \in DOMAIN out : Good(f, out[f], certified', drawn'.challenges)
    BY <1>1, <1>3, <2>4, <2>5
  <2>7. out \in Memories
    <3>1. {"service", "challenge", "proof"} \in SUBSET Names
      BY TheNames
    <3> QED BY <2>5, <2>6, <3>1, GoodMemory
  <2>8. Range(Saves[Cmd(p)]) \subseteq DOMAIN out
    BY <1>1, <2>5, SavesAre
  <2>9. Decided(p, out, TRUE) /\ "proof" \in DOMAIN out /\ Entry(out.proof) \in drawn'.challenges
    BY <1>1, <1>5, <2>2, <2>5
  <2>10. Basics'
    BY <1>1, <1>2, <1>4, <2>6, <2>7, <2>8, <2>9, DecideKeepsBasics
  <2>11. /\ Decides(p, out, TRUE)
         /\ UNCHANGED <<files, grants, overlaps, progress, denied>>
    BY <1>2, <2>7, <2>9, DecidedDecides
  <2> QED BY <1>1, <1>2, <1>5, <2>10, <2>11 DEF Authorizes, out, updated, ch, proof
<1>6. CASE /\ procs[p].flag \/ ~Accepts(service, ch, proof)
           /\ Decided(p, rejected, FALSE)
  <2>1. /\ DOMAIN rejected = {"service"}
        /\ rejected = [f \in {"service"} |-> rejected[f]]
        /\ rejected["service"] = service
    OBVIOUS
  <2> HIDE DEF rejected
  <2>2. \A f \in DOMAIN rejected : Good(f, rejected[f], certified', drawn'.challenges)
    BY <1>1, <1>3, <2>1
  <2>3. rejected \in Memories
    <3>1. {"service"} \in SUBSET Names
      BY TheNames
    <3> QED BY <2>1, <2>2, <3>1, GoodMemory
  <2>4. Range(Saves[Cmd(p)]) \subseteq DOMAIN rejected
    BY <1>1, <2>1, SavesAre
  <2>5. Basics'
    BY <1>1, <1>2, <1>4, <1>6, <2>2, <2>3, <2>4, DecideKeepsBasics
  <2>6. /\ Decides(p, rejected, FALSE)
        /\ UNCHANGED <<files, grants, overlaps, progress, denied>>
    BY <1>2, <1>6, <2>3, DecidedDecides
  <2> QED BY <1>1, <1>2, <1>6, <2>5, <2>6 DEF Rejects, rejected
<1> QED BY <1>1, <1>5, <1>6

LEMMA TruncateBasics ==
    ASSUME Basics, NEW p \in Procs, TruncateFile(p)
    PROVE  /\ Basics' /\ GoesOn(p, "write", procs[p].todo)
           /\ Running(p) /\ procs[p].phase = "truncate" /\ procs[p].todo # <<>>
           /\ files' = [files EXCEPT ![NextFile(p)] = Unreadable]
           /\ UNCHANGED <<drawn, certified, grants, overlaps, progress, denied>>
<1>1. /\ Running(p) /\ procs[p].phase = "truncate"
      /\ files' = [files EXCEPT ![NextFile(p)] = Unreadable]
      /\ UNCHANGED <<drawn, certified, grants, overlaps, progress, denied>>
      /\ procs' = [procs EXCEPT ![p] = Go(p, "write", procs[p].todo)]
  <2>1. procs' = [procs EXCEPT ![p] = Go(p, "write", @.todo)]
    BY DEF TruncateFile
  <2> QED BY <2>1 DEF TruncateFile, At
<1>2. procs[p].todo # <<>> /\ procs[p].phase \in Saving
  BY <1>1 DEF Basics, OnTrack, Saving
<1>3. "write" \in Saving /\ "write" # "exit"
  BY DEF Saving
<1> QED BY <1>1, <1>2, <1>3, SaveKeepsBasics

LEMMA WriteBasics ==
    ASSUME Basics, NEW p \in Procs, WriteFile(p)
    PROVE  /\ Basics'
           /\ GoesOn(p, IF Tail(procs[p].todo) = <<>> THEN "exit" ELSE "truncate",
                     Tail(procs[p].todo))
           /\ Running(p) /\ procs[p].phase = "write" /\ procs[p].todo # <<>>
           /\ \/ files' = [files EXCEPT ![NextFile(p)] = Memory(p)[NextFile(p)]]
              \/ /\ files[NextFile(p)] # Unreadable
                 /\ files' = [files EXCEPT ![NextFile(p)] = Unreadable]
           /\ UNCHANGED <<drawn, certified, grants, overlaps, progress, denied>>
<1> DEFINE phase == IF Tail(procs[p].todo) = <<>> THEN "exit" ELSE "truncate"
<1>1. /\ Running(p) /\ procs[p].phase = "write"
      /\ \/ files' = [files EXCEPT ![NextFile(p)] = Memory(p)[NextFile(p)]]
         \/ /\ files[NextFile(p)] # Unreadable
            /\ files' = [files EXCEPT ![NextFile(p)] = Unreadable]
      /\ UNCHANGED <<drawn, certified, grants, overlaps, progress, denied>>
      /\ procs' = [procs EXCEPT ![p] = Go(p, phase, Tail(procs[p].todo))]
  BY DEF WriteFile, At
<1>2. procs[p].todo # <<>> /\ procs[p].phase \in Saving
  BY <1>1 DEF Basics, OnTrack, Saving
<1>3. phase \in Saving /\ (Tail(procs[p].todo) # <<>> <=> phase # "exit")
  BY DEF Saving
<1>4. PICK content \in {Unreadable, Memory(p)[NextFile(p)]} :
        files' = [files EXCEPT ![NextFile(p)] = content]
  BY <1>1
<1> HIDE DEF phase
<1>5. Basics' /\ GoesOn(p, phase, Tail(procs[p].todo))
  BY <1>1, <1>2, <1>3, <1>4, SaveKeepsBasics
<1> QED BY <1>1, <1>2, <1>5 DEF phase

LEMMA NoProgressType == NoProgress \in [steps : 0..3, env : Environments]
BY DEF NoProgress, Environments

LEMMA QuitBasics ==
    ASSUME Basics, NEW p \in Procs, Quit(p)
    PROVE  Basics' /\ Stops(p) /\ progress' = NoProgress
           /\ UNCHANGED <<files, drawn, certified, grants, overlaps>>
<1>1. /\ Stops(p) /\ progress' = NoProgress
      /\ UNCHANGED <<files, drawn, certified, grants, overlaps>>
  BY QuitStops DEF Basics, Quit
<1>2. grants' \in Seq(Proof) /\ GrantsAreDrawn'
  BY <1>1 DEF Basics, Types, GrantsAreDrawn
<1> QED BY <1>1, <1>2, NoProgressType, StopKeepsBasics

LEMMA RangeOfAppend ==
    ASSUME NEW S, NEW s \in Seq(S), NEW x \in S
    PROVE  Append(s, x) \in Seq(S) /\ Range(Append(s, x)) = Range(s) \cup {x}
<1>1. /\ Append(s, x) \in Seq(S) /\ Len(s) \in Nat
      /\ DOMAIN Append(s, x) = 1..(Len(s) + 1) /\ DOMAIN s = 1..Len(s)
      /\ \A i \in 1..Len(s) : Append(s, x)[i] = s[i]
      /\ Append(s, x)[Len(s) + 1] = x
  BY AppendProperties, LenProperties
<1>2. Range(Append(s, x)) \subseteq Range(s) \cup {x}
  <2> SUFFICES ASSUME NEW i \in 1..(Len(s) + 1)
               PROVE  Append(s, x)[i] \in Range(s) \cup {x}
    BY <1>1 DEF Range
  <2>1. i \in 1..Len(s) \/ i = Len(s) + 1
    BY <1>1
  <2> QED BY <1>1, <2>1 DEF Range
<1>3. Range(s) \cup {x} \subseteq Range(Append(s, x))
  <2>1. \A i \in 1..Len(s) : i \in 1..(Len(s) + 1)
    BY <1>1
  <2>2. Len(s) + 1 \in 1..(Len(s) + 1)
    BY <1>1
  <2> QED BY <1>1, <2>1, <2>2 DEF Range
<1> QED BY <1>1, <1>2, <1>3

LEMMA StepsAreTyped ==
    ASSUME NEW p \in Procs
    PROVE  StepsAfter(p) \in 0..3
BY DEF StepsAfter

LEMMA ExitBasics ==
    ASSUME Basics, NEW p \in Procs, Exit(p)
    PROVE  /\ Basics' /\ Stops(p) /\ Running(p) /\ procs[p].phase = "exit"
           /\ UNCHANGED <<files, drawn, certified, overlaps>>
           /\ IF procs[p].authorized
              THEN /\ "proof" \in DOMAIN Memory(p) /\ Memory(p).proof \in Proof
                   /\ Entry(Memory(p).proof) \in drawn.challenges
                   /\ grants' = Append(grants, Memory(p).proof)
                   /\ Range(grants') = Range(grants) \cup {Memory(p).proof}
              ELSE grants' = grants
<1>1. /\ Running(p) /\ procs[p].phase = "exit"
      /\ procs' = [procs EXCEPT ![p] = Idle]
      /\ UNCHANGED <<files, drawn, certified, overlaps>>
      /\ grants' = IF procs[p].authorized THEN Append(grants, Memory(p).proof) ELSE grants
      /\ progress' = IF StepsAfter(p) = 0 THEN NoProgress
                     ELSE [steps |-> StepsAfter(p),
                           env |-> IF Cmd(p) = "enroll" THEN procs[p].env ELSE progress.env]
  BY DEF Exit, At
<1>2. Types /\ MemoryIsGood(p) /\ OnTrack(p) /\ GrantsAreDrawn
  BY <1>1 DEF Basics
<1>3. Stops(p)
  BY <1>1, <1>2 DEF Stops, OthersWait, Types, Running
<1>4. progress' \in [steps : 0..3, env : Environments]
  <2>1. procs[p].env \in Environments /\ progress.env \in Environments
    BY <1>1, <1>2, ProcessOf DEF Types
  <2> QED BY <1>1, <2>1, StepsAreTyped, NoProgressType
<1>5. CASE procs[p].authorized
  <2>1. "proof" \in DOMAIN Memory(p) /\ Entry(Memory(p).proof) \in drawn.challenges
    BY <1>2, <1>5 DEF OnTrack
  <2>2. Memory(p).proof \in Proof /\ Earned(Memory(p).proof, certified)
    BY <1>2, <2>1, Remembered, ContentsAre DEF Good
  <2>3. /\ grants' = Append(grants, Memory(p).proof) /\ grants' \in Seq(Proof)
        /\ Range(grants') = Range(grants) \cup {Memory(p).proof}
    BY <1>1, <1>2, <1>5, <2>2, RangeOfAppend DEF Types
  <2>4. GrantsAreDrawn'
    BY <1>1, <1>2, <2>1, <2>2, <2>3 DEF GrantsAreDrawn
  <2> QED BY <1>1, <1>3, <1>4, <1>5, <2>1, <2>2, <2>3, <2>4, StopKeepsBasics
<1>6. CASE ~procs[p].authorized
  <2>1. grants' = grants /\ grants' \in Seq(Proof) /\ GrantsAreDrawn'
    BY <1>1, <1>2, <1>6 DEF Types, GrantsAreDrawn
  <2> QED BY <1>1, <1>3, <1>4, <1>6, <2>1, StopKeepsBasics
<1> QED BY <1>5, <1>6

LEMMA EmptyMemory == <<>> \in Memories /\ DOMAIN <<>> = {}
<1>1. <<>> \in [{} -> Data]
  OBVIOUS
<1>2. {} \in SUBSET Names
  OBVIOUS
<1> QED BY <1>1, <1>2 DEF Memories

(* p starts a command; those that run are no longer alone.                 *)
Starts(p, cmd, env, flag) ==
    /\ ~Running(p)
    /\ procs' \in [Procs -> Process \cup {Idle}]
    /\ procs'[p].cmd = cmd /\ procs'[p].env = env /\ procs'[p].flag = flag
    /\ procs'[p].phase = IF cmd = "init" THEN "decide" ELSE "load"
    /\ procs'[p].todo = Loads[cmd] /\ DOMAIN procs'[p].memory = {}
    /\ ~procs'[p].authorized
    /\ procs'[p].alone => (\A q \in Procs : ~Running(q)) /\ overlaps' = overlaps
                             /\ progress' = progress
    /\ ~procs'[p].alone => overlaps' = overlaps + 1 /\ progress' = NoProgress
    /\ \A q \in Procs : q # p =>
        /\ Running(q)' => Running(q)
        /\ Running(q) => procs'[q] = [procs[q] EXCEPT !.alone = FALSE]
    /\ UNCHANGED <<files, drawn, certified, grants, denied>>

LEMMA StartStarts ==
    ASSUME Types, NEW p \in Procs, NEW cmd \in Commands, NEW env \in Environments,
           NEW flag \in BOOLEAN, Start(p, cmd, env, flag)
    PROVE  Starts(p, cmd, env, flag)
<1> DEFINE alone == \A q \in Procs : ~Running(q)
           command == [cmd |-> cmd, env |-> env, flag |-> flag, alone |-> alone,
                       phase |-> IF Loads[cmd] = <<>> THEN "decide" ELSE "load",
                       todo |-> Loads[cmd], memory |-> <<>>, authorized |-> FALSE]
<1>1. /\ ~Running(p) /\ UNCHANGED <<files, drawn, certified, grants, denied>>
      /\ overlaps' = IF alone THEN overlaps ELSE overlaps + 1
      /\ progress' = IF alone THEN progress ELSE NoProgress
      /\ procs' = [q \in Procs |->
                IF q = p THEN command
                ELSE IF Running(q) THEN [procs[q] EXCEPT !.alone = FALSE] ELSE Idle]
  BY DEF Start
<1>2. Loads[cmd] \in Seq(Names) /\ (Loads[cmd] = <<>> <=> cmd = "init")
  BY LoadsAre
<1>3. command \in Process
  <2>1. alone \in BOOLEAN
    OBVIOUS
  <2> HIDE DEF alone
  <2> QED BY <2>1, <1>2, EmptyMemory DEF Process, Loading, Saving
<1>4. \A q \in Procs : Running(q) => [procs[q] EXCEPT !.alone = FALSE] \in Process
  BY ProcessOf DEF Process
<1>5. /\ command.cmd = cmd /\ command.env = env /\ command.flag = flag
      /\ command.alone = alone
      /\ command.phase = IF Loads[cmd] = <<>> THEN "decide" ELSE "load"
      /\ command.todo = Loads[cmd] /\ command.memory = <<>>
      /\ command.authorized = FALSE
  OBVIOUS
<1> HIDE DEF command
<1>6. procs' \in [Procs -> Process \cup {Idle}]
  BY <1>1, <1>3, <1>4
<1>7. procs'[p] = command
  BY <1>1
<1>8. \A q \in Procs : q # p =>
        /\ Running(q)' => Running(q)
        /\ Running(q) => procs'[q] = [procs[q] EXCEPT !.alone = FALSE]
  BY <1>1 DEF Running
<1>9. /\ procs'[p].cmd = cmd /\ procs'[p].env = env /\ procs'[p].flag = flag
      /\ procs'[p].phase = IF cmd = "init" THEN "decide" ELSE "load"
      /\ procs'[p].todo = Loads[cmd]
      /\ ~procs'[p].authorized
  BY <1>2, <1>5, <1>7
<1>10. DOMAIN procs'[p].memory = {}
  BY <1>5, <1>7, EmptyMemory
<1>11. procs'[p].alone => alone /\ overlaps' = overlaps /\ progress' = progress
  BY <1>1, <1>5, <1>7
<1>12. ~procs'[p].alone => overlaps' = overlaps + 1 /\ progress' = NoProgress
  BY <1>1, <1>5, <1>7
<1> QED BY <1>1, <1>6, <1>8, <1>9, <1>10, <1>11, <1>12 DEF Starts

LEMMA StartBasics ==
    ASSUME Basics, NEW p \in Procs, NEW cmd \in Commands, NEW env \in Environments,
           NEW flag \in BOOLEAN, Start(p, cmd, env, flag)
    PROVE  Basics' /\ Starts(p, cmd, env, flag)
<1>1. Types /\ Starts(p, cmd, env, flag)
  BY StartStarts DEF Basics
<1>2. Types'
  <2>1. overlaps' \in Nat
    BY <1>1 DEF Starts, Types
  <2>2. progress' \in [steps : 0..3, env : Environments]
    BY <1>1, NoProgressType DEF Starts, Types
  <2> QED BY <1>1, <2>1, <2>2 DEF Starts, Types
<1>3. MemoryIsGood(p)'
  BY <1>1 DEF Starts, MemoryIsGood, Memory
<1>4. OnTrack(p)'
  <2>1. /\ procs'[p].cmd = cmd /\ ~procs'[p].authorized
        /\ procs'[p].todo = Loads[cmd] /\ procs'[p].phase \in Loading
        /\ procs'[p].phase \notin Saving
        /\ procs'[p].todo # <<>> <=> procs'[p].phase = "load"
    BY <1>1, LoadsAre DEF Starts, Loading, Saving
  <2> QED BY <2>1 DEF OnTrack, Cmd, Memory
<1>5. ASSUME NEW q \in Procs, q # p, Running(q)'
      PROVE  MemoryIsGood(q)' /\ OnTrack(q)'
  <2>1. Running(q) /\ procs'[q] = [procs[q] EXCEPT !.alone = FALSE]
    BY <1>1, <1>5 DEF Starts
  <2>2. /\ procs'[q].cmd = procs[q].cmd /\ procs'[q].env = procs[q].env
        /\ procs'[q].phase = procs[q].phase /\ procs'[q].todo = procs[q].todo
        /\ procs'[q].memory = procs[q].memory
        /\ procs'[q].authorized = procs[q].authorized
    BY <1>1, <2>1, ProcessOf DEF Process
  <2>3. MemoryIsGood(q) /\ OnTrack(q) /\ UNCHANGED <<drawn, certified>>
    BY <1>1, <2>1 DEF Basics, Starts
  <2>4. MemoryIsGood(q)'
    BY <2>2, <2>3 DEF MemoryIsGood, Memory
  <2>5. OnTrack(q)'
    BY <2>2, <2>3 DEF OnTrack, Memory, Cmd
  <2> QED BY <2>4, <2>5
<1>6. FilesAreGood' /\ NoncesAreFresh' /\ GrantsAreDrawn'
  BY <1>1, FilesStayGood, DrawnGrows DEF Basics, Starts, NoncesAreFresh
<1> QED BY <1>1, <1>2, <1>3, <1>4, <1>5, <1>6 DEF Basics

LEMMA InitIsBasic == Init => Basics
<1> SUFFICES ASSUME Init PROVE Basics
  OBVIOUS
<1>1. \A f \in Names : ~Readable(f)
  BY DEF Init, Readable
<1>2. \A p \in Procs : ~Running(p)
  BY DEF Init, Running
<1>3. Types
  <2>1. files \in [Names -> Data]
    BY DEF Init, Data
  <2>2. procs \in [Procs -> Process \cup {Idle}]
    BY DEF Init
  <2>3. drawn \in [agents : SUBSET Agents, challenges : SUBSET Entries,
                  keysets : 0..MaxKeyset]
    BY ProcessesConstants DEF Init
  <2>4. grants \in Seq(Proof) /\ overlaps \in Nat /\ certified \subseteq Certificate
    BY DEF Init
  <2> QED BY <2>1, <2>2, <2>3, <2>4, NoProgressType DEF Types, Init
<1>4. NoncesAreFresh /\ Range(grants) = {}
  BY NoNames DEF Init, NoncesAreFresh
<1> QED BY <1>1, <1>2, <1>3, <1>4 DEF Basics, FilesAreGood, GrantsAreDrawn

LEMMA NextIsBasic == Basics /\ [Next]_vars => Basics'
<1> SUFFICES ASSUME Basics, [Next]_vars PROVE Basics'
  OBVIOUS
<1>1. CASE UNCHANGED vars
  BY <1>1 DEF vars, Basics, Types, FilesAreGood, MemoryIsGood, OnTrack, NoncesAreFresh,
              GrantsAreDrawn, Readable, Running, Memory, Cmd
<1>2. CASE Next
  <2>1. PICK p \in Procs :
            \/ \E cmd \in Commands, env \in Environments, flag \in BOOLEAN :
                Start(p, cmd, env, flag)
            \/ LoadFile(p) \/ InitPassport(p)
            \/ \E m \in Manifests : UpdateManifest(p, m)
            \/ Enroll(p) \/ IssueChallenge(p) \/ Prove(p) \/ VerifyAccess(p)
            \/ TruncateFile(p) \/ WriteFile(p) \/ Exit(p) \/ Kill(p)
    BY <1>2 DEF Next
  <2>2. CASE Fail(p) \/ Kill(p)
    BY <2>2, QuitBasics DEF Fail, Kill
  <2>3. CASE LoadFile(p)
    <3>1. /\ Types /\ At(p, "load") /\ procs[p].todo # <<>>
      BY <2>3 DEF LoadFile, Basics, At, OnTrack, Loading
    <3> QED BY <2>2, <2>3, <3>1, LoadFileReads, ReadKeepsBasics
  <2>4. CASE \E cmd \in Commands, env \in Environments, flag \in BOOLEAN :
                Start(p, cmd, env, flag)
    BY <2>4, StartBasics
  <2> QED BY <2>1, <2>2, <2>3, <2>4, InitBasics, UpdateBasics, EnrollBasics, ChallengeBasics,
             ProveBasics, VerifyBasics, TruncateBasics, WriteBasics, ExitBasics
<1> QED BY <1>1, <1>2

THEOREM BasicsAlways == Spec => []Basics
BY InitIsBasic, NextIsBasic, PTL DEF Spec

(* Types, and a readable file holds what its name says, however often      *)
(* commands overlapped.                                                    *)
THEOREM TypeCorrect == Spec => []TypeOK
<1>1. Basics => TypeOK
  <2> SUFFICES ASSUME Basics PROVE TypeOK
    OBVIOUS
  <2>1. \A f \in Names : Readable(f) => files[f] \in Contents[f]
    BY DEF Basics, FilesAreGood, Good
  <2>2. \A p \in Procs : Running(p) =>
            /\ procs[p].phase \in Loading \cup Saving
            /\ procs[p].authorized => Cmd(p) = "verify"
    BY ProcessOf DEF Basics, OnTrack
  <2>3. certified \subseteq Certificate /\ progress.steps \in 0..3
    BY DEF Basics, Types
  <2>4. Range(grants) \subseteq Proof
    BY DEF Basics, Types, Range
  <2> QED BY <2>1, <2>2, <2>3, <2>4 DEF TypeOK
<1> QED BY <1>1, BasicsAlways, PTL

(* Whoever is granted access was certified under the keyset and for a      *)
(* manifest that the policy allows, whatever overlapped, was torn, stale   *)
(* or killed: every file that decodes was honestly made.                   *)
THEOREM GrantsEarned == Spec => []GrantsAreEarned
<1>1. Basics => GrantsAreEarned
  BY DEF Basics, GrantsAreDrawn, Earned, GrantsAreEarned
<1> QED BY <1>1, BasicsAlways, PTL

-----------------------------------------------------------------------------
(* A command that is alone works with the files as they are.               *)
LEMMA OthersOverlap ==
    ASSUME Alone, NEW p \in Procs, Running(p), OthersWait(p),
           NEW q \in Procs, q # p, Running(q) \/ Running(q)'
    PROVE  /\ Running(q) /\ procs'[q] = procs[q] /\ ~procs[q].alone
           /\ overlaps # 0 /\ ~procs[p].alone
BY DEF Alone, Undisturbed, OthersWait, Running

LEMMA AloneAfter ==
    ASSUME Alone, NEW p \in Procs, Running(p), OthersWait(p), UNCHANGED overlaps,
           Running(p)' => procs'[p].alone = procs[p].alone,
           Running(p)' /\ procs[p].alone => Undisturbed(p)'
    PROVE  Alone'
<1> SUFFICES ASSUME NEW q \in Procs, Running(q)'
             PROVE  /\ overlaps' = 0 => procs'[q].alone
                    /\ procs'[q].alone => Undisturbed(q)'
  BY DEF Alone
<1>1. CASE q = p
  BY <1>1 DEF Alone
<1>2. CASE q # p
  BY <1>2, OthersOverlap
<1> QED BY <1>1, <1>2

LEMMA NobodyElse ==
    ASSUME Alone, NEW p \in Procs, Running(p), procs[p].alone, OthersWait(p)
    PROVE  /\ Undisturbed(p)
           /\ \A q \in Procs : q # p => ~Running(q) /\ ~Running(q)'
BY DEF Alone, Undisturbed, OthersWait, Running

LEMMA ReadAlone ==
    ASSUME Alone, NEW p \in Procs, At(p, "load"), Reads(p, NextFile(p)),
           UNCHANGED <<files, overlaps>>
    PROVE  Alone'
<1>1. /\ Running(p) /\ procs[p].phase = "load" /\ OthersWait(p)
      /\ procs'[p].alone = procs[p].alone
      /\ procs'[p].phase \in Loading /\ procs'[p].phase \notin Saving
      /\ procs'[p].phase # "write" /\ procs[p].phase \in Loading
  BY DEF At, Reads, SameCommand, Loading, Saving
<1>2. ASSUME procs[p].alone PROVE Undisturbed(p)'
  <2>1. /\ \A q \in Procs : q # p => ~Running(q)'
        /\ \A f \in DOMAIN Memory(p) : Memory(p)[f] = files[f]
    BY <1>1, <1>2, NobodyElse DEF Undisturbed
  <2>2. \A f \in DOMAIN procs'[p].memory : procs'[p].memory[f] = files'[f]
    BY <2>1 DEF Reads
  <2> QED BY <1>1, <2>1, <2>2 DEF Undisturbed, Memory
<1> QED BY <1>1, <1>2, AloneAfter

LEMMA DecideAlone ==
    ASSUME Alone, NEW p \in Procs, Running(p), NEW outputs, NEW authorized,
           Decides(p, outputs, authorized), UNCHANGED <<files, overlaps>>
    PROVE  Alone'
<1>1. /\ OthersWait(p) /\ procs'[p].alone = procs[p].alone
      /\ procs'[p].cmd = Cmd(p) /\ procs'[p].todo = Saves[Cmd(p)]
      /\ procs'[p].phase \notin Loading /\ procs'[p].phase # "write"
  BY DEF Decides, SameCommand, Loading, Cmd
<1>2. ASSUME procs[p].alone PROVE Undisturbed(p)'
  BY <1>1, <1>2, NobodyElse DEF Undisturbed, Cmd
<1> QED BY <1>1, <1>2, AloneAfter

LEMMA SavesTodo ==
    ASSUME Basics, NEW p \in Procs, Running(p), procs[p].phase \in Saving,
           procs[p].todo # <<>>
    PROVE  /\ NextFile(p) \in Names /\ NextFile(p) \in Range(Saves[Cmd(p)])
           /\ NextFile(p) \in DOMAIN Memory(p)
           /\ Range(procs[p].todo) = {NextFile(p)} \cup Range(Tail(procs[p].todo))
           /\ NextFile(p) \notin Range(Tail(procs[p].todo))
           /\ DOMAIN files = Names /\ Cmd(p) \in Commands
           /\ procs[p].todo \in {Saves[Cmd(p)], Tail(Saves[Cmd(p)])}
<1>1. /\ OnTrack(p) /\ Cmd(p) \in Commands /\ DOMAIN files = Names
  BY ProcessOf DEF Basics, Types
<1>2. /\ procs[p].todo \in {Saves[Cmd(p)], Tail(Saves[Cmd(p)]), <<>>}
      /\ Range(Saves[Cmd(p)]) \subseteq DOMAIN Memory(p)
  BY <1>1 DEF OnTrack
<1> QED BY <1>1, <1>2, RestOfSaves DEF NextFile

LEMMA TruncateAlone ==
    ASSUME Basics, Alone, NEW p \in Procs, TruncateFile(p)
    PROVE  Alone'
<1>1. /\ Running(p) /\ procs[p].phase = "truncate" /\ procs[p].todo # <<>>
      /\ procs[p].phase \in Saving
      /\ GoesOn(p, "write", procs[p].todo)
      /\ files' = [files EXCEPT ![NextFile(p)] = Unreadable]
      /\ UNCHANGED overlaps
  BY TruncateBasics DEF Saving
<1>2. /\ OthersWait(p) /\ procs'[p].alone = procs[p].alone
      /\ procs'[p].cmd = Cmd(p) /\ procs'[p].todo = procs[p].todo
      /\ procs'[p].memory = Memory(p)
      /\ procs'[p].phase \notin Loading /\ procs'[p].phase = "write"
  BY <1>1 DEF GoesOn, SameCommand, Loading, Cmd
<1>3. ASSUME procs[p].alone PROVE Undisturbed(p)'
  <2>1. /\ \A q \in Procs : q # p => ~Running(q)'
        /\ \A f \in Range(Saves[Cmd(p)]) \ Range(procs[p].todo) : files[f] = Memory(p)[f]
    BY <1>1, <1>2, <1>3, NobodyElse DEF Undisturbed
  <2>2. NextFile(p) \in Range(procs[p].todo) /\ files'[NextFile(p)] = Unreadable
    BY <1>1, SavesTodo
  <2>3. \A f \in Range(Saves[Cmd(p)]) \ Range(procs[p].todo) : files'[f] = Memory(p)[f]
    BY <1>1, <2>1, <2>2
  <2>4. NextFile(p)' = NextFile(p)
    BY <1>2 DEF NextFile
  <2> QED BY <1>2, <2>1, <2>2, <2>3, <2>4 DEF Undisturbed, Cmd, Memory
<1> QED BY <1>1, <1>2, <1>3, AloneAfter

(* Nothing of another file's text is left over.                            *)
LEMMA WritesWhole ==
    ASSUME Basics, Alone, NEW p \in Procs, WriteFile(p), procs[p].alone
    PROVE  files' = [files EXCEPT ![NextFile(p)] = Memory(p)[NextFile(p)]]
<1>1. Running(p) /\ procs[p].phase = "write"
  BY WriteBasics
<1>2. files[NextFile(p)] = Unreadable
  BY <1>1 DEF Alone, Undisturbed
<1> QED BY <1>2, WriteBasics

LEMMA WriteAlone ==
    ASSUME Basics, Alone, NEW p \in Procs, WriteFile(p)
    PROVE  Alone'
<1> DEFINE rest == Tail(procs[p].todo)
           phase == IF rest = <<>> THEN "exit" ELSE "truncate"
<1>1. /\ Running(p) /\ procs[p].phase = "write" /\ procs[p].todo # <<>>
      /\ procs[p].phase \in Saving /\ GoesOn(p, phase, rest) /\ UNCHANGED overlaps
  BY WriteBasics DEF Saving
<1>2. /\ OthersWait(p) /\ procs'[p].alone = procs[p].alone
      /\ procs'[p].cmd = Cmd(p) /\ procs'[p].todo = rest
      /\ procs'[p].memory = Memory(p)
      /\ procs'[p].phase \notin Loading /\ procs'[p].phase # "write"
  BY <1>1 DEF GoesOn, SameCommand, Loading, Cmd
<1>3. ASSUME procs[p].alone PROVE Undisturbed(p)'
  <2>1. /\ \A q \in Procs : q # p => ~Running(q)'
        /\ \A f \in Range(Saves[Cmd(p)]) \ Range(procs[p].todo) : files[f] = Memory(p)[f]
    BY <1>1, <1>2, <1>3, NobodyElse DEF Undisturbed
  <2>2. Range(procs[p].todo) = {NextFile(p)} \cup Range(rest) /\ NextFile(p) \in DOMAIN files
    BY <1>1, SavesTodo
  <2>3. files' = [files EXCEPT ![NextFile(p)] = Memory(p)[NextFile(p)]]
    BY <1>3, WritesWhole
  <2>4. \A f \in Range(Saves[Cmd(p)]) \ Range(rest) : files'[f] = Memory(p)[f]
    BY <2>1, <2>2, <2>3
  <2> HIDE DEF rest
  <2> QED BY <1>2, <2>1, <2>4 DEF Undisturbed, Cmd, Memory
<1> QED BY <1>1, <1>2, <1>3, AloneAfter

LEMMA StopAlone ==
    ASSUME Alone, NEW p \in Procs, Running(p), Stops(p), UNCHANGED overlaps
    PROVE  Alone'
BY AloneAfter DEF Stops

LEMMA StartAlone ==
    ASSUME Types, Alone, NEW p \in Procs, NEW cmd, NEW env, NEW flag,
           Starts(p, cmd, env, flag)
    PROVE  Alone'
<1>1. overlaps + 1 # 0
  BY DEF Types
<1>2. ASSUME NEW q \in Procs, q # p, Running(q)'
      PROVE  ~procs'[q].alone /\ overlaps' # 0
  <2>1. /\ Running(q) /\ procs'[q] = [procs[q] EXCEPT !.alone = FALSE]
        /\ procs[q] \in Process
    BY <1>2, ProcessOf DEF Starts
  <2>2. procs'[q].alone = FALSE
    BY <2>1 DEF Process
  <2>3. ~procs'[p].alone
    BY <2>1 DEF Starts
  <2> QED BY <1>1, <2>2, <2>3 DEF Starts
<1>3. overlaps' = 0 => procs'[p].alone
  BY <1>1 DEF Starts
<1>4. ASSUME procs'[p].alone PROVE Undisturbed(p)'
  <2>1. /\ \A q \in Procs : q # p => ~Running(q)'
        /\ procs'[p].phase \notin Saving /\ procs'[p].phase # "write"
        /\ DOMAIN procs'[p].memory = {}
    BY <1>4 DEF Starts, Saving
  <2> QED BY <2>1 DEF Undisturbed, Memory
<1> QED BY <1>2, <1>3, <1>4 DEF Alone

-----------------------------------------------------------------------------
(* One-time access, as long as no two commands overlapped: what a step     *)
(* does to the pending nonces.                                             *)
LEMMA OnceAfter ==
    ASSUME NEW p \in Procs, \A q \in Procs : q # p => ~Running(q)',
           Readable("service")' => Unspent(files'["service"], Spent'),
           Running(p)' /\ "service" \in DOMAIN procs'[p].memory =>
                Unspent(procs'[p].memory.service, Spent'),
           Running(p)' /\ procs'[p].authorized =>
                /\ procs'[p].memory.proof.nonce \notin Spent'
                /\ \A e \in procs'[p].memory.service.pending :
                        e.nonce # procs'[p].memory.proof.nonce
    PROVE  Once'
BY DEF Once, Memory

LEMMA ReadOnce ==
    ASSUME Basics, Once, NEW p \in Procs, \A q \in Procs : q # p => ~Running(q)',
           At(p, "load"), Reads(p, NextFile(p)),
           Readable(NextFile(p)) \/ NextFile(p) = "passport",
           UNCHANGED <<files, grants>>
    PROVE  Once'
<1>1. Running(p) /\ ~procs'[p].authorized
  BY DEF At, Basics, OnTrack, Loading, Reads
<1>2. Spent' = Spent /\ (Readable("service") => Unspent(files["service"], Spent))
  BY DEF Spent, Once
<1>3. "service" \in DOMAIN procs'[p].memory => Unspent(procs'[p].memory.service, Spent)
  <2>1. CASE NextFile(p) = "service"
    BY <1>2, <2>1 DEF Reads
  <2>2. CASE NextFile(p) # "service"
    <3>1. "service" \in DOMAIN procs'[p].memory =>
            /\ "service" \in DOMAIN Memory(p)
            /\ procs'[p].memory["service"] = Memory(p)["service"]
      BY <2>2 DEF Reads
    <3>2. "service" \in DOMAIN Memory(p) => Unspent(Memory(p)["service"], Spent)
      BY <1>1 DEF Once
    <3> QED BY <3>1, <3>2
  <2> QED BY <2>1, <2>2
<1> QED BY <1>1, <1>2, <1>3, OnceAfter DEF Readable

(* Only a verify command authorizes; the others put a service in order.    *)
LEMMA DecideOnce ==
    ASSUME Once, NEW p \in Procs, \A q \in Procs : q # p => ~Running(q)',
           NEW outputs, Decides(p, outputs, FALSE),
           "service" \in DOMAIN outputs => Unspent(outputs.service, Spent),
           UNCHANGED <<files, grants>>
    PROVE  Once'
<1>1. procs'[p].memory = outputs /\ ~procs'[p].authorized /\ Spent' = Spent
  BY DEF Decides, Spent
<1> QED BY <1>1, OnceAfter DEF Once, Readable

LEMMA ChallengeOnce ==
    ASSUME Basics, Once, NEW p \in Procs, \A q \in Procs : q # p => ~Running(q)',
           IssueChallenge(p)
    PROVE  Once'
<1>1. /\ UNCHANGED <<files, grants>> /\ Running(p)
      /\ "service" \in DOMAIN Memory(p)
  BY ChallengeBasics DEF IssueChallenge, At
<1>2. PICK n \in Nonces :
            /\ \A ch \in drawn.challenges : ch.nonce # n
            /\ Challenges(p, n)
  BY ChallengeBasics
<1> DEFINE entry == [nonce |-> n, policy |-> [manifest |-> Memory(p).declaration.manifest,
                                             strict |-> procs[p].flag]]
           service == Memory(p).service
           updated == [service EXCEPT !.pending = @ \cup {entry}]
           challenge == [nonce |-> n, policy |-> entry.policy, keyset |-> service.keyset]
           out == [service |-> updated, challenge |-> challenge]
<1>3. Decides(p, out, FALSE)
  BY <1>2 DEF Challenges
<1>4. service \in Service
  BY <1>1, Remembered, ContentsAre DEF Basics, Good
<1>5. updated.pending = service.pending \cup {entry} /\ entry.nonce = n
  <2> HIDE DEF service, entry
  <2>1. updated.pending = service.pending \cup {entry}
    BY <1>4 DEF Service
  <2> QED BY <2>1 DEF entry
<1>6. Unspent(service, Spent)
  BY <1>1 DEF Once
<1>7. n \notin Spent
  <2>1. \A g \in Range(grants) : Entry(g) \in drawn.challenges /\ Entry(g).nonce = g.nonce
    BY DEF Basics, GrantsAreDrawn, Entry
  <2> QED BY <1>2, <2>1 DEF Spent
<1> HIDE DEF service, entry, updated, challenge
<1>8. Unspent(updated, Spent)
  BY <1>5, <1>6, <1>7 DEF Unspent
<1>9. out.service = updated
  OBVIOUS
<1> HIDE DEF out
<1> QED BY <1>1, <1>3, <1>8, <1>9, DecideOnce

LEMMA VerifyOnce ==
    ASSUME Basics, Once, NEW p \in Procs, \A q \in Procs : q # p => ~Running(q)',
           VerifyAccess(p)
    PROVE  Once'
<1> DEFINE service == Memory(p).service
           ch == Memory(p).challenge
           proof == Memory(p).proof
           updated == ConsumeNonce(service, ch)
           out == [service |-> updated, challenge |-> ch, proof |-> proof]
<1>1. /\ UNCHANGED <<files, grants>> /\ Running(p)
      /\ "service" \in DOMAIN Memory(p) /\ (Authorizes(p) \/ Rejects(p))
  BY VerifyBasics DEF VerifyAccess, At
<1>2. "service" \in DOMAIN Memory(p)
  BY VerifyBasics
<1>3. Unspent(service, Spent)
  BY <1>1, <1>2 DEF Once
<1>4. CASE Rejects(p)
  <2>1. Decides(p, [service |-> service], FALSE)
    BY <1>4 DEF Rejects
  <2>2. [service |-> service].service = service
    OBVIOUS
  <2> HIDE DEF service
  <2> QED BY <1>1, <1>3, <2>1, <2>2, DecideOnce
<1>5. CASE Authorizes(p)
  <2>1. Accepts(service, ch, proof) /\ Decides(p, out, TRUE)
    BY <1>5 DEF Authorizes
  <2>2. service \in Service
    BY <1>1, <1>2, Remembered, ContentsAre DEF Basics, Good
  <2> HIDE DEF service, ch, proof
  <2>3. /\ proof.nonce = ch.nonce /\ ch.nonce \notin Spent
    BY <1>3, <2>1 DEF Accepts, Unspent
  <2>4. updated.pending = {e \in service.pending : e.nonce # ch.nonce}
    BY <2>2 DEF ConsumeNonce, Service
  <2> HIDE DEF updated
  <2>5. out.service = updated /\ out.proof = proof
    OBVIOUS
  <2> HIDE DEF out
  <2>6. procs'[p].memory = out /\ Spent' = Spent
    BY <1>1, <2>1 DEF Decides, Spent
  <2>7. Unspent(updated, Spent) /\ \A e \in updated.pending : e.nonce # proof.nonce
    BY <1>3, <2>3, <2>4 DEF Unspent
  <2>8. Readable("service")' => Unspent(files'["service"], Spent')
    BY <1>1, <2>6 DEF Once, Readable
  <2> QED BY <2>3, <2>5, <2>6, <2>7, <2>8, OnceAfter
<1> QED BY <1>1, <1>4, <1>5, VerifyBasics

LEMMA SaveOnce ==
    ASSUME Basics, Once, NEW p \in Procs, \A q \in Procs : q # p => ~Running(q)',
           Running(p), procs[p].phase \in Saving, procs[p].todo # <<>>,
           NEW phase, NEW todo, GoesOn(p, phase, todo), UNCHANGED grants,
           \/ files' = [files EXCEPT ![NextFile(p)] = Unreadable]
           \/ files' = [files EXCEPT ![NextFile(p)] = Memory(p)[NextFile(p)]]
    PROVE  Once'
<1>1. /\ procs'[p].memory = Memory(p) /\ procs'[p].authorized = procs[p].authorized
      /\ Spent' = Spent
  BY DEF GoesOn, Spent
<1>2. /\ NextFile(p) \in DOMAIN Memory(p) /\ NextFile(p) \in DOMAIN files
      /\ "service" \in DOMAIN files
  BY SavesTodo, TheNames
<1>3. /\ Readable("service") => Unspent(files["service"], Spent)
      /\ "service" \in DOMAIN Memory(p) => Unspent(Memory(p).service, Spent)
      /\ procs[p].authorized =>
            /\ Memory(p).proof.nonce \notin Spent
            /\ \A e \in Memory(p).service.pending : e.nonce # Memory(p).proof.nonce
  BY DEF Once
<1>4. Readable("service")' => Unspent(files'["service"], Spent)
  <2>1. CASE NextFile(p) = "service"
    <3>1. files'["service"] = Unreadable \/ files'["service"] = Memory(p)["service"]
      BY <1>2, <2>1
    <3> QED BY <3>1, <1>2, <1>3, <2>1 DEF Readable
  <2>2. CASE NextFile(p) # "service"
    <3>1. files'["service"] = files["service"]
      BY <1>2, <2>2
    <3> QED BY <3>1, <1>3 DEF Readable
  <2> QED BY <2>1, <2>2
<1> QED BY <1>1, <1>3, <1>4, OnceAfter

LEMMA ExitOnce ==
    ASSUME Basics, Alone, Once, NEW p \in Procs, \A q \in Procs : q # p => ~Running(q)',
           procs[p].alone, Exit(p)
    PROVE  Once'
<1>1. /\ Stops(p) /\ Running(p) /\ procs[p].phase = "exit" /\ UNCHANGED files
  BY ExitBasics
<1>2. ~Running(p)'
  BY <1>1 DEF Stops
<1>3. CASE ~procs[p].authorized
  <2>1. Spent' = Spent
    BY <1>3, ExitBasics DEF Spent
  <2> QED BY <1>1, <1>2, <2>1, OnceAfter DEF Once, Readable
<1>4. CASE procs[p].authorized
  <2>1. Spent' = Spent \cup {Memory(p).proof.nonce}
    BY <1>4, ExitBasics DEF Spent
  <2>2. Cmd(p) = "verify" /\ procs[p].todo = <<>>
    BY <1>1, <1>4 DEF Basics, OnTrack, Saving
  <2>3. "service" \in Range(Saves[Cmd(p)]) \ Range(procs[p].todo)
    BY <2>2, SavesAre, NoNames
  <2>4. files["service"] = Memory(p)["service"]
    BY <1>1, <2>3 DEF Alone, Undisturbed, Saving
  <2>5. "service" \in DOMAIN Memory(p)
    BY <1>1, <2>2, SavesAre DEF Basics, OnTrack, Saving
  <2>6. /\ Unspent(Memory(p).service, Spent)
        /\ \A e \in Memory(p).service.pending : e.nonce # Memory(p).proof.nonce
    BY <1>1, <1>4, <2>5 DEF Once
  <2>7. Unspent(files'["service"], Spent')
    BY <1>1, <2>1, <2>4, <2>6 DEF Unspent
  <2> QED BY <1>2, <2>7, OnceAfter
<1> QED BY <1>3, <1>4

LEMMA QuietOnce ==
    ASSUME Once, NEW p \in Procs, \A q \in Procs : q # p => ~Running(q)',
           UNCHANGED <<files, grants>>,
           Running(p)' => DOMAIN procs'[p].memory = {} /\ ~procs'[p].authorized
    PROVE  Once'
<1>1. Spent' = Spent
  BY DEF Spent
<1> QED BY <1>1, OnceAfter DEF Once, Readable

-----------------------------------------------------------------------------
(* The trust anchor, as long as no two commands overlapped.                *)
LEMMA KeysetsAreNumbers ==
    /\ drawn \in [agents : SUBSET Agents, challenges : SUBSET Entries,
                  keysets : 0..MaxKeyset] => drawn.keysets \in Nat
    /\ \A f \in Dated : \A c : c \in Contents[f] => c.keyset \in Nat
<1>1. 0..MaxKeyset \subseteq Nat /\ Keysets \subseteq Nat
  BY ProcessesConstants DEF Keysets
<1>2. \A f \in Dated : \A c : c \in Contents[f] => c.keyset \in Keysets
  <2>1. /\ \A c \in Certificate : c.keyset \in Keysets
        /\ \A c \in Service : c.keyset \in Keysets
    BY DEF Certificate, Service
  <2>2. /\ \A c \in Challenge : c.keyset \in Keysets
        /\ \A c \in Proof : c.keyset \in Keysets
    BY DEF Challenge, Proof
  <2> QED BY <2>1, <2>2, ContentsAre DEF Dated
<1> QED BY <1>1, <1>2

LEMMA FileKeysets ==
    ASSUME Basics
    PROVE  /\ drawn.keysets \in Nat
           /\ \A f \in Dated : Readable(f) => files[f].keyset \in Nat
<1>1. \A f \in Dated : Readable(f) => files[f] \in Contents[f]
  BY TheNames DEF Basics, FilesAreGood, Good, Dated
<1> QED BY <1>1, KeysetsAreNumbers DEF Basics, Types

(* What is loaded is in its file, and decodes.                             *)
LEMMA LoadedIsStored ==
    ASSUME Basics, Alone, NEW p \in Procs, Running(p), procs[p].alone,
           procs[p].phase = "decide", NEW f \in DOMAIN Memory(p), f # "passport"
    PROVE  /\ Memory(p)[f] = files[f] /\ Readable(f) /\ f \in Names
           /\ Good(f, files[f], certified, drawn.challenges)
<1>1. Memory(p)[f] = files[f]
  BY DEF Alone, Undisturbed, Loading
<1>2. Good(f, files[f], certified, drawn.challenges)
  BY <1>1, Remembered DEF Basics
<1>3. f \in Names
  BY ProcessOf, MemoryFiles DEF Basics, Memory
<1>4. Readable(f)
  BY <1>2, <1>3, ProcessesSentinels DEF Good, Readable
<1> QED BY <1>1, <1>2, <1>3, <1>4

LEMMA TrustAfter ==
    ASSUME Trust, NEW p \in Procs, \A q \in Procs : q # p => ~Running(q)',
           UNCHANGED files, drawn.keysets \in Nat, drawn'.keysets \in Nat,
           drawn.keysets <= drawn'.keysets,
           \A f \in Dated : Readable(f) => files[f].keyset \in Nat,
           Running(p)' /\ procs'[p].phase \in Saving => Numbered(p)'
    PROVE  Trust'
<1>1. \A f \in Dated : Readable(f)' => files'[f].keyset <= drawn'.keysets
  BY DEF Trust, Readable
<1>2. Readable("service")' => Ordered(files', files'["service"].keyset)
  BY DEF Trust, Readable
<1> QED BY <1>1, <1>2 DEF Trust

LEMMA QuietTrust ==
    ASSUME Basics, Trust, NEW p \in Procs, \A q \in Procs : q # p => ~Running(q)',
           UNCHANGED <<files, drawn>>,
           Running(p)' => procs'[p].phase \in Loading
    PROVE  Trust'
<1>1. /\ drawn.keysets \in Nat
      /\ \A f \in Dated : Readable(f) => files[f].keyset \in Nat
  BY FileKeysets
<1>2. Running(p)' => procs'[p].phase \notin Saving
  BY DEF Loading, Saving
<1> QED BY <1>1, <1>2, TrustAfter

LEMMA DatedSaves ==
    ASSUME NEW cmd \in Commands
    PROVE  Dated \cap Range(Saves[cmd]) =
              IF cmd = "enroll" THEN {"certificate", "service"}
              ELSE IF cmd = "prove" THEN {"proof"}
              ELSE IF cmd = "challenge" THEN {"service", "challenge"}
              ELSE IF cmd = "verify" THEN {"service"}
              ELSE {}
BY SavesAre, CommandNames DEF Dated

LEMMA DecideTrust ==
    ASSUME Basics, Trust, NEW p \in Procs, \A q \in Procs : q # p => ~Running(q)',
           Cmd(p) \in Commands, UNCHANGED files, drawn'.keysets \in Nat, drawn.keysets <= drawn'.keysets,
           NEW outputs, NEW authorized, Decides(p, outputs, authorized),
           Cmd(p) = "enroll" => /\ outputs.certificate.keyset = drawn'.keysets
                                /\ outputs.service.keyset = drawn'.keysets,
           Cmd(p) \in {"challenge", "verify"} =>
                Readable("service") /\ outputs.service.keyset = files["service"].keyset,
           Cmd(p) = "challenge" => outputs.challenge.keyset = outputs.service.keyset,
           Cmd(p) = "prove" =>
                Readable("challenge") /\ outputs.proof.keyset = files["challenge"].keyset
    PROVE  Trust'
<1>1. /\ drawn.keysets \in Nat
      /\ \A f \in Dated : Readable(f) => files[f].keyset \in Nat
      /\ "service" \in Dated /\ "challenge" \in Dated
  BY FileKeysets DEF Dated
<1>2. /\ \A f \in Dated : Readable(f) => files[f].keyset <= drawn'.keysets
      /\ Readable("service") => Ordered(files, files["service"].keyset)
  BY <1>1 DEF Trust
<1>3. procs'[p].memory = outputs /\ procs'[p].cmd = Cmd(p)
  BY DEF Decides, SameCommand, Cmd
<1>4. \A f \in Dated \cap Range(Saves[Cmd(p)]) : outputs[f].keyset <= drawn'.keysets
  BY <1>1, <1>2, DatedSaves
<1>5. Cmd(p) = "prove" /\ Readable("service") =>
            outputs.proof.keyset <= files["service"].keyset
  BY <1>2 DEF Ordered, Holds, Readable
<1>6. Cmd(p) \in {"challenge", "verify"} => Ordered(files, outputs.service.keyset)
  BY <1>2
<1>7. Numbered(p)'
  BY <1>3, <1>4, <1>5, <1>6 DEF Numbered, Memory, Cmd, Readable
<1> QED BY <1>1, <1>7, TrustAfter

(* A torn file only takes facts away.                                      *)
LEMMA TruncateTrust ==
    ASSUME Basics, Trust, NEW p \in Procs, \A q \in Procs : q # p => ~Running(q)',
           TruncateFile(p)
    PROVE  Trust'
<1>1. /\ Running(p) /\ procs[p].phase \in Saving /\ procs[p].todo # <<>>
      /\ files' = [files EXCEPT ![NextFile(p)] = Unreadable] /\ UNCHANGED drawn
      /\ GoesOn(p, "write", procs[p].todo)
  BY TruncateBasics DEF Saving
<1>2. DOMAIN files = Names /\ NextFile(p) \in Names
  BY <1>1, SavesTodo
<1>3. \A g \in Names : Readable(g)' => Readable(g) /\ files'[g] = files[g]
  BY <1>1, <1>2 DEF Readable
<1>4. Dated \subseteq Names
  BY TheNames DEF Dated
<1>5. \A f \in Dated : Readable(f)' => files'[f].keyset <= drawn'.keysets
  BY <1>1, <1>3, <1>4 DEF Trust
<1>6. ASSUME NEW k, Ordered(files, k) PROVE Ordered(files', k)
  <2>1. \A g \in Names : Holds(files', g) => Holds(files, g) /\ files'[g] = files[g]
    BY <1>3 DEF Holds, Readable
  <2> QED BY <1>6, <2>1, TheNames DEF Ordered
<1>7. Readable("service")' => Ordered(files', files'["service"].keyset)
  BY <1>3, <1>6, TheNames DEF Trust
<1>8. Numbered(p)'
  <2>1. /\ procs'[p].memory = Memory(p) /\ procs'[p].cmd = Cmd(p) /\ Numbered(p)
    BY <1>1 DEF GoesOn, SameCommand, Cmd, Trust
  <2>2. Readable("service")' => Readable("service") /\ files'["service"] = files["service"]
    BY <1>3, TheNames
  <2> QED BY <1>1, <1>6, <2>1, <2>2 DEF Numbered, Memory, Cmd
<1> QED BY <1>5, <1>7, <1>8 DEF Trust

LEMMA WriteTrust ==
    ASSUME Basics, Alone, Trust, NEW p \in Procs, \A q \in Procs : q # p => ~Running(q)',
           procs[p].alone, WriteFile(p)
    PROVE  Trust'
<1> DEFINE f == NextFile(p)
           F == files
           G == files'
           M == Memory(p)
<1>1. /\ Running(p) /\ procs[p].phase \in Saving /\ procs[p].todo # <<>>
      /\ procs[p].phase = "write"
      /\ G = [F EXCEPT ![f] = M[f]] /\ UNCHANGED drawn
      /\ procs'[p].memory = M /\ procs'[p].cmd = Cmd(p)
  BY WriteBasics, WritesWhole DEF Saving, GoesOn, SameCommand, Cmd
<1>2. /\ DOMAIN F = Names /\ f \in Names /\ f \in Range(Saves[Cmd(p)])
      /\ Cmd(p) \in Commands /\ f \in DOMAIN M
  BY <1>1, SavesTodo
<1>3. G[f] = M[f] /\ \A g \in Names : g # f => G[g] = F[g]
  BY <1>1, <1>2
<1>4. Numbered(p) /\ drawn.keysets \in Nat /\ Dated \subseteq Names
  BY <1>1, FileKeysets, TheNames DEF Trust, Dated
<1>5. /\ \A g \in Dated : Holds(F, g) => F[g].keyset <= drawn.keysets /\ F[g].keyset \in Nat
      /\ Holds(F, "service") => Ordered(F, F["service"].keyset)
  BY FileKeysets DEF Trust, Readable, Holds
<1>6. f \in Dated => M[f].keyset \in Nat
  BY <1>1, <1>2, Remembered, KeysetsAreNumbers DEF Basics, Good, Dated
<1>7. /\ f \in Dated => M[f].keyset <= drawn.keysets
      /\ Cmd(p) = "enroll" =>
            /\ M.certificate.keyset = drawn.keysets
            /\ M.service.keyset = drawn.keysets
      /\ Cmd(p) \in {"challenge", "verify"} =>
            /\ Ordered(F, M.service.keyset)
            /\ Holds(F, "service") => F["service"].keyset = M.service.keyset
      /\ Cmd(p) = "challenge" => M.challenge.keyset = M.service.keyset
      /\ Cmd(p) = "prove" /\ Holds(F, "service") => M.proof.keyset <= F["service"].keyset
  BY <1>2, <1>4 DEF Numbered, Holds, Readable
<1>8. Cmd(p) = "enroll" /\ f = "service" => F["certificate"] = M["certificate"]
  <2> SUFFICES ASSUME Cmd(p) = "enroll", f = "service" PROVE F["certificate"] = M["certificate"]
    OBVIOUS
  <2>1. procs[p].todo \in {Saves["enroll"], Tail(Saves["enroll"])}
    BY <1>1, SavesTodo
  <2>2. Head(Saves["enroll"]) = "certificate"
    BY DEF Saves
  <2>3. procs[p].todo = <<"service">>
    BY <2>1, <2>2, SavesAre DEF NextFile
  <2>4. "certificate" \in Range(Saves[Cmd(p)]) \ Range(procs[p].todo)
    BY <2>3, OneName, SavesAre, TheNames
  <2> QED BY <1>1, <2>4 DEF Alone, Undisturbed
<1>9. \/ Cmd(p) = "enroll" /\ f \in {"certificate", "service"}
      \/ Cmd(p) = "prove" /\ f = "proof"
      \/ Cmd(p) = "challenge" /\ f \in {"service", "challenge"}
      \/ Cmd(p) = "verify" /\ f = "service"
      \/ Cmd(p) \in {"init", "update"} /\ f \notin Dated
  BY <1>2, CommandNames, SavesAre DEF Dated
<1>10. /\ "certificate" \in Names /\ "service" \in Names
       /\ "challenge" \in Names /\ "proof" \in Names
       /\ "certificate" \in Dated /\ "service" \in Dated
       /\ "challenge" \in Dated /\ "proof" \in Dated
  BY TheNames DEF Dated
<1> HIDE DEF f, F, G, M
<1>11. \A g \in Dated : Holds(G, g) => G[g].keyset <= drawn.keysets
  BY <1>3, <1>4, <1>5, <1>7 DEF Holds
<1>12. Holds(G, "service") => Ordered(G, G["service"].keyset)
  <2>1. CASE Cmd(p) = "enroll" /\ f = "certificate"
    <3>1. /\ G["certificate"].keyset = drawn.keysets
          /\ \A g \in {"service", "challenge", "proof"} : G[g] = F[g]
      BY <2>1, <1>3, <1>7, <1>10
    <3>2. Holds(F, "service") => F["service"].keyset <= drawn.keysets
      BY <1>5, <1>10
    <3> QED BY <3>1, <3>2, <1>5 DEF Ordered, Holds
  <2>2. CASE Cmd(p) = "enroll" /\ f = "service"
    <3>1. /\ G["service"].keyset = drawn.keysets
          /\ \A g \in {"certificate", "challenge", "proof"} : G[g] = F[g]
          /\ G["certificate"].keyset = drawn.keysets
      BY <2>2, <1>3, <1>7, <1>8, <1>10
    <3>2. \A g \in {"challenge", "proof"} : Holds(G, g) => G[g].keyset <= drawn.keysets
      BY <1>10, <1>11
    <3> QED BY <3>1, <3>2, <1>4 DEF Ordered
  <2>3. CASE Cmd(p) = "prove" /\ f = "proof"
    <3>1. /\ G["proof"].keyset = M.proof.keyset
          /\ \A g \in {"service", "challenge", "certificate"} : G[g] = F[g]
      BY <2>3, <1>3, <1>10
    <3> QED BY <2>3, <3>1, <1>5, <1>7 DEF Ordered, Holds
  <2>4. CASE Cmd(p) \in {"challenge", "verify"} /\ f = "service"
    <3>1. /\ G["service"].keyset = M.service.keyset
          /\ \A g \in {"proof", "challenge", "certificate"} : G[g] = F[g]
      BY <2>4, <1>3, <1>10
    <3> QED BY <2>4, <3>1, <1>7 DEF Ordered, Holds
  <2>5. CASE Cmd(p) = "challenge" /\ f = "challenge"
    <3>1. /\ G["challenge"].keyset = M.challenge.keyset
          /\ \A g \in {"proof", "service", "certificate"} : G[g] = F[g]
      BY <2>5, <1>3, <1>10
    <3>2. Holds(F, "service") => G["challenge"].keyset <= F["service"].keyset
      BY <2>5, <3>1, <1>5, <1>7, <1>10
    <3> QED BY <3>1, <3>2, <1>5 DEF Ordered, Holds
  <2>6. CASE Cmd(p) \in {"init", "update"} /\ f \notin Dated
    <3>1. \A g \in {"proof", "service", "certificate", "challenge"} : G[g] = F[g]
      BY <2>6, <1>3, <1>10
    <3> QED BY <3>1, <1>5 DEF Ordered, Holds
  <2> QED BY <1>9, <2>1, <2>2, <2>3, <2>4, <2>5, <2>6
<1>13. Cmd(p) \in {"challenge", "verify"} =>
            /\ Ordered(G, M.service.keyset)
            /\ Holds(G, "service") => G["service"].keyset = M.service.keyset
  <2>1. CASE Cmd(p) \in {"challenge", "verify"} /\ f = "service"
    <3>1. /\ G["service"].keyset = M.service.keyset
          /\ \A g \in {"proof", "challenge", "certificate"} : G[g] = F[g]
      BY <2>1, <1>3, <1>10
    <3> QED BY <2>1, <3>1, <1>7 DEF Ordered, Holds
  <2>2. CASE Cmd(p) = "challenge" /\ f = "challenge"
    <3>1. /\ G["challenge"].keyset = M.service.keyset /\ M.service.keyset \in Nat
          /\ \A g \in {"proof", "service", "certificate"} : G[g] = F[g]
      BY <2>2, <1>3, <1>6, <1>7, <1>10
    <3> QED BY <2>2, <3>1, <1>7 DEF Ordered, Holds
  <2> QED BY <1>9, <2>1, <2>2
<1>14. Cmd(p) = "prove" /\ Holds(G, "service") => M.proof.keyset <= G["service"].keyset
  BY <1>3, <1>7, <1>9, <1>10 DEF Holds
<1>15. Numbered(p)'
  BY <1>1, <1>4, <1>7, <1>13, <1>14 DEF Numbered, Memory, Cmd, Readable, Holds, G, M
<1>16. /\ \A g \in Dated : Readable(g)' => files'[g].keyset <= drawn'.keysets
       /\ Readable("service")' => Ordered(files', files'["service"].keyset)
  BY <1>1, <1>11, <1>12 DEF Readable, Holds, G
<1> QED BY <1>15, <1>16 DEF Trust

-----------------------------------------------------------------------------
(* One-time access and the trust anchor, command by command.               *)
Core == Basics /\ Alone /\ WhileAlone

LEMMA AloneNow ==
    ASSUME Core, NEW p \in Procs, Running(p), OthersWait(p), overlaps = 0
    PROVE  /\ Once /\ Trust /\ procs[p].alone
           /\ \A q \in Procs : q # p => ~Running(q)'
<1>1. procs[p].alone
  BY DEF Core, Alone
<1> QED BY <1>1, NobodyElse DEF Core, WhileAlone

LEMMA StopCore ==
    ASSUME Core, NEW p \in Procs, Running(p), Quit(p)
    PROVE  Core'
<1>1. Basics' /\ Stops(p) /\ UNCHANGED <<files, drawn, grants, overlaps>>
  BY QuitBasics DEF Core
<1>2. Alone' /\ ~Running(p)' /\ OthersWait(p)
  BY <1>1, StopAlone DEF Core, Stops
<1>3. WhileAlone'
  BY <1>1, <1>2, AloneNow, QuietOnce, QuietTrust DEF WhileAlone, Core
<1> QED BY <1>1, <1>2, <1>3 DEF Core

LEMMA ExitCore ==
    ASSUME Core, NEW p \in Procs, Exit(p)
    PROVE  Core'
<1>1. /\ Basics' /\ Stops(p) /\ Running(p) /\ UNCHANGED <<files, drawn, overlaps>>
  BY ExitBasics DEF Core
<1>2. Alone' /\ ~Running(p)' /\ OthersWait(p)
  BY <1>1, StopAlone DEF Core, Stops
<1>3. WhileAlone'
  BY <1>1, <1>2, AloneNow, ExitOnce, QuietTrust DEF WhileAlone, Core
<1> QED BY <1>1, <1>2, <1>3 DEF Core

LEMMA StartCore ==
    ASSUME Core, NEW p \in Procs, NEW cmd \in Commands, NEW env \in Environments,
           NEW flag \in BOOLEAN, Start(p, cmd, env, flag)
    PROVE  Core'
<1>1. Basics' /\ Starts(p, cmd, env, flag)
  BY StartBasics DEF Core
<1>2. Alone'
  BY <1>1, StartAlone DEF Core, Basics
<1>3. ASSUME overlaps' = 0 PROVE Once' /\ Trust'
  <2>1. procs'[p].alone /\ overlaps = 0
    BY <1>1, <1>3 DEF Starts, Core, Basics, Types
  <2>2. /\ \A q \in Procs : q # p => ~Running(q)'
        /\ UNCHANGED <<files, drawn, grants>>
        /\ DOMAIN procs'[p].memory = {} /\ ~procs'[p].authorized
        /\ procs'[p].phase \in Loading
    BY <1>1, <2>1 DEF Starts, Loading
  <2> QED BY <2>1, <2>2, QuietOnce, QuietTrust DEF WhileAlone, Core
<1> QED BY <1>1, <1>2, <1>3 DEF Core, WhileAlone

LEMMA LoadFileCore ==
    ASSUME Core, NEW p \in Procs, LoadFile(p)
    PROVE  Core'
<1>1. /\ Types /\ At(p, "load") /\ procs[p].todo # <<>> /\ Running(p)
  BY DEF LoadFile, Core, Basics, At, OnTrack, Loading
<1>2. CASE Fail(p)
  BY <1>1, <1>2, StopCore DEF Fail
<1>3. CASE ~Fail(p)
  <2>1. /\ Reads(p, NextFile(p))
        /\ \/ Readable(NextFile(p))
           \/ NextFile(p) = "passport" /\ procs[p].env # NoAgent
        /\ UNCHANGED <<files, drawn, certified, grants, started, overlaps,
                       progress, denied>>
    BY <1>1, <1>3, LoadFileReads
  <2>2. Basics' /\ Alone' /\ OthersWait(p) /\ procs'[p].phase \in Loading
    BY <1>1, <2>1, ReadKeepsBasics, ReadAlone DEF Core, Reads, Loading
  <2>3. WhileAlone'
    BY <1>1, <2>1, <2>2, AloneNow, ReadOnce, QuietTrust DEF WhileAlone, Core
  <2> QED BY <2>2, <2>3 DEF Core
<1> QED BY <1>2, <1>3

(* A command that has decided disturbs nobody.                             *)
LEMMA DecideCore ==
    ASSUME Core, Basics', NEW p \in Procs, Running(p),
           UNCHANGED <<files, overlaps>>,
           NEW outputs, NEW authorized, Decides(p, outputs, authorized),
           Once /\ Trust /\ procs[p].alone /\ (\A q \in Procs : q # p => ~Running(q)')
                => Once' /\ Trust'
    PROVE  Core'
<1>1. Alone' /\ OthersWait(p)
  BY DecideAlone DEF Core, Decides
<1> QED BY <1>1, AloneNow DEF Core, WhileAlone

LEMMA KeysetsGrow ==
    ASSUME Basics, Basics', drawn'.keysets \in {drawn.keysets, drawn.keysets + 1}
    PROVE  drawn'.keysets \in Nat /\ drawn.keysets <= drawn'.keysets
BY KeysetsAreNumbers DEF Basics, Types

LEMMA PassportCore ==
    ASSUME Core, Basics', NEW p \in Procs, Running(p), Cmd(p) \in {"init", "update"},
           UNCHANGED <<files, overlaps, grants>>, drawn'.keysets = drawn.keysets,
           NEW agent, Decides(p, PassportAndDeclaration(agent), FALSE)
    PROVE  Core'
<1> DEFINE out == PassportAndDeclaration(agent)
<1>1. "service" \notin DOMAIN out
  BY DEF PassportAndDeclaration
<1>2. Decides(p, out, FALSE)
  OBVIOUS
<1> HIDE DEF out
<1>3. ASSUME Once, Trust, \A q \in Procs : q # p => ~Running(q)'
      PROVE  Once' /\ Trust'
  <2>1. Once'
    BY <1>1, <1>2, <1>3, DecideOnce
  <2>2. Trust'
    BY <1>2, <1>3, KeysetsGrow, ProcessOf, DecideTrust DEF Core, Basics
  <2> QED BY <2>1, <2>2
<1> QED BY <1>2, <1>3, DecideCore

LEMMA InitPassportCore ==
    ASSUME Core, NEW p \in Procs, InitPassport(p)
    PROVE  Core'
<1>1. Running(p) /\ Cmd(p) = "init"
  BY DEF InitPassport, At
<1> QED BY <1>1, InitBasics, StopCore, PassportCore DEF Fail, Core

LEMMA UpdateCore ==
    ASSUME Core, NEW p \in Procs, NEW m \in Manifests, UpdateManifest(p, m)
    PROVE  Core'
<1>1. Running(p) /\ Cmd(p) = "update"
  BY DEF UpdateManifest, At
<1> QED BY <1>1, UpdateBasics, PassportCore DEF Core

LEMMA EnrollCore ==
    ASSUME Core, NEW p \in Procs, Enroll(p)
    PROVE  Core'
<1>1. Running(p) /\ Cmd(p) = "enroll" /\ Cmd(p) \in Commands
  BY ProcessOf DEF Enroll, At, Core, Basics
<1>2. /\ Basics' /\ UNCHANGED <<files, grants, overlaps>>
      /\ drawn'.keysets = drawn.keysets + 1
  BY EnrollBasics DEF Core
<1>3. PICK certificate \in Certificate :
        /\ certificate.keyset = drawn.keysets + 1
        /\ Decides(p, [certificate |-> certificate,
                       service |-> [keyset |-> drawn.keysets + 1,
                                    pending |-> {}, used |-> {}]], FALSE)
  BY EnrollBasics DEF Core
<1> DEFINE service == [keyset |-> drawn.keysets + 1, pending |-> {}, used |-> {}]
           out == [certificate |-> certificate, service |-> service]
<1>4. service.keyset = drawn.keysets + 1 /\ service.pending = {}
  OBVIOUS
<1> HIDE DEF service
<1>5. out.certificate = certificate /\ out.service = service
  OBVIOUS
<1>6. Decides(p, out, FALSE)
  BY <1>3 DEF service
<1> HIDE DEF out
<1>7. ASSUME Once, Trust, \A q \in Procs : q # p => ~Running(q)'
      PROVE  Once' /\ Trust'
  <2>1. Once'
    BY <1>2, <1>4, <1>5, <1>6, <1>7, DecideOnce DEF Unspent
  <2>2. Trust'
    BY <1>1, <1>2, <1>3, <1>4, <1>5, <1>6, <1>7, KeysetsGrow, DecideTrust DEF Core
  <2> QED BY <2>1, <2>2
<1> QED BY <1>1, <1>2, <1>6, <1>7, DecideCore

LEMMA ChallengeCore ==
    ASSUME Core, NEW p \in Procs, IssueChallenge(p)
    PROVE  Core'
<1>1. /\ Running(p) /\ Cmd(p) = "challenge" /\ Cmd(p) \in Commands
      /\ procs[p].phase = "decide"
  BY ProcessOf DEF IssueChallenge, At, Core, Basics
<1>2. /\ Basics' /\ UNCHANGED <<files, grants, overlaps>>
      /\ drawn'.keysets = drawn.keysets /\ "service" \in DOMAIN Memory(p)
  BY ChallengeBasics DEF Core
<1>3. PICK n \in Nonces : Challenges(p, n)
  BY ChallengeBasics DEF Core
<1> DEFINE service == Memory(p).service
           policy == [manifest |-> Memory(p).declaration.manifest,
                      strict |-> procs[p].flag]
           updated == [service EXCEPT !.pending = @ \cup {[nonce |-> n, policy |-> policy]}]
           challenge == [nonce |-> n, policy |-> policy, keyset |-> service.keyset]
           out == [service |-> updated, challenge |-> challenge]
<1>4. Decides(p, out, FALSE)
  BY <1>3 DEF Challenges
<1>5. updated.keyset = service.keyset /\ challenge.keyset = service.keyset
  <2>1. Memory(p).service \in Service
    BY <1>1, <1>2, Remembered, ContentsAre DEF Core, Basics, Good
  <2> HIDE DEF policy
  <2>2. updated.keyset = service.keyset
    BY <2>1 DEF Service
  <2> QED BY <2>2
<1> HIDE DEF updated, challenge, service
<1>6. out.service = updated /\ out.challenge = challenge
  OBVIOUS
<1> HIDE DEF out
<1>7. ASSUME Once, Trust, procs[p].alone, \A q \in Procs : q # p => ~Running(q)'
      PROVE  Once' /\ Trust'
  <2>1. Once'
    BY <1>7, ChallengeOnce DEF Core
  <2>2. Readable("service") /\ files["service"] = service
    BY <1>1, <1>2, <1>7, LoadedIsStored DEF Core, service
  <2>3. Trust'
    BY <1>1, <1>2, <1>4, <1>5, <1>6, <1>7, <2>2, KeysetsGrow, DecideTrust DEF Core
  <2> QED BY <2>1, <2>3
<1> QED BY <1>1, <1>2, <1>4, <1>7, DecideCore

LEMMA ProveCore ==
    ASSUME Core, NEW p \in Procs, Prove(p)
    PROVE  Core'
<1>1. /\ Running(p) /\ Cmd(p) = "prove" /\ Cmd(p) \in Commands
      /\ procs[p].phase = "decide"
  BY ProcessOf DEF Prove, At, Core, Basics
<1>2. CASE Fail(p)
  BY <1>1, <1>2, StopCore DEF Fail
<1>3. CASE ~Fail(p)
  <2> DEFINE ch == Memory(p).challenge
             proof == [agent |-> LoadAgent(p).agent, nonce |-> ch.nonce,
                       policy |-> ch.policy, keyset |-> ch.keyset]
             out == [proof |-> proof]
  <2>1. /\ Basics' /\ UNCHANGED <<files, drawn, grants, overlaps>>
        /\ "challenge" \in DOMAIN Memory(p) /\ Decides(p, out, FALSE)
    BY <1>3, ProveBasics DEF Core
  <2>2. proof.keyset = ch.keyset /\ out.proof = proof /\ "service" \notin DOMAIN out
    OBVIOUS
  <2> HIDE DEF proof, ch, out
  <2>3. ASSUME Once, Trust, procs[p].alone, \A q \in Procs : q # p => ~Running(q)'
        PROVE  Once' /\ Trust'
    <3>1. Once'
      BY <2>1, <2>2, <2>3, DecideOnce
    <3>2. Readable("challenge") /\ files["challenge"] = ch
      BY <1>1, <2>1, <2>3, LoadedIsStored DEF Core, ch
    <3>3. Trust'
      BY <1>1, <2>1, <2>2, <2>3, <3>2, KeysetsGrow, DecideTrust DEF Core
    <3> QED BY <3>1, <3>3
  <2> QED BY <1>1, <2>1, <2>3, DecideCore
<1> QED BY <1>2, <1>3

LEMMA VerifyCore ==
    ASSUME Core, NEW p \in Procs, VerifyAccess(p)
    PROVE  Core'
<1>1. /\ Running(p) /\ Cmd(p) = "verify" /\ Cmd(p) \in Commands
      /\ procs[p].phase = "decide"
  BY ProcessOf DEF VerifyAccess, At, Core, Basics
<1>2. /\ Basics' /\ UNCHANGED <<files, drawn, grants, overlaps>>
      /\ "service" \in DOMAIN Memory(p)
      /\ Authorizes(p) \/ Rejects(p)
  BY VerifyBasics DEF Core
<1>3. PICK outputs, authorized :
        /\ Decides(p, outputs, authorized)
        /\ outputs.service.keyset = Memory(p).service.keyset
  <2> DEFINE service == Memory(p).service
             ch == Memory(p).challenge
             proof == Memory(p).proof
             updated == ConsumeNonce(service, ch)
             out == [service |-> updated, challenge |-> ch, proof |-> proof]
  <2>1. CASE Rejects(p)
    <3>1. Decides(p, [service |-> service], FALSE)
      BY <2>1 DEF Rejects
    <3>2. [service |-> service].service.keyset = service.keyset
      OBVIOUS
    <3> QED BY <3>1, <3>2
  <2>2. CASE Authorizes(p)
    <3>1. Decides(p, out, TRUE)
      BY <2>2 DEF Authorizes
    <3>2. service \in Service
      BY <1>1, <1>2, Remembered, ContentsAre DEF Core, Basics, Good
    <3>3. updated.keyset = service.keyset
      <4> HIDE DEF service, ch
      <4> QED BY <3>2 DEF ConsumeNonce, Service
    <3> HIDE DEF updated
    <3>4. out.service = updated
      OBVIOUS
    <3> QED BY <3>1, <3>3, <3>4
  <2> QED BY <1>2, <2>1, <2>2
<1>4. ASSUME Once, Trust, procs[p].alone, \A q \in Procs : q # p => ~Running(q)'
      PROVE  Once' /\ Trust'
  <2>1. Once'
    BY <1>4, VerifyOnce DEF Core
  <2>2. Readable("service") /\ files["service"] = Memory(p)["service"]
    BY <1>1, <1>2, <1>4, LoadedIsStored DEF Core
  <2>3. Trust'
    BY <1>1, <1>2, <1>3, <1>4, <2>2, KeysetsGrow, DecideTrust DEF Core
  <2> QED BY <2>1, <2>3
<1> QED BY <1>1, <1>2, <1>3, <1>4, DecideCore

LEMMA TruncateCore ==
    ASSUME Core, NEW p \in Procs, TruncateFile(p)
    PROVE  Core'
<1>1. /\ Basics' /\ GoesOn(p, "write", procs[p].todo) /\ OthersWait(p)
      /\ Running(p) /\ procs[p].phase \in Saving /\ procs[p].todo # <<>>
      /\ files' = [files EXCEPT ![NextFile(p)] = Unreadable]
      /\ UNCHANGED <<grants, overlaps>>
  BY TruncateBasics DEF Core, Saving, GoesOn
<1>2. Alone'
  BY TruncateAlone DEF Core
<1>3. WhileAlone'
  BY <1>1, AloneNow, SaveOnce, TruncateTrust DEF WhileAlone, Core
<1> QED BY <1>1, <1>2, <1>3 DEF Core

LEMMA WriteCore ==
    ASSUME Core, NEW p \in Procs, WriteFile(p)
    PROVE  Core'
<1>1. /\ Basics' /\ GoesOn(p, IF Tail(procs[p].todo) = <<>> THEN "exit" ELSE "truncate",
                            Tail(procs[p].todo))
      /\ OthersWait(p)
      /\ Running(p) /\ procs[p].phase \in Saving /\ procs[p].todo # <<>>
      /\ \/ files' = [files EXCEPT ![NextFile(p)] = Unreadable]
         \/ files' = [files EXCEPT ![NextFile(p)] = Memory(p)[NextFile(p)]]
      /\ UNCHANGED <<grants, overlaps>>
  BY WriteBasics DEF Core, Saving, GoesOn
<1>2. Alone'
  BY WriteAlone DEF Core
<1>3. ASSUME overlaps' = 0 PROVE Once' /\ Trust'
  <2>1. /\ Once /\ Trust /\ procs[p].alone
        /\ \A q \in Procs : q # p => ~Running(q)'
    BY <1>1, <1>3, AloneNow
  <2>2. Once'
    BY <1>1, <2>1, SaveOnce DEF Core
  <2> QED BY <2>1, <2>2, WriteTrust DEF Core
<1> QED BY <1>1, <1>2, <1>3 DEF Core, WhileAlone

LEMMA InitIsCore == Init => Core
<1> SUFFICES ASSUME Init PROVE Core
  OBVIOUS
<1>1. \A f \in Names : ~Readable(f)
  BY DEF Init, Readable
<1>2. \A p \in Procs : ~Running(p)
  BY DEF Init, Running
<1>3. "service" \in Names /\ Dated \subseteq Names
  BY TheNames DEF Dated
<1>4. Once /\ Trust /\ Alone
  BY <1>1, <1>2, <1>3 DEF Once, Trust, Alone
<1> QED BY <1>4, InitIsBasic DEF Core, WhileAlone

(* The steps of the specification, by process.                             *)
Steps(p) ==
    \/ \E cmd \in Commands, env \in Environments, flag \in BOOLEAN :
        Start(p, cmd, env, flag)
    \/ LoadFile(p) \/ InitPassport(p)
    \/ \E m \in Manifests : UpdateManifest(p, m)
    \/ Enroll(p) \/ IssueChallenge(p) \/ Prove(p) \/ VerifyAccess(p)
    \/ TruncateFile(p) \/ WriteFile(p) \/ Exit(p) \/ Kill(p)

LEMMA NextSteps == Next => \E p \in Procs : Steps(p)
BY DEF Next, Steps

LEMMA NextIsCore == Core /\ [Next]_vars => Core'
<1> SUFFICES ASSUME Core, [Next]_vars PROVE Core'
  OBVIOUS
<1>1. CASE UNCHANGED vars
  <2>1. Basics'
    BY <1>1, NextIsBasic DEF Core
  <2>2. Alone'
    BY <1>1 DEF vars, Core, Alone, Undisturbed, Running, Memory, Cmd, NextFile
  <2>3. (Once => Once') /\ (Trust => Trust')
    BY <1>1 DEF vars, Once, Spent, Trust, Numbered, Readable, Running, Memory, Cmd
  <2> QED BY <1>1, <2>1, <2>2, <2>3 DEF vars, Core, WhileAlone
<1>2. CASE Next
  <2>1. PICK p \in Procs : Steps(p)
    BY <1>2, NextSteps
  <2>2. Kill(p) => Core'
    BY StopCore DEF Kill
  <2> QED BY <2>1, <2>2, StartCore, LoadFileCore, InitPassportCore, UpdateCore, EnrollCore,
             ChallengeCore, ProveCore, VerifyCore, TruncateCore, WriteCore, ExitCore DEF Steps
<1> QED BY <1>1, <1>2

THEOREM CoreAlways == Spec => []Core
BY InitIsCore, NextIsCore, PTL DEF Spec

(* The trust anchor never falls behind a challenge or a proof and never    *)
(* gets ahead of the certificate: every save order is safe against a kill, *)
(* for any number of committees, nonces and commands, one at a time.       *)
THEOREM TrustAnchor == Spec => []TrustMovesForward
<1>1. Core => TrustMovesForward
  BY DEF Core, WhileAlone, Trust, Ordered, Holds, Readable, TrustMovesForward
<1> QED BY <1>1, CoreAlways, PTL

-----------------------------------------------------------------------------
(* One-time access.                                                        *)
TermsOf(challenges) ==
    [v \in {TheService} |-> [n \in Nonces |->
        IF \E ch \in challenges : ch.nonce = n
        THEN LET ch == CHOOSE ch \in challenges : ch.nonce = n
             IN [policyHash |-> ch.policy, expires |-> 0]
        ELSE Missing]]

SpentBy(accesses) == [v \in {TheService} |-> {g.nonce : g \in Range(accesses)}]

GrantedBy(accesses) ==
    [i \in DOMAIN accesses |->
        [verifier |-> TheService, nonce |-> accesses[i].nonce,
         policyHash |-> accesses[i].policy, at |-> 0]]

(* The terms of the challenges C before and after a fresh one is issued.   *)
FreshTerms(C, n, policy) ==
    /\ \A w \in {TheService} : TermsOf(C)[w][n] = Missing
    /\ TermsOf(C \cup {[nonce |-> n, policy |-> policy]}) =
            [TermsOf(C) EXCEPT ![TheService][n] = [policyHash |-> policy, expires |-> 0 + 0]]

LEMMA TermsAfterIssue ==
    ASSUME NEW C, NEW n \in Nonces, NEW policy, \A ch \in C : ch.nonce # n
    PROVE  FreshTerms(C, n, policy)
<1> DEFINE entry == [nonce |-> n, policy |-> policy]
           D == C \cup {entry}
           Term(S, m) == IF \E ch \in S : ch.nonce = m
                         THEN LET ch == CHOOSE ch \in S : ch.nonce = m
                              IN [policyHash |-> ch.policy, expires |-> 0]
                         ELSE Missing
           Row(S) == [m \in Nonces |-> Term(S, m)]
<1>1. entry.nonce = n /\ entry.policy = policy
  OBVIOUS
<1>2. /\ TermsOf(C) = [v \in {TheService} |-> Row(C)]
      /\ TermsOf(D) = [v \in {TheService} |-> Row(D)]
  BY DEF TermsOf
<1> HIDE DEF entry
<1>3. Term(C, n) = Missing
  OBVIOUS
<1>4. Term(D, n) = [policyHash |-> policy, expires |-> 0]
  <2>1. entry \in D /\ \A ch \in D : ch.nonce = n => ch = entry
    BY <1>1
  <2>2. (CHOOSE ch \in D : ch.nonce = n) = entry
    BY <1>1, <2>1
  <2> QED BY <1>1, <2>1, <2>2
<1>5. ASSUME NEW m \in Nonces, m # n PROVE Term(D, m) = Term(C, m)
  <2>1. \A ch : (ch \in D /\ ch.nonce = m) <=> (ch \in C /\ ch.nonce = m)
    BY <1>1, <1>5
  <2>2. (CHOOSE ch \in D : ch.nonce = m) = (CHOOSE ch \in C : ch.nonce = m)
    BY <2>1
  <2> QED BY <2>1, <2>2
<1> HIDE DEF Term, D
<1>6. Row(D) = [Row(C) EXCEPT ![n] = [policyHash |-> policy, expires |-> 0]]
  BY <1>4, <1>5
<1>7. Row(C)[n] = Missing
  BY <1>3
<1> HIDE DEF Row
<1>8. 0 + 0 = 0
  OBVIOUS
<1> QED BY <1>2, <1>6, <1>7, <1>8 DEF D, entry, FreshTerms

LEMMA TermsOfDrawn ==
    ASSUME NEW C, NEW entry \in C, entry.nonce \in Nonces,
           \A c, d \in C : c.nonce = d.nonce => c = d
    PROVE  TermsOf(C)[TheService][entry.nonce] = [policyHash |-> entry.policy, expires |-> 0]
<1>1. (CHOOSE ch \in C : ch.nonce = entry.nonce) = entry
  OBVIOUS
<1> QED BY <1>1 DEF TermsOf

LEMMA GrantedAfter ==
    ASSUME NEW s \in Seq(Proof), NEW x \in Proof
    PROVE  GrantedBy(Append(s, x)) =
            Append(GrantedBy(s), [verifier |-> TheService, nonce |-> x.nonce,
                                  policyHash |-> x.policy, at |-> 0])
<1> DEFINE Access(g) == [verifier |-> TheService, nonce |-> g.nonce,
                         policyHash |-> g.policy, at |-> 0]
           a == Append(s, x)
           b == Append(GrantedBy(s), Access(x))
<1>1. /\ Len(s) \in Nat /\ DOMAIN s = 1..Len(s) /\ DOMAIN a = 1..(Len(s) + 1)
      /\ \A i \in 1..Len(s) : a[i] = s[i]
      /\ a[Len(s) + 1] = x
  BY AppendProperties, LenProperties
<1>2. GrantedBy(s) = [i \in 1..Len(s) |-> Access(s[i])]
  BY <1>1 DEF GrantedBy
<1>3. GrantedBy(a) = [i \in 1..(Len(s) + 1) |-> Access(a[i])]
  BY <1>1 DEF GrantedBy
<1> HIDE DEF Access
<1>4. GrantedBy(s) \in Seq({Access(g) : g \in Proof}) /\ Len(GrantedBy(s)) = Len(s)
  <2>1. \A i \in 1..Len(s) : s[i] \in Proof
    BY <1>1
  <2> QED BY <1>1, <1>2, <2>1
<1>5. /\ DOMAIN b = 1..(Len(s) + 1) /\ b[Len(s) + 1] = Access(x)
      /\ \A i \in 1..Len(s) : b[i] = Access(s[i])
      /\ b = [i \in 1..(Len(s) + 1) |-> b[i]]
  <2>1. Access(x) \in {Access(g) : g \in Proof}
    OBVIOUS
  <2>2. /\ b \in Seq({Access(g) : g \in Proof}) /\ Len(b) = Len(s) + 1
        /\ b[Len(s) + 1] = Access(x)
        /\ \A i \in 1..Len(s) : b[i] = GrantedBy(s)[i]
    BY <1>4, <2>1, AppendProperties
  <2> QED BY <1>1, <1>2, <2>2
<1>6. \A i \in 1..(Len(s) + 1) : b[i] = Access(a[i])
  <2> SUFFICES ASSUME NEW i \in 1..(Len(s) + 1) PROVE b[i] = Access(a[i])
    OBVIOUS
  <2>1. i \in 1..Len(s) \/ i = Len(s) + 1
    BY <1>1
  <2> QED BY <1>1, <1>5, <2>1
<1>7. GrantedBy(a) = b
  BY <1>3, <1>5, <1>6
<1> QED BY <1>7 DEF Access

LEMMA IssueStep ==
    ASSUME Basics, NEW p \in Procs, IssueChallenge(p)
    PROVE  Abstract!Next
<1>1. PICK n \in Nonces :
            /\ \A ch \in drawn.challenges : ch.nonce # n
            /\ Challenges(p, n)
  BY ChallengeBasics
<1>2. UNCHANGED grants
  BY ChallengeBasics
<1>3. PICK h : h = [manifest |-> Memory(p).declaration.manifest, strict |-> procs[p].flag]
  OBVIOUS
<1>4. PICK C : C = drawn.challenges
  OBVIOUS
<1>5. /\ drawn'.challenges = C \cup {[nonce |-> n, policy |-> h]}
      /\ [nonce |-> n, policy |-> h] \in Entries
  BY <1>1, <1>3, <1>4 DEF Challenges
<1>6. h \in Policies
  BY <1>5 DEF Entries
<1>7. /\ \A w \in {TheService} : TermsOf(C)[w][n] = Missing
      /\ TermsOf(C \cup {[nonce |-> n, policy |-> h]}) =
            [TermsOf(C) EXCEPT ![TheService][n] = [policyHash |-> h, expires |-> 0 + 0]]
  <2>1. \A ch \in C : ch.nonce # n
    BY <1>1, <1>4
  <2>2. FreshTerms(C, n, h)
    BY <2>1, TermsAfterIssue
  <2> QED BY <2>2 DEF FreshTerms
<1>8. Abstract!Issue(TheService, n, h)
  BY <1>2, <1>4, <1>5, <1>7 DEF Abstract!Issue, TermsOf
<1>9. TheService \in {TheService}
  OBVIOUS
<1> QED BY <1>6, <1>8, <1>9 DEF Abstract!Next

LEMMA GrantStep ==
    ASSUME Core, NEW p \in Procs, Exit(p), procs[p].authorized, overlaps = 0
    PROVE  Abstract!Next
<1>0. PICK proof : proof = Memory(p).proof
  OBVIOUS
<1> DEFINE n == proof.nonce
           T == TermsOf(drawn.challenges)
           S == SpentBy(grants)
<1>1. /\ Running(p) /\ UNCHANGED drawn
      /\ proof \in Proof /\ Entry(proof) \in drawn.challenges
      /\ grants' = Append(grants, proof)
      /\ Range(grants') = Range(grants) \cup {proof}
  BY <1>0, ExitBasics DEF Core
<1>2. proof.nonce \notin Spent
  BY <1>0, <1>1 DEF Core, WhileAlone, Once
<1>3. n \in Nonces /\ proof.policy \in Policies
  BY <1>1 DEF Proof
<1>4. T[TheService][n] = [policyHash |-> proof.policy, expires |-> 0]
  <2>1. \A c, d \in drawn.challenges : c.nonce = d.nonce => c = d
    BY DEF Core, Basics, NoncesAreFresh
  <2>2. Entry(proof).nonce = n /\ Entry(proof).policy = proof.policy
    BY DEF Entry
  <2> QED BY <1>1, <1>3, <2>1, <2>2, TermsOfDrawn
<1>5. /\ T[TheService][n] # Missing /\ T[TheService][n].expires = 0
      /\ T[TheService][n].policyHash = proof.policy
  <2>1. [policyHash |-> proof.policy, expires |-> 0] \in [policyHash : Policies, expires : Int]
    BY <1>3
  <2> QED BY <1>4, <2>1, ProcessesSentinels
<1>6. n \notin S[TheService]
  BY <1>2 DEF SpentBy, Spent
<1>7. SpentBy(grants') = [S EXCEPT ![TheService] = @ \cup {n}]
  BY <1>1 DEF SpentBy
<1>8. GrantedBy(grants') = Append(GrantedBy(grants),
            [verifier |-> TheService, nonce |-> n,
             policyHash |-> T[TheService][n].policyHash, at |-> 0])
  BY <1>1, <1>5, GrantedAfter DEF Core, Basics, Types
<1>9. 0 <= T[TheService][n].expires
  BY <1>5
<1>10. UNCHANGED TermsOf(drawn.challenges)
  BY <1>1
<1>11. Abstract!Grant(TheService, n)
  BY <1>5, <1>6, <1>7, <1>8, <1>9, <1>10 DEF Abstract!Grant, TermsOf, SpentBy, GrantedBy
<1>12. TheService \in {TheService}
  OBVIOUS
<1> QED BY <1>3, <1>11, <1>12 DEF Abstract!Next

LEMMA QuietStep ==
    ASSUME UNCHANGED <<drawn.challenges, grants>>
    PROVE  [Abstract!Next]_(Abstract!vars)
<1>1. UNCHANGED <<TermsOf(drawn.challenges), SpentBy(grants), GrantedBy(grants)>>
  OBVIOUS
<1> QED BY <1>1 DEF Abstract!vars, TermsOf, SpentBy, GrantedBy

LEMMA StepIsOneTime ==
    ASSUME Core, [Next]_vars, overlaps' = 0
    PROVE  [Abstract!Next]_(Abstract!vars)
<1>1. CASE UNCHANGED vars
  BY <1>1, QuietStep DEF vars
<1>2. CASE Next
  <2>1. PICK p \in Procs : Steps(p)
    BY <1>2, NextSteps
  <2>2. Basics /\ Types
    BY DEF Core, Basics
  <2>3. CASE Fail(p) \/ Kill(p)
    BY <2>2, <2>3, QuitBasics, QuietStep DEF Fail, Kill
  <2>4. CASE LoadFile(p)
    <3>1. At(p, "load") /\ procs[p].todo # <<>>
      BY <2>2, <2>4 DEF LoadFile, Basics, At, OnTrack, Loading
    <3> QED BY <2>2, <2>3, <2>4, <3>1, LoadFileReads, QuietStep
  <2>5. CASE \E cmd \in Commands, env \in Environments, flag \in BOOLEAN :
                Start(p, cmd, env, flag)
    BY <2>5, QuietStep DEF Start
  <2>6. CASE InitPassport(p)
    BY <2>2, <2>3, <2>6, InitBasics, QuietStep
  <2>7. CASE Enroll(p)
    BY <2>2, <2>7, EnrollBasics, QuietStep
  <2>8. CASE \/ \E m \in Manifests : UpdateManifest(p, m)
             \/ Prove(p) /\ ~Fail(p)
    BY <2>2, <2>8, UpdateBasics, ProveBasics, QuietStep
  <2>9. CASE VerifyAccess(p) \/ TruncateFile(p) \/ WriteFile(p)
    BY <2>2, <2>9, VerifyBasics, TruncateBasics, WriteBasics, QuietStep
  <2>10. CASE IssueChallenge(p)
    BY <2>2, <2>10, IssueStep
  <2>11. CASE Exit(p)
    <3>1. UNCHANGED overlaps /\ UNCHANGED drawn
      BY <2>11 DEF Exit
    <3>2. CASE procs[p].authorized
      BY <2>11, <3>1, <3>2, GrantStep
    <3>3. CASE ~procs[p].authorized
      BY <2>11, <3>1, <3>3, QuietStep DEF Exit
    <3> QED BY <3>2, <3>3
  <2> QED BY <2>1, <2>3, <2>4, <2>5, <2>6, <2>7, <2>8, <2>9, <2>10, <2>11 DEF Steps
<1> QED BY <1>1, <1>2

LEMMA InitIsOneTime == Init => Abstract!Init
<1> SUFFICES ASSUME Init PROVE Abstract!Init
  OBVIOUS
<1>1. drawn.challenges = {} /\ grants = <<>> /\ Range(grants) = {} /\ DOMAIN grants = {}
  BY NoNames, EmptyMemory DEF Init
<1>2. TermsOf(drawn.challenges) = [v \in {TheService} |-> [n \in Nonces |-> Missing]]
  BY <1>1 DEF TermsOf
<1>3. SpentBy(grants) = [v \in {TheService} |-> {}]
  BY <1>1 DEF SpentBy
<1>4. GrantedBy(grants) = <<>>
  BY <1>1 DEF GrantedBy
<1>5. 0 \in Nat
  OBVIOUS
<1> QED BY <1>2, <1>3, <1>4, <1>5 DEF Abstract!Init, TermsOf, SpentBy, GrantedBy

(* As long as no two commands overlapped, the commands are the service of  *)
(* OneTimeAccess: whatever was killed at whatever step, each challenge is  *)
(* handed out once, and granted at most once, for its policy.              *)
THEOREM OneTimeWhileAlone == Spec => OneTimeAccessWhileAlone
<1>1. Core /\ [Next]_vars =>
        [overlaps' = 0 =>
            UNCHANGED <<drawn, grants>> \/ [Abstract!Next]_(Abstract!vars)]_vars
  BY StepIsOneTime
<1>2. Init => Abstract!Init
  BY InitIsOneTime
<1> QED BY <1>1, <1>2, CoreAlways, PTL DEF Spec, OneTimeAccessWhileAlone

-----------------------------------------------------------------------------
(* The honest sequence.  What the steps of a command depend on.            *)
Fits ==
    \A p \in Procs :
        /\ InSequence(p) =>
            /\ procs[p].alone
            /\ \/ /\ Cmd(p) = "update" /\ progress.steps \in 1..3
                  /\ procs[p].env = progress.env
               \/ Cmd(p) = "challenge" /\ progress.steps \in 1..3
               \/ /\ Cmd(p) = "prove" /\ progress.steps = 2
                  /\ procs[p].env = progress.env
               \/ Cmd(p) = "verify" /\ progress.steps = 3
        /\ StepsAfter(p) # 0 =>
            /\ procs[p].alone
            /\ \/ /\ Cmd(p) = "enroll" /\ StepsAfter(p) = 1 /\ Readable("declaration")
                  /\ files["declaration"].manifest = Memory(p).certificate.manifest
               \/ Cmd(p) \in {"update", "verify"} /\ StepsAfter(p) = 1 /\ InSequence(p)
               \/ /\ Cmd(p) = "challenge" /\ StepsAfter(p) = 2 /\ InSequence(p)
                  /\ Allows(Memory(p).challenge.policy, files["certificate"].manifest,
                            Memory(p).challenge.policy.manifest)
               \/ Cmd(p) = "prove" /\ StepsAfter(p) = 3 /\ InSequence(p)

LEMMA StepsFit == Fits
<1> SUFFICES ASSUME NEW p \in Procs
    PROVE
        /\ InSequence(p) =>
            /\ procs[p].alone
            /\ \/ /\ Cmd(p) = "update" /\ progress.steps \in 1..3
                  /\ procs[p].env = progress.env
               \/ Cmd(p) = "challenge" /\ progress.steps \in 1..3
               \/ /\ Cmd(p) = "prove" /\ progress.steps = 2
                  /\ procs[p].env = progress.env
               \/ Cmd(p) = "verify" /\ progress.steps = 3
        /\ StepsAfter(p) # 0 =>
            /\ procs[p].alone
            /\ \/ /\ Cmd(p) = "enroll" /\ StepsAfter(p) = 1 /\ Readable("declaration")
                  /\ files["declaration"].manifest = Memory(p).certificate.manifest
               \/ Cmd(p) \in {"update", "verify"} /\ StepsAfter(p) = 1 /\ InSequence(p)
               \/ /\ Cmd(p) = "challenge" /\ StepsAfter(p) = 2 /\ InSequence(p)
                  /\ Allows(Memory(p).challenge.policy, files["certificate"].manifest,
                            Memory(p).challenge.policy.manifest)
               \/ Cmd(p) = "prove" /\ StepsAfter(p) = 3 /\ InSequence(p)
  BY DEF Fits
<1>1. InSequence(p) =>
            /\ procs[p].alone
            /\ \/ /\ Cmd(p) = "update" /\ progress.steps \in 1..3
                  /\ procs[p].env = progress.env
               \/ Cmd(p) = "challenge" /\ progress.steps \in 1..3
               \/ /\ Cmd(p) = "prove" /\ progress.steps = 2
                  /\ procs[p].env = progress.env
               \/ Cmd(p) = "verify" /\ progress.steps = 3
  BY Zenon DEF InSequence
<1>2. StepsAfter(p) # 0 =>
            \/ /\ Cmd(p) = "enroll" /\ StepsAfter(p) = 1 /\ Readable("declaration")
               /\ files["declaration"].manifest = Memory(p).certificate.manifest
               /\ procs[p].alone
            \/ Cmd(p) \in {"update", "verify"} /\ StepsAfter(p) = 1 /\ InSequence(p)
            \/ /\ Cmd(p) = "challenge" /\ StepsAfter(p) = 2 /\ InSequence(p)
               /\ Allows(Memory(p).challenge.policy, files["certificate"].manifest,
                         Memory(p).challenge.policy.manifest)
            \/ Cmd(p) = "prove" /\ StepsAfter(p) = 3 /\ InSequence(p)
  BY DEF StepsAfter
<1> QED BY <1>1, <1>2

LEMMA FitsNext == Fits /\ Fits'
<1>1. Fits'
  BY StepsFit, PTL
<1> QED BY <1>1, StepsFit

LEMMA SameSequence ==
    ASSUME NEW p \in Procs, SameCommand(p), UNCHANGED progress
    PROVE  InSequence(p)' <=> InSequence(p)
BY DEF SameCommand, InSequence, Cmd

(* Who runs together with another command ends every sequence.             *)
LEMMA DisturbedSequence ==
    ASSUME Alone, Sequence, NEW p \in Procs, Running(p), OthersWait(p), ~procs[p].alone,
           Running(p)' => ~procs'[p].alone,
           progress' \in {progress, NoProgress}, ~denied'
    PROVE  Sequence'
<1>1. progress.steps = 0
  BY DEF Sequence, Settled
<1>2. progress'.steps = 0
  BY <1>1 DEF NoProgress
<1>3. \A q \in Procs : Running(q)' => ~procs'[q].alone
  BY OthersOverlap
<1> QED BY <1>2, <1>3 DEF Sequence, Settled

LEMMA UndisturbedSequence ==
    ASSUME NEW p \in Procs, \A q \in Procs : q # p => ~Running(q)', ~denied',
           progress'.steps # 0 =>
                /\ Running(p)' => procs'[p].alone
                /\ (Running(p)' => procs'[p].phase \in Loading) =>
                    Ready(files', progress'.steps, progress'.env),
           Running(p)' /\ procs'[p].alone /\ procs'[p].phase \in Saving => Foreseen(p)'
    PROVE  Sequence'
<1>1. Settled'
  BY DEF Settled
<1> QED BY <1>1 DEF Sequence

LEMMA ReadyNow ==
    ASSUME Alone, Sequence, NEW p \in Procs, Running(p), procs[p].alone,
           procs[p].phase \in Loading, progress.steps # 0
    PROVE  Ready(files, progress.steps, progress.env)
BY DEF Alone, Undisturbed, Sequence, Settled

LEMMA QuitSequence ==
    ASSUME Basics, Alone, Sequence, NEW p \in Procs, Running(p), Quit(p), ~denied'
    PROVE  Sequence'
<1>1. /\ OthersWait(p) /\ ~Running(p)' /\ progress' = NoProgress /\ progress'.steps = 0
  BY QuitBasics DEF Stops, NoProgress
<1>2. CASE ~procs[p].alone
  BY <1>1, <1>2, DisturbedSequence
<1>3. CASE procs[p].alone
  BY <1>1, <1>3, NobodyElse, UndisturbedSequence
<1> QED BY <1>2, <1>3

LEMMA StartSequence ==
    ASSUME Basics, Sequence, NEW p \in Procs, NEW cmd \in Commands,
           NEW env \in Environments, NEW flag \in BOOLEAN, Start(p, cmd, env, flag)
    PROVE  Sequence'
<1>1. Starts(p, cmd, env, flag) /\ Types /\ procs'[p].phase \in Loading
      /\ procs'[p].phase \notin Saving
  BY StartBasics DEF Basics, Starts, Loading, Saving
<1>2. ~denied' /\ UNCHANGED files
  BY <1>1 DEF Starts, Sequence
<1>3. CASE procs'[p].alone
  <2>1. /\ \A q \in Procs : ~Running(q)
        /\ \A q \in Procs : q # p => ~Running(q)'
        /\ progress' = progress
    BY <1>1, <1>3 DEF Starts
  <2>2. progress.steps # 0 => Ready(files, progress.steps, progress.env)
    BY <2>1 DEF Sequence, Settled
  <2> QED BY <1>1, <1>2, <1>3, <2>1, <2>2, UndisturbedSequence
<1>4. CASE ~procs'[p].alone
  <2>1. progress'.steps = 0
    BY <1>1, <1>4 DEF Starts, NoProgress
  <2>2. ASSUME NEW q \in Procs, q # p, Running(q)' PROVE ~procs'[q].alone
    <3>1. procs'[q] = [procs[q] EXCEPT !.alone = FALSE] /\ procs[q] \in Process
      BY <1>1, <2>2, ProcessOf DEF Starts
    <3> QED BY <3>1 DEF Process
  <2> QED BY <1>2, <1>4, <2>1, <2>2 DEF Sequence, Settled
<1> QED BY <1>3, <1>4

(* A command of the sequence finds its files.                              *)
LEMMA NotDenied ==
    ASSUME Basics, Alone, Sequence, NEW p \in Procs, At(p, "load"),
           ~Readable(NextFile(p)), NextFile(p) = "passport" => procs[p].env = NoAgent
    PROVE  ~InSequence(p)
<1> SUFFICES ASSUME InSequence(p) PROVE FALSE
  OBVIOUS
<1>1. Running(p) /\ procs[p].phase \in Loading /\ procs[p].alone /\ OnTrack(p)
      /\ procs[p].phase = "load"
  BY StepsFit DEF At, Loading, Fits, Basics
<1>2. NextFile(p) \in Range(Loads[Cmd(p)])
  <2>1. procs[p].todo # <<>> /\ Range(procs[p].todo) \subseteq Range(Loads[Cmd(p)])
    BY <1>1 DEF OnTrack
  <2>2. procs[p].todo \in Seq(Names)
    BY <1>1, ProcessOf DEF Basics
  <2> QED BY <2>1, <2>2, HeadAndTail DEF NextFile
<1>3. \/ /\ Cmd(p) = "update" /\ progress.steps \in 1..3
         /\ procs[p].env = progress.env
      \/ Cmd(p) = "challenge" /\ progress.steps \in 1..3
      \/ Cmd(p) = "prove" /\ progress.steps = 2 /\ procs[p].env = progress.env
      \/ Cmd(p) = "verify" /\ progress.steps = 3
  BY StepsFit DEF Fits
<1>4. /\ progress.steps # 0 /\ progress.steps >= 1
      /\ Cmd(p) = "prove" => progress.steps >= 2
      /\ Cmd(p) = "verify" => progress.steps >= 2 /\ progress.steps >= 3
  BY <1>3
<1>5. Ready(files, progress.steps, progress.env)
  BY <1>1, <1>4, ReadyNow
<1>6. /\ Readable("declaration") /\ Readable("certificate") /\ Readable("service")
      /\ progress.env = NoAgent => Readable("passport")
      /\ Cmd(p) \in {"prove", "verify"} => Readable("challenge")
      /\ Cmd(p) = "verify" => Readable("proof")
  BY <1>4, <1>5 DEF Ready, Enrolled, Challenged, Proved, Holds, Readable
<1> QED BY <1>2, <1>3, <1>6, LoadsAre

LEMMA LoadFileSequence ==
    ASSUME Basics, Alone, Sequence, NEW p \in Procs, LoadFile(p)
    PROVE  Sequence'
<1>1. /\ Types /\ At(p, "load") /\ procs[p].todo # <<>> /\ Running(p)
      /\ procs[p].phase \in Loading
  BY DEF LoadFile, Basics, At, OnTrack, Loading
<1>2. CASE Fail(p) /\ ~Readable(NextFile(p))
           /\ (NextFile(p) = "passport" => procs[p].env = NoAgent)
  <2>1. ~InSequence(p)
    BY <1>1, <1>2, NotDenied
  <2>2. Quit(p) /\ ~denied'
    BY <1>2, <2>1 DEF Fail, Sequence
  <2> QED BY <1>1, <2>2, QuitSequence
<1>3. CASE /\ Reads(p, NextFile(p))
           /\ UNCHANGED <<files, drawn, certified, grants, started, overlaps,
                         progress, denied>>
  <2>1. /\ OthersWait(p) /\ SameCommand(p) /\ procs'[p].alone = procs[p].alone
        /\ procs'[p].phase \notin Saving /\ ~denied'
    BY <1>3 DEF Reads, SameCommand, Saving, Sequence
  <2>2. CASE ~procs[p].alone
    BY <1>1, <1>3, <2>1, <2>2, DisturbedSequence
  <2>3. CASE procs[p].alone
    <3>1. progress.steps # 0 => Ready(files, progress.steps, progress.env)
      BY <1>1, <2>3, ReadyNow
    <3>2. \A q \in Procs : q # p => ~Running(q)'
      BY <1>1, <2>1, <2>3, NobodyElse
    <3> QED BY <1>3, <2>1, <2>3, <3>1, <3>2, UndisturbedSequence
  <2> QED BY <2>2, <2>3
<1> QED BY <1>1, <1>2, <1>3, LoadFileReads

-----------------------------------------------------------------------------
(* A command of the sequence decides.                                      *)
LEMMA AgentInFiles ==
    ASSUME Basics, Alone, NEW p \in Procs, Running(p), procs[p].alone,
           procs[p].phase = "decide", "passport" \in DOMAIN Memory(p)
    PROVE  /\ LoadAgent(p).manifest = OwnManifest(files)
           /\ procs[p].env = NoAgent =>
                Holds(files, "passport") /\ LoadAgent(p).agent = files["passport"].agent
           /\ procs[p].env # NoAgent => LoadAgent(p).agent = procs[p].env
<1>1. Memory(p).passport = files["passport"]
  BY DEF Alone, Undisturbed, Loading
<1>2. procs[p].env = NoAgent => Holds(files, "passport")
  <2>1. procs[p].env = NoAgent => Memory(p)["passport"] \in Contents["passport"]
    BY DEF Basics, MemoryIsGood, Good
  <2> QED BY <1>1, <2>1, TheNames, ProcessesSentinels DEF Holds
<1> QED BY <1>1, <1>2 DEF LoadAgent, OwnManifest, Holds

(* The directory when p has saved outputs, and what an undisturbed command *)
(* must leave there.                                                       *)
After(p, outputs) ==
    [f \in Names |-> IF f \in Range(Saves[Cmd(p)]) THEN outputs[f] ELSE files[f]]

Leaves(p, outputs, authorized, G) ==
    /\ Cmd(p) = "enroll" =>
        (Holds(files, "declaration")
            /\ files["declaration"].manifest = outputs.certificate.manifest
         => Enrolled(G, procs[p].env))
    /\ InSequence(p) =>
        /\ Cmd(p) = "update" => Enrolled(G, progress.env)
        /\ Cmd(p) = "verify" =>
            Enrolled(G, progress.env) /\ (procs[p].flag \/ authorized)
        /\ Cmd(p) = "challenge" =>
            (Allows(outputs.challenge.policy, files["certificate"].manifest,
                    outputs.challenge.policy.manifest)
             => Enrolled(G, progress.env) /\ Challenged(G))
        /\ Cmd(p) = "prove" =>
            Enrolled(G, progress.env) /\ Challenged(G) /\ Proved(G)

LEMMA DecideForeseen ==
    ASSUME NEW p \in Procs, procs[p].alone, NEW outputs, NEW authorized,
           Decides(p, outputs, authorized), UNCHANGED <<files, progress>>,
           NEW G, G = After(p, outputs), Leaves(p, outputs, authorized, G)
    PROVE  Foreseen(p)'
<1>1. /\ SameCommand(p) /\ procs'[p].memory = outputs /\ procs'[p].authorized = authorized
      /\ InSequence(p)' <=> InSequence(p)
  BY SameSequence DEF Decides
<1>2. /\ Cmd(p)' = Cmd(p) /\ Memory(p)' = outputs
      /\ procs'[p].env = procs[p].env /\ procs'[p].flag = procs[p].flag
      /\ EnvAhead(p)' = IF Cmd(p) = "enroll" THEN procs[p].env ELSE progress.env
  BY <1>1 DEF SameCommand, Cmd, Memory, EnvAhead
<1>3. View(p)' = G
  BY <1>2 DEF View, After
<1>4. StepsAfter(p)' # 0 =>
        \/ /\ Cmd(p) = "enroll" /\ StepsAfter(p)' = 1 /\ Readable("declaration")'
           /\ files'["declaration"].manifest = Memory(p)'.certificate.manifest
        \/ Cmd(p) \in {"update", "verify"} /\ StepsAfter(p)' = 1 /\ InSequence(p)
        \/ /\ Cmd(p) = "challenge" /\ StepsAfter(p)' = 2 /\ InSequence(p)
           /\ Allows(Memory(p)'.challenge.policy, files'["certificate"].manifest,
                     Memory(p)'.challenge.policy.manifest)
        \/ Cmd(p) = "prove" /\ StepsAfter(p)' = 3 /\ InSequence(p)
  BY <1>1, <1>2, FitsNext DEF Fits
<1>5. Readable("declaration")' <=> Holds(files, "declaration")
  BY DEF Readable, Holds
<1>6. Ready(G, StepsAfter(p)', EnvAhead(p)')
  <2>1. CASE StepsAfter(p)' = 0
    BY <2>1 DEF Ready
  <2>2. CASE Cmd(p) = "enroll" /\ StepsAfter(p)' = 1 /\ Enrolled(G, procs[p].env)
    BY <1>2, <2>2 DEF Ready
  <2>3. CASE /\ Cmd(p) \in {"update", "verify"} /\ StepsAfter(p)' = 1
             /\ Enrolled(G, progress.env)
    BY <1>2, <2>3 DEF Ready
  <2>4. CASE /\ Cmd(p) = "challenge" /\ StepsAfter(p)' = 2
             /\ Enrolled(G, progress.env) /\ Challenged(G)
    BY <1>2, <2>4 DEF Ready
  <2>5. CASE /\ Cmd(p) = "prove" /\ StepsAfter(p)' = 3
             /\ Enrolled(G, progress.env) /\ Challenged(G) /\ Proved(G)
    BY <1>2, <2>5 DEF Ready
  <2> QED BY <1>2, <1>4, <1>5, <2>1, <2>2, <2>3, <2>4, <2>5 DEF Leaves
<1> QED BY <1>1, <1>2, <1>3, <1>6 DEF Foreseen, Leaves

LEMMA DecideSequence ==
    ASSUME Alone, Sequence, NEW p \in Procs, At(p, "decide"), NEW outputs, NEW authorized,
           Decides(p, outputs, authorized), UNCHANGED <<files, progress, denied>>,
           procs[p].alone /\ Running(p)' => Foreseen(p)'
    PROVE  Sequence'
<1>1. /\ Running(p) /\ procs[p].phase \in Loading /\ OthersWait(p) /\ ~denied'
      /\ procs'[p].alone = procs[p].alone
  BY DEF At, Loading, Decides, SameCommand, Sequence
<1>2. CASE ~procs[p].alone
  BY <1>1, <1>2, DisturbedSequence
<1>3. CASE procs[p].alone
  <2>1. progress.steps # 0 => Ready(files, progress.steps, progress.env)
    BY <1>1, <1>3, ReadyNow
  <2>2. \A q \in Procs : q # p => ~Running(q)'
    BY <1>1, <1>3, NobodyElse
  <2> QED BY <1>1, <1>3, <2>1, <2>2, UndisturbedSequence
<1> QED BY <1>2, <1>3

(* What is saved decodes.                                                  *)
LEMMA SavedHolds ==
    ASSUME Basics', NEW p \in Procs, Running(p)', NEW outputs, NEW authorized,
           Decides(p, outputs, authorized), NEW f \in Names, f \in DOMAIN outputs,
           f # "passport"
    PROVE  /\ outputs[f] \in Contents[f] /\ outputs[f] \notin {Missing, Unreadable}
           /\ Good(f, outputs[f], certified', drawn'.challenges)
<1>1. Memory(p)' = outputs /\ MemoryIsGood(p)'
  BY DEF Decides, Memory, Basics
<1>2. Good(f, outputs[f], certified', drawn'.challenges)
  BY <1>1 DEF MemoryIsGood
<1> QED BY <1>2, ProcessesSentinels DEF Good

LEMMA InitSequence ==
    ASSUME Basics, Alone, Sequence, NEW p \in Procs, InitPassport(p)
    PROVE  Sequence'
<1>1. At(p, "decide") /\ Running(p) /\ Cmd(p) = "init" /\ ~InSequence(p)
  <2>1. At(p, "decide") /\ Running(p) /\ Cmd(p) = "init"
    BY DEF InitPassport, At
  <2> QED BY <2>1, StepsFit DEF Fits
<1>2. CASE Fail(p)
  BY <1>1, <1>2, QuitSequence DEF Fail, Sequence
<1>3. CASE ~Fail(p)
  <2>1. PICK outputs : Decides(p, outputs, FALSE) /\ UNCHANGED <<files, progress, denied>>
    BY <1>3, InitBasics
  <2>2. procs[p].alone => Foreseen(p)'
    <3>1. PICK G : G = After(p, outputs)
      OBVIOUS
    <3>2. Leaves(p, outputs, FALSE, G)
      BY <1>1 DEF Leaves
    <3> QED BY <2>1, <3>1, <3>2, DecideForeseen
  <2> QED BY <1>1, <2>1, <2>2, DecideSequence
<1> QED BY <1>2, <1>3

LEMMA UpdateSequence ==
    ASSUME Basics, Alone, Sequence, NEW p \in Procs, NEW m \in Manifests,
           UpdateManifest(p, m)
    PROVE  Sequence'
<1> DEFINE agent == [LoadAgent(p) EXCEPT !.manifest = m]
           outputs == PassportAndDeclaration(agent)
<1>1. /\ At(p, "decide") /\ Running(p) /\ Cmd(p) = "update" /\ procs[p].phase = "decide"
      /\ procs[p].phase \in Loading
  BY DEF UpdateManifest, At, Loading
<1>2. /\ UNCHANGED <<files, progress, denied>> /\ Decides(p, outputs, FALSE)
      /\ agent \in Passport
  BY UpdateBasics
<1>3. "passport" \in DOMAIN Memory(p)
  BY <1>1, AllLoaded, LoadsAre
<1>4. agent.manifest = m /\ agent.agent = LoadAgent(p).agent
  <2>1. LoadAgent(p) \in Passport
    BY <1>1, <1>3, AllLoaded, AgentLoaded
  <2> QED BY <2>1 DEF Passport
<1>5. outputs.passport = agent /\ outputs.declaration = agent
  BY DEF PassportAndDeclaration
<1>6. agent \notin {Missing, Unreadable}
  BY <1>2, ContentsAre, TheNames, ProcessesSentinels
<1> HIDE DEF agent, outputs
<1>7. PICK G : G = After(p, outputs)
  OBVIOUS
<1>8. /\ G["passport"] = agent /\ G["declaration"] = agent
      /\ G["certificate"] = files["certificate"] /\ G["service"] = files["service"]
  BY <1>1, <1>5, <1>7, SavesAre, TheNames DEF After
<1>9. ASSUME procs[p].alone, InSequence(p) PROVE Enrolled(G, progress.env)
  <2>1. progress.steps # 0 /\ progress.steps >= 1 /\ procs[p].env = progress.env
    BY <1>1, <1>9, StepsFit DEF Fits
  <2>2. Enrolled(files, progress.env)
    BY <1>1, <1>9, <2>1, ReadyNow DEF Ready
  <2>3. /\ progress.env = NoAgent => agent.agent = files["passport"].agent
        /\ progress.env # NoAgent => agent.agent = progress.env
    BY <1>1, <1>3, <1>4, <1>9, <2>1, AgentInFiles
  <2> QED BY <1>6, <1>8, <2>2, <2>3 DEF Enrolled, Holds, OwnManifest
<1>10. ASSUME procs[p].alone PROVE Foreseen(p)'
  <2>1. Leaves(p, outputs, FALSE, G)
    BY <1>1, <1>9, <1>10 DEF Leaves
  <2> QED BY <1>2, <1>7, <1>10, <2>1, DecideForeseen
<1> QED BY <1>1, <1>2, <1>10, DecideSequence

LEMMA EnrollSequence ==
    ASSUME Basics, Alone, Sequence, NEW p \in Procs, Enroll(p)
    PROVE  Sequence'
<1>1. /\ At(p, "decide") /\ Running(p) /\ Cmd(p) = "enroll" /\ procs[p].phase = "decide"
  BY DEF Enroll, At
<1>2. Basics' /\ UNCHANGED <<files, progress, denied>>
  BY EnrollBasics
<1>3. PICK certificate \in Certificate :
        /\ certificate.agent = LoadAgent(p).agent
        /\ certificate.manifest = LoadAgent(p).manifest
        /\ certificate.keyset = drawn.keysets + 1
        /\ Decides(p, [certificate |-> certificate,
                       service |-> [keyset |-> drawn.keysets + 1,
                                    pending |-> {}, used |-> {}]], FALSE)
  BY EnrollBasics
<1> DEFINE service == [keyset |-> drawn.keysets + 1, pending |-> {}, used |-> {}]
           outputs == [certificate |-> certificate, service |-> service]
<1>4. service.keyset = drawn.keysets + 1
  OBVIOUS
<1>5. Decides(p, outputs, FALSE)
  BY <1>3
<1> HIDE DEF service
<1>6. /\ outputs.certificate = certificate /\ outputs.service = service
      /\ DOMAIN outputs = {"certificate", "service"}
  OBVIOUS
<1> HIDE DEF outputs
<1>7. "passport" \in DOMAIN Memory(p)
  BY <1>1, AllLoaded, LoadsAre
<1>8. PICK G : G = After(p, outputs)
  OBVIOUS
<1>9. /\ G["passport"] = files["passport"] /\ G["declaration"] = files["declaration"]
      /\ G["certificate"] = certificate /\ G["service"] = service
  BY <1>1, <1>6, <1>8, SavesAre, TheNames DEF After
<1>10. ASSUME procs[p].alone, Running(p)', Holds(files, "declaration"),
              files["declaration"].manifest = outputs.certificate.manifest
       PROVE  Enrolled(G, procs[p].env)
  <2>1. /\ certificate.manifest = OwnManifest(files)
        /\ procs[p].env = NoAgent =>
                Holds(files, "passport") /\ certificate.agent = files["passport"].agent
        /\ procs[p].env # NoAgent => certificate.agent = procs[p].env
    BY <1>1, <1>3, <1>7, <1>10, AgentInFiles
  <2>2. certificate \notin {Missing, Unreadable} /\ service \notin {Missing, Unreadable}
    BY <1>2, <1>5, <1>6, <1>10, SavedHolds, TheNames
  <2>3. OwnManifest(G) = OwnManifest(files)
    BY <1>9 DEF OwnManifest, Holds
  <2> QED BY <1>3, <1>4, <1>6, <1>9, <1>10, <2>1, <2>2, <2>3 DEF Enrolled, Holds
<1>11. ASSUME procs[p].alone, Running(p)' PROVE Foreseen(p)'
  <2>1. ~InSequence(p)
    BY <1>1, StepsFit DEF Fits
  <2>2. Leaves(p, outputs, FALSE, G)
    BY <1>10, <1>11, <2>1 DEF Leaves
  <2> QED BY <1>2, <1>5, <1>8, <1>11, <2>2, DecideForeseen
<1> QED BY <1>1, <1>2, <1>5, <1>11, DecideSequence

LEMMA ChallengeSequence ==
    ASSUME Basics, Alone, Sequence, NEW p \in Procs, IssueChallenge(p)
    PROVE  Sequence'
<1>1. /\ At(p, "decide") /\ Running(p) /\ Cmd(p) = "challenge" /\ procs[p].phase = "decide"
      /\ procs[p].phase \in Loading
  BY DEF IssueChallenge, At, Loading
<1>2. /\ Basics' /\ UNCHANGED <<files, progress, denied>>
      /\ "service" \in DOMAIN Memory(p) /\ "declaration" \in DOMAIN Memory(p)
  BY ChallengeBasics
<1>3. PICK n \in Nonces : (\A ch \in drawn.challenges : ch.nonce # n) /\ Challenges(p, n)
  BY ChallengeBasics
<1> DEFINE service == Memory(p).service
           policy == [manifest |-> Memory(p).declaration.manifest,
                      strict |-> procs[p].flag]
           entry == [nonce |-> n, policy |-> policy]
           updated == [service EXCEPT !.pending = @ \cup {entry}]
           challenge == [nonce |-> n, policy |-> policy, keyset |-> service.keyset]
           outputs == [service |-> updated, challenge |-> challenge]
<1>4. Decides(p, outputs, FALSE)
  BY <1>3 DEF Challenges
<1>5. /\ challenge.nonce = n /\ challenge.policy = policy /\ policy.manifest =
            Memory(p).declaration.manifest /\ challenge.keyset = service.keyset
      /\ Entry(challenge) = entry
  BY DEF Entry
<1> HIDE DEF policy
<1>6. ASSUME service \in Service
      PROVE  /\ updated.keyset = service.keyset /\ updated.used = service.used
             /\ entry \in updated.pending
  <2> HIDE DEF service, entry
  <2> QED BY <1>6 DEF Service
<1> HIDE DEF service, entry, updated, challenge
<1>7. /\ outputs.service = updated /\ outputs.challenge = challenge
      /\ DOMAIN outputs = {"service", "challenge"}
  OBVIOUS
<1> HIDE DEF outputs
<1>8. PICK G : G = After(p, outputs)
  OBVIOUS
<1>9. /\ G["passport"] = files["passport"] /\ G["declaration"] = files["declaration"]
      /\ G["certificate"] = files["certificate"] /\ G["service"] = updated
      /\ G["challenge"] = challenge
  BY <1>1, <1>7, <1>8, SavesAre, TheNames DEF After
<1>10. ASSUME procs[p].alone, Running(p)', InSequence(p)
       PROVE  /\ Enrolled(G, progress.env)
              /\ Allows(outputs.challenge.policy, files["certificate"].manifest,
                        outputs.challenge.policy.manifest)
                 => Challenged(G)
  <2>1. progress.steps # 0 /\ progress.steps >= 1
    BY <1>1, <1>10, StepsFit DEF Fits
  <2>2. Enrolled(files, progress.env)
    BY <1>1, <1>10, <2>1, ReadyNow DEF Ready
  <2>3. /\ service = files["service"] /\ Memory(p).declaration = files["declaration"]
        /\ Good("service", service, certified, drawn.challenges)
    BY <1>1, <1>2, <1>10, LoadedIsStored DEF service
  <2>4. service \in Service /\ service.used \subseteq {ch.nonce : ch \in drawn.challenges}
    BY <2>3, ContentsAre DEF Good
  <2>5. n \notin service.used
    BY <1>3, <2>4
  <2>6. challenge \notin {Missing, Unreadable} /\ updated \notin {Missing, Unreadable}
    BY <1>2, <1>4, <1>7, <1>10, SavedHolds, TheNames
  <2>7. OwnManifest(G) = OwnManifest(files)
    BY <1>9 DEF OwnManifest, Holds
  <2>8. Enrolled(G, progress.env)
    BY <1>6, <1>9, <2>2, <2>3, <2>4, <2>6, <2>7 DEF Enrolled, Holds
  <2>9. ASSUME Allows(challenge.policy, files["certificate"].manifest,
                      challenge.policy.manifest)
        PROVE  Challenged(G)
    <3>1. challenge.policy.manifest = files["declaration"].manifest
      BY <1>5, <2>3
    <3>2. Entry(challenge) \in updated.pending /\ challenge.nonce \notin updated.used
      BY <1>5, <1>6, <2>4, <2>5
    <3> QED BY <1>5, <1>6, <1>9, <2>4, <2>6, <2>9, <3>1, <3>2 DEF Challenged, Holds
  <2> QED BY <1>7, <2>8, <2>9
<1>11. ASSUME procs[p].alone, Running(p)' PROVE Foreseen(p)'
  <2>1. Leaves(p, outputs, FALSE, G)
    BY <1>1, <1>10, <1>11 DEF Leaves
  <2> QED BY <1>2, <1>4, <1>8, <1>11, <2>1, DecideForeseen
<1> QED BY <1>1, <1>2, <1>4, <1>11, DecideSequence

LEMMA ProveSequence ==
    ASSUME Basics, Alone, Sequence, NEW p \in Procs, Prove(p)
    PROVE  Sequence'
<1>1. /\ At(p, "decide") /\ Running(p) /\ Cmd(p) = "prove" /\ procs[p].phase = "decide"
      /\ procs[p].phase \in Loading
  BY DEF Prove, At, Loading
<1> DEFINE me == LoadAgent(p)
           ch == Memory(p).challenge
           cert == Memory(p).certificate
           proof == [agent |-> me.agent, nonce |-> ch.nonce, policy |-> ch.policy,
                     keyset |-> ch.keyset]
           outputs == [proof |-> proof]
<1>2. /\ proof.nonce = ch.nonce /\ proof.policy = ch.policy /\ proof.keyset = ch.keyset
  OBVIOUS
<1>3. outputs.proof = proof /\ DOMAIN outputs = {"proof"}
  OBVIOUS
<1>4. ~Fail(p) => /\ Basics' /\ Decides(p, outputs, FALSE)
                  /\ UNCHANGED <<files, progress, denied>>
  BY ProveBasics
<1>5. Convinces(me, cert, ch) => UNCHANGED denied
  BY DEF Prove, Decided
<1> HIDE DEF proof, outputs, me, ch, cert
<1>6. ASSUME InSequence(p)
      PROVE  /\ procs[p].alone /\ files["challenge"] = ch
             /\ Enrolled(files, progress.env) /\ Challenged(files)
             /\ Convinces(me, cert, ch)
  <2>1. /\ procs[p].alone /\ progress.steps = 2 /\ procs[p].env = progress.env
        /\ progress.steps # 0 /\ progress.steps >= 1 /\ progress.steps >= 2
    BY <1>1, <1>6, StepsFit DEF Fits
  <2>2. Enrolled(files, progress.env) /\ Challenged(files)
    BY <1>1, <2>1, ReadyNow DEF Ready
  <2>3. /\ "passport" \in DOMAIN Memory(p) /\ "certificate" \in DOMAIN Memory(p)
        /\ "challenge" \in DOMAIN Memory(p)
    BY <1>1, AllLoaded, LoadsAre
  <2>4. files["challenge"] = ch /\ files["certificate"] = cert
    BY <1>1, <2>1, <2>3, LoadedIsStored DEF ch, cert
  <2>5. /\ me.manifest = OwnManifest(files)
        /\ progress.env = NoAgent => me.agent = files["passport"].agent
        /\ progress.env # NoAgent => me.agent = progress.env
    BY <1>1, <2>1, <2>3, AgentInFiles DEF me
  <2>6. cert.agent = me.agent
    BY <2>2, <2>4, <2>5 DEF Enrolled
  <2>7. ch.policy.manifest = me.manifest
    BY <2>2, <2>4, <2>5 DEF Enrolled, Challenged
  <2>8. cert.keyset = ch.keyset
    BY <2>2, <2>4 DEF Enrolled, Challenged
  <2>9. Allows(ch.policy, cert.manifest, me.manifest)
    BY <2>2, <2>4, <2>7 DEF Challenged
  <2> QED BY <2>1, <2>2, <2>4, <2>6, <2>7, <2>8, <2>9 DEF Convinces
<1>7. CASE Fail(p)
  <2>1. Quit(p) /\ ~denied'
    BY <1>5, <1>6, <1>7 DEF Fail, Sequence
  <2> QED BY <1>1, <2>1, QuitSequence
<1>8. CASE ~Fail(p)
  <2>1. PICK G : G = After(p, outputs)
    OBVIOUS
  <2>2. /\ \A f \in Names : f # "proof" => G[f] = files[f]
        /\ G["proof"] = proof
    BY <1>1, <1>3, <2>1, SavesAre, TheNames DEF After
  <2>3. /\ G["passport"] = files["passport"] /\ G["declaration"] = files["declaration"]
        /\ G["certificate"] = files["certificate"] /\ G["service"] = files["service"]
        /\ G["challenge"] = files["challenge"] /\ G["proof"] = proof
    BY <2>2, TheNames
  <2>4. ASSUME Running(p)', InSequence(p)
        PROVE  Enrolled(G, progress.env) /\ Challenged(G) /\ Proved(G)
    <3>1. proof \notin {Missing, Unreadable}
      BY <1>3, <1>4, <1>8, <2>4, SavedHolds, TheNames
    <3>2. Enrolled(G, progress.env)
      BY <1>6, <2>3, <2>4 DEF Enrolled, Holds, OwnManifest
    <3>3. Challenged(G)
      BY <1>6, <2>3, <2>4 DEF Challenged, Holds
    <3>4. Proved(G)
      BY <1>2, <1>6, <2>3, <2>4, <3>1 DEF Proved, Challenged, Holds
    <3> QED BY <3>2, <3>3, <3>4
  <2>5. ASSUME procs[p].alone, Running(p)' PROVE Foreseen(p)'
    <3>1. Leaves(p, outputs, FALSE, G)
      BY <1>1, <2>4, <2>5 DEF Leaves
    <3> QED BY <1>4, <1>8, <2>1, <2>5, <3>1, DecideForeseen
  <2> QED BY <1>1, <1>4, <1>8, <2>5, DecideSequence
<1> QED BY <1>7, <1>8

LEMMA VerifySequence ==
    ASSUME Basics, Alone, Sequence, NEW p \in Procs, VerifyAccess(p)
    PROVE  Sequence'
<1>1. /\ At(p, "decide") /\ Running(p) /\ Cmd(p) = "verify" /\ procs[p].phase = "decide"
      /\ procs[p].phase \in Loading
  BY DEF VerifyAccess, At, Loading
<1>2. /\ Basics' /\ UNCHANGED <<files, progress, denied>>
      /\ "service" \in DOMAIN Memory(p) /\ "challenge" \in DOMAIN Memory(p)
      /\ "proof" \in DOMAIN Memory(p) /\ (Authorizes(p) \/ Rejects(p))
  BY VerifyBasics
<1> DEFINE service == Memory(p).service
           ch == Memory(p).challenge
           proof == Memory(p).proof
<1>3. PICK outputs, authorized :
        /\ Decides(p, outputs, authorized)
        /\ "service" \in DOMAIN outputs /\ outputs.service.keyset = service.keyset
        /\ procs[p].flag \/ authorized \/ ~Accepts(service, ch, proof)
  <2>1. CASE Rejects(p)
    <3>1. Decides(p, [service |-> service], FALSE)
      BY <2>1 DEF Rejects
    <3>2. /\ [service |-> service].service.keyset = service.keyset
          /\ "service" \in DOMAIN [service |-> service]
      OBVIOUS
    <3>3. procs[p].flag \/ FALSE \/ ~Accepts(service, ch, proof)
      BY <2>1 DEF Rejects
    <3> QED BY <3>1, <3>2, <3>3
  <2>2. CASE Authorizes(p)
    <3> DEFINE updated == ConsumeNonce(service, ch)
               out == [service |-> updated, challenge |-> ch, proof |-> proof]
    <3>1. Decides(p, out, TRUE)
      BY <2>2 DEF Authorizes
    <3>2. service \in Service
      BY <1>1, <1>2, Remembered, ContentsAre DEF Basics, Good
    <3>3. updated.keyset = service.keyset
      <4> HIDE DEF service, ch
      <4> QED BY <3>2 DEF ConsumeNonce, Service
    <3> HIDE DEF updated
    <3>4. out.service = updated /\ "service" \in DOMAIN out
      OBVIOUS
    <3> HIDE DEF out
    <3>5. procs[p].flag \/ TRUE \/ ~Accepts(service, ch, proof)
      OBVIOUS
    <3> QED BY <3>1, <3>3, <3>4, <3>5
  <2> QED BY <1>2, <2>1, <2>2
<1>4. PICK G : G = After(p, outputs)
  OBVIOUS
<1>5. /\ G["passport"] = files["passport"] /\ G["declaration"] = files["declaration"]
      /\ G["certificate"] = files["certificate"] /\ G["service"] = outputs.service
  BY <1>1, <1>4, SavesAre, TheNames DEF After
<1>6. ASSUME Running(p)', InSequence(p)
      PROVE  Enrolled(G, progress.env) /\ (procs[p].flag \/ authorized)
  <2>1. /\ procs[p].alone
        /\ progress.steps # 0 /\ progress.steps >= 1 /\ progress.steps >= 2
        /\ progress.steps >= 3
    BY <1>1, <1>6, StepsFit DEF Fits
  <2>2. Enrolled(files, progress.env) /\ Challenged(files) /\ Proved(files)
    BY <1>1, <2>1, ReadyNow DEF Ready
  <2>3. files["service"] = service /\ files["challenge"] = ch /\ files["proof"] = proof
    BY <1>1, <1>2, <2>1, LoadedIsStored
  <2> HIDE DEF service, ch, proof
  <2>4. Accepts(service, ch, proof)
    BY <2>2, <2>3 DEF Challenged, Proved, Accepts, Entry
  <2>5. outputs.service \notin {Missing, Unreadable}
    BY <1>2, <1>3, <1>6, SavedHolds, TheNames
  <2>6. OwnManifest(G) = OwnManifest(files)
    BY <1>5 DEF OwnManifest, Holds
  <2>7. Enrolled(G, progress.env)
    BY <1>3, <1>5, <2>2, <2>3, <2>5, <2>6 DEF Enrolled, Holds
  <2> QED BY <1>3, <2>4, <2>7
<1>7. ASSUME procs[p].alone, Running(p)' PROVE Foreseen(p)'
  <2>1. Leaves(p, outputs, authorized, G)
    BY <1>1, <1>6, <1>7 DEF Leaves
  <2> QED BY <1>2, <1>3, <1>4, <1>7, <2>1, DecideForeseen
<1> QED BY <1>1, <1>2, <1>3, <1>7, DecideSequence

(* While it saves, what it will leave stays the same.                      *)
LEMMA SaveSequence ==
    ASSUME Basics, Alone, Sequence, NEW p \in Procs, Running(p),
           procs[p].phase \in Saving, procs[p].todo # <<>>,
           NEW content, files' = [files EXCEPT ![NextFile(p)] = content],
           NEW phase \in Saving, NEW todo, GoesOn(p, phase, todo),
           UNCHANGED <<progress, denied>>
    PROVE  Sequence'
<1>1. /\ SameCommand(p) /\ OthersWait(p) /\ Running(p)' /\ ~denied'
      /\ procs'[p].alone = procs[p].alone /\ procs'[p].phase = phase
      /\ procs'[p].memory = Memory(p) /\ procs'[p].authorized = procs[p].authorized
      /\ phase \notin Loading
  BY DEF GoesOn, SameCommand, Sequence, Loading, Saving
<1>2. CASE ~procs[p].alone
  BY <1>1, <1>2, DisturbedSequence
<1>3. CASE procs[p].alone
  <2>1. /\ \A q \in Procs : q # p => ~Running(q)'
        /\ \A q \in Procs : q # p => ~Running(q)
    BY <1>1, <1>3, NobodyElse
  <2>2. Foreseen(p) /\ Cmd(p) \in Commands
    BY <1>3, ProcessOf DEF Sequence, Basics
  <2>3. /\ Cmd(p)' = Cmd(p) /\ Memory(p)' = Memory(p)
        /\ procs'[p].env = procs[p].env /\ procs'[p].flag = procs[p].flag
        /\ EnvAhead(p)' = EnvAhead(p)
        /\ InSequence(p)' <=> InSequence(p)
    BY <1>1, SameSequence DEF SameCommand, Cmd, Memory, EnvAhead
  <2>4. /\ NextFile(p) \in Range(Saves[Cmd(p)])
        /\ \A f \in Names : f \notin Range(Saves[Cmd(p)]) => files'[f] = files[f]
    BY SavesTodo
  <2>5. View(p)' = View(p)
    BY <2>3, <2>4 DEF View
  <2>6. Ready(View(p), StepsAfter(p)', EnvAhead(p))
    <3>1. /\ Cmd(p) = "enroll" => files'["declaration"] = files["declaration"]
          /\ Cmd(p) = "challenge" => files'["certificate"] = files["certificate"]
      BY <2>4, SavesAre, TheNames
    <3>2. CASE StepsAfter(p)' = 0
      BY <3>2 DEF Ready
    <3>3. CASE StepsAfter(p)' # 0
      <4>1. \/ /\ Cmd(p) = "enroll" /\ StepsAfter(p)' = 1 /\ Readable("declaration")
               /\ files["declaration"].manifest = Memory(p).certificate.manifest
            \/ Cmd(p) \in {"update", "verify"} /\ StepsAfter(p)' = 1 /\ InSequence(p)
            \/ /\ Cmd(p) = "challenge" /\ StepsAfter(p)' = 2 /\ InSequence(p)
               /\ Allows(Memory(p).challenge.policy, files["certificate"].manifest,
                         Memory(p).challenge.policy.manifest)
            \/ Cmd(p) = "prove" /\ StepsAfter(p)' = 3 /\ InSequence(p)
        <5>1. \/ /\ Cmd(p)' = "enroll" /\ StepsAfter(p)' = 1 /\ Readable("declaration")'
                 /\ files'["declaration"].manifest = Memory(p)'.certificate.manifest
              \/ Cmd(p)' \in {"update", "verify"} /\ StepsAfter(p)' = 1 /\ InSequence(p)'
              \/ /\ Cmd(p)' = "challenge" /\ StepsAfter(p)' = 2 /\ InSequence(p)'
                 /\ Allows(Memory(p)'.challenge.policy, files'["certificate"].manifest,
                           Memory(p)'.challenge.policy.manifest)
              \/ Cmd(p)' = "prove" /\ StepsAfter(p)' = 3 /\ InSequence(p)'
          BY <3>3, FitsNext DEF Fits
        <5>2. Cmd(p) = "enroll" => (Readable("declaration")' <=> Readable("declaration"))
          BY <3>1 DEF Readable
        <5> QED BY <2>3, <3>1, <5>1, <5>2
      <4>2. StepsAfter(p)' = StepsAfter(p)
        BY <1>3, <4>1, Zenon DEF StepsAfter
      <4> QED BY <2>2, <4>2 DEF Foreseen
    <3> QED BY <3>2, <3>3
  <2>7. Foreseen(p)'
    <3>1. Ready(View(p)', StepsAfter(p)', EnvAhead(p)')
      BY <2>3, <2>5, <2>6
    <3>2. Cmd(p)' = "verify" /\ InSequence(p)' => procs'[p].flag \/ procs'[p].authorized
      BY <1>1, <2>2, <2>3 DEF Foreseen
    <3> QED BY <3>1, <3>2 DEF Foreseen
  <2>8. progress'.steps # 0 => (Running(p)' => procs'[p].alone)
    BY <1>1, <1>3
  <2> QED BY <1>1, <2>1, <2>7, <2>8, UndisturbedSequence
<1> QED BY <1>2, <1>3

LEMMA TruncateSequence ==
    ASSUME Basics, Alone, Sequence, NEW p \in Procs, TruncateFile(p)
    PROVE  Sequence'
<1>1. /\ Running(p) /\ procs[p].phase \in Saving /\ procs[p].todo # <<>>
      /\ GoesOn(p, "write", procs[p].todo) /\ "write" \in Saving
      /\ files' = [files EXCEPT ![NextFile(p)] = Unreadable]
      /\ UNCHANGED <<progress, denied>>
  BY TruncateBasics DEF Saving
<1> QED BY <1>1, SaveSequence

LEMMA WriteSequence ==
    ASSUME Basics, Alone, Sequence, NEW p \in Procs, WriteFile(p)
    PROVE  Sequence'
<1>1. PICK phase \in Saving : GoesOn(p, phase, Tail(procs[p].todo))
  BY WriteBasics DEF Saving
<1>2. PICK content : files' = [files EXCEPT ![NextFile(p)] = content]
  BY WriteBasics
<1>3. /\ Running(p) /\ procs[p].phase \in Saving /\ procs[p].todo # <<>>
      /\ UNCHANGED <<progress, denied>>
  BY WriteBasics DEF Saving
<1> QED BY <1>1, <1>2, <1>3, SaveSequence

(* It leaves what was foreseen.                                            *)
LEMMA ExitSequence ==
    ASSUME Basics, Alone, Sequence, NEW p \in Procs, Exit(p)
    PROVE  Sequence'
<1>1. /\ Running(p) /\ procs[p].phase = "exit" /\ procs[p].phase \in Saving
      /\ OthersWait(p) /\ ~Running(p)' /\ UNCHANGED files
  BY ExitBasics DEF Saving, Stops
<1>2. /\ progress' = IF StepsAfter(p) = 0 THEN NoProgress
                     ELSE [steps |-> StepsAfter(p), env |-> EnvAhead(p)]
      /\ denied' = (denied \/ (/\ Cmd(p) = "verify" /\ InSequence(p)
                               /\ ~procs[p].flag /\ ~procs[p].authorized))
  BY DEF Exit, EnvAhead
<1>3. CASE ~procs[p].alone
  <2>1. StepsAfter(p) = 0 /\ ~InSequence(p)
    BY <1>3, StepsFit DEF Fits
  <2>2. progress' = NoProgress /\ ~denied'
    BY <1>2, <2>1 DEF Sequence
  <2> QED BY <1>1, <1>3, <2>2, DisturbedSequence
<1>4. CASE procs[p].alone
  <2>1. Foreseen(p) /\ Undisturbed(p) /\ OnTrack(p)
    BY <1>1, <1>4 DEF Sequence, Alone, Basics
  <2>2. procs[p].todo = <<>>
    BY <1>1, <2>1 DEF OnTrack
  <2>3. \A f \in Range(Saves[Cmd(p)]) : files[f] = Memory(p)[f]
    BY <1>1, <2>1, <2>2, NoNames DEF Undisturbed
  <2>4. View(p) = files
    BY <2>3 DEF View, Basics, Types
  <2>5. ~denied'
    BY <1>2, <2>1 DEF Foreseen, Sequence
  <2>6. progress'.steps # 0 => Ready(files', progress'.steps, progress'.env)
    <3>1. CASE StepsAfter(p) = 0
      BY <1>2, <3>1 DEF NoProgress
    <3>2. CASE StepsAfter(p) # 0
      <4>1. progress'.steps = StepsAfter(p) /\ progress'.env = EnvAhead(p)
        BY <1>2, <3>2
      <4> QED BY <1>1, <2>1, <2>4, <4>1 DEF Foreseen
    <3> QED BY <3>1, <3>2
  <2>7. \A q \in Procs : q # p => ~Running(q)'
    BY <1>1, <1>4, NobodyElse
  <2> QED BY <1>1, <2>5, <2>6, <2>7, UndisturbedSequence
<1> QED BY <1>3, <1>4

LEMMA KillSequence ==
    ASSUME Basics, Alone, Sequence, NEW p \in Procs, Kill(p)
    PROVE  Sequence'
<1>1. Running(p) /\ Quit(p) /\ ~denied'
  BY DEF Kill, Sequence
<1> QED BY <1>1, QuitSequence

LEMMA InitIsSequence == Init => Sequence
<1> SUFFICES ASSUME Init PROVE Sequence
  OBVIOUS
<1>1. /\ \A p \in Procs : ~Running(p)
      /\ progress.steps = 0 /\ ~denied
  BY DEF Init, Running, NoProgress
<1> QED BY <1>1 DEF Sequence, Settled

LEMMA NextIsSequence == Core /\ Sequence /\ [Next]_vars => Sequence'
<1> SUFFICES ASSUME Basics, Alone, Sequence, [Next]_vars PROVE Sequence'
  BY DEF Core
<1>1. CASE UNCHANGED vars
  <2>1. /\ UNCHANGED <<files, procs, progress, denied>>
        /\ \A p \in Procs : Running(p)' <=> Running(p)
    BY <1>1 DEF vars, Running
  <2>2. Settled'
    BY <2>1, SMTT(30) DEF Sequence, Settled
  <2>3. \A p \in Procs : Foreseen(p) => Foreseen(p)'
    BY <2>1 DEF Foreseen, View, StepsAfter, EnvAhead, InSequence, Cmd, Memory, Readable
  <2> QED BY <2>1, <2>2, <2>3 DEF Sequence
<1>2. CASE Next
  <2>1. PICK p \in Procs : Steps(p)
    BY <1>2, NextSteps
  <2> QED BY <2>1, StartSequence, LoadFileSequence, InitSequence, UpdateSequence,
             EnrollSequence, ChallengeSequence, ProveSequence, VerifySequence,
             TruncateSequence, WriteSequence, ExitSequence, KillSequence DEF Steps
<1> QED BY <1>1, <1>2

(* After an enroll that completed alone, update, challenge, prove and      *)
(* verify in a row, alone, are never turned down, whatever the directory   *)
(* went through before the enroll: torn files, killed commands, older      *)
(* committees, overlapping commands.                                       *)
THEOREM HonestSequence == Spec => []HonestSequenceIsGranted
<1>1. Sequence => HonestSequenceIsGranted
  BY DEF Sequence, HonestSequenceIsGranted
<1> QED BY <1>1, InitIsCore, NextIsCore, InitIsSequence, NextIsSequence, PTL DEF Spec
=============================================================================
