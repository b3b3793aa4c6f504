--------------------------- MODULE KeyCacheProofs ---------------------------
(***************************************************************************)
(* The cache's promises for any number of commands and setups.             *)
(***************************************************************************)
EXTENDS KeyCache, TLAPS

-----------------------------------------------------------------------------
(* The inductive invariant.                                                *)
Process == [phase : Phases, pk : {Absent} \cup Setups, vk : {Absent} \cup Setups,
            mixed : BOOLEAN]

TypeOK ==
    /\ files \in [Files -> {Absent, Torn} \cup Setups]
    /\ procs \in [Procs -> Process]
    /\ setups \in 0..MaxSetups
    /\ overlapped \in BOOLEAN

(* A command that makes keys is the only one that does, and nobody has     *)
(* read the first file and not yet the second.                             *)
SetupIsAlone ==
    \A p, q \in Procs : InSetup(p) /\ p # q => ~InSetup(q) /\ ~HalfLoaded(q)

(* It holds one pair, it is alone with the file it writes, and its proving *)
(* key is in its file when it turns to the verifying key.                  *)
SetupHoldsPair ==
    \A p \in Procs : procs[p].phase \in WritePhases =>
        /\ procs[p].pk = procs[p].vk
        /\ procs[p].pk \in Setups
        /\ ~procs[p].mixed
        /\ procs[p].phase \in {"create vk", "write vk"} => files["pk"] = procs[p].pk

(* The verifying key is the last thing a setup writes: it is in its file   *)
(* only if somebody got keys.  From then on both files hold the pair they  *)
(* got, nobody makes another, and who is half-way through has its half.    *)
PairIsInPlace ==
    IF obtained = {} THEN files["vk"] \notin Setups
    ELSE /\ files["pk"] \in Setups
         /\ files["vk"] = files["pk"]
         /\ obtained = {<<files["pk"], files["vk"]>>}
         /\ \A p \in Procs :
              ~InSetup(p) /\ (HalfLoaded(p) => procs[p].pk = files["pk"])

IInv ==
    /\ TypeOK
    /\ ~overlapped => SetupIsAlone /\ SetupHoldsPair /\ PairIsInPlace

(* The phases of a command, spelt out.                                     *)
LEMMA PhaseNames ==
    /\ \A f \in Files : f = "pk" \/ f = "vk"
    /\ "pk" \in Files /\ "vk" \in Files
    /\ Creating["pk"] = "create pk" /\ Creating["vk"] = "create vk"
    /\ Writing["pk"] = "write pk" /\ Writing["vk"] = "write vk"
    /\ WritePhases = {"create pk", "create vk", "write pk", "write vk"}
    /\ Phases = {"idle", "setup", "open", "read pk", "read vk",
                 "create pk", "create vk", "write pk", "write vk"}
<1>1. /\ Creating["pk"] = "create pk" /\ Creating["vk"] = "create vk"
      /\ Writing["pk"] = "write pk" /\ Writing["vk"] = "write vk"
  BY DEF Creating, Writing
<1>2. WritePhases = {"create pk", "create vk", "write pk", "write vk"}
  BY <1>1 DEF WritePhases, Files
<1> QED BY <1>1, <1>2 DEF Phases, LoadPhases, Files

LEMMA InitIInv == Init => IInv
<1> SUFFICES ASSUME Init PROVE IInv
  OBVIOUS
<1>1. Idle \in Process
  BY PhaseNames DEF Idle, Process
<1>2. TypeOK
  <2>1. files \in [Files -> {Absent, Torn} \cup Setups]
    BY DEF Init
  <2>2. procs \in [Procs -> Process]
    BY <1>1 DEF Init
  <2>3. setups \in 0..MaxSetups
    BY MaxSetupsAssumption DEF Init
  <2>4. overlapped \in BOOLEAN
    BY DEF Init
  <2> QED BY <2>1, <2>2, <2>3, <2>4 DEF TypeOK
<1>3. \A p \in Procs : procs[p].phase = "idle"
  BY DEF Init, Idle
<1>4. Absent \notin Setups
  BY DEF Absent, Setups
<1> QED BY <1>2, <1>3, <1>4, PhaseNames
        DEF Init, IInv, SetupIsAlone, SetupHoldsPair, PairIsInPlace, InSetup, HalfLoaded

-----------------------------------------------------------------------------
(* What the actions make of the state of a command.                        *)
LEMMA EnterEffect ==
    ASSUME TypeOK, NEW p \in Procs, NEW phase \in Phases, Enter(p, phase)
    PROVE  /\ procs' \in [Procs -> Process]
           /\ procs'[p].phase = phase
           /\ procs'[p].pk = procs[p].pk
           /\ procs'[p].vk = procs[p].vk
           /\ procs'[p].mixed = procs[p].mixed
           /\ \A q \in Procs : q # p => procs'[q] = procs[q]
BY DEF TypeOK, Enter, Process

(* A command that leaves for a phase in which it neither makes keys nor    *)
(* holds a half of a pair disturbs nobody.                                 *)
LEMMA HarmlessStep ==
    ASSUME IInv, NEW p \in Procs,
           UNCHANGED <<files, obtained, overlapped>>,
           setups' \in 0..MaxSetups,
           procs' \in [Procs -> Process],
           procs'[p].phase \in {"idle", "open", "read pk"},
           \A q \in Procs : q # p => procs'[q] = procs[q]
    PROVE  IInv'
<1>1. TypeOK'
  BY DEF IInv, TypeOK
<1>2. \A q \in Procs : InSetup(q)' => InSetup(q)
  BY PhaseNames DEF InSetup
<1>3. \A q \in Procs : HalfLoaded(q)' => HalfLoaded(q)
  BY DEF HalfLoaded
<1>4. \A q \in Procs : procs'[q].phase \in WritePhases => procs'[q] = procs[q]
  BY PhaseNames
<1>5. SetupIsAlone => SetupIsAlone'
  BY <1>2, <1>3 DEF SetupIsAlone
<1>6. SetupHoldsPair => SetupHoldsPair'
  BY <1>4 DEF SetupHoldsPair
<1>7. PairIsInPlace => PairIsInPlace'
  <2>1. \A q \in Procs : HalfLoaded(q)' => procs'[q] = procs[q]
    BY DEF HalfLoaded
  <2> QED BY <1>2, <1>3, <2>1 DEF PairIsInPlace
<1> QED BY <1>1, <1>5, <1>6, <1>7 DEF IInv

(* A command turns to making keys because the cached ones do not load:     *)
(* then nobody has got keys yet, unless a setup overlaps.                  *)
LEMMA FallBackStep ==
    ASSUME IInv, NEW p \in Procs, ~InSetup(p), FallBack(p),
           ~overlapped => obtained = {}
    PROVE  IInv'
<1>1. /\ "setup" \in Phases
      /\ "setup" \notin WritePhases
      /\ "setup" # "read vk"
  BY PhaseNames
<1>2. /\ procs' \in [Procs -> Process]
      /\ procs'[p].phase = "setup"
      /\ \A q \in Procs : q # p => procs'[q] = procs[q]
  BY <1>1, EnterEffect DEF FallBack, IInv
<1>3. UNCHANGED <<files, setups, obtained>>
  BY DEF FallBack
<1>4. overlapped' \in BOOLEAN
  BY DEF FallBack, IInv, TypeOK
<1>5. TypeOK'
  BY <1>2, <1>3, <1>4 DEF IInv, TypeOK
<1>6. ASSUME ~overlapped' PROVE SetupIsAlone' /\ SetupHoldsPair' /\ PairIsInPlace'
  <2>1. /\ ~overlapped
        /\ \A q \in Procs : q # p => ~InSetup(q) /\ ~HalfLoaded(q)
    BY <1>6 DEF FallBack
  <2>2. SetupIsAlone /\ SetupHoldsPair /\ PairIsInPlace /\ obtained = {}
    BY <2>1 DEF IInv
  <2>3. \A q \in Procs : q # p => ~InSetup(q)' /\ ~HalfLoaded(q)'
    BY <1>2, <2>1 DEF InSetup, HalfLoaded
  <2>4. SetupIsAlone'
    BY <2>3 DEF SetupIsAlone
  <2>5. SetupHoldsPair'
    BY <1>1, <1>2, <2>3 DEF SetupHoldsPair, InSetup
  <2>6. PairIsInPlace'
    BY <1>3, <2>2 DEF PairIsInPlace
  <2> QED BY <2>4, <2>5, <2>6
<1> QED BY <1>5, <1>6 DEF IInv

-----------------------------------------------------------------------------
(* Loading.                                                                *)
LEMMA LoadingIsNoSetup ==
    ASSUME NEW p \in Procs, procs[p].phase \in {"idle", "open", "read pk", "read vk"}
    PROVE  ~InSetup(p)
BY PhaseNames DEF InSetup

LEMMA OpenStep ==
    ASSUME IInv, NEW p \in Procs, Open(p)
    PROVE  IInv'
<1>1. CASE Absent \in {files["pk"], files["vk"]}
  <2>1. ~overlapped => obtained = {}
    BY <1>1 DEF IInv, PairIsInPlace, Absent, Setups
  <2>2. FallBack(p) /\ ~InSetup(p)
    BY <1>1, LoadingIsNoSetup DEF Open, At
  <2> QED BY <2>1, <2>2, FallBackStep
<1>2. CASE Absent \notin {files["pk"], files["vk"]}
  <2>1. Enter(p, "read pk") /\ UNCHANGED <<files, setups, obtained, overlapped>>
    BY <1>2 DEF Open
  <2>2. /\ procs' \in [Procs -> Process]
        /\ procs'[p].phase = "read pk"
        /\ \A q \in Procs : q # p => procs'[q] = procs[q]
    BY <2>1, EnterEffect, PhaseNames DEF IInv
  <2>3. setups' \in 0..MaxSetups
    BY <2>1 DEF IInv, TypeOK
  <2> QED BY <2>1, <2>2, <2>3, HarmlessStep
<1> QED BY <1>1, <1>2

LEMMA ReadPKStep ==
    ASSUME IInv, NEW p \in Procs, ReadPK(p)
    PROVE  IInv'
<1>1. CASE ~IsKey(files["pk"])
  <2>1. ~overlapped => obtained = {}
    BY <1>1 DEF IInv, PairIsInPlace, IsKey
  <2>2. FallBack(p) /\ ~InSetup(p)
    BY <1>1, LoadingIsNoSetup DEF ReadPK, At
  <2> QED BY <2>1, <2>2, FallBackStep
<1>2. CASE IsKey(files["pk"])
  <2>1. /\ procs' = [procs EXCEPT ![p] =
                        [@ EXCEPT !.phase = "read vk", !.pk = files["pk"]]]
        /\ overlapped' = (overlapped \/ \E q \in Procs \ {p} : InSetup(q))
        /\ UNCHANGED <<files, setups, obtained>>
    BY <1>2 DEF ReadPK
  <2>2. /\ procs' \in [Procs -> Process]
        /\ procs'[p].phase = "read vk"
        /\ procs'[p].pk = files["pk"]
        /\ \A q \in Procs : q # p => procs'[q] = procs[q]
    BY <1>2, <2>1, PhaseNames DEF IInv, TypeOK, Process, IsKey
  <2>3. overlapped' \in BOOLEAN
    BY <2>1 DEF IInv, TypeOK
  <2>4. TypeOK'
    BY <2>1, <2>2, <2>3 DEF IInv, TypeOK
  <2>5. ~InSetup(p)' /\ ~InSetup(p)
    <3>1. "read vk" \notin WritePhases \cup {"setup"}
      BY PhaseNames
    <3>2. ~InSetup(p)
      BY LoadingIsNoSetup DEF ReadPK, At
    <3> QED BY <2>2, <3>1, <3>2 DEF InSetup
  <2>6. \A q \in Procs : InSetup(q)' <=> InSetup(q)
    BY <2>2, <2>5 DEF InSetup
  <2>7. ASSUME ~overlapped' PROVE SetupIsAlone' /\ SetupHoldsPair' /\ PairIsInPlace'
    <3>1. /\ ~overlapped
          /\ \A q \in Procs : ~InSetup(q)
      BY <2>1, <2>5, <2>7
    <3>2. SetupIsAlone'
      BY <2>6, <3>1 DEF SetupIsAlone
    <3>3. SetupHoldsPair'
      BY <2>6, <3>1 DEF SetupHoldsPair, InSetup
    <3>4. PairIsInPlace
      BY <3>1 DEF IInv
    <3>5. PairIsInPlace'
      BY <2>1, <2>2, <2>6, <3>4 DEF PairIsInPlace, HalfLoaded
    <3> QED BY <3>2, <3>3, <3>5
  <2> QED BY <2>4, <2>7 DEF IInv
<1> QED BY <1>1, <1>2

(* A command that gets a pair becomes idle.                                *)
LEMMA ReturnEffect ==
    ASSUME TypeOK, NEW p \in Procs, NEW pk, NEW vk, Return(p, pk, vk)
    PROVE  /\ procs' \in [Procs -> Process]
           /\ procs'[p].phase = "idle"
           /\ \A q \in Procs : q # p => procs'[q] = procs[q]
           /\ obtained' = obtained \cup {<<pk, vk>>}
<1>1. Idle \in Process /\ Idle.phase = "idle"
  BY PhaseNames DEF Idle, Process
<1> QED BY <1>1 DEF TypeOK, Return

LEMMA ReadVKStep ==
    ASSUME IInv, NEW p \in Procs, ReadVK(p)
    PROVE  IInv'
<1>1. CASE ~IsKey(files["vk"])
  <2>1. ~overlapped => obtained = {}
    BY <1>1 DEF IInv, PairIsInPlace, IsKey
  <2>2. FallBack(p) /\ ~InSetup(p)
    BY <1>1, LoadingIsNoSetup DEF ReadVK, At
  <2> QED BY <2>1, <2>2, FallBackStep
<1>2. CASE IsKey(files["vk"])
  <2>1. /\ Return(p, procs[p].pk, files["vk"])
        /\ UNCHANGED <<files, setups, overlapped>>
        /\ HalfLoaded(p)
    BY <1>2 DEF ReadVK, At, HalfLoaded
  <2>2. /\ procs' \in [Procs -> Process]
        /\ procs'[p].phase = "idle"
        /\ \A q \in Procs : q # p => procs'[q] = procs[q]
        /\ obtained' = obtained \cup {<<procs[p].pk, files["vk"]>>}
    BY <2>1, ReturnEffect DEF IInv
  <2>3. CASE overlapped
    BY <2>1, <2>2, <2>3 DEF IInv, TypeOK
  <2>4. CASE ~overlapped
    <3>1. PairIsInPlace
      BY <2>4 DEF IInv
    <3>2. obtained # {} /\ obtained = {<<files["pk"], files["vk"]>>}
      BY <1>2, <3>1 DEF PairIsInPlace, IsKey
    <3>3. procs[p].pk = files["pk"]
      BY <2>1, <3>1, <3>2 DEF PairIsInPlace
    <3>4. obtained' = obtained
      BY <2>2, <3>2, <3>3
    <3>5. setups' \in 0..MaxSetups
      BY <2>1 DEF IInv, TypeOK
    <3> QED BY <2>1, <2>2, <3>4, <3>5, HarmlessStep
  <2> QED BY <2>3, <2>4
<1> QED BY <1>1, <1>2

-----------------------------------------------------------------------------
(* Making keys.  A step of a setup to the next of its phases keeps it      *)
(* alone.                                                                  *)
LEMMA StaysAlone ==
    ASSUME SetupIsAlone, NEW p \in Procs, InSetup(p),
           ~HalfLoaded(p)',
           \A q \in Procs : q # p => procs'[q].phase = procs[q].phase
    PROVE  SetupIsAlone' /\ \A q \in Procs : q # p => ~InSetup(q)' /\ ~HalfLoaded(q)'
<1>1. \A q \in Procs : q # p => ~InSetup(q)' /\ ~HalfLoaded(q)'
  BY DEF SetupIsAlone, InSetup, HalfLoaded
<1> QED BY <1>1 DEF SetupIsAlone

(* While keys are made nobody has got any, unless a setup overlaps.        *)
LEMMA NothingObtained ==
    ASSUME PairIsInPlace, NEW p \in Procs, InSetup(p)
    PROVE  obtained = {} /\ files["vk"] \notin Setups
BY DEF PairIsInPlace

LEMMA SetupStep ==
    ASSUME IInv, NEW p \in Procs, Setup(p)
    PROVE  IInv'
<1> DEFINE new == [phase |-> "create pk", pk |-> setups', vk |-> setups', mixed |-> FALSE]
<1>1. /\ procs' = [procs EXCEPT ![p] = new]
      /\ setups' = setups + 1
      /\ setups < MaxSetups
      /\ UNCHANGED <<files, obtained, overlapped>>
      /\ procs[p].phase = "setup"
  BY DEF Setup, At
<1>2. setups' \in Setups /\ setups' \in 0..MaxSetups
  <2>1. setups \in 0..MaxSetups /\ setups < MaxSetups /\ setups' = setups + 1
    BY DEF IInv, TypeOK, Setup
  <2> QED BY <2>1, MaxSetupsAssumption DEF Setups
<1>3. new \in Process
  BY <1>2, PhaseNames DEF Process
<1>4. /\ procs' \in [Procs -> Process]
      /\ procs'[p] = new
      /\ \A q \in Procs : q # p => procs'[q] = procs[q]
  <2> HIDE DEF new
  <2> QED BY <1>1, <1>3 DEF IInv, TypeOK
<1>5. TypeOK'
  BY <1>1, <1>2, <1>4 DEF IInv, TypeOK
<1>6. InSetup(p) /\ ~HalfLoaded(p)'
  BY <1>1, <1>4 DEF InSetup, HalfLoaded
<1>7. ASSUME ~overlapped PROVE SetupIsAlone' /\ SetupHoldsPair' /\ PairIsInPlace'
  <2>1. SetupIsAlone /\ PairIsInPlace
    BY <1>7 DEF IInv
  <2>2. SetupIsAlone' /\ \A q \in Procs : q # p => ~InSetup(q)' /\ ~HalfLoaded(q)'
    BY <1>4, <1>6, <2>1, StaysAlone
  <2>3. SetupHoldsPair'
    <3>1. new.pk = setups' /\ new.vk = setups' /\ new.phase = "create pk"
      OBVIOUS
    <3>2. new.mixed = FALSE
      OBVIOUS
    <3> HIDE DEF new
    <3> QED BY <1>2, <1>4, <2>2, <3>1, <3>2 DEF SetupHoldsPair, InSetup
  <2>4. PairIsInPlace'
    BY <1>1, <1>6, <2>1, NothingObtained DEF PairIsInPlace
  <2> QED BY <2>2, <2>3, <2>4
<1> QED BY <1>1, <1>5, <1>7 DEF IInv

LEMMA CreateStep ==
    ASSUME IInv, NEW p \in Procs, NEW f \in Files, Create(p, f)
    PROVE  IInv'
<1> DEFINE writers == {q \in Procs : At(q, Writing[f])}
<1>1. /\ files' = [files EXCEPT ![f] = Torn]
      /\ procs' = [q \in Procs |->
            IF q = p THEN [procs[q] EXCEPT !.phase = Writing[f], !.mixed = writers # {}]
            ELSE [procs[q] EXCEPT !.mixed = @ \/ q \in writers]]
      /\ UNCHANGED <<setups, obtained, overlapped>>
      /\ procs[p].phase = Creating[f]
  BY DEF Create, At
<1>2. /\ Writing[f] \in Phases /\ Writing[f] \in WritePhases /\ Writing[f] # "read vk"
      /\ Creating[f] \in WritePhases
      /\ \A g \in Files : Writing[g] \in WritePhases
  BY PhaseNames
<1>3. (writers # {}) \in BOOLEAN /\ \A q \in Procs : (procs[q].mixed \/ q \in writers) \in BOOLEAN
  OBVIOUS
<1> HIDE DEF writers
<1>4. /\ procs' \in [Procs -> Process]
      /\ \A q \in Procs : /\ procs'[q].pk = procs[q].pk
                          /\ procs'[q].vk = procs[q].vk
      /\ procs'[p].phase = Writing[f]
      /\ procs'[p].mixed = (writers # {})
      /\ \A q \in Procs : q # p => procs'[q].phase = procs[q].phase
  BY <1>1, <1>2, <1>3 DEF IInv, TypeOK, Process
<1>5. files' \in [Files -> {Absent, Torn} \cup Setups]
  BY <1>1 DEF IInv, TypeOK
<1>6. TypeOK'
  BY <1>1, <1>4, <1>5 DEF IInv, TypeOK
<1>7. InSetup(p) /\ ~HalfLoaded(p)'
  BY <1>1, <1>2, <1>4 DEF InSetup, HalfLoaded
<1>8. ASSUME ~overlapped PROVE SetupIsAlone' /\ SetupHoldsPair' /\ PairIsInPlace'
  <2>1. SetupIsAlone /\ PairIsInPlace /\ SetupHoldsPair
    BY <1>8 DEF IInv
  <2>2. SetupIsAlone' /\ \A q \in Procs : q # p => ~InSetup(q)' /\ ~HalfLoaded(q)'
    BY <1>4, <1>7, <2>1, StaysAlone
  <2>3. writers = {}
    <3>1. \A q \in Procs : q # p => ~InSetup(q)
      BY <1>7, <2>1 DEF SetupIsAlone
    <3>2. Creating[f] # Writing[f]
      BY PhaseNames
    <3> QED BY <1>1, <1>2, <3>1, <3>2 DEF writers, At, InSetup
  <2>4. SetupHoldsPair'
    <3>1. /\ procs'[p].pk = procs'[p].vk
          /\ procs'[p].pk \in Setups
          /\ ~procs'[p].mixed
      BY <1>1, <1>2, <1>4, <2>1, <2>3 DEF SetupHoldsPair
    <3>2. ASSUME procs'[p].phase \in {"create vk", "write vk"} PROVE files'["pk"] = procs'[p].pk
      <4>1. f = "vk"
        BY <1>4, <3>2, PhaseNames
      <4>2. files["pk"] = procs[p].pk
        BY <1>1, <1>2, <2>1, <4>1, PhaseNames DEF SetupHoldsPair
      <4> QED BY <1>1, <1>4, <4>1, <4>2, PhaseNames DEF IInv, TypeOK
    <3> QED BY <2>2, <3>1, <3>2 DEF SetupHoldsPair, InSetup
  <2>5. PairIsInPlace'
    <3>1. obtained = {} /\ files["vk"] \notin Setups
      BY <1>7, <2>1, NothingObtained
    <3>2. Torn \notin Setups
      BY DEF Torn, Setups
    <3> QED BY <1>1, <3>1, <3>2, PhaseNames DEF PairIsInPlace, IInv, TypeOK
  <2> QED BY <2>2, <2>4, <2>5
<1> QED BY <1>1, <1>6, <1>8 DEF IInv

(* The file that is written by a setup that is alone holds its key.        *)
LEMMA WrittenWhole ==
    ASSUME TypeOK, SetupHoldsPair, NEW p \in Procs, NEW f \in Files, Written(p, f)
    PROVE  /\ files' \in [Files -> {Absent, Torn} \cup Setups]
           /\ files'[f] = procs[p].pk /\ procs[p].pk \in Setups
           /\ procs[p].vk = procs[p].pk
           /\ \A g \in Files : g # f => files'[g] = files[g]
           /\ procs[p].phase = Writing[f]
<1>1. procs[p].phase \in WritePhases /\ procs[p].phase = Writing[f]
  BY PhaseNames DEF Written, At
<1>2. ~procs[p].mixed /\ procs[p].pk = procs[p].vk /\ procs[p].pk \in Setups
  BY <1>1 DEF SetupHoldsPair
<1>3. procs[p][f] = procs[p].pk
  BY <1>2, PhaseNames
<1>4. files' = [files EXCEPT ![f] = procs[p].pk]
  BY <1>2, <1>3 DEF Written
<1> QED BY <1>1, <1>2, <1>4 DEF TypeOK

LEMMA WrittenType ==
    ASSUME TypeOK, NEW p \in Procs, NEW f \in Files, Written(p, f)
    PROVE  files' \in [Files -> {Absent, Torn} \cup Setups]
<1>1. procs[p][f] \in {Absent, Torn} \cup Setups
  BY PhaseNames DEF TypeOK, Process
<1> QED BY <1>1 DEF TypeOK, Written

LEMMA WritePKStep ==
    ASSUME IInv, NEW p \in Procs, WritePK(p)
    PROVE  IInv'
<1>1. /\ Written(p, "pk")
      /\ Enter(p, "create vk")
      /\ UNCHANGED <<setups, obtained, overlapped>>
  BY DEF WritePK, AfterPK
<1>2. /\ procs' \in [Procs -> Process]
      /\ procs'[p].phase = "create vk"
      /\ procs'[p].pk = procs[p].pk
      /\ procs'[p].vk = procs[p].vk
      /\ procs'[p].mixed = procs[p].mixed
      /\ \A q \in Procs : q # p => procs'[q] = procs[q]
  BY <1>1, EnterEffect, PhaseNames DEF IInv
<1>3. files' \in [Files -> {Absent, Torn} \cup Setups]
  BY <1>1, WrittenType, PhaseNames DEF IInv
<1>4. TypeOK'
  BY <1>1, <1>2, <1>3 DEF IInv, TypeOK
<1>5. ASSUME ~overlapped PROVE SetupIsAlone' /\ SetupHoldsPair' /\ PairIsInPlace'
  <2>1. SetupIsAlone /\ PairIsInPlace /\ SetupHoldsPair
    BY <1>5 DEF IInv
  <2>2. /\ files'["pk"] = procs[p].pk /\ procs[p].pk \in Setups
        /\ procs[p].vk = procs[p].pk
        /\ files'["vk"] = files["vk"]
        /\ procs[p].phase = "write pk"
    BY <1>1, <2>1, WrittenWhole, PhaseNames DEF IInv
  <2>3. procs[p].phase \in WritePhases
    BY <2>2, PhaseNames
  <2>4. InSetup(p) /\ ~HalfLoaded(p)'
    BY <1>2, <2>3 DEF InSetup, HalfLoaded
  <2>5. SetupIsAlone' /\ \A q \in Procs : q # p => ~InSetup(q)' /\ ~HalfLoaded(q)'
    BY <1>2, <2>1, <2>4, StaysAlone
  <2>6. ~procs'[p].mixed
    BY <1>2, <2>1, <2>3 DEF SetupHoldsPair
  <2>7. SetupHoldsPair'
    BY <1>2, <2>2, <2>5, <2>6 DEF SetupHoldsPair, InSetup
  <2>8. PairIsInPlace'
    BY <1>1, <2>1, <2>2, <2>4, NothingObtained DEF PairIsInPlace
  <2> QED BY <2>5, <2>7, <2>8
<1> QED BY <1>1, <1>4, <1>5 DEF IInv

LEMMA WriteVKStep ==
    ASSUME IInv, NEW p \in Procs, WriteVK(p)
    PROVE  IInv'
<1>1. /\ Written(p, "vk")
      /\ Return(p, procs[p].pk, procs[p].vk)
      /\ UNCHANGED <<setups, overlapped>>
  BY DEF WriteVK
<1>2. /\ procs' \in [Procs -> Process]
      /\ procs'[p].phase = "idle"
      /\ \A q \in Procs : q # p => procs'[q] = procs[q]
      /\ obtained' = obtained \cup {<<procs[p].pk, procs[p].vk>>}
  BY <1>1, ReturnEffect DEF IInv
<1>3. files' \in [Files -> {Absent, Torn} \cup Setups]
  BY <1>1, WrittenType, PhaseNames DEF IInv
<1>4. TypeOK'
  BY <1>1, <1>2, <1>3 DEF IInv, TypeOK
<1>5. ASSUME ~overlapped PROVE SetupIsAlone' /\ SetupHoldsPair' /\ PairIsInPlace'
  <2>1. SetupIsAlone /\ PairIsInPlace /\ SetupHoldsPair
    BY <1>5 DEF IInv
  <2>2. /\ files'["vk"] = procs[p].pk /\ procs[p].pk \in Setups
        /\ procs[p].vk = procs[p].pk
        /\ files'["pk"] = files["pk"]
        /\ procs[p].phase = "write vk"
    BY <1>1, <2>1, WrittenWhole, PhaseNames DEF IInv
  <2>3. procs[p].phase \in WritePhases
    BY <2>2, PhaseNames
  <2>4. files["pk"] = procs[p].pk
    BY <2>1, <2>2, <2>3 DEF SetupHoldsPair
  <2>5. InSetup(p) /\ ~HalfLoaded(p)' /\ ~InSetup(p)'
    BY <1>2, <2>3, PhaseNames DEF InSetup, HalfLoaded
  <2>6. SetupIsAlone' /\ \A q \in Procs : q # p => ~InSetup(q)' /\ ~HalfLoaded(q)'
    BY <1>2, <2>1, <2>5, StaysAlone
  <2>7. SetupHoldsPair'
    BY <2>5, <2>6 DEF SetupHoldsPair, InSetup
  <2>8. obtained = {}
    BY <2>1, <2>5, NothingObtained
  <2>9. PairIsInPlace'
    BY <1>2, <2>2, <2>4, <2>5, <2>6, <2>8 DEF PairIsInPlace
  <2> QED BY <2>6, <2>7, <2>9
<1> QED BY <1>1, <1>4, <1>5 DEF IInv

-----------------------------------------------------------------------------
LEMMA StartOrQuitStep ==
    ASSUME IInv, NEW p \in Procs, Start(p) \/ Quit(p)
    PROVE  IInv'
<1>1. setups' = setups /\ setups \in 0..MaxSetups
  BY DEF Start, Quit, IInv, TypeOK
<1>2. CASE Start(p)
  <2>1. /\ procs' \in [Procs -> Process]
        /\ procs'[p].phase = "open"
        /\ \A q \in Procs : q # p => procs'[q] = procs[q]
    BY <1>2, EnterEffect, PhaseNames DEF IInv, Start
  <2> QED BY <1>1, <1>2, <2>1, HarmlessStep DEF Start
<1>3. CASE Quit(p)
  <2>1. Idle \in Process /\ Idle.phase = "idle"
    BY PhaseNames DEF Idle, Process
  <2>2. /\ procs' \in [Procs -> Process]
        /\ procs'[p].phase = "idle"
        /\ \A q \in Procs : q # p => procs'[q] = procs[q]
    BY <1>3, <2>1 DEF IInv, TypeOK, Quit
  <2> QED BY <1>1, <1>3, <2>2, HarmlessStep DEF Quit
<1> QED BY <1>2, <1>3

(* Every step of a command preserves the inductive invariant.              *)
LEMMA NextIInv == IInv /\ [Next]_vars => IInv'
<1> SUFFICES ASSUME IInv, [Next]_vars PROVE IInv'
  OBVIOUS
<1>1. ASSUME NEW p \in Procs, Start(p) \/ Quit(p) PROVE IInv'
  BY <1>1, StartOrQuitStep
<1>2. ASSUME NEW p \in Procs, Open(p) PROVE IInv'
  BY <1>2, OpenStep
<1>3. ASSUME NEW p \in Procs, ReadPK(p) PROVE IInv'
  BY <1>3, ReadPKStep
<1>4. ASSUME NEW p \in Procs, ReadVK(p) PROVE IInv'
  BY <1>4, ReadVKStep
<1>5. ASSUME NEW p \in Procs, Setup(p) PROVE IInv'
  BY <1>5, SetupStep
<1>6. ASSUME NEW p \in Procs, NEW f \in Files, Create(p, f) PROVE IInv'
  BY <1>6, CreateStep
<1>7. ASSUME NEW p \in Procs, WritePK(p) PROVE IInv'
  BY <1>7, WritePKStep
<1>8. ASSUME NEW p \in Procs, WriteVK(p) PROVE IInv'
  BY <1>8, WriteVKStep
<1>9. CASE UNCHANGED vars
  BY <1>9 DEF vars, IInv, TypeOK, SetupIsAlone, SetupHoldsPair, PairIsInPlace,
              InSetup, HalfLoaded
<1> QED BY <1>1, <1>2, <1>3, <1>4, <1>5, <1>6, <1>7, <1>8, <1>9 DEF Next

LEMMA Invariant == Spec => []IInv
BY InitIInv, NextIInv, PTL DEF Spec

-----------------------------------------------------------------------------
(* Unless a setup overlapped another command, all commands that got keys   *)
(* from LoadOrSetup got the two halves of the same pair.                   *)
THEOREM OnePair == Spec => []KeysAgree
<1>1. IInv => KeysAgree
  BY DEF IInv, PairIsInPlace, KeysAgree
<1> QED BY <1>1, Invariant, PTL

(* Files that load hold that pair, whatever was killed or torn before.     *)
THEOREM CacheRecovers == Spec => []LoadableIsCurrent
<1>1. IInv => LoadableIsCurrent
  BY PhaseNames DEF IInv, PairIsInPlace, LoadableIsCurrent
<1> QED BY <1>1, Invariant, PTL

(* Files that load are never written again.                                *)
THEOREM FilesAreKept == Spec => CacheIsKept
<1>1. IInv /\ [Next]_vars =>
        [~overlapped' /\ (\A f \in Files : files[f] \in Setups) => UNCHANGED files]_vars
  <2> SUFFICES ASSUME IInv, Next, ~overlapped', \A f \in Files : files[f] \in Setups
               PROVE  UNCHANGED files
    OBVIOUS
  <2>1. ~overlapped
    BY DEF Next, Start, Open, ReadPK, ReadVK, FallBack, Setup, Create, WritePK,
           WriteVK, Quit
  <2>2. \A p \in Procs : procs[p].phase \notin WritePhases
    BY <2>1, PhaseNames DEF IInv, PairIsInPlace, InSetup
  <2>3. \A p \in Procs, f \in Files : ~At(p, Creating[f]) /\ ~At(p, Writing[f])
    BY <2>2, PhaseNames DEF At
  <2> QED BY <2>3, PhaseNames DEF Next, Start, Open, ReadPK, ReadVK, FallBack, Setup,
             Create, WritePK, WriteVK, Written, Quit
<1> QED BY <1>1, Invariant, PTL DEF Spec, CacheIsKept
=============================================================================
