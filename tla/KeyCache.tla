------------------------------ MODULE KeyCache ------------------------------
(***************************************************************************)
(* LoadOrSetup of zkp/system.go: commands that share artifacts/ load the   *)
(* cached proving and verifying key, or generate a pair and write it, one  *)
(* file after the other.  A command may be killed, or an operation on a    *)
(* file may fail, between any two steps.                                   *)
(*                                                                         *)
(* Data.  A key is the number of the setup that made it; the two keys of a *)
(* pair have the same one.  All commands compile the same circuit.         *)
(***************************************************************************)
EXTENDS Integers

CONSTANTS
    Procs,      \* commands that may run at the same time
    MaxSetups   \* bound on the setups run

ASSUME MaxSetupsAssumption == MaxSetups \in Nat

Files == {"pk", "vk"}
Absent == -1    \* no such file
Torn == 0       \* a truncated or garbled file: ReadFrom fails
Setups == 1..MaxSetups

VARIABLES
    files,      \* artifacts/
    procs,      \* where each command stands in LoadOrSetup, its keys, and
                \* whether another had the file open that it writes
    setups,     \* the number of setups run
    obtained,   \* history: the pairs LoadOrSetup returned
    overlapped  \* history: a setup ran while another command ran a setup,
                \* or had loaded the first file and not yet the second

vars == <<files, procs, setups, obtained, overlapped>>

Idle == [phase |-> "idle", pk |-> Absent, vk |-> Absent, mixed |-> FALSE]

Init ==
    /\ files = [f \in Files |-> Absent]
    /\ procs = [p \in Procs |-> Idle]
    /\ setups = 0
    /\ obtained = {}
    /\ overlapped = FALSE

LoadPhases == {"open", "read pk", "read vk"}
Creating == [pk |-> "create pk", vk |-> "create vk"]
Writing == [pk |-> "write pk", vk |-> "write vk"]
WritePhases == {Creating[f] : f \in Files} \cup {Writing[f] : f \in Files}
Phases == {"idle", "setup"} \cup LoadPhases \cup WritePhases
InSetup(p) == procs[p].phase \in WritePhases \cup {"setup"}
HalfLoaded(p) == procs[p].phase = "read vk"

At(p, phase) == procs[p].phase = phase
Enter(p, phase) == procs' = [procs EXCEPT ![p].phase = phase]

Start(p) ==
    /\ At(p, "idle")
    /\ Enter(p, "open")
    /\ UNCHANGED <<files, setups, obtained, overlapped>>

(* loadKeys returned an error, whichever: new keys are made.               *)
FallBack(p) ==
    /\ Enter(p, "setup")
    /\ overlapped' = (overlapped \/ \E q \in Procs \ {p} : InSetup(q) \/ HalfLoaded(q))
    /\ UNCHANGED <<files, setups, obtained>>

(* Mutant: keys are made anew on every start.                              *)
OpenAnew(p) == At(p, "open") /\ FallBack(p)

(* os.Open of both files; what they hold is read later.                    *)
Open(p) ==
    /\ At(p, "open")
    /\ IF Absent \in {files["pk"], files["vk"]} THEN FallBack(p)
       ELSE Enter(p, "read pk") /\ UNCHANGED <<files, setups, obtained, overlapped>>

(* ReadFrom succeeds.                                                      *)
IsKey(content) == content \in Setups

ReadPK(p) ==
    /\ At(p, "read pk")
    /\ IF IsKey(files["pk"])
       THEN /\ procs' = [procs EXCEPT ![p] = [@ EXCEPT !.phase = "read vk", !.pk = files["pk"]]]
            /\ overlapped' = (overlapped \/ \E q \in Procs \ {p} : InSetup(q))
            /\ UNCHANGED <<files, setups, obtained>>
       ELSE FallBack(p)

Return(p, pk, vk) ==
    /\ obtained' = obtained \cup {<<pk, vk>>}
    /\ procs' = [procs EXCEPT ![p] = Idle]

ReadVK(p) ==
    /\ At(p, "read vk")
    /\ IF IsKey(files["vk"])
       THEN Return(p, procs[p].pk, files["vk"]) /\ UNCHANGED <<files, setups, overlapped>>
       ELSE FallBack(p)

-----------------------------------------------------------------------------
(* Mutant: a proving key that loaded is left in its file.                  *)
SetupKeepingPK(p) ==
    /\ At(p, "setup")
    /\ setups < MaxSetups
    /\ setups' = setups + 1
    /\ procs' = [procs EXCEPT ![p] =
            [phase |-> IF @.pk = Absent THEN "create pk" ELSE "create vk",
             pk |-> setups', vk |-> setups', mixed |-> FALSE]]
    /\ UNCHANGED <<files, obtained, overlapped>>

(* groth16.Setup and MkdirAll.                                             *)
Setup(p) ==
    /\ At(p, "setup")
    /\ setups < MaxSetups
    /\ setups' = setups + 1
    /\ procs' = [procs EXCEPT ![p] =
            [phase |-> "create pk", pk |-> setups', vk |-> setups', mixed |-> FALSE]]
    /\ UNCHANGED <<files, obtained, overlapped>>

(* os.Create truncates what is there, under the hands of whoever is        *)
(* writing it.                                                             *)
Create(p, f) ==
    /\ At(p, Creating[f])
    /\ files' = [files EXCEPT ![f] = Torn]
    /\ LET writers == {q \in Procs : At(q, Writing[f])}
       IN procs' = [q \in Procs |->
            IF q = p THEN [procs[q] EXCEPT !.phase = Writing[f], !.mixed = writers # {}]
            ELSE [procs[q] EXCEPT !.mixed = @ \/ q \in writers]]
    /\ UNCHANGED <<setups, obtained, overlapped>>

(* The key is written; a file that two commands had open at the same time  *)
(* may hold parts of both, or have lost its beginning.                     *)
Written(p, f) ==
    /\ At(p, Writing[f])
    /\ \E content \in {procs[p][f]}
            \cup (IF procs[p].mixed THEN {Torn} ELSE {}) :
            files' = [files EXCEPT ![f] = content]

(* Mutant: a verifying key that is there already is kept.                  *)
AfterPKReturnEarly(p) ==
    IF files["vk"] = Absent THEN Enter(p, "create vk") /\ UNCHANGED obtained
    ELSE Return(p, procs[p].pk, procs[p].vk)

AfterPK(p) == Enter(p, "create vk") /\ UNCHANGED obtained

WritePK(p) ==
    /\ Written(p, "pk")
    /\ AfterPK(p)
    /\ UNCHANGED <<setups, overlapped>>

WriteVK(p) ==
    /\ Written(p, "vk")
    /\ Return(p, procs[p].pk, procs[p].vk)
    /\ UNCHANGED <<setups, overlapped>>

(* A kill, a full disk, an unreadable directory; what is written stays.    *)
Quit(p) ==
    /\ ~At(p, "idle")
    /\ procs' = [procs EXCEPT ![p] = Idle]
    /\ UNCHANGED <<files, setups, obtained, overlapped>>

Next ==
    \E p \in Procs :
        \/ Start(p) \/ Open(p) \/ ReadPK(p) \/ ReadVK(p)
        \/ Setup(p)
        \/ \E f \in Files : Create(p, f)
        \/ WritePK(p) \/ WriteVK(p)
        \/ Quit(p)

Spec == Init /\ [][Next]_vars

-----------------------------------------------------------------------------
(* "the agent and the service must share the same artifacts/ keys": unless *)
(* a setup overlapped, every command that got keys got the two halves      *)
(* of one pair, and all of them the same pair, whatever was killed before. *)
KeysAgree ==
    ~overlapped =>
        \A a, b \in obtained : a = b /\ a[1] = a[2]

(* The cache recovers: unless a setup overlapped, a pair of files that     *)
(* load is one pair, and it is the one that earlier commands got.          *)
LoadableIsCurrent ==
    ~overlapped /\ (\A f \in Files : files[f] \in Setups) =>
        /\ files["pk"] = files["vk"]
        /\ obtained \subseteq {<<files["pk"], files["vk"]>>}

(* Once the files load they stay as they are, unless a setup overlapped.   *)
CacheIsKept ==
    [][~overlapped' /\ (\A f \in Files : files[f] \in Setups) => UNCHANGED files]_vars
=============================================================================
