---------------------------- MODULE PartsProofs ----------------------------
(***************************************************************************)
(* Proofs about four parts that share no state: the settings on the card   *)
(* (Storage), the servos (Body), the content of plugins (Content) and the  *)
(* readers of frames (Framing), each for every value of its constants.     *)
(***************************************************************************)
EXTENDS Storage, Body, Content, Framing,
        NaturalsInduction, WellFoundedInduction, SequenceTheorems, TLAPS

-----------------------------------------------------------------------------
(* The settings on the card.                                               *)

(* Nothing was saved yet, and the loop has not started.                    *)
LEMMA InitInv == Init => Inv
  BY DefaultAssumption, MarkersAssumption
     DEF Init, Inv, TypeOK, SaveInProgress, KeepsAVersion, StatusIsTrue, FileContents,
         Statuses, Steps, Saving, NoSettings

(* The start of the firmware only reads the card.                          *)
LEMMA BootInv == Inv /\ Boot => Inv'
<1> SUFFICES ASSUME Inv, Boot PROVE Inv'
  OBVIOUS
<1>1. TypeOK'
  BY DefaultAssumption, MarkersAssumption
     DEF Inv, TypeOK, Boot, LoadOutcome, Reads, FileContents, Statuses, Steps, files, history
<1>2. SaveInProgress'
  BY DEF Inv, SaveInProgress, Boot, Saving, Steps, files, history
<1>3. KeepsAVersion'
  BY DEF Inv, KeepsAVersion, Readable, Boot, files, history
<1>4. StatusIsTrue'
  BY MarkersAssumption
     DEF Inv, StatusIsTrue, Boot, LoadOutcome, Reads, files, history, IoError
<1> QED
  BY <1>1, <1>2, <1>3, <1>4 DEF Inv

(* The panel changes the settings in use and the status together.          *)
LEMMA PanelInv ==
  Inv /\ (TakeSave \/ NoButton \/ ChangeButton \/ SaveButton \/ PowerLoss) => Inv'
<1> SUFFICES ASSUME Inv, TakeSave \/ NoButton \/ ChangeButton \/ SaveButton \/ PowerLoss
             PROVE  Inv'
  OBVIOUS
<1>1. UNCHANGED <<config, backup, saved, tried>>
  BY DEF TakeSave, NoButton, ChangeButton, SaveButton, PowerLoss, files, history
<1>2. TypeOK'
  BY <1>1, DefaultAssumption
     DEF Inv, TypeOK, TakeSave, NoButton, ChangeButton, SaveButton, PowerLoss,
         FileContents, Statuses, Steps, files, history
<1>3. KeepsAVersion'
  BY <1>1 DEF Inv, KeepsAVersion, Readable
<1>4. StatusIsTrue'
  BY <1>1 DEF Inv, StatusIsTrue, TakeSave, NoButton, ChangeButton, SaveButton, PowerLoss,
              files, history
<1>5. SaveInProgress'
  <2>1. pc' \in {"Boot", "Take", "Touch"} \/ (pc' = "Prepare" /\ requested)
    BY DEF TakeSave, NoButton, ChangeButton, SaveButton, PowerLoss
  <2>2. requested' => pc' = "Take" /\ status' = "Saving"
    BY DEF Inv, SaveInProgress, TakeSave, NoButton, ChangeButton, SaveButton, PowerLoss
  <2>3. pc' = "Prepare" => status' = "Saving"
    BY DEF Inv, SaveInProgress, TakeSave, NoButton, ChangeButton, SaveButton, PowerLoss
  <2> QED
    BY <2>1, <2>2, <2>3 DEF SaveInProgress, Saving, Steps
<1> QED
  BY <1>2, <1>3, <1>4, <1>5 DEF Inv

(* Until the main file is opened, what is readable stays readable.         *)
LEMMA BackupInv ==
  Inv /\ (Prepare \/ ReadPrimary \/ OpenBackup \/ WriteBackup \/ VerifyBackup) => Inv'
<1> SUFFICES ASSUME Inv, Prepare \/ ReadPrimary \/ OpenBackup \/ WriteBackup \/ VerifyBackup
             PROVE  Inv'
  OBVIOUS
<1>1. UNCHANGED <<config, settings, saved, tried>>
  BY DEF Prepare, ReadPrimary, OpenBackup, WriteBackup, VerifyBackup, GiveUp, Continue,
         files, history
<1>2. status = "Saving" /\ ~requested /\ status' \in {"Saving", "Failed"} /\ ~requested'
  BY DEF Inv, SaveInProgress, Saving, Steps, Prepare, ReadPrimary, OpenBackup, WriteBackup,
         VerifyBackup, GiveUp, Continue
<1>3. TypeOK'
  BY <1>1
     DEF Inv, TypeOK, SaveInProgress, Prepare, ReadPrimary, OpenBackup, WriteBackup,
         VerifyBackup, GiveUp, Continue, Reads, FileContents, Statuses, Steps, files, history
<1>4. StatusIsTrue'
  BY <1>2 DEF StatusIsTrue
<1>5. KeepsAVersion'
  <2>1. backup' = backup \/ config \in Settings
    BY DEF Inv, SaveInProgress, Prepare, ReadPrimary, OpenBackup, WriteBackup, VerifyBackup,
           files
  <2> QED
    BY <1>1, <2>1 DEF Inv, KeepsAVersion, Readable
<1>6. SaveInProgress'
  <2>1. CASE Prepare
    BY <1>1, <1>2, <2>1
       DEF Inv, SaveInProgress, Prepare, GiveUp, Continue, Saving, Steps, files
  <2>2. CASE ReadPrimary
    BY <1>1, <1>2, <2>2, MarkersAssumption
       DEF Inv, SaveInProgress, ReadPrimary, GiveUp, Reads, Saving, Steps, files
  <2>3. CASE OpenBackup \/ WriteBackup
    BY <1>1, <1>2, <2>3
       DEF Inv, SaveInProgress, OpenBackup, WriteBackup, GiveUp, Continue, Saving, Steps
  <2>4. CASE VerifyBackup
    BY <1>1, <1>2, <2>4, MarkersAssumption
       DEF Inv, SaveInProgress, VerifyBackup, GiveUp, Continue, Reads, Saving, Steps, files
  <2> QED
    BY <2>1, <2>2, <2>3, <2>4
<1> QED
  BY <1>3, <1>4, <1>5, <1>6 DEF Inv

(* From then on the backup holds the version the main file had.            *)
LEMMA ConfigInv == Inv /\ (OpenConfig \/ WriteConfig \/ VerifyConfig) => Inv'
<1> SUFFICES ASSUME Inv, OpenConfig \/ WriteConfig \/ VerifyConfig PROVE Inv'
  OBVIOUS
<1>1. UNCHANGED <<backup, settings, previous>> /\ ~requested /\ ~requested'
  BY DEF Inv, SaveInProgress, OpenConfig, WriteConfig, VerifyConfig, GiveUp, Continue, files
<1>2. TypeOK'
  BY <1>1
     DEF Inv, TypeOK, OpenConfig, WriteConfig, VerifyConfig, GiveUp, Continue, Reads,
         FileContents, Statuses, Steps, files, history
<1>3. CASE OpenConfig
  <2>1. status' \in {"Saving", "Failed"}
    BY <1>3 DEF Inv, SaveInProgress, OpenConfig, GiveUp, Continue, Saving, Steps
  <2>2. StatusIsTrue'
    BY <2>1 DEF StatusIsTrue
  <2>3. saved # NoSettings => backup \in {saved} \cup tried
    BY <1>3, MarkersAssumption
       DEF Inv, TypeOK, SaveInProgress, OpenConfig, KeepsAVersion, Readable
  <2>4. KeepsAVersion'
    BY <1>1, <1>3, <2>3, MarkersAssumption
       DEF Inv, TypeOK, OpenConfig, KeepsAVersion, Readable, GiveUp, history
  <2>5. SaveInProgress'
    BY <1>1, <1>3, <2>1, <2>3
       DEF Inv, SaveInProgress, OpenConfig, GiveUp, Continue, Saving, Steps, history
  <2> QED
    BY <1>2, <2>2, <2>4, <2>5 DEF Inv
<1>4. CASE WriteConfig
  <2>1. status' \in {"Saving", "Failed"}
    BY <1>4 DEF Inv, SaveInProgress, WriteConfig, GiveUp, Continue, Saving, Steps
  <2>2. StatusIsTrue'
    BY <2>1 DEF StatusIsTrue
  <2>3. KeepsAVersion'
    BY <1>1, <1>4, MarkersAssumption
       DEF Inv, TypeOK, SaveInProgress, WriteConfig, KeepsAVersion, Readable, GiveUp, history
  <2>4. SaveInProgress'
    BY <1>1, <1>4, <2>1
       DEF Inv, SaveInProgress, WriteConfig, GiveUp, Continue, Saving, Steps, history
  <2> QED
    BY <1>2, <2>2, <2>3, <2>4 DEF Inv
<1>5. CASE VerifyConfig
  <2>1. StatusIsTrue'
    BY <1>5, MarkersAssumption
       DEF Inv, TypeOK, StatusIsTrue, VerifyConfig, GiveUp, Reads, IoError, files
  <2>2. KeepsAVersion'
    BY <1>1, <1>5, MarkersAssumption
       DEF Inv, TypeOK, KeepsAVersion, Readable, VerifyConfig, GiveUp, Reads, IoError, files,
           history
  <2>3. SaveInProgress'
    BY <1>1, <1>5 DEF SaveInProgress, VerifyConfig, GiveUp, Saving, Steps
  <2> QED
    BY <1>2, <2>1, <2>2, <2>3 DEF Inv
<1> QED
  BY <1>3, <1>4, <1>5

(* Nothing changes the settings when nothing happens.                      *)
LEMMA StutterInv == Inv /\ UNCHANGED vars => Inv'
  BY DEF Inv, TypeOK, SaveInProgress, KeepsAVersion, Readable, StatusIsTrue, vars

(* Every reachable state satisfies the inductive invariant.                *)
THEOREM StorageInv == Spec => []Inv
<1>1. Inv /\ [Next]_vars => Inv'
  BY BootInv, PanelInv, BackupInv, ConfigInv, StutterInv DEF Next
<1> QED
  BY <1>1, InitInv, PTL DEF Spec

(* After a save that was reported good the card always holds that version  *)
(* or one that a later save began to write, whatever fails afterwards      *)
(* (storage.rs:108-143).                                                   *)
THEOREM NeverWithoutSettings == Spec => []KeepsAVersion
  BY StorageInv, PTL DEF Inv

(* The panel never claims that the settings in use are on the card when    *)
(* the main file holds something else (main.rs:249-259).                   *)
THEOREM PanelTellsTheTruth == Spec => []StatusIsTrue
  BY StorageInv, PTL DEF Inv

-----------------------------------------------------------------------------
(* The servos.                                                             *)

Phases == {"boot", "tick", "probe", "move", "step", "idle", "end"}
Servos == [Axes -> [at : Nat, goal : Nat, torque : BOOLEAN]]
Room == [targets : Nat, hands : Nat, faults : Nat, losses : Nat, restarts : Nat]

BodyTypeOK ==
  /\ phase \in Phases
  /\ target \in [at : [Axes -> Nat], neutral : BOOLEAN, trimmed : BOOLEAN]
  /\ ready \in BOOLEAN /\ known \in BOOLEAN /\ on \in BOOLEAN
  /\ last \in [Axes -> Nat]
  /\ since \in Nat \cup {Never} /\ (since # Never => since <= ReleaseAfter)
  /\ probeIn \in Nat /\ idleIn \in Nat /\ idleIn <= IdleEvery
  /\ servos \in Servos
  /\ left \in Room
  /\ powered \in BOOLEAN /\ lost \in BOOLEAN /\ stuck \in BOOLEAN
  /\ held \in Nat

\* A failure does not outlast its turn: the power is cut, or could not be.
PowerCut == phase = "tick" /\ ~ready => ~powered \/ stuck

Torqued == \E a \in Axes : servos[a].torque
Running == ready /\ phase # "boot"

Believed ==
  Running =>
    /\ on => known /\ (phase # "step" => since # Never)
    /\ phase = "step" => on /\ held = 0
    /\ ~lost /\ Torqued => on

\* Without losses the release is due ReleaseAfter after the last step.
OnTime ==
  Running /\ on /\ ~lost /\ phase # "step" =>
    held <= since /\ (phase \in {"idle", "end", "tick"} => since < ReleaseAfter)

Away   == last # target.at
Bounded(n) == n <= ReleaseAfter \/ n <= IdleEvery

\* Is the idle release due, and does it come in time, when the head has been held for n, the
\* idle timer has i left and the last step was s ago?
DueAt(i, s)     == i = 0 /\ (s # Never => s >= ReleaseAfter)
InTime(n, i, s) == Bounded(n + i) /\ (s # Never => Bounded(n + (ReleaseAfter - s)))

\* After a loss it is the release in the neutral position that comes: the time that is left to
\* it is what held may still grow by, unless there is a movement to make.
MadeGood ==
  Running /\ lost /\ Torqued /\ phase # "step" =>
    /\ InTime(held, idleIn, since) \/ (Away /\ Bounded(held) /\ phase \in {"idle", "end", "tick"})
    /\ phase \in {"end", "tick"} => ~DueAt(idleIn, since) \/ ~target.neutral \/ Away \/ held = 0

BodyInv == BodyTypeOK /\ PowerCut /\ Believed /\ OnTime /\ MadeGood

-----------------------------------------------------------------------------
(* Commands.                                                               *)

(* A budget that is spent stays a budget.                                  *)
LEMMA SpendType ==
  ASSUME left \in Room, NEW what \in {"targets", "hands", "faults", "losses", "restarts"},
         Spend(what)
  PROVE  left' \in Room /\ left'[what] # left[what]
  BY DEF Spend, Room

(* What any series of commands may do, and that a loss is counted.         *)
LEMMA SendParts ==
  ASSUME servos \in Servos, left \in Room, lost \in BOOLEAN,
         NEW commands, Len(commands) \in Nat, NEW goal \in [Axes -> Nat], NEW torque \in BOOLEAN,
         Send(commands, goal, torque)
  PROVE  /\ ready' \in BOOLEAN /\ servos' \in Servos /\ left' \in Room /\ lost' \in BOOLEAN
         /\ \A a \in Axes : servos'[a].at = servos[a].at
         /\ \A a \in Axes :
              servos'[a].torque # servos[a].torque =>
                servos'[a].torque = torque
                  /\ \E i \in 1 .. Len(commands) : commands[i] = <<a, "torque">>
         /\ lost => lost'
         /\ \/ /\ ready' /\ UNCHANGED <<left, lost>>
               /\ servos' = Carried(Those(commands, 1 .. Len(commands)), goal, torque)
            \/ /\ ~ready' /\ lost' = lost
               /\ \E done \in 0 .. Len(commands) - 1 :
                    servos' = Carried(Those(commands, 1 .. done), goal, torque)
            \/ ready' /\ lost' /\ left'["losses"] # left["losses"]
<1> DEFINE Reached(which) == Carried(Those(commands, which), goal, torque)
           all == 1 .. Len(commands)
<1>1. \/ ready' = TRUE /\ servos' = Reached(all) /\ UNCHANGED <<left, lost>>
      \/ \E done \in 0 .. Len(commands) - 1 :
           Spend("faults") /\ ready' = FALSE /\ servos' = Reached(1 .. done) /\ UNCHANGED lost
      \/ \E missing \in all :
           /\ Spend("losses") /\ ready' = TRUE /\ lost' = TRUE
           /\ servos' = Reached(all \ {missing})
  BY DEF Send
<1>2. ASSUME NEW which \in SUBSET all, servos' = Reached(which)
      PROVE  /\ servos' \in Servos
             /\ \A a \in Axes : servos'[a].at = servos[a].at
             /\ \A a \in Axes : servos'[a].torque # servos[a].torque =>
                  servos'[a].torque = torque /\ \E i \in all : commands[i] = <<a, "torque">>
  <2>1. /\ Reached(which) \in Servos
        /\ \A a \in Axes : /\ Reached(which)[a].at = servos[a].at
                            /\ IF <<a, "torque">> \in Those(commands, which)
                               THEN Reached(which)[a].torque = torque
                               ELSE Reached(which)[a].torque = servos[a].torque
    BY DEF Carried, Servos
  <2>2. \A a \in Axes : <<a, "torque">> \in Those(commands, which) =>
          \E i \in all : commands[i] = <<a, "torque">>
    BY DEF Those
  <2> HIDE DEF Reached, all
  <2> QED
    BY <1>2, <2>1, <2>2
<1> HIDE DEF Reached
<1>3. CASE ready' = TRUE /\ servos' = Reached(all) /\ UNCHANGED <<left, lost>>
  BY <1>2, <1>3 DEF Reached
<1>4. CASE \E done \in 0 .. Len(commands) - 1 :
             Spend("faults") /\ ready' = FALSE /\ servos' = Reached(1 .. done) /\ UNCHANGED lost
  <2>1. PICK done \in 0 .. Len(commands) - 1 :
          Spend("faults") /\ ready' = FALSE /\ servos' = Reached(1 .. done) /\ UNCHANGED lost
    BY <1>4
  <2>2. 1 .. done \in SUBSET all /\ left' \in Room
    BY <2>1, SpendType
  <2> QED
    BY <1>2, <2>1, <2>2 DEF Reached
<1>5. CASE \E missing \in all :
             /\ Spend("losses") /\ ready' = TRUE /\ lost' = TRUE
             /\ servos' = Reached(all \ {missing})
  <2>1. PICK missing \in all : /\ Spend("losses") /\ ready' = TRUE /\ lost' = TRUE
                               /\ servos' = Reached(all \ {missing})
    BY <1>5
  <2>2. all \ {missing} \in SUBSET all
    OBVIOUS
  <2>3. left' \in Room /\ left'["losses"] # left["losses"]
    BY <2>1, SpendType
  <2> QED
    BY <1>2, <2>1, <2>2, <2>3
<1> QED
  BY <1>1, <1>3, <1>4, <1>5

(* The positions of the servos are numbers.                                *)
LEMMA PositionType == servos \in Servos => Position \in [Axes -> Nat]
  BY DEF Position, Servos

(* The goals leave the torque as it is.                                    *)
LEMMA TurnParts ==
  ASSUME servos \in Servos, left \in Room, lost \in BOOLEAN, NEW goal \in [Axes -> Nat],
         Turn(goal)
  PROVE  /\ ready' \in BOOLEAN /\ servos' \in Servos /\ left' \in Room /\ lost' \in BOOLEAN
         /\ \A a \in Axes : servos'[a].torque = servos[a].torque
         /\ lost => lost'
<1>1. Len(Goals) = 2 /\ \A i \in 1 .. 2, a \in Axes : Goals[i] # <<a, "torque">>
  BY DEF Goals
<1>2. Len(Goals) \in Nat /\ TRUE \in BOOLEAN
  BY <1>1
<1>s. Send(Goals, goal, TRUE)
  BY Zenon DEF Turn
<1>3. /\ ready' \in BOOLEAN /\ servos' \in Servos /\ left' \in Room /\ lost' \in BOOLEAN
      /\ lost => lost'
  BY <1>2, <1>s, SendParts
<1>4. \A a \in Axes :
        servos'[a].torque # servos[a].torque => \E i \in 1 .. Len(Goals) : Goals[i] = <<a, "torque">>
  BY <1>2, <1>s, SendParts
<1> QED
  BY <1>1, <1>3, <1>4

(* To let go switches the torque off, of both unless the command is lost.  *)
LEMMA LetGoParts ==
  ASSUME servos \in Servos, left \in Room, lost \in BOOLEAN, LetGo
  PROVE  /\ ready' \in BOOLEAN /\ servos' \in Servos /\ left' \in Room /\ lost' \in BOOLEAN
         /\ \A a \in Axes : servos'[a].torque => servos[a].torque
         /\ lost => lost'
         /\ ready' => (\A a \in Axes : ~servos'[a].torque)
                        \/ (lost' /\ left'["losses"] # left["losses"])
<1>1. Len(Torques) = 2 /\ Torques[1] = <<"x", "torque">> /\ Torques[2] = <<"y", "torque">>
  BY DEF Torques
<1>2. \A a \in Axes : <<a, "torque">> \in Those(Torques, 1 .. Len(Torques))
  BY <1>1 DEF Axes, Those
<1>3. Position \in [Axes -> Nat] /\ Len(Torques) \in Nat /\ FALSE \in BOOLEAN
  BY <1>1, PositionType
<1>4. Send(Torques, Position, FALSE)
  BY Zenon DEF LetGo
<1>5. /\ ready' \in BOOLEAN /\ servos' \in Servos /\ left' \in Room /\ lost' \in BOOLEAN
      /\ lost => lost'
  BY <1>3, <1>4, SendParts
<1>6. \A a \in Axes : servos'[a].torque # servos[a].torque => servos'[a].torque = FALSE
  BY <1>3, <1>4, SendParts
<1>7. \/ servos' = Carried(Those(Torques, 1 .. Len(Torques)), Position, FALSE)
      \/ ~ready'
      \/ lost' /\ left'["losses"] # left["losses"]
  BY <1>3, <1>4, SendParts
<1>8. servos' = Carried(Those(Torques, 1 .. Len(Torques)), Position, FALSE) =>
        \A a \in Axes : ~servos'[a].torque
  BY <1>2, <1>3 DEF Carried, Servos
<1> QED
  BY <1>5, <1>6, <1>7, <1>8

(* The goals are written before the torque comes on.                       *)
LEMMA HoldParts ==
  ASSUME servos \in Servos, left \in Room, lost \in BOOLEAN, Hold
  PROVE  /\ ready' \in BOOLEAN /\ servos' \in Servos /\ left' \in Room /\ lost' \in BOOLEAN
         /\ lost => lost'
         /\ \A a \in Axes : ~servos[a].torque /\ servos'[a].torque /\ ~lost' =>
              servos'[a].goal = servos[a].at
<1> DEFINE all == Goals \o Torques
<1>1. /\ Len(all) = 4 /\ all[1] = <<"x", "goal">> /\ all[2] = <<"y", "goal">>
      /\ all[3] = <<"x", "torque">> /\ all[4] = <<"y", "torque">>
  BY DEF Goals, Torques
<1>2. Position \in [Axes -> Nat] /\ \A a \in Axes : Position[a] = servos[a].at
  BY PositionType DEF Position
<1>3. Send(all, Position, TRUE)
  BY Zenon DEF Hold
<1> HIDE DEF all
<1>a. Len(all) \in Nat /\ TRUE \in BOOLEAN
  BY <1>1
<1>4. /\ ready' \in BOOLEAN /\ servos' \in Servos /\ left' \in Room /\ lost' \in BOOLEAN
      /\ lost => lost'
  BY <1>a, <1>2, <1>3, SendParts
<1>5. \/ servos' = Carried(Those(all, 1 .. Len(all)), Position, TRUE)
      \/ \E done \in 0 .. Len(all) - 1 : servos' = Carried(Those(all, 1 .. done), Position, TRUE)
      \/ lost'
  BY <1>a, <1>2, <1>3, SendParts
<1>6. ASSUME NEW done \in 0 .. 4, servos' = Carried(Those(all, 1 .. done), Position, TRUE),
             NEW a \in Axes, ~servos[a].torque, servos'[a].torque
      PROVE  servos'[a].goal = servos[a].at
  <2>1. <<a, "torque">> \in Those(all, 1 .. done)
    BY <1>6 DEF Carried, Servos
  <2>2. PICK i \in 1 .. done : all[i] = <<a, "torque">>
    BY <2>1 DEF Those
  <2>3. done \in {3, 4}
    BY <1>1, <2>2
  <2>4. <<a, "goal">> \in Those(all, 1 .. done)
    BY <1>1, <2>3 DEF Axes, Those
  <2> QED
    BY <1>2, <1>6, <2>4 DEF Carried, Servos
<1>7. lost' \/ \E done \in 0 .. 4 : servos' = Carried(Those(all, 1 .. done), Position, TRUE)
  <2>1. CASE servos' = Carried(Those(all, 1 .. Len(all)), Position, TRUE)
    <3>1. Len(all) \in 0 .. 4
      BY <1>1
    <3> QED
      BY <2>1, <3>1
  <2>2. CASE \E done \in 0 .. Len(all) - 1 : servos' = Carried(Those(all, 1 .. done), Position, TRUE)
    <3>1. 0 .. Len(all) - 1 \subseteq 0 .. 4
      BY <1>1
    <3> QED
      BY <2>2, <3>1
  <2> QED
    BY <1>5, <2>1, <2>2
<1> QED
  BY <1>4, <1>6, <1>7

-----------------------------------------------------------------------------
(* Positions and the start.                                                *)

(* The intervals of the servos, with their bounds.                         *)
LEMMA Intervals ==
  /\ Never \notin Nat
  /\ Step \in Nat \ {0} /\ Gap \in Nat \ {0} /\ ReleaseAfter \in Nat \ {0}
  /\ ProbeEvery \in Nat \ {0} /\ IdleEvery \in Nat \ {0} /\ Gap <= ReleaseAfter
  BY BodyAssumption

(* The aims of the head are positions.                                     *)
LEMMA Aims ==
  /\ Neutral \in [Axes -> Nat]
  /\ Targets \subseteq [at : [Axes -> Nat], neutral : BOOLEAN, trimmed : BOOLEAN]
  BY BodyAssumption

(* A step towards an aim ends at a position.                               *)
LEMMA StepFromType ==
  ASSUME target \in [at : [Axes -> Nat], neutral : BOOLEAN, trimmed : BOOLEAN],
         NEW at \in [Axes -> Nat]
  PROVE  StepFrom(at) \in [Axes -> Nat]
<1>1. \A m, n \in Nat : StepPosition(m, n) \in Nat
  BY Intervals DEF StepPosition, Least, Most
<1>2. target.at \in [Axes -> Nat]
  OBVIOUS
<1> QED
  BY <1>1, <1>2 DEF StepFrom

(* Servos made slack are servos.                                           *)
LEMMA SlackType == servos \in Servos => Slack(servos) \in Servos
  BY DEF Slack, Servos

(* And none of them has its torque on.                                     *)
LEMMA SlackParts ==
  servos \in Servos => \A a \in Axes : ~Slack(servos)[a].torque
  BY DEF Slack, Servos

(* The time that is left, as numbers: it lasts when the head has just been *)
(* moved, and a tick takes from it what it adds to the time held.          *)
SinceTimes == {Never} \cup 0 .. ReleaseAfter

(* A command just sent is in time.                                         *)
LEMMA FreshTime ==
  ASSUME NEW i \in 0 .. IdleEvery, NEW s \in SinceTimes
  PROVE  InTime(0, i, s)
  BY Intervals DEF InTime, Bounded, SinceTimes

(* What is in time was not held for too long.                              *)
LEMMA TimeBound ==
  ASSUME NEW n \in Nat, NEW i \in 0 .. IdleEvery, NEW s \in SinceTimes, InTime(n, i, s)
  PROVE  Bounded(n)
  BY Intervals DEF InTime, Bounded, SinceTimes

(* A tick keeps the time within its bound.                                 *)
LEMMA TimePasses ==
  ASSUME NEW n \in Nat, NEW i \in 0 .. IdleEvery, NEW s \in SinceTimes, InTime(n, i, s),
         ~DueAt(i, s) \/ n = 0
  PROVE  InTime(Least(n + 1, ReleaseAfter + IdleEvery + 2), Sooner(i),
                IF s = Never THEN Never ELSE Least(s + 1, ReleaseAfter))
<1> DEFINE t == IF s = Never THEN Never ELSE Least(s + 1, ReleaseAfter)
           m == Least(n + 1, ReleaseAfter + IdleEvery + 2)
           j == Sooner(i)
<1>1. m \in Nat /\ m <= n + 1
  BY Intervals DEF Least
<1>2. j \in Nat /\ (i = 0 => j = 0) /\ (i # 0 => j = i - 1)
  BY DEF Sooner
<1>3. /\ s = Never => t = Never
      /\ s # Never => /\ s \in Nat /\ t \in Nat /\ t # Never /\ t <= ReleaseAfter
                      /\ s >= ReleaseAfter => t = ReleaseAfter
                      /\ s < ReleaseAfter => t = s + 1
  BY Intervals DEF Least, SinceTimes
<1>4. i \in Nat /\ i <= IdleEvery /\ ReleaseAfter \in Nat \ {0} /\ IdleEvery \in Nat \ {0}
  BY Intervals
<1> HIDE DEF m, j, t
<1>5. Bounded(m + j)
  <2>1. CASE i # 0
    <3>1. m + j <= n + i /\ m + j \in Int /\ n + i \in Int
      BY <1>1, <1>2, <1>4, <2>1
    <3> QED
      BY <1>4, <3>1 DEF InTime, Bounded
  <2>2. CASE i = 0 /\ n = 0
    BY <1>1, <1>2, <1>4, <2>2 DEF Bounded
  <2>3. CASE i = 0 /\ ~DueAt(i, s)
    <3>1. s # Never /\ s \in Nat /\ s < ReleaseAfter
      BY <1>3, <1>4, <2>3 DEF DueAt
    <3>2. m + j <= n + (ReleaseAfter - s) /\ m + j \in Int /\ n + (ReleaseAfter - s) \in Int
      BY <1>1, <1>2, <1>4, <2>3, <3>1
    <3> QED
      BY <1>4, <3>1, <3>2 DEF InTime, Bounded
  <2> QED
    BY <2>1, <2>2, <2>3
<1>6. ASSUME t # Never PROVE Bounded(m + (ReleaseAfter - t))
  <2>1. s # Never /\ s \in Nat /\ t \in Nat
    BY <1>3, <1>6
  <2>2. CASE s < ReleaseAfter
    <3>1. m + (ReleaseAfter - t) <= n + (ReleaseAfter - s)
      BY <1>1, <1>3, <1>4, <2>1, <2>2
    <3>2. m + (ReleaseAfter - t) \in Int /\ n + (ReleaseAfter - s) \in Int
      BY <1>1, <1>4, <2>1
    <3> QED
      BY <1>4, <2>1, <3>1, <3>2 DEF InTime, Bounded
  <2>3. CASE s >= ReleaseAfter
    <3>1. m + (ReleaseAfter - t) <= n + 1 /\ (i # 0 => n + 1 <= n + i)
      BY <1>1, <1>3, <1>4, <2>1, <2>3
    <3>2. i # 0 \/ n = 0
      BY <2>1, <2>3 DEF DueAt
    <3>3. m + (ReleaseAfter - t) \in Int
      BY <1>1, <1>4, <2>1
    <3>4. CASE i # 0
      BY <1>4, <3>1, <3>3, <3>4 DEF InTime, Bounded
    <3>5. CASE n = 0
      BY <1>4, <3>1, <3>3, <3>5 DEF Bounded
    <3> QED
      BY <3>2, <3>4, <3>5
  <2> QED
    BY <1>4, <2>1, <2>2, <2>3
<1> QED
  BY <1>5, <1>6 DEF InTime, m, j, t

(* The timers lie within their intervals.                                  *)
LEMMA Times ==
  /\ BodyTypeOK => idleIn \in 0 .. IdleEvery /\ since \in SinceTimes
  /\ BodyTypeOK' => idleIn' \in 0 .. IdleEvery /\ since' \in SinceTimes
<1>1. BodyTypeOK => idleIn \in 0 .. IdleEvery /\ since \in SinceTimes
  BY Intervals DEF BodyTypeOK, SinceTimes
<1>2. BodyTypeOK' => idleIn' \in 0 .. IdleEvery /\ since' \in SinceTimes
  BY Intervals DEF BodyTypeOK, SinceTimes
<1> QED
  BY <1>1, <1>2

(* Servos that were just held are in time.                                 *)
LEMMA JustHeld == BodyTypeOK' /\ held' = 0 => InTime(held', idleIn', since')
  BY Times, FreshTime

(* At the start no torque is on.                                           *)
LEMMA BodyInitInv == BodyInit => BodyInv
<1> SUFFICES ASSUME BodyInit PROVE BodyInv
  OBVIOUS
<1>1. servos \in Servos
  <2>1. {Neutral[a] : a \in Axes} \subseteq Nat /\ Places \subseteq Nat
    BY Aims, BodyAssumption
  <2>2. servos \in [Axes -> [at : {Neutral[a] : a \in Axes}, goal : Places, torque : {FALSE}]]
    BY DEF BodyInit
  <2> QED
    BY <2>1, <2>2 DEF Servos
<1>2. left \in Room
  BY BodyAssumption DEF BodyInit, Room
<1>a. /\ [at |-> Neutral, neutral |-> TRUE, trimmed |-> FALSE]
            \in [at : [Axes -> Nat], neutral : BOOLEAN, trimmed : BOOLEAN]
      /\ 0 <= IdleEvery
  BY Aims, Intervals
<1>3. BodyTypeOK
  BY <1>1, <1>2, <1>a, Aims DEF BodyInit, BodyTypeOK, Phases
<1>4. PowerCut /\ Believed /\ OnTime /\ MadeGood
  BY DEF BodyInit, PowerCut, Believed, OnTime, MadeGood, Running
<1> QED
  BY <1>3, <1>4 DEF BodyInv

\* No torque comes on with a goal that is not where the head is.
JumpFree ==
  \A a \in Axes : ~servos[a].torque /\ servos'[a].torque /\ ~lost' =>
    servos'[a].goal = servos[a].at

\* No torque comes on.
NoneComesOn == \A a \in Axes : servos'[a].torque => servos[a].torque

(* Where no torque comes on, no head jumps.                                *)
LEMMA NoneJumps == NoneComesOn => JumpFree
  BY DEF NoneComesOn, JumpFree

(* The start of the actuator.                                              *)
LEMMA StartInv == BodyInv /\ Start => BodyInv' /\ NoneComesOn
<1> SUFFICES ASSUME BodyInv, Start PROVE BodyInv' /\ NoneComesOn
  OBVIOUS
<1>1. /\ servos \in Servos /\ left \in Room /\ lost \in BOOLEAN /\ powered \in BOOLEAN
  BY DEF BodyInv, BodyTypeOK, Room
<1>2. /\ ready' \in BOOLEAN /\ powered' \in BOOLEAN /\ stuck' \in BOOLEAN /\ lost' \in BOOLEAN
      /\ lost => lost'
      /\ ~ready' => ~powered' \/ stuck'
  <2>1. ready' \in BOOLEAN /\ powered' \in BOOLEAN /\ lost' \in BOOLEAN /\ (lost => lost')
    BY <1>1 DEF Start
  <2>2. stuck' \in BOOLEAN
    BY <2>1 DEF Start
  <2>3. ready' \/ stuck' = powered' \/ powered' = FALSE \/ stuck' = TRUE
    BY DEF Start
  <2> QED
    BY <2>1, <2>2, <2>3
<1>3. left' \in Room
  <2>1. left["faults"] >= 2 /\ left' = [left EXCEPT !["faults"] = @ - 2] => left' \in Room
    BY <1>1 DEF Room
  <2> QED
    BY <1>1, <2>1, SpendType DEF Start
<1>4. /\ servos' \in Servos /\ NoneComesOn
      /\ ready' /\ ~lost' => \A a \in Axes : ~servos'[a].torque
  <2>1. Slack(servos) \in Servos /\ \A a \in Axes : ~Slack(servos)[a].torque
    BY <1>1, SlackType, SlackParts
  <2>2. \/ servos' = servos /\ ~ready'
        \/ servos' = Slack(servos)
        \/ \E a \in Axes : servos' = [Slack(servos) EXCEPT ![a] = servos[a]] /\ (~ready' \/ lost')
    BY DEF Start
  <2>3. CASE servos' = servos /\ ~ready'
    BY <1>1, <2>3 DEF NoneComesOn
  <2>4. CASE servos' = Slack(servos)
    BY <2>1, <2>4 DEF NoneComesOn
  <2>5. CASE \E a \in Axes : servos' = [Slack(servos) EXCEPT ![a] = servos[a]] /\ (~ready' \/ lost')
    BY <1>1, <2>1, <2>5 DEF NoneComesOn, Servos
  <2> QED
    BY <2>2, <2>3, <2>4, <2>5
<1>5. /\ phase' = "tick" /\ target' = [at |-> Neutral, neutral |-> TRUE, trimmed |-> FALSE]
      /\ known' = FALSE /\ on' = FALSE /\ last' = Neutral /\ since' = Never
      /\ probeIn' = 0 /\ idleIn' = 0 /\ held' = 0
  BY DEF Start
<1>a. /\ [at |-> Neutral, neutral |-> TRUE, trimmed |-> FALSE]
            \in [at : [Axes -> Nat], neutral : BOOLEAN, trimmed : BOOLEAN]
      /\ 0 <= IdleEvery
  BY Aims, Intervals
<1>6. BodyTypeOK'
  BY <1>2, <1>3, <1>4, <1>5, <1>a, Aims DEF BodyTypeOK, Phases
<1>7. PowerCut'
  BY <1>2 DEF PowerCut
<1>8. Believed' /\ OnTime'
  BY <1>4, <1>5 DEF Believed, OnTime, Running, Torqued
<1>9. MadeGood'
  BY <1>5, <1>6, JustHeld DEF MadeGood
<1> QED
  BY <1>4, <1>6, <1>7, <1>8, <1>9 DEF BodyInv

(* A reset of the firmware leaves the servos as they are.                  *)
LEMMA ResetInv == BodyInv /\ Reset => BodyInv' /\ NoneComesOn
<1> SUFFICES ASSUME BodyInv, Reset PROVE BodyInv' /\ NoneComesOn
  OBVIOUS
<1>1. left' \in Room
  BY SpendType DEF BodyInv, BodyTypeOK, Reset, Room
<1>2. BodyTypeOK'
  BY <1>1 DEF BodyInv, BodyTypeOK, Reset, Phases, firmware, Room
<1>3. (PowerCut /\ Believed /\ OnTime /\ MadeGood)'
  BY DEF Reset, PowerCut, Believed, OnTime, MadeGood, Running
<1>4. NoneComesOn
  BY DEF Reset, NoneComesOn
<1> QED
  BY <1>2, <1>3, <1>4 DEF BodyInv

-----------------------------------------------------------------------------
(* A turn of the loop.                                                     *)

(* A tick: time passes, and servos with torque turn.                       *)
LEMMA TickInv == BodyInv /\ Tick => BodyInv' /\ NoneComesOn
<1> SUFFICES ASSUME BodyInv, Tick PROVE BodyInv' /\ NoneComesOn
  OBVIOUS
<1>1. BodyTypeOK /\ PowerCut /\ Believed /\ OnTime /\ MadeGood
  BY DEF BodyInv
<1>2. /\ phase = "tick" /\ phase' = "probe"
      /\ UNCHANGED <<ready, known, on, last, powered, lost, stuck>>
      /\ since' = IF since = Never THEN Never ELSE Least(since + 1, ReleaseAfter)
      /\ probeIn' = Sooner(probeIn) /\ idleIn' = Sooner(idleIn)
      /\ held' = IF Moving THEN 0 ELSE Least(held + 1, ReleaseAfter + IdleEvery + 2)
  BY DEF Tick
<1>3. target' \in [at : [Axes -> Nat], neutral : BOOLEAN, trimmed : BOOLEAN] /\ left' \in Room
  <2>1. target' = target \/ target' \in Targets
    BY DEF Tick
  <2>2. left' = left \/ Spend("targets")
    BY DEF Tick
  <2> QED
    BY <1>1, <2>1, <2>2, Aims, SpendType DEF BodyTypeOK
<1>4. servos' \in Servos /\ \A a \in Axes : servos'[a].torque = servos[a].torque
  <2>1. PICK turned \in SUBSET {a \in Axes : powered /\ servos[a].torque} :
          servos' = [a \in Axes |-> IF a \in turned THEN [servos[a] EXCEPT !.at = @ +
                                      (IF servos[a].goal >= @ THEN Least(Step, servos[a].goal - @)
                                       ELSE -Least(Step, @ - servos[a].goal))]
                                    ELSE servos[a]]
    BY DEF Tick
  <2>2. \A m, n \in Nat :
          m + (IF n >= m THEN Least(Step, n - m) ELSE -Least(Step, m - n)) \in Nat
    BY Intervals DEF Least
  <2>3. servos \in Servos
    BY <1>1 DEF BodyTypeOK
  <2>4. \A a \in Axes :
          servos[a].at + (IF servos[a].goal >= servos[a].at
                          THEN Least(Step, servos[a].goal - servos[a].at)
                          ELSE -Least(Step, servos[a].at - servos[a].goal)) \in Nat
    BY <2>2, <2>3 DEF Servos
  <2> QED
    BY <2>1, <2>3, <2>4 DEF Servos
<1>5. BodyTypeOK'
  <2>1. /\ since' \in Nat \cup {Never} /\ (since' # Never => since' <= ReleaseAfter)
    <3>1. \A s \in Nat : Least(s + 1, ReleaseAfter) \in Nat /\ Least(s + 1, ReleaseAfter) <= ReleaseAfter
      BY Intervals DEF Least
    <3> QED
      BY <1>1, <1>2, <3>1 DEF BodyTypeOK
  <2>2. probeIn' \in Nat /\ idleIn' \in Nat /\ idleIn' <= IdleEvery
    <3>1. \A n \in Nat : Sooner(n) \in Nat /\ \A m \in Nat : n <= m => Sooner(n) <= m
      BY DEF Sooner
    <3> QED
      BY <1>1, <1>2, <3>1, Intervals DEF BodyTypeOK
  <2>3. held' \in Nat
    BY <1>1, <1>2, Intervals DEF BodyTypeOK, Least
  <2> QED
    BY <1>1, <1>2, <1>3, <1>4, <2>1, <2>2, <2>3 DEF BodyTypeOK, Phases
<1>6. PowerCut'
  BY <1>2 DEF PowerCut
<1>7. Believed'
  <2>1. since = Never <=> since' = Never
    <3>1. \A s \in Nat : Least(s + 1, ReleaseAfter) \in Nat
      BY Intervals DEF Least
    <3> QED
      BY <1>1, <1>2, <3>1, Intervals DEF BodyTypeOK
  <2> QED
    BY <1>1, <1>2, <1>4, <2>1 DEF Believed, Running, Torqued
<1>8. OnTime'
  <2> SUFFICES ASSUME ready, on, ~lost PROVE held' <= since'
    BY <1>2 DEF OnTime, Running
  <2>1. since \in Nat /\ since <= ReleaseAfter /\ held <= since /\ since < ReleaseAfter /\ held \in Nat
    BY <1>1, <1>2 DEF BodyTypeOK, OnTime, Believed, Running
  <2>2. held' = Least(held + 1, ReleaseAfter + IdleEvery + 2) /\ since' = Least(since + 1, ReleaseAfter)
    BY <1>2, <2>1, Intervals DEF Moving
  <2>3. Least(held + 1, ReleaseAfter + IdleEvery + 2) <= Least(since + 1, ReleaseAfter)
    BY <2>1, Intervals DEF Least
  <2> QED
    BY <2>2, <2>3
<1>9. MadeGood'
  <2> SUFFICES ASSUME ready, lost, Torqued PROVE InTime(held', idleIn', since')
    BY <1>2, <1>4 DEF MadeGood, Running, Torqued
  <2>1. CASE Moving
    BY <1>2, <1>5, <2>1, JustHeld
  <2>2. CASE ~Moving
    <3>1. target.neutral /\ last = target.at
      BY <1>1, <2>2 DEF Moving, BodyTypeOK
    <3>2. InTime(held, idleIn, since) /\ (~DueAt(idleIn, since) \/ held = 0)
      BY <1>1, <1>2, <3>1 DEF MadeGood, Running, Away
    <3>3. held \in Nat /\ idleIn \in 0 .. IdleEvery /\ since \in SinceTimes
      BY <1>1, Times DEF BodyTypeOK
    <3> QED
      BY <1>2, <2>2, <3>2, <3>3, TimePasses
  <2> QED
    BY <2>1, <2>2
<1> QED
  BY <1>4, <1>5, <1>6, <1>7, <1>8, <1>9 DEF BodyInv, NoneComesOn

(* A hand turns a servo that is slack.                                     *)
LEMMA HandInv == BodyInv /\ Hand => BodyInv' /\ NoneComesOn
<1> SUFFICES ASSUME BodyInv, Hand PROVE BodyInv' /\ NoneComesOn
  OBVIOUS
<1>1. /\ UNCHANGED <<phase, firmware, powered, lost, stuck, held>> /\ Spend("hands")
      /\ BodyTypeOK /\ PowerCut /\ Believed /\ OnTime /\ MadeGood
  BY DEF BodyInv, Hand
<1>2. servos' \in Servos /\ \A a \in Axes : servos'[a].torque = servos[a].torque
  <2>1. PICK a \in Axes, p \in Places : servos' = [servos EXCEPT ![a].at = p]
    BY DEF Hand
  <2>2. p \in Nat /\ servos \in Servos
    BY <1>1, BodyAssumption DEF BodyTypeOK
  <2> QED
    BY <2>1, <2>2 DEF Servos
<1>3. left' \in Room
  BY <1>1, SpendType DEF BodyTypeOK
<1>4. BodyTypeOK'
  BY <1>1, <1>2, <1>3 DEF BodyTypeOK, firmware
<1>5. PowerCut' /\ OnTime'
  BY <1>1 DEF PowerCut, OnTime, Running, firmware
<1>6. Believed'
  BY <1>1, <1>2 DEF Believed, Running, Torqued, firmware
<1>7. MadeGood'
  BY <1>1, <1>2 DEF MadeGood, Running, Torqued, Away, firmware
<1> QED
  BY <1>2, <1>4, <1>5, <1>6, <1>7 DEF BodyInv, NoneComesOn

(* A position that was found comes at a time when the torque is off.       *)
LEMMA ProbeInv == BodyInv /\ Probe => BodyInv' /\ NoneComesOn
<1> SUFFICES ASSUME BodyInv, Probe PROVE BodyInv' /\ NoneComesOn
  OBVIOUS
<1>1. /\ phase = "probe" /\ phase' = "move"
      /\ UNCHANGED <<target, on, since, idleIn, servos, powered, lost, stuck, held>>
      /\ BodyTypeOK /\ Believed /\ OnTime /\ MadeGood
  BY DEF BodyInv, Probe
<1>2. /\ ready' \in BOOLEAN /\ (ready' => ready)
      /\ known' \in BOOLEAN /\ (known => known')
      /\ last' = last \/ last' = Position
      /\ probeIn' \in Nat
  <2>1. ready' \in BOOLEAN /\ (ready' => ready)
    <3>1. ready' = ready \/ (ready /\ ready' = FALSE)
      BY DEF Probe
    <3>2. ready \in BOOLEAN
      BY <1>1 DEF BodyTypeOK
    <3>3. CASE ready' = ready
      BY <3>2, <3>3
    <3>4. CASE ready' = FALSE
      BY <3>4
    <3> QED
      BY <3>1, <3>3, <3>4
  <2>2. known' \in BOOLEAN /\ (known => known')
    BY <1>1 DEF Probe, BodyTypeOK
  <2>3. last' = last \/ last' = Position
    BY DEF Probe
  <2>4. probeIn' = probeIn \/ probeIn' = ProbeEvery
    BY DEF Probe
  <2> QED
    BY <1>1, <2>1, <2>2, <2>3, <2>4, Intervals DEF BodyTypeOK
<1>3. left' \in Room
  BY <1>1, SpendType DEF Probe, BodyTypeOK
<1>4. BodyTypeOK'
  BY <1>1, <1>2, <1>3, PositionType DEF BodyTypeOK, Phases
<1>5. PowerCut'
  BY <1>1 DEF PowerCut
<1>6. Believed' /\ OnTime'
  BY <1>1, <1>2 DEF Believed, OnTime, Running, Torqued
<1>7. MadeGood'
  BY <1>1, <1>2 DEF MadeGood, Running, Torqued
<1>8. NoneComesOn
  BY <1>1 DEF NoneComesOn
<1> QED
  BY <1>4, <1>5, <1>6, <1>7, <1>8 DEF BodyInv

(* A step of the servos: from here the release is due ReleaseAfter later.  *)
LEMMA StepOnInv ==
  ASSUME BodyInv, StepOn, phase # "boot", phase' = "idle",
         UNCHANGED <<target, known, probeIn, idleIn, powered, stuck>>
  PROVE  BodyInv' /\ NoneComesOn
<1>1. /\ ready /\ on /\ Turn(StepFrom(last)) /\ held' = 0 /\ on' = on
      /\ ready' => last' = StepFrom(last) /\ since' = 0
      /\ ~ready' => last' = last /\ since' = since
      /\ BodyTypeOK /\ Believed
  BY DEF BodyInv, StepOn
<1>2. StepFrom(last) \in [Axes -> Nat]
  BY <1>1, StepFromType DEF BodyTypeOK
<1>3. servos \in Servos /\ left \in Room /\ lost \in BOOLEAN
  BY <1>1 DEF BodyTypeOK
<1>4. /\ ready' \in BOOLEAN /\ servos' \in Servos /\ left' \in Room /\ lost' \in BOOLEAN
      /\ \A a \in Axes : servos'[a].torque = servos[a].torque
      /\ lost => lost'
  BY <1>1, <1>2, <1>3, TurnParts
<1>5. BodyTypeOK'
  BY <1>1, <1>2, <1>4, Intervals DEF BodyTypeOK, Phases
<1>6. PowerCut'
  BY DEF PowerCut
<1>7. Believed'
  <2>1. ready' => since' # Never
    BY <1>1, Intervals
  <2> QED
    BY <1>1, <2>1 DEF Believed, Running
<1>8. OnTime'
  <2>1. ready' => held' <= since' /\ since' < ReleaseAfter
    BY <1>1, Intervals
  <2> QED
    BY <2>1 DEF OnTime, Running
<1>9. MadeGood'
  BY <1>1, <1>5, JustHeld DEF MadeGood
<1> QED
  BY <1>4, <1>5, <1>6, <1>7, <1>8, <1>9 DEF BodyInv, NoneComesOn

(* A hold where the head is.                                               *)
LEMMA HoldHereInv ==
  ASSUME BodyInv, HoldHere, ready, known, phase' = "step",
         UNCHANGED <<target, known, probeIn, idleIn, powered, stuck>>
  PROVE  BodyInv' /\ JumpFree
<1>1. Hold /\ on' = ready' /\ last' = Position /\ held' = 0 /\ UNCHANGED since /\ BodyTypeOK
  BY DEF BodyInv, HoldHere
<1>2. servos \in Servos /\ left \in Room /\ lost \in BOOLEAN
  BY <1>1 DEF BodyTypeOK
<1>3. /\ ready' \in BOOLEAN /\ servos' \in Servos /\ left' \in Room /\ lost' \in BOOLEAN
      /\ JumpFree
  BY <1>1, <1>2, HoldParts DEF JumpFree
<1>4. Position \in [Axes -> Nat]
  BY <1>2, PositionType
<1>5. BodyTypeOK'
  BY <1>1, <1>3, <1>4 DEF BodyTypeOK, Phases
<1>6. PowerCut' /\ OnTime' /\ MadeGood'
  BY DEF PowerCut, OnTime, MadeGood
<1>7. Believed'
  <2>1. ready' => on'
    BY <1>1, <1>3
  <2> QED
    BY <1>1, <2>1 DEF Believed, Running
<1> QED
  BY <1>3, <1>5, <1>6, <1>7 DEF BodyInv

(* Nothing is sent: a torque that is on is not due yet.                    *)
LEMMA UnmovedInv ==
  ASSUME BodyInv, phase = "move", phase' = "idle",
         UNCHANGED <<target, known, probeIn, idleIn, powered, stuck, ready, on, servos, lost, held>>,
         \/ UNCHANGED <<last, since, left>> /\ ~(ready /\ known /\ (MoveDue \/ ReleaseDue))
         \/ AlreadyThere
         \/ Unreadable
  PROVE  BodyInv' /\ NoneComesOn
<1>1. BodyTypeOK /\ Believed /\ OnTime /\ MadeGood
  BY DEF BodyInv
<1>2. /\ last' = last \/ last' = Position
      /\ since' = since \/ (since' = 0 /\ last # target.at /\ last' = last)
      /\ ~on \/ (since' = since /\ ~(ready /\ known /\ (MoveDue \/ ReleaseDue)))
  BY DEF AlreadyThere, Unreadable, MoveDue
<1>3. left' \in Room
  BY <1>1, SpendType DEF BodyTypeOK, AlreadyThere, Unreadable
<1>4. BodyTypeOK'
  BY <1>1, <1>2, <1>3, PositionType, Intervals DEF BodyTypeOK, Phases
<1>5. PowerCut'
  BY DEF PowerCut
<1>6. Believed'
  BY <1>1, <1>2 DEF Believed, Running, Torqued
<1>7. OnTime'
  <2> SUFFICES ASSUME ready, on, ~lost PROVE held' <= since' /\ since' < ReleaseAfter
    BY DEF OnTime, Running
  <2>1. since' = since /\ known /\ ~MoveDue /\ ~ReleaseDue
    BY <1>1, <1>2 DEF Believed, Running
  <2>2. since \in Nat /\ since # Never /\ held <= since
    BY <1>1, Intervals DEF BodyTypeOK, Believed, OnTime, Running
  <2>3. since < ReleaseAfter
    BY <2>1, <2>2, Intervals DEF MoveDue, ReleaseDue
  <2> QED
    BY <2>1, <2>2, <2>3
<1>8. MadeGood'
  <2> SUFFICES ASSUME ready, lost, Torqued
               PROVE  \/ InTime(held', idleIn', since')
                      \/ Away' /\ Bounded(held')
    BY DEF MadeGood, Running, Torqued
  <2>1. InTime(held, idleIn, since)
    BY <1>1 DEF MadeGood, Running
  <2>2. held \in Nat /\ idleIn \in 0 .. IdleEvery /\ since \in SinceTimes
    BY <1>1, Times DEF BodyTypeOK
  <2>3. Bounded(held)
    BY <2>1, <2>2, TimeBound
  <2> QED
    BY <1>2, <2>1, <2>3 DEF Away
<1>9. NoneComesOn
  BY DEF NoneComesOn
<1> QED
  BY <1>4, <1>5, <1>6, <1>7, <1>8, <1>9 DEF BodyInv

(* To let go: of a servo that may be left a command was lost just now.     *)
LEMMA LetGoInv ==
  ASSUME BodyInv, LetGo, HeldAfterAll, on' = FALSE,
         \/ phase = "move" /\ phase' = "idle" /\ idleIn' = idleIn
         \/ phase = "idle" /\ phase' = "end" /\ idleIn' = IdleEvery,
         UNCHANGED <<target, known, last, since, probeIn, powered, stuck>>
  PROVE  BodyInv' /\ NoneComesOn
<1>1. servos \in Servos /\ left \in Room /\ lost \in BOOLEAN /\ BodyTypeOK
  BY DEF BodyInv, BodyTypeOK
<1>2. /\ ready' \in BOOLEAN /\ servos' \in Servos /\ left' \in Room /\ lost' \in BOOLEAN
      /\ NoneComesOn
      /\ ready' => (\A a \in Axes : ~servos'[a].torque) \/ (lost' /\ left'["losses"] # left["losses"])
  BY <1>1, LetGoParts DEF NoneComesOn
<1>3. (held' = held \/ held' = 0) /\ phase' \in Phases
  BY DEF HeldAfterAll, Phases
<1>a. idleIn' \in Nat /\ idleIn' <= IdleEvery /\ held' \in Nat
  <2>1. idleIn' = idleIn \/ idleIn' = IdleEvery
    OBVIOUS
  <2>2. IdleEvery \in Nat /\ IdleEvery <= IdleEvery
    BY Intervals
  <2> QED
    BY <1>1, <1>3, <2>1, <2>2 DEF BodyTypeOK
<1>4. BodyTypeOK'
  BY <1>1, <1>2, <1>3, <1>a DEF BodyTypeOK
<1>5. PowerCut' /\ OnTime'
  BY DEF PowerCut, OnTime
<1>6. Believed'
  BY <1>2 DEF Believed, Running, Torqued
<1>7. MadeGood'
  <2> SUFFICES ASSUME ready', Torqued' PROVE InTime(held', idleIn', since') /\ held' = 0
    BY DEF MadeGood, Running
  <2>1. held' = 0
    BY <1>2 DEF Torqued, HeldAfterAll
  <2> QED
    BY <1>4, <2>1, JustHeld
<1> QED
  BY <1>2, <1>4, <1>5, <1>6, <1>7 DEF BodyInv

(* The movement: a hold, a step, a release, or nothing.                    *)
LEMMA MoveInv == BodyInv /\ Move => BodyInv' /\ JumpFree
<1> SUFFICES ASSUME BodyInv, Move PROVE BodyInv' /\ JumpFree
  OBVIOUS
<1>1. phase = "move" /\ UNCHANGED <<target, known, probeIn, idleIn, powered, stuck>>
  BY DEF Move
<1>2. CASE ready /\ known /\ phase' = "step" /\ HoldHere
  BY <1>1, <1>2, HoldHereInv
<1>3. CASE phase' = "idle" /\ StepOn
  BY <1>1, <1>3, StepOnInv, NoneJumps
<1>4. CASE phase' = "idle" /\ Release
  <2>1. LetGo /\ HeldAfterAll /\ on' = FALSE /\ UNCHANGED <<last, since>>
    BY <1>4 DEF Release
  <2>2. BodyInv' /\ NoneComesOn
    BY <1>1, <1>4, <2>1, LetGoInv
  <2> QED
    BY <2>2, NoneJumps
<1>5. CASE phase' = "idle" /\ (AlreadyThere \/ Unreadable)
  <2>1. UNCHANGED <<ready, on, servos, lost, held>>
    BY <1>5 DEF AlreadyThere, Unreadable
  <2> QED
    BY <1>1, <1>5, <2>1, UnmovedInv, NoneJumps
<1>6. CASE /\ ~(ready /\ known /\ (MoveDue \/ ReleaseDue)) /\ phase' = "idle"
           /\ UNCHANGED <<ready, on, last, since, servos, left, lost, held>>
  BY <1>1, <1>6, UnmovedInv, NoneJumps
<1> QED
  BY <1>2, <1>3, <1>4, <1>5, <1>6 DEF Move

(* The first step after the servos were read.                              *)
LEMMA FirstStepInv == BodyInv /\ FirstStep => BodyInv' /\ NoneComesOn
<1> SUFFICES ASSUME BodyInv, FirstStep PROVE BodyInv' /\ NoneComesOn
  OBVIOUS
<1>1. /\ phase = "step" /\ phase' = "idle"
      /\ UNCHANGED <<target, known, probeIn, idleIn, powered, stuck>>
  BY DEF FirstStep
<1>2. CASE StepOn
  BY <1>1, <1>2, StepOnInv
<1>3. CASE ~ready /\ UNCHANGED <<ready, on, last, since, servos, left, lost, held>>
  <2>1. BodyTypeOK'
    BY <1>1, <1>3 DEF BodyInv, BodyTypeOK, Phases
  <2>2. (PowerCut /\ Believed /\ OnTime /\ MadeGood)' /\ NoneComesOn
    BY <1>1, <1>3 DEF PowerCut, Believed, OnTime, MadeGood, Running, NoneComesOn
  <2> QED
    BY <2>1, <2>2 DEF BodyInv
<1> QED
  BY <1>2, <1>3 DEF FirstStep

(* The release of an idle head.                                            *)
LEMMA IdleInv == BodyInv /\ Idle => BodyInv' /\ NoneComesOn
<1> SUFFICES ASSUME BodyInv, Idle PROVE BodyInv' /\ NoneComesOn
  OBVIOUS
<1>1. /\ phase = "idle" /\ phase' = "end"
      /\ UNCHANGED <<target, known, last, since, probeIn, powered, stuck>>
  BY DEF Idle
<1>2. CASE LetGo /\ on' = FALSE /\ HeldAfterAll /\ idleIn' = IdleEvery
  BY <1>1, <1>2, LetGoInv
<1>3. CASE ~IdleDue /\ UNCHANGED <<ready, on, idleIn, servos, left, lost, held>>
  <2>1. BodyTypeOK /\ Believed /\ OnTime /\ MadeGood
    BY DEF BodyInv
  <2>2. BodyTypeOK'
    BY <1>1, <1>3, <2>1 DEF BodyTypeOK, Phases
  <2>3. PowerCut' /\ Believed' /\ OnTime' /\ NoneComesOn
    BY <1>1, <1>3, <2>1 DEF PowerCut, Believed, OnTime, Running, Torqued, NoneComesOn
  <2>4. MadeGood'
    BY <1>1, <1>3, <2>1 DEF MadeGood, Running, Torqued, Away, IdleDue, DueAt
  <2> QED
    BY <2>2, <2>3, <2>4 DEF BodyInv
<1> QED
  BY <1>2, <1>3 DEF Idle

(* The end of a turn.                                                      *)
LEMMA EndInv == BodyInv /\ End => BodyInv' /\ NoneComesOn
<1> SUFFICES ASSUME BodyInv, End PROVE BodyInv' /\ NoneComesOn
  OBVIOUS
<1>1. /\ phase = "end" /\ phase' = "tick" /\ UNCHANGED <<firmware, lost, held>>
      /\ BodyTypeOK /\ Believed /\ OnTime /\ MadeGood
  BY DEF BodyInv, End
<1>2. CASE ~ready /\ powered /\ ~stuck /\ Disable(servos)
  <2>1. servos' \in Servos /\ NoneComesOn
    BY <1>1, <1>2, SlackType, SlackParts DEF BodyTypeOK, Disable, NoneComesOn
  <2>2. /\ left' \in Room /\ powered' \in BOOLEAN /\ stuck' \in BOOLEAN
        /\ ~powered' \/ stuck'
    BY <1>1, <1>2, SpendType DEF BodyTypeOK, Disable
  <2>3. BodyTypeOK'
    BY <1>1, <2>1, <2>2 DEF BodyTypeOK, Phases, firmware
  <2>4. (PowerCut /\ Believed /\ OnTime /\ MadeGood)'
    BY <1>1, <1>2, <2>2 DEF PowerCut, Believed, OnTime, MadeGood, Running, firmware
  <2> QED
    BY <2>1, <2>3, <2>4 DEF BodyInv
<1>3. CASE ~(~ready /\ powered /\ ~stuck) /\ UNCHANGED <<servos, powered, left, stuck>>
  <2>1. BodyTypeOK'
    BY <1>1, <1>3 DEF BodyTypeOK, Phases, firmware
  <2>2. PowerCut' /\ Believed' /\ OnTime' /\ NoneComesOn
    BY <1>1, <1>3 DEF PowerCut, Believed, OnTime, Running, Torqued, NoneComesOn, firmware
  <2>3. MadeGood'
    BY <1>1, <1>3 DEF MadeGood, Running, Torqued, Away, firmware
  <2> QED
    BY <2>1, <2>2, <2>3 DEF BodyInv
<1> QED
  BY <1>2, <1>3 DEF End

(* Nothing happens to the servos.                                          *)
LEMMA IdleServos == BodyInv /\ UNCHANGED bvars => BodyInv' /\ NoneComesOn
<1> SUFFICES ASSUME BodyInv, UNCHANGED bvars PROVE BodyInv' /\ NoneComesOn
  OBVIOUS
<1>1. BodyTypeOK' /\ NoneComesOn
  BY DEF BodyInv, BodyTypeOK, NoneComesOn, bvars, firmware
<1>2. PowerCut' /\ Believed' /\ OnTime' /\ MadeGood'
  BY DEF BodyInv, PowerCut, Believed, OnTime, MadeGood, Running, Torqued, Away, bvars, firmware
<1> QED
  BY <1>1, <1>2 DEF BodyInv

(* Every step.                                                             *)
LEMMA BodyStep == BodyInv /\ [BodyNext]_bvars => BodyInv' /\ JumpFree
  BY StartInv, ResetInv, TickInv, HandInv, ProbeInv, MoveInv, FirstStepInv, IdleInv, EndInv,
     IdleServos, NoneJumps
     DEF BodyNext, Loop

(* Every reachable state of the servos and their loop satisfies BodyInv.   *)
THEOREM BodyInvariant == BodySpec => []BodyInv
  BY BodyInitInv, BodyStep, PTL DEF BodySpec

(* No servo is left with its torque on: it is off ReleaseAfter after the   *)
(* last step, and after a loss once the longer of the two timers has run   *)
(* out (main.rs:522-557).                                                  *)
THEOREM TorqueIsReleased == BodySpec => []HoldEnds
<1>1. BodyInv => HoldEnds
  <2> SUFFICES ASSUME BodyInv, phase = "tick", powered, ~stuck, Torqued
               PROVE  IF lost THEN held <= Most(ReleaseAfter, IdleEvery) ELSE held < ReleaseAfter
    BY DEF HoldEnds, Torqued
  <2>1. BodyTypeOK /\ Running
    BY DEF BodyInv, PowerCut, Running
  <2>2. held \in Nat /\ idleIn \in 0 .. IdleEvery /\ since \in SinceTimes
    BY <2>1, Times DEF BodyTypeOK
  <2>3. CASE lost
    <3>1. Bounded(held)
      BY <2>1, <2>2, <2>3, TimeBound DEF BodyInv, MadeGood
    <3> QED
      BY <2>2, <2>3, <3>1, Intervals DEF Bounded, Most
  <2>4. CASE ~lost
    <3>1. on /\ since # Never /\ held <= since /\ since < ReleaseAfter
      BY <2>1, <2>4 DEF BodyInv, Believed, OnTime
    <3>2. since \in Nat
      BY <2>2, <3>1 DEF SinceTimes
    <3> QED
      BY <2>2, <2>4, <3>1, <3>2, Intervals
  <2> QED
    BY <2>3, <2>4
<1> QED
  BY <1>1, BodyInvariant, PTL

(* The head never jumps: when the torque of a servo comes on, its goal is  *)
(* where the head is (main.rs:477-505, docs/protocol.md:151-153).          *)
THEOREM HeadNeverJumps == BodySpec => NoJump
  BY BodyInitInv, BodyStep, PTL DEF BodySpec, NoJump, JumpFree

-----------------------------------------------------------------------------
(* Numbers, and functions on them that are given step by step.             *)

(* A set of numbers has a least one.                                       *)
LEMMA LeastNatural ==
  ASSUME NEW T \in SUBSET Nat, T # {}
  PROVE  \E x \in T : \A y \in T : x <= y
<1> DEFINE R == OpToRel(<, Nat)
<1>1. IsWellFoundedOn(R, Nat)
  BY NatLessThanWellFounded
<1>2. \A x, y \in Nat : x < y => <<x, y>> \in R
  BY DEF OpToRel
<1> HIDE DEF R
<1>3. PICK x \in T : \A y \in T : <<y, x>> \notin R
  BY <1>1, WFMin
<1>4. \A y \in T : x <= y
  <2> TAKE y \in T
  <2>1. x \in Nat /\ y \in Nat /\ ~(y < x)
    BY <1>2, <1>3
  <2> QED
    BY <2>1
<1> QED
  BY <1>4

\* A function on 0 .. n can be given by its value at 0 and a step from each value to the next.
Stepping(n, V) == [(1 .. n) \X V -> V]

Built(V, v, n, step) ==
  {f \in [0 .. n -> V] : \A k \in 0 .. n : f[k] = IF k = 0 THEN v ELSE step[<<k, f[k - 1]>>]}

(* There is one such function.                                             *)
LEMMA Recursion ==
  ASSUME NEW V, NEW v \in V, NEW n \in Nat, NEW step \in Stepping(n, V)
  PROVE  \E f : f \in Built(V, v, n, step)
<1> USE DEF Stepping
<1> DEFINE Upto(m) == {f \in [0 .. m -> V] :
                         \A k \in 0 .. m : f[k] = IF k = 0 THEN v ELSE step[<<k, f[k - 1]>>]}
           Bad == {m \in 0 .. n : Upto(m) = {}}
<1>1. ASSUME NEW m \in Bad, \A j \in Bad : m <= j PROVE FALSE
  <2>0. m \in 0 .. n /\ Upto(m) = {}
    OBVIOUS
  <2>1. CASE m = 0
    <3>1. [k \in 0 .. 0 |-> v] \in Upto(0)
      OBVIOUS
    <3> QED
      BY <2>0, <2>1, <3>1
  <2>2. CASE m # 0
    <3>1. m - 1 \in 0 .. n /\ m \in 1 .. n /\ m - 1 < m
      BY <2>0, <2>2
    <3>2. m - 1 \notin Bad
      BY <1>1, <3>1
    <3>3. PICK f : f \in Upto(m - 1)
      BY <3>1, <3>2
    <3> DEFINE w == step[<<m, f[m - 1]>>]
               g == [k \in 0 .. m |-> IF k = m THEN w ELSE f[k]]
    <3>4. f \in [0 .. m - 1 -> V]
          /\ \A k \in 0 .. m - 1 : f[k] = IF k = 0 THEN v ELSE step[<<k, f[k - 1]>>]
      BY <3>3
    <3>5. w \in V
      <4>1. f[m - 1] \in V
        BY <3>1, <3>4
      <4>2. <<m, f[m - 1]>> \in (1 .. n) \X V
        BY <3>1, <4>1
      <4> QED
        BY <4>2
    <3>6. g \in [0 .. m -> V]
      <4> HIDE DEF w
      <4>1. \A k \in 0 .. m : k # m => k \in 0 .. m - 1
        BY <3>1
      <4> QED
        BY <3>4, <3>5, <4>1
    <3>7. ASSUME NEW k \in 0 .. m PROVE g[k] = IF k = 0 THEN v ELSE step[<<k, g[k - 1]>>]
      <4>1. CASE k = m
        <5>1. g[m] = w /\ g[m - 1] = f[m - 1]
          BY <3>1
        <5> QED
          BY <2>2, <4>1, <5>1
      <4>2. CASE k # m
        <5>1. k \in 0 .. m - 1 /\ g[k] = f[k] /\ (k # 0 => g[k - 1] = f[k - 1])
          BY <3>1, <4>2
        <5> QED
          BY <3>4, <5>1
      <4> QED
        BY <4>1, <4>2
    <3> HIDE DEF g, w
    <3>8. g \in Upto(m)
      BY <3>6, <3>7
    <3> QED
      BY <2>0, <3>8
  <2> QED
    BY <2>1, <2>2
<1>2. Bad \in SUBSET Nat /\ n \in 0 .. n
  OBVIOUS
<1> HIDE DEF Bad
<1>3. Bad = {}
  BY <1>1, <1>2, LeastNatural
<1>4. Upto(n) # {}
  BY <1>2, <1>3 DEF Bad
<1> QED
  BY <1>4 DEF Built

-----------------------------------------------------------------------------
(* What a plugin may do.                                                   *)

\* A message that moves nothing unless motion is granted.
Harmless(m, motion) == m.type = "Emote" /\ m.intensity > 0 => motion

\* What is under way of a plugin was made of a message that its grant allows.
Granted ==
  /\ section # None => section.allowed \in Capabilities
  /\ granted # None =>
       /\ section # None
       /\ hello.requested \in Capabilities
       /\ granted = Intersect(section.allowed, hello.requested)
  /\ request # None =>
       /\ granted # None /\ MayDo(granted, request)
       /\ sending \in Seq(ToSet(sending))
       /\ \A m \in ToSet(sending) : Harmless(m, granted.motion)

(* One message is a sequence of messages like it.                          *)
LEMMA Alone ==
  ASSUME NEW x, NEW motion, Harmless(x, motion)
  PROVE  \E S : <<x>> \in Seq(S) /\ \A s \in S : Harmless(s, motion)
<1> DEFINE one == {x}
<1>1. <<x>> \in Seq(one) /\ \A s \in one : Harmless(s, motion)
  OBVIOUS
<1> HIDE DEF one
<1> QED
  BY <1>1

(* A function on 1 .. n is a sequence.                                     *)
LEMMA Counted == ASSUME NEW S, NEW n \in Nat, NEW f \in [1 .. n -> S] PROVE f \in Seq(S)
  OBVIOUS

(* The parts of an image are of three types, none of which moves the head. *)
LEMMA PartsOfImage ==
  ASSUME NEW m, m.width \in 1 .. MaxWidth, m.height \in Nat
  PROVE  \E S : ImageMessages(m) \in Seq(S) /\ \A s \in S : s.type # "Emote"
<1> DEFINE per == RowsPerMessage(m.width)
           count == (m.height + per - 1) \div per
           Part(k) == [type |-> "ImageRows", row |-> (k - 1) * per,
                       bytes |-> 2 * m.width * LesserOf(per, m.height - (k - 1) * per)]
           begin == [type |-> "ImageBegin", x |-> (ScreenWidth - m.width) \div 2,
                     y |-> (ScreenHeight - m.height) \div 2, width |-> m.width, height |-> m.height]
           end   == [type |-> "ImageEnd"]
           S     == {begin, end} \cup {Part(k) : k \in 1 .. count}
<1>1. per \in Nat \ {0}
  <2>1. MaxRowsBytes \div (2 * m.width) \in Nat
    BY DEF MaxRowsBytes, MaxWidth
  <2> QED
    BY <2>1 DEF RowsPerMessage
<1>2. count \in Nat
  BY <1>1
<1>3. [k \in 1 .. count |-> Part(k)] \in Seq(S)
  <2>1. \A k \in 1 .. count : Part(k) \in S
    OBVIOUS
  <2> HIDE DEF S, Part, count
  <2>2. [k \in 1 .. count |-> Part(k)] \in [1 .. count -> S]
    BY <2>1
  <2> QED
    BY <1>2, <2>2, Counted
<1>4. ImageMessages(m) = <<begin>> \o [k \in 1 .. count |-> Part(k)] \o <<end>>
  BY DEF ImageMessages
<1>5. <<begin>> \in Seq(S) /\ <<end>> \in Seq(S)
  OBVIOUS
<1>6. \A s \in S : s.type # "Emote"
  OBVIOUS
<1> HIDE DEF S, begin, end, Part, count
<1>7. ImageMessages(m) \in Seq(S)
  BY <1>3, <1>4, <1>5
<1> QED
  BY <1>6, <1>7

(* Only the message made of an emote may move the head, and not without    *)
(* motion (convert.rs, emote).                                             *)
LEMMA MessagesAreHarmless ==
  ASSUME NEW m \in Messages, NEW motion \in BOOLEAN, NEW slot,
         m.type = "ImageFrame" => m.width \in 1 .. MaxWidth
  PROVE  \E S : /\ DeviceMessages(m, motion, slot) \in Seq(S)
                /\ \A s \in S : Harmless(s, motion)
<1> DEFINE made == DeviceMessages(m, motion, slot)
<1>1. CASE m.type = "CardPut"
  <2> DEFINE x == CardOf(slot, m.rows, None)
  <2>1. made = <<x>>
    BY <1>1 DEF DeviceMessages
  <2>2. Harmless(x, motion)
    BY DEF Harmless, CardOf
  <2> HIDE DEF x
  <2> QED
    BY <2>1, <2>2, Alone
<1>2. CASE m.type = "Notify"
  <2> DEFINE x == [type |-> "Text", bytes |-> m.bytes]
  <2>1. made = <<x>>
    BY <1>2 DEF DeviceMessages
  <2>2. Harmless(x, motion)
    BY DEF Harmless
  <2> HIDE DEF x
  <2> QED
    BY <2>1, <2>2, Alone
<1>3. CASE m.type = "Presence"
  <2> DEFINE x == [type |-> "Presence", detail |-> m.detail, gaze |-> m.gaze]
  <2>1. made = <<x>>
    BY <1>3 DEF DeviceMessages
  <2>2. Harmless(x, motion)
    BY DEF Harmless
  <2> HIDE DEF x
  <2> QED
    BY <2>1, <2>2, Alone
<1>4. CASE m.type = "Emote"
  <2> DEFINE x == [m EXCEPT !.intensity = IF motion THEN @ ELSE 0]
  <2>1. made = <<x>>
    BY <1>4 DEF DeviceMessages
  <2>2. ~motion => x.intensity = 0
    BY <1>4, ContentAssumption
  <2>3. Harmless(x, motion)
    BY <2>2 DEF Harmless
  <2> HIDE DEF x
  <2> QED
    BY <2>1, <2>3, Alone
<1>5. CASE m.type = "ImageFrame"
  <2>1. made = ImageMessages(m)
    BY <1>5 DEF DeviceMessages
  <2>2. m.height \in Nat
    BY <1>5, ContentAssumption
  <2> QED
    BY <1>5, <2>1, <2>2, PartsOfImage DEF Harmless
<1>6. CASE m.type \notin {"CardPut", "Notify", "Presence", "Emote", "ImageFrame"}
  <2>1. made = <<>>
    BY <1>6 DEF DeviceMessages
  <2> QED
    BY <2>1
<1> QED
  BY <1>1, <1>2, <1>3, <1>4, <1>5, <1>6

(* A sequence is a sequence of its own elements.                           *)
LEMMA OwnElements == ASSUME NEW S, NEW s \in Seq(S)
                     PROVE  s \in Seq(ToSet(s)) /\ ToSet(s) \subseteq S
  BY DEF ToSet

(* What is in force of the capabilities asked is some of them.             *)
LEMMA IntersectType ==
  ASSUME NEW a \in Capabilities, NEW b \in Capabilities
  PROVE  /\ Intersect(a, b) \in Capabilities
         /\ Intersect(a, b).cards > 0 => a.cards > 0 /\ b.cards > 0
         /\ Intersect(a, b).notify => a.notify /\ b.notify
         /\ Intersect(a, b).presence => a.presence /\ b.presence
         /\ Intersect(a, b).motion => a.presence /\ b.presence /\ a.motion /\ b.motion
         /\ Intersect(a, b).image => a.image /\ b.image
  BY DEF Intersect, LesserOf, Capabilities

(* What the plugin says is checked before it is sent.                      *)
LEMMA SayGranted == Granted /\ Say => Granted'
<1> SUFFICES ASSUME Granted, Say PROVE Granted'
  OBVIOUS
<1>1. granted # None /\ UNCHANGED <<section, granted, hello>>
  BY DEF Say
<1>2. CASE UNCHANGED <<request, sending>>
  BY <1>1, <1>2 DEF Granted
<1>3. ASSUME NEW m \in Messages, Validate(m), MayDo(granted, m), NEW slot,
             request' = m, sending' = DeviceMessages(m, granted.motion, slot)
      PROVE  Granted'
  <2>1. granted.motion \in BOOLEAN
    BY <1>1, IntersectType DEF Granted, Capabilities
  <2>2. m.type = "ImageFrame" => m.width \in 1 .. MaxWidth
    BY <1>3 DEF Validate
  <2>3. PICK S : sending' \in Seq(S) /\ \A s \in S : Harmless(s, granted.motion)
    BY <1>3, <2>1, <2>2, MessagesAreHarmless
  <2>4. sending' \in Seq(ToSet(sending')) /\ ToSet(sending') \subseteq S
    BY <2>3, OwnElements
  <2> QED
    BY <1>1, <1>3, <2>3, <2>4 DEF Granted
<1> QED
  BY <1>2, <1>3 DEF Say

(* What is left to send is part of what was to be sent.                    *)
LEMMA RestGranted ==
  Granted /\ UNCHANGED <<section, granted, hello, request>>
    /\ (sending' = sending \/ sending' = <<>> \/ (sending # <<>> /\ sending' = Tail(sending)))
  => Granted'
<1> SUFFICES ASSUME Granted, UNCHANGED <<section, granted, hello, request>>,
                    sending' = sending \/ sending' = <<>> \/ (sending # <<>> /\ sending' = Tail(sending)),
                    request # None
             PROVE  sending' \in Seq(ToSet(sending')) /\ ToSet(sending') \subseteq ToSet(sending)
  BY DEF Granted
<1>1. sending \in Seq(ToSet(sending))
  BY DEF Granted
<1>2. sending' \in Seq(ToSet(sending))
  <2> DEFINE S == ToSet(sending)
  <2> HIDE DEF S
  <2>1. sending \in Seq(S)
    BY <1>1 DEF S
  <2>2. sending # <<>> => Tail(sending) \in Seq(S)
    BY <2>1
  <2>3. <<>> \in Seq(S)
    OBVIOUS
  <2> QED
    BY <2>1, <2>2, <2>3 DEF S
<1> QED
  BY <1>2, OwnElements

(* Every step keeps what is sent within what was granted.                  *)
LEMMA GrantedStep == Granted /\ [ContentNext]_xvars => Granted'
<1> SUFFICES ASSUME Granted, [ContentNext]_xvars PROVE Granted'
  OBVIOUS
<1>1. CASE Configure
  <2>1. section' \in Sections /\ granted = None /\ request = None
    BY <1>1 DEF Configure, Granted
  <2>2. section' \in PluginSection
    BY <2>1, ContentAssumption
  <2> QED
    BY <1>1, <2>1, <2>2 DEF Configure, Granted, PluginSection
<1>2. CASE Greet
  <2>1. PICK h \in Hellos : hello' = h /\ granted' = Intersect(section.allowed, h.requested)
    BY <1>2 DEF Greet
  <2> QED
    BY <1>2, <2>1, ContentAssumption DEF Greet, Granted
<1>3. CASE Say
  BY <1>3, SayGranted
<1>4. CASE Command \/ Ask \/ Read \/ KeepSettings
  <2>1. section = None /\ UNCHANGED <<section, granted, hello, request>>
    BY <1>4 DEF Command, Ask, Read, KeepSettings
  <2> QED
    BY <2>1 DEF Granted
<1>5. CASE Check
  BY <1>5, RestGranted DEF Check
<1>6. CASE Deliver
  BY <1>6, RestGranted DEF Deliver
<1>7. CASE Settle
  BY <1>7 DEF Settle, Granted
<1>8. CASE UNCHANGED xvars
  BY <1>8, RestGranted DEF xvars
<1> QED
  BY <1>1, <1>2, <1>3, <1>4, <1>5, <1>6, <1>7, <1>8 DEF ContentNext

(* Nothing a plugin sends reaches the device but what the settings allow   *)
(* and its Hello asked for, and its emotes move nothing without motion     *)
(* (daemon/plugin.rs, receive; Capabilities::intersect).                   *)
THEOREM GrantsHold == ContentSpec => []GrantHolds
<1>1. ContentInit => Granted
  BY DEF ContentInit, Granted
<1>2. Granted => GrantHolds
  <2> SUFFICES ASSUME Granted, request # None, NEW i \in 1 .. Len(sending)
               PROVE  LET Both(name) == section.allowed[name] /\ hello.requested[name]
                      IN  /\ request.type = "Notify" => Both("notify")
                          /\ request.type \in {"Presence", "Emote"} => Both("presence")
                          /\ sending[i].type = "Emote" /\ sending[i].intensity > 0 =>
                               Both("presence") /\ Both("motion")
                          /\ request.type = "ImageFrame" => Both("image")
                          /\ request.type = "CardPut" => section.allowed.cards > 0 /\ hello.requested.cards > 0
    BY DEF GrantHolds
  <2>1. /\ section.allowed \in Capabilities /\ hello.requested \in Capabilities
        /\ granted = Intersect(section.allowed, hello.requested)
        /\ MayDo(granted, request)
    BY DEF Granted
  <2>2. Harmless(sending[i], granted.motion)
    BY DEF Granted, ToSet
  <2> QED
    BY <2>1, <2>2, IntersectType DEF MayDo, Harmless
<1> QED
  BY <1>1, <1>2, GrantedStep, PTL DEF ContentSpec

-----------------------------------------------------------------------------
(* What a message takes.                                                   *)

(* Products of numbers grow with them.                                     *)
LEMMA Products ==
  ASSUME NEW a \in Nat, NEW b \in Nat, NEW c \in Nat, NEW d \in Nat, a <= c, b <= d
  PROVE  a * b <= c * d /\ a * b \in Nat
  OBVIOUS

(* Up to 1018 bytes have their place in a frame.                           *)
LEMMA FrameHolds == ASSUME NEW n \in Nat, n <= 1018 PROVE ~(Framed(n) > MaxFrameBytes)
  BY DEF Framed, MaxFrameBytes

(* A total is what is added up in turn.                                    *)
LEMMA TotalSteps ==
  ASSUME NEW s \in Seq(Nat)
  PROVE  \E sum \in [0 .. Len(s) -> Nat] :
           /\ Total(s) = sum[Len(s)]
           /\ \A k \in 0 .. Len(s) : sum[k] = IF k = 0 THEN 0 ELSE sum[k - 1] + s[k]
<1> DEFINE n == Len(s)
           step == [p \in (1 .. n) \X Nat |-> p[2] + s[p[1]]]
           Is(f) == f = [k \in 0 .. n |-> IF k = 0 THEN 0 ELSE f[k - 1] + s[k]]
<1>1. n \in Nat /\ \A k \in 1 .. n : s[k] \in Nat
  OBVIOUS
<1>2. step \in Stepping(n, Nat)
  BY <1>1 DEF Stepping
<1>3. \A k \in 1 .. n, m \in Nat : step[<<k, m>>] = m + s[k]
  BY <1>1
<1> HIDE DEF step
<1>4. PICK f : f \in Built(Nat, 0, n, step)
  <2>1. n \in Nat /\ 0 \in Nat
    BY <1>1
  <2> HIDE DEF n
  <2> QED
    BY <1>2, <2>1, Recursion, Zenon
<1>5. f \in [0 .. n -> Nat]
  BY <1>4 DEF Built
<1>6. ASSUME NEW k \in 0 .. n PROVE f[k] = IF k = 0 THEN 0 ELSE f[k - 1] + s[k]
  <2>1. k # 0 => k \in 1 .. n /\ k - 1 \in 0 .. n
    BY <1>1
  <2>2. k # 0 => f[k - 1] \in Nat
    BY <1>5, <2>1
  <2>3. f[k] = IF k = 0 THEN 0 ELSE step[<<k, f[k - 1]>>]
    BY <1>4 DEF Built
  <2> QED
    BY <1>3, <2>1, <2>2, <2>3
<1>7. Is(f)
  BY <1>5, <1>6
<1> DEFINE sum == CHOOSE g : Is(g)
<1>8. Is(sum)
  BY <1>7
<1>9. Total(s) = sum[n]
  BY DEF Total
<1> HIDE DEF sum
<1>10. ASSUME NEW k \in 0 .. n PROVE sum[k] = IF k = 0 THEN 0 ELSE sum[k - 1] + s[k]
  BY <1>8
<1> DEFINE Bad == {k \in 0 .. n : sum[k] \notin Nat}
<1>11. ASSUME NEW k \in Bad, \A j \in Bad : k <= j PROVE FALSE
  <2>1. k \in 0 .. n /\ sum[k] \notin Nat
    OBVIOUS
  <2>2. k # 0
    BY <1>10, <2>1
  <2>3. k - 1 \in 0 .. n /\ k \in 1 .. n /\ k - 1 < k
    BY <1>1, <2>1, <2>2
  <2>4. sum[k - 1] \in Nat
    BY <1>11, <2>3
  <2>5. sum[k] = sum[k - 1] + s[k]
    BY <1>10, <2>1, <2>2
  <2> QED
    BY <1>1, <2>1, <2>3, <2>4, <2>5
<1>12. Bad \in SUBSET Nat
  OBVIOUS
<1> HIDE DEF Bad
<1>13. Bad = {}
  BY <1>11, <1>12, LeastNatural
<1>14. sum \in [0 .. n -> Nat]
  BY <1>8, <1>13 DEF Bad
<1> QED
  BY <1>9, <1>10, <1>14

(* The sum of up to four numbers of at most b.                             *)
LEMMA TotalOfFour ==
  ASSUME NEW s \in Seq(Nat), NEW b \in Nat, Len(s) <= 4, \A i \in 1 .. Len(s) : s[i] <= b
  PROVE  Total(s) \in Nat /\ Total(s) <= 4 * b /\ (Len(s) <= 2 => Total(s) <= 2 * b)
<1>1. PICK sum \in [0 .. Len(s) -> Nat] :
        /\ Total(s) = sum[Len(s)]
        /\ \A k \in 0 .. Len(s) : sum[k] = IF k = 0 THEN 0 ELSE sum[k - 1] + s[k]
  BY TotalSteps
<1> DEFINE n == Len(s)
           SumsWithin(k) == sum[k] \in Nat /\ sum[k] <= k * b
<1>2. n \in Nat /\ n <= 4
  OBVIOUS
<1>3. SumsWithin(0)
  <2>1. sum[0] = 0
    BY <1>1, <1>2
  <2> QED
    BY <2>1
<1>4. ASSUME NEW k \in Nat, k + 1 <= n, SumsWithin(k) PROVE SumsWithin(k + 1)
  <2>1. k + 1 \in 1 .. n /\ k + 1 \in 0 .. n /\ k + 1 # 0 /\ (k + 1) - 1 = k
    BY <1>2, <1>4
  <2>2. sum[k + 1] = sum[k] + s[k + 1]
    BY <1>1, <2>1
  <2>3. s[k + 1] \in Nat /\ s[k + 1] <= b
    BY <2>1
  <2>4. (k + 1) * b = k * b + b /\ k * b \in Nat
    OBVIOUS
  <2> DEFINE x == sum[k]
             y == s[k + 1]
             z == k * b
             t == sum[k + 1]
             u == (k + 1) * b
  <2>5. x \in Nat /\ x <= z /\ y \in Nat /\ y <= b /\ z \in Nat /\ t = x + y /\ u = z + b
    BY <1>4, <2>2, <2>3, <2>4
  <2> HIDE DEF x, y, z, t, u
  <2>6. t \in Nat /\ t <= u
    BY <2>5
  <2> QED
    BY <2>6 DEF t, u
<1> HIDE DEF SumsWithin, n
<1>5. /\ n >= 1 => SumsWithin(1)
      /\ n >= 2 => SumsWithin(2)
      /\ n >= 3 => SumsWithin(3)
      /\ n >= 4 => SumsWithin(4)
  <2>1. n >= 1 => SumsWithin(0 + 1)
    BY <1>2, <1>3, <1>4
  <2>2. n >= 2 => SumsWithin(1 + 1)
    BY <1>2, <1>4, <2>1
  <2>3. n >= 3 => SumsWithin(2 + 1)
    BY <1>2, <1>4, <2>2
  <2>4. n >= 4 => SumsWithin(3 + 1)
    BY <1>2, <1>4, <2>3
  <2> QED
    BY <2>1, <2>2, <2>3, <2>4
<1>6. SumsWithin(n)
  <2>1. n \in {0, 1, 2, 3, 4}
    BY <1>2
  <2> QED
    BY <1>3, <1>5, <2>1
<1>7. Total(s) \in Nat /\ Total(s) <= n * b
  BY <1>1, <1>6 DEF SumsWithin, n
<1>8. n * b <= 4 * b /\ (n <= 2 => n * b <= 2 * b) /\ n * b \in Nat
  <2>1. b <= b
    OBVIOUS
  <2>2. n * b <= 4 * b /\ n * b \in Nat
    BY <1>2, <2>1, Products
  <2>3. n <= 2 => n * b <= 2 * b
    BY <1>2, <2>1, Products
  <2> QED
    BY <2>2, <2>3
<1> QED
  BY <1>7, <1>8 DEF n

(* A row of a card takes at most 103 bytes.                                *)
LEMMA RowFits ==
  ASSUME NEW row \in Seq(Element), Len(row) <= MaxElements,
         \A i \in 1 .. Len(row) : /\ row[i].kind = "text" => row[i].bytes <= MaxCardText
                                  /\ row[i].kind = "bar" => row[i].bytes <= MaxLabel
  PROVE  RowBytes(row) \in Nat /\ RowBytes(row) <= 103
<1> DEFINE s == [i \in 1 .. Len(row) |-> ElementBytes(row[i])]
<1>1. ASSUME NEW i \in 1 .. Len(row) PROVE ElementBytes(row[i]) \in Nat /\ ElementBytes(row[i]) <= 50
  <2>1. row[i] \in Element
    OBVIOUS
  <2>2. /\ row[i].kind \in {"text", "bar", "spacer", "image"} /\ row[i].bytes \in Nat
        /\ row[i].kind \in {"spacer", "image"} => row[i].bytes = 0
    BY <2>1 DEF Element
  <2> QED
    BY <2>2 DEF ElementBytes, ElementHead, MaxCardText, MaxLabel
<1>2. s \in [1 .. Len(row) -> Nat] /\ Len(row) \in Nat
  BY <1>1
<1>3. s \in Seq(Nat) /\ Len(s) = Len(row) /\ \A i \in 1 .. Len(s) : s[i] <= 50
  BY <1>1, <1>2
<1>4. RowBytes(row) = 3 + Total(s)
  BY DEF RowBytes, SumOf
<1> HIDE DEF s
<1>5. Total(s) \in Nat /\ Total(s) <= 2 * 50
  <2>1. Len(s) <= 4 /\ Len(s) <= 2 /\ 50 \in Nat
    BY <1>2, <1>3 DEF MaxElements
  <2> QED
    BY <1>3, <2>1, TotalOfFour
<1> QED
  BY <1>4, <1>5

(* A card that its types hold and that is valid fits a frame.              *)
LEMMA CardFits ==
  ASSUME NEW m, m.type = "Card", m.rows \in Seq(Seq(Element)), Holds(m), CardValid(m)
  PROVE  ~(Framed(Bytes(m)) > MaxFrameBytes)
<1> DEFINE rows == m.rows
           s == [i \in 1 .. Len(rows) |-> RowBytes(rows[i])]
<1>1. Len(rows) <= MaxRows /\ rows \in Seq(Seq(Element))
  BY DEF Holds
<1>2. ASSUME NEW i \in 1 .. Len(rows) PROVE RowBytes(rows[i]) \in Nat /\ RowBytes(rows[i]) <= 103
  <2>1. rows[i] \in Seq(Element)
    BY <1>1
  <2>2. /\ Len(rows[i]) <= MaxElements
        /\ \A j \in 1 .. Len(rows[i]) :
             /\ rows[i][j].kind = "text" => rows[i][j].bytes <= MaxCardText
             /\ rows[i][j].kind = "bar" => rows[i][j].bytes <= MaxLabel
    BY DEF Holds, All
  <2> QED
    BY <2>1, <2>2, RowFits
<1>3. s \in [1 .. Len(rows) -> Nat] /\ Len(rows) \in Nat
  BY <1>1, <1>2
<1>4. s \in Seq(Nat) /\ Len(s) = Len(rows) /\ \A i \in 1 .. Len(s) : s[i] <= 103
  BY <1>2, <1>3
<1>5. SumOf(rows, RowBytes) = Total(s)
  BY DEF SumOf
<1> HIDE DEF s, rows
<1>6. Total(s) \in Nat /\ Total(s) <= 4 * 103
  BY <1>1, <1>4, TotalOfFour DEF MaxRows
<1>7. CASE m.image = None
  <2>1. Bytes(m) = 10 + Total(s) + 0
    BY <1>5, <1>7 DEF Bytes, CardBytes, rows
  <2> QED
    BY <1>6, <2>1, FrameHolds
<1>8. CASE m.image # None
  <2> DEFINE w == m.image.width
             h == m.image.height
             b == m.image.bytes
  <2>1. w \in 1 .. 16 /\ h \in 1 .. 16 /\ b = 2 * w * h
    BY <1>8 DEF CardValid, MaxSide
  <2>2. Bytes(m) = 10 + Total(s) + (4 + b)
    BY <1>5, <1>8 DEF Bytes, CardBytes, rows
  <2> HIDE DEF w, h, b
  <2>3. w \in Nat /\ w <= 16 /\ h \in Nat /\ h <= 16
    BY <2>1
  <2>4. w * h <= 16 * 16 /\ w * h \in Nat
    BY <2>3, Products
  <2>5. 2 * w * h = 2 * (w * h)
    BY <2>3
  <2> QED
    BY <1>6, <2>1, <2>2, <2>4, <2>5, FrameHolds
<1> QED
  BY <1>7, <1>8

(* And up to 60000 in a frame of the plugin interface.                     *)
LEMMA LongFrameHolds == ASSUME NEW n \in Nat, n <= 60000 PROVE Framed(n) <= MaxApiFrame
<1>1. n \div 254 <= 237 /\ n \div 254 \in Nat
  OBVIOUS
<1>2. MaxApiFrame = 65536
  BY DEF MaxApiFrame
<1> QED
  BY <1>1, <1>2 DEF Framed

(* What the settings allow fits the launch frame, and Init the frame of    *)
(* the hand-shake and its limits.                                          *)
LEMMA SettingsFit ==
  ASSUME NEW s \in PluginSection, SectionValid(s), ParamsValid(s)
  PROVE  LaunchFits(s) /\ InitAccepted(s)
<1> DEFINE k == s.keyBytes
           v == s.valueBytes
           e == s.env
           n == s.nets
           p == s.params + s.secrets
           a == s.argvBytes
           c == s.argv
           pair == k + v + 3
<1>1. /\ k \in Nat /\ k <= 64 /\ v \in Nat /\ v <= 1024 /\ e \in Nat /\ e <= 16
      /\ n \in Nat /\ n <= 4 /\ p \in Nat /\ p <= 32 /\ a \in Nat /\ a <= 4096 /\ c \in Nat /\ c <= 64
  BY DEF PluginSection, SectionValid, ParamsValid, MaxArgv, MaxLine, MaxEnv, MaxValue, MaxKey,
         MaxEndpoints, MaxParams
<1>2. LaunchFits(s) = (Framed(a + 2 * c + e * pair + 2) <= MaxApiFrame)
  BY DEF LaunchFits
<1>3. InitBytes(s) = 40 + p * pair + n * 323
  BY DEF InitBytes, MaxEndpoint
<1>4. Framed(InitBytes(s)) <= MaxApiFrame => InitAccepted(s)
  BY <1>1 DEF InitAccepted, MaxParams, MaxEndpoints, MaxKey, MaxValue
<1> HIDE DEF k, v, e, n, p, a, c
<1>5. pair \in Nat /\ pair <= 1091
  BY <1>1
<1> HIDE DEF pair
<1> DEFINE x == e * pair
           y == p * pair
<1>6. x <= 16 * 1091 /\ x \in Nat
  BY <1>1, <1>5, Products
<1>7. y <= 32 * 1091 /\ y \in Nat
  BY <1>1, <1>5, Products
<1> HIDE DEF x, y
<1>8. a + 2 * c + x + 2 \in Nat /\ a + 2 * c + x + 2 <= 60000
  BY <1>1, <1>6
<1>9. 40 + y + n * 323 \in Nat /\ 40 + y + n * 323 <= 60000
  BY <1>1, <1>7
<1>10. Framed(a + 2 * c + x + 2) <= MaxApiFrame
  BY <1>8, LongFrameHolds
<1>11. Framed(40 + y + n * 323) <= MaxApiFrame
  BY <1>9, LongFrameHolds
<1> QED
  BY <1>2, <1>3, <1>4, <1>10, <1>11 DEF x, y

(* Every byte that is read of an icon lies in its file: source rows of     *)
(* stride bytes, column by column, three bytes for each.                   *)
LEMMA PixelInside ==
  ASSUME NEW offset \in Nat, NEW stride \in Nat, NEW height \in Nat, NEW width \in Nat, NEW length \in Nat,
         offset + stride * height <= length, 3 * width <= stride,
         NEW source \in Nat, source < height, NEW column \in Nat, column < width
  PROVE  LET at == offset + source * stride + column * 3 IN at >= 0 /\ at + 2 < length
<1> DEFINE x == source * stride
           y == (source + 1) * stride
           z == stride * height
<1>1. x \in Nat /\ y = x + stride
  OBVIOUS
<1>2. y <= height * stride
  <2>1. source + 1 \in Nat /\ source + 1 <= height /\ stride <= stride
    OBVIOUS
  <2> QED
    BY <2>1, Products
<1>3. z = height * stride /\ z \in Nat
  OBVIOUS
<1>4. y <= z /\ offset + z <= length
  BY <1>2, <1>3
<1> HIDE DEF x, y, z
<1>5. offset + x + column * 3 >= 0 /\ offset + x + column * 3 + 2 < length
  BY <1>1, <1>3, <1>4
<1> QED
  BY <1>5 DEF x

(* An icon that is valid is read inside its file (main.rs, decode_icon).   *)
LEMMA IconsInside == ASSUME NEW b \in Bitmap, IconValid(b) PROVE IconInside(b)
<1> DEFINE height == IF b.height < 0 THEN -b.height ELSE b.height
           stride == Stride(b.width)
<1>1. /\ b.width \in Nat /\ b.height \in Int /\ b.x \in Nat /\ b.y \in Nat /\ b.iconWidth \in Nat
      /\ b.iconHeight \in Nat /\ b.offset \in Nat /\ b.length \in Nat /\ height \in Nat
  BY DEF Bitmap, IconValid
<1>2. stride \in Nat /\ 3 * b.width <= stride
  BY <1>1 DEF Stride
<1>3. /\ b.offset + stride * height <= b.length
      /\ b.x + b.iconWidth <= b.width /\ b.y + b.iconHeight <= height
  BY DEF IconValid
<1>4. SUFFICES ASSUME NEW row \in b.y .. b.y + b.iconHeight - 1, NEW column \in b.x .. b.x + b.iconWidth - 1
               PROVE  LET source == IF b.height < 0 THEN row ELSE b.height - 1 - row
                          at     == b.offset + source * stride + column * 3
                      IN  at >= 0 /\ at + 2 < b.length
  BY DEF IconInside
<1> DEFINE source == IF b.height < 0 THEN row ELSE b.height - 1 - row
<1>5. source \in Nat /\ source < height
  BY <1>1, <1>3
<1>6. column \in Nat /\ column < b.width
  BY <1>1, <1>3
<1> HIDE DEF height, stride, source
<1>7. LET at == b.offset + source * stride + column * 3 IN at >= 0 /\ at + 2 < b.length
  BY <1>1, <1>2, <1>3, <1>5, <1>6, PixelInside
<1> QED
  BY <1>7 DEF source

-----------------------------------------------------------------------------
(* Messages that stand alone.                                              *)

\* What the firmware accepts whatever is under way.
TakenWhole(m) ==
  \/ m.type \in {"Ping", "InputMode", "Text"}
  \/ m.type = "Card" /\ CardValid(m)
  \/ m.type = "Presence" /\ GazeValid(m.gaze)
  \/ m.type = "Emote" /\ EmoteValid(m)
  \/ m.type = "PitchTrim" /\ m.steps \in -96 .. 64

\* A message that every stage takes.
Plain(m) == Holds(m) /\ TakenWhole(m) /\ ~(Framed(Bytes(m)) > MaxFrameBytes)

(* A message of a fixed size is taken if the firmware accepts it.          *)
LEMMA FixedPlain ==
  ASSUME NEW m, m.type \in {"Ping", "InputMode", "Emote", "PitchTrim"}, TakenWhole(m)
  PROVE  Plain(m)
<1>1. Bytes(m) = 20
  BY DEF Bytes
<1>2. ~(Framed(20) > MaxFrameBytes)
  BY FrameHolds
<1> QED
  BY <1>1, <1>2 DEF Plain, Holds

(* A text that its type holds is taken.                                    *)
LEMMA TextPlain == ASSUME NEW m, m.type = "Text", m.bytes \in Nat, m.bytes <= MaxNotice PROVE Plain(m)
<1>1. Bytes(m) = 7 + m.bytes
  BY DEF Bytes
<1>2. 7 + m.bytes \in Nat /\ 7 + m.bytes <= 1018
  BY DEF MaxNotice
<1> QED
  BY <1>1, <1>2, FrameHolds DEF Plain, Holds, TakenWhole

(* So is a state with a detail that its type holds.                        *)
LEMMA PresencePlain ==
  ASSUME NEW m, m.type = "Presence", m.detail \in Nat, m.detail <= MaxDetail, GazeValid(m.gaze)
  PROVE  Plain(m)
<1>1. Bytes(m) = 12 + m.detail
  BY DEF Bytes
<1>2. 12 + m.detail \in Nat /\ 12 + m.detail <= 1018
  BY DEF MaxDetail
<1> QED
  BY <1>1, <1>2, FrameHolds DEF Plain, Holds, TakenWhole

(* And a valid card.                                                       *)
LEMMA CardPlain ==
  ASSUME NEW m, m.type = "Card", m.rows \in Seq(Seq(Element)), Holds(m), CardValid(m)
  PROVE  Plain(m)
  BY CardFits DEF Plain, TakenWhole

(* The two banners have the same room.                                     *)
LEMMA SlotsAlike ==
  ASSUME NEW rows, NEW image, CardValid(CardOf("BannerTop", rows, image))
  PROVE  CardValid(CardOf("BannerBottom", rows, image))
<1> DEFINE a == CardOf("BannerTop", rows, image)
           b == CardOf("BannerBottom", rows, image)
<1>1. /\ a.rows = rows /\ a.image = image /\ a.slot = "BannerTop"
      /\ b.rows = rows /\ b.image = image /\ b.slot = "BannerBottom"
  BY DEF CardOf
<1>2. CardValid(a)
  OBVIOUS
<1> HIDE DEF a, b
<1>3. CardValid(b)
  BY <1>1, <1>2 DEF CardValid, All, SumOf
<1> QED
  BY <1>3 DEF b

(* An Emote of a plugin has the type of the API.                           *)
LEMMA EmoteType ==
  ASSUME NEW m \in Messages, m.type = "Emote"
  PROVE  m \in [type : {"Emote"}, gaze : Gaze, intensity : Nat, duration : Nat]
  BY ContentAssumption, Zenon

(* With less intensity it is as valid as before.                           *)
LEMMA Dimmed ==
  ASSUME NEW m \in [type : {"Emote"}, gaze : Gaze, intensity : Nat, duration : Nat], EmoteValid(m),
         NEW n, n = m.intensity \/ n = 0
  PROVE  LET x == [m EXCEPT !.intensity = n] IN EmoteValid(x) /\ x.type = "Emote"
<1> DEFINE x == [m EXCEPT !.intensity = n]
<1>1. DOMAIN m = {"type", "gaze", "intensity", "duration"} /\ m.type = "Emote"
  OBVIOUS
<1>2. x.type = "Emote" /\ x.gaze = m.gaze /\ x.intensity = n /\ x.duration = m.duration
  BY <1>1
<1>3. GazeValid(m.gaze) /\ m.intensity <= 100 /\ m.duration \in Durations
  BY DEF EmoteValid
<1>4. 0 <= 100
  OBVIOUS
<1> HIDE DEF x
<1>5. EmoteValid(x)
  BY <1>2, <1>3, <1>4 DEF EmoteValid
<1> QED
  BY <1>2, <1>5 DEF x

(* What is made of a message of a plugin, but for an image, is one message *)
(* that every stage takes, or nothing (convert.rs).                        *)
LEMMA SaidPlain ==
  ASSUME NEW m \in Messages, Validate(m), Converts(m), m.type # "ImageFrame",
         NEW slot \in SlotsOf(m), NEW motion
  PROVE  \/ DeviceMessages(m, motion, slot) = <<>>
         \/ \E x : Plain(x) /\ DeviceMessages(m, motion, slot) = <<x>>
<1>1. m.type \in {"CardPut", "CardRemove", "Notify", "Presence", "Emote", "Log"}
  BY DEF Validate
<1>2. CASE m.type = "CardPut"
  <2> DEFINE x == CardOf(slot, m.rows, None)
             y == CardOf(IF m.placement = "Overlay" THEN "Overlay" ELSE "BannerTop", m.rows, None)
  <2>1. m.rows \in Seq(Seq(Element)) /\ m.placement \in {"Banner", "Overlay"}
    BY <1>2, ContentAssumption
  <2>2. Holds(y) /\ CardValid(y)
    BY <1>2 DEF Converts
  <2>3. x.type = "Card" /\ x.rows = m.rows /\ y.type = "Card" /\ y.rows = m.rows
    BY DEF CardOf
  <2>4. Holds(x)
    <3> HIDE DEF x, y
    <3> QED
      BY <2>2, <2>3 DEF Holds, All
  <2>5. CardValid(x)
    <3>1. CASE m.placement = "Overlay"
      BY <1>2, <2>2, <3>1 DEF SlotsOf
    <3>2. CASE m.placement = "Banner"
      <4>1. slot \in {"BannerTop", "BannerBottom"}
        BY <1>2, <3>2 DEF SlotsOf
      <4>2. CardValid(CardOf("BannerTop", m.rows, None))
        BY <2>2, <3>2
      <4> QED
        BY <4>1, <4>2, SlotsAlike
    <3> QED
      BY <2>1, <3>1, <3>2
  <2>6. DeviceMessages(m, motion, slot) = <<x>>
    BY <1>2 DEF DeviceMessages
  <2> HIDE DEF x
  <2>7. Plain(x)
    BY <2>1, <2>3, <2>4, <2>5, CardPlain
  <2> QED
    BY <2>6, <2>7
<1>3. CASE m.type = "Notify"
  <2> DEFINE x == [type |-> "Text", bytes |-> m.bytes]
  <2>1. m.bytes \in Nat /\ m.bytes <= MaxNotice
    BY <1>3, ContentAssumption DEF Converts
  <2>2. Plain(x)
    BY <2>1, TextPlain
  <2> QED
    BY <1>3, <2>2 DEF DeviceMessages
<1>4. CASE m.type = "Presence"
  <2> DEFINE x == [type |-> "Presence", detail |-> m.detail, gaze |-> m.gaze]
  <2>1. m.detail \in Nat /\ m.detail <= MaxDetail /\ GazeValid(m.gaze)
    BY <1>4, ContentAssumption DEF Converts
  <2>2. Plain(x)
    BY <2>1, PresencePlain
  <2> QED
    BY <1>4, <2>2 DEF DeviceMessages
<1>5. CASE m.type = "Emote"
  <2>1. m \in [type : {"Emote"}, gaze : Gaze, intensity : Nat, duration : Nat]
    BY <1>5, EmoteType
  <2>2. EmoteValid(m)
    BY <1>5 DEF Converts
  <2> DEFINE n == IF motion THEN m.intensity ELSE 0
             x == [m EXCEPT !.intensity = n]
  <2>3. m.intensity \in Nat /\ (n = m.intensity \/ n = 0)
    BY <2>1
  <2> HIDE DEF n
  <2>4. EmoteValid(x) /\ x.type = "Emote"
    BY <2>1, <2>2, <2>3, Dimmed
  <2>5. Plain(x)
    <3> HIDE DEF x
    <3>1. TakenWhole(x)
      BY <2>4 DEF TakenWhole
    <3> QED
      BY <2>4, <3>1, FixedPlain
  <2>6. DeviceMessages(m, motion, slot) = <<x>>
    BY <1>5 DEF DeviceMessages, n
  <2> QED
    BY <2>5, <2>6
<1>6. CASE m.type \in {"CardRemove", "Log"}
  BY <1>6 DEF DeviceMessages
<1> QED
  BY <1>1, <1>2, <1>3, <1>4, <1>5, <1>6

(* An element of a card of the command line.                               *)
LEMMA ElementOf ==
  ASSUME NEW kind \in {"text", "bar"}, NEW bytes \in Nat, NEW ratio \in Nat
  PROVE  [kind |-> kind, bytes |-> bytes, ratio |-> ratio, height |-> 0] \in Element
  BY DEF Element

(* The rows of a card of the command line are rows.                        *)
LEMMA CommandRowsType ==
  ASSUME NEW c \in Commands, c.type = "card"
  PROVE  CommandRows(c) \in Seq(Seq(Element))
<1> DEFINE Row == Seq(Element)
           Optional(given, row) == IF given THEN <<row>> ELSE <<>>
           bar    == [kind |-> "bar", bytes |-> c.label, ratio |-> c.ratio, height |-> 0]
           image  == [kind |-> "image", bytes |-> 0, ratio |-> 0, height |-> 0]
           spacer == [kind |-> "spacer", bytes |-> 0, ratio |-> 0, height |-> c.space]
           r1 == IF c.detail = Absent THEN <<Text(c.title)>> ELSE <<Text(c.title), Text(c.detail)>>
           s2 == Optional(c.ratio # Absent, <<bar>>)
           s3 == Optional(c.icon # None, <<image>>)
           s4 == Optional(c.space # Absent, <<spacer>>)
<1>1. /\ c.title \in Nat /\ c.label \in Nat
      /\ c.detail \in Nat \cup {Absent} /\ c.ratio \in Nat \cup {Absent} /\ c.space \in Nat \cup {Absent}
  BY ContentAssumption
<1>2. \A n \in Nat : Text(n) \in Element
  BY ElementOf DEF Text
<1>3. r1 \in Row
  BY <1>1, <1>2
<1>4. s2 \in Seq(Row)
  <2>1. c.ratio # Absent => bar \in Element
    BY <1>1, ElementOf
  <2> HIDE DEF bar
  <2> QED
    BY <2>1
<1>5. s3 \in Seq(Row)
  <2>1. image \in Element
    BY DEF Element
  <2> HIDE DEF image
  <2> QED
    BY <2>1
<1>6. s4 \in Seq(Row)
  <2>1. c.space # Absent => spacer \in Element
    BY <1>1 DEF Element
  <2> HIDE DEF spacer
  <2> QED
    BY <2>1
<1>7. CommandRows(c) = <<r1>> \o s2 \o s3 \o s4
  BY DEF CommandRows
<1> HIDE DEF r1, s2, s3, s4, Row
<1>8. <<r1>> \o s2 \o s3 \o s4 \in Seq(Row)
  BY <1>3, <1>4, <1>5, <1>6
<1> QED
  BY <1>7, <1>8 DEF Row

(* What a command sends is made of messages that every stage takes.        *)
LEMMA CommandPlain ==
  ASSUME NEW c \in Commands, CommandValid(c) PROVE Plain(CommandMessage(c))
<1> DEFINE m == CommandMessage(c)
<1>1. /\ Holds(m)
      /\ m.type = "Card" => CardValid(m)
      /\ m.type = "Emote" => EmoteValid(m)
      /\ m.type = "PitchTrim" => TrimValid(m.steps)
  BY DEF CommandValid
<1>2. CASE c.type = "card"
  <2>1. m = CommandCard(c) /\ m.type = "Card" /\ m.rows = CommandRows(c)
    BY <1>2 DEF CommandMessage, CommandCard, CardOf
  <2>2. m.rows \in Seq(Seq(Element))
    BY <1>2, <2>1, CommandRowsType
  <2> HIDE DEF m
  <2> QED
    BY <1>1, <2>1, <2>2, CardPlain DEF m
<1>3. CASE c.type = "display"
  <2>1. m = c.message
    BY <1>3 DEF CommandMessage
  <2> HIDE DEF m
  <2>2. CASE m \in [type : {"Text"}, bytes : Nat]
    <3>1. m.type = "Text" /\ m.bytes \in Nat
      BY <2>2
    <3>2. m.bytes <= MaxNotice
      BY <1>1, <3>1 DEF Holds
    <3> QED
      BY <3>1, <3>2, TextPlain DEF m
  <2>3. CASE m \in [type : {"Presence"}, detail : Nat, gaze : {[x |-> 0, y |-> 0]}]
    <3>1. m.type = "Presence" /\ m.detail \in Nat /\ m.gaze = [x |-> 0, y |-> 0]
      BY <2>3
    <3>2. m.detail <= MaxDetail
      BY <1>1, <3>1 DEF Holds
    <3>3. GazeValid(m.gaze)
      BY <3>1 DEF GazeValid
    <3> QED
      BY <3>1, <3>2, <3>3, PresencePlain DEF m
  <2>4. CASE m \in [type : {"Emote"}, gaze : Gaze, intensity : Nat, duration : Nat]
    <3>1. m.type = "Emote"
      BY <2>4
    <3> QED
      BY <1>1, <3>1, FixedPlain DEF TakenWhole, m
  <2>5. CASE m \in [type : {"PitchTrim"}, steps : Int]
    <3>1. m.type = "PitchTrim"
      BY <2>5
    <3> QED
      BY <1>1, <3>1, FixedPlain DEF TakenWhole, TrimValid, m
  <2> QED
    BY <1>3, <2>1, <2>2, <2>3, <2>4, <2>5, ContentAssumption
<1> QED
  BY <1>2, <1>3, ContentAssumption

(* And so is its session, with the trim of the file before it.             *)
LEMMA SessionPlain ==
  ASSUME NEW c \in Commands, CommandValid(c), TrimLoads(c)
  PROVE  \E S : Session(c) \in Seq(S) /\ \A x \in S : Plain(x)
<1> DEFINE ping == [type |-> "Ping"]
           trim == [type |-> "PitchTrim", steps |-> c.trim]
           m    == CommandMessage(c)
<1>1. Plain(ping)
  BY FixedPlain DEF TakenWhole
<1>2. Plain(m)
  BY CommandPlain
<1>3. CASE c.trim = Absent
  <2>1. Session(c) = <<>> \o <<ping, m>>
    BY <1>3 DEF Session
  <2> HIDE DEF ping, m
  <2>2. <<ping, m>> \in Seq({ping, m}) /\ <<>> \o <<ping, m>> = <<ping, m>>
    OBVIOUS
  <2> DEFINE S == {ping, m}
  <2>3. Session(c) \in Seq(S)
    BY <2>1, <2>2
  <2>4. \A x \in S : Plain(x)
    BY <1>1, <1>2
  <2> HIDE DEF S
  <2> QED
    BY <2>3, <2>4
<1>4. CASE c.trim # Absent
  <2>1. Plain(trim)
    BY <1>4, FixedPlain DEF TakenWhole, TrimLoads, TrimValid
  <2>2. Session(c) = <<ping, trim>> \o <<ping, m>>
    BY <1>4 DEF Session
  <2> HIDE DEF ping, trim, m
  <2>3. <<ping, trim>> \o <<ping, m>> \in Seq({ping, trim, m})
    <3>1. <<ping, trim>> \in Seq({ping, trim, m}) /\ <<ping, m>> \in Seq({ping, trim, m})
      OBVIOUS
    <3> QED
      BY <3>1
  <2> DEFINE S == {ping, trim, m}
  <2>4. Session(c) \in Seq(S)
    BY <2>2, <2>3
  <2>5. \A x \in S : Plain(x)
    BY <1>1, <1>2, <2>1
  <2> HIDE DEF S
  <2> QED
    BY <2>4, <2>5
<1> QED
  BY <1>3, <1>4

-----------------------------------------------------------------------------
(* An image: its begin, its rows in as many messages as they need, its end. *)

CountOf(w, h) == (h + RowsPerMessage(w) - 1) \div RowsPerMessage(w)
RowsBefore(w, k) == (k - 1) * RowsPerMessage(w)
RowsOf(w, h, k) == LesserOf(RowsPerMessage(w), h - RowsBefore(w, k))

\* The message i of an image.
Item(w, h, i) ==
  IF i = 1 THEN [type |-> "ImageBegin", x |-> (ScreenWidth - w) \div 2, y |-> (ScreenHeight - h) \div 2,
                 width |-> w, height |-> h]
  ELSE IF i = CountOf(w, h) + 2 THEN [type |-> "ImageEnd"]
  ELSE [type |-> "ImageRows", row |-> RowsBefore(w, i - 1), bytes |-> 2 * w * RowsOf(w, h, i - 1)]

\* What is left of an image after n messages, and what the firmware has of it then.
ImageRest(w, h, n) == [i \in 1 .. CountOf(w, h) + 2 - n |-> Item(w, h, n + i)]
UnderWay(w, h, n) ==
  [width |-> w, height |-> h, next |-> LesserOf(RowsBefore(w, n), h)]

Widths  == 1 .. MaxWidth
Heights == 1 .. MaxHeight

(* A message has room for some rows of every image.                        *)
LEMMA RowsRoom ==
  ASSUME NEW w \in Widths
  PROVE  RowsPerMessage(w) \in Nat \ {0} /\ 2 * w * RowsPerMessage(w) <= MaxRowsBytes
<1> DEFINE d == 2 * w
           q == 960 \div d
<1>1. d \in Nat \ {0} /\ d <= 320
  BY DEF Widths, MaxWidth
<1>2. q \in Nat /\ d * q <= 960 /\ 960 < d * q + d
  BY <1>1
<1>3. RowsPerMessage(w) = IF q = 0 THEN 1 ELSE q
  BY DEF RowsPerMessage, MaxRowsBytes
<1> HIDE DEF q
<1>4. q # 0
  BY <1>1, <1>2
<1>5. RowsPerMessage(w) = q /\ d * q <= 960
  BY <1>2, <1>3, <1>4
<1> QED
  BY <1>2, <1>4, <1>5 DEF MaxRowsBytes

(* The parts of an image are rounded up.                                   *)
LEMMA CountIs ==
  ASSUME NEW per \in Nat \ {0}, NEW h \in Nat \ {0}
  PROVE  LET count == (h + per - 1) \div per
         IN  count \in Nat \ {0} /\ h <= count * per /\ (count - 1) * per < h
<1> DEFINE n == h + per - 1
           q == n \div per
<1>1. n \in Nat /\ n >= per
  OBVIOUS
<1> HIDE DEF n
<1>2. q \in Nat /\ per * q <= n /\ n < per * q + per
  BY <1>1
<1> HIDE DEF q
<1>3. q # 0
  BY <1>1, <1>2
<1>4. (q - 1) * per = per * q - per /\ q * per = per * q
  BY <1>2
<1> DEFINE x == per * q
<1>5. x \in Int
  BY <1>2
<1> HIDE DEF x
<1>6. h <= x /\ x - per < h
  BY <1>1, <1>2, <1>5 DEF x, n
<1> QED
  BY <1>2, <1>3, <1>4, <1>6 DEF q, n, x

(* Every part has rows that are left, up to the last row, and fits.        *)
LEMMA PartIs ==
  ASSUME NEW w \in Widths, NEW h \in Heights, NEW k \in 1 .. CountOf(w, h)
  PROVE  /\ CountOf(w, h) \in Nat
         /\ RowsBefore(w, k) \in Nat /\ RowsBefore(w, k) < h
         /\ RowsOf(w, h, k) \in Nat \ {0}
         /\ RowsBefore(w, k) + RowsOf(w, h, k) = LesserOf(RowsBefore(w, k + 1), h)
         /\ 2 * w * RowsOf(w, h, k) \in 1 .. MaxRowsBytes
<1> DEFINE per == RowsPerMessage(w)
           c == CountOf(w, h)
           a == RowsBefore(w, k)
           b == RowsBefore(w, k + 1)
           r == RowsOf(w, h, k)
<1>1. per \in Nat \ {0} /\ 2 * w * per <= MaxRowsBytes
  BY RowsRoom
<1>2. h \in Nat \ {0} /\ w \in Nat \ {0}
  BY DEF Heights, Widths
<1>3. c \in Nat \ {0} /\ h <= c * per /\ (c - 1) * per < h
  BY <1>1, <1>2, CountIs DEF CountOf
<1>4. a = (k - 1) * per /\ b = k * per /\ r = LesserOf(per, h - a)
  BY DEF RowsBefore, RowsOf
<1> HIDE DEF per, c, a, b, r
<1>5. k \in 1 .. c
  BY DEF c
<1>6. k \in Nat /\ k - 1 \in Nat /\ k - 1 <= c - 1
  BY <1>3, <1>5
<1>7. (k - 1) * per <= (c - 1) * per /\ (k - 1) * per \in Nat
  <2>1. c - 1 \in Nat /\ per <= per
    BY <1>1, <1>3
  <2> QED
    BY <1>1, <1>6, <2>1, Products
<1>8. a \in Nat /\ a < h
  <2> DEFINE x == (c - 1) * per
             y == (k - 1) * per
  <2>1. y <= x /\ y \in Nat /\ x < h /\ x \in Int /\ a = y
    BY <1>1, <1>3, <1>4, <1>7
  <2> HIDE DEF x, y
  <2> QED
    BY <1>2, <2>1
<1>9. k * per = (k - 1) * per + per
  BY <1>1, <1>6
<1>10. b = a + per
  BY <1>4, <1>9
<1>11. r \in Nat \ {0} /\ r <= per /\ a + r = LesserOf(b, h)
  BY <1>1, <1>2, <1>4, <1>8, <1>10 DEF LesserOf
<1>12. 2 * w * r <= 2 * w * per /\ 2 * w * r \in Nat /\ 2 * w * r # 0
  <2> DEFINE d == 2 * w
  <2>1. d \in Nat \ {0} /\ d <= d /\ r \in Nat /\ per \in Nat
    BY <1>1, <1>2, <1>11
  <2> HIDE DEF d
  <2>2. d * r <= d * per /\ d * r \in Nat
    BY <1>11, <2>1, Products
  <2>3. d * r # 0
    BY <1>11, <2>1
  <2> QED
    BY <2>2, <2>3 DEF d
<1>13. 2 * w * r \in 1 .. MaxRowsBytes
  <2> DEFINE x == 2 * w * r
             y == 2 * w * per
  <2>1. x <= y /\ x \in Nat /\ x # 0 /\ y <= 960 /\ y \in Int
    BY <1>1, <1>2, <1>12 DEF MaxRowsBytes
  <2> HIDE DEF x, y
  <2>2. x \in 1 .. MaxRowsBytes
    BY <2>1 DEF MaxRowsBytes
  <2> QED
    BY <2>2 DEF x
<1> QED
  BY <1>3, <1>8, <1>11, <1>13 DEF a, b, r, c

(* After the last part there are all rows, before the first none.          *)
LEMMA PartsAreAll ==
  ASSUME NEW w \in Widths, NEW h \in Heights
  PROVE  /\ CountOf(w, h) \in Nat \ {0}
         /\ LesserOf(RowsBefore(w, CountOf(w, h) + 1), h) = h
         /\ LesserOf(RowsBefore(w, 1), h) = 0
<1> DEFINE per == RowsPerMessage(w)
           c == CountOf(w, h)
           x == c * per
<1>1. per \in Nat \ {0}
  BY RowsRoom
<1>2. h \in Nat \ {0}
  BY DEF Heights
<1>3. c \in Nat \ {0} /\ h <= x /\ x \in Nat
  BY <1>1, <1>2, CountIs DEF CountOf
<1> HIDE DEF c, per
<1>4. RowsBefore(w, c + 1) = x /\ RowsBefore(w, 1) = 0
  <2>1. \A k \in Int : RowsBefore(w, k) = (k - 1) * per
    BY DEF RowsBefore, per
  <2>2. c + 1 \in Int /\ (c + 1) - 1 = c /\ 1 - 1 = 0 /\ 0 * per = 0
    BY <1>1, <1>3
  <2> QED
    BY <2>1, <2>2
<1> HIDE DEF x
<1>5. LesserOf(x, h) = h /\ LesserOf(0, h) = 0
  BY <1>2, <1>3 DEF LesserOf
<1> QED
  BY <1>3, <1>4, <1>5 DEF c

(* The messages of an image are its items in turn.                         *)
LEMMA ImageIs ==
  ASSUME NEW m, NEW w \in Widths, NEW h \in Heights, m.width = w, m.height = h
  PROVE  ImageMessages(m) = ImageRest(w, h, 0)
<1> DEFINE per == RowsPerMessage(w)
           c == CountOf(w, h)
           begin == [type |-> "ImageBegin", x |-> (ScreenWidth - w) \div 2, y |-> (ScreenHeight - h) \div 2,
                     width |-> w, height |-> h]
           end == [type |-> "ImageEnd"]
           part(k) == [type |-> "ImageRows", row |-> (k - 1) * per,
                       bytes |-> 2 * w * LesserOf(per, h - (k - 1) * per)]
           parts == [k \in 1 .. c |-> part(k)]
<1>1. c \in Nat \ {0}
  BY PartsAreAll
<1>2. ImageMessages(m) = <<begin>> \o parts \o <<end>>
  BY DEF ImageMessages, CountOf
<1>3. /\ Item(w, h, 1) = begin
      /\ Item(w, h, c + 2) = end
      /\ \A k \in 1 .. c : Item(w, h, k + 1) = part(k)
  <2>1. Item(w, h, 1) = begin
    BY DEF Item
  <2>2. Item(w, h, c + 2) = end
    BY <1>1 DEF Item
  <2>3. ASSUME NEW k \in 1 .. c PROVE Item(w, h, k + 1) = part(k)
    <3>1. k + 1 # 1 /\ k + 1 # c + 2 /\ (k + 1) - 1 = k
      BY <1>1
    <3> HIDE DEF c
    <3>2. RowsBefore(w, k) = (k - 1) * per /\ RowsOf(w, h, k) = LesserOf(per, h - (k - 1) * per)
      BY DEF RowsBefore, RowsOf
    <3>3. Item(w, h, k + 1) = [type |-> "ImageRows", row |-> RowsBefore(w, k), bytes |-> 2 * w * RowsOf(w, h, k)]
      BY <3>1 DEF Item, c
    <3> QED
      BY <3>2, <3>3
  <2> QED
    BY <2>1, <2>2, <2>3
<1> HIDE DEF c, begin, end, part
<1>4. /\ parts \in Seq({part(k) : k \in 1 .. c}) /\ Len(parts) = c
      /\ \A k \in 1 .. c : parts[k] = part(k)
  <2>1. parts \in [1 .. c -> {part(k) : k \in 1 .. c}]
    OBVIOUS
  <2> QED
    BY <1>1, <2>1, Counted
<1> DEFINE all == <<begin>> \o parts \o <<end>>
<1> HIDE DEF parts
<1>5. /\ all \in Seq({begin, end} \cup {part(k) : k \in 1 .. c}) /\ Len(all) = c + 2
      /\ all[1] = begin /\ all[c + 2] = end /\ \A k \in 1 .. c : all[k + 1] = parts[k]
  BY <1>1, <1>4
<1> HIDE DEF all
<1>6. all = [i \in 1 .. c + 2 |-> all[i]]
  BY <1>1, <1>5
<1>7. ASSUME NEW i \in 1 .. c + 2 PROVE all[i] = Item(w, h, i)
  <2>1. CASE i = 1
    BY <1>3, <1>5, <2>1
  <2>2. CASE i = c + 2
    BY <1>3, <1>5, <2>2
  <2>3. CASE i # 1 /\ i # c + 2
    <3>1. i - 1 \in 1 .. c /\ (i - 1) + 1 = i
      BY <1>1, <2>3
    <3>2. all[(i - 1) + 1] = parts[i - 1] /\ Item(w, h, (i - 1) + 1) = part(i - 1)
      BY <1>3, <1>5, <3>1
    <3> QED
      BY <1>4, <3>1, <3>2
  <2> QED
    BY <2>1, <2>2, <2>3
<1>8. ImageRest(w, h, 0) = [i \in 1 .. c + 2 |-> Item(w, h, i)]
  <2>1. c + 2 - 0 = c + 2 /\ \A i \in 1 .. c + 2 : 0 + i = i
    BY <1>1
  <2> QED
    BY <2>1 DEF ImageRest, c
<1> QED
  BY <1>2, <1>6, <1>7, <1>8 DEF all

(* The first of what is left, and what is left then.                       *)
LEMMA RestStep ==
  ASSUME NEW w \in Widths, NEW h \in Heights, NEW n \in 0 .. CountOf(w, h) + 1
  PROVE  LET s == ImageRest(w, h, n)
         IN  /\ s # <<>> /\ Head(s) = Item(w, h, n + 1) /\ Tail(s) = ImageRest(w, h, n + 1)
             /\ Tail(s) = <<>> <=> n = CountOf(w, h) + 1
<1> DEFINE c == CountOf(w, h)
           m == c + 2 - n
           item(i) == Item(w, h, i)
           s == [i \in 1 .. m |-> item(n + i)]
           t == [i \in 1 .. m - 1 |-> item((n + 1) + i)]
           S == {item(n + i) : i \in 1 .. m}
<1>1. c \in Nat /\ m \in Nat \ {0} /\ n \in Nat /\ (m = 1 <=> n = c + 1) /\ c + 2 - (n + 1) = m - 1
  BY PartsAreAll
<1>2. ImageRest(w, h, n) = s /\ ImageRest(w, h, n + 1) = t
  BY <1>1 DEF ImageRest
<1> HIDE DEF c, m, item
<1>3. s \in Seq(S) /\ Len(s) = m /\ \A i \in 1 .. m : s[i] = item(n + i)
  <2>1. s \in [1 .. m -> S]
    OBVIOUS
  <2> QED
    BY <1>1, <2>1, Counted
<1> HIDE DEF s, S
<1>4. s # <<>> /\ Head(s) = item(n + 1)
  BY <1>1, <1>3
<1>5. Len(Tail(s)) = m - 1 /\ \A i \in 1 .. m - 1 : Tail(s)[i] = s[i + 1]
  BY <1>1, <1>3
<1>6. Tail(s) = [i \in 1 .. m - 1 |-> Tail(s)[i]] /\ (m = 1 => Tail(s) = <<>>)
  <2> DEFINE u == Tail(s)
  <2>1. u \in Seq(S) /\ Len(u) = m - 1
    BY <1>3, <1>4, <1>5
  <2> HIDE DEF u
  <2>2. u = [i \in 1 .. m - 1 |-> u[i]] /\ (m = 1 => u = <<>>)
    BY <1>1, <2>1
  <2> QED
    BY <2>2 DEF u
<1>7. \A i \in 1 .. m - 1 : Tail(s)[i] = item((n + 1) + i)
  <2> TAKE i \in 1 .. m - 1
  <2>1. i + 1 \in 1 .. m /\ n + (i + 1) = (n + 1) + i
    BY <1>1
  <2> QED
    BY <1>3, <1>5, <2>1
<1>8. Tail(s) = t
  BY <1>6, <1>7
<1>9. Tail(s) = <<>> <=> m = 1
  <2>1. Tail(s) = <<>> => m - 1 = 0
    BY <1>5
  <2> QED
    BY <1>1, <1>6, <2>1
<1> QED
  BY <1>1, <1>2, <1>4, <1>8, <1>9 DEF c, item

-----------------------------------------------------------------------------
(* What is on its way to the device.                                       *)

\* What is to be sent are messages that stand alone, or the rest of an image of which the
\* firmware has what was before.
PlainLeft(rest) == \E S : rest \in Seq(S) /\ \A x \in S : Plain(x)
ImageLeft(rest, with) ==
  \E w \in Widths, h \in Heights : \E n \in 0 .. CountOf(w, h) + 2 :
    /\ rest = ImageRest(w, h, n)
    /\ n \in 1 .. CountOf(w, h) + 1 => with = UnderWay(w, h, n)

\* Only settings that were checked are in use, and nothing is left of what has ended.
Fitting ==
  /\ outcome \in {"idle", "told", "done", "sending"}
  /\ section # None => section \in PluginSection /\ SectionValid(section) /\ ParamsValid(section)
  /\ outcome # "sending" => sending = <<>>
  /\ PlainLeft(sending) \/ ImageLeft(sending, transfer)

(* A message alone, or none.                                               *)
LEMMA OnePlain == PlainLeft(<<>>) /\ \A x : Plain(x) => PlainLeft(<<x>>)
<1> DEFINE E == {}
<1>1. <<>> \in Seq(E) /\ \A x \in E : Plain(x)
  OBVIOUS
<1>2. ASSUME NEW x, Plain(x) PROVE PlainLeft(<<x>>)
  <2> DEFINE S == {x}
  <2>1. <<x>> \in Seq(S) /\ \A y \in S : Plain(y)
    BY <1>2
  <2> HIDE DEF S
  <2> QED
    BY <2>1 DEF PlainLeft
<1> HIDE DEF E
<1>3. PlainLeft(<<>>)
  BY <1>1 DEF PlainLeft
<1> QED
  BY <1>2, <1>3

(* The start of an image.                                                  *)
LEMMA ImageStarts ==
  ASSUME NEW m \in Messages, m.type = "ImageFrame", Validate(m), NEW with
  PROVE  ImageLeft(ImageMessages(m), with)
<1>1. m.width \in Widths /\ m.height \in Heights
  BY DEF Validate, Widths, Heights
<1> DEFINE w == m.width
           h == m.height
<1>2. ImageMessages(m) = ImageRest(w, h, 0)
  BY <1>1, ImageIs
<1>3. 0 \in 0 .. CountOf(w, h) + 2 /\ 0 \notin 1 .. CountOf(w, h) + 1
  BY <1>1, PartsAreAll
<1> HIDE DEF w, h
<1> QED
  BY <1>1, <1>2, <1>3 DEF ImageLeft, w, h

(* Nothing is sent before the settings are read.                           *)
LEMMA InitFitting == ContentInit => Fitting
  BY OnePlain DEF ContentInit, Fitting

(* The settings that are taken fit what is made of them.                   *)
LEMMA ConfigureFits == Fitting /\ Configure => Fitting'
<1> SUFFICES ASSUME Fitting, Configure PROVE Fitting'
  OBVIOUS
<1>1. PICK s \in Sections :
        /\ SectionValid(s) /\ ParamsValid(s) /\ section' = s
        /\ outcome' = IF LaunchFits(s) THEN "idle" ELSE "too long"
  BY DEF Configure
<1>2. s \in PluginSection
  BY ContentAssumption
<1>3. outcome' = "idle"
  BY <1>1, <1>2, SettingsFit
<1>4. outcome = "idle" /\ UNCHANGED <<sending, transfer>>
  BY DEF Configure
<1> QED
  BY <1>1, <1>2, <1>3, <1>4 DEF Fitting

(* A plugin that is accepted is sent an Init that fits.                    *)
LEMMA GreetFits == Fitting /\ Greet => Fitting'
<1> SUFFICES ASSUME Fitting, Greet PROVE Fitting'
  OBVIOUS
<1>1. /\ section # None /\ outcome = "idle" /\ UNCHANGED <<section, sending, transfer>>
      /\ outcome' = IF InitAccepted(section) THEN "idle" ELSE "too long"
  BY DEF Greet
<1>2. outcome' = "idle"
  BY <1>1, SettingsFit DEF Fitting
<1> QED
  BY <1>1, <1>2 DEF Fitting

(* What a plugin says.                                                     *)
LEMMA SayFits == Fitting /\ Say => Fitting'
<1> SUFFICES ASSUME Fitting, Say PROVE Fitting'
  OBVIOUS
<1>1. outcome = "idle" /\ UNCHANGED <<section, transfer>>
  BY DEF Say
<1>2. CASE outcome' = "told" /\ UNCHANGED <<request, sending>>
  BY <1>1, <1>2 DEF Fitting
<1>3. ASSUME NEW m \in Messages, Validate(m), Converts(m), NEW slot \in SlotsOf(m),
             sending' = DeviceMessages(m, granted.motion, slot), outcome' = "sending"
      PROVE  Fitting'
  <2>1. CASE m.type = "ImageFrame"
    <3>1. sending' = ImageMessages(m)
      BY <1>3, <2>1 DEF DeviceMessages
    <3>2. ImageLeft(sending', transfer')
      BY <1>3, <2>1, <3>1, ImageStarts
    <3> QED
      BY <1>1, <1>3, <3>2 DEF Fitting
  <2>2. CASE m.type # "ImageFrame"
    <3>1. sending' = <<>> \/ \E x : Plain(x) /\ sending' = <<x>>
      BY <1>3, <2>2, SaidPlain
    <3>2. PlainLeft(sending')
      BY <3>1, OnePlain
    <3> QED
      BY <1>1, <1>3, <3>2 DEF Fitting
  <2> QED
    BY <2>1, <2>2
<1> QED
  BY <1>2, <1>3 DEF Say

(* What the user asks of the command line.                                 *)
LEMMA CommandFits == Fitting /\ Command => Fitting'
<1> SUFFICES ASSUME Fitting, Command PROVE Fitting'
  OBVIOUS
<1>1. outcome = "idle" /\ UNCHANGED <<section, transfer>>
  BY DEF Command
<1>2. CASE outcome' = "told" /\ UNCHANGED sending
  BY <1>1, <1>2 DEF Fitting
<1>3. ASSUME NEW c \in Commands, CommandValid(c), TrimLoads(c), sending' = Session(c),
             outcome' = IF c.type = "card" /\ c.icon # None /\ ~IconInside(c.icon) THEN "panic" ELSE "sending"
      PROVE  Fitting'
  <2>1. outcome' = "sending"
    <3>1. SUFFICES ASSUME c.type = "card", c.icon # None PROVE IconInside(c.icon)
      BY <1>3
    <3>2. c.icon \in Bitmap /\ IconValid(c.icon)
      BY <1>3, <3>1, ContentAssumption DEF CommandValid
    <3> QED
      BY <3>2, IconsInside
  <2>2. PlainLeft(sending')
    BY <1>3, SessionPlain DEF PlainLeft
  <2> QED
    BY <1>1, <2>1, <2>2 DEF Fitting
<1> QED
  BY <1>2, <1>3 DEF Command

(* The firmware answers, or is of another version.                         *)
LEMMA CheckFits == Fitting /\ Check => Fitting'
<1> SUFFICES ASSUME Fitting, Check PROVE Fitting'
  OBVIOUS
<1>1. sending # <<>> /\ Head(sending).type = "Ping" /\ UNCHANGED <<section, transfer>>
  BY DEF Check
<1>2. CASE sending' = <<>> /\ outcome' = "told"
  BY <1>1, <1>2, OnePlain DEF Fitting
<1>3. CASE sending' = Tail(sending) /\ UNCHANGED outcome
  <2>1. CASE PlainLeft(sending)
    <3>1. PICK S : sending \in Seq(S) /\ \A x \in S : Plain(x)
      BY <2>1 DEF PlainLeft
    <3>2. Tail(sending) \in Seq(S)
      BY <1>1, <3>1
    <3>3. PlainLeft(sending')
      BY <1>3, <3>1, <3>2 DEF PlainLeft
    <3>4. outcome = "sending"
      BY DEF Check
    <3> QED
      BY <1>1, <1>3, <3>3, <3>4 DEF Fitting
  <2>2. CASE ImageLeft(sending, transfer)
    <3>1. PICK w \in Widths, h \in Heights : \E n \in 0 .. CountOf(w, h) + 2 : sending = ImageRest(w, h, n)
      BY <2>2 DEF ImageLeft
    <3>2. PICK n \in 0 .. CountOf(w, h) + 2 : sending = ImageRest(w, h, n)
      BY <3>1
    <3>3. CountOf(w, h) \in Nat
      BY PartsAreAll
    <3>4. n # CountOf(w, h) + 2
      <4>1. SUFFICES ASSUME n = CountOf(w, h) + 2 PROVE sending = <<>>
        BY <1>1
      <4>2. CountOf(w, h) + 2 - n = 0
        BY <3>3, <4>1
      <4> QED
        BY <3>2, <4>2 DEF ImageRest
    <3>5. n \in 0 .. CountOf(w, h) + 1
      BY <3>3, <3>4
    <3>6. Head(sending) = Item(w, h, n + 1)
      BY <3>2, <3>5, RestStep
    <3>7. Item(w, h, n + 1).type # "Ping"
      BY DEF Item
    <3> QED
      BY <1>1, <3>6, <3>7
  <2> QED
    BY <2>1, <2>2 DEF Fitting
<1> QED
  BY <1>2, <1>3 DEF Check

(* A message that has ended.                                               *)
LEMMA SettleFits == Fitting /\ Settle => Fitting'
  BY DEF Fitting, Settle

(* What is taken is not refused.                                           *)
LEMMA TakenAccepted == ASSUME NEW m, TakenWhole(m) PROVE Accepts(m)
  BY DEF TakenWhole, Accepts

\* What Deliver makes of the first message, when nothing is wrong with it.
Passed ==
  /\ sending # <<>> /\ outcome = "sending"
  /\ sending' = Tail(sending)
  /\ outcome' = IF Tail(sending) = <<>> THEN "done" ELSE "sending"

(* A message that every stage takes passes, and nothing is left of it.     *)
LEMMA PlainPasses ==
  ASSUME Deliver, Plain(Head(sending))
  PROVE  Passed /\ transfer' = transfer
<1> DEFINE m == Head(sending)
<1>1. Holds(m) /\ ~(Framed(Bytes(m)) > MaxFrameBytes) /\ Accepts(m)
  BY TakenAccepted DEF Plain
<1>2. m.type \notin {"ImageBegin", "ImageRows", "ImageEnd"}
  BY DEF Plain, TakenWhole
<1>3. /\ sending # <<>> /\ outcome = "sending" /\ sending' = Tail(sending)
      /\ outcome' = IF ~Holds(m) THEN "panic"
                    ELSE IF Framed(Bytes(m)) > MaxFrameBytes THEN "too long"
                    ELSE IF ~Accepts(m) THEN "refused"
                    ELSE IF Tail(sending) = <<>> THEN "done" ELSE "sending"
      /\ transfer' = IF m.type = "ImageBegin" THEN [width |-> m.width, height |-> m.height, next |-> 0]
                     ELSE IF m.type = "ImageEnd" THEN None
                     ELSE IF m.type = "ImageRows" /\ Accepts(m)
                     THEN [transfer EXCEPT !.next = @ + m.bytes \div (2 * transfer.width)]
                     ELSE transfer
  BY DEF Deliver
<1> HIDE DEF m
<1> QED
  BY <1>1, <1>2, <1>3 DEF Passed

(* The firmware has none of an image before its begin, and the begin is    *)
(* accepted for every size.                                                *)
LEMMA BeginPasses ==
  ASSUME Deliver, NEW w \in Widths, NEW h \in Heights, Head(sending) = Item(w, h, 1)
  PROVE  Passed /\ transfer' = UnderWay(w, h, 1)
<1> DEFINE m == Item(w, h, 1)
<1>1. w \in 1 .. 160 /\ h \in 1 .. 120
  BY DEF Widths, Heights, MaxWidth, MaxHeight
<1>2. m = [type |-> "ImageBegin", x |-> (320 - w) \div 2, y |-> (240 - h) \div 2, width |-> w, height |-> h]
  BY DEF Item, ScreenWidth, ScreenHeight
<1> HIDE DEF m
<1>3. m.type = "ImageBegin" /\ m.width = w /\ m.height = h /\ m.x = (320 - w) \div 2 /\ m.y = (240 - h) \div 2
  BY <1>2
<1>4. (320 - w) \div 2 + w <= 320 /\ (240 - h) \div 2 + h <= 240
  BY <1>1
<1>5. Accepts(m)
  BY <1>1, <1>3, <1>4 DEF Accepts, MaxWidth, MaxHeight, ScreenWidth, ScreenHeight
<1>6. Holds(m)
  BY <1>3 DEF Holds
<1>7. Bytes(m) = 20 /\ ~(Framed(20) > MaxFrameBytes)
  BY <1>3, FrameHolds DEF Bytes
<1>8. UnderWay(w, h, 1) = [width |-> w, height |-> h, next |-> 0]
  BY PartsAreAll DEF UnderWay
<1>9. /\ sending # <<>> /\ outcome = "sending" /\ sending' = Tail(sending)
      /\ outcome' = IF ~Holds(m) THEN "panic"
                    ELSE IF Framed(Bytes(m)) > MaxFrameBytes THEN "too long"
                    ELSE IF ~Accepts(m) THEN "refused"
                    ELSE IF Tail(sending) = <<>> THEN "done" ELSE "sending"
      /\ m.type = "ImageBegin" => transfer' = [width |-> m.width, height |-> m.height, next |-> 0]
  BY DEF Deliver, m
<1> QED
  BY <1>3, <1>5, <1>6, <1>7, <1>8, <1>9 DEF Passed

(* The next rows are accepted, and are what the firmware has then.         *)
LEMMA RowsPass ==
  ASSUME Deliver, NEW w \in Widths, NEW h \in Heights, NEW k \in 1 .. CountOf(w, h),
         Head(sending) = Item(w, h, k + 1), transfer = UnderWay(w, h, k)
  PROVE  Passed /\ transfer' = UnderWay(w, h, k + 1)
<1> DEFINE m == Item(w, h, k + 1)
           a == RowsBefore(w, k)
           r == RowsOf(w, h, k)
           bytes == 2 * w * r
           next == LesserOf(RowsBefore(w, k + 1), h)
<1>1. /\ CountOf(w, h) \in Nat /\ a \in Nat /\ a < h /\ r \in Nat \ {0} /\ a + r = next
      /\ bytes \in 1 .. 960
  BY PartIs DEF MaxRowsBytes
<1>2. w \in Nat \ {0} /\ h \in Nat \ {0}
  BY DEF Widths, Heights
<1>3. m = [type |-> "ImageRows", row |-> a, bytes |-> bytes]
  <2>1. k + 1 # 1 /\ k + 1 # CountOf(w, h) + 2 /\ (k + 1) - 1 = k
    BY <1>1
  <2> QED
    BY <2>1 DEF Item
<1>4. transfer = [width |-> w, height |-> h, next |-> a]
  <2>1. LesserOf(a, h) = a
    BY <1>1, <1>2 DEF LesserOf
  <2> QED
    BY <2>1 DEF UnderWay
<1>5. UnderWay(w, h, k + 1) = [width |-> w, height |-> h, next |-> next]
  BY DEF UnderWay
<1>6. bytes % (2 * w) = 0 /\ bytes \div (2 * w) = r
  <2> DEFINE d == 2 * w
  <2>1. d \in Nat \ {0} /\ r \in Nat
    BY <1>1, <1>2
  <2> HIDE DEF d, r
  <2>2. (d * r) % d = 0 /\ (d * r) \div d = r
    BY <2>1
  <2> QED
    BY <2>2 DEF d
<1>7. next <= h
  <2>1. RowsBefore(w, k + 1) \in Int \/ next = h
    BY <1>1, <1>2 DEF LesserOf
  <2> QED
    BY <1>1, <1>2, <2>1 DEF LesserOf
<1> HIDE DEF m, a, r, bytes, next
<1>8. m.type = "ImageRows" /\ m.row = a /\ m.bytes = bytes
  BY <1>3
<1>9. transfer # None /\ transfer.width = w /\ transfer.height = h /\ transfer.next = a
  <2>1. "width" \in DOMAIN transfer /\ "width" \notin DOMAIN None
    BY <1>4 DEF None
  <2> QED
    BY <1>4, <2>1
<1>10. Accepts(m)
  <2>1. m.bytes > 0 /\ m.bytes % (2 * transfer.width) = 0 /\ m.row = transfer.next
        /\ m.row + m.bytes \div (2 * transfer.width) <= transfer.height
    BY <1>1, <1>6, <1>7, <1>8, <1>9
  <2> QED
    BY <1>8, <1>9, <2>1 DEF Accepts
<1>11. Holds(m)
  BY <1>1, <1>8 DEF Holds, MaxRowsBytes
<1>12. Bytes(m) = 9 + bytes /\ ~(Framed(9 + bytes) > MaxFrameBytes)
  <2>1. 9 + bytes \in Nat /\ 9 + bytes <= 1018
    BY <1>1
  <2> QED
    BY <1>8, <2>1, FrameHolds DEF Bytes
<1>13. /\ sending # <<>> /\ outcome = "sending" /\ sending' = Tail(sending)
       /\ outcome' = IF ~Holds(m) THEN "panic"
                     ELSE IF Framed(Bytes(m)) > MaxFrameBytes THEN "too long"
                     ELSE IF ~Accepts(m) THEN "refused"
                     ELSE IF Tail(sending) = <<>> THEN "done" ELSE "sending"
       /\ m.type = "ImageRows" /\ Accepts(m) =>
            transfer' = [transfer EXCEPT !.next = @ + m.bytes \div (2 * transfer.width)]
  BY DEF Deliver, m
<1>14. transfer' = [transfer EXCEPT !.next = next]
  <2>1. transfer.next + m.bytes \div (2 * transfer.width) = next
    BY <1>1, <1>6, <1>8, <1>9
  <2> QED
    BY <1>8, <1>10, <1>13, <2>1
<1>15. transfer' = UnderWay(w, h, k + 1)
  BY <1>4, <1>5, <1>14
<1> QED
  BY <1>10, <1>11, <1>12, <1>13, <1>15 DEF Passed

(* At the end the firmware has all rows.                                   *)
LEMMA EndPasses ==
  ASSUME Deliver, NEW w \in Widths, NEW h \in Heights,
         Head(sending) = Item(w, h, CountOf(w, h) + 2), transfer = UnderWay(w, h, CountOf(w, h) + 1)
  PROVE  Passed
<1> DEFINE c == CountOf(w, h)
           m == Item(w, h, c + 2)
<1>1. c \in Nat \ {0} /\ LesserOf(RowsBefore(w, c + 1), h) = h
  BY PartsAreAll
<1>2. m = [type |-> "ImageEnd"]
  BY <1>1 DEF Item
<1>3. transfer = [width |-> w, height |-> h, next |-> h]
  BY <1>1 DEF UnderWay
<1>4. transfer # None /\ transfer.next = transfer.height
  <2>1. "width" \in DOMAIN transfer /\ "width" \notin DOMAIN None
    BY <1>3 DEF None
  <2> QED
    BY <1>3, <2>1
<1> HIDE DEF m, c
<1>5. m.type = "ImageEnd"
  BY <1>2
<1>6. Accepts(m) /\ Holds(m)
  BY <1>4, <1>5 DEF Accepts, Holds
<1>7. Bytes(m) = 20 /\ ~(Framed(20) > MaxFrameBytes)
  BY <1>5, FrameHolds DEF Bytes
<1>8. /\ sending # <<>> /\ outcome = "sending" /\ sending' = Tail(sending)
      /\ outcome' = IF ~Holds(m) THEN "panic"
                    ELSE IF Framed(Bytes(m)) > MaxFrameBytes THEN "too long"
                    ELSE IF ~Accepts(m) THEN "refused"
                    ELSE IF Tail(sending) = <<>> THEN "done" ELSE "sending"
  BY DEF Deliver, m, c
<1> QED
  BY <1>6, <1>7, <1>8 DEF Passed

(* Every message passes.                                                   *)
LEMMA DeliverFits == Fitting /\ Deliver => Fitting'
<1> SUFFICES ASSUME Fitting, Deliver PROVE Fitting'
  OBVIOUS
<1>1. sending # <<>> /\ UNCHANGED section
  BY DEF Deliver
<1>2. ASSUME Passed, PlainLeft(sending') \/ ImageLeft(sending', transfer')
      PROVE  Fitting'
  BY <1>1, <1>2 DEF Fitting, Passed
<1>3. CASE PlainLeft(sending)
  <2>1. PICK S : sending \in Seq(S) /\ \A x \in S : Plain(x)
    BY <1>3 DEF PlainLeft
  <2>2. Head(sending) \in S /\ Tail(sending) \in Seq(S)
    BY <1>1, <2>1
  <2>3. Passed
    BY <2>1, <2>2, PlainPasses
  <2>4. PlainLeft(sending')
    BY <2>1, <2>2, <2>3 DEF Passed, PlainLeft
  <2> QED
    BY <1>2, <2>3, <2>4
<1>4. CASE ImageLeft(sending, transfer)
  <2>1. PICK w \in Widths, h \in Heights : \E n \in 0 .. CountOf(w, h) + 2 :
          /\ sending = ImageRest(w, h, n)
          /\ n \in 1 .. CountOf(w, h) + 1 => transfer = UnderWay(w, h, n)
    BY <1>4 DEF ImageLeft
  <2> DEFINE c == CountOf(w, h)
  <2>2. PICK n \in 0 .. c + 2 : /\ sending = ImageRest(w, h, n)
                                /\ n \in 1 .. c + 1 => transfer = UnderWay(w, h, n)
    BY <2>1
  <2>3. c \in Nat \ {0}
    BY PartsAreAll
  <2>4. n # c + 2
    <3>1. SUFFICES ASSUME n = c + 2 PROVE sending = <<>>
      BY <1>1
    <3>2. c + 2 - n = 0
      BY <2>3, <3>1
    <3> QED
      BY <2>2, <3>2 DEF ImageRest
  <2>5. n \in 0 .. c + 1 /\ n + 1 \in 0 .. c + 2
    BY <2>3, <2>4
  <2>6. Head(sending) = Item(w, h, n + 1) /\ Tail(sending) = ImageRest(w, h, n + 1)
    BY <2>2, <2>5, RestStep
  <2>7. ASSUME Passed, n + 1 \in 1 .. c + 1 => transfer' = UnderWay(w, h, n + 1)
        PROVE  Fitting'
    <3>1. sending' = ImageRest(w, h, n + 1)
      BY <2>6, <2>7 DEF Passed
    <3>2. ImageLeft(sending', transfer')
      BY <2>5, <2>7, <3>1 DEF ImageLeft
    <3> QED
      BY <1>2, <2>7, <3>2
  <2>8. CASE n = 0
    <3>1. n + 1 = 1
      BY <2>8
    <3> QED
      BY <2>6, <2>7, <3>1, BeginPasses
  <2>9. CASE n \in 1 .. c
    <3>1. transfer = UnderWay(w, h, n)
      BY <2>2, <2>3, <2>9
    <3>2. Passed /\ transfer' = UnderWay(w, h, n + 1)
      BY <2>6, <2>9, <3>1, RowsPass
    <3> QED
      BY <2>7, <3>2
  <2>10. CASE n = c + 1
    <3>1. n + 1 = c + 2 /\ n + 1 \notin 1 .. c + 1 /\ n \in 1 .. c + 1
      BY <2>3, <2>10
    <3>2. transfer = UnderWay(w, h, c + 1) /\ Head(sending) = Item(w, h, c + 2)
      BY <2>2, <2>6, <2>10, <3>1
    <3>3. Passed
      BY <3>2, EndPasses
    <3> QED
      BY <2>7, <3>1, <3>3
  <2> QED
    BY <2>3, <2>5, <2>8, <2>9, <2>10
<1> QED
  BY <1>3, <1>4 DEF Fitting

-----------------------------------------------------------------------------
(* The settings of the device.                                             *)

(* The ten names of the settings, and those of the version before.         *)
LEMMA NamesAre ==
  /\ Len(Names) = 10
  /\ \A i, j \in 1 .. 10 : Names[i] = Names[j] => i = j
  /\ \A i \in 1 .. 10 : Names[i] # "version"
  /\ SettingNames = {Names[i] : i \in 1 .. 10}
  /\ Needed("1") = {Names[i] : i \in 1 .. 8}
  /\ Needed("2") = SettingNames
<1>1. Len(Names) = 10
  BY DEF Names
<1>2. \A i, j \in 1 .. 10 : Names[i] = Names[j] => i = j
  BY DEF Names
<1>3. \A i \in 1 .. 10 : Names[i] # "version"
  BY DEF Names
<1>4. Names[9] = "expression" /\ Names[10] = "speech_pace"
  BY DEF Names
<1>5. SettingNames = {Names[i] : i \in 1 .. 10}
  <2>1. \A i : i \in 1 .. 10 <=> i \in 1 .. 7 \/ i \in 8 .. 10
    OBVIOUS
  <2> QED
    BY <2>1 DEF SettingNames, Flags, Paces
<1>6. Needed("1") = {Names[i] : i \in 1 .. 8}
  <2>1. Needed("1") = {Names[i] : i \in 1 .. 10} \ {Names[9], Names[10]}
    BY <1>4, <1>5 DEF Needed
  <2>2. \A i \in 1 .. 10 : i \in 1 .. 8 <=> Names[i] \notin {Names[9], Names[10]}
    BY <1>2
  <2>3. \A i \in 1 .. 8 : i \in 1 .. 10
    OBVIOUS
  <2> QED
    BY <2>1, <2>2, <2>3
<1>7. Needed("2") = SettingNames
  BY DEF Needed
<1> QED
  BY <1>1, <1>2, <1>3, <1>5, <1>6, <1>7

\* Settings of the right kinds, and the lines of their first n items.
AnySettings == {s \in [SettingNames -> UNION {SettingItems[k] : k \in SettingNames}] :
               \A k \in SettingNames : s[k] \in SettingItems[k]}
LinesFor(s, n, version) ==
  [i \in 1 .. n + 1 |-> IF i = 1 THEN LineFor("version", version) ELSE LineFor(Names[i - 1], s[Names[i - 1]])]

(* What is parsed of such lines: each item as it was, the others at their  *)
(* defaults.                                                               *)
LEMMA LinesParse ==
  ASSUME NEW s \in AnySettings, NEW n \in 1 .. 10, NEW version \in {"1", "2"},
         Needed(version) = {Names[i] : i \in 1 .. n}
  PROVE  ParseSettings(LinesFor(s, n, version)) =
           [ok |-> TRUE,
            settings |-> [k \in SettingNames |-> IF k \in Needed(version) THEN s[k] ELSE DefaultSettings[k]]]
<1> DEFINE lines == LinesFor(s, n, version)
<1>1. Len(lines) = n + 1 /\ lines[1].key = "version" /\ lines[1].item = version
  BY DEF LinesFor, LineFor
<1>2. \A i \in 2 .. n + 1 : lines[i].key = Names[i - 1] /\ lines[i].item = s[Names[i - 1]]
  BY DEF LinesFor, LineFor
<1> HIDE DEF lines
<1>3. \A i \in 2 .. n + 1 : i - 1 \in 1 .. n /\ i - 1 \in 1 .. 10
  OBVIOUS
<1>4. \A i \in 1 .. n + 1 : i = 1 \/ i \in 2 .. n + 1
  OBVIOUS
<1>5. \A i \in 1 .. n + 1 : lines[i].key = "version" => i = 1
  BY <1>2, <1>3, <1>4, NamesAre
<1>6. 1 \in 1 .. n + 1
  OBVIOUS
<1>7. Once(lines, "version")
  BY <1>1, <1>5, <1>6 DEF Once
<1>8. ItemOf(lines, "version") = version
  BY <1>1, <1>5, <1>6 DEF ItemOf
<1>9. ASSUME NEW k \in Needed(version)
      PROVE  Once(lines, k) /\ ItemOf(lines, k) = s[k]
  <2>1. PICK j \in 1 .. n : k = Names[j]
    OBVIOUS
  <2> DEFINE i == j + 1
  <2>2. i \in 2 .. n + 1 /\ i \in 1 .. n + 1 /\ i - 1 = j
    OBVIOUS
  <2>3. lines[i].key = k /\ lines[i].item = s[k]
    BY <1>2, <2>1, <2>2
  <2>4. ASSUME NEW l \in 1 .. n + 1, lines[l].key = k PROVE l = i
    <3>1. l # 1
      BY <1>1, <2>1, <2>4, NamesAre
    <3>2. l \in 2 .. n + 1 /\ l - 1 \in 1 .. 10 /\ j \in 1 .. 10
      BY <3>1
    <3>3. Names[l - 1] = Names[j]
      BY <1>2, <2>1, <2>4, <3>2
    <3>4. l - 1 = j
      BY <3>2, <3>3, NamesAre
    <3> QED
      BY <3>4
  <2> HIDE DEF i
  <2>5. Once(lines, k)
    BY <1>1, <2>2, <2>3, <2>4 DEF Once
  <2>6. ItemOf(lines, k) = s[k]
    BY <1>1, <2>2, <2>3, <2>4 DEF ItemOf
  <2> QED
    BY <2>5, <2>6
<1>10. ASSUME NEW k \in SettingNames, k \notin Needed(version) PROVE Missing(lines, k)
  <2>1. k # "version"
    BY NamesAre
  <2>2. \A i \in 2 .. n + 1 : lines[i].key # k
    BY <1>2, <1>3, <1>10
  <2> QED
    BY <1>1, <1>4, <2>1, <2>2 DEF Missing
<1>11. ASSUME NEW i \in 1 .. n + 1 PROVE Known(lines[i])
  <2>1. CASE i = 1
    BY <1>1, <2>1 DEF Known
  <2>2. CASE i \in 2 .. n + 1
    <3>1. Names[i - 1] \in SettingNames
      BY <1>3, <2>2, NamesAre
    <3>2. s[Names[i - 1]] \in SettingItems[Names[i - 1]]
      BY <3>1 DEF AnySettings
    <3> QED
      BY <1>2, <2>2, <3>1, <3>2 DEF Known
  <2> QED
    BY <1>4, <2>1, <2>2
<1>12. \A k \in SettingNames : (IF k \in Needed(version) THEN ItemOf(lines, k) ELSE DefaultSettings[k])
                               = (IF k \in Needed(version) THEN s[k] ELSE DefaultSettings[k])
  BY <1>9
<1>13. ParseSettings(lines) =
         [ok |-> TRUE, settings |-> [k \in SettingNames |->
            IF k \in Needed(version) THEN ItemOf(lines, k) ELSE DefaultSettings[k]]]
  BY <1>1, <1>7, <1>8, <1>9, <1>10, <1>11 DEF ParseSettings
<1> QED
  BY <1>12, <1>13 DEF lines

(* Settings are read as they were saved, those of the version before with  *)
(* defaults for what it did not have, and they fit (settings.rs).          *)
LEMMA KeepFits == Fitting /\ KeepSettings => Fitting'
<1> SUFFICES ASSUME Fitting, KeepSettings PROVE Fitting'
  OBVIOUS
<1>1. outcome = "idle" /\ UNCHANGED <<section, sending, transfer>>
  BY DEF KeepSettings
<1> DEFINE S(flags, paces) == [k \in SettingNames |-> IF k \in Flags THEN flags[k] ELSE paces[k]]
           Older(s) == [k \in SettingNames |-> IF k \in Needed("1") THEN s[k] ELSE DefaultSettings[k]]
<1>2. PICK flags \in [Flags -> {"true", "false"}], paces \in [Paces -> {"quiet", "normal", "lively"}] :
        LET s     == S(flags, paces)
            lines == EncodeSettings(s)
            read  == ParseSettings(lines)
            then  == ParseSettings(OlderLines(lines))
        IN  outcome' = IF EncodedBytes(lines) > MaxConfigBytes THEN "panic"
                       ELSE IF ~read.ok \/ ~then.ok THEN "refused"
                       ELSE IF read.settings # s \/ then.settings # Older(s) THEN "changed" ELSE "done"
  BY DEF KeepSettings
<1> DEFINE s == S(flags, paces)
           lines == EncodeSettings(s)
<1>3. ASSUME NEW k \in SettingNames PROVE s[k] \in SettingItems[k]
  <2>1. k \in Flags \/ k \in Paces
    BY DEF SettingNames
  <2> QED
    BY <2>1 DEF SettingItems
<1>4. s \in AnySettings
  <2>1. s \in [SettingNames -> UNION {SettingItems[k] : k \in SettingNames}]
    BY <1>3
  <2> QED
    BY <1>3, <2>1 DEF AnySettings
<1> HIDE DEF s
<1>5. lines = LinesFor(s, 10, "2")
  BY NamesAre DEF EncodeSettings, LinesFor
<1>6. Len(lines) = 11
  BY <1>5 DEF LinesFor
<1>7. OlderLines(lines) = LinesFor(s, 8, "1")
  <2>1. \A i \in 1 .. 9 : i \in 1 .. 11
    OBVIOUS
  <2>2. LinesFor(s, 8, "1")
         = [i \in 1 .. 9 |-> IF i = 1 THEN LineFor("version", "1") ELSE LineFor(Names[i - 1], s[Names[i - 1]])]
    BY DEF LinesFor
  <2>3. \A i \in 1 .. 9 : i # 1 => lines[i] = LineFor(Names[i - 1], s[Names[i - 1]])
    BY <1>5, <2>1 DEF LinesFor
  <2>4. OlderLines(lines) = [i \in 1 .. 9 |-> IF i = 1 THEN LineFor("version", "1") ELSE lines[i]]
    BY <1>6 DEF OlderLines
  <2> HIDE DEF lines
  <2> QED
    BY <2>2, <2>3, <2>4
<1> HIDE DEF lines
<1>8. ParseSettings(lines) = [ok |-> TRUE, settings |-> s]
  <2>1. ParseSettings(lines) =
          [ok |-> TRUE, settings |-> [k \in SettingNames |-> IF k \in Needed("2") THEN s[k] ELSE DefaultSettings[k]]]
    BY <1>4, <1>5, NamesAre, LinesParse
  <2>2. [k \in SettingNames |-> IF k \in Needed("2") THEN s[k] ELSE DefaultSettings[k]] = s
    BY <1>4, NamesAre DEF AnySettings
  <2> QED
    BY <2>1, <2>2
<1>9. ParseSettings(OlderLines(lines)) = [ok |-> TRUE, settings |-> Older(s)]
  <2>1. Needed("1") = {Names[i] : i \in 1 .. 8} /\ 8 \in 1 .. 10 /\ "1" \in {"1", "2"}
    BY NamesAre
  <2>2. ParseSettings(LinesFor(s, 8, "1")) = [ok |-> TRUE, settings |-> Older(s)]
    BY <1>4, <2>1, LinesParse
  <2> QED
    BY <1>7, <2>2
<1>10. ~(EncodedBytes(lines) > MaxConfigBytes)
  BY <1>6 DEF EncodedBytes, MaxConfigBytes
<1>11. outcome' = "done"
  BY <1>2, <1>8, <1>9, <1>10 DEF s, lines
<1> QED
  BY <1>1, <1>11 DEF Fitting

-----------------------------------------------------------------------------
(* Strings in quotes.                                                      *)

\* The strings; that a sign is one is not known to the provers.
Keywords  == {"true", "false", "notify", "status", "input", "text", "priority", "ttl_s", "activity", "detail", "mode"}
Character == STRING \cup Digits \cup Control \cup Signs \cup Keywords \cup Priorities \cup Activities \cup Modes

(* The signs are characters, and so are the words of the notation.         *)
LEMMA SignsAre ==
  /\ {"\"", "\\", "[", "]", "=", "#", ",", "space", "newline", "bell"} \subseteq Character
  /\ Keywords \cup Priorities \cup Activities \cup Modes \cup Digits \subseteq Character
  BY DEF Character, Control, Signs

(* A sequence of strings is a text.                                        *)
LEMMA TextsAre == ASSUME NEW s \in Seq(STRING) PROVE s \in Seq(Character)
<1>1. STRING \subseteq Character
  BY DEF Character
<1> DEFINE S == STRING
<1>2. s \in Seq(S) /\ S \subseteq Character
  BY <1>1
<1> HIDE DEF S
<1> QED
  BY <1>2

(* One element as a sequence.                                              *)
LEMMA OneOf ==
  ASSUME NEW S, NEW a \in S
  PROVE  <<a>> \in Seq(S) /\ Len(<<a>>) = 1 /\ <<a>>[1] = a
  OBVIOUS

(* Two elements likewise.                                                   *)
LEMMA TwoOf ==
  ASSUME NEW S, NEW a \in S, NEW b \in S
  PROVE  <<a, b>> \in Seq(S) /\ Len(<<a, b>>) = 2 /\ <<a, b>>[1] = a /\ <<a, b>>[2] = b
  OBVIOUS

ReadingPlaces  == {"next", "first", "inside", "escape", "behind", "closed", "wrong"}
Reading == [at : ReadingPlaces, value : Seq(Character), items : Seq(Seq(Character))]

(* A character leads from a state of the reader to another.                *)
LEMMA StepType == ASSUME NEW p \in Reading, NEW c \in Character PROVE StringStep(p, c) \in Reading
<1> DEFINE At1(where) == [p EXCEPT !.at = where]
           Taken1 == [at |-> "inside", value |-> Append(p.value, c), items |-> p.items]
           Kept1(where) == [at |-> where, value |-> <<>>, items |-> Append(p.items, p.value)]
<1>1. p.value \in Seq(Character) /\ p.items \in Seq(Seq(Character)) /\ p.at \in ReadingPlaces
  BY DEF Reading
<1>2. \A where \in ReadingPlaces : At1(where) \in Reading
  BY DEF Reading
<1>3. Taken1 \in Reading
  <2>1. Append(p.value, c) \in Seq(Character) /\ "inside" \in ReadingPlaces
    BY <1>1 DEF ReadingPlaces
  <2> QED
    BY <2>1 DEF Reading
<1>4. \A where \in ReadingPlaces : Kept1(where) \in Reading
  <2>1. Append(p.items, p.value) \in Seq(Seq(Character)) /\ <<>> \in Seq(Character)
    BY <1>1
  <2> QED
    BY <2>1 DEF Reading
<1>5. StringStep(p, c) \in {At1("behind"), At1("escape"), At1("wrong"), At1("inside"), At1("closed"), Taken1,
                            Kept1("next"), Kept1("closed"), p}
  BY DEF StringStep
<1> HIDE DEF At1, Taken1, Kept1
<1> QED
  BY <1>2, <1>3, <1>4, <1>5 DEF ReadingPlaces

\* The states through which s leads from p.
Passing(p, s, f) ==
  /\ f \in [0 .. Len(s) -> Reading]
  /\ f[0] = p /\ \A k \in 1 .. Len(s) : f[k] = StringStep(f[k - 1], s[k])

(* There are such states, and the last of them is where s leads.           *)
LEMMA ThroughIs ==
  ASSUME NEW p \in Reading, NEW s \in Seq(Character)
  PROVE  \E f : Passing(p, s, f) /\ Through(p, s) = f[Len(s)]
<1> DEFINE n == Len(s)
           step == [q \in (1 .. n) \X Reading |-> StringStep(q[2], s[q[1]])]
           Is(f) == f = [k \in 0 .. n |-> IF k = 0 THEN p ELSE StringStep(f[k - 1], s[k])]
<1>1. n \in Nat /\ \A k \in 1 .. n : s[k] \in Character
  OBVIOUS
<1>2. \A k \in 1 .. n, q \in Reading : StringStep(q, s[k]) \in Reading
  BY <1>1, StepType
<1>3. step \in Stepping(n, Reading) /\ \A k \in 1 .. n, q \in Reading : step[<<k, q>>] = StringStep(q, s[k])
  BY <1>2 DEF Stepping
<1> HIDE DEF step
<1>4. PICK f : f \in Built(Reading, p, n, step)
  <2> HIDE DEF n
  <2> QED
    BY <1>1, <1>3, Recursion, Zenon
<1>5. f \in [0 .. n -> Reading]
  BY <1>4 DEF Built
<1>6. ASSUME NEW k \in 0 .. n PROVE f[k] = IF k = 0 THEN p ELSE StringStep(f[k - 1], s[k])
  <2>1. k # 0 => k \in 1 .. n /\ k - 1 \in 0 .. n
    BY <1>1
  <2>2. k # 0 => f[k - 1] \in Reading
    BY <1>5, <2>1
  <2>3. f[k] = IF k = 0 THEN p ELSE step[<<k, f[k - 1]>>]
    BY <1>4 DEF Built
  <2> QED
    BY <1>3, <2>1, <2>2, <2>3
<1>7. Is(f)
  BY <1>5, <1>6
<1> DEFINE g == CHOOSE x : Is(x)
<1>8. Is(g)
  BY <1>7
<1>9. Through(p, s) = g[n]
  BY DEF Through
<1> HIDE DEF g
<1>10. \A k \in 0 .. n : g[k] = IF k = 0 THEN p ELSE StringStep(g[k - 1], s[k])
  BY <1>8
<1> DEFINE Bad == {k \in 0 .. n : g[k] \notin Reading}
<1>11. ASSUME NEW k \in Bad, \A j \in Bad : k <= j PROVE FALSE
  <2>1. k \in 0 .. n /\ g[k] \notin Reading
    OBVIOUS
  <2>2. k # 0
    BY <1>10, <2>1
  <2>3. k - 1 \in 0 .. n /\ k \in 1 .. n /\ k - 1 < k
    BY <1>1, <2>1, <2>2
  <2>4. g[k - 1] \in Reading
    BY <1>11, <2>3
  <2>5. g[k] = StringStep(g[k - 1], s[k])
    BY <1>10, <2>1, <2>2
  <2> QED
    BY <1>2, <2>1, <2>3, <2>4, <2>5
<1>12. Bad \in SUBSET Nat
  OBVIOUS
<1> HIDE DEF Bad
<1>13. Bad = {}
  BY <1>11, <1>12, LeastNatural
<1>14. g \in [0 .. n -> Reading]
  BY <1>8, <1>13 DEF Bad
<1>15. g[0] = p /\ \A k \in 1 .. n : g[k] = StringStep(g[k - 1], s[k])
  BY <1>1, <1>10
<1> QED
  BY <1>9, <1>14, <1>15 DEF Passing

(* A string leads to a state of the reader.                                *)
LEMMA ThroughType == ASSUME NEW p \in Reading, NEW s \in Seq(Character) PROVE Through(p, s) \in Reading
<1>1. PICK f : Passing(p, s, f) /\ Through(p, s) = f[Len(s)]
  BY ThroughIs
<1>2. Len(s) \in 0 .. Len(s)
  OBVIOUS
<1> QED
  BY <1>1, <1>2 DEF Passing

(* One more character leads a step further.                                *)
LEMMA ThroughMore ==
  ASSUME NEW p \in Reading, NEW s \in Seq(Character), NEW c \in Character
  PROVE  Through(p, Append(s, c)) = StringStep(Through(p, s), c)
<1> DEFINE n == Len(s)
           t == Append(s, c)
<1>1. PICK f : Passing(p, s, f) /\ Through(p, s) = f[n]
  BY ThroughIs
<1>2. t \in Seq(Character) /\ Len(t) = n + 1 /\ t[n + 1] = c /\ (\A k \in 1 .. n : t[k] = s[k]) /\ n \in Nat
  BY AppendProperties
<1> HIDE DEF t, n
<1>3. PICK g : Passing(p, t, g) /\ Through(p, t) = g[Len(t)]
  BY <1>2, ThroughIs
<1> DEFINE Bad == {k \in 0 .. n : f[k] # g[k]}
<1>4. ASSUME NEW k \in Bad, \A j \in Bad : k <= j PROVE FALSE
  <2>1. k \in 0 .. n /\ f[k] # g[k]
    OBVIOUS
  <2>2. k # 0
    BY <1>1, <1>3, <2>1 DEF Passing
  <2>3. k - 1 \in 0 .. n /\ k \in 1 .. n /\ k \in 1 .. n + 1 /\ k - 1 < k
    BY <1>2, <2>1, <2>2
  <2>4. f[k - 1] = g[k - 1]
    BY <1>4, <2>3
  <2>5. f[k] = StringStep(f[k - 1], s[k]) /\ g[k] = StringStep(g[k - 1], t[k])
    BY <1>1, <1>2, <1>3, <2>3 DEF Passing, n
  <2> QED
    BY <1>2, <2>1, <2>3, <2>4, <2>5
<1>5. Bad \in SUBSET Nat
  BY <1>2
<1> HIDE DEF Bad
<1>6. Bad = {}
  BY <1>4, <1>5, LeastNatural
<1>7. f[n] = g[n]
  <2>1. n \in 0 .. n
    BY <1>2
  <2> QED
    BY <1>6, <2>1 DEF Bad
<1>8. g[n + 1] = StringStep(g[n], c)
  <2>1. n + 1 \in 1 .. Len(t) /\ (n + 1) - 1 = n
    BY <1>2
  <2> QED
    BY <1>2, <1>3, <2>1 DEF Passing
<1> QED
  BY <1>1, <1>2, <1>3, <1>7, <1>8 DEF t

(* Nothing leads nowhere.                                                  *)
LEMMA ThroughNothing == ASSUME NEW p \in Reading PROVE Through(p, <<>>) = p
<1>1. <<>> \in Seq(Character) /\ Len(<<>>) = 0
  OBVIOUS
<1>2. PICK f : Passing(p, <<>>, f) /\ Through(p, <<>>) = f[Len(<<>>)]
  BY <1>1, ThroughIs
<1> QED
  BY <1>1, <1>2 DEF Passing

\* The text with its signs escaped, after its first k characters.
Escaping(text, f) ==
  /\ f \in [0 .. Len(text) -> Seq(Character)]
  /\ f[0] = <<>> /\ \A k \in 1 .. Len(text) : f[k] = f[k - 1] \o Escaped(text[k])

(* A character takes one place, or two behind a backslash.                 *)
LEMMA EscapedType ==
  ASSUME NEW c \in Character PROVE Escaped(c) \in Seq(Character) /\ Len(Escaped(c)) \in {1, 2}
<1>1. CASE c \in {"\"", "\\"}
  <2>1. Escaped(c) = <<"\\", c>>
    BY <1>1 DEF Escaped
  <2>2. "\\" \in Character
    BY SignsAre
  <2> QED
    BY <2>1, <2>2, TwoOf
<1>2. CASE c \notin {"\"", "\\"}
  <2>1. Escaped(c) = <<c>>
    BY <1>2 DEF Escaped
  <2> QED
    BY <2>1, OneOf
<1> QED
  BY <1>1, <1>2

(* There is such a text.                                                   *)
LEMMA EscapesIs ==
  ASSUME NEW text \in Seq(Character)
  PROVE  \E f : Escaping(text, f) /\ Escapes(text) = f[Len(text)]
<1> DEFINE n == Len(text)
           V == Seq(Character)
           step == [q \in (1 .. n) \X V |-> q[2] \o Escaped(text[q[1]])]
           Is(f) == f = [k \in 0 .. n |-> IF k = 0 THEN <<>> ELSE f[k - 1] \o Escaped(text[k])]
<1>1. n \in Nat /\ \A k \in 1 .. n : text[k] \in Character
  OBVIOUS
<1>2. \A k \in 1 .. n, q \in V : q \o Escaped(text[k]) \in V
  <2> TAKE k \in 1 .. n, q \in V
  <2>1. Escaped(text[k]) \in V
    BY <1>1, EscapedType
  <2> QED
    BY <2>1
<1>3. step \in Stepping(n, V) /\ \A k \in 1 .. n, q \in V : step[<<k, q>>] = q \o Escaped(text[k])
  BY <1>2 DEF Stepping
<1>4. <<>> \in V
  OBVIOUS
<1> HIDE DEF step, V
<1>5. PICK f : f \in Built(V, <<>>, n, step)
  <2> HIDE DEF n
  <2> QED
    BY <1>1, <1>3, <1>4, Recursion, Zenon
<1>6. f \in [0 .. n -> V]
  BY <1>5 DEF Built
<1>7. ASSUME NEW k \in 0 .. n PROVE f[k] = IF k = 0 THEN <<>> ELSE f[k - 1] \o Escaped(text[k])
  <2>1. k # 0 => k \in 1 .. n /\ k - 1 \in 0 .. n
    BY <1>1
  <2>2. k # 0 => f[k - 1] \in V
    BY <1>6, <2>1
  <2>3. f[k] = IF k = 0 THEN <<>> ELSE step[<<k, f[k - 1]>>]
    BY <1>5 DEF Built
  <2> QED
    BY <1>3, <2>1, <2>2, <2>3
<1>8. Is(f)
  BY <1>6, <1>7, Zenon
<1> DEFINE g == CHOOSE x : Is(x)
<1>9. Is(g)
  BY <1>8, Zenon
<1>10. Escapes(text) = g[n]
  BY DEF Escapes
<1> HIDE DEF g
<1>11. \A k \in 0 .. n : g[k] = IF k = 0 THEN <<>> ELSE g[k - 1] \o Escaped(text[k])
  BY <1>9
<1> DEFINE Bad == {k \in 0 .. n : g[k] \notin V}
<1>12. ASSUME NEW k \in Bad, \A j \in Bad : k <= j PROVE FALSE
  <2>1. k \in 0 .. n /\ g[k] \notin V
    OBVIOUS
  <2>2. k # 0
    BY <1>4, <1>11, <2>1
  <2>3. k - 1 \in 0 .. n /\ k \in 1 .. n /\ k - 1 < k
    BY <1>1, <2>1, <2>2
  <2>4. g[k - 1] \in V
    BY <1>12, <2>3
  <2>5. g[k] = g[k - 1] \o Escaped(text[k])
    BY <1>11, <2>1, <2>2
  <2>6. g[k - 1] \o Escaped(text[k]) \in V
    BY <1>2, <2>3, <2>4
  <2> QED
    BY <2>1, <2>5, <2>6
<1>13. Bad \in SUBSET Nat
  OBVIOUS
<1> HIDE DEF Bad
<1>14. Bad = {}
  BY <1>12, <1>13, LeastNatural
<1>15. g \in [0 .. n -> V]
  BY <1>9, <1>14 DEF Bad
<1>16. g[0] = <<>> /\ \A k \in 1 .. n : g[k] = g[k - 1] \o Escaped(text[k])
  <2>1. 0 \in 0 .. n /\ \A k \in 1 .. n : k \in 0 .. n /\ k # 0
    BY <1>1
  <2> QED
    BY <1>11, <2>1, Zenon
<1> QED
  BY <1>10, <1>15, <1>16 DEF Escaping, V

(* A sequence with one element behind it.                                  *)
LEMMA WithOne == ASSUME NEW S, NEW s \in Seq(S), NEW a \in S PROVE s \o <<a>> = Append(s, a)
  BY AppendIsConcat

(* And with two elements behind it.                                        *)
LEMMA WithTwo ==
  ASSUME NEW S, NEW s \in Seq(S), NEW a \in S, NEW b \in S
  PROVE  s \o <<a, b>> = Append(Append(s, a), b)
<1>1. Append(s, a) \in Seq(S)
  BY AppendProperties
<1>2. Append(Append(s, a), b) = (s \o <<a>>) \o <<b>>
  BY <1>1, WithOne
<1>3. <<a>> \in Seq(S) /\ <<b>> \in Seq(S)
  OBVIOUS
<1>4. (s \o <<a>>) \o <<b>> = s \o (<<a>> \o <<b>>)
  BY <1>3, ConcatAssociative
<1>5. <<a>> \o <<b>> = Append(<<a>>, b)
  BY <1>3, WithOne
<1> QED
  BY <1>2, <1>4, <1>5

(* Three sequences may be joined in either order.                          *)
LEMMA Regroup ==
  ASSUME NEW s \in Seq(Character), NEW t \in Seq(Character), NEW u \in Seq(Character)
  PROVE  s \o (t \o u) = (s \o t) \o u
  BY ConcatAssociative

(* A sequence between two elements.                                        *)
LEMMA Between ==
  ASSUME NEW S, NEW a \in S, NEW s \in Seq(S)
  PROVE  /\ <<a>> \o s \in Seq(S) /\ (<<a>> \o s) \o <<a>> = Append(<<a>> \o s, a)
         /\ (<<a>> \o s) \o <<a>> \in Seq(S) /\ Len((<<a>> \o s) \o <<a>>) = Len(s) + 2
         /\ ((<<a>> \o s) \o <<a>>)[1] = a /\ ((<<a>> \o s) \o <<a>>)[Len(s) + 2] = a
<1>1. <<a>> \in Seq(S) /\ Len(<<a>>) = 1 /\ <<a>>[1] = a /\ Len(s) \in Nat
  OBVIOUS
<1> DEFINE t == <<a>> \o s
<1>2. t \in Seq(S) /\ Len(t) = 1 + Len(s)
  BY <1>1, ConcatProperties
<1>3. t[1] = a
  <2>1. 1 \in 1 .. Len(<<a>>) + Len(s) /\ 1 <= Len(<<a>>)
    BY <1>1
  <2> QED
    BY <1>1, <2>1, ConcatProperties
<1> HIDE DEF t
<1>4. t \o <<a>> = Append(t, a)
  BY <1>2, WithOne
<1>5. 1 \in 1 .. Len(t) /\ Len(t) + 1 = Len(s) + 2
  BY <1>1, <1>2
<1>6. Append(t, a) \in Seq(S) /\ Len(Append(t, a)) = Len(t) + 1 /\ Append(t, a)[1] = t[1]
      /\ Append(t, a)[Len(t) + 1] = a
  BY <1>2, <1>5, AppendProperties
<1> QED
  BY <1>2, <1>3, <1>4, <1>5, <1>6 DEF t

\* The reader inside a string, of which it has read v.
Within(v) == [at |-> "inside", value |-> v, items |-> <<>>]

(* It takes a character, or a sign behind a backslash.                     *)
LEMMA WithinStep ==
  ASSUME NEW v, NEW c, c \notin Control
  PROVE  /\ c \notin {"\"", "\\"} => StringStep(Within(v), c) = Within(Append(v, c))
         /\ c \in {"\"", "\\"} => StringStep(StringStep(Within(v), "\\"), c) = Within(Append(v, c))
<1> DEFINE esc == [at |-> "escape", value |-> v, items |-> <<>>]
<1>1. CASE c \notin {"\"", "\\"}
  <2>1. c # "\"" /\ c # "\\"
    BY <1>1
  <2>2. StringStep(Within(v), c) = [at |-> "inside", value |-> Append(v, c), items |-> <<>>]
    BY <2>1 DEF StringStep, Within
  <2> QED
    BY <1>1, <2>2 DEF Within
<1>2. CASE c \in {"\"", "\\"}
  <2>1. StringStep(Within(v), "\\") = esc
    BY DEF StringStep, Within
  <2>2. StringStep(esc, c) = Within(Append(v, c))
    BY <1>2 DEF StringStep, Within
  <2> QED
    BY <1>2, <2>1, <2>2
<1> QED
  BY <1>1, <1>2

(* What stands for a character is read as that character.                  *)
LEMMA ThroughEscaped ==
  ASSUME NEW p \in Reading, NEW s \in Seq(Character), NEW v \in Seq(Character),
         NEW c \in Character, c \notin Control, Through(p, s) = Within(v)
  PROVE  Through(p, s \o Escaped(c)) = Within(Append(v, c))
<1>1. CASE c \in {"\"", "\\"}
  <2>1. "\\" \in Character
    BY SignsAre
  <2>2. s \o Escaped(c) = Append(Append(s, "\\"), c)
    <3>1. Escaped(c) = <<"\\", c>>
      BY <1>1 DEF Escaped
    <3>2. s \o <<"\\", c>> = Append(Append(s, "\\"), c)
      BY <2>1, WithTwo
    <3> QED
      BY <3>1, <3>2
  <2>3. Append(s, "\\") \in Seq(Character)
    BY <2>1, AppendProperties
  <2>4. Through(p, Append(s, "\\")) = StringStep(Within(v), "\\")
    BY <2>1, ThroughMore
  <2>5. Through(p, Append(Append(s, "\\"), c)) = StringStep(StringStep(Within(v), "\\"), c)
    BY <2>3, <2>4, ThroughMore
  <2> QED
    BY <1>1, <2>2, <2>5, WithinStep
<1>2. CASE c \notin {"\"", "\\"}
  <2>1. s \o Escaped(c) = Append(s, c)
    BY <1>2, WithOne DEF Escaped
  <2>2. Through(p, Append(s, c)) = StringStep(Within(v), c)
    BY ThroughMore
  <2> QED
    BY <1>2, <2>1, <2>2, WithinStep
<1> QED
  BY <1>1, <1>2

(* The first characters of a text, one more of them.                       *)
LEMMA FirstOf ==
  ASSUME NEW S, NEW s \in Seq(S), NEW k \in 1 .. Len(s)
  PROVE  SubSeq(s, 1, k) = Append(SubSeq(s, 1, k - 1), s[k]) /\ SubSeq(s, 1, k - 1) \in Seq(S)
<1>1. SubSeq(s, 1, k) = SubSeq(s, 1, k - 1) \o <<s[k]>>
  <2>1. 1 \in 1 .. Len(s) /\ k \in 1 .. Len(s)
    OBVIOUS
  <2> QED
    BY <2>1, SubSeqRecursiveSecond
<1>2. SubSeq(s, 1, k - 1) \in Seq(S) /\ s[k] \in S
  OBVIOUS
<1> QED
  BY <1>1, <1>2, WithOne

(* A text with its signs escaped is read as the text.                      *)
LEMMA ThroughEscapes ==
  ASSUME NEW text \in Seq(Character), Quotable(text)
  PROVE  /\ Escapes(text) \in Seq(Character)
         /\ Through(Awaiting("next"), <<"\"">> \o Escapes(text)) = Within(text)
<1> DEFINE n == Len(text)
           p == Awaiting("next")
           q == <<"\"">>
<1>1. PICK f : Escaping(text, f) /\ Escapes(text) = f[n]
  BY EscapesIs
<1>2. n \in Nat /\ f \in [0 .. n -> Seq(Character)] /\ f[0] = <<>>
      /\ \A k \in 1 .. n : f[k] = f[k - 1] \o Escaped(text[k])
  BY <1>1 DEF Escaping
<1>3. \A k \in 1 .. n : text[k] \in Character /\ text[k] \notin Control
  <2>1. \A k \in 1 .. n : text[k] \in Character
    OBVIOUS
  <2>2. \A k \in 1 .. n : text[k] \in ToSet(text)
    BY DEF ToSet
  <2> QED
    BY <2>1, <2>2 DEF Quotable
<1>4. p \in Reading
  <2>1. <<>> \in Seq(Character) /\ <<>> \in Seq(Seq(Character))
    OBVIOUS
  <2> QED
    BY <2>1 DEF Reading, Awaiting, ReadingPlaces
<1>5. q \in Seq(Character) /\ "\"" \in Character
  <2>1. "\"" \in Character
    BY SignsAre
  <2> QED
    BY <2>1, OneOf
<1>6. Through(p, q \o f[0]) = Within(SubSeq(text, 1, 0))
  <2>1. SubSeq(text, 1, 0) = <<>>
    BY SubSeqEmpty
  <2>2. <<>> \in Seq(Character) /\ Append(<<>>, "\"") = q
    OBVIOUS
  <2>3. Through(p, Append(<<>>, "\"")) = StringStep(p, "\"")
    <3>1. Through(p, Append(<<>>, "\"")) = StringStep(Through(p, <<>>), "\"")
      BY <1>4, <1>5, <2>2, ThroughMore
    <3> QED
      BY <1>4, <3>1, ThroughNothing
  <2>4. StringStep(p, "\"") = Within(<<>>)
    BY DEF StringStep, Within, Awaiting
  <2>5. q \o f[0] = q
    BY <1>2, <1>5, ConcatEmptySeq
  <2> QED
    BY <2>1, <2>2, <2>3, <2>4, <2>5
<1> HIDE DEF n, p, q
<1> DEFINE Bad == {k \in 0 .. n : Through(p, q \o f[k]) # Within(SubSeq(text, 1, k))}
<1>7. ASSUME NEW k \in Bad, \A j \in Bad : k <= j PROVE FALSE
  <2>1. k \in 0 .. n /\ Through(p, q \o f[k]) # Within(SubSeq(text, 1, k))
    OBVIOUS
  <2>2. k # 0
    BY <1>6, <2>1
  <2>3. k - 1 \in 0 .. n /\ k \in 1 .. n /\ k - 1 < k
    BY <1>2, <2>1, <2>2
  <2>4. Through(p, q \o f[k - 1]) = Within(SubSeq(text, 1, k - 1))
    BY <1>7, <2>3
  <2>5. f[k - 1] \in Seq(Character) /\ text[k] \in Character /\ text[k] \notin Control
    BY <1>2, <1>3, <2>3
  <2>6. Escaped(text[k]) \in Seq(Character)
    BY <2>5, EscapedType
  <2>7. q \o f[k] = (q \o f[k - 1]) \o Escaped(text[k])
    <3>1. f[k] = f[k - 1] \o Escaped(text[k])
      BY <1>2, <2>3
    <3>2. \A u, w \in Seq(Character) : q \o (u \o w) = (q \o u) \o w
      BY <1>5, Regroup
    <3>3. q \o (f[k - 1] \o Escaped(text[k])) = (q \o f[k - 1]) \o Escaped(text[k])
      BY <2>5, <2>6, <3>2, Zenon
    <3> QED
      BY <3>1, <3>3
  <2>8. q \o f[k - 1] \in Seq(Character)
    BY <1>5, <2>5, ConcatProperties
  <2>9. SubSeq(text, 1, k) = Append(SubSeq(text, 1, k - 1), text[k]) /\ SubSeq(text, 1, k - 1) \in Seq(Character)
    BY <2>3, FirstOf DEF n
  <2> DEFINE v == SubSeq(text, 1, k - 1)
             s == q \o f[k - 1]
             c == text[k]
  <2> HIDE DEF v, s, c
  <2>10. Through(p, s \o Escaped(c)) = Within(Append(v, c))
    BY <1>4, <2>4, <2>5, <2>8, <2>9, ThroughEscaped DEF v, s, c
  <2> QED
    BY <2>1, <2>7, <2>9, <2>10 DEF v, s, c
<1>8. Bad \in SUBSET Nat
  BY <1>2
<1> HIDE DEF Bad
<1>9. Bad = {}
  BY <1>7, <1>8, LeastNatural
<1>10. n \in 0 .. n
  BY <1>2
<1>11. Through(p, q \o f[n]) = Within(SubSeq(text, 1, n))
  BY <1>9, <1>10 DEF Bad
<1>12. SubSeq(text, 1, n) = text
  BY SubSeqFull DEF n
<1>13. f[n] \in Seq(Character)
  BY <1>2, <1>10
<1> QED
  BY <1>1, <1>11, <1>12, <1>13 DEF p, q

(* A quoted text is read as the text; it begins and ends with a quote.     *)
LEMMA QuoteIsRead ==
  ASSUME NEW text \in Seq(Character), Quotable(text)
  PROVE  /\ Quote(text) \in Seq(Character)
         /\ ParseString(Quote(text)) = [kind |-> "string", value |-> text]
         /\ Escapes(text) \in Seq(Character) /\ Len(Quote(text)) = Len(Escapes(text)) + 2
         /\ Quote(text)[1] = "\"" /\ Quote(text)[Len(Escapes(text)) + 2] = "\""
<1> DEFINE q == "\""
           e == Escapes(text)
           p == Awaiting("next")
           s == <<q>> \o e
<1>1. e \in Seq(Character) /\ Through(p, s) = Within(text)
  BY ThroughEscapes
<1>2. q \in Character
  BY SignsAre
<1>3. p \in Reading
  <2>1. <<>> \in Seq(Character) /\ <<>> \in Seq(Seq(Character))
    OBVIOUS
  <2> QED
    BY <2>1 DEF Reading, Awaiting, ReadingPlaces
<1>4. Quote(text) = s \o <<q>>
  BY DEF Quote
<1>5. OneString(StringStep(Within(text), q)) = [kind |-> "string", value |-> text]
  BY DEF OneString, StringStep, Within
<1> HIDE DEF e, q, p
<1>6. /\ s \in Seq(Character) /\ s \o <<q>> = Append(s, q)
      /\ s \o <<q>> \in Seq(Character) /\ Len(s \o <<q>>) = Len(e) + 2
      /\ (s \o <<q>>)[1] = q /\ (s \o <<q>>)[Len(e) + 2] = q
  BY <1>1, <1>2, Between
<1> HIDE DEF s
<1>7. Through(p, Append(s, q)) = StringStep(Within(text), q)
  BY <1>1, <1>2, <1>3, <1>6, ThroughMore
<1>8. ParseString(Quote(text)) = [kind |-> "string", value |-> text]
  BY <1>4, <1>5, <1>6, <1>7 DEF ParseString, p
<1> QED
  BY <1>1, <1>4, <1>6, <1>8 DEF e, q

-----------------------------------------------------------------------------
(* Lines.                                                                  *)

(* A sequence of two with an element between them.                         *)
LEMMA Parted ==
  ASSUME NEW S, NEW s \in Seq(S), NEW a \in S, NEW u \in Seq(S)
  PROVE  /\ (s \o <<a>>) \o u \in Seq(S) /\ Len((s \o <<a>>) \o u) = Len(s) + 1 + Len(u)
         /\ \A k \in 1 .. Len(s) : ((s \o <<a>>) \o u)[k] = s[k]
         /\ ((s \o <<a>>) \o u)[Len(s) + 1] = a
         /\ \A k \in 1 .. Len(u) : ((s \o <<a>>) \o u)[Len(s) + 1 + k] = u[k]
<1> DEFINE t == s \o <<a>>
           m == Len(s)
           l == Len(u)
<1>1. m \in Nat /\ l \in Nat
  OBVIOUS
<1>2. t = Append(s, a)
  BY WithOne
<1>3. /\ t \in Seq(S) /\ Len(t) = m + 1 /\ (\A k \in 1 .. m : t[k] = s[k]) /\ t[m + 1] = a
  BY <1>2, AppendProperties
<1> DEFINE v == t \o u
<1> HIDE DEF t
<1>4. v \in Seq(S) /\ Len(v) = Len(t) + l
      /\ \A i \in 1 .. Len(t) + l : v[i] = IF i <= Len(t) THEN t[i] ELSE u[i - Len(t)]
  BY <1>3, ConcatProperties
<1> HIDE DEF v, m, l
<1>5. Len(v) = m + 1 + l
  BY <1>1, <1>3, <1>4
<1>6. \A k \in 1 .. m : v[k] = s[k]
  <2> TAKE k \in 1 .. m
  <2>1. k \in 1 .. Len(t) + l /\ k <= Len(t)
    BY <1>1, <1>3
  <2> QED
    BY <1>3, <1>4, <2>1
<1>7. v[m + 1] = a
  <2>1. m + 1 \in 1 .. Len(t) + l /\ m + 1 <= Len(t)
    BY <1>1, <1>3
  <2> QED
    BY <1>3, <1>4, <2>1
<1>8. \A k \in 1 .. l : v[m + 1 + k] = u[k]
  <2> TAKE k \in 1 .. l
  <2>1. m + 1 + k \in 1 .. Len(t) + l /\ ~(m + 1 + k <= Len(t)) /\ (m + 1 + k) - Len(t) = k
    BY <1>1, <1>3
  <2> QED
    BY <1>4, <2>1
<1> QED
  BY <1>4, <1>5, <1>6, <1>7, <1>8 DEF v, t, m, l

\* No character of it ends a line.
OneLine(s) == \A k \in 1 .. Len(s) : s[k] # "newline"

\* t is line and then rest, the line taking n characters.
Lined(t, line, rest, n) ==
  /\ n = Len(line) + 1 /\ t \in Seq(Character) /\ Len(t) = n + Len(rest)
  /\ (\A k \in 1 .. Len(line) : t[k] = line[k]) /\ t[n] = "newline"
  /\ \A k \in 1 .. Len(rest) : t[n + k] = rest[k]

(* A line put before a text is the first line of what results.             *)
LEMMA WithLineIs ==
  ASSUME NEW line \in Seq(Character), NEW rest \in Seq(Character)
  PROVE  Lined(WithLine(line, rest), line, rest, Len(line) + 1)
<1>1. "newline" \in Character
  BY SignsAre
<1> QED
  BY <1>1, Parted DEF WithLine, Lined

(* A line ends at one place.                                               *)
LEMMA EndOfLine ==
  ASSUME NEW text \in Seq(Character), NEW i \in 1 .. Len(text) + 1
  PROVE  /\ \E j \in i .. Len(text) + 1 : StopsAt(text, i, j)
         /\ \A j \in i .. Len(text) + 1 :
              StopsAt(text, i, j) => LineAt(text, i) = SubSeq(text, i, j - 1)
<1> DEFINE n == Len(text)
           Ends == {j \in i .. n + 1 : j = n + 1 \/ text[j] = "newline"}
<1>1. n \in Nat
  OBVIOUS
<1> HIDE DEF n
<1>2. n + 1 \in Ends /\ Ends \in SUBSET Nat
  BY <1>1 DEF n
<1>3. PICK j \in Ends : \A k \in Ends : j <= k
  <2> HIDE DEF Ends
  <2> QED
    BY <1>2, LeastNatural
<1>4. \A k \in i .. j - 1 : text[k] # "newline"
  <2> TAKE k \in i .. j - 1
  <2>1. j \in i .. n + 1 /\ k \in i .. n + 1 /\ ~(j <= k)
    BY <1>1, <1>3 DEF n
  <2> QED
    BY <1>3, <2>1
<1>5. j \in i .. n + 1 /\ StopsAt(text, i, j)
  BY <1>3, <1>4 DEF StopsAt, n
<1>6. \A a, b \in i .. n + 1 : StopsAt(text, i, a) /\ StopsAt(text, i, b) => ~(a < b)
  <2> TAKE a, b \in i .. n + 1
  <2>1. ASSUME StopsAt(text, i, a), StopsAt(text, i, b), a < b PROVE FALSE
    <3>1. a \in i .. b - 1 /\ a # n + 1
      BY <1>1, <2>1 DEF n
    <3> QED
      BY <2>1, <3>1 DEF StopsAt, n
  <2> QED
    BY <2>1
<1>7. \A a \in i .. n + 1 : StopsAt(text, i, a) => a = j
  <2> TAKE a \in i .. n + 1
  <2>1. StopsAt(text, i, a) => ~(a < j) /\ ~(j < a)
    BY <1>5, <1>6
  <2> QED
    BY <1>1, <1>5, <2>1 DEF n
<1>8. (CHOOSE a \in i .. n + 1 : StopsAt(text, i, a)) = j
  BY <1>5, <1>7
<1>9. LineAt(text, i) = SubSeq(text, i, j - 1)
  BY <1>8 DEF LineAt, n
<1> QED
  BY <1>5, <1>7, <1>9 DEF n

(* A part of a sequence, found in another one further on.                  *)
LEMMA ShiftedPart ==
  ASSUME NEW s \in Seq(Character), NEW t \in Seq(Character), NEW n \in Nat, NEW i \in Nat, NEW j \in Nat,
         1 <= i, i <= j + 1, j <= Len(s), n + j <= Len(t), \A k \in i .. j : t[n + k] = s[k]
  PROVE  SubSeq(t, n + i, n + j) = SubSeq(s, i, j) /\ SubSeq(s, i, j) \in Seq(Character)
<1> DEFINE a == SubSeq(t, n + i, n + j)
           b == SubSeq(s, i, j)
           l == j - i + 1
<1>1. \A k \in i .. j : s[k] \in Character /\ t[n + k] \in Character
  OBVIOUS
<1>2. b \in Seq(Character) /\ Len(b) = l /\ \A k \in 1 .. l : b[k] = s[i + k - 1]
  <2>1. i \in Int /\ j \in Int /\ (IF i <= j THEN j - i + 1 ELSE 0) = l
    OBVIOUS
  <2> QED
    BY <1>1, <2>1, SubSeqProperties
<1>3. a \in Seq(Character) /\ Len(a) = l /\ \A k \in 1 .. l : a[k] = t[n + i + k - 1]
  <2>1. n + i \in Int /\ n + j \in Int /\ (IF n + i <= n + j THEN (n + j) - (n + i) + 1 ELSE 0) = l
        /\ (n + j) - (n + i) + 1 = l
    OBVIOUS
  <2>2. \A k \in n + i .. n + j : t[k] \in Character
    OBVIOUS
  <2> QED
    BY <2>1, <2>2, SubSeqProperties
<1>4. \A k \in 1 .. l : a[k] = b[k]
  <2> TAKE k \in 1 .. l
  <2>1. i + k - 1 \in i .. j /\ n + i + k - 1 = n + (i + k - 1)
    OBVIOUS
  <2> QED
    BY <1>2, <1>3, <2>1
<1>5. l \in Nat
  OBVIOUS
<1> HIDE DEF a, b, l
<1>6. a = b
  BY <1>2, <1>3, <1>4, <1>5
<1> QED
  BY <1>2, <1>6 DEF a, b

(* The first line is the line; further on lie those of the rest.           *)
LEMMA LinedLines ==
  ASSUME NEW line \in Seq(Character), NEW rest \in Seq(Character), NEW t, NEW n,
         OneLine(line), Lined(t, line, rest, n)
  PROVE  /\ Starts(t) = {1} \cup {n + i : i \in Starts(rest)}
         /\ At(t, 1) = Trim(line)
         /\ \A i \in Starts(rest) : At(t, n + i) = At(rest, i)
<1> DEFINE m == Len(line)
           l == Len(rest)
<1>1. m \in Nat /\ l \in Nat /\ n = m + 1 /\ n \in Nat
  BY DEF Lined
<1>2. /\ t \in Seq(Character) /\ Len(t) = n + l
      /\ (\A k \in 1 .. m : t[k] = line[k]) /\ t[n] = "newline"
      /\ \A k \in 1 .. l : t[n + k] = rest[k]
  BY DEF Lined
<1>3. \A k \in 1 .. m : line[k] # "newline"
  BY DEF OneLine
<1> DEFINE Breaks == {j \in 1 .. l : rest[j] = "newline"}
<1>4. {j \in 1 .. n + l : t[j] = "newline"} = {n} \cup {n + j : j \in Breaks}
  <2>1. ASSUME NEW j \in 1 .. n + l, t[j] = "newline" PROVE j = n \/ \E b \in Breaks : j = n + b
    <3>1. ~(j <= m)
      BY <1>1, <1>2, <1>3, <2>1
    <3>2. CASE j = n
      BY <3>2
    <3>3. CASE j # n
      <4>1. j - n \in 1 .. l /\ n + (j - n) = j
        BY <1>1, <3>1, <3>3
      <4>2. rest[j - n] = "newline"
        BY <1>2, <2>1, <4>1
      <4> QED
        BY <4>1, <4>2
    <3> QED
      BY <3>2, <3>3
  <2>2. n \in 1 .. n + l
    BY <1>1
  <2>3. \A b \in Breaks : n + b \in 1 .. n + l /\ t[n + b] = "newline"
    BY <1>1, <1>2
  <2> QED
    BY <1>2, <2>1, <2>2, <2>3
<1>5. Starts(rest) = {1} \cup {j + 1 : j \in Breaks}
  BY DEF Starts
<1>6. Starts(t) = {1} \cup {j + 1 : j \in {n} \cup {n + b : b \in Breaks}}
  BY <1>2, <1>4 DEF Starts
<1>7. Starts(t) = {1} \cup {n + i : i \in Starts(rest)}
  <2>1. \A j \in Breaks : j \in Int /\ (n + j) + 1 = n + (j + 1)
    BY <1>1
  <2> HIDE DEF Breaks
  <2>2. \A x : x \in Starts(t) <=> x = 1 \/ x = n + 1 \/ \E b \in Breaks : x = (n + b) + 1
    BY <1>6
  <2>3. \A x : x \in {n + i : i \in Starts(rest)} <=> x = n + 1 \/ \E b \in Breaks : x = n + (b + 1)
    BY <1>5
  <2>4. \A x : x \in Starts(t) <=> x = 1 \/ x \in {n + i : i \in Starts(rest)}
    BY <2>1, <2>2, <2>3
  <2> QED
    BY <2>4
<1>8. LineAt(t, 1) = line
  <2>1. 1 \in 1 .. Len(t) + 1 /\ n \in 1 .. Len(t) + 1 /\ n - 1 = m
    BY <1>1, <1>2
  <2>2. StopsAt(t, 1, n)
    BY <1>1, <1>2, <1>3 DEF StopsAt
  <2>3. LineAt(t, 1) = SubSeq(t, 1, m)
    <3>1. LineAt(t, 1) = SubSeq(t, 1, n - 1)
      BY <1>2, <2>1, <2>2, EndOfLine
    <3> QED
      BY <2>1, <3>1
  <2>4. SubSeq(t, 0 + 1, 0 + m) = SubSeq(line, 1, m)
    <3>1. /\ 0 \in Nat /\ 1 \in Nat /\ m \in Nat /\ 1 <= 1 /\ 1 <= m + 1 /\ m <= Len(line) /\ 0 + m <= Len(t)
          /\ \A k \in 1 .. m : t[0 + k] = line[k]
      BY <1>1, <1>2
    <3> QED
      BY <1>2, <3>1, ShiftedPart
  <2>5. SubSeq(line, 1, m) = line
    BY SubSeqFull
  <2>6. 0 + 1 = 1 /\ 0 + m = m
    BY <1>1
  <2> QED
    BY <2>3, <2>4, <2>5, <2>6
<1>9. ASSUME NEW i \in Starts(rest) PROVE LineAt(t, n + i) = LineAt(rest, i)
  <2>1. i \in 1 .. l + 1
    BY <1>1, <1>5
  <2>2. PICK j \in i .. l + 1 : StopsAt(rest, i, j)
    BY <2>1, EndOfLine
  <2>3. LineAt(rest, i) = SubSeq(rest, i, j - 1)
    BY <2>1, <2>2, EndOfLine
  <2> DEFINE a == n + i
             b == n + j
  <2>4. a \in 1 .. Len(t) + 1 /\ b \in a .. Len(t) + 1 /\ b - 1 = n + (j - 1) /\ i \in Nat /\ j \in Nat
    BY <1>1, <1>2, <2>1, <2>2
  <2>5. b = Len(t) + 1 \/ t[b] = "newline"
    <3>1. CASE j = l + 1
      BY <1>1, <1>2, <3>1
    <3>2. CASE j # l + 1
      <4>1. j \in 1 .. l /\ rest[j] = "newline"
        BY <1>1, <2>1, <2>2, <3>2 DEF StopsAt
      <4> QED
        BY <1>2, <4>1
    <3> QED
      BY <3>1, <3>2
  <2>6. ASSUME NEW k \in a .. b - 1 PROVE t[k] # "newline"
    <3>1. k - n \in i .. j - 1 /\ k - n \in 1 .. l /\ n + (k - n) = k
      BY <1>1, <2>1, <2>2
    <3> QED
      BY <1>2, <2>2, <3>1 DEF StopsAt
  <2> HIDE DEF a, b
  <2>7. StopsAt(t, a, b)
    BY <2>5, <2>6 DEF StopsAt
  <2>8. LineAt(t, a) = SubSeq(t, a, b - 1)
    BY <1>2, <2>4, <2>7, EndOfLine
  <2>9. SubSeq(t, n + i, n + (j - 1)) = SubSeq(rest, i, j - 1)
    <3>0. PICK c \in Nat : c = j - 1
      BY <2>1, <2>2
    <3>1. /\ i \in Nat /\ c \in Nat /\ 1 <= i /\ i <= c + 1 /\ c <= Len(rest) /\ n + c <= Len(t)
          /\ \A k \in i .. c : t[n + k] = rest[k]
      BY <1>1, <1>2, <2>1, <2>2, <3>0
    <3>2. t \in Seq(Character) /\ n \in Nat
      BY <1>1, <1>2
    <3>3. SubSeq(t, n + i, n + c) = SubSeq(rest, i, c)
      BY <3>1, <3>2, ShiftedPart
    <3> QED
      BY <3>0, <3>3
  <2> QED
    BY <2>3, <2>4, <2>8, <2>9 DEF a
<1> QED
  BY <1>7, <1>8, <1>9 DEF At

\* A text without sections whose entries are those of v.
Gives(text, v) ==
  /\ text \in Seq(Character) /\ Headers(text) = {}
  /\ \A i \in Entries(text) : EntryValid(At(text, i)) /\ \E k \in DOMAIN v : KeyOf(At(text, i)) = <<k>>
  /\ \A k \in DOMAIN v : \E i \in Entries(text) :
       /\ KeyOf(At(text, i)) = <<k>> /\ ValueOf(At(text, i)) = v[k]
       /\ \A j \in Entries(text) : KeyOf(At(text, j)) = <<k>> => j = i

(* Lines begin at places of the text.                                      *)
LEMMA StartsType ==
  ASSUME NEW text \in Seq(Character)
  PROVE  \A i \in Starts(text) : i \in Nat /\ 1 <= i /\ i \in 1 .. Len(text) + 1
<1>1. Len(text) \in Nat
  OBVIOUS
<1> QED
  BY <1>1 DEF Starts

(* Nothing gives no entries.                                               *)
LEMMA NothingGives == ASSUME NEW v, DOMAIN v = {} PROVE Gives(<<>>, v)
<1> DEFINE e == <<>>
<1>1. e \in Seq(Character) /\ Len(e) = 0
  OBVIOUS
<1>2. Starts(<<>>) = {1}
  BY DEF Starts
<1>3. At(<<>>, 1) = <<>>
  <2>1. 1 \in 1 .. Len(e) + 1 /\ 1 \in 1 .. Len(e) + 1 /\ 1 - 1 = 0
    BY <1>1
  <2>2. StopsAt(e, 1, 1)
    BY <1>1 DEF StopsAt
  <2>3. LineAt(e, 1) = SubSeq(e, 1, 0)
    <3>1. LineAt(e, 1) = SubSeq(e, 1, 1 - 1)
      BY <1>1, <2>1, <2>2, EndOfLine
    <3> QED
      BY <2>1, <3>1
  <2>4. SubSeq(e, 1, 0) = <<>>
    BY SubSeqEmpty
  <2>5. Trim(<<>>) = <<>>
    BY DEF Trim, NoLine
  <2> QED
    BY <2>3, <2>4, <2>5 DEF At
<1>4. Blank(<<>>) /\ ~IsHeader(<<>>)
  BY DEF Blank, IsHeader, NoLine
<1>5. Headers(<<>>) = {} /\ Entries(<<>>) = {}
  BY <1>2, <1>3, <1>4 DEF Headers, Entries
<1> QED
  BY <1>1, <1>5 DEF Gives

(* The sections and the entries of a text by those of its first line and the rest. *)
LEMMA LinedParts ==
  ASSUME NEW line \in Seq(Character), NEW rest \in Seq(Character), NEW t, NEW n,
         OneLine(line), Lined(t, line, rest, n)
  PROVE  /\ Headers(t) = {x \in {1} : IsHeader(Trim(line))} \cup {n + i : i \in Headers(rest)}
         /\ Entries(t) = {x \in {1} : ~Blank(Trim(line)) /\ ~IsHeader(Trim(line))} \cup {n + i : i \in Entries(rest)}
<1>1. Starts(t) = {1} \cup {n + i : i \in Starts(rest)} /\ At(t, 1) = Trim(line)
      /\ \A i \in Starts(rest) : At(t, n + i) = At(rest, i)
  BY LinedLines
<1>2. Headers(t) = {x \in {1} : IsHeader(Trim(line))} \cup {n + i : i \in Headers(rest)}
  BY <1>1 DEF Headers
<1>3. Entries(t) = {x \in {1} : ~Blank(Trim(line)) /\ ~IsHeader(Trim(line))} \cup {n + i : i \in Entries(rest)}
  BY <1>1 DEF Entries
<1> QED
  BY <1>2, <1>3

\* The line is an entry of the key k, with the value x.
EntryIs(line, k, x) ==
  /\ line \in Seq(Character) /\ OneLine(line)
  /\ ~Blank(Trim(line)) /\ ~IsHeader(Trim(line)) /\ EntryValid(Trim(line))
  /\ KeyOf(Trim(line)) = <<k>> /\ ValueOf(Trim(line)) = x

(* One more entry at the beginning.                                        *)
LEMMA GivesMore ==
  ASSUME NEW line, NEW rest, NEW k, NEW x, NEW v, NEW w,
         EntryIs(line, k, x), Gives(rest, v), k \notin DOMAIN v,
         DOMAIN w = DOMAIN v \cup {k}, w[k] = x, \A j \in DOMAIN v : w[j] = v[j]
  PROVE  Gives(WithLine(line, rest), w)
<1> DEFINE n == Len(line) + 1
           t == WithLine(line, rest)
<1>1. line \in Seq(Character) /\ rest \in Seq(Character) /\ OneLine(line)
  BY DEF EntryIs, Gives
<1>2. Lined(t, line, rest, n)
  BY <1>1, WithLineIs
<1>3. n \in Nat /\ t \in Seq(Character)
  BY <1>1, <1>2 DEF Lined
<1> HIDE DEF n, t
<1>4. Starts(t) = {1} \cup {n + i : i \in Starts(rest)} /\ At(t, 1) = Trim(line)
      /\ \A i \in Starts(rest) : At(t, n + i) = At(rest, i)
  BY <1>1, <1>2, LinedLines
<1>5. Headers(t) = {} /\ Entries(t) = {1} \cup {n + i : i \in Entries(rest)}
  <2>1. Headers(rest) = {}
    BY DEF Gives
  <2> QED
    BY <1>1, <1>2, <2>1, LinedParts DEF EntryIs
<1>6. \A i \in Entries(rest) : At(t, n + i) = At(rest, i) /\ i \in Nat
  BY <1>1, <1>4, StartsType DEF Entries
<1>7. ASSUME NEW i \in Entries(t)
      PROVE  EntryValid(At(t, i)) /\ \E j \in DOMAIN w : KeyOf(At(t, i)) = <<j>>
  <2>1. CASE i = 1
    BY <1>4, <2>1 DEF EntryIs
  <2>2. ASSUME NEW j \in Entries(rest), i = n + j
         PROVE  EntryValid(At(t, i)) /\ \E m \in DOMAIN w : KeyOf(At(t, i)) = <<m>>
    <3>1. EntryValid(At(rest, j)) /\ \E m \in DOMAIN v : KeyOf(At(rest, j)) = <<m>>
      BY <2>2 DEF Gives
    <3>2. At(t, i) = At(rest, j) /\ DOMAIN v \subseteq DOMAIN w
      BY <1>6, <2>2
    <3> QED
      BY <3>1, <3>2
  <2> QED
    BY <1>5, <2>1, <2>2
<1>8. \A i \in Entries(rest) : KeyOf(At(t, n + i)) # <<k>>
  <2> TAKE i \in Entries(rest)
  <2>1. PICK j \in DOMAIN v : KeyOf(At(rest, i)) = <<j>>
    BY DEF Gives
  <2> QED
    BY <1>6, <2>1
<1>9. ASSUME NEW j \in DOMAIN w
      PROVE  \E i \in Entries(t) :
               /\ KeyOf(At(t, i)) = <<j>> /\ ValueOf(At(t, i)) = w[j]
               /\ \A m \in Entries(t) : KeyOf(At(t, m)) = <<j>> => m = i
  <2>1. CASE j = k
    <3>1. KeyOf(At(t, 1)) = <<j>> /\ ValueOf(At(t, 1)) = w[j] /\ 1 \in Entries(t)
      BY <1>4, <1>5, <2>1 DEF EntryIs
    <3>2. \A m \in Entries(t) : KeyOf(At(t, m)) = <<j>> => m = 1
      BY <1>5, <1>8, <2>1
    <3> QED
      BY <3>1, <3>2
  <2>2. CASE j # k
    <3>1. j \in DOMAIN v
      BY <2>2
    <3>2. PICK i \in Entries(rest) :
            /\ KeyOf(At(rest, i)) = <<j>> /\ ValueOf(At(rest, i)) = v[j]
            /\ \A m \in Entries(rest) : KeyOf(At(rest, m)) = <<j>> => m = i
      BY <3>1 DEF Gives
    <3>3. n + i \in Entries(t) /\ KeyOf(At(t, n + i)) = <<j>> /\ ValueOf(At(t, n + i)) = w[j]
      BY <1>5, <1>6, <3>1, <3>2
    <3>4. KeyOf(At(t, 1)) # <<j>>
      BY <1>4, <2>2 DEF EntryIs
    <3>5. \A m \in Entries(rest) : KeyOf(At(t, n + m)) = <<j>> => m = i
      BY <1>6, <3>2
    <3>6. \A m \in Entries(t) : KeyOf(At(t, m)) = <<j>> => m = n + i
      BY <1>5, <3>4, <3>5
    <3> QED
      BY <3>3, <3>6
  <2> QED
    BY <2>1, <2>2
<1>10. Gives(t, w)
  BY <1>3, <1>5, <1>7, <1>9 DEF Gives
<1> QED
  BY <1>10 DEF t

(* Below its header the entries make up the section.                       *)
LEMMA SectionGives ==
  ASSUME NEW line, NEW rest, NEW v, line \in Seq(Character), OneLine(line), IsHeader(Trim(line)),
         HeaderValid(Trim(line), RequestHeaders), Gives(rest, v), v = [k \in DOMAIN v |-> v[k]]
  PROVE  ParseRequest(WithLine(line, rest)) = Understood(Trim(line)[2], v)
<1> DEFINE n == Len(line) + 1
           t == WithLine(line, rest)
<1>1. rest \in Seq(Character)
  BY DEF Gives
<1>2. Lined(t, line, rest, n)
  BY <1>1, WithLineIs
<1>3. n \in Nat /\ n >= 1
  OBVIOUS
<1> HIDE DEF n, t
<1>4. Starts(t) = {1} \cup {n + i : i \in Starts(rest)} /\ At(t, 1) = Trim(line)
      /\ \A i \in Starts(rest) : At(t, n + i) = At(rest, i)
  BY <1>1, <1>2, LinedLines
<1>5. Headers(t) = {1} /\ Entries(t) = {n + i : i \in Entries(rest)}
  <2>1. Headers(rest) = {}
    BY DEF Gives
  <2> QED
    BY <1>1, <1>2, <2>1, LinedParts
<1>6. \A i \in Entries(rest) : At(t, n + i) = At(rest, i) /\ i \in Nat /\ 1 <= i
  BY <1>1, <1>4, StartsType DEF Entries
<1>7. \A i \in Entries(t) : 1 < i
  BY <1>3, <1>5, <1>6
<1>8. Inside(t, 1) = Entries(t)
  BY <1>5, <1>7 DEF Inside
<1>9. ASSUME NEW i \in Entries(t)
      PROVE  EntryValid(At(t, i)) /\ \E k \in DOMAIN v : KeyOf(At(t, i)) = <<k>>
  BY <1>5, <1>6 DEF Gives
<1>10. ASSUME NEW k \in DOMAIN v
       PROVE  \E i \in Entries(t) :
                /\ KeyOf(At(t, i)) = <<k>> /\ ValueOf(At(t, i)) = v[k]
                /\ \A j \in Entries(t) : KeyOf(At(t, j)) = <<k>> => j = i
  <2>1. PICK i \in Entries(rest) :
          /\ KeyOf(At(rest, i)) = <<k>> /\ ValueOf(At(rest, i)) = v[k]
          /\ \A j \in Entries(rest) : KeyOf(At(rest, j)) = <<k>> => j = i
    BY DEF Gives
  <2>2. n + i \in Entries(t) /\ KeyOf(At(t, n + i)) = <<k>> /\ ValueOf(At(t, n + i)) = v[k]
    BY <1>5, <1>6, <2>1
  <2>3. \A j \in Entries(t) : KeyOf(At(t, j)) = <<k>> => j = n + i
    BY <1>5, <1>6, <2>1
  <2> QED
    BY <2>2, <2>3
<1>11. SectionsValid(t, RequestHeaders)
  <2>1. \A h \in Headers(t) : HeaderValid(At(t, h), RequestHeaders)
    BY <1>4, <1>5
  <2>2. \A i \in Entries(t) : EntryValid(At(t, i)) /\ \E h \in Headers(t) : h < i
    BY <1>5, <1>7, <1>9
  <2>3. ASSUME NEW i \in Entries(t), NEW j \in Entries(t), KeyOf(At(t, i)) = KeyOf(At(t, j)) PROVE i = j
    <3>1. PICK k \in DOMAIN v : KeyOf(At(t, i)) = <<k>>
      BY <1>9
    <3> QED
      BY <1>10, <2>3, <3>1
  <2> QED
    BY <2>1, <2>2, <2>3 DEF SectionsValid
<1> DEFINE K == {KeyOf(At(t, i))[1] : i \in Inside(t, 1)}
           E(k) == CHOOSE i \in Inside(t, 1) : KeyOf(At(t, i))[1] = k
<1>12. K = DOMAIN v
  <2>1. \A i \in Entries(t) : KeyOf(At(t, i))[1] \in DOMAIN v
    <3> TAKE i \in Entries(t)
    <3>1. PICK k \in DOMAIN v : KeyOf(At(t, i)) = <<k>>
      BY <1>9
    <3> QED
      BY <3>1
  <2>2. \A k \in DOMAIN v : \E i \in Entries(t) : KeyOf(At(t, i))[1] = k
    <3> TAKE k \in DOMAIN v
    <3>1. PICK i \in Entries(t) : KeyOf(At(t, i)) = <<k>>
      BY <1>10
    <3> QED
      BY <3>1
  <2> QED
    BY <1>8, <2>1, <2>2
<1>13. ASSUME NEW k \in DOMAIN v PROVE ValueOf(At(t, E(k))) = v[k]
  <2>1. PICK i \in Entries(t) :
          /\ KeyOf(At(t, i)) = <<k>> /\ ValueOf(At(t, i)) = v[k]
          /\ \A j \in Entries(t) : KeyOf(At(t, j)) = <<k>> => j = i
    BY <1>10
  <2>2. \A j \in Entries(t) : KeyOf(At(t, j))[1] = k => j = i
    <3> TAKE j \in Entries(t)
    <3>1. PICK m \in DOMAIN v : KeyOf(At(t, j)) = <<m>>
      BY <1>9
    <3> QED
      BY <2>1, <3>1
  <2>3. i \in Inside(t, 1) /\ KeyOf(At(t, i))[1] = k
    BY <1>8, <2>1
  <2>4. E(k) = i
    BY <1>8, <2>2, <2>3
  <2> QED
    BY <2>1, <2>4
<1>14. ParseSection(t, 1) = v
  <2>1. ParseSection(t, 1) = [k \in K |-> ValueOf(At(t, E(k)))]
    BY DEF ParseSection
  <2> HIDE DEF K, E
  <2> QED
    BY <1>12, <1>13, <2>1
<1>15. (CHOOSE h \in Headers(t) : TRUE) = 1
  BY <1>5
<1>16. ParseRequest(t) = Understood(At(t, 1)[2], ParseSection(t, 1))
  BY <1>5, <1>11, <1>15 DEF ParseRequest
<1> QED
  BY <1>4, <1>14, <1>16 DEF t

(* A sequence that is not empty begins with its head.                      *)
LEMMA HeadOf ==
  ASSUME NEW S, NEW s \in Seq(S), Len(s) >= 1
  PROVE  s # <<>> /\ Head(s) = s[1]
  OBVIOUS

(* One character makes up a line unless it ends one.                       *)
LEMMA OneCharacter ==
  ASSUME NEW c \in Character
  PROVE  /\ <<c>> \in Seq(Character) /\ Len(<<c>>) = 1 /\ <<c>>[1] = c /\ Head(<<c>>) = c /\ <<c>> # <<>>
         /\ c # "newline" => OneLine(<<c>>)
<1>1. PICK e : e = <<c>>
  OBVIOUS
<1>2. e \in Seq(Character) /\ Len(e) = 1 /\ e[1] = c
  BY <1>1, OneOf
<1>3. \A k \in 1 .. Len(e) : e[k] = c
  BY <1>2
<1>4. c # "newline" => OneLine(e)
  BY <1>3 DEF OneLine
<1>5. Len(e) >= 1
  BY <1>2
<1>6. e # <<>> /\ Head(e) = c
  BY <1>2, <1>5, HeadOf
<1> QED
  BY <1>1, <1>2, <1>4, <1>6

(* Two parts of a line make up one.                                        *)
LEMMA LineJoined ==
  ASSUME NEW s \in Seq(Character), NEW t \in Seq(Character), OneLine(s), OneLine(t)
  PROVE  OneLine(s \o t) /\ Len(s \o t) = Len(s) + Len(t)
<1> DEFINE m == Len(s)
           l == Len(t)
           u == s \o t
<1>1. m \in Nat /\ l \in Nat
  OBVIOUS
<1>2. Len(u) = m + l /\ \A i \in 1 .. m + l : u[i] = IF i <= m THEN s[i] ELSE t[i - m]
  BY ConcatProperties
<1> HIDE DEF u
<1>3. ASSUME NEW i \in 1 .. m + l PROVE u[i] # "newline"
  <2>1. CASE i <= m
    <3>1. i \in 1 .. m
      BY <1>1, <2>1
    <3> QED
      BY <1>2, <2>1, <3>1 DEF OneLine
  <2>2. CASE ~(i <= m)
    <3>1. i - m \in 1 .. l
      BY <1>1, <2>2
    <3> QED
      BY <1>2, <2>2, <3>1 DEF OneLine
  <2> QED
    BY <2>1, <2>2
<1> QED
  BY <1>2, <1>3 DEF OneLine, u

(* What stands for a character does not end the line.                      *)
LEMMA EscapedLine == ASSUME NEW c \in Character, c # "newline" PROVE OneLine(Escaped(c))
<1>1. CASE c \in {"\"", "\\"}
  <2>1. Escaped(c) = <<"\\", c>> /\ "\\" \in Character
    BY <1>1, SignsAre DEF Escaped
  <2> DEFINE e == <<"\\", c>>
  <2>2. Len(e) = 2 /\ e[1] = "\\" /\ e[2] = c
    BY <2>1, TwoOf
  <2> HIDE DEF e
  <2>3. \A k \in 1 .. Len(e) : e[k] # "newline"
    BY <2>2
  <2> QED
    BY <2>1, <2>3 DEF OneLine, e
<1>2. CASE c \notin {"\"", "\\"}
  <2>1. Escaped(c) = <<c>>
    BY <1>2 DEF Escaped
  <2> DEFINE e == <<c>>
  <2>2. Len(e) = 1 /\ e[1] = c
    BY OneOf
  <2> HIDE DEF e
  <2>3. \A k \in 1 .. Len(e) : e[k] # "newline"
    BY <2>2
  <2> QED
    BY <2>1, <2>3 DEF OneLine, e
<1> QED
  BY <1>1, <1>2

(* A character more takes two places at most.                              *)
LEMMA Twice ==
  ASSUME NEW k \in Nat, k >= 1, NEW a \in Nat, a <= 2 * (k - 1), NEW b \in {1, 2}
  PROVE  a + b <= 2 * k
  OBVIOUS

(* No sign of a text in quotes ends a line, and it is not too long.        *)
LEMMA QuoteOneLine ==
  ASSUME NEW text \in Seq(Character), Quotable(text)
  PROVE  OneLine(Quote(text)) /\ Len(Quote(text)) <= 2 * Len(text) + 2
<1> DEFINE n == Len(text)
           q == "\""
<1>1. PICK f : Escaping(text, f) /\ Escapes(text) = f[n]
  BY EscapesIs
<1>2. n \in Nat /\ f \in [0 .. n -> Seq(Character)] /\ f[0] = <<>>
      /\ \A k \in 1 .. n : f[k] = f[k - 1] \o Escaped(text[k])
  BY <1>1 DEF Escaping
<1>3. \A k \in 1 .. n : text[k] \in Character /\ text[k] # "newline"
  <2>1. \A k \in 1 .. n : text[k] \in Character
    OBVIOUS
  <2>2. \A k \in 1 .. n : text[k] \in ToSet(text)
    BY DEF ToSet
  <2> QED
    BY <2>1, <2>2 DEF Quotable, Control
<1> HIDE DEF n
<1> DEFINE Bad == {k \in 0 .. n : ~(OneLine(f[k]) /\ Len(f[k]) <= 2 * k)}
<1>4. ASSUME NEW k \in Bad, \A j \in Bad : k <= j PROVE FALSE
  <2>1. k \in 0 .. n /\ ~(OneLine(f[k]) /\ Len(f[k]) <= 2 * k)
    OBVIOUS
  <2>2. k # 0
    <3>1. OneLine(<<>>) /\ Len(<<>>) = 0
      BY DEF OneLine
    <3> QED
      BY <1>2, <2>1, <3>1
  <2>3. k - 1 \in 0 .. n /\ k \in 1 .. n /\ k - 1 < k
    BY <1>2, <2>1, <2>2
  <2>4. OneLine(f[k - 1]) /\ Len(f[k - 1]) <= 2 * (k - 1)
    BY <1>4, <2>3
  <2>5. f[k - 1] \in Seq(Character) /\ f[k] = f[k - 1] \o Escaped(text[k])
    BY <1>2, <2>3
  <2>6. /\ Escaped(text[k]) \in Seq(Character) /\ Len(Escaped(text[k])) \in {1, 2}
        /\ OneLine(Escaped(text[k]))
    BY <1>3, <2>3, EscapedType, EscapedLine
  <2>7. OneLine(f[k]) /\ Len(f[k]) = Len(f[k - 1]) + Len(Escaped(text[k]))
    BY <2>4, <2>5, <2>6, LineJoined
  <2>8. Len(f[k - 1]) \in Nat
    BY <2>5
  <2>9. Len(f[k - 1]) + Len(Escaped(text[k])) <= 2 * k
    <3>1. k \in Nat /\ k >= 1
      BY <1>2, <2>3
    <3> QED
      BY <2>4, <2>6, <2>8, <3>1, Twice
  <2> QED
    BY <2>1, <2>7, <2>9
<1>5. Bad \in SUBSET Nat
  BY <1>2
<1> HIDE DEF Bad
<1>6. Bad = {}
  BY <1>4, <1>5, LeastNatural
<1>7. n \in 0 .. n
  BY <1>2
<1>8. OneLine(f[n]) /\ Len(f[n]) <= 2 * n /\ f[n] \in Seq(Character)
  BY <1>2, <1>6, <1>7 DEF Bad
<1>9. q \in Character /\ q # "newline"
  BY SignsAre
<1>10. <<q>> \in Seq(Character) /\ OneLine(<<q>>) /\ Len(<<q>>) = 1
  BY <1>9, OneCharacter
<1>11. Quote(text) = (<<q>> \o f[n]) \o <<q>>
  BY <1>1 DEF Quote, n
<1> HIDE DEF q
<1>12. <<q>> \o f[n] \in Seq(Character) /\ OneLine(<<q>> \o f[n]) /\ Len(<<q>> \o f[n]) = 1 + Len(f[n])
  BY <1>8, <1>10, LineJoined, ConcatProperties
<1>13. OneLine((<<q>> \o f[n]) \o <<q>>) /\ Len((<<q>> \o f[n]) \o <<q>>) = Len(<<q>> \o f[n]) + 1
  BY <1>10, <1>12, LineJoined
<1>14. Len(f[n]) \in Nat
  BY <1>8
<1> QED
  BY <1>2, <1>8, <1>11, <1>12, <1>13, <1>14 DEF n

(* What is left of a line is from its first solid character to its last.   *)
LEMMA TrimOf ==
  ASSUME NEW s \in Seq(Character), NEW a \in 1 .. Len(s), NEW b \in 1 .. Len(s),
         s[a] # "space", s[b] # "space", \A i \in 1 .. Len(s) : s[i] # "space" => a <= i /\ i <= b
  PROVE  Trim(s) = SubSeq(s, a, b)
<1> DEFINE solid == {i \in 1 .. Len(s) : s[i] # "space"}
           first == CHOOSE i \in solid : \A j \in solid : i <= j
           final  == CHOOSE i \in solid : \A j \in solid : j <= i
<1>1. a \in solid /\ b \in solid /\ solid \subseteq Int /\ \A i \in solid : a <= i /\ i <= b
  OBVIOUS
<1>2. Trim(s) = IF solid = {} THEN NoLine ELSE SubSeq(s, first, final)
  BY DEF Trim
<1> HIDE DEF solid
<1>3. first = a
  <2>1. \A i \in solid : (\A j \in solid : i <= j) => i = a
    BY <1>1
  <2> QED
    BY <1>1, <2>1
<1>4. final = b
  <2>1. \A i \in solid : (\A j \in solid : j <= i) => i = b
    BY <1>1
  <2> QED
    BY <1>1, <2>1
<1> HIDE DEF first, final
<1> QED
  BY <1>1, <1>2, <1>3, <1>4

(* The first element of a sequence alone.                                  *)
LEMMA FirstAlone == ASSUME NEW s \in Seq(Character), 1 \in 1 .. Len(s) PROVE SubSeq(s, 1, 1) = <<s[1]>>
<1>1. SubSeq(s, 1, 0) = <<>>
  BY SubSeqEmpty
<1>2. SubSeq(s, 1, 1) = Append(SubSeq(s, 1, 0), s[1])
  <2>1. 1 - 1 = 0
    OBVIOUS
  <2> QED
    BY <2>1, FirstOf
<1>3. <<>> \o <<s[1]>> = Append(<<>>, s[1]) /\ <<>> \o <<s[1]>> = <<s[1]>>
  <2>1. s[1] \in Character /\ <<>> \in Seq(Character)
    OBVIOUS
  <2>2. <<s[1]>> \in Seq(Character)
    BY <2>1, OneOf
  <2> QED
    BY <2>1, <2>2, WithOne, ConcatEmptySeq
<1> QED
  BY <1>1, <1>2, <1>3

\* A value that nothing can be cut off from.
Solid(value) == value \in Seq(Character) /\ Len(value) >= 1 /\ OneLine(value)
                /\ value[1] # "space" /\ value[Len(value)] # "space"

(* A line key = value is an entry of that key with what the value says.    *)
LEMMA EntryParses ==
  ASSUME NEW key \in Character, key \notin Digits \cup Control \cup Signs,
         NEW value, Solid(value), ParseValue(value).kind # "wrong"
  PROVE  EntryIs(EntryOf(key, value), key, ParseValue(value))
<1>0. PICK head : head = <<key, "space", "=", "space">>
  OBVIOUS
<1>1. "space" \in Character /\ "=" \in Character
  BY SignsAre
<1>2. head \in Seq(Character) /\ Len(head) = 4 /\ head[1] = key /\ head[2] = "space"
      /\ head[3] = "=" /\ head[4] = "space"
  <2> DEFINE S == Character
             u == "space"
             e == "="
  <2>1. u \in S /\ e \in S /\ key \in S
    BY <1>1
  <2> HIDE DEF S, u, e
  <2>2. <<key, u, e, u>> \in Seq(S) /\ Len(<<key, u, e, u>>) = 4
        /\ <<key, u, e, u>>[1] = key /\ <<key, u, e, u>>[2] = u /\ <<key, u, e, u>>[3] = e /\ <<key, u, e, u>>[4] = u
    BY <2>1
  <2> QED
    BY <1>0, <2>2 DEF S, u, e
<1>3. PICK m \in Nat : m >= 1 /\ value \in Seq(Character) /\ Len(value) = m
  BY DEF Solid
<1>4. PICK b : b = EntryOf(key, value) /\ b = head \o value
  BY <1>0 DEF EntryOf
<1>5. /\ b \in Seq(Character) /\ Len(b) = 4 + m
      /\ b[1] = key /\ b[2] = "space" /\ b[3] = "=" /\ b[4] = "space"
      /\ \A k \in 1 .. m : b[4 + k] = value[k]
  <2>1. /\ b \in Seq(Character) /\ Len(b) = 4 + m
        /\ \A i \in 1 .. 4 + m : b[i] = IF i <= 4 THEN head[i] ELSE value[i - 4]
    <3>1. /\ b \in Seq(Character) /\ Len(b) = Len(head) + Len(value)
          /\ \A i \in 1 .. Len(head) + Len(value) : b[i] = IF i <= Len(head) THEN head[i] ELSE value[i - Len(head)]
      <4>1. head \in Seq(Character) /\ value \in Seq(Character)
        BY <1>2, <1>3
      <4>2. /\ head \o value \in Seq(Character) /\ Len(head \o value) = Len(head) + Len(value)
            /\ \A i \in 1 .. Len(head) + Len(value) :
                 (head \o value)[i] = IF i <= Len(head) THEN head[i] ELSE value[i - Len(head)]
        BY <4>1, ConcatProperties
      <4> QED
        BY <1>4, <4>2
    <3> QED
      BY <1>2, <1>3, <3>1
  <2>2. \A i \in {1, 2, 3, 4} : i \in 1 .. 4 + m /\ i <= 4
    BY <1>3
  <2>3. \A k \in 1 .. m : 4 + k \in 1 .. 4 + m /\ ~(4 + k <= 4) /\ (4 + k) - 4 = k
    BY <1>3
  <2>4. b[1] = head[1] /\ b[2] = head[2] /\ b[3] = head[3] /\ b[4] = head[4]
    BY <2>1, <2>2
  <2>5. \A k \in 1 .. m : b[4 + k] = value[k]
    BY <2>1, <2>3
  <2> QED
    BY <1>2, <2>1, <2>4, <2>5
<1>6. key \notin {"newline", "bell", "space", "=", "#", "["}
  BY DEF Control, Signs
<1>7. OneLine(b)
  <2>1. ASSUME NEW i \in 1 .. 4 + m PROVE b[i] # "newline"
    <3>1. CASE i \in {1, 2, 3, 4}
      BY <1>5, <1>6, <3>1
    <3>2. CASE i \notin {1, 2, 3, 4}
      <4>1. i - 4 \in 1 .. m /\ 4 + (i - 4) = i
        BY <1>3, <3>2
      <4>2. value[i - 4] # "newline"
        BY <1>3, <4>1 DEF Solid, OneLine
      <4> QED
        BY <1>5, <4>1, <4>2
    <3> QED
      BY <3>1, <3>2
  <2> QED
    BY <1>5, <2>1 DEF OneLine
<1>8. b[4 + m] = value[m] /\ value[1] # "space" /\ value[m] # "space"
  <2>1. m \in 1 .. m
    BY <1>3
  <2> QED
    BY <1>3, <1>5, <2>1 DEF Solid
<1>9. Trim(b) = b
  <2>1. 1 \in 1 .. Len(b) /\ 4 + m \in 1 .. Len(b) /\ \A i \in 1 .. Len(b) : 1 <= i /\ i <= 4 + m
    BY <1>3, <1>5
  <2>2. b[1] # "space" /\ b[4 + m] # "space"
    BY <1>5, <1>6, <1>8
  <2>3. PICK l \in Nat : l = 4 + m
    BY <1>3
  <2>4. Trim(b) = SubSeq(b, 1, l)
    BY <1>5, <2>1, <2>2, <2>3, TrimOf
  <2>5. SubSeq(b, 1, l) = b
    BY <1>5, <2>3, SubSeqFull
  <2> QED
    BY <2>4, <2>5
<1>10. b # <<>> /\ Head(b) = key
  BY <1>3, <1>5
<1>11. ~Blank(b) /\ ~IsHeader(b)
  BY <1>6, <1>10 DEF Blank, IsHeader, NoLine
<1>12. Sign(b) = 3
  <2> DEFINE P(i) == b[i] = "=" /\ \A j \in 1 .. i - 1 : b[j] # "="
  <2>1. 3 \in 1 .. Len(b) /\ P(3)
    <3>1. \A j \in 1 .. 3 - 1 : j = 1 \/ j = 2
      OBVIOUS
    <3> QED
      BY <1>3, <1>5, <1>6, <3>1
  <2>2. \A i \in 1 .. Len(b) : P(i) => i = 3
    <3> TAKE i \in 1 .. Len(b)
    <3>1. i # 1 /\ i # 2 => 3 \in 1 .. i - 1 \/ i = 3
      BY <1>3, <1>5
    <3> QED
      BY <1>5, <1>6, <3>1
  <2> HIDE DEF P
  <2>3. (CHOOSE i \in 1 .. Len(b) : P(i)) = 3
    BY <2>1, <2>2
  <2> QED
    BY <2>3 DEF Sign, P
<1>13. KeyOf(b) = <<key>>
  <2> DEFINE s == SubSeq(b, 1, 2)
  <2>1. s \in Seq(Character) /\ Len(s) = 2 /\ s[1] = key /\ s[2] = "space"
    BY <1>3, <1>5
  <2> HIDE DEF s
  <2>2. Trim(s) = SubSeq(s, 1, 1)
    <3>1. 1 \in 1 .. Len(s) /\ \A i \in 1 .. Len(s) : i = 1 \/ i = 2
      BY <2>1
    <3>2. s[1] # "space" /\ \A i \in 1 .. Len(s) : s[i] # "space" => 1 <= i /\ i <= 1
      BY <1>6, <2>1, <3>1
    <3> QED
      BY <2>1, <3>1, <3>2, TrimOf
  <2>3. SubSeq(s, 1, 1) = <<key>>
    <3>1. 1 \in 1 .. Len(s)
      BY <2>1
    <3> QED
      BY <2>1, <3>1, FirstAlone
  <2>4. KeyOf(b) = Trim(s)
    <3>1. 3 - 1 = 2
      OBVIOUS
    <3> QED
      BY <1>12, <3>1 DEF KeyOf, s
  <2> QED
    BY <2>2, <2>3, <2>4
<1>14. ValueOf(b) = ParseValue(value)
  <2> DEFINE s == SubSeq(b, 4, 4 + m)
  <2>1. s \in Seq(Character) /\ Len(s) = 1 + m /\ s[1] = "space" /\ \A k \in 1 .. m : s[1 + k] = value[k]
    <3>1. s \in Seq(Character) /\ Len(s) = 1 + m /\ \A k \in 1 .. 1 + m : s[k] = b[3 + k]
      BY <1>3, <1>5
    <3> HIDE DEF s
    <3>2. 1 \in 1 .. 1 + m /\ \A k \in 1 .. m : 1 + k \in 1 .. 1 + m /\ 3 + (1 + k) = 4 + k
      BY <1>3
    <3>3. s[1] = b[3 + 1] /\ \A k \in 1 .. m : s[1 + k] = b[3 + (1 + k)]
      BY <3>1, <3>2
    <3> QED
      BY <1>5, <3>1, <3>2, <3>3
  <2> HIDE DEF s
  <2>2. Trim(s) = SubSeq(s, 1 + 1, 1 + m)
    <3>1. PICK l \in Nat : l = 1 + m
      BY <1>3
    <3>2. 2 \in 1 .. Len(s) /\ l \in 1 .. Len(s) /\ 1 \in 1 .. m /\ m \in 1 .. m
      BY <1>3, <2>1, <3>1
    <3>3. s[2] = value[1] /\ s[l] = value[m]
      <4>1. 1 + 1 = 2
        OBVIOUS
      <4> QED
        BY <2>1, <3>1, <3>2, <4>1
    <3>4. \A i \in 1 .. Len(s) : s[i] # "space" => 2 <= i /\ i <= l
      BY <1>3, <2>1, <3>1
    <3>5. Trim(s) = SubSeq(s, 2, l)
      BY <1>8, <2>1, <3>2, <3>3, <3>4, TrimOf
    <3>6. 1 + 1 = 2
      OBVIOUS
    <3> QED
      BY <3>1, <3>5, <3>6
  <2>3. SubSeq(s, 1 + 1, 1 + m) = SubSeq(value, 1, m)
    <3>1. 1 \in Nat /\ m \in Nat /\ 1 <= 1 /\ 1 <= m + 1 /\ m <= Len(value) /\ 1 + m <= Len(s)
      BY <1>3, <2>1
    <3> QED
      BY <1>3, <2>1, <3>1, ShiftedPart
  <2>4. SubSeq(value, 1, m) = value
    BY <1>3, SubSeqFull
  <2>5. ValueOf(b) = ParseValue(Trim(SubSeq(b, 4, 4 + m)))
    <3>1. 3 + 1 = 4
      OBVIOUS
    <3> QED
      BY <1>5, <1>12, <3>1 DEF ValueOf
  <2> QED
    BY <2>2, <2>3, <2>4, <2>5 DEF s
<1>15. EntryValid(b)
  <2>1. 3 \in 1 .. Len(b)
    BY <1>3, <1>5
  <2>2. Len(<<key>>) = 1
    OBVIOUS
  <2>3. key \in Words(<<key>>)
    BY DEF Words, ToSet
  <2> QED
    BY <1>5, <1>13, <1>14, <2>1, <2>2, <2>3 DEF EntryValid
<1> QED
  BY <1>4, <1>5, <1>7, <1>9, <1>11, <1>13, <1>14, <1>15 DEF EntryIs

(* A text in quotes is the value of a line.                                *)
LEMMA QuoteParses ==
  ASSUME NEW text \in Seq(Character), Quotable(text)
  PROVE  Solid(Quote(text)) /\ ParseValue(Quote(text)) = [kind |-> "string", value |-> text]
<1>1. PICK s : s = Quote(text)
  OBVIOUS
<1>2. /\ s \in Seq(Character) /\ ParseString(s) = [kind |-> "string", value |-> text]
      /\ s[1] = "\"" /\ OneLine(s)
  BY <1>1, QuoteIsRead, QuoteOneLine
<1>3. PICK l \in Nat : l = Len(Escapes(text)) + 2 /\ l >= 2
  <2>1. Escapes(text) \in Seq(Character)
    BY QuoteIsRead
  <2>2. Len(Escapes(text)) \in Nat
    BY <2>1
  <2> QED
    BY <2>2
<1>4. Len(s) = l /\ s[l] = "\""
  BY <1>1, <1>3, QuoteIsRead
<1>5. Len(s) >= 1 /\ Len(s) # 1
  <2>1. Len(s) = l
    BY <1>4
  <2>2. l >= 2
    BY <1>3
  <2> QED
    BY <2>1, <2>2
<1>6. s # <<>> /\ Head(s) = "\""
  BY <1>2, <1>5, HeadOf
<1>10. s[1] # "space" /\ s[Len(s)] # "space"
  BY <1>2, <1>4
<1>11. Solid(s)
  BY <1>2, <1>5, <1>10 DEF Solid
<1>7. Len(<<"true">>) = 1 /\ Len(<<"false">>) = 1
  OBVIOUS
<1>8. s \notin {<<"true">>, <<"false">>}
  BY <1>5, <1>7
<1>9. ParseValue(s) = ParseString(s)
  BY <1>5, <1>6, <1>8 DEF ParseValue, NoLine
<1> QED
  BY <1>1, <1>2, <1>9, <1>11

(* So is a number.                                                         *)
LEMMA DigitParses ==
  ASSUME NEW d \in Digits, NEW n \in Nat, NumberOf[d] = n
  PROVE  Solid(Digit(n)) /\ ParseValue(Digit(n)) = [kind |-> "integer", value |-> n] /\ Len(Digit(n)) = 1
<1>1. PICK c \in Digits : NumberOf[c] = n /\ Digit(n) = <<c>>
  BY DEF Digit
<1>2. c \in {"0", "30", "65535", "65536", "4294967296"}
  <2>1. Digits = {"0", "30", "65535", "65536", "4294967296"}
    BY DEF Digits, NumberOf
  <2> QED
    BY <2>1
<1>3. c \in Character
  BY SignsAre
<1>4. c # "newline" /\ c # "space" /\ c # "\"" /\ c # "[" /\ c # "true" /\ c # "false"
  BY <1>2
<1>5. PICK s : s = <<c>>
  OBVIOUS
<1>6. s \in Seq(Character) /\ Len(s) = 1 /\ s[1] = c /\ OneLine(s)
  BY <1>3, <1>4, <1>5, OneCharacter
<1>7. Solid(s)
  <2>1. Len(s) >= 1 /\ s[Len(s)] = c
    BY <1>6
  <2> QED
    BY <1>4, <1>6, <2>1 DEF Solid
<1>8. s # <<>> /\ Head(s) = c
  BY <1>3, <1>5, OneCharacter
<1>9. s \notin {<<"true">>, <<"false">>}
  BY <1>4, <1>5
<1>10. NumberOf[Head(s)] = n /\ n >= 0
  BY <1>1, <1>8
<1>11. ParseValue(s) = [kind |-> "integer", value |-> n]
  BY <1>4, <1>6, <1>8, <1>9, <1>10 DEF ParseValue, NoLine
<1> QED
  BY <1>1, <1>5, <1>6, <1>7, <1>11

-----------------------------------------------------------------------------
(* A request that is written and read.                                     *)

(* Keys are no signs and no numbers.                                       *)
LEMMA KeysAre ==
  ASSUME NEW k \in Keywords
  PROVE  k \in Character /\ k \notin Digits \cup Control \cup Signs
<1>1. k \in Character
  BY SignsAre
<1>2. k \notin {"0", "30", "65535", "65536", "4294967296"} /\ k \notin Control \cup Signs
  BY DEF Keywords, Control, Signs
<1>3. Digits = {"0", "30", "65535", "65536", "4294967296"}
  BY DEF Digits, NumberOf
<1> QED
  BY <1>1, <1>2, <1>3

(* The length of a text with one more line.                                *)
LEMMA LineLengths ==
  \A line, rest \in Seq(Character) :
    WithLine(line, rest) \in Seq(Character) /\ Len(WithLine(line, rest)) = Len(line) + 1 + Len(rest)
  BY WithLineIs DEF Lined

(* The length of a line.                                                   *)
LEMMA EntryLength ==
  ASSUME NEW key \in Character, NEW value \in Seq(Character)
  PROVE  EntryOf(key, value) \in Seq(Character) /\ Len(EntryOf(key, value)) = 4 + Len(value)
<1>0. PICK head : head = <<key, "space", "=", "space">>
  OBVIOUS
<1>1. "space" \in Character /\ "=" \in Character
  BY SignsAre
<1>2. head \in Seq(Character) /\ Len(head) = 4
  <2> DEFINE S == Character
             u == "space"
             e == "="
  <2>1. u \in S /\ e \in S /\ key \in S
    BY <1>1
  <2> HIDE DEF S, u, e
  <2>2. <<key, u, e, u>> \in Seq(S) /\ Len(<<key, u, e, u>>) = 4
    BY <2>1
  <2> QED
    BY <1>0, <2>2 DEF S, u, e
<1>3. head \o value \in Seq(Character) /\ Len(head \o value) = Len(head) + Len(value)
  BY <1>2, ConcatProperties
<1> QED
  BY <1>0, <1>2, <1>3 DEF EntryOf

\* The values of texts and numbers.
TextValue(x)   == [kind |-> "string", value |-> x]
NumberValue(n) == [kind |-> "integer", value |-> n]

(* A line for a text.                                                      *)
LEMMA TextLine ==
  ASSUME NEW k \in Keywords, NEW text \in Seq(Character), Quotable(text)
  PROVE  /\ EntryIs(EntryOf(k, Quote(text)), k, TextValue(text))
         /\ EntryOf(k, Quote(text)) \in Seq(Character) /\ Len(EntryOf(k, Quote(text))) <= 2 * Len(text) + 6
<1>1. PICK s : s = Quote(text)
  OBVIOUS
<1>2. Solid(s) /\ ParseValue(s) = TextValue(text) /\ TextValue(text).kind # "wrong"
  BY <1>1, QuoteParses DEF TextValue
<1>3. EntryIs(EntryOf(k, s), k, TextValue(text))
  BY <1>2, KeysAre, EntryParses
<1>4. s \in Seq(Character) /\ Len(s) <= 2 * Len(text) + 2
  BY <1>1, <1>2, QuoteOneLine DEF Solid
<1>5. EntryOf(k, s) \in Seq(Character) /\ Len(EntryOf(k, s)) = 4 + Len(s)
  BY <1>4, KeysAre, EntryLength
<1>6. Len(s) \in Nat /\ Len(text) \in Nat
  BY <1>4
<1>7. Len(EntryOf(k, s)) <= 2 * Len(text) + 6
  BY <1>4, <1>5, <1>6
<1> QED
  BY <1>1, <1>3, <1>5, <1>7

(* A line for one of the words of a choice.                                *)
LEMMA ChoiceLine ==
  ASSUME NEW k \in Keywords, NEW c \in Priorities \cup Activities \cup Modes
  PROVE  /\ EntryIs(EntryOf(k, Quote(<<c>>)), k, TextValue(<<c>>))
         /\ EntryOf(k, Quote(<<c>>)) \in Seq(Character) /\ Len(EntryOf(k, Quote(<<c>>))) <= 8
<1>1. c \in Character
  BY SignsAre
<1>2. PICK s : s = <<c>>
  OBVIOUS
<1>3. s \in Seq(Character) /\ Len(s) = 1 /\ s[1] = c
  BY <1>1, <1>2, OneOf
<1>4. c \notin Control
  BY DEF Control, Priorities, Activities, Modes
<1>5. Quotable(s)
  <2>1. \A x \in ToSet(s) : x = c
    BY <1>3 DEF ToSet
  <2> QED
    BY <1>4, <2>1 DEF Quotable
<1>6. /\ EntryIs(EntryOf(k, Quote(s)), k, TextValue(s))
      /\ EntryOf(k, Quote(s)) \in Seq(Character) /\ Len(EntryOf(k, Quote(s))) <= 2 * Len(s) + 6
  BY <1>3, <1>5, TextLine
<1>7. 2 * Len(s) + 6 = 8
  BY <1>3
<1> QED
  BY <1>2, <1>6, <1>7

(* A line for a number of seconds, after which nothing comes.              *)
LEMMA TtlLine ==
  ASSUME NEW n \in Ttls
  PROVE  /\ Gives(WithLine(EntryOf("ttl_s", Digit(n)), <<>>), [k \in {"ttl_s"} |-> NumberValue(n)])
         /\ Len(WithLine(EntryOf("ttl_s", Digit(n)), <<>>)) = 6
<1>1. n \in Nat /\ \E d \in Digits : NumberOf[d] = n
  BY DEF Ttls
<1>2. PICK s : s = Digit(n)
  OBVIOUS
<1>3. Solid(s) /\ ParseValue(s) = NumberValue(n) /\ NumberValue(n).kind # "wrong" /\ Len(s) = 1
  BY <1>1, <1>2, DigitParses DEF NumberValue
<1>4. PICK l : l = EntryOf("ttl_s", s)
  OBVIOUS
<1>5. "ttl_s" \in Keywords
  BY DEF Keywords
<1>6. EntryIs(l, "ttl_s", NumberValue(n))
  BY <1>3, <1>4, <1>5, KeysAre, EntryParses
<1>7. l \in Seq(Character) /\ Len(l) = 5
  <2>1. s \in Seq(Character) /\ "ttl_s" \in Character
    BY <1>3, <1>5, KeysAre DEF Solid
  <2>2. l \in Seq(Character) /\ Len(l) = 4 + Len(s)
    BY <1>4, <2>1, EntryLength
  <2> QED
    BY <1>3, <2>2
<1> DEFINE v == [k \in {} |-> n]
           w == [k \in {"ttl_s"} |-> NumberValue(n)]
<1>8. DOMAIN v = {} /\ DOMAIN w = {"ttl_s"} /\ w["ttl_s"] = NumberValue(n)
  <2>1. DOMAIN v = {}
    OBVIOUS
  <2>2. DOMAIN w = {"ttl_s"} /\ w["ttl_s"] = NumberValue(n)
    OBVIOUS
  <2> QED
    BY <2>1, <2>2
<1> HIDE DEF v, w
<1>9. Gives(WithLine(l, <<>>), w)
  BY <1>6, <1>8, NothingGives, GivesMore
<1>10. Len(WithLine(l, <<>>)) = 6
  <2>0. <<>> \in Seq(Character) /\ Len(<<>>) = 0
    OBVIOUS
  <2>1. PICK e : e = <<>> /\ e \in Seq(Character) /\ Len(e) = 0
    BY <2>0
  <2>2. Len(WithLine(l, e)) = Len(l) + 1 + Len(e)
    BY <1>7, <2>1, LineLengths
  <2> QED
    BY <1>7, <2>1, <2>2
<1> QED
  BY <1>2, <1>4, <1>9, <1>10 DEF w

(* The line of a section.                                                  *)
LEMMA HeaderLine ==
  ASSUME NEW h \in RequestHeaders, NEW rest, NEW v, Gives(rest, v), v = [k \in DOMAIN v |-> v[k]]
  PROVE  /\ ParseRequest(WithLine(<<"[", h, "]">>, rest)) = Understood(h, v)
         /\ Len(WithLine(<<"[", h, "]">>, rest)) = 4 + Len(rest)
<1>1. PICK l : l = <<"[", h, "]">>
  OBVIOUS
<1>2. "[" \in Character /\ "]" \in Character /\ h \in Character
  BY SignsAre DEF RequestHeaders, Keywords
<1>3. l \in Seq(Character) /\ Len(l) = 3 /\ l[1] = "[" /\ l[2] = h /\ l[3] = "]"
  <2> DEFINE S == Character
             u == "["
             e == "]"
  <2>1. u \in S /\ e \in S /\ h \in S
    BY <1>2
  <2> HIDE DEF S, u, e
  <2>2. <<u, h, e>> \in Seq(S) /\ Len(<<u, h, e>>) = 3
        /\ <<u, h, e>>[1] = u /\ <<u, h, e>>[2] = h /\ <<u, h, e>>[3] = e
    BY <2>1
  <2> QED
    BY <1>1, <2>2 DEF S, u, e
<1>4. OneLine(l)
  <2>1. h # "newline"
    BY DEF RequestHeaders
  <2>2. \A k \in 1 .. Len(l) : k = 1 \/ k = 2 \/ k = 3
    BY <1>3
  <2> QED
    BY <1>3, <2>1, <2>2 DEF OneLine
<1>5. Trim(l) = l
  <2>1. 1 \in 1 .. Len(l) /\ 3 \in 1 .. Len(l) /\ \A i \in 1 .. Len(l) : 1 <= i /\ i <= 3
    BY <1>3
  <2>2. l[1] # "space" /\ l[3] # "space"
    BY <1>3
  <2>3. Trim(l) = SubSeq(l, 1, 3)
    BY <1>3, <2>1, <2>2, TrimOf
  <2>4. SubSeq(l, 1, Len(l)) = l
    BY <1>3, SubSeqFull
  <2> QED
    BY <1>3, <2>3, <2>4
<1>6. Len(l) >= 1
  BY <1>3
<1>7. l # <<>> /\ Head(l) = "["
  BY <1>3, <1>6, HeadOf
<1>8. IsHeader(l) /\ HeaderValid(l, RequestHeaders)
  BY <1>3, <1>7 DEF IsHeader, HeaderValid, NoLine
<1>9. ParseRequest(WithLine(l, rest)) = Understood(l[2], v)
  BY <1>3, <1>4, <1>5, <1>8, SectionGives
<1>10. rest \in Seq(Character)
  BY DEF Gives
<1>11. Len(WithLine(l, rest)) = Len(l) + 1 + Len(rest)
  BY <1>3, <1>10, LineLengths
<1>12. Len(rest) \in Nat
  BY <1>10
<1>13. Len(WithLine(l, rest)) = 4 + Len(rest)
  BY <1>3, <1>11, <1>12
<1> QED
  BY <1>1, <1>3, <1>9, <1>13

(* A notice as it is read from what was written for it.                    *)
LEMMA NotifyWritten ==
  ASSUME NEW r, r \in [kind : {"notify"}, text : Seq(Character), choice : Priorities, ttl : Ttls], Quotable(r.text)
  PROVE  /\ ParseRequest(FormatRequest(r)) = IF r.text # <<>> THEN [ok |-> TRUE, request |-> r] ELSE NoRequest
         /\ Len(FormatRequest(r)) \in Nat /\ Len(FormatRequest(r)) <= 2 * Len(r.text) + 30
<1>1. PICK text, c, n : r = [kind |-> "notify", text |-> text, choice |-> c, ttl |-> n]
        /\ text \in Seq(Character) /\ c \in Priorities /\ n \in Ttls /\ Quotable(text)
  <2> WITNESS r.text, r.choice, r.ttl
  <2> QED
    OBVIOUS
<1>2. "text" \in Keywords /\ "priority" \in Keywords /\ "notify" \in RequestHeaders
  BY DEF Keywords, RequestHeaders
<1>3. PICK x, y, z : x = TextValue(text) /\ y = TextValue(<<c>>) /\ z = NumberValue(n)
  OBVIOUS
<1>4. PICK l1, l2, t3 : l1 = EntryOf("text", Quote(text)) /\ l2 = EntryOf("priority", Quote(<<c>>))
        /\ t3 = WithLine(EntryOf("ttl_s", Digit(n)), <<>>)
  OBVIOUS
<1> DEFINE v3 == [k \in {"ttl_s"} |-> z]
           v2 == [k \in {"ttl_s", "priority"} |-> IF k = "priority" THEN y ELSE z]
           v1 == [k \in {"ttl_s", "priority", "text"} |-> IF k = "text" THEN x ELSE IF k = "priority" THEN y ELSE z]
<1>5. Gives(t3, v3) /\ Len(t3) = 6
  BY <1>1, <1>3, <1>4, TtlLine
<1>6. EntryIs(l2, "priority", y) /\ l2 \in Seq(Character) /\ Len(l2) <= 8
  BY <1>1, <1>2, <1>3, <1>4, ChoiceLine
<1>7. EntryIs(l1, "text", x) /\ l1 \in Seq(Character) /\ Len(l1) <= 2 * Len(text) + 6
  BY <1>1, <1>2, <1>3, <1>4, TextLine
<1>8. /\ DOMAIN v3 = {"ttl_s"} /\ v3["ttl_s"] = z
      /\ DOMAIN v2 = DOMAIN v3 \cup {"priority"} /\ v2["priority"] = y /\ v2["ttl_s"] = z /\ "priority" \notin DOMAIN v3
      /\ \A j \in DOMAIN v3 : v2[j] = v3[j]
  OBVIOUS
<1>9. /\ DOMAIN v1 = DOMAIN v2 \cup {"text"} /\ v1["text"] = x /\ v1["priority"] = y /\ v1["ttl_s"] = z
      /\ "text" \notin DOMAIN v2 /\ \A j \in DOMAIN v2 : v1[j] = v2[j]
  OBVIOUS
<1>10. v1 = [k \in DOMAIN v1 |-> v1[k]] /\ DOMAIN v1 = {"text", "priority", "ttl_s"}
  OBVIOUS
<1> HIDE DEF v1, v2, v3
<1>11. PICK t2 : t2 = WithLine(l2, t3)
  OBVIOUS
<1>12. Gives(t2, v2)
  BY <1>5, <1>6, <1>8, <1>11, GivesMore
<1>13. PICK t1 : t1 = WithLine(l1, t2)
  OBVIOUS
<1>14. Gives(t1, v1)
  BY <1>7, <1>9, <1>12, <1>13, GivesMore
<1>15. FormatRequest(r) = WithLine(<<"[", "notify", "]">>, t1)
  BY <1>1, <1>4, <1>11, <1>13 DEF FormatRequest, EntriesOf
<1>16. ParseRequest(FormatRequest(r)) = Understood("notify", v1) /\ Len(FormatRequest(r)) = 4 + Len(t1)
  BY <1>2, <1>10, <1>14, <1>15, HeaderLine
<1>17. Len(FormatRequest(r)) \in Nat /\ Len(FormatRequest(r)) <= 2 * Len(r.text) + 30
  <2>1. t3 \in Seq(Character) /\ t2 \in Seq(Character)
    BY <1>5, <1>12 DEF Gives
  <2>2. Len(t2) = Len(l2) + 1 + Len(t3) /\ Len(t1) = Len(l1) + 1 + Len(t2)
    BY <1>6, <1>7, <1>11, <1>13, <2>1, LineLengths
  <2>3. Len(l1) \in Nat /\ Len(l2) \in Nat /\ Len(text) \in Nat
    BY <1>1, <1>6, <1>7
  <2>4. r.text = text
    BY <1>1
  <2> QED
    BY <1>5, <1>6, <1>7, <1>16, <2>2, <2>3, <2>4
<1>18. /\ x.kind = "string" /\ x.value = text /\ y.kind = "string" /\ y.value = <<c>>
       /\ z.kind = "integer" /\ z.value = n /\ n <= 65535 /\ y.value[1] = c
  BY <1>1, <1>3 DEF TextValue, NumberValue, Ttls
<1>19. RequestValid("notify", v1) <=> text # <<>>
  <2>1. HasTtl(v1)
    BY <1>9, <1>18 DEF HasTtl
  <2>2. HasString(v1, "text") /\ HasString(v1, "priority")
    BY <1>9, <1>18 DEF HasString
  <2>3. HasChoice(v1, "priority", Priorities)
    BY <1>1, <1>9, <1>10, <1>18, <2>2 DEF HasChoice
  <2>4. v1["text"].value = text
    BY <1>9, <1>18
  <2> QED
    BY <1>10, <2>1, <2>2, <2>3, <2>4 DEF RequestValid
<1>20. RequestOf("notify", v1) = r
  <2>1. {"text", "priority", "ttl_s"} \subseteq DOMAIN v1
    BY <1>10
  <2>2. Either(v1, "priority", <<"normal">>) = <<c>>
    BY <1>9, <1>18, <2>1 DEF Either
  <2>3. Either(v1, "ttl_s", 0) = n
    BY <1>9, <1>18, <2>1 DEF Either
  <2>4. v1["text"].value = text
    BY <1>9, <1>18
  <2> QED
    BY <1>1, <2>2, <2>3, <2>4 DEF RequestOf
<1>21. r.text = text
  BY <1>1
<1> QED
  BY <1>16, <1>17, <1>19, <1>20, <1>21 DEF Understood

(* A state of an agent as it is read from what was written for it.         *)
LEMMA StatusWritten ==
  ASSUME NEW r, r \in [kind : {"status"}, text : Seq(Character), choice : Activities, ttl : Ttls], Quotable(r.text)
  PROVE  /\ ParseRequest(FormatRequest(r)) = [ok |-> TRUE, request |-> r]
         /\ Len(FormatRequest(r)) \in Nat /\ Len(FormatRequest(r)) <= 2 * Len(r.text) + 30
<1>1. PICK text, c, n : r = [kind |-> "status", text |-> text, choice |-> c, ttl |-> n]
        /\ text \in Seq(Character) /\ c \in Activities /\ n \in Ttls /\ Quotable(text)
  <2> WITNESS r.text, r.choice, r.ttl
  <2> QED
    OBVIOUS
<1>2. "detail" \in Keywords /\ "activity" \in Keywords /\ "status" \in RequestHeaders
  BY DEF Keywords, RequestHeaders
<1>3. PICK x, y, z : x = TextValue(text) /\ y = TextValue(<<c>>) /\ z = NumberValue(n)
  OBVIOUS
<1>4. PICK l1, l2, t3 : l1 = EntryOf("activity", Quote(<<c>>)) /\ l2 = EntryOf("detail", Quote(text))
        /\ t3 = WithLine(EntryOf("ttl_s", Digit(n)), <<>>)
  OBVIOUS
<1> DEFINE v3 == [k \in {"ttl_s"} |-> z]
           v2 == [k \in {"ttl_s", "detail"} |-> IF k = "detail" THEN x ELSE z]
           v1 == [k \in {"ttl_s", "detail", "activity"} |-> IF k = "activity" THEN y ELSE IF k = "detail" THEN x ELSE z]
<1>5. Gives(t3, v3) /\ Len(t3) = 6
  BY <1>1, <1>3, <1>4, TtlLine
<1>6. EntryIs(l1, "activity", y) /\ l1 \in Seq(Character) /\ Len(l1) <= 8
  BY <1>1, <1>2, <1>3, <1>4, ChoiceLine
<1>7. EntryIs(l2, "detail", x) /\ l2 \in Seq(Character) /\ Len(l2) <= 2 * Len(text) + 6
  BY <1>1, <1>2, <1>3, <1>4, TextLine
<1>8. /\ DOMAIN v3 = {"ttl_s"} /\ v3["ttl_s"] = z
      /\ DOMAIN v2 = DOMAIN v3 \cup {"detail"} /\ v2["detail"] = x /\ v2["ttl_s"] = z /\ "detail" \notin DOMAIN v3
      /\ \A j \in DOMAIN v3 : v2[j] = v3[j]
  OBVIOUS
<1>9. /\ DOMAIN v1 = DOMAIN v2 \cup {"activity"} /\ v1["activity"] = y /\ v1["detail"] = x /\ v1["ttl_s"] = z
      /\ "activity" \notin DOMAIN v2 /\ \A j \in DOMAIN v2 : v1[j] = v2[j]
  OBVIOUS
<1>10. v1 = [k \in DOMAIN v1 |-> v1[k]] /\ DOMAIN v1 = {"activity", "detail", "ttl_s"}
  OBVIOUS
<1> HIDE DEF v1, v2, v3
<1>11. PICK t2 : t2 = WithLine(l2, t3)
  OBVIOUS
<1>12. Gives(t2, v2)
  BY <1>5, <1>7, <1>8, <1>11, GivesMore
<1>13. PICK t1 : t1 = WithLine(l1, t2)
  OBVIOUS
<1>14. Gives(t1, v1)
  BY <1>6, <1>9, <1>12, <1>13, GivesMore
<1>15. FormatRequest(r) = WithLine(<<"[", "status", "]">>, t1)
  BY <1>1, <1>4, <1>11, <1>13 DEF FormatRequest, EntriesOf
<1>16. ParseRequest(FormatRequest(r)) = Understood("status", v1) /\ Len(FormatRequest(r)) = 4 + Len(t1)
  BY <1>2, <1>10, <1>14, <1>15, HeaderLine
<1>17. Len(FormatRequest(r)) \in Nat /\ Len(FormatRequest(r)) <= 2 * Len(r.text) + 30
  <2>1. t3 \in Seq(Character) /\ t2 \in Seq(Character)
    BY <1>5, <1>12 DEF Gives
  <2>2. Len(t2) = Len(l2) + 1 + Len(t3) /\ Len(t1) = Len(l1) + 1 + Len(t2)
    BY <1>6, <1>7, <1>11, <1>13, <2>1, LineLengths
  <2>3. Len(l1) \in Nat /\ Len(l2) \in Nat /\ Len(text) \in Nat
    BY <1>1, <1>6, <1>7
  <2>4. r.text = text
    BY <1>1
  <2> QED
    BY <1>5, <1>6, <1>7, <1>16, <2>2, <2>3, <2>4
<1>18. /\ x.kind = "string" /\ x.value = text /\ y.kind = "string" /\ y.value = <<c>>
       /\ z.kind = "integer" /\ z.value = n /\ n <= 65535 /\ y.value[1] = c
  BY <1>1, <1>3 DEF TextValue, NumberValue, Ttls
<1>19. RequestValid("status", v1)
  <2>1. HasTtl(v1)
    BY <1>9, <1>18 DEF HasTtl
  <2>2. HasString(v1, "detail") /\ HasString(v1, "activity")
    BY <1>9, <1>18 DEF HasString
  <2>3. HasChoice(v1, "activity", Activities)
    BY <1>1, <1>9, <1>10, <1>18, <2>2 DEF HasChoice
  <2> QED
    BY <1>10, <2>1, <2>2, <2>3 DEF RequestValid
<1>20. RequestOf("status", v1) = r
  <2>1. {"detail", "activity", "ttl_s"} \subseteq DOMAIN v1
    BY <1>10
  <2>2. Either(v1, "detail", <<>>) = text
    BY <1>9, <1>18, <2>1 DEF Either
  <2>3. Either(v1, "ttl_s", 30) = n
    BY <1>9, <1>18, <2>1 DEF Either
  <2>4. v1["activity"].value[1] = c
    BY <1>9, <1>18
  <2> QED
    BY <1>1, <2>2, <2>3, <2>4 DEF RequestOf
<1> QED
  BY <1>16, <1>17, <1>19, <1>20 DEF Understood

(* A mode of the touches as it is read from what was written for it.       *)
LEMMA InputWritten ==
  ASSUME NEW r, r \in [kind : {"input"}, text : {<<>>}, choice : Modes, ttl : {0}]
  PROVE  /\ ParseRequest(FormatRequest(r)) = [ok |-> TRUE, request |-> r]
         /\ Len(FormatRequest(r)) \in Nat /\ Len(FormatRequest(r)) <= 30
<1>1. PICK c : r = [kind |-> "input", text |-> <<>>, choice |-> c, ttl |-> 0] /\ c \in Modes
  <2> WITNESS r.choice
  <2> QED
    OBVIOUS
<1>2. "mode" \in Keywords /\ "input" \in RequestHeaders
  BY DEF Keywords, RequestHeaders
<1>3. PICK y : y = TextValue(<<c>>)
  OBVIOUS
<1>4. PICK l1 : l1 = EntryOf("mode", Quote(<<c>>))
  OBVIOUS
<1> DEFINE v0 == [k \in {} |-> y]
           v1 == [k \in {"mode"} |-> y]
<1>5. EntryIs(l1, "mode", y) /\ l1 \in Seq(Character) /\ Len(l1) <= 8
  BY <1>1, <1>2, <1>3, <1>4, ChoiceLine
<1>6. DOMAIN v0 = {}
  OBVIOUS
<1>7. DOMAIN v1 = {"mode"} /\ v1["mode"] = y /\ v1 = [k \in DOMAIN v1 |-> v1[k]]
  OBVIOUS
<1>7a. /\ DOMAIN v1 = DOMAIN v0 \cup {"mode"} /\ v1["mode"] = y
       /\ "mode" \notin DOMAIN v0 /\ \A j \in DOMAIN v0 : v1[j] = v0[j]
  BY <1>6, <1>7
<1> HIDE DEF v0, v1
<1>8. PICK t0 : t0 = <<>>
  OBVIOUS
<1>8a. Gives(t0, v0)
  BY <1>6, <1>8, NothingGives
<1>9. PICK t1 : t1 = WithLine(l1, t0)
  OBVIOUS
<1>10. Gives(t1, v1)
  BY <1>5, <1>7a, <1>8a, <1>9, GivesMore
<1>11. FormatRequest(r) = WithLine(<<"[", "input", "]">>, t1)
  BY <1>1, <1>4, <1>8, <1>9 DEF FormatRequest, EntriesOf
<1>12. ParseRequest(FormatRequest(r)) = Understood("input", v1) /\ Len(FormatRequest(r)) = 4 + Len(t1)
  BY <1>2, <1>7, <1>10, <1>11, HeaderLine
<1>13. Len(FormatRequest(r)) \in Nat /\ Len(FormatRequest(r)) <= 30
  <2>1. t0 \in Seq(Character) /\ Len(t0) = 0
    BY <1>8
  <2>2. Len(t1) = Len(l1) + 1 + Len(t0)
    BY <1>5, <1>9, <2>1, LineLengths
  <2>3. Len(l1) \in Nat
    BY <1>5
  <2> QED
    BY <1>5, <1>12, <2>1, <2>2, <2>3
<1>14. y.kind = "string" /\ y.value = <<c>> /\ y.value[1] = c
  BY <1>3 DEF TextValue
<1>15. RequestValid("input", v1)
  BY <1>1, <1>7, <1>14 DEF RequestValid, HasString, HasChoice
<1>16. RequestOf("input", v1) = r
  BY <1>1, <1>7, <1>14 DEF RequestOf
<1> QED
  BY <1>12, <1>13, <1>15, <1>16 DEF Understood

-----------------------------------------------------------------------------
(* What is read from any file.                                             *)

(* A part of a text is one.                                                *)
LEMMA PartType ==
  ASSUME NEW S, NEW s \in Seq(S), NEW a \in Nat, NEW b \in Nat, 1 <= a, b <= Len(s)
  PROVE  SubSeq(s, a, b) \in Seq(S)
<1>1. \A i \in a .. b : s[i] \in S
  OBVIOUS
<1>2. a \in Int /\ b \in Int
  OBVIOUS
<1> QED
  BY <1>1, <1>2, SubSeqProperties

(* What is left of a line is a text.                                       *)
LEMMA TrimType == ASSUME NEW s \in Seq(Character) PROVE Trim(s) \in Seq(Character)
<1> DEFINE solid == {i \in 1 .. Len(s) : s[i] # "space"}
           first == CHOOSE i \in solid : \A j \in solid : i <= j
           final  == CHOOSE i \in solid : \A j \in solid : j <= i
<1>1. PICK n \in Nat : n = Len(s)
  OBVIOUS
<1>2. solid \in SUBSET Nat /\ \A i \in solid : 1 <= i /\ i <= n
  BY <1>1
<1>3. Trim(s) = IF solid = {} THEN NoLine ELSE SubSeq(s, first, final)
  BY DEF Trim
<1>4. NoLine \in Seq(Character)
  BY DEF NoLine
<1> HIDE DEF solid
<1>5. ASSUME solid # {} PROVE SubSeq(s, first, final) \in Seq(Character)
  <2>1. \E i \in solid : \A j \in solid : i <= j
    BY <1>2, <1>5, LeastNatural
  <2>2. first \in solid
    BY <2>1
  <2> DEFINE Left == {n - i : i \in solid}
  <2>3. Left \in SUBSET Nat /\ Left # {}
    <3>1. \A i \in solid : n - i \in Nat
      BY <1>2
    <3>2. \E i \in solid : n - i \in Left
      BY <1>5
    <3> QED
      BY <3>1, <3>2
  <2>4. PICK x \in Left : \A y \in Left : x <= y
    <3> HIDE DEF Left
    <3> QED
      BY <2>3, LeastNatural
  <2>5. PICK i \in solid : x = n - i
    BY <2>4
  <2>6. \A j \in solid : j <= i
    <3> TAKE j \in solid
    <3>1. n - i <= n - j
      BY <2>4, <2>5
    <3> QED
      BY <1>2, <3>1
  <2>7. final \in solid
    BY <2>6
  <2> HIDE DEF first, final
  <2>8. first \in Nat /\ final \in Nat /\ 1 <= first /\ final <= Len(s)
    BY <1>1, <1>2, <2>2, <2>7
  <2> QED
    BY <2>8, PartType
<1> QED
  BY <1>3, <1>4, <1>5

(* So is a line of a text.                                                 *)
LEMMA AtType == ASSUME NEW text \in Seq(Character), NEW i \in Starts(text) PROVE At(text, i) \in Seq(Character)
<1>1. i \in 1 .. Len(text) + 1
  BY StartsType
<1>2. PICK j \in i .. Len(text) + 1 : StopsAt(text, i, j)
  BY <1>1, EndOfLine
<1>3. PICK m \in Nat : m = Len(text)
  OBVIOUS
<1>4. PICK b \in Nat : b = j - 1
  BY <1>1, <1>2, <1>3
<1>5. LineAt(text, i) = SubSeq(text, i, b)
  BY <1>1, <1>2, <1>4, EndOfLine
<1>6. i \in Nat /\ 1 <= i /\ b <= Len(text)
  BY <1>1, <1>2, <1>3, <1>4
<1>7. LineAt(text, i) \in Seq(Character)
  BY <1>5, <1>6, PartType
<1> QED
  BY <1>7, TrimType DEF At

(* A value that is a string is a text.                                     *)
LEMMA ValueType ==
  ASSUME NEW s \in Seq(Character), ParseValue(s).kind = "string"
  PROVE  ParseValue(s).value \in Seq(Character)
<1>1. PICK b, n : ParseValue(s) \in {Wrong, [kind |-> "bool", value |-> s], ParseString(s), ParseArray(Tail(s)),
                                     [kind |-> "integer", value |-> n]}
  <2> WITNESS 0, NumberOf[Head(s)]
  <2> QED
    BY DEF ParseValue
<1>2. Wrong.kind = "wrong"
  BY DEF Wrong
<1>3. ParseArray(Tail(s)).kind \in {"wrong", "strings"}
  BY <1>2 DEF ParseArray, AllStrings
<1>4. ParseValue(s) = ParseString(s)
  <2>1. [kind |-> "bool", value |-> s].kind = "bool" /\ [kind |-> "integer", value |-> n].kind = "integer"
    OBVIOUS
  <2> QED
    BY <1>1, <1>2, <1>3, <2>1
<1> DEFINE q == Awaiting("next")
<1>5. q \in Reading
  <2>1. <<>> \in Seq(Character) /\ <<>> \in Seq(Seq(Character))
    OBVIOUS
  <2> QED
    BY <2>1 DEF Reading, Awaiting, ReadingPlaces
<1>6. PICK p \in Reading : p = Through(q, s)
  <2> HIDE DEF q
  <2> QED
    BY <1>5, ThroughType
<1>7. ParseString(s) = OneString(p)
  BY <1>6 DEF ParseString
<1>8. OneString(p).kind = "string" => OneString(p).value = p.value
  BY <1>2 DEF OneString
<1>9. p.value \in Seq(Character)
  BY DEF Reading
<1> QED
  BY <1>4, <1>7, <1>8, <1>9

(* So is that of an entry.                                                 *)
LEMMA EntryType ==
  ASSUME NEW line \in Seq(Character), EntryValid(line), ValueOf(line).kind = "string"
  PROVE  ValueOf(line).value \in Seq(Character)
<1>1. PICK n \in Nat : n = Len(line)
  OBVIOUS
<1> DEFINE Equals == {i \in 1 .. n : line[i] = "="}
           P(i) == line[i] = "=" /\ \A j \in 1 .. i - 1 : line[j] # "="
<1>2. Equals \in SUBSET Nat /\ Equals # {}
  BY <1>1 DEF EntryValid
<1>3. PICK i \in Equals : \A j \in Equals : i <= j
  <2> HIDE DEF Equals
  <2> QED
    BY <1>2, LeastNatural
<1>4. i \in 1 .. n /\ P(i)
  <2>1. ASSUME NEW j \in 1 .. i - 1 PROVE line[j] # "="
    <3>1. j \in 1 .. n /\ ~(i <= j)
      BY <1>3
    <3> QED
      BY <1>3, <3>1
  <2> QED
    BY <1>3, <2>1
<1> HIDE DEF P, Equals
<1>5. PICK g \in 1 .. n : g = Sign(line)
  <2>1. Sign(line) = CHOOSE x \in 1 .. n : P(x)
    BY <1>1 DEF Sign, P
  <2> QED
    BY <1>4, <2>1
<1>6. PICK a \in Nat : a = g + 1 /\ 1 <= a
  BY <1>5
<1>7. SubSeq(line, a, Len(line)) \in Seq(Character)
  BY <1>1, <1>6, PartType
<1>8. PICK s \in Seq(Character) : s = Trim(SubSeq(line, a, Len(line)))
  BY <1>7, TrimType
<1>9. ValueOf(line) = ParseValue(s)
  BY <1>5, <1>6, <1>8 DEF ValueOf
<1> QED
  BY <1>9, ValueType

(* And that of a section.                                                  *)
LEMMA SectionType ==
  ASSUME NEW text \in Seq(Character), NEW headers, SectionsValid(text, headers), NEW h \in Headers(text)
  PROVE  \A k \in DOMAIN ParseSection(text, h) :
           ParseSection(text, h)[k].kind = "string" => ParseSection(text, h)[k].value \in Seq(Character)
<1> DEFINE K == {KeyOf(At(text, i))[1] : i \in Inside(text, h)}
           E(k) == CHOOSE i \in Inside(text, h) : KeyOf(At(text, i))[1] = k
           v == [k \in K |-> ValueOf(At(text, E(k)))]
<1>1. ParseSection(text, h) = v
  BY DEF ParseSection
<1>2. ASSUME NEW k \in K, ValueOf(At(text, E(k))).kind = "string"
      PROVE  ValueOf(At(text, E(k))).value \in Seq(Character)
  <2>1. E(k) \in Inside(text, h)
    OBVIOUS
  <2> HIDE DEF E
  <2>2. E(k) \in Entries(text) /\ E(k) \in Starts(text)
    BY <2>1 DEF Inside, Entries
  <2>3. At(text, E(k)) \in Seq(Character)
    BY <2>2, AtType
  <2>4. EntryValid(At(text, E(k)))
    BY <2>2 DEF SectionsValid
  <2> QED
    BY <1>2, <2>3, <2>4, EntryType
<1> HIDE DEF K, E
<1>3. DOMAIN v = K /\ \A k \in K : v[k] = ValueOf(At(text, E(k)))
  OBVIOUS
<1> QED
  BY <1>1, <1>2, <1>3

(* A request that is read is one of the three, and its text is a text.     *)
LEMMA RequestType ==
  ASSUME NEW text \in Seq(Character), ReadRequest(text).ok
  PROVE  LET r == ReadRequest(text).request
         IN  r.kind \in RequestHeaders /\ (r.kind \in {"notify", "status"} => r.text \in Seq(Character))
<1>1. ~NoRequest.ok
  BY DEF NoRequest
<1>2. ReadRequest(text) = ParseRequest(text) /\ ParseRequest(text).ok
  BY <1>1 DEF ReadRequest
<1>3. SectionsValid(text, RequestHeaders) /\ \E h \in Headers(text) : Headers(text) = {h}
  BY <1>1, <1>2 DEF ParseRequest
<1>4. PICK h \in Headers(text) : Headers(text) = {h}
  BY <1>3
<1>5. PICK k, v : k = At(text, h)[2] /\ v = ParseSection(text, h)
  OBVIOUS
<1>6. ParseRequest(text) = Understood(k, v)
  <2>1. (CHOOSE x \in Headers(text) : TRUE) = h
    BY <1>4
  <2> QED
    BY <1>3, <1>5, <2>1 DEF ParseRequest
<1>7. k \in RequestHeaders
  BY <1>3, <1>5 DEF SectionsValid, HeaderValid
<1>8. \A x \in DOMAIN v : v[x].kind = "string" => v[x].value \in Seq(Character)
  BY <1>3, <1>5, SectionType
<1>9. RequestValid(k, v)
  BY <1>1, <1>2, <1>6 DEF Understood
<1>10. PICK r : r = RequestOf(k, v)
  OBVIOUS
<1>11. ReadRequest(text).request = r
  BY <1>2, <1>6, <1>9, <1>10 DEF Understood
<1>12. r.kind = k
  BY <1>10 DEF RequestOf
<1>13. CASE k = "notify"
  <2>1. "text" \in DOMAIN v /\ v["text"].kind = "string"
    BY <1>9, <1>13 DEF RequestValid, HasString
  <2>2. r.text = v["text"].value
    BY <1>10, <1>13 DEF RequestOf
  <2> QED
    BY <1>7, <1>8, <1>11, <1>12, <2>1, <2>2
<1>14. CASE k = "status"
  <2>1. "detail" \in DOMAIN v => v["detail"].kind = "string"
    BY <1>9, <1>14 DEF RequestValid, HasString
  <2>2. r.text = IF "detail" \in DOMAIN v THEN v["detail"].value ELSE <<>>
    BY <1>10, <1>14 DEF RequestOf, Either
  <2>3. <<>> \in Seq(Character)
    OBVIOUS
  <2>4. r.text \in Seq(Character)
    BY <1>8, <2>1, <2>2, <2>3
  <2> QED
    BY <1>7, <1>11, <1>12, <2>4
<1>15. CASE k \notin {"notify", "status"}
  BY <1>7, <1>11, <1>12, <1>15
<1> QED
  BY <1>13, <1>14, <1>15

-----------------------------------------------------------------------------
(* What a request comes to.                                                *)

(* What a request asks of the device is taken if its type holds it.        *)
LEMMA AskedPlain ==
  ASSUME NEW r, r.kind \in RequestHeaders, r.kind \in {"notify", "status"} => r.text \in Seq(Character),
         Holds(Asked(r))
  PROVE  Plain(Asked(r))
<1>1. CASE r.kind = "notify"
  <2>1. PICK n \in Nat : n = Len(r.text)
    BY <1>1
  <2>2. PICK m : m = [type |-> "Text", bytes |-> n]
    OBVIOUS
  <2>3. Asked(r) = m
    BY <1>1, <2>1, <2>2 DEF Asked
  <2>4. m.type = "Text" /\ m.bytes = n
    BY <2>2
  <2>5. m.bytes <= MaxNotice
    BY <2>3, <2>4 DEF Holds
  <2> QED
    BY <2>3, <2>4, <2>5, TextPlain
<1>2. CASE r.kind = "status"
  <2>1. PICK n \in Nat : n = Len(r.text)
    BY <1>2
  <2>2. PICK g : g = [x |-> 0, y |-> 0]
    OBVIOUS
  <2>3. PICK m : m = [type |-> "Presence", detail |-> n, gaze |-> g]
    OBVIOUS
  <2>4. Asked(r) = m
    BY <1>2, <2>1, <2>2, <2>3 DEF Asked
  <2>5. m.type = "Presence" /\ m.detail = n /\ m.gaze = g
    BY <2>3
  <2>6. m.detail <= MaxDetail
    BY <2>4, <2>5 DEF Holds
  <2>7. GazeValid(m.gaze)
    <3>1. g.x = 0 /\ g.y = 0
      BY <2>2
    <3>2. GazeValid(g)
      BY <3>1 DEF GazeValid
    <3> QED
      BY <2>5, <3>2
  <2> QED
    BY <2>4, <2>5, <2>6, <2>7, PresencePlain
<1>3. CASE r.kind = "input"
  <2>1. Asked(r).type = "InputMode"
    BY <1>3 DEF Asked
  <2>2. TakenWhole(Asked(r))
    BY <2>1 DEF TakenWhole
  <2> QED
    BY <2>1, <2>2, FixedPlain
<1> QED
  BY <1>1, <1>2, <1>3 DEF RequestHeaders

(* A request that was read is handed on, or the user is told.              *)
LEMMA HandedFits ==
  ASSUME NEW r, r.kind \in RequestHeaders, r.kind \in {"notify", "status"} => r.text \in Seq(Character),
         Fitting, outcome = "idle", UNCHANGED <<section, transfer>>, Handed(r)
  PROVE  Fitting'
<1>1. CASE Holds(Asked(r))
  <2>1. Plain(Asked(r))
    BY <1>1, AskedPlain
  <2>2. PlainLeft(<<Asked(r)>>)
    BY <2>1, OnePlain
  <2>3. outcome' = "sending" /\ sending' = <<Asked(r)>>
    BY <1>1 DEF Handed
  <2>4. PlainLeft(sending')
    BY <2>2, <2>3
  <2> QED
    BY <2>3, <2>4 DEF Fitting
<1>2. CASE ~Holds(Asked(r))
  <2>1. outcome' = "told" /\ UNCHANGED sending
    BY <1>2 DEF Handed
  <2> QED
    BY <2>1 DEF Fitting
<1> QED
  BY <1>1, <1>2

(* What is not sent leaves everything as it is.                            *)
LEMMA ToldFits ==
  ASSUME Fitting, outcome = "idle", UNCHANGED <<section, transfer, sending>>, outcome' = "told"
  PROVE  Fitting'
  BY DEF Fitting

(* What has a short text is not too long a file.                           *)
LEMMA ShortEnough ==
  ASSUME NEW text, Len(text) \in Nat, Len(text) <= 2 * MaxNotice + 30
  PROVE  ReadRequest(text) = ParseRequest(text)
<1>1. ~(Len(text) + 31 > 4096)
  BY DEF MaxNotice
<1> QED
  BY <1>1 DEF ReadRequest, MoreLetters, MaxRequestBytes

(* A request with a text that can be quoted is read as it was meant, unless *)
(* it has nothing to show or too much.                                     *)
LEMMA RequestReturns ==
  ASSUME NEW r \in Request, Quotable(r.text)
  PROVE  /\ r.kind \in RequestHeaders /\ (r.kind \in {"notify", "status"} => r.text \in Seq(Character))
         /\ \/ ReadRequest(FormatRequest(r)) \in {[ok |-> TRUE, request |-> r], NoRequest} /\ ~Showable(r)
            \/ ReadRequest(FormatRequest(r)) = [ok |-> TRUE, request |-> r]
<1>0. PICK t : t = FormatRequest(r)
  OBVIOUS
<1>1. ReadRequest(t) \in {ParseRequest(t), NoRequest}
  BY DEF ReadRequest
<1>2. CASE r \in [kind : {"notify"}, text : Seq(STRING), choice : Priorities, ttl : Ttls]
  <2>1. r.kind = "notify" /\ r.text \in Seq(Character)
    BY <1>2, TextsAre
  <2>2. r \in [kind : {"notify"}, text : Seq(Character), choice : Priorities, ttl : Ttls]
    BY <1>2, <2>1
  <2>3. /\ ParseRequest(t) = IF r.text # <<>> THEN [ok |-> TRUE, request |-> r] ELSE NoRequest
        /\ Len(t) \in Nat /\ Len(t) <= 2 * Len(r.text) + 30
    BY <1>0, <2>2, NotifyWritten
  <2>4. CASE Showable(r)
    <3>1. Asked(r).type = "Text" /\ Asked(r).bytes = Len(r.text) /\ Holds(Asked(r)) /\ r.text # <<>>
      BY <2>1, <2>4 DEF Showable, Asked
    <3>2. Len(r.text) <= MaxNotice /\ Len(r.text) \in Nat
      BY <2>1, <3>1 DEF Holds
    <3>3. Len(t) <= 2 * MaxNotice + 30
      BY <2>3, <3>2 DEF MaxNotice
    <3>4. ReadRequest(t) = ParseRequest(t)
      BY <2>3, <3>3, ShortEnough
    <3> QED
      BY <1>0, <2>1, <2>3, <3>1, <3>4 DEF RequestHeaders
  <2> QED
    BY <1>0, <1>1, <2>1, <2>3, <2>4 DEF RequestHeaders
<1>3. CASE r \in [kind : {"status"}, text : Seq(STRING), choice : Activities, ttl : Ttls]
  <2>1. r.kind = "status" /\ r.text \in Seq(Character)
    BY <1>3, TextsAre
  <2>2. r \in [kind : {"status"}, text : Seq(Character), choice : Activities, ttl : Ttls]
    BY <1>3, <2>1
  <2>3. /\ ParseRequest(t) = [ok |-> TRUE, request |-> r]
        /\ Len(t) \in Nat /\ Len(t) <= 2 * Len(r.text) + 30
    BY <1>0, <2>2, StatusWritten
  <2>4. CASE Showable(r)
    <3>1. Asked(r).type = "Presence" /\ Asked(r).detail = Len(r.text) /\ Holds(Asked(r))
      BY <2>1, <2>4 DEF Showable, Asked
    <3>2. Len(r.text) <= MaxDetail /\ Len(r.text) \in Nat
      BY <2>1, <3>1 DEF Holds
    <3>3. Len(t) <= 2 * MaxNotice + 30
      BY <2>3, <3>2 DEF MaxDetail, MaxNotice
    <3>4. ReadRequest(t) = ParseRequest(t)
      BY <2>3, <3>3, ShortEnough
    <3> QED
      BY <1>0, <2>1, <2>3, <3>4 DEF RequestHeaders
  <2> QED
    BY <1>0, <1>1, <2>1, <2>3, <2>4 DEF RequestHeaders
<1>4. CASE r \in [kind : {"input"}, text : {<<>>}, choice : Modes, ttl : {0}]
  <2>1. r.kind = "input"
    BY <1>4
  <2>2. ParseRequest(t) = [ok |-> TRUE, request |-> r] /\ Len(t) \in Nat /\ Len(t) <= 30
    BY <1>0, <1>4, InputWritten
  <2>3. Len(t) <= 2 * MaxNotice + 30
    BY <2>2 DEF MaxNotice
  <2>4. ReadRequest(t) = ParseRequest(t)
    BY <2>2, <2>3, ShortEnough
  <2> QED
    BY <1>0, <2>1, <2>2, <2>4 DEF RequestHeaders
<1> QED
  BY <1>2, <1>3, <1>4 DEF Request

(* A request of the command line.                                          *)
LEMMA AskFits == Fitting /\ Ask => Fitting'
<1> SUFFICES ASSUME Fitting, Ask PROVE Fitting'
  OBVIOUS
<1>1. outcome = "idle" /\ UNCHANGED <<section, transfer>>
  BY DEF Ask
<1>2. PICK r \in Requests :
        IF Quotable(r.text) THEN ReadBack(r, ReadRequest(FormatRequest(r)))
        ELSE outcome' = "told" /\ UNCHANGED sending
  BY DEF Ask
<1>3. r \in Request
  BY ContentAssumption
<1>4. CASE outcome' = "told" /\ UNCHANGED sending
  BY <1>1, <1>4, ToldFits
<1>5. CASE Quotable(r.text) /\ ReadBack(r, ReadRequest(FormatRequest(r)))
  <2>1. PICK read : read = ReadRequest(FormatRequest(r))
    OBVIOUS
  <2>2. /\ r.kind \in RequestHeaders /\ (r.kind \in {"notify", "status"} => r.text \in Seq(Character))
        /\ \/ read \in {[ok |-> TRUE, request |-> r], NoRequest} /\ ~Showable(r)
           \/ read = [ok |-> TRUE, request |-> r]
    BY <1>3, <1>5, <2>1, RequestReturns
  <2>3. CASE read = [ok |-> TRUE, request |-> r]
    <3>1. read.ok /\ read.request = r
      BY <2>3
    <3>2. Handed(r)
      BY <1>5, <2>1, <3>1 DEF ReadBack
    <3> QED
      BY <1>1, <2>2, <3>2, HandedFits
  <2>4. CASE read = NoRequest /\ ~Showable(r)
    <3>1. ~read.ok
      BY <2>4 DEF NoRequest
    <3>2. outcome' = "told" /\ UNCHANGED sending
      BY <1>5, <2>1, <2>4, <3>1 DEF ReadBack
    <3> QED
      BY <1>1, <3>2, ToldFits
  <2> QED
    BY <2>2, <2>3, <2>4
<1> QED
  BY <1>2, <1>4, <1>5

(* A file of another program.                                              *)
LEMMA ReadFits == Fitting /\ Read => Fitting'
<1> SUFFICES ASSUME Fitting, Read PROVE Fitting'
  OBVIOUS
<1>1. outcome = "idle" /\ UNCHANGED <<section, transfer>>
  BY DEF Read
<1>2. PICK text \in Files : HandedIfRead(ReadRequest(text))
  BY DEF Read
<1>3. text \in Seq(Character)
  BY ContentAssumption, TextsAre
<1>4. CASE ReadRequest(text).ok
  <2>1. PICK r : r = ReadRequest(text).request
    OBVIOUS
  <2>2. r.kind \in RequestHeaders /\ (r.kind \in {"notify", "status"} => r.text \in Seq(Character))
    BY <1>3, <1>4, <2>1, RequestType
  <2>3. Handed(r)
    BY <1>2, <1>4, <2>1 DEF HandedIfRead
  <2> QED
    BY <1>1, <2>2, <2>3, HandedFits
<1>5. CASE ~ReadRequest(text).ok
  <2>1. outcome' = "told" /\ UNCHANGED sending
    BY <1>2, <1>5 DEF HandedIfRead
  <2> QED
    BY <1>1, <2>1, ToldFits
<1> QED
  BY <1>4, <1>5

(* Every step keeps to it.                                                 *)
LEMMA FittingStep == Fitting /\ [ContentNext]_xvars => Fitting'
<1> SUFFICES ASSUME Fitting, [ContentNext]_xvars PROVE Fitting'
  OBVIOUS
<1>1. CASE Configure
  BY <1>1, ConfigureFits
<1>2. CASE Greet
  BY <1>2, GreetFits
<1>3. CASE Say
  BY <1>3, SayFits
<1>4. CASE Command
  BY <1>4, CommandFits
<1>5. CASE Ask
  BY <1>5, AskFits
<1>6. CASE Read
  BY <1>6, ReadFits
<1>7. CASE KeepSettings
  BY <1>7, KeepFits
<1>8. CASE Check
  BY <1>8, CheckFits
<1>9. CASE Deliver
  BY <1>9, DeliverFits
<1>10. CASE Settle
  BY <1>10, SettleFits
<1>11. CASE UNCHANGED xvars
  BY <1>11 DEF Fitting, xvars
<1> QED
  BY <1>1, <1>2, <1>3, <1>4, <1>5, <1>6, <1>7, <1>8, <1>9, <1>10, <1>11 DEF ContentNext

(* What was accepted of a plugin or of the user reaches its receiver whole, *)
(* whatever the settings, messages, commands, requests and files are: no   *)
(* stage after the first refuses it, finds it too long or alters it        *)
(* (convert.rs, config.rs, spool.rs, settings.rs, lib.rs, model.rs).       *)
THEOREM EveryStageTakes == ContentSpec => []ReceiversTakeAll
<1>1. Fitting => ReceiversTakeAll
  BY DEF Fitting, ReceiversTakeAll
<1> QED
  BY <1>1, InitFitting, FittingStep, PTL DEF ContentSpec

-----------------------------------------------------------------------------
(* Frames.  A place is the number of a byte in a stream s; what there is of *)
(* a frame after n bytes begins behind the last zero byte.                  *)

\* j is the last of places before i.
IsLast(places, i, j) == j \in places \cup {0} /\ j < i /\ \A l \in places : l < i => l <= j

(* Of a set of places there is a last one before i, or none.               *)
LEMMA LastExists ==
  ASSUME NEW P \in SUBSET Nat, NEW i \in Nat, i > 0
  PROVE  IsLast(P, i, LastBefore(P, i))
<1> DEFINE D == {d \in Nat : d <= i - 1 /\ i - 1 - d \in P \cup {0}}
<1>1. D \in SUBSET Nat /\ i - 1 \in D
  OBVIOUS
<1>2. PICK d \in D : \A e \in D : d <= e
  BY <1>1, LeastNatural
<1> DEFINE j == i - 1 - d
<1>3. j \in P \cup {0} /\ j < i /\ j \in Nat
  BY <1>2
<1>4. ASSUME NEW l \in P, l < i PROVE l <= j
  <2>1. i - 1 - l \in D
    BY <1>4
  <2> QED
    BY <1>2, <2>1
<1>5. IsLast(P, i, j)
  BY <1>3, <1>4 DEF IsLast
<1> QED
  BY <1>5 DEF LastBefore, IsLast

(* There is only one.                                                      *)
LEMMA LastIsOne ==
  ASSUME NEW P \in SUBSET Nat, NEW i \in Nat, i > 0, NEW j, IsLast(P, i, j)
  PROVE  LastBefore(P, i) = j
<1> DEFINE k == LastBefore(P, i)
<1>1. IsLast(P, i, k)
  BY LastExists
<1> HIDE DEF k
<1>2. j \in P \cup {0} /\ k \in P \cup {0}
  BY <1>1 DEF IsLast
<1>3. (j = 0 \/ j <= k) /\ (k = 0 \/ k <= j)
  BY <1>1 DEF IsLast
<1>4. j \in Nat /\ k \in Nat
  BY <1>2
<1>5. j = k
  BY <1>3, <1>4
<1> QED
  BY <1>5 DEF k

\* The frame under way begins behind place k.
Opens(s, n, k) ==
  /\ k \in 0 .. n /\ (k = 0 \/ s[k] = "zero")
  /\ \A i \in k + 1 .. n : s[i] # "zero"

(* A frame is under way behind the last zero byte.                         *)
LEMMA OpensAt ==
  ASSUME NEW S, NEW s \in Seq(S), NEW n \in 0 .. Len(s)
  PROVE  Opens(s, n, LastBefore(Zeros(s), n + 1))
<1> DEFINE k == LastBefore(Zeros(s), n + 1)
<1>1. Zeros(s) \in SUBSET Nat /\ n + 1 \in Nat /\ n + 1 > 0
  BY DEF Zeros
<1>2. IsLast(Zeros(s), n + 1, k)
  BY <1>1, LastExists
<1> HIDE DEF k
<1>3. k \in Zeros(s) \cup {0} /\ k < n + 1 /\ k \in Nat
  BY <1>1, <1>2 DEF IsLast
<1>4. ASSUME NEW i \in k + 1 .. n PROVE s[i] # "zero"
  <2>1. i \in 1 .. Len(s) /\ i < n + 1 /\ ~(i <= k)
    BY <1>3
  <2> QED
    BY <1>2, <2>1 DEF IsLast, Zeros
<1>5. k \in 0 .. n /\ (k = 0 \/ s[k] = "zero")
  BY <1>3 DEF Zeros
<1> QED
  BY <1>4, <1>5 DEF Opens, k

(* It is under way behind one place only.                                  *)
LEMMA OpensOnce ==
  ASSUME NEW S, NEW s \in Seq(S), NEW n \in 0 .. Len(s), NEW k, Opens(s, n, k)
  PROVE  LastBefore(Zeros(s), n + 1) = k /\ Begun(s, n) = SubSeq(s, k + 1, n)
<1>1. Zeros(s) \in SUBSET Nat /\ n + 1 \in Nat /\ n + 1 > 0
  BY DEF Zeros
<1>2. k \in Zeros(s) \cup {0} /\ k < n + 1
  BY DEF Opens, Zeros
<1>3. ASSUME NEW l \in Zeros(s), l < n + 1 PROVE l <= k
  BY <1>3 DEF Opens, Zeros
<1>4. LastBefore(Zeros(s), n + 1) = k
  BY <1>1, <1>2, <1>3, LastIsOne DEF IsLast
<1> QED
  BY <1>4 DEF Begun

(* What there is of it holds no zero byte.                                 *)
LEMMA BegunType ==
  ASSUME NEW S, NEW s \in Seq(S), NEW n \in 0 .. Len(s)
  PROVE  Begun(s, n) \in Seq(S) /\ \A i \in 1 .. Len(Begun(s, n)) : Begun(s, n)[i] # "zero"
<1>1. PICK k : Opens(s, n, k)
  BY OpensAt
<1>2. Begun(s, n) = SubSeq(s, k + 1, n)
  BY <1>1, OpensOnce
<1> QED
  BY <1>1, <1>2 DEF Opens

(* It depends on the bytes so far only.                                    *)
LEMMA BegunSame ==
  ASSUME NEW S, NEW s \in Seq(S), NEW t \in Seq(S), NEW n \in 0 .. Len(s), n <= Len(t),
         \A i \in 1 .. n : t[i] = s[i]
  PROVE  Begun(t, n) = Begun(s, n)
<1>1. PICK k : Opens(s, n, k)
  BY OpensAt
<1>2. n \in 0 .. Len(t) /\ Opens(t, n, k)
  BY <1>1 DEF Opens
<1>3. Begun(s, n) = SubSeq(s, k + 1, n) /\ Begun(t, n) = SubSeq(t, k + 1, n)
  BY <1>1, <1>2, OpensOnce
<1>4. SubSeq(s, k + 1, n) = SubSeq(t, k + 1, n)
  BY <1>1 DEF Opens
<1> QED
  BY <1>3, <1>4

(* Bytes other than zero extend the frame under way.                       *)
LEMMA BegunChunk ==
  ASSUME NEW S, NEW s \in Seq(S), NEW n \in 0 .. Len(s), NEW m \in n .. Len(s),
         \A i \in n + 1 .. m : s[i] # "zero"
  PROVE  Begun(s, m) = Begun(s, n) \o SubSeq(s, n + 1, m)
<1>1. PICK k : Opens(s, n, k)
  BY OpensAt
<1>2. Opens(s, m, k) /\ m \in 0 .. Len(s)
  BY <1>1 DEF Opens
<1>3. Begun(s, n) = SubSeq(s, k + 1, n) /\ Begun(s, m) = SubSeq(s, k + 1, m)
  BY <1>1, <1>2, OpensOnce
<1>4. SubSeq(s, k + 1, m) = SubSeq(s, k + 1, n) \o SubSeq(s, n + 1, m)
  BY <1>1 DEF Opens
<1> QED
  BY <1>3, <1>4

(* A zero byte ends it.                                                    *)
LEMMA BegunZero ==
  ASSUME NEW S, NEW s \in Seq(S), NEW n \in 1 .. Len(s), s[n] = "zero"
  PROVE  Begun(s, n) = <<>>
<1>1. Opens(s, n, n) /\ n \in 0 .. Len(s)
  BY DEF Opens
<1>2. Begun(s, n) = SubSeq(s, n + 1, n)
  BY <1>1, OpensOnce
<1> QED
  BY <1>2

(* What comes behind a place grows by the byte that arrives.               *)
LEMMA RestGrows ==
  ASSUME NEW S, NEW s \in Seq(S), NEW n \in 1 .. Len(s), NEW k \in 0 .. n - 1
  PROVE  SubSeq(s, k + 1, n) = Append(SubSeq(s, k + 1, n - 1), s[n])
  OBVIOUS

(* One byte more is one byte more of the frame under way.                  *)
LEMMA BegunByte ==
  ASSUME NEW S, NEW s \in Seq(S), NEW n \in 1 .. Len(s), s[n] # "zero"
  PROVE  Begun(s, n) = Append(Begun(s, n - 1), s[n])
<1>1. n - 1 \in 0 .. Len(s) /\ n \in 0 .. Len(s)
  OBVIOUS
<1>2. PICK k : Opens(s, n - 1, k)
  BY <1>1, OpensAt
<1>3. Opens(s, n, k)
  BY <1>2 DEF Opens
<1>4. Begun(s, n - 1) = SubSeq(s, k + 1, n - 1) /\ Begun(s, n) = SubSeq(s, k + 1, n)
  BY <1>1, <1>2, <1>3, OpensOnce
<1>5. SubSeq(s, k + 1, n) = Append(SubSeq(s, k + 1, n - 1), s[n])
  BY <1>2, RestGrows DEF Opens
<1> QED
  BY <1>4, <1>5

(* A list is of the places and of what they hold, not of anything else.    *)
LEMMA ListsSame ==
  ASSUME NEW P, NEW f, NEW g, NEW out, Lists(out, P, f), \A p \in P : g[p] = f[p]
  PROVE  Lists(out, P, g)
<1>1. PICK at \in [1 .. Len(out) -> P] :
           /\ \A j, k \in 1 .. Len(out) : j < k => at[j] < at[k]
           /\ \A p \in P : \E k \in 1 .. Len(out) : at[k] = p
           /\ \A k \in 1 .. Len(out) : out[k] = f[at[k]]
  BY DEF Lists
<1>2. \A k \in 1 .. Len(out) : out[k] = g[at[k]]
  BY <1>1
<1> QED
  BY <1>1, <1>2 DEF Lists

(* A result more is a place more, behind all others.                       *)
LEMMA ListsMore ==
  ASSUME NEW P \in SUBSET Nat, NEW e \in Nat, \A p \in P : p < e, NEW f, NEW g,
         \A p \in P : g[p] = f[p], NEW R, NEW out \in Seq(R), g[e] \in R, Lists(out, P, f)
  PROVE  Lists(Append(out, g[e]), P \cup {e}, g)
<1> DEFINE n == Len(out)
           more == Append(out, g[e])
<1>1. PICK at \in [1 .. n -> P] :
           /\ \A j, k \in 1 .. n : j < k => at[j] < at[k]
           /\ \A p \in P : \E k \in 1 .. n : at[k] = p
           /\ \A k \in 1 .. n : out[k] = f[at[k]]
  BY DEF Lists
<1> DEFINE all == [k \in 1 .. n + 1 |-> IF k <= n THEN at[k] ELSE e]
<1>2. n \in Nat /\ Len(more) = n + 1 /\ more[n + 1] = g[e] /\ \A k \in 1 .. n : more[k] = out[k]
  OBVIOUS
<1> HIDE DEF n, more
<1>3. all \in [1 .. n + 1 -> P \cup {e}] /\ all[n + 1] = e /\ \A k \in 1 .. n : all[k] = at[k]
  BY <1>2
<1> HIDE DEF all
<1>4. \A k \in 1 .. n + 1 : k \in 1 .. n \/ k = n + 1
  BY <1>2
<1>5. ASSUME NEW j \in 1 .. n + 1, NEW k \in 1 .. n + 1, j < k PROVE all[j] < all[k]
  <2>1. j \in 1 .. n
    BY <1>2, <1>5
  <2>2. CASE k \in 1 .. n
    BY <1>1, <1>3, <1>5, <2>1, <2>2
  <2>3. CASE k = n + 1
    BY <1>1, <1>3, <2>1, <2>3
  <2> QED
    BY <1>4, <2>2, <2>3
<1>6. ASSUME NEW p \in P \cup {e} PROVE \E k \in 1 .. n + 1 : all[k] = p
  <2>1. CASE p \in P
    <3>1. PICK k \in 1 .. n : at[k] = p
      BY <1>1, <2>1
    <3>2. k \in 1 .. n + 1
      BY <1>2
    <3> QED
      BY <1>3, <3>1, <3>2
  <2>2. CASE p = e
    BY <1>2, <1>3, <2>2
  <2> QED
    BY <2>1, <2>2
<1>7. ASSUME NEW k \in 1 .. n + 1 PROVE more[k] = g[all[k]]
  <2>1. CASE k \in 1 .. n
    <3>1. more[k] = f[at[k]] /\ all[k] = at[k]
      BY <1>1, <1>2, <1>3, <2>1
    <3>2. at[k] \in P
      BY <1>1, <2>1
    <3> QED
      BY <3>1, <3>2
  <2>2. CASE k = n + 1
    BY <1>2, <1>3, <2>2
  <2> QED
    BY <1>4, <2>1, <2>2
<1>8. /\ all \in [1 .. Len(more) -> P \cup {e}]
      /\ \A j, k \in 1 .. Len(more) : j < k => all[j] < all[k]
      /\ \A p \in P \cup {e} : \E k \in 1 .. Len(more) : all[k] = p
      /\ \A k \in 1 .. Len(more) : more[k] = g[all[k]]
  BY <1>2, <1>3, <1>5, <1>6, <1>7
<1> QED
  BY <1>8 DEF Lists, more

(* No results, no places.                                                  *)
LEMMA ListsNone == ASSUME NEW f PROVE Lists(<<>>, {}, f)
<1>1. <<>> \in [1 .. 0 -> {}] /\ 1 .. Len(<<>>) = 1 .. 0 /\ 1 .. 0 = {}
  OBVIOUS
<1> QED
  BY <1>1 DEF Lists

(* What ends behind a place and what before it.                            *)
LEMMA EndsUntil ==
  ASSUME NEW S, NEW s \in Seq(S), NEW n \in 0 .. Len(s), NEW m \in n .. Len(s),
         \A i \in n + 1 .. m : s[i] # "zero"
  PROVE  EndsOf(s, m) = EndsOf(s, n)
<1>1. \A e \in Zeros(s) : e <= m <=> e <= n
  BY DEF Zeros
<1> QED
  BY <1>1 DEF EndsOf

(* A zero byte ends a frame, unless it is empty.                           *)
LEMMA EndsAt ==
  ASSUME NEW S, NEW s \in Seq(S), NEW n \in 1 .. Len(s), s[n] = "zero"
  PROVE  /\ Begun(s, n - 1) = <<>> => EndsOf(s, n) = EndsOf(s, n - 1)
         /\ Begun(s, n - 1) # <<>> => EndsOf(s, n) = EndsOf(s, n - 1) \cup {n}
         /\ EndsOf(s, n - 1) \in SUBSET Nat /\ \A e \in EndsOf(s, n - 1) : e < n
<1>1. n \in Zeros(s) /\ Zeros(s) \in SUBSET Nat
  BY DEF Zeros
<1>2. \A e \in Zeros(s) : e <= n <=> e = n \/ e <= n - 1
  BY <1>1
<1>3. \A e \in EndsOf(s, n - 1) : e \in Zeros(s) /\ e <= n - 1
  BY DEF EndsOf
<1>4. \A e \in EndsOf(s, n - 1) : e < n
  BY <1>1, <1>3
<1>5. ~(n <= n - 1)
  OBVIOUS
<1>6. \A e : e \in EndsOf(s, n) <=> e \in EndsOf(s, n - 1) \/ (e = n /\ Begun(s, n - 1) # <<>>)
  BY <1>1, <1>2, <1>5 DEF EndsOf
<1> QED
  BY <1>1, <1>3, <1>4, <1>6

(* A byte more changes nothing of what was there.                          *)
LEMMA OneByte ==
  ASSUME NEW S, NEW s \in Seq(S), NEW b \in S
  PROVE  LET t == Append(s, b)
         IN  /\ t \in Seq(S) /\ Len(t) = Len(s) + 1 /\ t[Len(t)] = b
             /\ \A i \in 1 .. Len(s) : t[i] = s[i]
             /\ Zeros(t) = IF b = "zero" THEN Zeros(s) \cup {Len(s) + 1} ELSE Zeros(s)
             /\ \A n \in 0 .. Len(s) : Begun(t, n) = Begun(s, n) /\ EndsOf(t, n) = EndsOf(s, n)
             /\ \A e \in Zeros(s) : Bodies(t)[e] = Bodies(s)[e]
<1> DEFINE t == Append(s, b)
<1>1. /\ t \in Seq(S) /\ Len(t) = Len(s) + 1 /\ t[Len(t)] = b
      /\ \A i \in 1 .. Len(s) : t[i] = s[i]
  OBVIOUS
<1> HIDE DEF t
<1>2. Zeros(t) = IF b = "zero" THEN Zeros(s) \cup {Len(s) + 1} ELSE Zeros(s)
  <2>1. Len(s) \in Nat
    OBVIOUS
  <2>2. \A i : i \in 1 .. Len(s) + 1 <=> i \in 1 .. Len(s) \/ i = Len(s) + 1
    BY <2>1
  <2>3. Len(s) + 1 \notin 1 .. Len(s)
    BY <2>1
  <2> QED
    BY <1>1, <2>2, <2>3 DEF Zeros
<1>3. \A n \in 0 .. Len(s) : Begun(t, n) = Begun(s, n)
  <2> TAKE n \in 0 .. Len(s)
  <2>1. n <= Len(t) /\ \A i \in 1 .. n : t[i] = s[i]
    BY <1>1
  <2> QED
    BY <1>1, <2>1, BegunSame
<1>4. \A e \in Zeros(s) : e \in Zeros(t) /\ e - 1 \in 0 .. Len(s)
  BY <1>2 DEF Zeros
<1>5. \A n \in 0 .. Len(s) : EndsOf(t, n) = EndsOf(s, n)
  <2> TAKE n \in 0 .. Len(s)
  <2>1. \A e \in Zeros(t) : e <= n => e \in Zeros(s)
    BY <1>2
  <2> QED
    BY <1>3, <1>4, <2>1 DEF EndsOf
<1>6. \A e \in Zeros(s) : Bodies(t)[e] = Bodies(s)[e]
  BY <1>3, <1>4 DEF Bodies
<1> QED
  BY <1>1, <1>2, <1>3, <1>5, <1>6 DEF t

(* The same in the words of the readers that take one byte at a time.      *)
LEMMA NextByte ==
  ASSUME NEW s \in Seq(Byte), NEW b \in Byte
  PROVE  LET t == Append(s, b)
             c == Begun(s, Len(s))
         IN  /\ t \in Seq(Byte) /\ c \in Seq(Byte) /\ Len(t) \in Nat
             /\ Zeros(s) \in SUBSET Nat /\ EndsOf(s, Len(s)) \subseteq Zeros(s)
             /\ \A e \in Zeros(s) : e \in Zeros(t) /\ e < Len(t) /\ Bodies(t)[e] = Bodies(s)[e]
             /\ b # "zero" => /\ Begun(t, Len(t)) = Append(c, b)
                              /\ EndsOf(t, Len(t)) = EndsOf(s, Len(s)) /\ Zeros(t) = Zeros(s)
             /\ b = "zero" => /\ Begun(t, Len(t)) = <<>>
                              /\ Zeros(t) = Zeros(s) \cup {Len(t)} /\ Bodies(t)[Len(t)] = c
                              /\ c = <<>> => EndsOf(t, Len(t)) = EndsOf(s, Len(s))
                              /\ c # <<>> => EndsOf(t, Len(t)) = EndsOf(s, Len(s)) \cup {Len(t)}
<1> DEFINE t == Append(s, b)
           n == Len(s)
           c == Begun(s, n)
<1>1. /\ t \in Seq(Byte) /\ Len(t) = n + 1 /\ t[n + 1] = b /\ n \in Nat
      /\ Zeros(t) = IF b = "zero" THEN Zeros(s) \cup {n + 1} ELSE Zeros(s)
      /\ Begun(t, n) = c /\ EndsOf(t, n) = EndsOf(s, n)
      /\ \A e \in Zeros(s) : Bodies(t)[e] = Bodies(s)[e]
  <2>1. n \in 0 .. n
    OBVIOUS
  <2> QED
    BY <2>1, OneByte
<1> HIDE DEF t
<1>2. c \in Seq(Byte)
  <2>1. n \in 0 .. Len(s)
    OBVIOUS
  <2> QED
    BY <2>1, BegunType
<1> HIDE DEF c
<1>3. Zeros(s) \in SUBSET Nat /\ EndsOf(s, n) \subseteq Zeros(s) /\ \A e \in Zeros(s) : e < n + 1
  BY DEF Zeros, EndsOf
<1> HIDE DEF n
<1>4. n \in 0 .. Len(t) /\ n + 1 \in n .. Len(t) /\ n + 1 \in 1 .. Len(t)
  BY <1>1
<1>5. \A e \in Zeros(s) : e \in Zeros(t)
  BY <1>1
<1>6. ASSUME b # "zero"
      PROVE  Begun(t, n + 1) = Append(c, b) /\ EndsOf(t, n + 1) = EndsOf(s, n) /\ Zeros(t) = Zeros(s)
  <2>1. \A i \in n + 1 .. n + 1 : t[i] # "zero"
    BY <1>1, <1>6
  <2>2. EndsOf(t, n + 1) = EndsOf(t, n)
    BY <1>1, <1>4, <2>1, EndsUntil
  <2>3. n + 1 - 1 = n
    BY <1>1
  <2>4. Begun(t, n + 1) = Append(Begun(t, n), b)
    BY <1>1, <1>4, <1>6, <2>3, BegunByte
  <2> QED
    BY <1>1, <1>6, <2>2, <2>4
<1>7. ASSUME b = "zero"
      PROVE  /\ Begun(t, n + 1) = <<>>
             /\ Zeros(t) = Zeros(s) \cup {n + 1} /\ Bodies(t)[n + 1] = c
             /\ c = <<>> => EndsOf(t, n + 1) = EndsOf(s, n)
             /\ c # <<>> => EndsOf(t, n + 1) = EndsOf(s, n) \cup {n + 1}
  <2>1. Begun(t, n + 1) = <<>>
    BY <1>1, <1>4, <1>7, BegunZero
  <2>2. n + 1 - 1 = n
    BY <1>1
  <2>3. /\ Begun(t, n) = <<>> => EndsOf(t, n + 1) = EndsOf(t, n)
        /\ Begun(t, n) # <<>> => EndsOf(t, n + 1) = EndsOf(t, n) \cup {n + 1}
    BY <1>1, <1>4, <1>7, <2>2, EndsAt
  <2>4. Bodies(t)[n + 1] = c
    BY <1>1, <1>7, <2>2 DEF Bodies
  <2> QED
    BY <1>1, <1>7, <2>1, <2>3, <2>4
<1> QED
  BY <1>1, <1>2, <1>3, <1>5, <1>6, <1>7 DEF t, n, c

-----------------------------------------------------------------------------

Results == Seq(Byte) \cup {"Rejected", "Oversized", "Malformed"}
Decoder == [buffer : Seq(Byte), discarding : BOOLEAN, out : Seq(Results)]

(* What the steps of a reader do to its buffer and to its results.         *)
LEMMA DecoderSteps ==
  ASSUME NEW d \in Decoder
  PROVE  /\ \A b \in Byte : /\ Keep(d, b) \in Decoder /\ Keep(d, b).out = d.out
                            /\ Keep(d, b).buffer = Append(d.buffer, b)
                            /\ Keep(d, b).discarding = d.discarding
         /\ Discard(d) \in Decoder /\ Discard(d).out = d.out
         /\ Discard(d).buffer = <<>> /\ Discard(d).discarding
         /\ Restart(d) \in Decoder /\ Restart(d).out = d.out
         /\ Restart(d).buffer = <<>> /\ ~Restart(d).discarding
         /\ \A r \in Results : /\ Result(d, r) \in Decoder /\ Result(d, r).out = Append(d.out, r)
                               /\ Result(d, r).buffer = <<>> /\ ~Result(d, r).discarding
<1>1. \A b \in Byte : /\ Keep(d, b) \in Decoder /\ Keep(d, b).out = d.out
                      /\ Keep(d, b).buffer = Append(d.buffer, b)
                      /\ Keep(d, b).discarding = d.discarding
  <2> TAKE b \in Byte
  <2>1. Append(d.buffer, b) \in Seq(Byte)
    BY DEF Decoder
  <2>2. d \in [buffer : Seq(Byte), discarding : BOOLEAN, out : Seq(Results)]
    BY DEF Decoder
  <2> QED
    BY <2>1, <2>2 DEF Decoder, Keep
<1>2. /\ Discard(d) \in Decoder /\ Discard(d).out = d.out
      /\ Discard(d).buffer = <<>> /\ Discard(d).discarding
  <2>1. <<>> \in Seq(Byte) /\ TRUE \in BOOLEAN
    OBVIOUS
  <2> QED
    BY <2>1 DEF Decoder, Discard
<1>3. /\ Restart(d) \in Decoder /\ Restart(d).out = d.out
      /\ Restart(d).buffer = <<>> /\ ~Restart(d).discarding
  <2>1. <<>> \in Seq(Byte) /\ FALSE \in BOOLEAN
    OBVIOUS
  <2> QED
    BY <2>1 DEF Decoder, Restart
<1>4. ASSUME NEW r \in Results
      PROVE  /\ Result(d, r) \in Decoder /\ Result(d, r).out = Append(d.out, r)
             /\ Result(d, r).buffer = <<>> /\ ~Result(d, r).discarding
  <2> DEFINE e == Restart(d)
  <2> HIDE DEF e
  <2>1. e \in Decoder /\ e.out = d.out /\ e.buffer = <<>> /\ ~e.discarding
    BY <1>3 DEF e
  <2>2. Result(d, r) = [e EXCEPT !.out = Append(@, r)]
    BY DEF Result, e
  <2>3. Append(e.out, r) \in Seq(Results)
    BY <2>1 DEF Decoder
  <2> QED
    BY <2>1, <2>2, <2>3 DEF Decoder
<1> QED
  BY <1>1, <1>2, <1>3, <1>4

\* What a reader keeps of the frame under way.
Keeps(d, b) ==
  IF Fits(b) THEN ~d.discarding /\ d.buffer = b ELSE d.discarding /\ d.buffer = <<>>

(* A frame of MaxFrame - 1 bytes is as long as it may be.                  *)
LEMMA FitsNext ==
  ASSUME NEW c \in Seq(Byte), NEW b \in Byte
  PROVE  /\ Fits(Append(c, b)) <=> Fits(c) /\ Len(c) # MaxFrame - 1
         /\ Fits(<<>>) /\ Append(c, b) \in Seq(Byte)
  BY FramingAssumption DEF Fits

ReceiverInv(s, d) == d \in Decoder /\ Keeps(d, Begun(s, Len(s))) /\ ReceiverAgrees(s, d)

(* Receiver::push keeps the invariant.                                     *)
LEMMA ReceiverByte ==
  ASSUME NEW s \in Seq(Byte), NEW b \in Byte, NEW d, ReceiverInv(s, d)
  PROVE  ReceiverInv(Append(s, b), PushReceiver(d, b))
<1> DEFINE t == Append(s, b)
           c == Begun(s, Len(s))
           e == PushReceiver(d, b)
           Of(u) == [z \in Zeros(u) |-> IF Good(Bodies(u)[z]) THEN Bodies(u)[z] ELSE "Rejected"]
<1>1. /\ t \in Seq(Byte) /\ c \in Seq(Byte) /\ Len(t) \in Nat
      /\ Zeros(s) \in SUBSET Nat /\ EndsOf(s, Len(s)) \subseteq Zeros(s)
      /\ \A z \in Zeros(s) : z \in Zeros(t) /\ z < Len(t) /\ Bodies(t)[z] = Bodies(s)[z]
      /\ b # "zero" => /\ Begun(t, Len(t)) = Append(c, b)
                       /\ EndsOf(t, Len(t)) = EndsOf(s, Len(s)) /\ Zeros(t) = Zeros(s)
      /\ b = "zero" => /\ Begun(t, Len(t)) = <<>>
                       /\ Zeros(t) = Zeros(s) \cup {Len(t)} /\ Bodies(t)[Len(t)] = c
                       /\ c = <<>> => EndsOf(t, Len(t)) = EndsOf(s, Len(s))
                       /\ c # <<>> => EndsOf(t, Len(t)) = EndsOf(s, Len(s)) \cup {Len(t)}
  BY NextByte
<1>2. d \in Decoder /\ Keeps(d, c) /\ Lists(d.out, EndsOf(s, Len(s)), Of(s))
  BY DEF ReceiverInv, ReceiverAgrees
<1> HIDE DEF t, c
<1>3. \A z \in EndsOf(s, Len(s)) : Of(t)[z] = Of(s)[z]
  BY <1>1
<1>4. b = "zero" => Of(t)[Len(t)] = IF Good(c) THEN c ELSE "Rejected"
  BY <1>1
<1> DEFINE f == Of(s)
           g == Of(t)
           P == EndsOf(s, Len(s))
           Q == EndsOf(t, Len(t))
<1>5. ReceiverAgrees(t, e) = Lists(e.out, Q, g)
  BY DEF ReceiverAgrees
<1> HIDE DEF f, g, P, Q, e
<1>6. ASSUME b # "zero" PROVE ReceiverInv(t, e)
  <2>1. e \in Decoder /\ e.out = d.out /\ Keeps(e, Append(c, b))
    <3>1. e = IF d.discarding THEN d ELSE IF Full(d) THEN Discard(d) ELSE Keep(d, b)
      BY <1>6 DEF e, PushReceiver
    <3> QED
      BY <1>1, <1>2, <3>1, DecoderSteps, FitsNext DEF Keeps, Full
  <2>2. Lists(d.out, P, g)
    BY <1>2, <1>3, ListsSame DEF f, g, P
  <2> QED
    BY <1>1, <1>5, <1>6, <2>1, <2>2 DEF ReceiverInv, P, Q
<1>7. ASSUME b = "zero" PROVE ReceiverInv(t, e)
  <2>1. CASE c = <<>>
    <3>1. e = d /\ Keeps(e, <<>>)
      BY <1>2, <1>7, <2>1, FitsNext DEF e, PushReceiver, Keeps
    <3>2. Lists(d.out, P, g)
      BY <1>2, <1>3, ListsSame DEF f, g, P
    <3> QED
      BY <1>1, <1>2, <1>5, <1>7, <2>1, <3>1, <3>2 DEF ReceiverInv, P, Q
  <2>2. CASE c # <<>>
    <3> DEFINE r == IF Good(c) THEN c ELSE "Rejected"
    <3>1. r \in Results
      BY <1>1 DEF Results
    <3>2. e = Result(d, r)
      BY <1>2, <1>7, <2>2 DEF e, PushReceiver, Keeps, Good
    <3> HIDE DEF r
    <3>3. e \in Decoder /\ e.out = Append(d.out, r) /\ Keeps(e, <<>>)
      BY <1>2, <3>1, <3>2, DecoderSteps, FitsNext DEF Keeps
    <3>4. g[Len(t)] = r
      BY <1>4, <1>7 DEF g, r
    <3>5. P \in SUBSET Nat /\ (\A p \in P : p < Len(t)) /\ (\A p \in P : g[p] = f[p]) /\ Lists(d.out, P, f)
      BY <1>1, <1>2, <1>3 DEF P, f, g
    <3>6. d.out \in Seq(Results)
      BY <1>2 DEF Decoder
    <3>7. Lists(Append(d.out, g[Len(t)]), P \cup {Len(t)}, g)
      BY <1>1, <3>1, <3>4, <3>5, <3>6, ListsMore
    <3> QED
      BY <1>1, <1>5, <1>7, <2>2, <3>3, <3>4, <3>7 DEF ReceiverInv, P, Q
  <2> QED
    BY <2>1, <2>2
<1> QED
  BY <1>6, <1>7 DEF t, e

(* read_reply keeps what it has when a frame becomes too long, but passes  *)
(* it over.                                                                *)
ReplyInv(s, d) ==
  /\ d \in Decoder
  /\ IF Fits(Begun(s, Len(s))) THEN ~d.discarding /\ d.buffer = Begun(s, Len(s)) ELSE d.discarding
  /\ ReplyAgrees(s, d)

(* A byte read by read_reply keeps the invariant.                          *)
LEMMA ReplyByte ==
  ASSUME NEW s \in Seq(Byte), NEW b \in Byte, NEW d, ReplyInv(s, d)
  PROVE  ReplyInv(Append(s, b), PushReply(d, b))
<1> DEFINE t == Append(s, b)
           c == Begun(s, Len(s))
           e == PushReply(d, b)
           f == Bodies(s)
           g == Bodies(t)
           P == {z \in EndsOf(s, Len(s)) : Good(f[z])}
           Q == {z \in EndsOf(t, Len(t)) : Good(g[z])}
<1>1. /\ t \in Seq(Byte) /\ c \in Seq(Byte) /\ Len(t) \in Nat
      /\ Zeros(s) \in SUBSET Nat /\ EndsOf(s, Len(s)) \subseteq Zeros(s)
      /\ \A z \in Zeros(s) : z \in Zeros(t) /\ z < Len(t) /\ g[z] = f[z]
      /\ b # "zero" => /\ Begun(t, Len(t)) = Append(c, b)
                       /\ EndsOf(t, Len(t)) = EndsOf(s, Len(s)) /\ Zeros(t) = Zeros(s)
      /\ b = "zero" => /\ Begun(t, Len(t)) = <<>>
                       /\ Zeros(t) = Zeros(s) \cup {Len(t)} /\ g[Len(t)] = c
                       /\ c = <<>> => EndsOf(t, Len(t)) = EndsOf(s, Len(s))
                       /\ c # <<>> => EndsOf(t, Len(t)) = EndsOf(s, Len(s)) \cup {Len(t)}
  BY NextByte
<1>2. /\ d \in Decoder /\ Lists(d.out, P, f)
      /\ IF Fits(c) THEN ~d.discarding /\ d.buffer = c ELSE d.discarding
  BY DEF ReplyInv, ReplyAgrees
<1>3. ReplyAgrees(t, e) = Lists(e.out, Q, g)
  BY DEF ReplyAgrees
<1> HIDE DEF t, c, f, g, e
<1>4. /\ P \in SUBSET Nat /\ \A z \in P : z < Len(t) /\ g[z] = f[z]
      /\ b # "zero" => Q = P
      /\ b = "zero" => Q = IF Good(c) THEN P \cup {Len(t)} ELSE P
  <2>1. P \in SUBSET Nat /\ \A z \in P : z < Len(t) /\ g[z] = f[z]
    BY <1>1
  <2>2. b # "zero" => Q = P
    BY <1>1
  <2>3. ASSUME b = "zero", c # <<>>
        PROVE  Q = IF Good(c) THEN P \cup {Len(t)} ELSE P
    BY <1>1, <2>3
  <2>4. b = "zero" /\ c = <<>> => Q = P /\ ~Good(c)
    BY <1>1 DEF Good
  <2> QED
    BY <2>1, <2>2, <2>3, <2>4
<1> HIDE DEF P, Q
<1>5. ASSUME b # "zero" PROVE ReplyInv(t, e)
  <2>1. /\ e \in Decoder /\ e.out = d.out
        /\ IF Fits(Append(c, b)) THEN ~e.discarding /\ e.buffer = Append(c, b) ELSE e.discarding
    <3>1. e = IF d.discarding THEN d
              ELSE IF Full(d) THEN [d EXCEPT !.discarding = TRUE] ELSE Keep(d, b)
      BY <1>5 DEF e, PushReply
    <3>2. LET x == [d EXCEPT !.discarding = TRUE]
          IN  x \in Decoder /\ x.out = d.out /\ x.discarding
      BY <1>2 DEF Decoder
    <3> QED
      BY <1>1, <1>2, <3>1, <3>2, DecoderSteps, FitsNext DEF Full
  <2>2. Lists(d.out, P, g)
    BY <1>2, <1>4, ListsSame
  <2> QED
    BY <1>1, <1>3, <1>4, <1>5, <2>1, <2>2 DEF ReplyInv
<1>6. ASSUME b = "zero" PROVE ReplyInv(t, e)
  <2>1. e = IF Good(c) THEN Result(d, c) ELSE Restart(d)
    BY <1>2, <1>6 DEF e, PushReply, Good
  <2>2. e \in Decoder /\ ~e.discarding /\ e.buffer = <<>>
        /\ e.out = IF Good(c) THEN Append(d.out, c) ELSE d.out
    <3>1. c \in Results
      BY <1>1 DEF Results
    <3> HIDE DEF e, c
    <3>2. CASE Good(c)
      BY <1>2, <2>1, <3>1, <3>2, DecoderSteps
    <3>3. CASE ~Good(c)
      BY <1>2, <2>1, <3>3, DecoderSteps
    <3> QED
      BY <3>2, <3>3
  <2>3. Lists(e.out, Q, g)
    <3>1. CASE Good(c)
      <4>1. d.out \in Seq(Results) /\ g[Len(t)] \in Results
        BY <1>1, <1>2, <1>6 DEF Decoder, Results
      <4>2. Lists(Append(d.out, g[Len(t)]), P \cup {Len(t)}, g)
        BY <1>1, <1>2, <1>4, <4>1, ListsMore
      <4> QED
        BY <1>1, <1>4, <1>6, <2>2, <3>1, <4>2
    <3>2. CASE ~Good(c)
      BY <1>2, <1>4, <1>6, <2>2, <3>2, ListsSame
    <3> QED
      BY <3>1, <3>2
  <2>4. Fits(<<>>)
    BY <1>1, FitsNext
  <2> QED
    BY <1>1, <1>3, <1>6, <2>2, <2>3, <2>4 DEF ReplyInv
<1> QED
  BY <1>5, <1>6 DEF t, e

-----------------------------------------------------------------------------
(* FrameReader, which takes what its buffer holds up to a zero byte.       *)

ReaderInv(s, n, d) == d \in Decoder /\ Keeps(d, Begun(s, n)) /\ ReaderAgrees(s, n, d)

(* What arrives behind the bytes that FrameReader took changes nothing.    *)
LEMMA ReaderLater ==
  ASSUME NEW s \in Seq(Byte), NEW b \in Byte, NEW n \in 0 .. Len(s), NEW d, ReaderInv(s, n, d)
  PROVE  ReaderInv(Append(s, b), n, d)
<1> DEFINE t == Append(s, b)
           Of(u) == [e \in Zeros(u) |-> IF ~Fits(Bodies(u)[e]) THEN "Oversized"
                                        ELSE IF Decodes(Bodies(u)[e]) THEN Bodies(u)[e] ELSE "Malformed"]
<1>1. Begun(t, n) = Begun(s, n) /\ EndsOf(t, n) = EndsOf(s, n)
  BY OneByte
<1>2. \A e \in EndsOf(s, n) : e \in Zeros(s) /\ e \in Zeros(t) /\ Bodies(t)[e] = Bodies(s)[e]
  <2>1. \A e \in EndsOf(s, n) : e \in Zeros(s)
    BY DEF EndsOf
  <2> QED
    BY <2>1, NextByte
<1> HIDE DEF t
<1>3. \A e \in EndsOf(s, n) : Of(t)[e] = Of(s)[e]
  BY <1>2
<1>4. Lists(d.out, EndsOf(s, n), Of(s)) /\ d \in Decoder /\ Keeps(d, Begun(s, n))
  BY DEF ReaderInv, ReaderAgrees
<1>5. ReaderAgrees(t, n, d) = Lists(d.out, EndsOf(t, n), Of(t))
  BY DEF ReaderAgrees
<1> HIDE DEF Of
<1>6. Lists(d.out, EndsOf(s, n), Of(t))
  BY <1>3, <1>4, ListsSame
<1>7. ReaderInv(t, n, d)
  BY <1>1, <1>4, <1>5, <1>6 DEF ReaderInv
<1> QED
  BY <1>7 DEF t

(* A piece of a frame, however long, extends the frame under way.          *)
LEMMA ReaderPiece ==
  ASSUME NEW s \in Seq(Byte), NEW n \in 0 .. Len(s), NEW m \in n .. Len(s),
         \A i \in n + 1 .. m : s[i] # "zero", NEW d, ReaderInv(s, n, d)
  PROVE  ReaderInv(s, m, Piece(d, SubSeq(s, n + 1, m), FALSE))
<1> DEFINE chunk == SubSeq(s, n + 1, m)
           c == Begun(s, n)
           e == Piece(d, chunk, FALSE)
           of == [z \in Zeros(s) |-> IF ~Fits(Bodies(s)[z]) THEN "Oversized"
                                     ELSE IF Decodes(Bodies(s)[z]) THEN Bodies(s)[z] ELSE "Malformed"]
<1>1. EndsOf(s, m) = EndsOf(s, n) /\ Begun(s, m) = c \o chunk /\ c \in Seq(Byte)
  BY BegunChunk, EndsUntil, BegunType
<1>2. chunk \in Seq(Byte)
  OBVIOUS
<1>3. d \in Decoder /\ Keeps(d, c) /\ Lists(d.out, EndsOf(s, n), of)
  BY DEF ReaderInv, ReaderAgrees
<1>4. ReaderAgrees(s, m, e) = Lists(e.out, EndsOf(s, m), of)
  BY DEF ReaderAgrees
<1> HIDE DEF c, chunk, of
<1>5. e = IF d.discarding THEN d
          ELSE IF Len(d.buffer) + Len(chunk) + 1 > MaxFrame THEN Discard(d)
          ELSE [d EXCEPT !.buffer = @ \o chunk]
  BY DEF Piece
<1> HIDE DEF e
<1>6. /\ c \o chunk \in Seq(Byte) /\ Len(c \o chunk) = Len(c) + Len(chunk)
      /\ Len(c) \in Nat /\ Len(chunk) \in Nat
  BY <1>1, <1>2
<1>7. e \in Decoder /\ e.out = d.out /\ Keeps(e, c \o chunk)
  <2>1. CASE d.discarding
    <3>1. ~Fits(c) /\ e = d /\ d.buffer = <<>>
      BY <1>3, <1>5, <2>1 DEF Keeps
    <3>2. ~Fits(c \o chunk)
      BY <1>6, <3>1, FramingAssumption DEF Fits
    <3> QED
      BY <1>3, <2>1, <3>1, <3>2 DEF Keeps
  <2>2. CASE ~d.discarding
    <3>1. d.buffer = c
      BY <1>3, <2>2 DEF Keeps
    <3>2. CASE Fits(c \o chunk)
      <4>1. e = [d EXCEPT !.buffer = c \o chunk]
        BY <1>5, <1>6, <2>2, <3>1, <3>2, FramingAssumption DEF Fits
      <4>2. e \in Decoder /\ e.out = d.out /\ e.buffer = c \o chunk /\ e.discarding = d.discarding
        BY <1>3, <1>6, <4>1 DEF Decoder
      <4> QED
        BY <2>2, <3>2, <4>2 DEF Keeps
    <3>3. CASE ~Fits(c \o chunk)
      <4>1. e = Discard(d)
        BY <1>5, <1>6, <2>2, <3>1, <3>3, FramingAssumption DEF Fits
      <4> QED
        BY <1>3, <3>3, <4>1, DecoderSteps DEF Keeps
    <3> QED
      BY <3>2, <3>3
  <2> QED
    BY <2>1, <2>2
<1>8. ReaderInv(s, m, e)
  BY <1>1, <1>3, <1>4, <1>7 DEF ReaderInv
<1> QED
  BY <1>8 DEF e, chunk

(* And the zero byte behind it ends the frame.                             *)
LEMMA ReaderEnd ==
  ASSUME NEW s \in Seq(Byte), NEW n \in 1 .. Len(s), s[n] = "zero",
         NEW d, NEW chunk, ReaderInv(s, n - 1, Piece(d, chunk, FALSE))
  PROVE  ReaderInv(s, n, Piece(d, chunk, TRUE))
<1> DEFINE c == Begun(s, n - 1)
           e == Piece(d, chunk, FALSE)
           r == IF ~Fits(c) THEN "Oversized" ELSE IF Decodes(c) THEN c ELSE "Malformed"
           o == Piece(d, chunk, TRUE)
           of == [z \in Zeros(s) |-> IF ~Fits(Bodies(s)[z]) THEN "Oversized"
                                     ELSE IF Decodes(Bodies(s)[z]) THEN Bodies(s)[z] ELSE "Malformed"]
           P == EndsOf(s, n - 1)
           Q == EndsOf(s, n)
<1>1. /\ c = <<>> => Q = P
      /\ c # <<>> => Q = P \cup {n}
      /\ P \in SUBSET Nat /\ \A p \in P : p < n
  BY EndsAt
<1>2. Begun(s, n) = <<>> /\ c \in Seq(Byte)
  <2>1. n - 1 \in 0 .. Len(s)
    OBVIOUS
  <2> QED
    BY <2>1, BegunZero, BegunType
<1>3. n \in Zeros(s) /\ Bodies(s)[n] = c /\ of[n] = r
  BY DEF Zeros, Bodies
<1>4. e \in Decoder /\ Keeps(e, c) /\ Lists(e.out, P, of)
  BY DEF ReaderInv, ReaderAgrees
<1>5. ReaderAgrees(s, n, o) = Lists(o.out, Q, of)
  BY DEF ReaderAgrees
<1>6. o = IF e.discarding THEN Result(e, "Oversized")
          ELSE IF e.buffer = <<>> THEN e
          ELSE Result(e, IF Decodes(e.buffer) THEN e.buffer ELSE "Malformed")
  BY DEF Piece
<1> HIDE DEF c, e, o, of, P, Q
<1>7. o = IF c = <<>> THEN e ELSE Result(e, r)
  BY <1>4, <1>6, <1>2, FitsNext DEF Keeps
<1>8. r \in Results
  BY <1>2 DEF Results
<1> HIDE DEF r
<1>9. CASE c = <<>>
  BY <1>1, <1>2, <1>4, <1>5, <1>7, <1>9 DEF ReaderInv, o
<1>10. CASE c # <<>>
  <2>1. o \in Decoder /\ o.out = Append(e.out, r) /\ Keeps(o, <<>>)
    BY <1>2, <1>4, <1>7, <1>8, <1>10, DecoderSteps, FitsNext DEF Keeps
  <2>2. e.out \in Seq(Results) /\ n \in Nat /\ of[n] \in Results
    BY <1>3, <1>4, <1>8 DEF Decoder
  <2>3. Lists(Append(e.out, of[n]), P \cup {n}, of)
    BY <1>1, <1>4, <2>2, ListsMore
  <2>4. ReaderInv(s, n, o)
    BY <1>1, <1>2, <1>3, <1>5, <1>10, <2>1, <2>3 DEF ReaderInv
  <2> QED
    BY <2>4 DEF o
<1> QED
  BY <1>9, <1>10

(* Bytes that are the same one by one are the same.                        *)
LEMMA SameBytes ==
  ASSUME NEW x \in Seq(Byte), NEW y \in Seq(Byte), Len(x) = Len(y),
         \A k \in 1 .. Len(x) : x[k] = y[k]
  PROVE  x = y
  OBVIOUS

(* What lies behind a place is the same when the bytes are.                *)
LEMMA RestSame ==
  ASSUME NEW s \in Seq(Byte), NEW t \in Seq(Byte), NEW m \in Nat, m <= Len(s), m <= Len(t),
         \A i \in 1 .. m : t[i] = s[i], NEW k \in 0 .. m
  PROVE  SubSeq(t, k + 1, m) = SubSeq(s, k + 1, m)
<1> DEFINE x == SubSeq(s, k + 1, m)
           y == SubSeq(t, k + 1, m)
<1>1. x \in Seq(Byte) /\ Len(x) = m - k /\ \A i \in 1 .. m - k : x[i] = s[k + i]
  OBVIOUS
<1>2. y \in Seq(Byte) /\ Len(y) = m - k /\ \A i \in 1 .. m - k : y[i] = t[k + i]
  OBVIOUS
<1> HIDE DEF x, y
<1>3. \A i \in 1 .. m - k : k + i \in 1 .. m
  OBVIOUS
<1>4. x = y
  BY <1>1, <1>2, <1>3, SameBytes
<1> QED
  BY <1>4 DEF x, y

(* What lies behind a place grows by the byte appended.                    *)
LEMMA RestNext ==
  ASSUME NEW b \in Seq(Byte), NEW x \in Byte, NEW k \in 0 .. Len(b)
  PROVE  SubSeq(Append(b, x), k + 1, Len(b) + 1) = Append(SubSeq(b, k + 1, Len(b)), x)
<1> DEFINE t == Append(b, x)
           n == Len(b) + 1
<1>1. t \in Seq(Byte) /\ Len(t) = n /\ t[n] = x /\ \A i \in 1 .. n - 1 : t[i] = b[i]
  OBVIOUS
<1>2. n \in Nat \ {0} /\ n - 1 = Len(b) /\ k \in 0 .. n - 1
  OBVIOUS
<1> HIDE DEF t, n
<1>3. SubSeq(t, k + 1, n) = Append(SubSeq(t, k + 1, n - 1), t[n])
  <2>1. n \in 1 .. Len(t)
    BY <1>1, <1>2
  <2> QED
    BY <1>1, <1>2, <2>1, RestGrows
<1>4. SubSeq(t, k + 1, n - 1) = SubSeq(b, k + 1, n - 1)
  <2>1. n - 1 \in Nat /\ n - 1 <= Len(b) /\ n - 1 <= Len(t)
    BY <1>1, <1>2
  <2> QED
    BY <1>1, <1>2, <2>1, RestSame
<1>5. SubSeq(t, k + 1, n) = Append(SubSeq(b, k + 1, n - 1), x)
  BY <1>1, <1>3, <1>4
<1> QED
  BY <1>2, <1>5 DEF t, n

-----------------------------------------------------------------------------
(* receive.                                                                *)

FirstZero(s, i) == i \in Zeros(s) /\ \A j \in 1 .. i - 1 : s[j] # "zero"

(* The first zero byte is the one with none before it.                     *)
LEMMA FirstIs ==
  ASSUME NEW S, NEW s \in Seq(S), NEW i \in Zeros(s)
  PROVE  LastBefore(Zeros(s), i) = 0 <=> FirstZero(s, i)
<1>1. i \in 1 .. Len(s) /\ i - 1 \in 0 .. Len(s) /\ i - 1 + 1 = i
  BY DEF Zeros
<1>2. ASSUME FirstZero(s, i) PROVE LastBefore(Zeros(s), i) = 0
  <2>1. Opens(s, i - 1, 0)
    BY <1>1, <1>2 DEF Opens, FirstZero
  <2> QED
    BY <1>1, <2>1, OpensOnce
<1>3. ASSUME LastBefore(Zeros(s), i) = 0 PROVE FirstZero(s, i)
  <2>1. Opens(s, i - 1, 0)
    BY <1>1, <1>3, OpensAt
  <2> QED
    BY <1>1, <2>1 DEF Opens, FirstZero
<1> QED
  BY <1>2, <1>3

(* There is only one such.                                                 *)
LEMMA FirstOnce ==
  ASSUME NEW S, NEW s \in Seq(S), NEW i, NEW j, FirstZero(s, i), FirstZero(s, j)
  PROVE  i = j
  BY DEF FirstZero, Zeros

Launched(s, l) ==
  \E i \in Zeros(s) : /\ FirstZero(s, i) /\ Good(SubSeq(s, 1, i - 1))
                      /\ l.frame = SubSeq(s, 1, i - 1)
                      /\ l.rest = SubSeq(s, i + 1, Len(s))

Refused(s) ==
  \/ Len(s) >= MaxFrame /\ \A j \in 1 .. MaxFrame : s[j] # "zero"
  \/ \E i \in Zeros(s) : FirstZero(s, i) /\ ~Good(SubSeq(s, 1, i - 1))

LaunchInv(s, l) ==
  /\ l \in [frame : Seq(Byte), outcome : {"reading", "launched", "failed"}, rest : Seq(Byte)]
  /\ l.outcome = "reading" => Zeros(s) = {} /\ l.frame = s /\ Len(s) < MaxFrame /\ l.rest = <<>>
  /\ l.outcome = "launched" => Launched(s, l)
  /\ l.outcome = "failed" => Refused(s)

(* A byte read by receive, or left to the plugin, keeps the invariant.     *)
LEMMA LaunchByte ==
  ASSUME NEW s \in Seq(Byte), NEW b \in Byte, NEW l, LaunchInv(s, l)
  PROVE  LaunchInv(Append(s, b), PushLaunch(l, b))
<1> DEFINE t == Append(s, b)
           e == PushLaunch(l, b)
<1>1. /\ t \in Seq(Byte) /\ Len(t) = Len(s) + 1 /\ t[Len(t)] = b /\ Len(s) \in Nat
      /\ \A i \in 1 .. Len(s) : t[i] = s[i]
      /\ Zeros(t) = IF b = "zero" THEN Zeros(s) \cup {Len(t)} ELSE Zeros(s)
  BY OneByte
<1>2. \A i \in Zeros(s) : i \in 1 .. Len(s) /\ i \in Zeros(t)
  BY <1>1 DEF Zeros
<1>3. \A i \in 1 .. Len(s) : SubSeq(t, i + 1, Len(t)) = Append(SubSeq(s, i + 1, Len(s)), b)
  <2> TAKE i \in 1 .. Len(s)
  <2>1. i \in 0 .. Len(s)
    OBVIOUS
  <2> QED
    BY <1>1, <2>1, RestNext
<1>4. \A i \in 1 .. Len(t) : SubSeq(t, 1, i - 1) = SubSeq(s, 1, i - 1)
  <2>1. \A m \in 0 .. Len(s) : SubSeq(t, 1, m) = SubSeq(s, 1, m)
    BY <1>1
  <2>2. \A i \in 1 .. Len(t) : i - 1 \in 0 .. Len(s)
    BY <1>1
  <2> QED
    BY <2>1, <2>2
<1>5. \A i \in Zeros(s) : FirstZero(s, i) => FirstZero(t, i)
  BY <1>1, <1>2 DEF FirstZero
<1> HIDE DEF t
<1>6. CASE l.outcome # "reading"
  <2>1. e = [l EXCEPT !.rest = Append(@, b)]
    BY <1>6 DEF PushLaunch
  <2> HIDE DEF e
  <2>2. /\ e \in [frame : Seq(Byte), outcome : {"reading", "launched", "failed"}, rest : Seq(Byte)]
        /\ e.outcome = l.outcome /\ e.frame = l.frame /\ e.rest = Append(l.rest, b)
    <3>1. /\ l \in [frame : Seq(Byte), outcome : {"reading", "launched", "failed"}, rest : Seq(Byte)]
          /\ Append(l.rest, b) \in Seq(Byte)
      BY DEF LaunchInv
    <3> QED
      BY <2>1, <3>1
  <2>3. l.outcome = "launched" => Launched(t, e)
    <3> SUFFICES ASSUME l.outcome = "launched" PROVE Launched(t, e)
      OBVIOUS
    <3>1. PICK i \in Zeros(s) : /\ FirstZero(s, i) /\ Good(SubSeq(s, 1, i - 1))
                                /\ l.frame = SubSeq(s, 1, i - 1)
                                /\ l.rest = SubSeq(s, i + 1, Len(s))
      BY DEF LaunchInv, Launched
    <3>2. i \in 1 .. Len(s) /\ i \in 1 .. Len(t) /\ i \in Zeros(t) /\ FirstZero(t, i)
      BY <1>1, <1>2, <1>5, <3>1
    <3> QED
      BY <1>3, <1>4, <2>2, <3>1, <3>2 DEF Launched
  <2>4. l.outcome = "failed" => Refused(t)
    <3> SUFFICES ASSUME l.outcome = "failed" PROVE Refused(t)
      OBVIOUS
    <3>1. CASE Len(s) >= MaxFrame /\ \A j \in 1 .. MaxFrame : s[j] # "zero"
      <4>1. Len(t) >= MaxFrame /\ \A j \in 1 .. MaxFrame : t[j] # "zero"
        BY <1>1, <3>1, FramingAssumption
      <4> QED
        BY <4>1 DEF Refused
    <3>2. ASSUME NEW i \in Zeros(s), FirstZero(s, i), ~Good(SubSeq(s, 1, i - 1)) PROVE Refused(t)
      <4>1. i \in 1 .. Len(t) /\ i \in Zeros(t) /\ FirstZero(t, i)
        BY <1>1, <1>2, <1>5, <3>2
      <4> QED
        BY <1>4, <3>2, <4>1 DEF Refused
    <3> QED
      BY <3>1, <3>2 DEF LaunchInv, Refused
  <2>5. LaunchInv(t, e)
    BY <1>6, <2>2, <2>3, <2>4 DEF LaunchInv
  <2> QED
    BY <2>5 DEF t, e
<1>7. CASE l.outcome = "reading"
  <2>1. Zeros(s) = {} /\ l.frame = s /\ Len(s) < MaxFrame /\ l.rest = <<>>
    BY <1>7 DEF LaunchInv
  <2>2. \A j \in 1 .. Len(s) : t[j] # "zero"
    BY <1>1, <2>1 DEF Zeros
  <2>3. CASE b = "zero"
    <3>1. e = [l EXCEPT !.outcome = IF s # <<>> /\ Decodes(s) THEN "launched" ELSE "failed"]
      BY <1>7, <2>1, <2>3 DEF PushLaunch
    <3>2. FirstZero(t, Len(t)) /\ Len(t) \in Zeros(t)
      BY <1>1, <2>2, <2>3 DEF FirstZero
    <3>3. SubSeq(t, 1, Len(t) - 1) = s /\ SubSeq(t, Len(t) + 1, Len(t)) = <<>>
      BY <1>1
    <3>4. Good(s) <=> s # <<>> /\ Decodes(s)
      BY <2>1 DEF Good, Fits
    <3> HIDE DEF e
    <3>5. /\ e \in [frame : Seq(Byte), outcome : {"reading", "launched", "failed"}, rest : Seq(Byte)]
          /\ e.outcome = (IF Good(s) THEN "launched" ELSE "failed") /\ e.frame = s /\ e.rest = <<>>
      BY <2>1, <3>1, <3>4 DEF LaunchInv
    <3>6. LaunchInv(t, e)
      BY <3>2, <3>3, <3>5 DEF LaunchInv, Launched, Refused
    <3> QED
      BY <3>6 DEF t, e
  <2>4. CASE b # "zero" /\ Len(s) + 1 >= MaxFrame
    <3>1. e = [l EXCEPT !.outcome = "failed"]
      BY <1>7, <2>1, <2>4 DEF PushLaunch
    <3>2. Len(t) >= MaxFrame /\ \A j \in 1 .. MaxFrame : t[j] # "zero"
      BY <1>1, <2>1, <2>2, <2>4, FramingAssumption
    <3> HIDE DEF e
    <3>3. LaunchInv(t, e)
      BY <3>1, <3>2 DEF LaunchInv, Refused
    <3> QED
      BY <3>3 DEF t, e
  <2>5. CASE b # "zero" /\ ~(Len(s) + 1 >= MaxFrame)
    <3>1. e = [l EXCEPT !.frame = t]
      BY <1>7, <2>1, <2>5 DEF PushLaunch, t
    <3> HIDE DEF e
    <3>2. Zeros(t) = {} /\ Len(t) < MaxFrame
      BY <1>1, <2>1, <2>5, FramingAssumption
    <3>3. LaunchInv(t, e)
      BY <1>1, <1>7, <2>1, <3>1, <3>2 DEF LaunchInv
    <3> QED
      BY <3>3 DEF t, e
  <2> QED
    BY <2>3, <2>4, <2>5
<1> QED
  BY <1>6, <1>7

(* The invariant says what receive should have found.                      *)
LEMMA LaunchIsRight ==
  ASSUME NEW s \in Seq(Byte), NEW l, LaunchInv(s, l)
  PROVE  LaunchAgrees(s, l)
<1>1. CASE \E i \in Zeros(s) : FirstZero(s, i) /\ Good(SubSeq(s, 1, i - 1))
  <2>1. PICK i \in Zeros(s) : FirstZero(s, i) /\ Good(SubSeq(s, 1, i - 1))
    BY <1>1
  <2>2. ~Refused(s)
    <3>1. SUFFICES ASSUME Len(s) >= MaxFrame, \A j \in 1 .. MaxFrame : s[j] # "zero" PROVE FALSE
      BY <2>1, FirstOnce DEF Refused
    <3>2. i \in 1 .. Len(s) /\ s[i] = "zero"
      BY DEF Zeros
    <3>3. i > MaxFrame
      BY <3>1, <3>2, FramingAssumption
    <3>4. Len(SubSeq(s, 1, i - 1)) = i - 1
      BY <3>2
    <3> QED
      BY <2>1, <3>2, <3>3, <3>4, FramingAssumption DEF Good, Fits
  <2>3. l.outcome = "launched"
    BY <2>1, <2>2 DEF LaunchInv
  <2>4. Launched(s, l)
    BY <2>3 DEF LaunchInv
  <2> QED
    BY <2>1, <2>3, <2>4, FirstIs DEF LaunchAgrees, Launched
<1>2. CASE ~\E i \in Zeros(s) : FirstZero(s, i) /\ Good(SubSeq(s, 1, i - 1))
  <2>1. l.outcome # "launched"
    BY <1>2 DEF LaunchInv, Launched
  <2> QED
    BY <1>2, <2>1, FirstIs DEF LaunchAgrees
<1> QED
  BY <1>1, <1>2

-----------------------------------------------------------------------------
(* Frames of the daemon, among lines of text.                              *)

(* The last place before i depends on the places before i only.            *)
LEMMA LastSame ==
  ASSUME NEW P \in SUBSET Nat, NEW Q \in SUBSET Nat, NEW i \in Nat, i > 0,
         \A l \in Nat : l < i => (l \in P <=> l \in Q)
  PROVE  LastBefore(P, i) = LastBefore(Q, i)
<1> DEFINE j == LastBefore(Q, i)
<1>1. IsLast(Q, i, j)
  BY LastExists
<1> HIDE DEF j
<1>2. j \in Nat /\ j < i
  BY <1>1 DEF IsLast
<1>3. IsLast(P, i, j)
  BY <1>1, <1>2 DEF IsLast
<1>4. LastBefore(P, i) = j
  BY <1>3, LastIsOne
<1> QED
  BY <1>4 DEF j

\* The text of b ends at k.
TextEnds(b, k) ==
  /\ k \in 0 .. Len(b) /\ k \in LineEnds(b) \cup {0} /\ \A l \in LineEnds(b) : l <= k

(* The text of b ends somewhere.                                           *)
LEMMA TextEndsAt ==
  ASSUME NEW b \in Seq(Byte)
  PROVE  \E k : /\ TextEnds(b, k) /\ k = LastBefore(LineEnds(b), Len(b) + 1)
                /\ WithoutText(b) = SubSeq(b, k + 1, Len(b))
<1> DEFINE k == LastBefore(LineEnds(b), Len(b) + 1)
<1>1. LineEnds(b) \in SUBSET Nat /\ \A l \in LineEnds(b) : l \in 1 .. Len(b)
  BY DEF LineEnds
<1>2. Len(b) \in Nat /\ Len(b) + 1 \in Nat /\ Len(b) + 1 > 0
  OBVIOUS
<1>3. IsLast(LineEnds(b), Len(b) + 1, k)
  BY <1>1, <1>2, LastExists
<1>4. WithoutText(b) = SubSeq(b, k + 1, Len(b))
  BY DEF WithoutText
<1> HIDE DEF k
<1>5. TextEnds(b, k)
  BY <1>1, <1>2, <1>3 DEF IsLast, TextEnds
<1> QED
  BY <1>4, <1>5 DEF k

(* It ends at one place only.                                              *)
LEMMA TextEndsOnce ==
  ASSUME NEW b \in Seq(Byte), NEW k, TextEnds(b, k)
  PROVE  k = LastBefore(LineEnds(b), Len(b) + 1) /\ WithoutText(b) = SubSeq(b, k + 1, Len(b))
<1>1. LineEnds(b) \in SUBSET Nat /\ \A l \in LineEnds(b) : l \in 1 .. Len(b)
  BY DEF LineEnds
<1>2. Len(b) \in Nat /\ Len(b) + 1 \in Nat /\ Len(b) + 1 > 0
  OBVIOUS
<1>3. IsLast(LineEnds(b), Len(b) + 1, k)
  BY <1>1, <1>2 DEF IsLast, TextEnds
<1>4. LastBefore(LineEnds(b), Len(b) + 1) = k
  BY <1>1, <1>2, <1>3, LastIsOne
<1> QED
  BY <1>4 DEF WithoutText

(* What is left without the text is the end of b, and is text when b is.   *)
LEMMA RestType ==
  ASSUME NEW b \in Seq(Byte), NEW k, TextEnds(b, k)
  PROVE  LET u == WithoutText(b)
         IN  /\ u \in Seq(Byte) /\ Len(u) = Len(b) - k /\ \A i \in 1 .. Len(u) : u[i] = b[k + i]
             /\ IsText(u) <=> IsText(b)
<1> DEFINE u == WithoutText(b)
<1>1. u = SubSeq(b, k + 1, Len(b)) /\ k \in 0 .. Len(b)
  BY TextEndsOnce DEF TextEnds
<1> HIDE DEF u
<1>2. u \in Seq(Byte) /\ Len(u) = Len(b) - k /\ \A i \in 1 .. Len(b) - k : u[i] = b[k + i]
  BY <1>1
<1>3. \A i \in 1 .. k : b[i] # "control"
  <2> SUFFICES ASSUME NEW i \in 1 .. k PROVE b[i] # "control"
    OBVIOUS
  <2>1. k \in LineEnds(b)
    BY <1>1 DEF TextEnds
  <2>2. IsText(SubSeq(b, 1, k))
    BY <2>1 DEF LineEnds
  <2>3. Len(SubSeq(b, 1, k)) = k /\ SubSeq(b, 1, k)[i] = b[i]
    BY <1>1
  <2> QED
    BY <2>2, <2>3 DEF IsText
<1>4. IsText(b) => IsText(u)
  BY <1>1, <1>2 DEF IsText
<1>5. ASSUME IsText(u) PROVE IsText(b)
  <2> SUFFICES ASSUME NEW i \in 1 .. Len(b) PROVE b[i] # "control"
    BY DEF IsText
  <2>1. CASE i <= k
    BY <1>1, <1>3, <2>1
  <2>2. CASE i > k
    <3>1. i - k \in 1 .. Len(u) /\ k + (i - k) = i
      BY <1>1, <1>2, <2>2
    <3>2. u[i - k] = b[i]
      BY <1>2, <3>1
    <3> QED
      BY <1>5, <3>1, <3>2 DEF IsText
  <2> QED
    BY <1>1, <2>1, <2>2
<1> QED
  BY <1>2, <1>4, <1>5 DEF u

(* Text stays text until a control byte comes.                             *)
LEMMA IsTextNext ==
  ASSUME NEW b \in Seq(Byte), NEW x \in Byte
  PROVE  IsText(Append(b, x)) <=> IsText(b) /\ x # "control"
<1> DEFINE t == Append(b, x)
<1>1. Len(t) = Len(b) + 1 /\ t[Len(b) + 1] = x /\ \A i \in 1 .. Len(b) : t[i] = b[i]
  OBVIOUS
<1> HIDE DEF t
<1>2. \A i : i \in 1 .. Len(t) <=> i \in 1 .. Len(b) \/ i = Len(b) + 1
  BY <1>1
<1>3. IsText(t) <=> IsText(b) /\ x # "control"
  BY <1>1, <1>2 DEF IsText
<1> QED
  BY <1>3 DEF t

(* A newline behind nothing but text ends a line, and nothing else does.   *)
LEMMA LineEndsNext ==
  ASSUME NEW b \in Seq(Byte), NEW x \in Byte
  PROVE  LineEnds(Append(b, x)) =
           IF x = "newline" /\ IsText(b) THEN LineEnds(b) \cup {Len(b) + 1} ELSE LineEnds(b)
<1> DEFINE t == Append(b, x)
<1>1. /\ t \in Seq(Byte) /\ Len(t) = Len(b) + 1 /\ t[Len(b) + 1] = x
      /\ \A i \in 1 .. Len(b) : t[i] = b[i]
      /\ Len(b) \in Nat
  OBVIOUS
<1>2. IsText(t) <=> IsText(b) /\ x # "control"
  BY IsTextNext
<1> HIDE DEF t
<1>3. \A i \in 1 .. Len(b) : SubSeq(t, 1, i) = SubSeq(b, 1, i)
  BY <1>1
<1>4. SubSeq(t, 1, Len(b) + 1) = t
  BY <1>1
<1>5. \A i : i \in 1 .. Len(t) <=> i \in 1 .. Len(b) \/ i = Len(b) + 1
  BY <1>1
<1>6. \A i \in 1 .. Len(b) : i \in LineEnds(t) <=> i \in LineEnds(b)
  BY <1>1, <1>3, <1>5 DEF LineEnds
<1>7. Len(b) + 1 \in LineEnds(t) <=> x = "newline" /\ IsText(b)
  BY <1>1, <1>2, <1>4, <1>5 DEF LineEnds
<1>8. LineEnds(t) \subseteq 1 .. Len(t) /\ LineEnds(b) \subseteq 1 .. Len(b)
  BY DEF LineEnds
<1>9. LineEnds(t) = IF x = "newline" /\ IsText(b) THEN LineEnds(b) \cup {Len(b) + 1} ELSE LineEnds(b)
  <2>1. Len(b) + 1 \notin LineEnds(b)
    BY <1>1, <1>8
  <2>2. \A i \in LineEnds(t) : i = Len(b) + 1 \/ i \in LineEnds(b)
    BY <1>1, <1>5, <1>6, <1>8
  <2>3. \A i \in LineEnds(b) : i \in LineEnds(t)
    BY <1>6, <1>8
  <2> QED
    BY <1>7, <2>1, <2>2, <2>3
<1> QED
  BY <1>9 DEF t

(* A newline behind nothing but text ends a line; any other byte extends   *)
(* what comes behind the text.                                             *)
LEMMA LineNext ==
  ASSUME NEW b \in Seq(Byte), NEW x \in Byte
  PROVE  LET t == Append(b, x)
             u == WithoutText(b)
         IN  /\ u \in Seq(Byte)
             /\ x = "newline" /\ IsText(u) =>
                  /\ WithoutText(t) = <<>>
                  /\ \A times \in 1 .. Len(u) : Len(u) = times * (MaxFrame - 1) => LineFills(t)
             /\ ~(x = "newline" /\ IsText(u)) => WithoutText(t) = Append(u, x)
             /\ LineFills(b) => LineFills(t)
<1> DEFINE t == Append(b, x)
           u == WithoutText(b)
<1>1. PICK k : TextEnds(b, k) /\ k = LastBefore(LineEnds(b), Len(b) + 1)
               /\ u = SubSeq(b, k + 1, Len(b))
  BY TextEndsAt
<1>2. /\ u \in Seq(Byte) /\ Len(u) = Len(b) - k /\ (\A i \in 1 .. Len(u) : u[i] = b[k + i])
      /\ IsText(u) <=> IsText(b)
  BY <1>1, RestType
<1>3. /\ t \in Seq(Byte) /\ Len(t) = Len(b) + 1 /\ t[Len(b) + 1] = x
      /\ \A i \in 1 .. Len(b) : t[i] = b[i]
      /\ Len(b) \in Nat
  OBVIOUS
<1>4. LineEnds(t) = IF x = "newline" /\ IsText(b) THEN LineEnds(b) \cup {Len(b) + 1} ELSE LineEnds(b)
  BY LineEndsNext
<1> HIDE DEF t, u
<1>5. /\ LineEnds(b) \subseteq 1 .. Len(b) /\ LineEnds(t) \subseteq 1 .. Len(t)
      /\ LineEnds(b) \in SUBSET Nat /\ LineEnds(t) \in SUBSET Nat
  BY DEF LineEnds
<1>6. \A i \in 1 .. Len(b) + 1 : LastBefore(LineEnds(t), i) = LastBefore(LineEnds(b), i)
  <2> TAKE i \in 1 .. Len(b) + 1
  <2>1. i \in Nat /\ i > 0 /\ \A l \in Nat : l < i => (l \in LineEnds(t) <=> l \in LineEnds(b))
    BY <1>3, <1>4
  <2> QED
    BY <1>5, <2>1, LastSame
<1>7. k \in 0 .. Len(b) /\ k \in LineEnds(b) \cup {0} /\ \A l \in LineEnds(b) : l <= k
  BY <1>1 DEF TextEnds
<1>8. ASSUME x = "newline", IsText(u)
      PROVE  /\ WithoutText(t) = <<>>
             /\ \A times \in 1 .. Len(u) : Len(u) = times * (MaxFrame - 1) => LineFills(t)
  <2>1. Len(t) \in LineEnds(t) /\ IsText(b)
    BY <1>2, <1>3, <1>4, <1>8
  <2>2. TextEnds(t, Len(t))
    BY <1>3, <1>5, <2>1 DEF TextEnds
  <2>3. WithoutText(t) = SubSeq(t, Len(t) + 1, Len(t))
    BY <1>3, <2>2, TextEndsOnce
  <2>4. WithoutText(t) = <<>>
    BY <1>3, <2>3
  <2>5. ASSUME NEW times \in 1 .. Len(u), Len(u) = times * (MaxFrame - 1) PROVE LineFills(t)
    <3>1. LastBefore(LineEnds(t), Len(t)) = k
      BY <1>1, <1>3, <1>6
    <3>2. times \in 1 .. Len(t)
      BY <1>2, <1>3, <1>7
    <3>3. Len(t) - 1 = k + Len(u)
      BY <1>2, <1>3, <1>7
    <3> QED
      BY <2>1, <2>5, <3>1, <3>2, <3>3 DEF LineFills
  <2> QED
    BY <2>4, <2>5
<1>9. ASSUME ~(x = "newline" /\ IsText(u)) PROVE WithoutText(t) = Append(u, x)
  <2>1. LineEnds(t) = LineEnds(b)
    BY <1>2, <1>4, <1>9
  <2>2. TextEnds(t, k)
    BY <1>3, <1>7, <2>1 DEF TextEnds
  <2>3. WithoutText(t) = SubSeq(t, k + 1, Len(b) + 1)
    BY <1>3, <2>2, TextEndsOnce
  <2>4. SubSeq(t, k + 1, Len(b) + 1) = Append(SubSeq(b, k + 1, Len(b)), x)
    BY <1>7, RestNext DEF t
  <2> QED
    BY <1>1, <2>3, <2>4
<1>10. ASSUME LineFills(b) PROVE LineFills(t)
  <2>1. PICK i \in LineEnds(b), times \in 1 .. Len(b) :
           i - 1 = LastBefore(LineEnds(b), i) + times * (MaxFrame - 1)
    BY <1>10 DEF LineFills
  <2>2. i \in LineEnds(t) /\ i \in 1 .. Len(b) + 1 /\ times \in 1 .. Len(t)
    BY <1>3, <1>4, <1>5
  <2> QED
    BY <1>6, <2>1, <2>2 DEF LineFills
<1> QED
  BY <1>2, <1>8, <1>9, <1>10 DEF t, u

\* What Frames keeps of b, all that came since the last zero byte, while no line of text in it
\* ends just where the buffer is full.
TextKeeps(d, b) ==
  LET u == WithoutText(b) IN
  /\ IsText(u) =>
       /\ ~d.discarding /\ IsText(d.buffer) /\ (d.buffer = <<>> => u = <<>>)
       /\ \E cuts \in 0 .. Len(u) : Len(u) = Len(d.buffer) + cuts * (MaxFrame - 1)
       /\ Fits(u) => d.buffer = u
  /\ ~IsText(u) /\ ~Endless(u) =>
       IF Fits(u) THEN ~d.discarding /\ d.buffer = u ELSE d.discarding

FramesInv(s, d) ==
  /\ d \in Decoder /\ Len(d.buffer) < MaxFrame
  /\ ~LineFills(Begun(s, Len(s))) => TextKeeps(d, Begun(s, Len(s)))
  /\ FramesAgree(s, d)

(* The arithmetic of one cut more.                                         *)
LEMMA MoreCuts ==
  ASSUME NEW m \in Nat, m > 0, NEW cuts \in Nat
  PROVE  (cuts + 1) * m = m + cuts * m /\ cuts + 1 <= m + cuts * m
<1>1. cuts * m \in Nat /\ cuts * (m - 1) \in Nat
  OBVIOUS
<1>2. cuts * m = cuts * (m - 1) + cuts
  OBVIOUS
<1>3. (cuts + 1) * m = m + cuts * m
  OBVIOUS
<1> QED
  BY <1>1, <1>2, <1>3

(* The shortest texts.                                                     *)
LEMMA TextOfFew ==
  /\ IsText(<<>>)
  /\ \A x \in Byte : x # "control" => IsText(<<x>>)
<1>1. IsText(<<>>)
  BY DEF IsText
<1>2. ASSUME NEW x \in Byte, x # "control" PROVE IsText(<<x>>)
  <2>1. Len(<<x>>) = 1 /\ <<x>>[1] = x /\ \A i \in 1 .. 1 : i = 1
    OBVIOUS
  <2> QED
    BY <1>2, <2>1 DEF IsText
<1> QED
  BY <1>1, <1>2

(* What is as long as a frame and only text stays so.                      *)
LEMMA EndlessNext ==
  ASSUME NEW u \in Seq(Byte), NEW x \in Byte
  PROVE  /\ Endless(u) => Endless(Append(u, x))
         /\ IsText(u) /\ ~Endless(u) => Fits(u)
         /\ IsText(u) /\ ~Endless(Append(u, x)) => Len(u) < MaxFrame - 1
<1> DEFINE t == Append(u, x)
           m == MaxFrame - 1
<1>1. t \in Seq(Byte) /\ Len(t) = Len(u) + 1 /\ Len(u) \in Nat /\ \A i \in 1 .. Len(u) : t[i] = u[i]
  OBVIOUS
<1>2. m \in Nat /\ m > 0 /\ MaxFrame = m + 1
  BY FramingAssumption
<1> HIDE DEF t, m
<1>3. ASSUME Len(u) >= m
      PROVE  /\ SubSeq(t, 1, m) = SubSeq(u, 1, m) /\ Len(SubSeq(u, 1, m)) = m
             /\ \A i \in 1 .. m : SubSeq(u, 1, m)[i] = u[i]
  <2>1. SubSeq(t, 0 + 1, m) = SubSeq(u, 0 + 1, m)
    BY <1>1, <1>2, <1>3, RestSame
  <2>2. Len(SubSeq(u, 1, m)) = m /\ \A i \in 1 .. m : SubSeq(u, 1, m)[i] = u[i]
    BY <1>2, <1>3
  <2>3. 0 + 1 = 1
    OBVIOUS
  <2>4. SubSeq(t, 1, m) = SubSeq(u, 1, m)
    BY <2>1, <2>3, Zenon
  <2> QED
    BY <2>2, <2>4
<1>4. Endless(u) <=> Len(u) >= m + 1 /\ IsText(SubSeq(u, 1, m))
  BY <1>2 DEF Endless, m
<1>5. Endless(t) <=> Len(u) >= m /\ IsText(SubSeq(t, 1, m))
  <2>1. Endless(t) <=> Len(t) >= MaxFrame /\ IsText(SubSeq(t, 1, m))
    BY DEF Endless, m
  <2>2. Len(t) >= MaxFrame <=> Len(u) >= m
    BY <1>1, <1>2
  <2> QED
    BY <2>1, <2>2, Zenon
<1>6. ASSUME IsText(u), Len(u) >= m PROVE IsText(SubSeq(u, 1, m))
  <2>1. \A i \in 1 .. m : u[i] # "control"
    BY <1>1, <1>2, <1>6 DEF IsText
  <2> QED
    BY <1>3, <1>6, <2>1 DEF IsText
<1>7. ASSUME Endless(u) PROVE Endless(t)
  <2>1. Len(u) >= m + 1 /\ IsText(SubSeq(u, 1, m))
    BY <1>4, <1>7
  <2>2. Len(u) >= m
    BY <1>1, <1>2, <2>1
  <2>3. IsText(SubSeq(t, 1, m))
    BY <1>3, <2>1, <2>2
  <2> QED
    BY <1>5, <2>2, <2>3
<1>8. IsText(u) /\ ~Endless(u) => Fits(u)
  BY <1>1, <1>2, <1>4, <1>6 DEF Fits
<1>9. ASSUME IsText(u), ~Endless(t) PROVE Len(u) < MaxFrame - 1
  <2>1. ~(Len(u) >= m)
    <3> SUFFICES ASSUME Len(u) >= m PROVE FALSE
      OBVIOUS
    <3>1. IsText(SubSeq(t, 1, m))
      BY <1>3, <1>6, <1>9
    <3> QED
      BY <1>5, <1>9, <3>1
  <2> QED
    BY <1>1, <1>2, <2>1 DEF m
<1> QED
  BY <1>7, <1>8, <1>9 DEF t

(* Frames::push keeps the type of its state and the length of its buffer.  *)
LEMMA PushFramesType ==
  ASSUME NEW d \in Decoder, Len(d.buffer) < MaxFrame, NEW x \in Byte, x # "zero"
  PROVE  LET e == PushFrames(d, x)
         IN  e \in Decoder /\ Len(e.buffer) < MaxFrame /\ e.out = d.out
<1> DEFINE e == PushFrames(d, x)
<1>1. \/ e = d
      \/ e = Restart(d)
      \/ ~Full(d) /\ e = Keep(d, x)
      \/ e = Keep(Restart(d), x)
      \/ e = Discard(d)
  BY DEF PushFrames
<1> HIDE DEF e
<1>2. d.buffer \in Seq(Byte) /\ Len(d.buffer) \in Nat /\ Len(<<>>) = 0 /\ Len(Append(<<>>, x)) = 1
  BY DEF Decoder
<1>3. Len(Append(d.buffer, x)) = Len(d.buffer) + 1
  BY <1>2
<1>4. /\ Restart(d) \in Decoder /\ Restart(d).out = d.out /\ Restart(d).buffer = <<>>
      /\ Discard(d) \in Decoder /\ Discard(d).out = d.out /\ Discard(d).buffer = <<>>
      /\ Keep(d, x) \in Decoder /\ Keep(d, x).out = d.out /\ Keep(d, x).buffer = Append(d.buffer, x)
  BY DecoderSteps
<1>5. LET o == Keep(Restart(d), x)
      IN  o \in Decoder /\ o.out = d.out /\ o.buffer = Append(<<>>, x)
  BY <1>4, DecoderSteps
<1>6. ~Full(d) => Len(d.buffer) + 1 < MaxFrame
  BY <1>2, FramingAssumption DEF Full
<1>7. 0 < MaxFrame /\ 1 < MaxFrame
  BY FramingAssumption
<1>8. e \in Decoder /\ Len(e.buffer) < MaxFrame /\ e.out = d.out
  <2>1. CASE e = d
    BY <2>1
  <2>2. CASE e = Restart(d) \/ e = Discard(d)
    BY <1>2, <1>4, <1>7, <2>2
  <2>3. CASE ~Full(d) /\ e = Keep(d, x)
    BY <1>3, <1>4, <1>6, <2>3
  <2>4. CASE e = Keep(Restart(d), x)
    BY <1>2, <1>5, <1>7, <2>4
  <2> QED
    BY <1>1, <2>1, <2>2, <2>3, <2>4
<1> QED
  BY <1>8 DEF e

(* A byte that is not zero keeps what Frames knows of the frame under      *)
(* way.                                                                    *)
LEMMA TextKeepsByte ==
  ASSUME NEW c \in Seq(Byte), NEW x \in Byte, x # "zero", NEW d \in Decoder,
         Len(d.buffer) < MaxFrame, ~LineFills(c) => TextKeeps(d, c), ~LineFills(Append(c, x))
  PROVE  TextKeeps(PushFrames(d, x), Append(c, x))
<1> DEFINE t == Append(c, x)
           u == WithoutText(c)
           v == WithoutText(t)
           e == PushFrames(d, x)
           m == MaxFrame - 1
<1>1. /\ u \in Seq(Byte)
      /\ x = "newline" /\ IsText(u) =>
           v = <<>> /\ \A times \in 1 .. Len(u) : Len(u) # times * m
      /\ ~(x = "newline" /\ IsText(u)) => v = Append(u, x)
      /\ ~LineFills(c)
  BY LineNext
<1>2. /\ IsText(u) =>
           /\ ~d.discarding /\ IsText(d.buffer) /\ (d.buffer = <<>> => u = <<>>)
           /\ \E cuts \in 0 .. Len(u) : Len(u) = Len(d.buffer) + cuts * m
           /\ Fits(u) => d.buffer = u
      /\ ~IsText(u) /\ ~Endless(u) =>
           IF Fits(u) THEN ~d.discarding /\ d.buffer = u ELSE d.discarding
  BY <1>1 DEF TextKeeps
<1>3. e = IF d.discarding THEN d
          ELSE IF x = "newline" /\ ~Full(d)
          THEN IF IsText(d.buffer) THEN Restart(d) ELSE Keep(d, x)
          ELSE IF Full(d)
          THEN IF IsText(d.buffer) THEN Keep(Restart(d), x) ELSE Discard(d)
          ELSE Keep(d, x)
  BY DEF PushFrames
<1>4. /\ Endless(u) => Endless(Append(u, x))
      /\ IsText(u) /\ ~Endless(Append(u, x)) => Len(u) < m
      /\ IsText(Append(u, x)) <=> IsText(u) /\ x # "control"
  BY <1>1, EndlessNext, IsTextNext
<1>5. m \in Nat /\ m > 0 /\ MaxFrame = m + 1 /\ (Full(d) <=> Len(d.buffer) = m)
  BY FramingAssumption DEF Full
<1>6. TextKeeps(e, t) <=>
        /\ IsText(v) =>
             /\ ~e.discarding /\ IsText(e.buffer) /\ (e.buffer = <<>> => v = <<>>)
             /\ \E cuts \in 0 .. Len(v) : Len(v) = Len(e.buffer) + cuts * m
             /\ Fits(v) => e.buffer = v
        /\ ~IsText(v) /\ ~Endless(v) =>
             IF Fits(v) THEN ~e.discarding /\ e.buffer = v ELSE e.discarding
  BY DEF TextKeeps
<1>7. /\ d.buffer \in Seq(Byte) /\ Len(d.buffer) \in Nat /\ Len(d.buffer) <= m
      /\ Len(u) \in Nat /\ Len(Append(u, x)) = Len(u) + 1 /\ Append(u, x) # <<>>
      /\ Len(Append(d.buffer, x)) = Len(d.buffer) + 1 /\ Append(d.buffer, x) # <<>>
  <2>1. d.buffer \in Seq(Byte)
    BY DEF Decoder
  <2>2. Len(d.buffer) \in Nat /\ Len(Append(d.buffer, x)) = Len(d.buffer) + 1 /\ Append(d.buffer, x) # <<>>
    BY <2>1
  <2>3. Len(d.buffer) <= m
    BY <1>5, <2>2
  <2>4. Len(u) \in Nat /\ Len(Append(u, x)) = Len(u) + 1 /\ Append(u, x) # <<>>
    BY <1>1
  <2> QED
    BY <2>1, <2>2, <2>3, <2>4
<1> HIDE DEF t, u, v, e, m
<1>8. CASE IsText(u)
  <2>1. PICK cuts \in 0 .. Len(u) : Len(u) = Len(d.buffer) + cuts * m
    BY <1>2, <1>8
  <2>2. cuts \in Nat /\ (cuts + 1) * m = m + cuts * m /\ cuts + 1 <= m + cuts * m /\ cuts * m \in Nat
    <3>1. cuts \in Nat
      BY <1>7
    <3> QED
      BY <1>5, <3>1, MoreCuts
  <2>3. CASE x = "newline"
    <3>1. ~Full(d)
      <4>1. SUFFICES ASSUME Len(d.buffer) = m PROVE FALSE
        BY <1>5
      <4>2. Len(u) = (cuts + 1) * m /\ cuts + 1 \in 1 .. Len(u)
        BY <1>7, <2>1, <2>2, <4>1
      <4> QED
        BY <1>1, <1>8, <2>3, <4>2
    <3>2. e = Restart(d) /\ v = <<>>
      BY <1>1, <1>2, <1>3, <1>8, <2>3, <3>1
    <3>3. ~e.discarding /\ e.buffer = <<>>
      BY <3>2, DecoderSteps
    <3>4. Len(<<>>) = 0 /\ 0 = 0 + 0 * m /\ 0 \in 0 .. 0
      BY <1>5
    <3> QED
      BY <1>6, <3>2, <3>3, <3>4, TextOfFew DEF e, t
  <2>4. CASE x # "newline" /\ x # "control"
    <3>1. v = Append(u, x) /\ IsText(v)
      BY <1>1, <1>4, <1>8, <2>4
    <3>2. CASE ~Full(d)
      <4>1. e = Keep(d, x)
        BY <1>2, <1>3, <1>8, <2>4, <3>2
      <4>2. ~e.discarding /\ e.buffer = Append(d.buffer, x)
        BY <1>2, <1>8, <4>1, DecoderSteps
      <4>3. IsText(e.buffer) /\ e.buffer # <<>>
        BY <1>2, <1>7, <1>8, <2>4, <4>2, IsTextNext
      <4>4. Len(v) = Len(e.buffer) + cuts * m /\ cuts \in 0 .. Len(v)
        <5>1. Len(v) = Len(u) + 1 /\ Len(e.buffer) = Len(d.buffer) + 1
          BY <1>7, <3>1, <4>2
        <5> DEFINE cut == cuts * m
        <5>2. Len(u) = Len(d.buffer) + cut /\ cut \in Nat
          BY <2>1, <2>2
        <5> HIDE DEF cut
        <5>3. Len(v) = Len(e.buffer) + cut
          BY <1>7, <5>1, <5>2
        <5>4. cuts \in 0 .. Len(v)
          BY <1>7, <5>1
        <5> QED
          BY <5>3, <5>4 DEF cut
      <4>5. Fits(v) => e.buffer = v
        BY <1>2, <1>5, <1>7, <1>8, <3>1, <4>2 DEF Fits
      <4> QED
        BY <1>6, <3>1, <4>2, <4>3, <4>4, <4>5 DEF e, t
    <3>3. CASE Full(d)
      <4>1. e = Keep(Restart(d), x)
        BY <1>2, <1>3, <1>8, <2>4, <3>3
      <4>2. ~e.discarding /\ e.buffer = Append(<<>>, x)
        BY <4>1, DecoderSteps
      <4>3. Append(<<>>, x) = <<x>> /\ Len(<<x>>) = 1 /\ <<x>> # <<>>
        OBVIOUS
      <4>4. Len(v) = 1 + (cuts + 1) * m /\ cuts + 1 \in 0 .. Len(v) /\ ~(Len(v) < MaxFrame)
        <5>1. Len(v) = Len(u) + 1 /\ Len(d.buffer) = m
          BY <1>5, <1>7, <3>1, <3>3
        <5> DEFINE cut == cuts * m
                   cut2 == (cuts + 1) * m
        <5>2. Len(u) = Len(d.buffer) + cut /\ cut \in Nat /\ cut2 = m + cut /\ cuts + 1 <= m + cut
          BY <2>1, <2>2
        <5> HIDE DEF cut, cut2
        <5>3. Len(v) = 1 + cut2 /\ cuts + 1 \in 0 .. Len(v) /\ ~(Len(v) < MaxFrame)
          BY <1>5, <1>7, <2>2, <5>1, <5>2
        <5> QED
          BY <5>3 DEF cut2
      <4> QED
        BY <1>6, <2>4, <3>1, <4>2, <4>3, <4>4, TextOfFew DEF e, t, Fits
    <3> QED
      BY <3>2, <3>3
  <2>5. CASE x = "control"
    <3>1. v = Append(u, x) /\ ~IsText(v)
      BY <1>1, <1>4, <2>5
    <3>2. ASSUME ~Endless(v) PROVE Fits(v) /\ ~e.discarding /\ e.buffer = v
      <4>1. Len(u) < m
        BY <1>4, <1>8, <3>1, <3>2
      <4>2. Fits(v) /\ Fits(u)
        BY <1>5, <1>7, <3>1, <4>1 DEF Fits
      <4>3. d.buffer = u /\ ~Full(d)
        BY <1>2, <1>5, <1>7, <1>8, <4>1, <4>2
      <4>4. e = Keep(d, x)
        BY <1>2, <1>3, <1>8, <2>5, <4>3
      <4> QED
        BY <1>2, <1>8, <3>1, <4>2, <4>3, <4>4, DecoderSteps
    <3> QED
      BY <1>6, <3>1, <3>2 DEF e, t
  <2> QED
    BY <2>3, <2>4, <2>5
<1>9. CASE ~IsText(u)
  <2>1. v = Append(u, x) /\ ~IsText(v)
    BY <1>1, <1>4, <1>9
  <2>2. ASSUME ~Endless(v)
        PROVE  IF Fits(v) THEN ~e.discarding /\ e.buffer = v ELSE e.discarding
    <3>1. IF Fits(u) THEN ~d.discarding /\ d.buffer = u ELSE d.discarding
      BY <1>2, <1>4, <1>9, <2>1, <2>2
    <3>2. CASE ~Fits(u)
      <4>1. ~Fits(v) /\ e = d
        BY <1>3, <1>5, <1>7, <2>1, <3>1, <3>2 DEF Fits
      <4> QED
        BY <3>1, <3>2, <4>1
    <3>3. CASE Fits(u) /\ Len(u) # m
      <4>1. Fits(v) /\ ~Full(d)
        BY <1>5, <1>7, <2>1, <3>1, <3>3 DEF Fits
      <4>2. e = Keep(d, x)
        BY <1>3, <1>9, <3>1, <3>3, <4>1
      <4> QED
        BY <2>1, <3>1, <3>3, <4>1, <4>2, DecoderSteps
    <3>4. CASE Fits(u) /\ Len(u) = m
      <4>1. ~Fits(v) /\ Full(d)
        BY <1>5, <1>7, <2>1, <3>1, <3>4 DEF Fits
      <4>2. e = Discard(d)
        BY <1>3, <1>9, <3>1, <3>4, <4>1
      <4> QED
        BY <4>1, <4>2, DecoderSteps
    <3> QED
      BY <3>2, <3>3, <3>4
  <2> QED
    BY <1>6, <2>1, <2>2 DEF e, t
<1> QED
  BY <1>8, <1>9

(* At the start of a frame there is nothing to know.                       *)
LEMMA NoTextKept ==
  ASSUME NEW d, ~d.discarding, d.buffer = <<>>
  PROVE  TextKeeps(d, <<>>)
<1>1. TextEnds(<<>>, 0) /\ <<>> \in Seq(Byte)
  BY DEF TextEnds, LineEnds
<1>2. WithoutText(<<>>) = SubSeq(<<>>, 0 + 1, Len(<<>>))
  BY <1>1, TextEndsOnce
<1>3. SubSeq(<<>>, 0 + 1, Len(<<>>)) = <<>> /\ Len(<<>>) = 0
  OBVIOUS
<1>4. 0 = 0 + 0 * (MaxFrame - 1) /\ 0 \in 0 .. 0
  BY FramingAssumption
<1> QED
  BY <1>2, <1>3, <1>4, TextOfFew DEF TextKeeps

(* Frames::push keeps the invariant.                                       *)
LEMMA FramesByte ==
  ASSUME NEW s \in Seq(Byte), NEW b \in Byte, NEW d, FramesInv(s, d)
  PROVE  FramesInv(Append(s, b), PushFrames(d, b))
<1> DEFINE t == Append(s, b)
           c == Begun(s, Len(s))
           u == WithoutText(c)
           e == PushFrames(d, b)
           f == [z \in Zeros(s) |-> WithoutText(Bodies(s)[z])]
           g == [z \in Zeros(t) |-> WithoutText(Bodies(t)[z])]
           P == {z \in Zeros(s) : Good(WithoutText(Bodies(s)[z]))}
           Q == {z \in Zeros(t) : Good(WithoutText(Bodies(t)[z]))}
           Apart(r) == \A z \in Zeros(r) : Separate(Bodies(r)[z])
<1>1. /\ t \in Seq(Byte) /\ c \in Seq(Byte) /\ Len(t) \in Nat /\ Zeros(s) \in SUBSET Nat
      /\ \A z \in Zeros(s) : z \in Zeros(t) /\ z < Len(t) /\ Bodies(t)[z] = Bodies(s)[z]
      /\ b # "zero" => Begun(t, Len(t)) = Append(c, b) /\ Zeros(t) = Zeros(s)
      /\ b = "zero" => /\ Begun(t, Len(t)) = <<>>
                       /\ Zeros(t) = Zeros(s) \cup {Len(t)} /\ Bodies(t)[Len(t)] = c
  BY NextByte
<1>2. /\ d \in Decoder /\ Len(d.buffer) < MaxFrame
      /\ ~LineFills(c) => TextKeeps(d, c)
      /\ Apart(s) => Lists(d.out, P, f)
  BY DEF FramesInv, FramesAgree
<1>3. FramesAgree(t, e) <=> (Apart(t) => Lists(e.out, Q, g))
  BY DEF FramesAgree
<1>4. Apart(t) => Apart(s)
  BY <1>1
<1>5. u \in Seq(Byte)
  BY <1>1, TextEndsAt, RestType
<1> HIDE DEF t, c, u, e
<1>6. /\ P \in SUBSET Nat /\ \A z \in P : z < Len(t) /\ g[z] = f[z]
      /\ b # "zero" => Q = P
      /\ b = "zero" => g[Len(t)] = u /\ Q = IF Good(u) THEN P \cup {Len(t)} ELSE P
  <2>1. P \in SUBSET Nat /\ \A z \in P : z < Len(t) /\ g[z] = f[z]
    BY <1>1
  <2>2. b # "zero" => Q = P
    BY <1>1
  <2>3. ASSUME b = "zero" PROVE g[Len(t)] = u /\ Q = IF Good(u) THEN P \cup {Len(t)} ELSE P
    <3>1. g[Len(t)] = u
      BY <1>1, <2>3 DEF u
    <3>2. Len(t) \in Q <=> Good(u)
      BY <1>1, <2>3 DEF u
    <3>3. \A z \in Zeros(s) : z \in Q <=> z \in P
      BY <1>1
    <3>4. \A z \in Q : z \in Zeros(s) \/ z = Len(t)
      BY <1>1, <2>3
    <3>5. P \subseteq Zeros(s)
      OBVIOUS
    <3> HIDE DEF P, Q, g
    <3>6. CASE Good(u)
      <4>1. Q = P \cup {Len(t)}
        BY <3>2, <3>3, <3>4, <3>5, <3>6
      <4> QED
        BY <3>1, <3>6, <4>1
    <3>7. CASE ~Good(u)
      <4>1. Q = P
        BY <3>2, <3>3, <3>4, <3>5, <3>7
      <4> QED
        BY <3>1, <3>7, <4>1
    <3> QED
      BY <3>6, <3>7
  <2> QED
    BY <2>1, <2>2, <2>3
<1> DEFINE apartS == Apart(s)
           apartT == Apart(t)
<1>7. apartT => Separate(c) \/ b # "zero"
  BY <1>1
<1> HIDE DEF P, Q, f, g, apartS, apartT
<1>8. /\ apartS => Lists(d.out, P, f)
      /\ FramesAgree(t, e) <=> (apartT => Lists(e.out, Q, g))
      /\ apartT => apartS
  BY <1>2, <1>3, <1>4 DEF apartS, apartT
<1>9. ASSUME b # "zero" PROVE FramesInv(t, e)
  <2>1. e \in Decoder /\ Len(e.buffer) < MaxFrame /\ e.out = d.out
    BY <1>2, <1>9, PushFramesType DEF e
  <2>2. ~LineFills(Append(c, b)) => TextKeeps(e, Append(c, b))
    BY <1>1, <1>2, <1>9, TextKeepsByte DEF e
  <2>3. apartT => Lists(d.out, P, g)
    BY <1>6, <1>8, ListsSame
  <2> QED
    BY <1>1, <1>6, <1>8, <1>9, <2>1, <2>2, <2>3 DEF FramesInv
<1>10. ASSUME b = "zero" PROVE FramesInv(t, e)
  <2>1. e = IF ~d.discarding /\ d.buffer # <<>> /\ Decodes(d.buffer)
            THEN Result(d, d.buffer) ELSE Restart(d)
    BY <1>10 DEF e, PushFrames
  <2>2. d.buffer \in Results /\ d.out \in Seq(Results)
    BY <1>2 DEF Decoder, Results
  <2>3. e \in Decoder /\ ~e.discarding /\ e.buffer = <<>>
    BY <1>2, <2>1, <2>2, DecoderSteps
  <2>4. TextKeeps(e, <<>>)
    BY <2>3, NoTextKept
  <2>5. ASSUME apartT PROVE Lists(e.out, Q, g)
    <3>1. Separate(c) /\ Lists(d.out, P, f)
      BY <1>7, <1>8, <1>10, <2>5
    <3>2. TextKeeps(d, c) /\ ~Endless(u)
      BY <1>2, <3>1 DEF Separate, u
    <3>3. /\ IsText(u) => ~d.discarding /\ (Fits(u) => d.buffer = u)
          /\ ~IsText(u) => IF Fits(u) THEN ~d.discarding /\ d.buffer = u ELSE d.discarding
      BY <3>2 DEF TextKeeps, u
    <3>4. IsText(u) => Fits(u)
      BY <1>5, <1>10, <3>2, EndlessNext
    <3>5. e = IF Good(u) THEN Result(d, u) ELSE Restart(d)
      <4>1. CASE Fits(u)
        BY <2>1, <3>3, <4>1 DEF Good
      <4>2. CASE ~Fits(u)
        BY <2>1, <3>3, <3>4, <4>2 DEF Good
      <4> QED
        BY <4>1, <4>2
    <3>6. CASE Good(u)
      <4>1. g[Len(t)] = u /\ u \in Results /\ e.out = Append(d.out, u)
        BY <1>2, <1>5, <1>6, <1>10, <3>5, <3>6, DecoderSteps DEF Results
      <4>2. Lists(Append(d.out, g[Len(t)]), P \cup {Len(t)}, g)
        BY <1>1, <1>6, <2>2, <3>1, <4>1, ListsMore
      <4> QED
        BY <1>6, <1>10, <3>6, <4>1, <4>2
    <3>7. CASE ~Good(u)
      <4>1. e.out = d.out
        BY <1>2, <3>5, <3>7, DecoderSteps
      <4> QED
        BY <1>6, <1>10, <3>1, <3>7, <4>1, ListsSame
    <3> QED
      BY <3>6, <3>7
  <2>6. Len(<<>>) < MaxFrame
    BY FramingAssumption
  <2> QED
    BY <1>1, <1>8, <1>10, <2>3, <2>4, <2>5, <2>6 DEF FramesInv
<1> QED
  BY <1>9, <1>10 DEF t, e

-----------------------------------------------------------------------------
(* All of them.                                                            *)

\* How much of s FrameReader has taken when its source has p left and its buffer a.
Taken(s, p, a) == Len(s) - Len(p) - Len(a)

\* Nothing is lost on the way through the buffer.
Supplied(s, p, a) ==
  /\ s \in Seq(Byte) /\ p \in Seq(Byte) /\ a \in Seq(Byte)
  /\ Taken(s, p, a) \in 0 .. Len(s)
  /\ \A i \in 1 .. Len(a) : a[i] = s[Taken(s, p, a) + i]
  /\ \A i \in 1 .. Len(p) : p[i] = s[Taken(s, p, a) + Len(a) + i]

(* A byte that arrives goes into the pipe.                                 *)
LEMMA SupplyByte ==
  ASSUME NEW s, NEW p, NEW a, Supplied(s, p, a), NEW b \in Byte
  PROVE  /\ Supplied(Append(s, b), Append(p, b), a)
         /\ Taken(Append(s, b), Append(p, b), a) = Taken(s, p, a)
<1> DEFINE t == Append(s, b)
           q == Append(p, b)
           n == Taken(s, p, a)
<1>1. /\ s \in Seq(Byte) /\ p \in Seq(Byte) /\ a \in Seq(Byte) /\ n \in 0 .. Len(s)
      /\ \A i \in 1 .. Len(a) : a[i] = s[n + i]
      /\ \A i \in 1 .. Len(p) : p[i] = s[n + Len(a) + i]
      /\ n = Len(s) - Len(p) - Len(a)
  BY DEF Supplied, Taken
<1> HIDE DEF n
<1>2. /\ t \in Seq(Byte) /\ Len(t) = Len(s) + 1 /\ t[Len(s) + 1] = b
      /\ \A i \in 1 .. Len(s) : t[i] = s[i]
  BY <1>1
<1>3. /\ q \in Seq(Byte) /\ Len(q) = Len(p) + 1 /\ q[Len(p) + 1] = b
      /\ \A i \in 1 .. Len(p) : q[i] = p[i]
  BY <1>1
<1> HIDE DEF t, q
<1>4. Len(s) \in Nat /\ Len(p) \in Nat /\ Len(a) \in Nat /\ n \in Nat
  BY <1>1
<1>5. Taken(t, q, a) = n
  BY <1>1, <1>2, <1>3, <1>4 DEF Taken
<1>6. \A i \in 1 .. Len(a) : a[i] = t[n + i]
  <2> TAKE i \in 1 .. Len(a)
  <2>1. n + i \in 1 .. Len(s)
    BY <1>1, <1>4
  <2> QED
    BY <1>1, <1>2, <2>1
<1>7. \A i \in 1 .. Len(q) : q[i] = t[n + Len(a) + i]
  <2> TAKE i \in 1 .. Len(q)
  <2>1. CASE i = Len(p) + 1
    <3>1. n + Len(a) + i = Len(s) + 1
      BY <1>1, <1>4, <2>1
    <3> QED
      BY <1>2, <1>3, <2>1, <3>1
  <2>2. CASE i # Len(p) + 1
    <3>1. i \in 1 .. Len(p) /\ n + Len(a) + i \in 1 .. Len(s)
      BY <1>1, <1>3, <1>4, <2>2
    <3> QED
      BY <1>1, <1>2, <1>3, <3>1
  <2> QED
    BY <2>1, <2>2
<1>8. Supplied(t, q, a) /\ Taken(t, q, a) = n
  BY <1>1, <1>2, <1>3, <1>4, <1>5, <1>6, <1>7 DEF Supplied
<1> QED
  BY <1>8 DEF t, q, n

(* fill_buf moves what the pipe holds.                                     *)
LEMMA SupplyFill ==
  ASSUME NEW s, NEW p, Supplied(s, p, <<>>)
  PROVE  Supplied(s, <<>>, p) /\ Taken(s, <<>>, p) = Taken(s, p, <<>>)
<1> DEFINE n == Taken(s, p, <<>>)
<1>1. /\ s \in Seq(Byte) /\ p \in Seq(Byte) /\ n \in 0 .. Len(s) /\ Len(<<>>) = 0
      /\ \A i \in 1 .. Len(p) : p[i] = s[n + 0 + i]
      /\ n = Len(s) - Len(p) - 0
  BY DEF Supplied, Taken
<1> HIDE DEF n
<1>2. Taken(s, <<>>, p) = n
  BY <1>1 DEF Taken
<1>3. /\ \A i \in 1 .. Len(p) : p[i] = s[n + i]
      /\ \A i \in 1 .. Len(<<>>) : <<>>[i] = s[n + Len(p) + i]
  BY <1>1
<1>4. <<>> \in Seq(Byte)
  OBVIOUS
<1> QED
  BY <1>1, <1>2, <1>3, <1>4 DEF Supplied, n

\* How much of a comes before a zero byte, and what is left behind that one.
Before(a) ==
  LET zeros == {i \in 1 .. Len(a) : a[i] = "zero"}
  IN  IF zeros = {} THEN Len(a) ELSE (CHOOSE i \in zeros : \A j \in zeros : i <= j) - 1
Behind(a, n) == SubSeq(a, n + 2, Len(a))

\* n bytes of s after the first `from`.
Stretch(s, from, n) == SubSeq(s, from + 1, from + n)

(* consume takes bytes from the front, and the zero byte behind them.      *)
LEMMA SupplyTake ==
  ASSUME NEW s, NEW p, NEW a, Supplied(s, p, a), NEW n \in 0 .. Len(a)
  PROVE  /\ Supplied(s, p, Behind(a, n))
         /\ Stretch(a, 0, n) = Stretch(s, Taken(s, p, a), n)
         /\ Taken(s, p, a) + n \in Taken(s, p, a) .. Len(s)
         /\ n < Len(a) => /\ Taken(s, p, Behind(a, n)) = Taken(s, p, a) + n + 1
                          /\ Taken(s, p, a) + n + 1 \in 1 .. Len(s)
         /\ n = Len(a) => Taken(s, p, Behind(a, n)) = Taken(s, p, a) + n
<1> DEFINE rest == Behind(a, n)
           from == Taken(s, p, a)
<1>1. /\ s \in Seq(Byte) /\ p \in Seq(Byte) /\ a \in Seq(Byte) /\ from \in 0 .. Len(s)
      /\ \A i \in 1 .. Len(a) : a[i] = s[from + i]
      /\ \A i \in 1 .. Len(p) : p[i] = s[from + Len(a) + i]
      /\ from = Len(s) - Len(p) - Len(a)
  BY DEF Supplied, Taken
<1> HIDE DEF from, rest
<1>2. Len(s) \in Nat /\ Len(p) \in Nat /\ Len(a) \in Nat /\ from \in Nat /\ n \in Nat
  BY <1>1
<1>3. Stretch(a, 0, n) = Stretch(s, from, n) /\ from + n \in from .. Len(s)
  <2> DEFINE x == SubSeq(a, 1, n)
             y == SubSeq(s, from + 1, from + n)
  <2>1. x \in Seq(Byte) /\ Len(x) = n /\ \A i \in 1 .. n : x[i] = a[i]
    BY <1>1, <1>2
  <2>2. from + n <= Len(s)
    BY <1>1, <1>2
  <2>3. y \in Seq(Byte) /\ Len(y) = n /\ \A i \in 1 .. n : y[i] = s[from + i]
    BY <1>1, <1>2, <2>2
  <2> HIDE DEF x, y
  <2>4. \A i \in 1 .. n : i \in 1 .. Len(a)
    BY <1>2
  <2>5. x = y
    BY <1>1, <2>1, <2>3, <2>4, SameBytes
  <2> QED
    <3>1. 0 + 1 = 1 /\ 0 + n = n
      BY <1>2
    <3> QED
      BY <1>2, <2>2, <2>5, <3>1 DEF x, y, Stretch
<1>4. CASE n = Len(a)
  <2>1. rest = <<>>
    BY <1>1, <1>2, <1>4 DEF rest, Behind
  <2>2. Len(<<>>) = 0 /\ <<>> \in Seq(Byte)
    OBVIOUS
  <2>3. Taken(s, p, rest) = from + n
    BY <1>1, <1>2, <1>4, <2>1, <2>2 DEF Taken
  <2>4. \A i \in 1 .. Len(p) : p[i] = s[from + n + Len(rest) + i]
    BY <1>1, <1>2, <1>4, <2>1, <2>2
  <2>5. \A i \in 1 .. Len(rest) : rest[i] = s[from + n + i]
    BY <2>1, <2>2
  <2>6. from + n \in 0 .. Len(s)
    BY <1>2, <1>3
  <2>7. Supplied(s, p, rest)
    BY <1>1, <2>1, <2>2, <2>3, <2>4, <2>5, <2>6 DEF Supplied
  <2> QED
    BY <1>2, <1>3, <1>4, <2>3, <2>7 DEF rest, from
<1>5. CASE n < Len(a)
  <2>1. rest \in Seq(Byte) /\ Len(rest) = Len(a) - n - 1 /\ \A i \in 1 .. Len(a) - n - 1 : rest[i] = a[n + 1 + i]
    <3> DEFINE k == n + 1
    <3>1. k \in 1 .. Len(a) /\ rest = SubSeq(a, k + 1, Len(a))
      BY <1>2, <1>5 DEF rest, Behind
    <3> HIDE DEF k
    <3>2. rest \in Seq(Byte) /\ Len(rest) = Len(a) - k /\ \A i \in 1 .. Len(a) - k : rest[i] = a[k + i]
      BY <1>1, <3>1
    <3> QED
      BY <1>2, <3>2 DEF k
  <2>2. Taken(s, p, rest) = from + n + 1
    BY <1>1, <1>2, <2>1 DEF Taken
  <2>3. from + n + 1 \in 0 .. Len(s) /\ from + n + 1 \in 1 .. Len(s)
    BY <1>1, <1>2, <1>5
  <2>4. \A i \in 1 .. Len(rest) : rest[i] = s[from + n + 1 + i]
    <3> TAKE i \in 1 .. Len(rest)
    <3>1. i \in 1 .. Len(a) - n - 1 /\ n + 1 + i \in 1 .. Len(a) /\ from + n + 1 + i = from + (n + 1 + i)
      BY <1>2, <2>1
    <3> QED
      BY <1>1, <2>1, <3>1
  <2>5. \A i \in 1 .. Len(p) : p[i] = s[from + n + 1 + Len(rest) + i]
    <3> TAKE i \in 1 .. Len(p)
    <3>1. from + n + 1 + Len(rest) + i = from + Len(a) + i
      BY <1>2, <2>1
    <3> QED
      BY <1>1, <3>1
  <2>6. Supplied(s, p, rest)
    BY <1>1, <2>1, <2>2, <2>3, <2>4, <2>5 DEF Supplied
  <2> QED
    BY <1>2, <1>3, <1>5, <2>2, <2>3, <2>6 DEF rest, from
<1>6. n = Len(a) \/ n < Len(a)
  BY <1>2
<1> QED
  BY <1>4, <1>5, <1>6

(* One turn of the loop of read_frame.                                     *)
LEMMA ReaderTurn ==
  ASSUME NEW s, NEW p, NEW a, Supplied(s, p, a), NEW d, ReaderInv(s, Taken(s, p, a), d)
  PROVE  /\ Supplied(s, p, Behind(a, Before(a)))
         /\ ReaderInv(s, Taken(s, p, Behind(a, Before(a))),
                      Piece(d, SubSeq(a, 1, Before(a)), {i \in 1 .. Len(a) : a[i] = "zero"} # {}))
<1> DEFINE zeros == {i \in 1 .. Len(a) : a[i] = "zero"}
           n     == Before(a)
           rest  == Behind(a, n)
           from  == Taken(s, p, a)
<1>1. /\ s \in Seq(Byte) /\ a \in Seq(Byte) /\ from \in 0 .. Len(s)
      /\ \A i \in 1 .. Len(a) : a[i] = s[from + i]
      /\ Len(a) \in Nat
  BY DEF Supplied
<1>2. /\ n \in 0 .. Len(a) /\ \A i \in 1 .. n : a[i] # "zero"
      /\ zeros = {} => n = Len(a)
      /\ zeros # {} => n < Len(a) /\ a[n + 1] = "zero"
  <2>1. CASE zeros = {}
    <3>1. n = Len(a)
      BY <2>1 DEF Before
    <3> QED
      BY <1>1, <2>1, <3>1
  <2>2. CASE zeros # {}
    <3>1. zeros \in SUBSET Nat
      OBVIOUS
    <3>2. \E i \in zeros : \A j \in zeros : i <= j
      BY <2>2, <3>1, LeastNatural
    <3> DEFINE least == CHOOSE i \in zeros : \A j \in zeros : i <= j
    <3>3. least \in zeros /\ \A j \in zeros : least <= j
      BY <3>2
    <3>4. n = least - 1
      BY <2>2 DEF Before
    <3> HIDE DEF least, n
    <3>5. least \in 1 .. Len(a) /\ a[least] = "zero"
      BY <3>3
    <3>6. \A i \in 1 .. n : i \notin zeros /\ i \in 1 .. Len(a)
      BY <1>1, <3>3, <3>4, <3>5
    <3>7. n + 1 = least /\ n \in 0 .. Len(a) /\ n < Len(a)
      BY <1>1, <3>4, <3>5
    <3> QED
      BY <2>2, <3>5, <3>6, <3>7
  <2> QED
    BY <2>1, <2>2
<1> HIDE DEF n, zeros
<1>3. /\ Supplied(s, p, rest) /\ SubSeq(a, 1, n) = SubSeq(s, from + 1, from + n)
      /\ from + n \in from .. Len(s)
      /\ n < Len(a) => Taken(s, p, rest) = from + n + 1 /\ from + n + 1 \in 1 .. Len(s)
      /\ n = Len(a) => Taken(s, p, rest) = from + n
  <2>1. n \in 0 .. Len(a)
    BY <1>2
  <2> QED
    <3>1. /\ Supplied(s, p, rest) /\ Stretch(a, 0, n) = Stretch(s, from, n)
          /\ from + n \in from .. Len(s)
          /\ n < Len(a) => Taken(s, p, rest) = from + n + 1 /\ from + n + 1 \in 1 .. Len(s)
          /\ n = Len(a) => Taken(s, p, rest) = from + n
      BY <2>1, SupplyTake
    <3>2. 0 + 1 = 1 /\ 0 + n = n
      BY <2>1
    <3> QED
      BY <3>1, <3>2 DEF Stretch
<1> HIDE DEF rest
<1>4. ReaderInv(s, from, d)
  OBVIOUS
<1> HIDE DEF from
<1>5. \A i \in from + 1 .. from + n : s[i] # "zero"
  <2> TAKE i \in from + 1 .. from + n
  <2>1. i - from \in 1 .. n /\ i - from \in 1 .. Len(a) /\ from + (i - from) = i
    BY <1>1, <1>2
  <2> QED
    BY <1>1, <1>2, <2>1
<1>6. ReaderInv(s, from + n, Piece(d, SubSeq(a, 1, n), FALSE))
  BY <1>1, <1>3, <1>4, <1>5, ReaderPiece
<1>7. ReaderInv(s, Taken(s, p, rest), Piece(d, SubSeq(a, 1, n), zeros # {}))
  <2>1. CASE zeros = {}
    <3>1. (zeros # {}) = FALSE
      BY <2>1
    <3> QED
      BY <1>2, <1>3, <1>6, <2>1, <3>1
  <2>2. CASE zeros # {}
    <3>1. (zeros # {}) = TRUE
      BY <2>2
    <3>2. from + n + 1 \in 1 .. Len(s) /\ from + n + 1 - 1 = from + n
      BY <1>1, <1>2, <1>3, <2>2
    <3>3. s[from + n + 1] = "zero"
      <4>1. n + 1 \in 1 .. Len(a) /\ from + (n + 1) = from + n + 1
        BY <1>1, <1>2, <2>2
      <4> QED
        BY <1>1, <1>2, <2>2, <4>1
    <3>4. ReaderInv(s, from + n + 1, Piece(d, SubSeq(a, 1, n), TRUE))
      <4> DEFINE m == from + n + 1
      <4>1. m \in 1 .. Len(s) /\ s[m] = "zero" /\ m - 1 = from + n
        <5>1. m \in 1 .. Len(s) /\ s[m] = "zero"
          BY <3>2, <3>3, Zenon
        <5>2. m - 1 = from + n
          BY <1>1, <1>2, <3>2
        <5> QED
          BY <5>1, <5>2, Zenon
      <4> HIDE DEF m
      <4>2. ReaderInv(s, m - 1, Piece(d, SubSeq(a, 1, n), FALSE))
        BY <1>6, <4>1
      <4>3. ReaderInv(s, m, Piece(d, SubSeq(a, 1, n), TRUE))
        BY <1>1, <4>1, <4>2, ReaderEnd
      <4> QED
        BY <4>3 DEF m
    <3> QED
      BY <1>2, <1>3, <2>2, <3>1, <3>4
  <2> QED
    BY <2>1, <2>2
<1> QED
  BY <1>3, <1>7 DEF rest, n, zeros

FramingInv ==
  /\ Supplied(stream, pipe, available)
  /\ ReceiverInv(stream, receiver)
  /\ FramesInv(stream, frames)
  /\ ReplyInv(stream, reply)
  /\ ReaderInv(stream, Taken(stream, pipe, available), reader)
  /\ LaunchInv(stream, launch)

(* Before the first byte no reader holds anything.                         *)
LEMMA FramingInitInv == FramingInit => FramingInv
<1> SUFFICES ASSUME FramingInit PROVE FramingInv
  OBVIOUS
<1>1. /\ stream = <<>> /\ pipe = <<>> /\ available = <<>>
      /\ receiver = Empty /\ frames = Empty /\ reply = Empty /\ reader = Empty
      /\ launch = [frame |-> <<>>, outcome |-> "reading", rest |-> <<>>]
  BY DEF FramingInit
<1>2. <<>> \in Seq(Byte) /\ Len(<<>>) = 0 /\ 1 .. 0 = {}
  OBVIOUS
<1>3. Zeros(<<>>) = {} /\ \A n : EndsOf(<<>>, n) = {}
  BY <1>2 DEF Zeros, EndsOf
<1>4. Begun(<<>>, 0) = <<>>
  <2>1. Opens(<<>>, 0, 0)
    <3>1. 0 \in 0 .. 0 /\ 0 + 1 .. 0 = {}
      OBVIOUS
    <3> QED
      BY <3>1 DEF Opens
  <2>2. 0 \in 0 .. Len(<<>>)
    BY <1>2
  <2>3. Begun(<<>>, 0) = SubSeq(<<>>, 0 + 1, 0)
    BY <1>2, <2>1, <2>2, OpensOnce
  <2>4. SubSeq(<<>>, 0 + 1, 0) = <<>>
    OBVIOUS
  <2> QED
    BY <2>3, <2>4
<1>5. Taken(<<>>, <<>>, <<>>) = 0 /\ Supplied(<<>>, <<>>, <<>>)
  <2>1. Taken(<<>>, <<>>, <<>>) = 0
    <3>1. 0 - 0 - 0 = 0
      OBVIOUS
    <3> QED
      BY <1>2, <3>1, Zenon DEF Taken
  <2>2. 0 \in 0 .. Len(<<>>) /\ 1 .. Len(<<>>) = {}
    BY <1>2
  <2> QED
    BY <1>2, <2>1, <2>2 DEF Supplied
<1>6. Empty \in Decoder /\ ~Empty.discarding /\ Empty.buffer = <<>> /\ Empty.out = <<>>
  BY DEF Empty, Decoder
<1>7. Fits(<<>>)
  BY <1>2, FramingAssumption DEF Fits
<1>8. \A f : Lists(<<>>, {}, f)
  BY ListsNone
<1>9. ReceiverInv(<<>>, Empty)
  BY <1>2, <1>3, <1>4, <1>6, <1>7, <1>8 DEF ReceiverInv, Keeps, ReceiverAgrees
<1>10. ReplyInv(<<>>, Empty)
  <2>1. {e \in EndsOf(<<>>, 0) : Good(Bodies(<<>>)[e])} = {}
    BY <1>3
  <2> QED
    BY <1>2, <1>4, <1>6, <1>7, <1>8, <2>1 DEF ReplyInv, ReplyAgrees
<1>11. ReaderInv(<<>>, 0, Empty)
  BY <1>2, <1>3, <1>4, <1>6, <1>7, <1>8 DEF ReaderInv, Keeps, ReaderAgrees
<1>12. FramesInv(<<>>, Empty)
  <2>1. {e \in Zeros(<<>>) : Good(WithoutText(Bodies(<<>>)[e]))} = {}
    BY <1>3
  <2>2. FramesAgree(<<>>, Empty)
    BY <1>6, <1>8, <2>1 DEF FramesAgree
  <2>3. TextKeeps(Empty, <<>>)
    BY <1>6, NoTextKept
  <2> QED
    BY <1>2, <1>4, <1>6, <2>2, <2>3, FramingAssumption DEF FramesInv
<1>13. LaunchInv(<<>>, launch)
  BY <1>1, <1>2, <1>3, FramingAssumption DEF LaunchInv
<1> QED
  BY <1>1, <1>5, <1>9, <1>10, <1>11, <1>12, <1>13 DEF FramingInv

(* Every step keeps what is known of all readers.                          *)
LEMMA FramingStep == FramingInv /\ [FramingNext]_fvars => FramingInv'
<1> SUFFICES ASSUME FramingInv, [FramingNext]_fvars PROVE FramingInv'
  OBVIOUS
<1>1. stream \in Seq(Byte) /\ Taken(stream, pipe, available) \in 0 .. Len(stream)
  BY DEF FramingInv, Supplied
<1>2. CASE Arrive
  <2>1. PICK b \in Byte :
           /\ stream' = Append(stream, b)
           /\ receiver' = PushReceiver(receiver, b)
           /\ frames' = PushFrames(frames, b)
           /\ reply' = PushReply(reply, b)
           /\ launch' = PushLaunch(launch, b)
           /\ pipe' = Append(pipe, b)
    BY <1>2 DEF Arrive
  <2>2. UNCHANGED <<reader, available>>
    BY <1>2 DEF Arrive
  <2>3. /\ Supplied(stream', pipe', available')
        /\ Taken(stream', pipe', available') = Taken(stream, pipe, available)
    BY <2>1, <2>2, SupplyByte DEF FramingInv
  <2>4. ReceiverInv(stream', receiver')
    BY <1>1, <2>1, ReceiverByte DEF FramingInv
  <2>5. FramesInv(stream', frames')
    BY <1>1, <2>1, FramesByte DEF FramingInv
  <2>6. ReplyInv(stream', reply')
    BY <1>1, <2>1, ReplyByte DEF FramingInv
  <2>7. LaunchInv(stream', launch')
    BY <1>1, <2>1, LaunchByte DEF FramingInv
  <2>8. ReaderInv(stream', Taken(stream', pipe', available'), reader')
    <3>1. ReaderInv(stream', Taken(stream, pipe, available), reader)
      BY <1>1, <2>1, ReaderLater DEF FramingInv
    <3> QED
      BY <2>2, <2>3, <3>1
  <2> QED
    BY <2>3, <2>4, <2>5, <2>6, <2>7, <2>8 DEF FramingInv
<1>3. CASE Fill
  <2>1. available = <<>> /\ available' = pipe /\ pipe' = <<>>
        /\ UNCHANGED <<stream, receiver, frames, reply, reader, launch>>
    BY <1>3 DEF Fill
  <2>2. /\ Supplied(stream', pipe', available')
        /\ Taken(stream', pipe', available') = Taken(stream, pipe, available)
    BY <2>1, SupplyFill DEF FramingInv
  <2> QED
    BY <2>1, <2>2 DEF FramingInv
<1>4. CASE Consume
  <2> DEFINE ended == {i \in 1 .. Len(available) : available[i] = "zero"} # {}
             n     == Before(available)
             rest  == Behind(available, n)
  <2>1. /\ reader' = Piece(reader, SubSeq(available, 1, n), ended)
        /\ available' = rest
        /\ UNCHANGED <<stream, receiver, frames, reply, pipe, launch>>
    BY <1>4 DEF Consume, Before, Behind
  <2>2. /\ Supplied(stream, pipe, rest)
        /\ ReaderInv(stream, Taken(stream, pipe, rest),
                     Piece(reader, SubSeq(available, 1, n), ended))
    <3>1. /\ Supplied(stream, pipe, available)
          /\ ReaderInv(stream, Taken(stream, pipe, available), reader)
      BY DEF FramingInv
    <3> QED
      BY <3>1, ReaderTurn
  <2> HIDE DEF ended, n, rest
  <2> QED
    BY <2>1, <2>2 DEF FramingInv
<1>5. CASE UNCHANGED fvars
  BY <1>5 DEF fvars, FramingInv
<1> QED
  BY <1>2, <1>3, <1>4, <1>5 DEF FramingNext

(* However the bytes come, are cut and what came before, the five readers  *)
(* find the frames that lie between zero bytes, whole, in order and up to  *)
(* the same length (transport.rs, device.rs, main.rs, frame.rs,            *)
(* launch.rs).                                                             *)
THEOREM ReadersAgree == FramingSpec => []DecodersAgree
<1>1. FramingInv => DecodersAgree
  <2> SUFFICES ASSUME FramingInv PROVE DecodersAgree
    OBVIOUS
  <2>1. LaunchAgrees(stream, launch)
    BY LaunchIsRight DEF FramingInv, Supplied
  <2>2. ReaderAgrees(stream, Consumed, reader)
    BY DEF FramingInv, ReaderInv, Consumed, Taken
  <2> QED
    BY <2>1, <2>2 DEF FramingInv, ReceiverInv, ReplyInv, FramesInv, DecodersAgree
<1> QED
  BY <1>1, FramingInitInv, FramingStep, PTL DEF FramingSpec
=============================================================================
