------------------------------ MODULE Storage ------------------------------
(***************************************************************************)
(* The settings of the firmware on the SD card: the settings panel asks    *)
(* for a save (client/preferences.rs), the main loop carries it out and    *)
(* reports what came of it (main.rs), storage.rs reads, writes and         *)
(* verifies the two files.  Everything the card does is a choice: any      *)
(* access may fail, a write may be reported good and leave nothing usable  *)
(* (the check right after it reads the cache of the same volume manager),  *)
(* and the power may go between any two accesses.                          *)
(*                                                                         *)
(* A file holds settings, or is not there: NoFile, or holds what           *)
(* Settings::parse rejects: Torn.  A file that was truncated and not yet   *)
(* written is Torn.                                                        *)
(***************************************************************************)

CONSTANTS Settings,  \* the values of struct Settings the model distinguishes
          Default    \* Settings::default()

ASSUME DefaultAssumption == Default \in Settings

NoFile == "absent"
Torn == "torn"
IoError == "io error"
NoSettings == "none"

ASSUME MarkersAssumption ==
  {NoFile, Torn, IoError, NoSettings} \cap Settings = {}

VARIABLES
  config,     \* the file STKCN.CFG
  backup,     \* the file STKCN.BAK
  settings,   \* Preferences.settings, the settings in use
  status,     \* Preferences.status
  requested,  \* Preferences.save_requested
  pc,         \* where the main loop is
  previous,   \* the settings `save` found in the main file, NoSettings if it had none
  saved,      \* history: the last settings reported saved, NoSettings before that
  tried       \* history: what later saves began to write to the main file

vars == <<config, backup, settings, status, requested, pc, previous, saved, tried>>
files == <<config, backup>>
history == <<saved, tried>>

FileContents == Settings \cup {NoFile, Torn}

Statuses == {"Unavailable", "Ready", "Loaded", "Recovered", "Unsaved", "Saving",
             "Saved", "Failed"}

Steps == {"Boot", "Take", "Touch", "Prepare", "ReadPrimary", "OpenBackup", "WriteBackup",
          "VerifyBackup", "OpenConfig", "WriteConfig", "VerifyConfig"}

Saving == Steps \ {"Boot", "Take", "Touch"}

TypeOK ==
  /\ config \in FileContents
  /\ backup \in FileContents
  /\ settings \in Settings
  /\ status \in Statuses
  /\ requested \in BOOLEAN
  /\ pc \in Steps
  /\ previous \in Settings \cup {NoSettings}
  /\ saved \in Settings \cup {NoSettings}
  /\ tried \subseteq Settings

(* What read_file may answer about a file: what the card holds, or an      *)
(* error of the card.                                                      *)
Reads(file) == {file, IoError}

-----------------------------------------------------------------------------
(* The start of the firmware.                                              *)

Init ==
  /\ config \in FileContents
  /\ backup \in FileContents
  /\ settings = Default
  /\ status = "Unavailable"
  /\ requested = FALSE
  /\ pc = "Boot"
  /\ previous = NoSettings
  /\ saved = NoSettings
  /\ tried = {}

(* The answer of `load`: the main file, else the backup, else why not.     *)
(* The backup is also read when the main file could not be.                *)
LoadOutcome(primary, second) ==
  IF primary \in Settings
    THEN [settings |-> primary, status |-> "Loaded"]
  ELSE IF second \in Settings
    THEN [settings |-> second, status |-> "Recovered"]
  ELSE [settings |-> Default,
        status |-> IF primary = NoFile /\ second = NoFile THEN "Ready" ELSE "Failed"]

(* The settings are read once, before the main loop.  Without a card, or   *)
(* when the bus fails before or after the reads, the defaults stay.        *)
Boot ==
  /\ pc = "Boot"
  /\ \/ \E primary \in Reads(config), second \in Reads(backup) :
          LET loaded == LoadOutcome(primary, second) IN
          /\ settings' = loaded.settings
          /\ status' = loaded.status
     \/ /\ settings' = Default
        /\ status' = "Unavailable"
  /\ pc' = "Take"
  /\ UNCHANGED <<files, requested, previous, history>>

-----------------------------------------------------------------------------
(* The main loop: the request is taken at the top, then at most one touch  *)
(* is judged.                                                              *)

TakeSave ==
  /\ pc = "Take"
  /\ pc' = IF requested THEN "Prepare" ELSE "Touch"
  /\ requested' = FALSE
  /\ UNCHANGED <<files, settings, status, previous, history>>

(* No touch in this turn, or one that changes no setting.                  *)
NoButton ==
  /\ pc = "Touch"
  /\ pc' = "Take"
  /\ UNCHANGED <<files, settings, status, requested, previous, history>>

(* A button that changes a setting.  It applies at once.                   *)
ChangeButton ==
  /\ pc = "Touch"
  /\ settings' \in Settings \ {settings}
  /\ status' = "Unsaved"
  /\ pc' = "Take"
  /\ UNCHANGED <<files, requested, previous, history>>

SaveButton ==
  /\ pc = "Touch"
  /\ requested' = TRUE
  /\ status' = "Saving"
  /\ pc' = "Take"
  /\ UNCHANGED <<files, settings, previous, history>>

-----------------------------------------------------------------------------
(* `save`, one action for each access that can change what the card holds. *)

(* Whatever fails, the status says so and the settings in use stay.        *)
GiveUp ==
  /\ status' = "Failed"
  /\ pc' = "Touch"
  /\ UNCHANGED <<settings, requested, previous, history>>

Continue(step) ==
  /\ pc' = step
  /\ UNCHANGED <<settings, status, requested, previous>>

(* with_sd wakes the card up and sets the speed of the bus.                *)
Prepare ==
  /\ pc = "Prepare"
  /\ UNCHANGED files
  /\ \/ Continue("ReadPrimary") /\ UNCHANGED history
     \/ GiveUp

(* Only a main file that is good is worth a backup.  One that is missing   *)
(* or damaged is written over, and the backup stays as it is.  One that    *)
(* could not be read may be good: nothing is written.                      *)
ReadPrimary ==
  /\ pc = "ReadPrimary"
  /\ UNCHANGED files
  /\ \E read \in Reads(config) :
       \/ /\ read = IoError
          /\ GiveUp
       \/ /\ read # IoError
          /\ previous' = IF read \in Settings THEN read ELSE NoSettings
          /\ pc' = IF read \in Settings THEN "OpenBackup" ELSE "OpenConfig"
          /\ UNCHANGED <<settings, status, requested, history>>

(* Opening the file for writing truncates it.                              *)
OpenBackup ==
  /\ pc = "OpenBackup"
  /\ UNCHANGED config
  /\ \/ /\ backup' = Torn
        /\ Continue("WriteBackup")
        /\ UNCHANGED history
     \/ /\ backup' \in {backup, Torn}
        /\ GiveUp

(* Written, closed and read back through the cache.                        *)
WriteBackup ==
  /\ pc = "WriteBackup"
  /\ UNCHANGED config
  /\ backup' \in {previous, Torn}
  /\ \/ Continue("VerifyBackup") /\ UNCHANGED history
     \/ GiveUp

(* Mutation: the backup is not read again before the main file is opened.  *)
VerifyBackupNever ==
  /\ pc = "VerifyBackup"
  /\ UNCHANGED files
  /\ Continue("OpenConfig")
  /\ UNCHANGED history

(* A new volume manager reads what the card really holds.                  *)
VerifyBackup ==
  /\ pc = "VerifyBackup"
  /\ UNCHANGED files
  /\ \E read \in Reads(backup) :
       \/ read = previous /\ Continue("OpenConfig") /\ UNCHANGED history
       \/ read # previous /\ GiveUp

OpenConfig ==
  /\ pc = "OpenConfig"
  /\ UNCHANGED backup
  /\ \/ /\ config' = Torn
        /\ Continue("WriteConfig")
        /\ tried' = tried \cup {settings}
        /\ UNCHANGED saved
     \/ /\ config' = config
        /\ GiveUp
     \/ \* truncated, and the error came after it
        /\ config' = Torn
        /\ status' = "Failed"
        /\ pc' = "Touch"
        /\ tried' = tried \cup {settings}
        /\ UNCHANGED <<settings, requested, previous, saved>>

WriteConfig ==
  /\ pc = "WriteConfig"
  /\ UNCHANGED backup
  /\ config' \in {settings, Torn}
  /\ \/ Continue("VerifyConfig") /\ UNCHANGED history
     \/ GiveUp

(* Mutation: closing the file without an error is taken for a good save.   *)
VerifyConfigNever ==
  /\ pc = "VerifyConfig"
  /\ UNCHANGED files
  /\ status' = "Saved"
  /\ pc' = "Touch"
  /\ saved' = settings
  /\ tried' = {}
  /\ UNCHANGED <<settings, requested, previous>>

(* The last check is a `load` of the card: only the main file will do.     *)
(* The bus may still fail after it, and the save counts as failed.         *)
VerifyConfig ==
  /\ pc = "VerifyConfig"
  /\ UNCHANGED files
  /\ \E read \in Reads(config) :
       \/ /\ read = settings
          /\ status' = "Saved"
          /\ pc' = "Touch"
          /\ saved' = settings
          /\ tried' = {}
          /\ UNCHANGED <<settings, requested, previous>>
       \/ GiveUp

(* The power goes; the card keeps what it holds.                           *)
PowerLoss ==
  /\ pc # "Boot"
  /\ pc' = "Boot"
  /\ settings' = Default
  /\ status' = "Unavailable"
  /\ requested' = FALSE
  /\ previous' = NoSettings
  /\ UNCHANGED <<files, history>>

Next ==
  \/ Boot
  \/ TakeSave
  \/ NoButton
  \/ ChangeButton
  \/ SaveButton
  \/ Prepare
  \/ ReadPrimary
  \/ OpenBackup
  \/ WriteBackup
  \/ VerifyBackup
  \/ OpenConfig
  \/ WriteConfig
  \/ VerifyConfig
  \/ PowerLoss

Spec == Init /\ [][Next]_vars

-----------------------------------------------------------------------------
(* What the next start finds if the card answers.                          *)
Readable ==
  IF config \in Settings THEN config
  ELSE IF backup \in Settings THEN backup
  ELSE NoSettings

(* Once a save was reported good, the card always holds a usable version:  *)
(* that one or one that a later save began to write.  No loss of power, no *)
(* failed and no silently lost write, in whatever order and however many   *)
(* (storage.rs:108-143), leaves both files unusable.                       *)
KeepsAVersion ==
  saved # NoSettings => Readable \in {saved} \cup tried

(* The panel says "Saved to SD" or "Settings loaded from SD" only while    *)
(* the main file holds exactly the settings in use                         *)
(* (preferences.rs:11-33, main.rs:249-259).                                *)
StatusIsTrue ==
  status \in {"Saved", "Loaded"} => config = settings

(* Where a save stands: what the steps that follow rely on.                *)
SaveInProgress ==
  /\ requested => pc = "Take" /\ status = "Saving"
  /\ pc \in Saving => status = "Saving"
  /\ pc \in {"OpenBackup", "WriteBackup", "VerifyBackup"} =>
       previous \in Settings /\ config = previous
  /\ pc = "OpenConfig" =>
       \/ previous \in Settings /\ backup = previous /\ config = previous
       \/ config \notin Settings
  /\ pc \in {"WriteConfig", "VerifyConfig"} =>
       /\ settings \in tried
       /\ saved # NoSettings => backup \in {saved} \cup tried
  /\ pc = "WriteConfig" => config = Torn
  /\ pc = "VerifyConfig" => config \in {settings, Torn}

(* The inductive invariant of the proofs.                                  *)
Inv == TypeOK /\ SaveInProgress /\ KeepsAVersion /\ StatusIsTrue
=============================================================================
