---------------------------- MODULE StoredValues ----------------------------
(***************************************************************************)
(* Values of a device that can be changed and are kept in files            *)
(* (IO_SaveableValue.h): Set from a command or from the device's own web   *)
(* page, Set_NoSave, and what is read when the device is switched on.      *)
(* Power may be lost at any time.                                          *)
(*                                                                         *)
(* The device has one thread, so one Set is in progress at a time. It is   *)
(* done in steps, because of what a power loss leaves of a file.           *)
(*                                                                         *)
(* Simplifications:                                                        *)
(* - A value is written whole or not at all, and has no memory of what it  *)
(*   was before the power loss.                                            *)
(* - Programs are not exchanged: the list of values is always the same.    *)
(*   InitializeSaveables looks for the files of other programs in a        *)
(*   directory where there are none, and removes nothing.                  *)
(***************************************************************************)
EXTENDS Integers

CONSTANTS
  Saveable,   \* the indices of saveable_members
  Name,       \* names of files, cut to the length that SPIFFS can do
  SafeName,   \* the name of each value: they may be the same when cut
  Data,       \* what a value can be
  Initial,    \* what a value is before anything is read
  MaxFaults   \* bound: power losses and failures of the file system

\* A file that there is not, and one that was opened and not written.
Absent == "absent"
Empty == "empty"

\* What is assumed of the constants; MCDevice evaluates it.
StoredValuesAssumption ==
  /\ Saveable \subseteq Nat
  /\ SafeName \in [Saveable -> Name]
  /\ Initial \in Data
  /\ {Absent, Empty} \cap Data = {}
  /\ MaxFaults \in Nat

VARIABLES
  value,     \* of each saveable
  file,      \* what each file holds
  setting,   \* the Set in progress: the saveable and how far it is
  saved,     \* history: what the last Set of each that ended has set
  spoiled,   \* history: saveables with a Set that was cut off or that failed
  faults

vars == <<value, file, setting, saved, spoiled, faults>>

NoSet == [of |-> -1, at |-> "none"]

\* Mutant of file_name: the index is left out.
file_name_Cut(i) == <<-1, SafeName[i]>>

\* The index is a directory of its own for each value.
file_name(i) == <<i, SafeName[i]>>

File == ({-1} \cup Saveable) \X Name

Init ==
  /\ value = [i \in Saveable |-> Initial]
  /\ file = [f \in File |-> Absent]
  /\ setting = NoSet
  /\ saved = value
  /\ spoiled = {}
  /\ faults = 0

Fault == faults < MaxFaults /\ faults' = faults + 1

-----------------------------------------------------------------------------
(* Set, from a command or a web page. *)

\* The value is changed; the file is opened, which empties it.
Set(i, x) ==
  /\ setting = NoSet
  /\ value' = [value EXCEPT ![i] = x]
  /\ file' = [file EXCEPT ![file_name(i)] = Empty]
  /\ setting' = [of |-> i, at |-> "write"]
  /\ UNCHANGED <<saved, spoiled, faults>>

\* Mutant of Write: what is written is what the value was when the last Set ended.
Write_Old ==
  /\ setting.at = "write"
  /\ \/ file' = [file EXCEPT ![file_name(setting.of)] = saved[setting.of]]
     \/ UNCHANGED file
  /\ setting' = [setting EXCEPT !.at = "close"]
  /\ UNCHANGED <<value, saved, spoiled, faults>>

\* What is written is in the file now or when it is closed.
Write ==
  /\ setting.at = "write"
  /\ \/ file' = [file EXCEPT ![file_name(setting.of)] = value[setting.of]]
     \/ UNCHANGED file
  /\ setting' = [setting EXCEPT !.at = "close"]
  /\ UNCHANGED <<value, saved, spoiled, faults>>

Close ==
  LET i == setting.of
  IN  /\ setting.at = "close"
      /\ file' = [file EXCEPT ![file_name(i)] = IF @ = Empty THEN value[i] ELSE @]
      /\ setting' = NoSet
      /\ saved' = [saved EXCEPT ![i] = value[i]]
      /\ spoiled' = spoiled \ {i}
      /\ UNCHANGED <<value, faults>>

\* The file cannot be opened, and stays as it is.
OpenFails(i, x) ==
  /\ Fault
  /\ setting = NoSet
  /\ value' = [value EXCEPT ![i] = x]
  /\ spoiled' = spoiled \cup {i}
  /\ UNCHANGED <<file, setting, saved>>

\* There is no room to write it. Nobody looks at what write returns.
WriteFails ==
  /\ Fault
  /\ setting.at = "write"
  /\ setting' = NoSet
  /\ spoiled' = spoiled \cup {setting.of}
  /\ UNCHANGED <<value, file, saved>>

Set_NoSave(i, x) ==
  /\ setting = NoSet
  /\ value' = [value EXCEPT ![i] = x]
  /\ UNCHANGED <<file, setting, saved, spoiled, faults>>

-----------------------------------------------------------------------------
(* Power is lost, and the device starts: InitializeSaveables. *)

\* ReadFromFile. From an empty file nothing is read, and the value becomes what
\* the local variable happens to be.
ReadFromFile(i) ==
  CASE file[file_name(i)] = Absent -> {Initial}
    [] file[file_name(i)] = Empty  -> Data
    [] OTHER                       -> {file[file_name(i)]}

Restart ==
  /\ Fault
  /\ value' \in {v \in [Saveable -> Data] : \A i \in Saveable : v[i] \in ReadFromFile(i)}
  /\ spoiled' = spoiled \cup ({setting.of} \cap Saveable)
  /\ setting' = NoSet
  /\ UNCHANGED <<file, saved>>

Next ==
  \/ \E i \in Saveable, x \in Data : Set(i, x) \/ OpenFails(i, x) \/ Set_NoSave(i, x)
  \/ Write \/ Close \/ WriteFails \/ Restart

Spec == Init /\ [][Next]_vars

-----------------------------------------------------------------------------
(* Properties. *)

\* Types. Files belong to saveables, and only a file that is being written, or
\* was spoiled, is empty.
TypeOK ==
  /\ value \in [Saveable -> Data] /\ saved \in [Saveable -> Data]
  /\ file \in [File -> Data \cup {Absent, Empty}]
  /\ setting \in [of : {-1} \cup Saveable, at : {"none", "write", "close"}]
  /\ spoiled \subseteq Saveable /\ faults \in 0 .. MaxFaults
  /\ \A f \in File : file[f] # Absent => \E i \in Saveable : f = file_name(i)
  /\ \A i \in Saveable : file[file_name(i)] = Empty => i \in spoiled \cup {setting.of}

\* Whenever the power is lost: each value is afterwards what was set last, except
\* the one that was being set, and those whose last Set has failed. No Set harms
\* another value, and none that has ended is lost.
OthersSurvive ==
  [][Restart => \A i \in Saveable \ spoiled' : value'[i] = saved[i]]_vars
=============================================================================
