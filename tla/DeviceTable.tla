----------------------------- MODULE DeviceTable -----------------------------
(***************************************************************************)
(* What the Center's device list promises: every device has one place in   *)
(* it, a place is never given to another device while the program runs,    *)
(* and the database never forgets a device.                                *)
(***************************************************************************)
EXTENDS Sequences, SequencesExt

CONSTANT Devices

VARIABLES
  table,  \* the devices, in the order of their places
  stored  \* the devices in the database

Init ==
  /\ table = <<>>
  /\ stored = {}

\* Devices are written to the database: what is committed together comes at once.
Store ==
  /\ \E new \in SUBSET Devices : stored' = stored \cup new
  /\ UNCHANGED table

\* A device gets the next place.
Enter ==
  /\ \E d \in Devices : d \notin Range(table) /\ table' = Append(table, d)
  /\ UNCHANGED stored

\* The program restarts.
Restart ==
  /\ table' = <<>>
  /\ UNCHANGED stored

Next == Store \/ Enter \/ Restart

Spec == Init /\ [][Next]_<<table, stored>>
=============================================================================
