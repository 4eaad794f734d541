------------------------------ MODULE MCDevice ------------------------------
(***************************************************************************)
(* Instances of the parts of the device for TLC: CommandStream (with the   *)
(* Center's end of the connection), Repeater, NetworkLoop, StoredValues.   *)
(*                                                                         *)
(* The parts share no state. So a behaviour is one of one part, while the  *)
(* others rest, and the states to check are the sum of those of the parts. *)
(***************************************************************************)
EXTENDS CommandStream

CONSTANTS
  RepeaterWrap, timedelay, Horizon, MaxExecutions,  \* Repeater
  WiFiWrap, Patience, MaxPass,                      \* NetworkLoop
  Saveable, Name, Data, Initial, MaxFaults          \* StoredValues

VARIABLES
  part,                                                            \* the part that moves
  started, now, timeofnextexec, asked, answer, executions,         \* Repeater
  millis, wifi, connected, enable_AP, timer, since_pass, lost_for, \* NetworkLoop
  value, file, setting, saved, spoiled, faults                     \* StoredValues

\* Names that are the same when they are cut.
MCSafeName == [i \in Saveable |-> CHOOSE n \in Name : TRUE]

Clock == INSTANCE Repeater WITH Wrap <- RepeaterWrap
WiFi  == INSTANCE NetworkLoop WITH Wrap <- WiFiWrap
Files == INSTANCE StoredValues WITH SafeName <- MCSafeName

\* What the parts assume of their constants, beside CommandStream.
ASSUME PartsAssumption ==
  Clock!RepeaterAssumption /\ WiFi!NetworkLoopAssumption /\ Files!StoredValuesAssumption

clock_vars == <<started, now, timeofnextexec, asked, answer, executions>>
wifi_vars == <<millis, wifi, connected, enable_AP, timer, since_pass, lost_for>>
file_vars == <<value, file, setting, saved, spoiled, faults>>
MCvars == <<part, vars, clock_vars, wifi_vars, file_vars>>

\* What rests, rests in one state.
MCInit ==
  /\ part \in {"stream", "clock", "wifi", "files"}
  /\ Init /\ Clock!Init /\ WiFi!Init /\ Files!Init
  /\ part # "stream" => reader = "device"
  /\ part # "clock" => started = 0
  /\ part # "wifi" => millis = 0

MCNext ==
  \/ part = "stream" /\ Next /\ UNCHANGED <<part, clock_vars, wifi_vars, file_vars>>
  \/ part = "clock" /\ Clock!Next /\ UNCHANGED <<part, vars, wifi_vars, file_vars>>
  \/ part = "wifi" /\ WiFi!Next /\ UNCHANGED <<part, vars, clock_vars, file_vars>>
  \/ part = "files" /\ Files!Next /\ UNCHANGED <<part, vars, clock_vars, wifi_vars>>

\* The fairness of CommandStream, while it is the part that moves.
InStream(A) == part = "stream" /\ A
MCFairness ==
  WF_vars(InStream(Arrive)) /\ WF_vars(InStream(Loop)) /\ WF_vars(InStream(doDecode))

MCSpec == MCInit /\ [][MCNext]_MCvars /\ MCFairness

-----------------------------------------------------------------------------
(* Properties, beside those of CommandStream.                               *)

\* The types of all parts, with what belongs together in each.
TypesOK == TypeOK /\ Clock!TypeOK /\ WiFi!TypeOK /\ Files!TypeOK

\* repeatnow executes nothing early and loses nothing, until the clock wraps
\* (Repeater).
OnScheduleBeforeWrap == Clock!OnScheduleBeforeWrap

\* The access point opens neither early nor late, wraps or not (NetworkLoop).
AccessPointInTime == WiFi!AccessPointInTime

\* A power loss harms only the value that is being set (StoredValues).
OthersSurvive == Files!OthersSurvive
=============================================================================
