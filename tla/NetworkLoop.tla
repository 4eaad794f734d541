---------------------------- MODULE NetworkLoop ----------------------------
(***************************************************************************)
(* The device's WiFi: Network::Loop, which opens an access point of the    *)
(* device's own when the station has been without a network for Patience,  *)
(* and the Timer it measures that with. The clock, millis, wraps.          *)
(*                                                                         *)
(* A pass of Loop is one step. WiFi says whether there is a network; what  *)
(* the pass does with TCP clients, UDP and the web server is left out, and *)
(* the mode of the radio is that of enable_AP.                             *)
(***************************************************************************)
EXTENDS Integers

CONSTANTS
  Wrap,      \* 2^32
  Patience,  \* 15000
  MaxPass    \* the longest time from one pass to the next

\* What is assumed of them; MCDevice evaluates it.
NetworkLoopAssumption ==
  /\ Patience \in Nat /\ MaxPass \in Nat \ {0}
  /\ Wrap \in Nat /\ Patience + 2 * MaxPass < Wrap

VARIABLES
  millis,
  wifi,        \* whether WiFi.run answers WL_CONNECTED
  connected,
  enable_AP,
  timer,       \* STA_disconnected_timer
  since_pass,  \* the time since the last pass
  lost_for     \* history: the time since a pass found the network lost, -1 when not

vars == <<millis, wifi, connected, enable_AP, timer, since_pass, lost_for>>

\* Bound: lost_for is not counted further.
Long == Patience + 2 * MaxPass + 1

-----------------------------------------------------------------------------
(* Timer. *)

NewTimer == [running |-> FALSE, elapsedtime |-> 0, lasttime |-> 0]

\* Mutant of updateelapsed: the time from start on is that since the last update.
updateelapsed_NotAdded(t) ==
  LET last == IF t.lasttime > millis THEN 0 ELSE t.lasttime
  IN  [t EXCEPT !.elapsedtime = IF t.running THEN millis - last ELSE @,
                !.lasttime = millis]

\* After a wrap the time before it is forgotten.
updateelapsed(t) ==
  LET last == IF t.lasttime > millis THEN 0 ELSE t.lasttime
  IN  [t EXCEPT !.elapsedtime = IF t.running THEN (@ + millis - last) % Wrap ELSE @,
                !.lasttime = millis]

start(t) == [updateelapsed(t) EXCEPT !.running = TRUE]

stop(t) == [updateelapsed(t) EXCEPT !.running = FALSE]

reset(t) == [updateelapsed(t) EXCEPT !.elapsedtime = 0]

-----------------------------------------------------------------------------
Init ==
  /\ millis \in 0 .. Wrap - 1
  /\ wifi = FALSE
  /\ connected = FALSE /\ enable_AP = FALSE
  /\ timer = NewTimer
  /\ since_pass = 0 /\ lost_for = -1

\* Mutant of Online: the timer is stopped, but keeps what it has counted.
Online_NoReset ==
  /\ wifi
  /\ connected' = TRUE
  /\ IF ~ connected
       THEN /\ timer' = IF timer.running THEN stop(timer) ELSE timer
            /\ enable_AP' = FALSE
       ELSE UNCHANGED <<timer, enable_AP>>
  /\ since_pass' = 0 /\ lost_for' = -1
  /\ UNCHANGED <<millis, wifi>>

\* Loop, with a network: the first such pass closes the access point.
Online ==
  /\ wifi
  /\ connected' = TRUE
  /\ IF ~ connected
       THEN /\ timer' = IF timer.running THEN reset(stop(timer)) ELSE timer
            /\ enable_AP' = FALSE
       ELSE UNCHANGED <<timer, enable_AP>>
  /\ since_pass' = 0 /\ lost_for' = -1
  /\ UNCHANGED <<millis, wifi>>

\* Mutant of Offline: it takes the passes for those with a network.
Offline_StaysConnected ==
  /\ ~ wifi
  /\ LET started == IF timer.running THEN timer ELSE start(timer)
     IN  /\ timer' = IF enable_AP THEN started ELSE updateelapsed(started)
         /\ enable_AP' = (enable_AP \/ updateelapsed(started).elapsedtime > Patience)
  /\ since_pass' = 0
  /\ lost_for' = IF lost_for = -1 THEN 0 ELSE lost_for
  /\ UNCHANGED <<millis, wifi, connected>>

\* Loop, without a network. While there is an access point the timer is not asked.
Offline ==
  /\ ~ wifi
  /\ connected' = FALSE
  /\ LET started == IF timer.running THEN timer ELSE start(timer)
     IN  /\ timer' = IF enable_AP THEN started ELSE updateelapsed(started)
         /\ enable_AP' = (enable_AP \/ updateelapsed(started).elapsedtime > Patience)
  /\ since_pass' = 0
  /\ lost_for' = IF lost_for = -1 THEN 0 ELSE lost_for
  /\ UNCHANGED <<millis, wifi>>

Tick ==
  /\ since_pass < MaxPass
  /\ millis' = (millis + 1) % Wrap
  /\ since_pass' = since_pass + 1
  /\ lost_for' = IF lost_for \in 0 .. Long - 1 THEN lost_for + 1 ELSE lost_for
  /\ UNCHANGED <<wifi, connected, enable_AP, timer>>

\* A network comes or goes, at any time.
Change ==
  /\ wifi' = ~ wifi
  /\ UNCHANGED <<millis, connected, enable_AP, timer, since_pass, lost_for>>

Next == Online \/ Offline \/ Tick \/ Change

Spec == Init /\ [][Next]_vars

-----------------------------------------------------------------------------
(* Properties. *)

\* Types. The access point is open in offline times only.
TypeOK ==
  /\ millis \in 0 .. Wrap - 1
  /\ wifi \in BOOLEAN /\ connected \in BOOLEAN /\ enable_AP \in BOOLEAN
  /\ timer \in [running : BOOLEAN, elapsedtime : 0 .. Wrap - 1, lasttime : 0 .. Wrap - 1]
  /\ since_pass \in 0 .. MaxPass
  /\ lost_for \in -1 .. Long
  /\ enable_AP => ~ connected

\* The access point opens only after the network has been lost for more than
\* Patience without a break that a pass has seen, however often it has been lost
\* before and whether or not the clock has wrapped meanwhile (Loop, Timer).
NotTooEarly == enable_AP => lost_for > Patience

\* The pass that finds the network lost for longer than Patience opens it; a wrap
\* of the clock delays it by one pass at most.
NotTooLate == since_pass = 0 /\ lost_for > Patience + MaxPass => enable_AP

\* A device without a network can be reached through its access point in time, and
\* one with a network does not open it (Network.cpp, Loop).
AccessPointInTime == NotTooEarly /\ NotTooLate
=============================================================================
