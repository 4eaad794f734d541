------------------------------ MODULE Repeater ------------------------------
(***************************************************************************)
(* Repeater of the device (ESP_Utilities): what is to be done every        *)
(* timedelay milliseconds is asked for by repeatnow. The device's only one *)
(* is udp_timer, which is asked in the passes of LoopUDP in which there is *)
(* no TCP client: there may be hours between two calls. The device's       *)
(* clock, millis, wraps at 2^32, after 49 days.                            *)
(*                                                                         *)
(* Left out: the constructor without a delay, remaining and reset, which   *)
(* nothing calls.                                                          *)
(***************************************************************************)
EXTENDS Integers

CONSTANTS
  Wrap,       \* 2^32
  timedelay,
  Horizon,    \* bound: the time that is looked at
  MaxExecutions  \* bound

\* What is assumed of them; MCDevice evaluates it.
RepeaterAssumption ==
  /\ Wrap \in Nat \ {0}
  /\ timedelay \in Nat \ {0}
  /\ Horizon \in Nat /\ MaxExecutions \in Nat

VARIABLES
  started,         \* when the repeater was made
  now,             \* the time since the device was switched on, which does not wrap
  timeofnextexec,
  asked,           \* history: when repeatnow was called last
  answer,          \* history: what it returned then
  executions       \* history: how often it has returned true

vars == <<started, now, timeofnextexec, asked, answer, executions>>

Init ==
  /\ started \in 0 .. timedelay
  /\ now = started
  /\ timeofnextexec = (started + timedelay) % Wrap
  /\ asked = started /\ answer = FALSE
  /\ executions = 0

millis == now % Wrap

\* Mutant of Following: the delay is counted from the call, not from the time that
\* was due.
Following_FromNow == (millis + timedelay) % Wrap

\* Mutant of Following: a number that does not wrap.
Following_NoWrap == timeofnextexec + timedelay

\* The time of the execution after this one.
Following == (timeofnextexec + timedelay) % Wrap

\* repeatnow, with the comparison as it is.
repeatnow ==
  /\ executions < MaxExecutions
  /\ asked' = now
  /\ IF timeofnextexec <= millis
       THEN /\ timeofnextexec' = Following
            /\ executions' = executions + 1
            /\ answer' = TRUE
       ELSE /\ answer' = FALSE
            /\ UNCHANGED <<timeofnextexec, executions>>
  /\ UNCHANGED <<started, now>>

\* Time passes.
Tick ==
  /\ now < Horizon
  /\ now' = now + 1
  /\ UNCHANGED <<started, timeofnextexec, asked, answer, executions>>

Next == repeatnow \/ Tick

Spec == Init /\ [][Next]_vars

-----------------------------------------------------------------------------
(* Properties. *)

\* Types.
TypeOK ==
  /\ started \in 0 .. timedelay
  /\ now \in started .. Horizon + timedelay /\ asked \in started .. now
  /\ timeofnextexec \in 0 .. Wrap - 1
  /\ answer \in BOOLEAN /\ executions \in Nat

\* Nothing is executed before it is due, and a call that returns false leaves
\* nothing that is due: late calls neither lose an execution nor move later ones.
OnSchedule ==
  /\ started + timedelay * executions <= asked
  /\ ~ answer => asked < started + timedelay * (executions + 1)

\* While the clock has not wrapped, and the next time is not behind the wrap.
BeforeWrap == now + timedelay < Wrap

OnScheduleBeforeWrap == BeforeWrap => OnSchedule
=============================================================================
