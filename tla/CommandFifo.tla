---------------------------- MODULE CommandFifo ----------------------------
(***************************************************************************)
(* What the command codecs of Center and device promise of a connection:   *)
(* a command is received only when it has arrived whole, in the order in   *)
(* which the commands were sent, once, and as the command it was sent as;  *)
(* the end of a connection takes the newest commands, never one between    *)
(* others. Commands are numbered as they are sent.                         *)
(***************************************************************************)
EXTENDS Naturals, Sequences

VARIABLES
  sent,      \* how many have been sent
  line,      \* commands sent of which something is still on its way
  inbox,     \* commands that have arrived whole and are not received
  received,  \* the commands received, as the receiver took them
  ended      \* the connection has ended

fifo == <<sent, line, inbox, received, ended>>

FifoInit == sent = 0 /\ line = {} /\ inbox = {} /\ received = <<>> /\ ended = FALSE

Send ==
  /\ ~ ended
  /\ sent' = sent + 1
  /\ line' = line \cup {sent + 1}
  /\ UNCHANGED <<inbox, received, ended>>

\* The oldest commands arrive first.
Deliver ==
  /\ ~ ended
  /\ \E oldest \in SUBSET line :
       /\ \A m \in oldest, n \in line \ oldest : m < n
       /\ line' = line \ oldest
       /\ inbox' = inbox \cup oldest
  /\ UNCHANGED <<sent, received, ended>>

\* The oldest command of the inbox is received.
Receive ==
  /\ \E n \in inbox :
       /\ \A m \in inbox : n <= m
       /\ inbox' = inbox \ {n}
       /\ received' = Append(received, n)
  /\ UNCHANGED <<sent, line, ended>>

\* What is still on its way is lost.
End ==
  /\ ~ ended
  /\ ended' = TRUE
  /\ UNCHANGED <<sent, line, inbox, received>>

FifoNext == Send \/ Deliver \/ Receive \/ End

Fifo == FifoInit /\ [][FifoNext]_fifo
=============================================================================
