--------------------------- MODULE CommandStream ---------------------------
(***************************************************************************)
(* Commands in one direction of a TCP connection between Center and        *)
(* device: the sender writes a header (length and id) and the message; the *)
(* network cuts the bytes wherever it likes; the reader, which is          *)
(* command_available on the device and tryDecode on the Center, finds the  *)
(* commands in what has arrived.                                           *)
(*                                                                         *)
(* A byte is its place in the stream, from 1 on. What a reader takes for a *)
(* header is the header of a command if it begins where that one begins,   *)
(* and Garbage otherwise.                                                  *)
(*                                                                         *)
(* Simplifications:                                                        *)
(* - TLS is transparent: what has arrived is available.                    *)
(* - A sender writes as many bytes as its header says, and a length is     *)
(*   never negative.                                                       *)
(***************************************************************************)
EXTENDS Integers, Sequences

CONSTANTS
  header_length,  \* 6: an int32 and an int16
  Lengths,        \* the lengths of messages
  MaxSent,        \* bound: commands sent
  Garbage

ASSUME StreamAssumption ==
  /\ header_length \in Nat \ {0}
  /\ Lengths \subseteq Nat
  /\ MaxSent \in Nat
  /\ Garbage \notin Nat

VARIABLES
  reader,            \* "device" or "center"
  ends,              \* where each command ends that was sent
  arrived,           \* bytes that have arrived
  position,          \* bytes that have been read
  cut,               \* the connection is cut: nothing arrives any more
  in_call,           \* the device is in the loop of command_available
  new_command_read,  \* the device has no header without its message
  command,           \* the header it has
  received           \* history: the commands received

vars == <<reader, ends, arrived, position, cut, in_call, new_command_read, command, received>>
device == <<in_call, new_command_read, command>>

-----------------------------------------------------------------------------
(* The stream. *)

Start(n) == IF n = 1 THEN 0 ELSE ends[n - 1]

Written == IF ends = <<>> THEN 0 ELSE ends[Len(ends)]

available == arrived - position

message_length(n) == IF n = Garbage THEN 0 ELSE ends[n] - Start(n) - header_length

\* What is read as a header from p on.
HeaderAt(p) ==
  IF \E n \in DOMAIN ends : Start(n) = p THEN CHOOSE n \in DOMAIN ends : Start(n) = p
                                         ELSE Garbage

Init ==
  /\ reader \in {"device", "center"}
  /\ ends = <<>> /\ arrived = 0 /\ position = 0
  /\ cut = FALSE
  /\ in_call = FALSE /\ new_command_read = TRUE /\ command = Garbage
  /\ received = <<>>

\* toBuffer, send_command_header.
Write(length) ==
  /\ Len(ends) < MaxSent /\ ~ cut
  /\ ends' = Append(ends, Written + header_length + length)
  /\ UNCHANGED <<reader, arrived, position, cut, device, received>>

Arrive ==
  /\ ~ cut
  /\ \E n \in arrived + 1 .. Written : arrived' = n
  /\ UNCHANGED <<reader, ends, position, cut, device, received>>

Cut ==
  /\ ~ cut
  /\ cut' = TRUE
  /\ UNCHANGED <<reader, ends, arrived, position, device, received>>

-----------------------------------------------------------------------------
(* The device: command_available, one pass of its loop at a time. Where no   *)
(* action is enabled in the loop, it spins until more bytes have arrived.    *)

Call ==
  /\ reader = "device" /\ ~ in_call
  /\ in_call' = TRUE
  /\ UNCHANGED <<reader, ends, arrived, position, cut, new_command_read, command, received>>

\* Mutant of ReadHeader: a header is read from whatever is there.
ReadHeader_Unchecked ==
  /\ in_call /\ new_command_read
  /\ available > 0
  /\ command' = HeaderAt(position)
  /\ position' = position + header_length
  /\ new_command_read' = FALSE
  /\ UNCHANGED <<reader, ends, arrived, cut, in_call, received>>

ReadHeader ==
  /\ in_call /\ new_command_read
  /\ available >= header_length
  /\ command' = HeaderAt(position)
  /\ position' = position + header_length
  /\ new_command_read' = FALSE
  /\ UNCHANGED <<reader, ends, arrived, cut, in_call, received>>

\* Mutant of ReadMessage: what is there is taken for the message.
ReadMessage_Partial ==
  /\ in_call /\ ~ new_command_read
  /\ available > 0
  /\ position' = IF available >= message_length(command) THEN position + message_length(command)
                                                         ELSE arrived
  /\ new_command_read' = TRUE
  /\ in_call' = FALSE
  /\ received' = Append(received, command)
  /\ UNCHANGED <<reader, ends, arrived, cut, command>>

\* Mutant of ReadMessage: a byte more than the message is waited for.
ReadMessage_OneMore ==
  /\ in_call /\ ~ new_command_read
  /\ available > message_length(command)
  /\ position' = position + message_length(command)
  /\ new_command_read' = TRUE
  /\ in_call' = FALSE
  /\ received' = Append(received, command)
  /\ UNCHANGED <<reader, ends, arrived, cut, command>>

\* Mutant of ReadMessage: it is not asked how much of the message is there.
ReadMessage_Unwhole ==
  /\ in_call /\ ~ new_command_read
  /\ available > 0
  /\ position' = position + message_length(command)
  /\ new_command_read' = TRUE
  /\ in_call' = FALSE
  /\ received' = Append(received, command)
  /\ UNCHANGED <<reader, ends, arrived, cut, command>>

\* The loop looks for more bytes before it looks at the length: a message of no
\* bytes waits for a byte of the next command.
ReadMessage ==
  /\ in_call /\ ~ new_command_read
  /\ available > 0 /\ available >= message_length(command)
  /\ position' = position + message_length(command)
  /\ new_command_read' = TRUE
  /\ in_call' = FALSE
  /\ received' = Append(received, command)
  /\ UNCHANGED <<reader, ends, arrived, cut, command>>

\* There is nothing, or not enough for a header.
ReturnFalse ==
  /\ in_call
  /\ available = 0 \/ (new_command_read /\ available < header_length)
  /\ in_call' = FALSE
  /\ UNCHANGED <<reader, ends, arrived, position, cut, new_command_read, command, received>>

Loop == Call \/ ReadHeader \/ ReadMessage \/ ReturnFalse

-----------------------------------------------------------------------------
(* The Center. *)

\* Mutant of doDecode: a byte more than the message is waited for.
doDecode_OneMore ==
  LET header == HeaderAt(position)
  IN  /\ reader = "center"
      /\ available >= header_length
      /\ available - header_length > message_length(header)
      /\ position' = position + header_length + message_length(header)
      /\ received' = Append(received, header)
      /\ UNCHANGED <<reader, ends, arrived, cut, device>>

\* doDecode with tryDecode, which CumulativeProtocolDecoder calls until it
\* returns false. If the message is not there yet, the position is put back.
doDecode ==
  LET header == HeaderAt(position)
  IN  /\ reader = "center"
      /\ available >= header_length
      /\ available - header_length >= message_length(header)
      /\ position' = position + header_length + message_length(header)
      /\ received' = Append(received, header)
      /\ UNCHANGED <<reader, ends, arrived, cut, device>>

Next ==
  \/ \E length \in Lengths : Write(length)
  \/ Arrive \/ Cut
  \/ Loop \/ doDecode

\* The network delivers until it is cut; the device's program calls again and
\* again; the Center decodes what has arrived.
Fairness == WF_vars(Arrive) /\ WF_vars(Loop) /\ WF_vars(doDecode)

Spec == Init /\ [][Next]_vars

FairSpec == Spec /\ Fairness

-----------------------------------------------------------------------------
(* Properties. *)

\* Types. What has been read has arrived, and what has arrived was written.
TypeOK ==
  /\ reader \in {"device", "center"}
  /\ ends \in Seq(Nat)
  /\ position \in 0 .. arrived /\ arrived \in 0 .. Written
  /\ cut \in BOOLEAN /\ in_call \in BOOLEAN /\ new_command_read \in BOOLEAN
  /\ command \in Nat \cup {Garbage}
  /\ received \in Seq(Nat \cup {Garbage})

\* In order, every command once, and nothing else: wherever the network cuts.
InOrder == \A n \in DOMAIN received : received[n] = n

\* The commands of which bytes are missing, and those that are there to be
\* received: by their bytes, and by what the reader has taken them for.
OnTheWay == {n \in DOMAIN ends : ends[n] > arrived}
Waiting == {n \in DOMAIN ends : ends[n] <= arrived} \ {received[i] : i \in DOMAIN received}

Abstract == INSTANCE CommandFifo WITH
  sent <- Len(ends), line <- OnTheWay, inbox <- Waiting, ended <- cut

\* Both readers implement the queue of whole commands: what they take from the
\* stream is the oldest command of which the last byte has arrived, and the end
\* of the connection does not change that (command_available, tryDecode).
ImplementsFifo == Abstract!Fifo

\* A command that has arrived whole, with a message, is received; one without
\* a message once anything has arrived after it.
CommandsReceived ==
  \A n \in 1 .. MaxSent :
    (n <= Len(ends) /\ arrived >= ends[n]
       /\ (reader = "center" \/ message_length(n) > 0 \/ arrived > ends[n]))
      ~> Len(received) >= n

\* command_available always returns, unless the connection was cut in the
\* middle of a message.
LoopEnds == in_call ~> ~ in_call \/ cut
=============================================================================
