---------------------------- MODULE Device_proofs ----------------------------
(***************************************************************************)
(* Proofs about the parts of the device, for any lengths of header and     *)
(* messages, any clocks, delays, values and numbers of faults: each part   *)
(* by itself (CommandStream, Repeater, NetworkLoop, StoredValues), and     *)
(* then as MCDevice puts them side by side.                                *)
(***************************************************************************)
EXTENDS MCDevice, SequenceTheorems, TLAPS

-----------------------------------------------------------------------------
(* CommandStream. The invariant says where the position is: at the end of    *)
(* the last command received, or behind the header of the next.              *)

\* Where the n-th command ends; the stream begins behind no command.
End(n) == IF n = 0 THEN 0 ELSE ends[n]

\* Each command needs the bytes of its header at least.
Ordered ==
  /\ \A n \in DOMAIN ends : ends[n] >= header_length
  /\ \A m, n \in DOMAIN ends : m < n => ends[m] + header_length <= ends[n]

\* The reader's place.
InPlace ==
  /\ Len(received) <= Len(ends)
  /\ new_command_read => position = End(Len(received))
  /\ ~ new_command_read =>
       /\ Len(received) < Len(ends)
       /\ command = Len(received) + 1
       /\ position = End(Len(received)) + header_length
  /\ reader = "center" => new_command_read /\ ~ in_call

IInv == TypeOK /\ Ordered /\ InPlace /\ InOrder

-----------------------------------------------------------------------------
(* The stream. *)

\* The sequence of ends, and what has been written.
LEMMA EndsFacts ==
  ASSUME TypeOK, Ordered
  PROVE  /\ DOMAIN ends = 1 .. Len(ends) /\ Len(ends) \in Nat
         /\ \A n \in 1 .. Len(ends) : ends[n] \in Nat /\ ends[n] <= Written
         /\ \A n \in 0 .. Len(ends) : End(n) \in Nat /\ End(n) <= Written
         /\ \A n \in 1 .. Len(ends) : Start(n) = End(n - 1) /\ Start(n) + header_length <= ends[n]
         /\ Written = End(Len(ends)) /\ Written \in Nat
<1> USE StreamAssumption
<1>1. DOMAIN ends = 1 .. Len(ends) /\ Len(ends) \in Nat
  BY DEF TypeOK
<1>2. \A n \in 1 .. Len(ends) : ends[n] \in Nat
  BY <1>1 DEF TypeOK
<1>3. Written = End(Len(ends))
  BY <1>1 DEF Written, End, TypeOK
<1>4. Written \in Nat
  BY <1>1, <1>2, <1>3, SMT DEF End
<1>5. \A n \in 1 .. Len(ends) : ends[n] <= Written
  BY <1>1, <1>2, <1>3, SMT DEF End, Ordered
<1>6. \A n \in 0 .. Len(ends) : End(n) \in Nat /\ End(n) <= Written
  BY <1>1, <1>2, <1>4, <1>5, SMT DEF End
<1>7. \A n \in 1 .. Len(ends) : Start(n) = End(n - 1)
  BY <1>1, SMT DEF Start, End
<1>8. \A n \in 1 .. Len(ends) : Start(n) + header_length <= ends[n]
  <2> SUFFICES ASSUME NEW n \in 1 .. Len(ends) PROVE Start(n) + header_length <= ends[n]
    OBVIOUS
  <2>1. CASE n = 1
    BY <1>1, <1>2, <2>1, SMT DEF Start, Ordered
  <2>2. CASE n # 1
    <3>1. n - 1 \in DOMAIN ends /\ n \in DOMAIN ends /\ n - 1 < n
      BY <1>1, <2>2, SMT
    <3>2. ends[n - 1] + header_length <= ends[n]
      BY <3>1 DEF Ordered
    <3> QED
      BY <2>2, <3>2 DEF Start
  <2> QED
    BY <2>1, <2>2
<1> QED
  BY <1>1, <1>2, <1>3, <1>4, <1>5, <1>6, <1>7, <1>8

\* At the end of the k-th command, what is read as a header is the next one's.
LEMMA HeaderFound ==
  ASSUME TypeOK, Ordered, NEW k \in 0 .. Len(ends), End(k) + header_length <= arrived
  PROVE  /\ k < Len(ends)
         /\ HeaderAt(End(k)) = k + 1
         /\ message_length(k + 1) = ends[k + 1] - End(k) - header_length
         /\ message_length(k + 1) \in Nat
<1> USE StreamAssumption
<1>1. k < Len(ends)
  BY EndsFacts, SMT DEF TypeOK
<1>2. k + 1 \in DOMAIN ends /\ Start(k + 1) = End(k)
  BY <1>1, EndsFacts, SMT
<1>3. ASSUME NEW n \in DOMAIN ends, Start(n) = End(k) PROVE n = k + 1
  <2>1. n \in 1 .. Len(ends) /\ Start(n) = End(n - 1)
    BY EndsFacts
  <2>2. n - 1 \in 0 .. Len(ends) /\ End(n - 1) = End(k)
    BY <1>3, <2>1, SMT
  <2>3. ASSUME NEW i \in 0 .. Len(ends), NEW j \in 0 .. Len(ends), i < j PROVE End(i) < End(j)
    <3>1. CASE i = 0
      BY <2>3, <3>1, EndsFacts, SMT DEF End, Ordered
    <3>2. CASE i # 0
      <4>1. i \in DOMAIN ends /\ j \in DOMAIN ends /\ i # 0 /\ j # 0
        BY <2>3, <3>2, EndsFacts, SMT
      <4>2. ends[i] + header_length <= ends[j]
        BY <2>3, <4>1 DEF Ordered
      <4>3. ends[i] \in Nat /\ ends[j] \in Nat
        BY <4>1, EndsFacts
      <4> QED
        BY <4>1, <4>2, <4>3, SMT DEF End
    <3> QED
      BY <3>1, <3>2
  <2>4. End(k) \in Nat
    BY EndsFacts
  <2> QED
    BY <2>1, <2>2, <2>3, <2>4, SMT
<1>4. HeaderAt(End(k)) = k + 1
  BY <1>2, <1>3 DEF HeaderAt
<1>5. k + 1 # Garbage
  BY <1>1
<1>6. message_length(k + 1) = ends[k + 1] - End(k) - header_length
  BY <1>2, <1>5 DEF message_length
<1>7. message_length(k + 1) \in Nat
  BY <1>1, <1>2, <1>6, EndsFacts, SMT
<1> QED
  BY <1>1, <1>4, <1>6, <1>7

-----------------------------------------------------------------------------
(* The invariant. *)

LEMMA InitIInv == Init => IInv
<1> SUFFICES ASSUME Init PROVE IInv
  OBVIOUS
<1>1. /\ ends = <<>> /\ received = <<>> /\ position = 0 /\ arrived = 0
      /\ new_command_read = TRUE /\ in_call = FALSE /\ cut = FALSE
      /\ command = Garbage /\ reader \in {"device", "center"}
  BY DEF Init
<1>2. Written = 0 /\ Len(ends) = 0 /\ Len(received) = 0 /\ DOMAIN ends = {} /\ DOMAIN received = {}
  BY <1>1 DEF Written
<1>3. position \in 0 .. arrived /\ arrived \in 0 .. Written
  BY <1>1, <1>2, SMT
<1>4. ends \in Seq(Nat) /\ received \in Seq(Nat \cup {Garbage})
  BY <1>1
<1>5. TypeOK
  BY <1>1, <1>3, <1>4, Zenon DEF TypeOK
<1>6. Ordered /\ InOrder
  BY <1>2 DEF Ordered, InOrder
<1>7. Len(received) <= Len(ends)
  BY <1>2, SMT
<1>8. InPlace
  BY <1>1, <1>2, <1>7 DEF InPlace, End
<1> QED
  BY <1>5, <1>6, <1>8 DEF IInv

\* A new command is behind all others.
LEMMA WriteIInv ==
  ASSUME IInv, NEW length \in Lengths, Write(length)
  PROVE  IInv'
<1> USE StreamAssumption
<1> DEFINE e == Written + header_length + length
<1>1. TypeOK /\ Ordered /\ InPlace /\ InOrder
  BY DEF IInv
<1>2. ends \in Seq(Nat) /\ length \in Nat /\ e \in Nat
  BY <1>1, EndsFacts, SMT DEF TypeOK
<1>3. ends' = Append(ends, e)
  BY DEF Write
<1>4. /\ Len(ends') = Len(ends) + 1 /\ ends' \in Seq(Nat)
      /\ DOMAIN ends' = 1 .. Len(ends) + 1
      /\ \A n \in 1 .. Len(ends) : ends'[n] = ends[n]
      /\ ends'[Len(ends) + 1] = e
  BY <1>2, <1>3
<1>5. Len(ends) \in Nat
  BY <1>1, EndsFacts
<1>6. Written' = e
  <2>1. ends' # <<>>
    BY <1>4, <1>5, SMT
  <2> QED
    BY <2>1, <1>4 DEF Written
<1>7. UNCHANGED <<reader, arrived, position, cut, in_call, new_command_read, command, received>>
  BY DEF Write, device
<1>8. TypeOK'
  BY <1>1, <1>2, <1>4, <1>6, <1>7, EndsFacts, SMT DEF TypeOK
<1>9. Ordered'
  <2>1. ASSUME NEW n \in DOMAIN ends' PROVE ends'[n] >= header_length
    <3>1. CASE n = Len(ends) + 1
      BY <1>1, <1>2, <1>4, <3>1, EndsFacts, SMT
    <3>2. CASE n # Len(ends) + 1
      <4>1. n \in DOMAIN ends /\ ends'[n] = ends[n]
        BY <1>1, <1>4, <1>5, <3>2, EndsFacts, SMT
      <4> QED
        BY <1>1, <4>1 DEF Ordered
    <3> QED
      BY <3>1, <3>2
  <2>2. ASSUME NEW m \in DOMAIN ends', NEW n \in DOMAIN ends', m < n
        PROVE  ends'[m] + header_length <= ends'[n]
    <3>1. m \in DOMAIN ends /\ ends'[m] = ends[m]
      BY <1>1, <1>4, <1>5, <2>2, EndsFacts, SMT
    <3>2. CASE n = Len(ends) + 1
      <4>1. ends[m] \in Nat /\ ends[m] <= Written /\ Written \in Nat
        BY <1>1, <3>1, EndsFacts
      <4> QED
        BY <1>2, <1>4, <3>1, <3>2, <4>1, SMT
    <3>3. CASE n # Len(ends) + 1
      <4>1. n \in DOMAIN ends /\ ends'[n] = ends[n]
        <5>1. n \in 1 .. Len(ends) + 1
          BY <1>4
        <5>2. n \in 1 .. Len(ends)
          BY <1>5, <3>3, <5>1, SMT
        <5> QED
          BY <1>1, <1>4, <5>2, EndsFacts
      <4> QED
        BY <1>1, <2>2, <3>1, <4>1 DEF Ordered
    <3> QED
      BY <3>2, <3>3
  <2> QED
    BY <2>1, <2>2 DEF Ordered
<1>10. InPlace'
  <2>1. Len(received) \in 0 .. Len(ends)
    BY <1>1, <1>5, SMT DEF InPlace, TypeOK
  <2>2. End(Len(received))' = End(Len(received))
    BY <1>4, <1>5, <1>7, <2>1, SMT DEF End
  <2> QED
    BY <1>1, <1>4, <1>5, <1>7, <2>1, <2>2, SMT DEF InPlace
<1>11. InOrder'
  BY <1>1, <1>7 DEF InOrder
<1> QED
  BY <1>8, <1>9, <1>10, <1>11 DEF IInv

\* Steps that read nothing.
LEMMA OtherIInv ==
  ASSUME IInv, Arrive \/ Cut \/ Call \/ ReturnFalse \/ UNCHANGED vars
  PROVE  IInv'
<1>1. TypeOK /\ Ordered /\ InPlace /\ InOrder
  BY DEF IInv
<1>2. UNCHANGED <<reader, ends, position, new_command_read, command, received>>
  BY DEF Arrive, Cut, Call, ReturnFalse, vars, device
<1>3. Written' = Written /\ Ordered' /\ InOrder'
  BY <1>1, <1>2 DEF Written, Ordered, InOrder
<1>4. Written \in Nat
  BY <1>1, EndsFacts
<1>5. TypeOK'
  <2>1. in_call' \in BOOLEAN /\ cut' \in BOOLEAN
    BY <1>1 DEF TypeOK, Arrive, Cut, Call, ReturnFalse, vars, device
  <2>2. arrived' \in arrived .. Written
    <3>1. CASE Arrive
      BY <1>1, <1>4, <3>1, SMT DEF Arrive, TypeOK
    <3>2. CASE Cut \/ Call \/ ReturnFalse \/ UNCHANGED vars
      <4>1. arrived' = arrived
        BY <3>2 DEF Cut, Call, ReturnFalse, vars
      <4> QED
        BY <1>1, <1>4, <4>1, SMT DEF TypeOK
    <3> QED
      BY <3>1, <3>2
  <2>3. position' \in 0 .. arrived' /\ arrived' \in 0 .. Written'
    BY <1>1, <1>2, <1>3, <1>4, <2>2, SMT DEF TypeOK
  <2> QED
    BY <1>1, <1>2, <2>1, <2>3 DEF TypeOK
<1>6. InPlace'
  <2>1. End(Len(received))' = End(Len(received))
    BY <1>2 DEF End
  <2>2. reader = "center" => ~ in_call'
    BY <1>1 DEF InPlace, Arrive, Cut, Call, ReturnFalse, vars, device
  <2> QED
    BY <1>1, <1>2, <2>1, <2>2 DEF InPlace
<1> QED
  BY <1>3, <1>5, <1>6 DEF IInv

LEMMA ReadHeaderIInv ==
  ASSUME IInv, ReadHeader
  PROVE  IInv'
<1> USE StreamAssumption
<1> DEFINE k == Len(received)
<1>1. TypeOK /\ Ordered /\ InPlace /\ InOrder
  BY DEF IInv
<1>2. /\ in_call /\ new_command_read /\ available >= header_length
      /\ command' = HeaderAt(position) /\ position' = position + header_length
      /\ new_command_read' = FALSE
      /\ UNCHANGED <<reader, ends, arrived, cut, in_call, received>>
  BY DEF ReadHeader
<1>3. k \in 0 .. Len(ends) /\ position = End(k)
  BY <1>1, <1>2, EndsFacts, SMT DEF InPlace, TypeOK
<1>4. arrived \in Nat /\ position \in Nat /\ Written \in Nat
  BY <1>1, EndsFacts, SMT DEF TypeOK
<1>5. position + header_length <= arrived
  BY <1>2, <1>4, SMT DEF available
<1>6. k < Len(ends) /\ HeaderAt(position) = k + 1
  BY <1>1, <1>3, <1>5, HeaderFound
<1>7. Written' = Written /\ Ordered' /\ InOrder' /\ End(k)' = End(k)
  BY <1>1, <1>2 DEF Written, Ordered, InOrder, End
<1>8. TypeOK'
  <2>1. position' \in 0 .. arrived' /\ arrived' \in 0 .. Written'
    BY <1>1, <1>2, <1>4, <1>5, <1>7, SMT DEF TypeOK
  <2>2. command' \in Nat \cup {Garbage} /\ new_command_read' \in BOOLEAN
    <3>1. k + 1 \in Nat
      BY <1>1, <1>3, EndsFacts, SMT
    <3> QED
      BY <1>2, <1>6, <3>1
  <2> QED
    BY <1>1, <1>2, <2>1, <2>2 DEF TypeOK
<1>9. InPlace'
  BY <1>1, <1>2, <1>3, <1>6, <1>7 DEF InPlace
<1> QED
  BY <1>7, <1>8, <1>9 DEF IInv

\* Receiving the next command, at its end.
LEMMA ReceivedIInv ==
  ASSUME IInv,
         Len(received) < Len(ends),
         received' = Append(received, Len(received) + 1),
         position' = ends[Len(received) + 1],
         position' <= arrived,
         new_command_read',
         reader = "center" => ~ in_call',
         in_call' \in BOOLEAN,
         new_command_read' \in BOOLEAN,
         UNCHANGED <<reader, ends, arrived, cut, command>>
  PROVE  IInv'
<1> DEFINE k == Len(received)
<1>1. TypeOK /\ Ordered /\ InPlace /\ InOrder
  BY DEF IInv
<1>2. k \in Nat /\ Len(ends) \in Nat /\ k + 1 \in 1 .. Len(ends)
  BY <1>1, EndsFacts, SMT DEF TypeOK
<1>3. /\ received' \in Seq(Nat \cup {Garbage}) /\ Len(received') = k + 1
      /\ DOMAIN received' = 1 .. k + 1
      /\ \A n \in 1 .. k : received'[n] = received[n]
      /\ received'[k + 1] = k + 1
  BY <1>1, <1>2 DEF TypeOK
<1>4. InOrder'
  <2> SUFFICES ASSUME NEW n \in 1 .. k + 1 PROVE received'[n] = n
    BY <1>3 DEF InOrder
  <2>1. CASE n = k + 1
    BY <1>3, <2>1
  <2>2. CASE n # k + 1
    <3>1. n \in DOMAIN received
      BY <1>1, <1>2, <2>2, SMT DEF TypeOK
    <3> QED
      BY <1>1, <1>2, <1>3, <2>2, <3>1, SMT DEF InOrder
  <2> QED
    BY <2>1, <2>2
<1>5. Written' = Written /\ Ordered' /\ ends[k + 1] \in Nat
  BY <1>1, <1>2, EndsFacts DEF Written, Ordered
<1>6. TypeOK'
  BY <1>1, <1>3, <1>5, SMT DEF TypeOK
<1>7. End(Len(received))' = ends[k + 1]
  BY <1>2, <1>3, SMT DEF End
<1>8. InPlace'
  BY <1>1, <1>2, <1>3, <1>7, SMT DEF InPlace
<1> QED
  BY <1>4, <1>5, <1>6, <1>8 DEF IInv

\* What is received is the next command, and the position is its end.
LEMMA ReadsNext ==
  ASSUME IInv, ReadMessage \/ doDecode
  PROVE  /\ Len(received) < Len(ends)
         /\ received' = Append(received, Len(received) + 1)
         /\ position' = ends[Len(received) + 1]
         /\ position' <= arrived
<1> USE StreamAssumption
<1> DEFINE k == Len(received)
<1>1. TypeOK /\ Ordered /\ InPlace
  BY DEF IInv
<1>2. k \in 0 .. Len(ends) /\ arrived \in Nat /\ position \in Nat /\ End(k) \in Nat
  BY <1>1, EndsFacts, SMT DEF InPlace, TypeOK
<1>3. CASE ReadMessage
  <2>1. /\ ~ new_command_read /\ available >= message_length(command)
        /\ position' = position + message_length(command)
        /\ received' = Append(received, command)
    BY <1>3 DEF ReadMessage
  <2>2. k < Len(ends) /\ command = k + 1 /\ position = End(k) + header_length
    BY <1>1, <2>1 DEF InPlace
  <2>3. End(k) + header_length <= arrived
    BY <1>1, <2>2, SMT DEF TypeOK
  <2>4. message_length(k + 1) = ends[k + 1] - End(k) - header_length /\ message_length(k + 1) \in Nat
    BY <1>1, <1>2, <2>3, HeaderFound
  <2>5. ends[k + 1] \in Nat
    BY <1>1, <1>2, <2>2, EndsFacts, SMT
  <2>6. received' = Append(received, k + 1)
    BY <2>1, <2>2
  <2>7. position' = End(k) + header_length + message_length(k + 1)
    BY <2>1, <2>2
  <2>8. arrived - (End(k) + header_length) >= message_length(k + 1)
    BY <2>1, <2>2 DEF available
  <2>9. position' = ends[k + 1] /\ position' <= arrived
    <3> DEFINE start == End(k)
               next == ends[k + 1]
               length == message_length(k + 1)
    <3>1. /\ start \in Nat /\ next \in Nat /\ arrived \in Nat /\ length \in Nat
          /\ length = next - start - header_length
          /\ arrived - (start + header_length) >= length
          /\ position' = start + header_length + length
      BY <1>2, <2>4, <2>5, <2>7, <2>8
    <3> HIDE DEF start, next, length
    <3>2. position' = next /\ next <= arrived
      BY <3>1, SMT
    <3> QED
      BY <3>2 DEF next
  <2> QED
    BY <2>2, <2>6, <2>9
<1>4. CASE doDecode
  <2>1. /\ reader = "center" /\ available >= header_length
        /\ available - header_length >= message_length(HeaderAt(position))
        /\ position' = position + header_length + message_length(HeaderAt(position))
        /\ received' = Append(received, HeaderAt(position))
    BY <1>4 DEF doDecode
  <2>2. position = End(k)
    BY <1>1, <2>1 DEF InPlace
  <2>3. End(k) + header_length <= arrived
    BY <1>2, <2>1, <2>2, SMT DEF available
  <2>4. /\ k < Len(ends) /\ HeaderAt(position) = k + 1
        /\ message_length(k + 1) = ends[k + 1] - End(k) - header_length /\ message_length(k + 1) \in Nat
    BY <1>1, <1>2, <2>2, <2>3, HeaderFound
  <2>5. ends[k + 1] \in Nat
    BY <1>1, <1>2, <2>4, EndsFacts, SMT
  <2>6. received' = Append(received, k + 1)
    BY <2>1, <2>4
  <2>7. position' = End(k) + header_length + message_length(k + 1)
    BY <2>1, <2>2, <2>4
  <2>8. arrived - End(k) - header_length >= message_length(k + 1)
    BY <2>1, <2>2, <2>4 DEF available
  <2>9. position' = ends[k + 1] /\ position' <= arrived
    <3> DEFINE l == message_length(k + 1)
               p == End(k)
               q == ends[k + 1]
    <3>1. /\ l = q - p - header_length /\ l \in Nat /\ p \in Nat /\ q \in Nat
          /\ header_length \in Nat /\ arrived \in Nat
          /\ arrived - p - header_length >= l
      BY <1>2, <2>4, <2>5, <2>8
    <3>2. position' = p + header_length + l
      BY <2>7
    <3> HIDE DEF l, p, q
    <3>3. position' = q /\ position' <= arrived
      BY <3>1, <3>2, SMT
    <3> QED
      BY <3>3 DEF q
  <2> QED
    BY <2>4, <2>6, <2>9
<1> QED
  BY <1>3, <1>4

LEMMA ReceiveIInv ==
  ASSUME IInv, ReadMessage \/ doDecode
  PROVE  IInv'
<1>1. TypeOK /\ InPlace
  BY DEF IInv
<1>2. /\ new_command_read' /\ (reader = "center" => ~ in_call')
      /\ in_call' \in BOOLEAN /\ new_command_read' \in BOOLEAN
      /\ UNCHANGED <<reader, ends, arrived, cut, command>>
  <2>1. CASE ReadMessage
    <3>1. reader # "center"
      BY <1>1, <2>1 DEF ReadMessage, InPlace
    <3> QED
      BY <2>1, <3>1 DEF ReadMessage
  <2>2. CASE doDecode
    <3>1. reader = "center" /\ UNCHANGED <<reader, ends, arrived, cut, device>>
      BY <2>2 DEF doDecode
    <3>2. new_command_read /\ ~ in_call
      BY <1>1, <3>1 DEF InPlace
    <3>3. UNCHANGED <<in_call, new_command_read, command>>
      BY <3>1 DEF device
    <3>4. in_call \in BOOLEAN /\ new_command_read \in BOOLEAN
      BY <1>1 DEF TypeOK
    <3> QED
      BY <3>1, <3>2, <3>3, <3>4, Zenon
  <2> QED
    BY <2>1, <2>2
<1> QED
  BY <1>2, ReadsNext, ReceivedIInv

LEMMA NextIInv == IInv /\ [Next]_vars => IInv'
  BY WriteIInv, OtherIInv, ReadHeaderIInv, ReceiveIInv DEF Next, Loop

LEMMA Invariance == Spec => []IInv
  BY InitIInv, NextIInv, PTL DEF Spec

\* Types, for all lengths: what has been read has arrived (command_available,
\* tryDecode).
THEOREM TypeCorrect == Spec => []TypeOK
<1>1. IInv => TypeOK
  BY DEF IInv
<1> QED
  BY <1>1, Invariance, PTL

\* Wherever the network cuts the stream, commands are received in order and
\* each once (command_available, tryDecode).
THEOREM ReceivedInOrder == Spec => []InOrder
<1>1. IInv => InOrder
  BY DEF IInv
<1> QED
  BY <1>1, Invariance, PTL

-----------------------------------------------------------------------------
(* The queue. *)

\* What has been received are the first commands, and they had arrived whole. So
\* those that wait are the others that have arrived.
LEMMA WaitingFacts ==
  ASSUME IInv
  PROVE  /\ Len(received) \in Nat /\ DOMAIN ends = 1 .. Len(ends)
         /\ \A n \in DOMAIN ends : n <= Len(received) => ends[n] <= arrived
         /\ Waiting = {n \in DOMAIN ends : ends[n] <= arrived /\ n > Len(received)}
<1> USE StreamAssumption
<1> DEFINE k == Len(received)
           m == Len(ends)
<1>1. TypeOK /\ Ordered /\ InPlace /\ InOrder
  BY DEF IInv
<1>2. /\ DOMAIN ends = 1 .. m /\ m \in Nat /\ k \in Nat /\ k <= m
      /\ arrived \in Nat /\ position \in Nat /\ position <= arrived
  BY <1>1, EndsFacts, SMT DEF TypeOK, InPlace
<1>3. {received[i] : i \in DOMAIN received} = 1 .. k
  <2>1. DOMAIN received = 1 .. k
    BY <1>1 DEF TypeOK
  <2> QED
    BY <1>1, <2>1 DEF InOrder
<1>4. End(k) \in Nat /\ End(k) <= arrived
  <2>1. End(k) \in Nat
    BY <1>1, <1>2, EndsFacts, SMT
  <2>2. position = End(k) \/ position = End(k) + header_length
    BY <1>1 DEF InPlace
  <2> QED
    BY <1>2, <2>1, <2>2, SMT
<1>5. ASSUME NEW n \in DOMAIN ends, n <= k PROVE ends[n] <= arrived
  <2>1. k \in DOMAIN ends /\ k # 0 /\ ends[k] = End(k)
    BY <1>2, <1>5, SMT DEF End
  <2>2. ends[n] \in Nat
    BY <1>1, <1>2, EndsFacts
  <2>3. CASE n = k
    BY <1>4, <2>1, <2>3
  <2>4. CASE n # k
    <3>1. n < k
      BY <1>2, <1>5, <2>4, SMT
    <3>2. ends[n] + header_length <= ends[k]
      BY <1>1, <2>1, <3>1 DEF Ordered
    <3> QED
      BY <1>2, <1>4, <2>1, <2>2, <3>2, SMT
  <2> QED
    BY <2>3, <2>4
<1>6. \A n \in DOMAIN ends : n \in 1 .. k <=> ~ (n > k)
  BY <1>2, SMT
<1> QED
  BY <1>2, <1>3, <1>5, <1>6 DEF Waiting

\* A new command is on the way.
LEMMA WriteSends ==
  ASSUME IInv, NEW length \in Lengths, Write(length)
  PROVE  Abstract!Send
<1> USE StreamAssumption
<1> DEFINE e == Written + header_length + length
           m == Len(ends)
<1>1. TypeOK /\ Ordered /\ InPlace
  BY DEF IInv
<1>2. /\ ends \in Seq(Nat) /\ m \in Nat /\ DOMAIN ends = 1 .. m
      /\ e \in Nat /\ arrived \in Nat /\ arrived < e
  BY <1>1, EndsFacts, SMT DEF TypeOK
<1>3. ~ cut /\ ends' = Append(ends, e) /\ UNCHANGED <<arrived, cut, received>>
  BY DEF Write
<1>4. /\ Len(ends') = m + 1 /\ DOMAIN ends' = 1 .. m + 1
      /\ \A n \in 1 .. m : ends'[n] = ends[n]
      /\ ends'[m + 1] = e
  BY <1>2, <1>3
<1>5. DOMAIN ends' = DOMAIN ends \cup {m + 1} /\ m + 1 \notin DOMAIN ends
  BY <1>2, <1>4, SMT
<1>6. OnTheWay' = OnTheWay \cup {m + 1}
  BY <1>2, <1>3, <1>4, <1>5, SMT DEF OnTheWay
<1>7. Waiting' = Waiting
  <2>1. {n \in DOMAIN ends' : ends'[n] <= arrived} = {n \in DOMAIN ends : ends[n] <= arrived}
    BY <1>2, <1>4, <1>5, SMT
  <2> QED
    BY <1>3, <2>1 DEF Waiting
<1> QED
  BY <1>3, <1>4, <1>6, <1>7 DEF Abstract!Send

\* Bytes that arrive complete the oldest commands.
LEMMA ArriveDelivers ==
  ASSUME IInv, Arrive
  PROVE  Abstract!Deliver
<1> USE StreamAssumption
<1> DEFINE oldest == {n \in OnTheWay : ends[n] <= arrived'}
<1>1. TypeOK /\ Ordered
  BY DEF IInv
<1>2. /\ DOMAIN ends = 1 .. Len(ends) /\ Len(ends) \in Nat /\ arrived \in Nat
      /\ \A n \in DOMAIN ends : ends[n] \in Nat
  BY <1>1, EndsFacts, SMT DEF TypeOK
<1>3. /\ ~ cut /\ arrived' \in Nat /\ arrived < arrived'
      /\ UNCHANGED <<ends, cut, received>>
  BY <1>1, <1>2, EndsFacts, SMT DEF Arrive
<1>4. ASSUME NEW i \in oldest, NEW j \in OnTheWay \ oldest PROVE i < j
  <2>1. /\ i \in DOMAIN ends /\ j \in DOMAIN ends /\ ends[i] \in Nat /\ ends[j] \in Nat
        /\ ends[i] <= arrived' /\ ~ (ends[j] <= arrived')
    BY <1>2 DEF OnTheWay
  <2>2. j < i => ends[j] + header_length <= ends[i]
    BY <1>1, <2>1 DEF Ordered
  <2>3. i # j
    BY <2>1
  <2> QED
    BY <1>2, <1>3, <2>1, <2>2, <2>3, SMT
<1>5. OnTheWay' = OnTheWay \ oldest
  BY <1>2, <1>3, SMT DEF OnTheWay
<1>6. Waiting' = Waiting \cup oldest
  <2>1. oldest \cap {received[i] : i \in DOMAIN received} = {}
    <3> SUFFICES ASSUME NEW n \in oldest, NEW i \in DOMAIN received, n = received[i] PROVE FALSE
      OBVIOUS
    <3>1. n \in DOMAIN ends /\ ends[n] \in Nat /\ ends[n] > arrived
      BY <1>2 DEF OnTheWay
    <3>2. n = i /\ n <= Len(received)
      BY <1>1 DEF IInv, InOrder, TypeOK
    <3>3. ends[n] <= arrived
      BY <3>1, <3>2, WaitingFacts
    <3> QED
      BY <1>2, <3>1, <3>3, SMT
  <2>2. {n \in DOMAIN ends : ends[n] <= arrived'} = {n \in DOMAIN ends : ends[n] <= arrived} \cup oldest
    BY <1>2, <1>3, SMT DEF OnTheWay
  <2> QED
    BY <1>3, <2>1, <2>2 DEF Waiting
<1>7. oldest \in SUBSET OnTheWay
  OBVIOUS
<1> QED
  BY <1>3, <1>4, <1>5, <1>6, <1>7 DEF Abstract!Deliver

\* What is read is the oldest command that waits.
LEMMA ReadReceives ==
  ASSUME IInv, ReadMessage \/ doDecode
  PROVE  Abstract!Receive
<1> DEFINE k == Len(received)
<1>1. /\ k < Len(ends) /\ received' = Append(received, k + 1)
      /\ position' = ends[k + 1] /\ position' <= arrived
  BY ReadsNext
<1>2. UNCHANGED <<ends, arrived, cut>>
  BY DEF ReadMessage, doDecode
<1>3. TypeOK /\ Len(ends) \in Nat
  BY EndsFacts DEF IInv
<1>4. /\ k \in Nat /\ DOMAIN ends = 1 .. Len(ends)
      /\ Waiting = {n \in DOMAIN ends : ends[n] <= arrived /\ n > k}
  BY WaitingFacts
<1>5. {received'[i] : i \in DOMAIN received'} = {received[i] : i \in DOMAIN received} \cup {k + 1}
  <2>1. received \in Seq(Nat \cup {Garbage}) /\ k + 1 \in Nat \cup {Garbage}
    BY <1>3, <1>4 DEF TypeOK
  <2>2. /\ DOMAIN received' = 1 .. k + 1 /\ DOMAIN received = 1 .. k
        /\ \A i \in 1 .. k : received'[i] = received[i]
        /\ received'[k + 1] = k + 1
    BY <1>1, <2>1
  <2>3. 1 .. k + 1 = (1 .. k) \cup {k + 1}
    BY <1>4, SMT
  <2> QED
    BY <2>2, <2>3
<1>6. k + 1 \in Waiting /\ \A n \in Waiting : k + 1 <= n
  BY <1>1, <1>3, <1>4, SMT
<1>7. Waiting' = Waiting \ {k + 1}
  BY <1>2, <1>5 DEF Waiting
<1>8. OnTheWay' = OnTheWay /\ Len(ends)' = Len(ends)
  BY <1>2 DEF OnTheWay
<1> QED
  BY <1>1, <1>2, <1>6, <1>7, <1>8 DEF Abstract!Receive

\* Both codecs implement the queue of whole commands: what is taken from the
\* stream is the oldest command that has arrived whole, whatever the lengths and
\* wherever the network cuts (command_available, tryDecode, toBuffer,
\* send_command_header).
THEOREM Implementation == Spec => ImplementsFifo
<1>1. Init => Abstract!FifoInit
  <2> SUFFICES ASSUME Init PROVE Abstract!FifoInit
    OBVIOUS
  <2>1. ends = <<>> /\ received = <<>> /\ cut = FALSE
    BY DEF Init
  <2>2. Len(ends) = 0 /\ DOMAIN ends = {}
    BY <2>1
  <2> QED
    BY <2>1, <2>2 DEF Abstract!FifoInit, OnTheWay, Waiting
<1>2. IInv /\ [Next]_vars => [Abstract!FifoNext]_(Abstract!fifo)
  <2> SUFFICES ASSUME IInv, [Next]_vars
               PROVE  Abstract!FifoNext \/ UNCHANGED Abstract!fifo
    OBVIOUS
  <2>1. CASE Cut
    BY <2>1 DEF Cut, Abstract!FifoNext, Abstract!End, OnTheWay, Waiting
  <2>2. CASE Call \/ ReadHeader \/ ReturnFalse \/ UNCHANGED vars
    <3>1. UNCHANGED <<ends, arrived, cut, received>>
      BY <2>2 DEF Call, ReadHeader, ReturnFalse, vars
    <3> QED
      BY <3>1 DEF Abstract!fifo, OnTheWay, Waiting
  <2> QED
    BY <2>1, <2>2, WriteSends, ArriveDelivers, ReadReceives DEF Next, Loop, Abstract!FifoNext
<1> QED
  BY <1>1, <1>2, Invariance, PTL DEF Spec, ImplementsFifo, Abstract!Fifo

-----------------------------------------------------------------------------
(* Repeater. *)

\* The first state has the types.
LEMMA ClockTypeInit == Clock!Init => Clock!TypeOK
<1> USE PartsAssumption DEF Clock!RepeaterAssumption
<1> SUFFICES ASSUME Clock!Init PROVE Clock!TypeOK
  OBVIOUS
<1>1. /\ started \in 0 .. timedelay
      /\ now \in started .. Horizon + timedelay /\ asked \in started .. now
      /\ timeofnextexec \in 0 .. RepeaterWrap - 1
      /\ executions \in Nat
  BY SMT DEF Clock!Init
<1>2. answer \in BOOLEAN
  BY Zenon DEF Clock!Init
<1> QED
  BY <1>1, <1>2 DEF Clock!TypeOK

\* Steps keep the types.
LEMMA ClockTypeStep == Clock!TypeOK /\ [Clock!Next]_(Clock!vars) => Clock!TypeOK'
<1> USE PartsAssumption DEF Clock!RepeaterAssumption
<1> SUFFICES ASSUME Clock!TypeOK, [Clock!Next]_(Clock!vars) PROVE Clock!TypeOK'
  OBVIOUS
<1>1. CASE Clock!repeatnow
  <2>1. /\ started' \in 0 .. timedelay
        /\ now' \in started' .. Horizon + timedelay /\ asked' \in started' .. now'
        /\ timeofnextexec' \in 0 .. RepeaterWrap - 1
        /\ executions' \in Nat
    BY <1>1, SMT DEF Clock!TypeOK, Clock!repeatnow, Clock!Following, Clock!millis
  <2>2. answer' \in BOOLEAN
    BY <1>1, Zenon DEF Clock!repeatnow
  <2> QED
    BY <2>1, <2>2 DEF Clock!TypeOK
<1>2. CASE Clock!Tick
  BY <1>2, SMT DEF Clock!TypeOK, Clock!Tick
<1>3. CASE UNCHANGED Clock!vars
  BY <1>3 DEF Clock!TypeOK, Clock!vars
<1> QED
  BY <1>1, <1>2, <1>3 DEF Clock!Next

\* The types, for every repeater (Repeater.cpp, repeatnow).
THEOREM ClockTypeCorrect == Clock!Spec => []Clock!TypeOK
<1> QED
  BY ClockTypeInit, ClockTypeStep, PTL DEF Clock!Spec

\* The time that is due next is that of the execution after the last one.
DueNext == timeofnextexec = started + timedelay * (executions + 1)

ClockInv == Clock!TypeOK /\ (Clock!BeforeWrap => Clock!OnSchedule /\ DueNext)

\* One delay later is one execution more.
LEMMA OneMore ==
  ASSUME NEW e \in Nat
  PROVE  timedelay * (e + 1) = timedelay * e + timedelay /\ timedelay * e \in Nat
  BY PartsAssumption, SMT DEF Clock!RepeaterAssumption

\* Before the clock wraps, nothing is executed early and nothing is lost, however
\* late repeatnow is called (its line 18 says so of the wrap, too).
THEOREM Scheduled == Clock!Spec => []Clock!OnScheduleBeforeWrap
<1> USE PartsAssumption DEF Clock!RepeaterAssumption
<1>1. Clock!Init => ClockInv
  <2> SUFFICES ASSUME Clock!Init PROVE ClockInv
    OBVIOUS
  <2>1. Clock!TypeOK
    BY ClockTypeInit
  <2>2. ASSUME Clock!BeforeWrap PROVE Clock!OnSchedule /\ DueNext
    <3>1. started + timedelay < RepeaterWrap /\ started \in Nat
      BY <2>2, SMT DEF Clock!Init, Clock!BeforeWrap
    <3>2. timeofnextexec = started + timedelay
      BY <3>1, SMT DEF Clock!Init
    <3> QED
      BY <3>1, <3>2, SMT DEF Clock!Init, Clock!OnSchedule, DueNext
  <2> QED
    BY <2>1, <2>2 DEF ClockInv
<1>2. ClockInv /\ [Clock!Next]_(Clock!vars) => ClockInv'
  <2> SUFFICES ASSUME ClockInv, [Clock!Next]_(Clock!vars) PROVE (Clock!BeforeWrap => Clock!OnSchedule /\ DueNext)'
    BY ClockTypeStep DEF ClockInv
  <2> SUFFICES ASSUME Clock!BeforeWrap' PROVE Clock!OnSchedule' /\ DueNext'
    OBVIOUS
  <2>1. executions \in Nat /\ started \in Nat /\ now \in Nat /\ asked \in Nat /\ timeofnextexec \in Nat
    BY SMT DEF ClockInv, Clock!TypeOK
  <2>2. Clock!BeforeWrap /\ Clock!OnSchedule /\ DueNext
    BY <2>1, SMT DEF ClockInv, Clock!BeforeWrap, Clock!Next, Clock!repeatnow, Clock!Tick, Clock!vars
  <2>3. CASE Clock!repeatnow
    <3>1. Clock!millis = now
      BY <2>1, <2>2, SMT DEF Clock!millis, Clock!BeforeWrap
    <3>2. started' = started /\ asked' = now
      BY <2>3 DEF Clock!repeatnow
    <3>3. CASE timeofnextexec <= Clock!millis
      <4>1. executions' = executions + 1 /\ executions' \in Nat
        BY <2>1, <2>3, <3>3, SMT DEF Clock!repeatnow
      <4>a. answer'
        BY <2>3, <3>3, Zenon DEF Clock!repeatnow
      <4>2. timeofnextexec' = timeofnextexec + timedelay
        BY <2>1, <2>2, <2>3, <3>1, <3>3, SMT DEF Clock!repeatnow, Clock!Following, Clock!BeforeWrap
      <4>3. /\ timedelay * executions' = timeofnextexec - started
            /\ timedelay * (executions' + 1) = timedelay * executions' + timedelay
        BY <2>1, <2>2, <4>1, OneMore, SMT DEF DueNext
      <4> QED
        BY <2>1, <3>1, <3>2, <3>3, <4>1, <4>a, <4>2, <4>3, SMT DEF Clock!OnSchedule, DueNext
    <3>4. CASE ~ timeofnextexec <= Clock!millis
      <4>1. UNCHANGED <<executions, timeofnextexec>>
        BY <2>3, <3>4 DEF Clock!repeatnow
      <4>2. now < timeofnextexec /\ asked <= now
        BY <2>1, <3>1, <3>4, SMT DEF ClockInv, Clock!TypeOK
      <4>3. timedelay * executions \in Nat
        BY <2>1, OneMore
      <4> QED
        BY <2>1, <2>2, <3>2, <4>1, <4>2, <4>3, SMT DEF Clock!OnSchedule, DueNext
    <3> QED
      BY <3>3, <3>4
  <2>4. CASE Clock!Tick
    BY <2>2, <2>4 DEF Clock!Tick, Clock!OnSchedule, DueNext
  <2>5. CASE UNCHANGED Clock!vars
    BY <2>2, <2>5 DEF Clock!vars, Clock!OnSchedule, DueNext
  <2> QED
    BY <2>3, <2>4, <2>5 DEF Clock!Next
<1>3. ClockInv => Clock!OnScheduleBeforeWrap
  BY DEF ClockInv, Clock!OnScheduleBeforeWrap
<1> QED
  BY <1>1, <1>2, <1>3, PTL DEF Clock!Spec

-----------------------------------------------------------------------------
(* NetworkLoop. What the timer has counted is compared with the time since   *)
(* the network was found lost, as it was at the last pass.                   *)

LEMMA WiFiConstants ==
  /\ Patience \in Nat /\ MaxPass \in Nat \ {0} /\ WiFiWrap \in Nat
  /\ Patience + 2 * MaxPass < WiFiWrap
  /\ WiFi!Long = Patience + 2 * MaxPass + 1
  BY PartsAssumption DEF WiFi!NetworkLoopAssumption, WiFi!Long

WiFiTimer == [running : BOOLEAN, elapsedtime : 0 .. WiFiWrap - 1, lasttime : 0 .. WiFiWrap - 1]

WiFiTypes ==
  /\ millis \in 0 .. WiFiWrap - 1
  /\ wifi \in BOOLEAN /\ connected \in BOOLEAN /\ enable_AP \in BOOLEAN
  /\ timer \in WiFiTimer
  /\ since_pass \in 0 .. MaxPass
  /\ lost_for \in -1 .. WiFi!Long

\* The time from the pass that found the network lost to the last pass.
LostAtPass == lost_for - since_pass

\* Nothing is counted while there is a network.
Idle ==
  /\ connected => lost_for = -1
  /\ lost_for = -1 => ~ enable_AP /\ ~ timer.running /\ timer.elapsedtime = 0
  /\ lost_for # -1 => timer.running

\* While the access point is not open the timer has counted all of the time, or
\* all but what one pass may take, and then the clock has wrapped since.
Counted ==
  lost_for # -1 /\ ~ enable_AP =>
    /\ LostAtPass >= 0
    /\ timer.elapsedtime <= Patience /\ timer.elapsedtime <= LostAtPass
    /\ \/ millis = timer.lasttime + since_pass
       \/ millis = timer.lasttime + since_pass - WiFiWrap
    /\ \/ timer.elapsedtime = LostAtPass
       \/ LostAtPass <= timer.elapsedtime + MaxPass /\ timer.lasttime <= LostAtPass

WiFiInv == WiFiTypes /\ Idle /\ Counted /\ WiFi!NotTooEarly

LEMMA WiFiInit == WiFi!Init => WiFiInv
<1> SUFFICES ASSUME WiFi!Init PROVE WiFiInv
  OBVIOUS
<1> USE WiFiConstants DEF WiFi!Init
<1>1. timer.running = FALSE /\ timer.elapsedtime = 0 /\ timer.lasttime = 0
  BY DEF WiFi!NewTimer
<1>2. WiFiTypes
  <2>1. wifi \in BOOLEAN /\ connected \in BOOLEAN /\ enable_AP \in BOOLEAN
    BY Zenon
  <2>2. timer \in WiFiTimer
    BY DEF WiFi!NewTimer, WiFiTimer
  <2>3. since_pass \in 0 .. MaxPass /\ lost_for \in -1 .. WiFi!Long
    BY SMT
  <2> QED
    BY <2>1, <2>2, <2>3 DEF WiFiTypes
<1>3. Idle /\ Counted /\ WiFi!NotTooEarly
  BY <1>1 DEF Idle, Counted, WiFi!NotTooEarly
<1> QED
  BY <1>2, <1>3 DEF WiFiInv

\* What the operations of the timer return.
LEMMA TimerFacts ==
  ASSUME NEW u \in WiFiTimer,
         millis \in 0 .. WiFiWrap - 1
  PROVE  LET last == IF u.lasttime > millis THEN 0 ELSE u.lasttime
             v == WiFi!updateelapsed(u)
         IN  /\ v \in WiFiTimer
             /\ v.running = u.running /\ v.lasttime = millis
             /\ ~ u.running => v.elapsedtime = u.elapsedtime
             /\ u.running /\ u.elapsedtime + millis - last < WiFiWrap
                  => v.elapsedtime = u.elapsedtime + millis - last
             /\ WiFi!start(u) = [v EXCEPT !.running = TRUE]
             /\ WiFi!reset(WiFi!stop(u))
                  = [running |-> FALSE, elapsedtime |-> 0, lasttime |-> millis]
<1> DEFINE last == IF u.lasttime > millis THEN 0 ELSE u.lasttime
           e == IF u.running THEN (u.elapsedtime + millis - last) % WiFiWrap ELSE u.elapsedtime
           v == WiFi!updateelapsed(u)
<1>1. last \in 0 .. millis /\ u.elapsedtime \in 0 .. WiFiWrap - 1 /\ u.running \in BOOLEAN
  BY DEF WiFiTimer
<1>2. v = [u EXCEPT !.elapsedtime = e, !.lasttime = millis]
  BY Zenon DEF WiFi!updateelapsed
<1>3. ~ u.running => e = u.elapsedtime
  BY Zenon
<1>4. u.running => e = (u.elapsedtime + millis - last) % WiFiWrap
  BY Zenon
<1>5. u.running /\ u.elapsedtime + millis - last < WiFiWrap => e = u.elapsedtime + millis - last
  <2> SUFFICES ASSUME u.running, u.elapsedtime + millis - last < WiFiWrap
               PROVE  e = u.elapsedtime + millis - last
    BY Zenon
  <2>1. e = (u.elapsedtime + millis - last) % WiFiWrap
    BY <1>4, Zenon
  <2> DEFINE x == u.elapsedtime + millis - last
  <2>2. x \in Nat /\ x < WiFiWrap
    <3> HIDE DEF last
    <3> QED
      BY <1>1
  <2>3. e = x % WiFiWrap
    BY <2>1
  <2> HIDE DEF x, e
  <2>4. e = x
    BY <2>2, <2>3, WiFiConstants
  <2> QED
    BY <2>4, Zenon DEF x
<1>6. e \in 0 .. WiFiWrap - 1
  <2> HIDE DEF last, e
  <2> QED
    BY <1>1, <1>3, <1>4, WiFiConstants
<1>7. WiFi!start(u) = [v EXCEPT !.running = TRUE]
  BY Zenon DEF WiFi!start
<1>8. WiFi!stop(u) = [v EXCEPT !.running = FALSE]
  BY Zenon DEF WiFi!stop
<1> HIDE DEF v, e
<1>9. /\ v \in WiFiTimer
      /\ v.running = u.running /\ v.lasttime = millis /\ v.elapsedtime = e
  BY <1>2, <1>6 DEF WiFiTimer
<1>10. WiFi!reset(WiFi!stop(u)) = [running |-> FALSE, elapsedtime |-> 0, lasttime |-> millis]
  <2> DEFINE w == WiFi!stop(u)
  <2>1. w \in WiFiTimer
        /\ w.running = FALSE
    BY <1>8, <1>9 DEF WiFiTimer
  <2>2. WiFi!reset(w) = [WiFi!updateelapsed(w) EXCEPT !.elapsedtime = 0]
    BY Zenon DEF WiFi!reset
  <2>3. \E x : WiFi!updateelapsed(w) = [w EXCEPT !.elapsedtime = x, !.lasttime = millis]
    BY Zenon DEF WiFi!updateelapsed
  <2> HIDE DEF w
  <2>4. WiFi!reset(w) = [running |-> FALSE, elapsedtime |-> 0, lasttime |-> millis]
    BY <2>1, <2>2, <2>3 DEF WiFiTimer
  <2> QED
    BY <2>4 DEF w
<1> QED
  BY <1>3, <1>5, <1>7, <1>9, <1>10 DEF v

LEMMA OnlineStep == WiFiInv /\ WiFi!Online => WiFiInv'
<1> SUFFICES ASSUME WiFiInv, WiFi!Online PROVE WiFiInv'
  OBVIOUS
<1>1. WiFiTypes /\ Idle /\ Counted /\ WiFi!NotTooEarly
  BY DEF WiFiInv
<1>2. connected' = TRUE /\ wifi' = wifi /\ millis' = millis /\ since_pass' = 0 /\ lost_for' = -1
  BY DEF WiFi!Online
<1>3. timer' \in WiFiTimer /\ ~ timer'.running /\ timer'.elapsedtime = 0
      /\ enable_AP' = FALSE
  <2>1. CASE connected
    <3>1. timer' = timer /\ enable_AP' = enable_AP /\ lost_for = -1
      BY <1>1, <2>1, Zenon DEF WiFi!Online, Idle
    <3>2. ~ enable_AP /\ enable_AP \in BOOLEAN
      BY <1>1, <3>1, Zenon DEF Idle, WiFiTypes
    <3> QED
      BY <1>1, <3>1, <3>2, Zenon DEF Idle, WiFiTypes
  <2>2. CASE ~ connected /\ timer.running
    <3>1. timer' = WiFi!reset(WiFi!stop(timer)) /\ enable_AP' = FALSE
      BY <2>2, Zenon DEF WiFi!Online
    <3>2. timer' = [running |-> FALSE, elapsedtime |-> 0, lasttime |-> millis]
      BY <1>1, <3>1, TimerFacts, Zenon DEF WiFiTypes
    <3>3. millis \in 0 .. WiFiWrap - 1
      BY <1>1 DEF WiFiTypes
    <3> QED
      BY <3>1, <3>2, <3>3, WiFiConstants DEF WiFiTimer
  <2>3. CASE ~ connected /\ ~ timer.running
    <3>1. timer' = timer /\ enable_AP' = FALSE
      BY <2>3, Zenon DEF WiFi!Online
    <3> QED
      BY <1>1, <2>3, <3>1, Zenon DEF Idle, WiFiTypes
  <2> QED
    BY <2>1, <2>2, <2>3, Zenon
<1>4. since_pass' \in 0 .. MaxPass /\ lost_for' \in -1 .. WiFi!Long
  BY <1>2, WiFiConstants
<1>5. WiFiTypes'
  BY <1>1, <1>2, <1>3, <1>4, Zenon DEF WiFiTypes
<1>6. Idle' /\ Counted' /\ WiFi!NotTooEarly'
  BY <1>2, <1>3, Zenon DEF Idle, Counted, WiFi!NotTooEarly
<1> QED
  BY <1>5, <1>6 DEF WiFiInv

\* A pass that counts: the timer takes in the time since the last pass, but for
\* what was before a wrap; two wraps in one offline time are too far apart.
LEMMA CountingPass ==
  ASSUME WiFiTypes, Counted, lost_for # -1, ~ enable_AP, timer.running
  PROVE  LET u == WiFi!updateelapsed(timer)
         IN  /\ u \in WiFiTimer /\ u.running /\ u.lasttime = millis
             /\ u.elapsedtime <= lost_for
             /\ \/ u.elapsedtime = lost_for
                \/ lost_for <= u.elapsedtime + MaxPass /\ millis <= lost_for
<1> DEFINE u == WiFi!updateelapsed(timer)
           last == IF timer.lasttime > millis THEN 0 ELSE timer.lasttime
           e == timer.elapsedtime
           a == timer.lasttime
<1> USE WiFiConstants
<1>1. /\ millis \in 0 .. WiFiWrap - 1 /\ since_pass \in 0 .. MaxPass /\ lost_for \in Int
      /\ timer \in WiFiTimer
  BY DEF WiFiTypes
<1>2. e \in 0 .. WiFiWrap - 1 /\ a \in 0 .. WiFiWrap - 1
  BY <1>1 DEF WiFiTimer
<1>3. /\ lost_for - since_pass >= 0
      /\ e <= Patience /\ e <= lost_for - since_pass
      /\ millis = a + since_pass \/ millis = a + since_pass - WiFiWrap
      /\ \/ e = lost_for - since_pass
         \/ lost_for - since_pass <= e + MaxPass /\ a <= lost_for - since_pass
  BY Zenon DEF Counted, LostAtPass
<1>4. /\ u \in WiFiTimer /\ u.running = timer.running /\ u.lasttime = millis
      /\ timer.running /\ e + millis - last < WiFiWrap
           => u.elapsedtime = e + millis - last
  BY <1>1, TimerFacts, Zenon
<1>5. e + millis - last < WiFiWrap => u.elapsedtime = e + millis - last
  BY <1>4, Zenon
<1> HIDE DEF u, e, a
<1>6. CASE a <= millis
  <2>1. millis = a + since_pass
    BY <1>1, <1>2, <1>3, <1>6
  <2>2. last = a
    BY <1>1, <1>2, <1>6 DEF a
  <2>3. u.elapsedtime = e + since_pass
    BY <1>1, <1>2, <1>3, <1>5, <2>1, <2>2
  <2>4. u.elapsedtime <= lost_for
    BY <1>1, <1>2, <1>3, <2>3
  <2>5. u.elapsedtime = lost_for \/ (lost_for <= u.elapsedtime + MaxPass /\ millis <= lost_for)
    BY <1>1, <1>2, <1>3, <2>1, <2>3
  <2> QED
    BY <1>4, <2>4, <2>5, Zenon DEF u
<1>7. CASE a > millis
  <2>1. millis = a + since_pass - WiFiWrap
    BY <1>1, <1>2, <1>3, <1>7
  <2>2. last = 0
    BY <1>1, <1>2, <1>7 DEF a
  <2>3. u.elapsedtime = e + millis
    BY <1>1, <1>2, <1>3, <1>5, <2>1, <2>2
  <2>4. e = lost_for - since_pass
    BY <1>1, <1>2, <1>3, <2>1
  <2>5. u.elapsedtime <= lost_for /\ lost_for <= u.elapsedtime + MaxPass /\ millis <= lost_for
    BY <1>1, <1>2, <1>3, <2>1, <2>3, <2>4
  <2> QED
    BY <1>4, <2>5, Zenon DEF u
<1> QED
  BY <1>1, <1>2, <1>6, <1>7

LEMMA OfflineStep == WiFiInv /\ WiFi!Offline => WiFiInv'
<1> SUFFICES ASSUME WiFiInv, WiFi!Offline PROVE WiFiInv'
  OBVIOUS
<1> DEFINE begun == IF timer.running THEN timer ELSE WiFi!start(timer)
           u == WiFi!updateelapsed(begun)
<1>1. WiFiTypes /\ Idle /\ Counted /\ WiFi!NotTooEarly
  BY DEF WiFiInv
<1>2. /\ connected' = FALSE /\ wifi' = wifi /\ millis' = millis /\ since_pass' = 0
      /\ lost_for' = IF lost_for = -1 THEN 0 ELSE lost_for
      /\ timer' = IF enable_AP THEN begun ELSE u
      /\ enable_AP' = (enable_AP \/ u.elapsedtime > Patience)
  BY Zenon DEF WiFi!Offline
<1>3. /\ millis \in 0 .. WiFiWrap - 1 /\ wifi \in BOOLEAN /\ enable_AP \in BOOLEAN
      /\ timer \in WiFiTimer /\ lost_for \in -1 .. WiFi!Long
  BY <1>1, Zenon DEF WiFiTypes
<1>4. enable_AP' \in BOOLEAN
  BY <1>2, Zenon
<1>5. LostAtPass' = lost_for'
  BY <1>2, <1>3 DEF LostAtPass
<1> SUFFICES /\ timer' \in WiFiTimer /\ timer'.running
             /\ lost_for' \in 0 .. WiFi!Long
             /\ enable_AP' => lost_for' > Patience
             /\ ~ enable_AP' =>
                  /\ timer'.lasttime = millis
                  /\ timer'.elapsedtime <= Patience /\ timer'.elapsedtime <= lost_for'
                  /\ \/ timer'.elapsedtime = lost_for'
                     \/ lost_for' <= timer'.elapsedtime + MaxPass /\ millis <= lost_for'
  <2>1. lost_for' # -1 /\ lost_for' \in -1 .. WiFi!Long /\ 0 \in 0 .. MaxPass /\ lost_for' >= 0
        /\ millis = millis + 0
    BY <1>3, WiFiConstants
  <2>2. WiFiTypes'
    BY <1>2, <1>3, <1>4, <2>1, Zenon DEF WiFiTypes
  <2>3. Idle' /\ WiFi!NotTooEarly'
    BY <1>2, <2>1, Zenon DEF Idle, WiFi!NotTooEarly
  <2>4. Counted'
    BY <1>2, <1>5, <2>1, Zenon DEF Counted
  <2> QED
    BY <2>2, <2>3, <2>4 DEF WiFiInv
<1>6. CASE lost_for = -1
  <2>1. ~ enable_AP /\ ~ timer.running /\ timer.elapsedtime = 0
    BY <1>1, <1>6, Zenon DEF Idle
  <2>2. begun = [WiFi!updateelapsed(timer) EXCEPT !.running = TRUE]
    BY <1>3, <2>1, TimerFacts, Zenon
  <2>3. /\ WiFi!updateelapsed(timer) \in WiFiTimer
        /\ WiFi!updateelapsed(timer).lasttime = millis
        /\ WiFi!updateelapsed(timer).elapsedtime = 0
    BY <1>3, <2>1, TimerFacts, Zenon
  <2>4. begun \in WiFiTimer /\ begun.running = TRUE /\ begun.elapsedtime = 0 /\ begun.lasttime = millis
    <3> DEFINE v == WiFi!updateelapsed(timer)
               w == begun
    <3> HIDE DEF v, w
    <3>1. w = [v EXCEPT !.running = TRUE]
      BY <2>2, Zenon DEF v, w
    <3>2. v \in WiFiTimer /\ v.lasttime = millis /\ v.elapsedtime = 0
      BY <2>3, Zenon DEF v
    <3>3. w \in WiFiTimer /\ w.running = TRUE /\ w.elapsedtime = 0 /\ w.lasttime = millis
      BY <3>1, <3>2 DEF WiFiTimer
    <3> QED
      BY <3>3, Zenon DEF w
  <2> HIDE DEF begun
  <2>5. /\ u \in WiFiTimer /\ u.running = begun.running /\ u.lasttime = millis
        /\ LET last == IF begun.lasttime > millis THEN 0 ELSE begun.lasttime
           IN  begun.running /\ begun.elapsedtime + millis - last < WiFiWrap
                 => u.elapsedtime = begun.elapsedtime + millis - last
    BY <1>3, <2>4, TimerFacts, Zenon
  <2>6. (IF begun.lasttime > millis THEN 0 ELSE begun.lasttime) = millis
        /\ begun.elapsedtime + millis - millis < WiFiWrap
        /\ begun.elapsedtime + millis - millis = 0
    BY <1>3, <2>4, WiFiConstants
  <2>7. u.running /\ u.elapsedtime = 0
    BY <2>4, <2>5, <2>6, Zenon
  <2> HIDE DEF u
  <2>8. timer' = u /\ lost_for' = 0
    BY <1>2, <1>6, <2>1, Zenon
  <2>9. ~ (u.elapsedtime > Patience)
    BY <2>7, WiFiConstants
  <2>10. ~ enable_AP'
    BY <1>2, <2>1, <2>9, Zenon
  <2>11. lost_for' \in 0 .. WiFi!Long /\ u.elapsedtime <= Patience /\ u.elapsedtime <= lost_for'
    BY <2>7, <2>8, WiFiConstants
  <2> QED
    BY <2>5, <2>7, <2>8, <2>10, <2>11, Zenon
<1>7. CASE lost_for # -1
  <2>1. timer.running
    BY <1>1, <1>7, Zenon DEF Idle
  <2>2. begun = timer /\ lost_for' = lost_for
    BY <1>2, <1>7, <2>1, Zenon
  <2>3. lost_for \in 0 .. WiFi!Long
    BY <1>3, <1>7
  <2>4. CASE enable_AP
    <3>1. timer' = timer /\ enable_AP'
      BY <1>2, <2>2, <2>4, Zenon
    <3>2. lost_for' > Patience
      BY <1>1, <2>2, <2>4, Zenon DEF WiFi!NotTooEarly
    <3> QED
      BY <1>3, <2>1, <2>2, <2>3, <3>1, <3>2, Zenon
  <2>5. CASE ~ enable_AP
    <3>1. timer' = WiFi!updateelapsed(timer) /\ (enable_AP' <=> timer'.elapsedtime > Patience)
      BY <1>2, <2>2, <2>5, Zenon
    <3>2. /\ timer' \in WiFiTimer /\ timer'.running /\ timer'.lasttime = millis
          /\ timer'.elapsedtime <= lost_for
          /\ \/ timer'.elapsedtime = lost_for
             \/ lost_for <= timer'.elapsedtime + MaxPass /\ millis <= lost_for
      BY <1>1, <1>7, <2>1, <2>5, <3>1, CountingPass, Zenon
    <3>3. timer'.elapsedtime \in Nat
      BY <3>2 DEF WiFiTimer
    <3>4. timer'.elapsedtime > Patience => lost_for > Patience
      BY <2>3, <3>2, <3>3, WiFiConstants
    <3>5. ~ (timer'.elapsedtime > Patience) => timer'.elapsedtime <= Patience
      BY <3>3, WiFiConstants
    <3> QED
      BY <2>2, <2>3, <3>1, <3>2, <3>4, <3>5, Zenon
  <2> QED
    BY <2>4, <2>5
<1> QED
  BY <1>6, <1>7

LEMMA TickStep == WiFiInv /\ WiFi!Tick => WiFiInv'
<1> SUFFICES ASSUME WiFiInv, WiFi!Tick PROVE WiFiInv'
  OBVIOUS
<1> USE WiFiConstants
<1>1. WiFiTypes /\ Idle /\ Counted /\ WiFi!NotTooEarly
  BY DEF WiFiInv
<1>2. /\ since_pass < MaxPass /\ since_pass' = since_pass + 1
      /\ millis' = (millis + 1) % WiFiWrap
      /\ lost_for' = IF lost_for \in 0 .. WiFi!Long - 1 THEN lost_for + 1 ELSE lost_for
      /\ UNCHANGED <<wifi, connected, enable_AP, timer>>
  BY DEF WiFi!Tick
<1>3. /\ millis \in 0 .. WiFiWrap - 1 /\ since_pass \in 0 .. MaxPass
      /\ lost_for \in -1 .. WiFi!Long /\ timer \in WiFiTimer
  BY <1>1, Zenon DEF WiFiTypes
<1>4. millis' \in 0 .. WiFiWrap - 1 /\ (millis' = millis + 1 \/ millis' = millis + 1 - WiFiWrap)
  BY <1>2, <1>3
<1>5. since_pass' \in 0 .. MaxPass /\ lost_for' \in -1 .. WiFi!Long
      /\ (lost_for = -1 <=> lost_for' = -1) /\ lost_for' >= lost_for
  BY <1>2, <1>3
<1>6. WiFiTypes'
  BY <1>1, <1>2, <1>4, <1>5, Zenon DEF WiFiTypes
<1>7. Idle'
  BY <1>1, <1>2, <1>5, Zenon DEF Idle
<1>8. lost_for > Patience => lost_for' > Patience
  BY <1>3, <1>5
<1>9. WiFi!NotTooEarly'
  BY <1>1, <1>2, <1>8, Zenon DEF WiFi!NotTooEarly
<1>10. ASSUME lost_for' # -1, ~ enable_AP'
       PROVE  /\ LostAtPass' >= 0
              /\ timer.elapsedtime <= Patience /\ timer.elapsedtime <= LostAtPass'
              /\ \/ millis' = timer.lasttime + since_pass'
                 \/ millis' = timer.lasttime + since_pass' - WiFiWrap
              /\ \/ timer.elapsedtime = LostAtPass'
                 \/ LostAtPass' <= timer.elapsedtime + MaxPass /\ timer.lasttime <= LostAtPass'
  <2>1. timer.elapsedtime \in 0 .. WiFiWrap - 1 /\ timer.lasttime \in 0 .. WiFiWrap - 1
    BY <1>3 DEF WiFiTimer
  <2>2. /\ LostAtPass >= 0
        /\ timer.elapsedtime <= Patience /\ timer.elapsedtime <= LostAtPass
        /\ \/ millis = timer.lasttime + since_pass
           \/ millis = timer.lasttime + since_pass - WiFiWrap
        /\ \/ timer.elapsedtime = LostAtPass
           \/ LostAtPass <= timer.elapsedtime + MaxPass /\ timer.lasttime <= LostAtPass
    BY <1>1, <1>2, <1>5, <1>10, Zenon DEF Counted
  <2>3. lost_for \in 0 .. WiFi!Long - 1
    BY <1>2, <1>3, <1>5, <1>10, <2>1, <2>2 DEF LostAtPass
  <2>4. LostAtPass' = LostAtPass
    BY <1>2, <1>3, <2>3 DEF LostAtPass
  <2>5. millis' = timer.lasttime + since_pass' \/ millis' = timer.lasttime + since_pass' - WiFiWrap
    BY <1>2, <1>3, <1>4, <2>1, <2>2
  <2> QED
    BY <2>2, <2>4, <2>5, Zenon
<1>11. Counted'
  BY <1>2, <1>10, Zenon DEF Counted
<1> QED
  BY <1>6, <1>7, <1>9, <1>11 DEF WiFiInv

LEMMA WiFiStep == WiFiInv /\ [WiFi!Next]_(WiFi!vars) => WiFiInv'
<1> SUFFICES ASSUME WiFiInv, WiFi!Change \/ UNCHANGED WiFi!vars PROVE WiFiInv'
  BY OnlineStep, OfflineStep, TickStep DEF WiFi!Next
<1>1. /\ wifi' = ~ wifi \/ wifi' = wifi
      /\ UNCHANGED <<millis, connected, enable_AP, timer, since_pass, lost_for>>
  BY Zenon DEF WiFi!Change, WiFi!vars
<1>2. wifi' \in BOOLEAN
  BY <1>1, Zenon DEF WiFiInv, WiFiTypes
<1> QED
  BY <1>1, <1>2, Zenon DEF WiFiInv, WiFiTypes, Idle, Counted, LostAtPass, WiFi!NotTooEarly

\* The types of the WiFi's state, and that the access point is open in offline
\* times only (Network.cpp, Loop).
THEOREM WiFiTypeCorrect == WiFi!Spec => []WiFi!TypeOK
<1>1. WiFiInv => WiFi!TypeOK
  BY Zenon DEF WiFiInv, WiFiTypes, Idle, WiFi!TypeOK, WiFiTimer
<1> QED
  BY <1>1, WiFiInit, WiFiStep, PTL DEF WiFi!Spec

\* For any patience, however long a pass takes and whenever the clock wraps: the
\* access point opens neither before the network has been lost for longer than
\* Patience nor later than a pass after that (Network.cpp, Loop; Timer).
THEOREM WiFiInTime == WiFi!Spec => []WiFi!AccessPointInTime
<1>1. WiFiInv => WiFi!AccessPointInTime
  <2> SUFFICES ASSUME WiFiInv PROVE WiFi!NotTooLate
    BY DEF WiFiInv, WiFi!AccessPointInTime
  <2> SUFFICES ASSUME since_pass = 0, lost_for > Patience + MaxPass, ~ enable_AP PROVE FALSE
    BY DEF WiFi!NotTooLate
  <2>1. lost_for \in Int /\ timer \in WiFiTimer
    BY DEF WiFiInv, WiFiTypes
  <2>2. timer.elapsedtime \in Nat /\ LostAtPass = lost_for /\ lost_for # -1
    BY <2>1, WiFiConstants DEF WiFiTimer, LostAtPass
  <2>3. /\ timer.elapsedtime <= Patience
        /\ timer.elapsedtime = LostAtPass \/ LostAtPass <= timer.elapsedtime + MaxPass
    BY <2>2, Zenon DEF WiFiInv, Counted
  <2> QED
    BY <2>1, <2>2, <2>3, WiFiConstants
<1> QED
  BY <1>1, WiFiInit, WiFiStep, PTL DEF WiFi!Spec

-----------------------------------------------------------------------------
(* StoredValues. Between two Sets each file holds what was set last; from    *)
(* there on it is followed through the steps of a Set.                       *)

LEMMA FileConstants ==
  /\ Saveable \subseteq Nat /\ Initial \in Data
  /\ MCSafeName \in [Saveable -> Name]
  /\ "absent" \notin Data /\ "empty" \notin Data
  /\ MaxFaults \in Nat
  BY PartsAssumption, Zenon DEF Files!StoredValuesAssumption, Files!Absent, Files!Empty

\* Values have files of their own.
LEMMA FileNames ==
  /\ \A i \in Saveable : Files!file_name(i) \in Files!File
  /\ \A i, j \in Saveable : Files!file_name(i) = Files!file_name(j) => i = j
  BY FileConstants DEF Files!file_name, Files!File

FileTypes ==
  /\ value \in [Saveable -> Data] /\ saved \in [Saveable -> Data]
  /\ file \in [Files!File -> Data \cup {"absent", "empty"}]
  /\ spoiled \subseteq Saveable /\ faults \in 0 .. MaxFaults
  /\ \A f \in Files!File : file[f] # "absent" => \E i \in Saveable : f = Files!file_name(i)

\* How far the Set in progress is, and what its file holds.
InProgress ==
  \/ setting = Files!NoSet
  \/ /\ setting \in [of : Saveable, at : {"write"}]
     /\ file[Files!file_name(setting.of)] = "empty"
  \/ /\ setting \in [of : Saveable, at : {"close"}]
     /\ file[Files!file_name(setting.of)] \in {"empty", value[setting.of]}

\* The file of a value that is not being set and was not spoiled.
Kept ==
  \A i \in Saveable \ spoiled :
    setting.of # i =>
      \/ file[Files!file_name(i)] = saved[i]
      \/ file[Files!file_name(i)] = "absent" /\ saved[i] = Initial

FilesInv == FileTypes /\ InProgress /\ Kept

LEMMA FilesInit == Files!Init => FilesInv
<1> SUFFICES ASSUME Files!Init PROVE FilesInv
  OBVIOUS
<1> USE FileConstants DEF Files!Init, Files!Absent, Files!Empty
<1>1. FileTypes
  BY DEF FileTypes
<1>2. InProgress
  BY DEF InProgress
<1>3. Kept
  BY FileNames DEF Kept
<1> QED
  BY <1>1, <1>2, <1>3 DEF FilesInv

\* A step that begins or ends no Set, and leaves all files.
LEMMA FilesRest ==
  ASSUME FilesInv, value' \in [Saveable -> Data], setting = Files!NoSet, setting' = setting,
         UNCHANGED <<file, saved>>, spoiled \subseteq spoiled', spoiled' \subseteq Saveable,
         faults' \in 0 .. MaxFaults
  PROVE  FilesInv'
<1>1. FileTypes'
  BY DEF FilesInv, FileTypes
<1>2. InProgress'
  BY DEF InProgress
<1>3. Kept'
  BY Zenon DEF FilesInv, Kept
<1> QED
  BY <1>1, <1>2, <1>3 DEF FilesInv

LEMMA FaultCount ==
  ASSUME FileTypes, Files!Fault PROVE faults' \in 0 .. MaxFaults
  BY FileConstants DEF FileTypes, Files!Fault

LEMMA SetStep ==
  ASSUME FilesInv, NEW i \in Saveable, NEW x \in Data, Files!Set(i, x) PROVE FilesInv'
<1> USE FileConstants, FileNames
<1>1. FileTypes /\ Kept
  BY DEF FilesInv
<1>2. /\ setting = Files!NoSet /\ value' = [value EXCEPT ![i] = x]
      /\ file' = [file EXCEPT ![Files!file_name(i)] = "empty"]
      /\ setting' = [of |-> i, at |-> "write"]
      /\ UNCHANGED <<saved, spoiled, faults>>
  BY Zenon DEF Files!Set, Files!Empty
<1>3. FileTypes'
  BY <1>1, <1>2 DEF FileTypes
<1>4. InProgress'
  BY <1>1, <1>2 DEF InProgress, FileTypes
<1>5. Kept'
  <2> SUFFICES ASSUME NEW j \in Saveable \ spoiled, j # i
               PROVE  \/ file'[Files!file_name(j)] = saved[j]
                      \/ file'[Files!file_name(j)] = "absent" /\ saved[j] = Initial
    BY <1>2 DEF Kept
  <2>1. setting.of # j
    BY <1>2 DEF Files!NoSet
  <2>2. file'[Files!file_name(j)] = file[Files!file_name(j)]
    BY <1>1, <1>2 DEF FileTypes
  <2> QED
    BY <1>1, <2>1, <2>2 DEF Kept
<1> QED
  BY <1>3, <1>4, <1>5 DEF FilesInv

LEMMA WriteStep == FilesInv /\ Files!Write => FilesInv'
<1> SUFFICES ASSUME FilesInv, Files!Write PROVE FilesInv'
  OBVIOUS
<1> USE FileConstants, FileNames
<1> DEFINE i == setting.of
<1>1. FileTypes /\ Kept /\ InProgress
  BY DEF FilesInv
<1>2. /\ setting.at = "write"
      /\ \/ file' = [file EXCEPT ![Files!file_name(i)] = value[i]]
         \/ file' = file
      /\ setting' = [setting EXCEPT !.at = "close"]
      /\ UNCHANGED <<value, saved, spoiled, faults>>
  BY Zenon DEF Files!Write
<1>3. /\ setting \in [of : Saveable, at : {"write"}] /\ i \in Saveable
      /\ file[Files!file_name(i)] = "empty"
  BY <1>1, <1>2 DEF InProgress, Files!NoSet
<1>4. setting' \in [of : Saveable, at : {"close"}] /\ setting'.of = i
  BY <1>2, <1>3
<1>5. /\ file' \in [Files!File -> Data \cup {"absent", "empty"}]
      /\ file'[Files!file_name(i)] \in {"empty", value[i]}
      /\ \A f \in Files!File : f # Files!file_name(i) => file'[f] = file[f]
  BY <1>1, <1>2, <1>3 DEF FileTypes
<1>6. FileTypes'
  BY <1>1, <1>2, <1>3, <1>5 DEF FileTypes
<1>7. InProgress'
  BY <1>2, <1>4, <1>5 DEF InProgress
<1>8. Kept'
  BY <1>1, <1>2, <1>3, <1>4, <1>5 DEF Kept
<1> QED
  BY <1>6, <1>7, <1>8 DEF FilesInv

LEMMA CloseStep == FilesInv /\ Files!Close => FilesInv'
<1> SUFFICES ASSUME FilesInv, Files!Close PROVE FilesInv'
  OBVIOUS
<1> USE FileConstants, FileNames
<1> DEFINE i == setting.of
<1>1. FileTypes /\ Kept /\ InProgress
  BY DEF FilesInv
<1>2. /\ setting.at = "close"
      /\ file' = [file EXCEPT ![Files!file_name(i)] = IF @ = "empty" THEN value[i] ELSE @]
      /\ setting' = Files!NoSet
      /\ saved' = [saved EXCEPT ![i] = value[i]]
      /\ spoiled' = spoiled \ {i}
      /\ UNCHANGED <<value, faults>>
  BY Zenon DEF Files!Close, Files!Empty
<1>3. i \in Saveable /\ file[Files!file_name(i)] \in {"empty", value[i]}
  BY <1>1, <1>2 DEF InProgress, Files!NoSet
<1>4. /\ file' \in [Files!File -> Data \cup {"absent", "empty"}]
      /\ file'[Files!file_name(i)] = value[i] /\ saved'[i] = value[i]
      /\ saved' \in [Saveable -> Data]
      /\ \A f \in Files!File : f # Files!file_name(i) => file'[f] = file[f]
      /\ \A j \in Saveable : j # i => saved'[j] = saved[j]
  BY <1>1, <1>2, <1>3 DEF FileTypes
<1>5. FileTypes'
  BY <1>1, <1>2, <1>3, <1>4 DEF FileTypes
<1>6. InProgress'
  BY <1>2 DEF InProgress
<1>7. Kept'
  BY <1>1, <1>2, <1>3, <1>4 DEF Kept
<1> QED
  BY <1>5, <1>6, <1>7 DEF FilesInv

LEMMA OpenFailsStep ==
  ASSUME FilesInv, NEW i \in Saveable, NEW x \in Data,
         Files!OpenFails(i, x) \/ Files!Set_NoSave(i, x)
  PROVE  FilesInv'
<1>1. /\ setting = Files!NoSet /\ setting' = setting /\ UNCHANGED <<file, saved>>
      /\ value' = [value EXCEPT ![i] = x]
      /\ spoiled' = spoiled \cup {i} \/ spoiled' = spoiled
      /\ Files!Fault \/ faults' = faults
  BY Zenon DEF Files!OpenFails, Files!Set_NoSave
<1>2. value' \in [Saveable -> Data] /\ spoiled \subseteq spoiled' /\ spoiled' \subseteq Saveable
  BY <1>1 DEF FilesInv, FileTypes
<1>3. faults' \in 0 .. MaxFaults
  BY <1>1, FaultCount, Zenon DEF FilesInv, FileTypes
<1> QED
  BY <1>1, <1>2, <1>3, FilesRest

\* A Set that ends too early spoils its value, and no other.
LEMMA CutOff ==
  ASSUME FilesInv, value' \in [Saveable -> Data], setting' = Files!NoSet,
         UNCHANGED <<file, saved>>, spoiled' = spoiled \cup ({setting.of} \cap Saveable),
         faults' \in 0 .. MaxFaults
  PROVE  FilesInv'
<1>1. FileTypes'
  BY DEF FilesInv, FileTypes
<1>2. InProgress'
  BY DEF InProgress
<1>3. Kept'
  BY DEF FilesInv, Kept
<1> QED
  BY <1>1, <1>2, <1>3 DEF FilesInv

LEMMA WriteFailsStep == FilesInv /\ Files!WriteFails => FilesInv'
<1> SUFFICES ASSUME FilesInv, Files!WriteFails PROVE FilesInv'
  OBVIOUS
<1>1. /\ setting.at = "write" /\ setting' = Files!NoSet /\ Files!Fault
      /\ spoiled' = spoiled \cup {setting.of} /\ UNCHANGED <<value, file, saved>>
  BY Zenon DEF Files!WriteFails
<1>2. setting.of \in Saveable
  BY <1>1 DEF FilesInv, InProgress, Files!NoSet
<1>3. faults' \in 0 .. MaxFaults /\ value' \in [Saveable -> Data]
  BY <1>1, FaultCount DEF FilesInv, FileTypes
<1> QED
  BY <1>1, <1>2, <1>3, CutOff

LEMMA RestartStep == FilesInv /\ Files!Restart => FilesInv'
<1> SUFFICES ASSUME FilesInv, Files!Restart PROVE FilesInv'
  OBVIOUS
<1>1. /\ value' \in [Saveable -> Data] /\ setting' = Files!NoSet /\ Files!Fault
      /\ spoiled' = spoiled \cup ({setting.of} \cap Saveable) /\ UNCHANGED <<file, saved>>
  BY Zenon DEF Files!Restart
<1>2. faults' \in 0 .. MaxFaults
  BY <1>1, FaultCount DEF FilesInv
<1> QED
  BY <1>1, <1>2, CutOff

LEMMA FilesStep == FilesInv /\ [Files!Next]_(Files!vars) => FilesInv'
<1> SUFFICES ASSUME FilesInv, UNCHANGED Files!vars PROVE FilesInv'
  BY SetStep, WriteStep, CloseStep, OpenFailsStep, WriteFailsStep, RestartStep DEF Files!Next
<1> QED
  BY Zenon DEF Files!vars, FilesInv, FileTypes, InProgress, Kept

\* The types of the stored values' state, and that only a file which is being
\* written or was spoiled is empty (IO_SaveableValue.h).
THEOREM FilesTypeCorrect == Files!Spec => []Files!TypeOK
<1>1. FilesInv => Files!TypeOK
  <2> SUFFICES ASSUME FilesInv PROVE Files!TypeOK
    OBVIOUS
  <2> USE FileConstants DEF FilesInv
  <2>1. setting \in [of : {-1} \cup Saveable, at : {"none", "write", "close"}]
    BY DEF InProgress, Files!NoSet
  <2>2. \A i \in Saveable : file[Files!file_name(i)] = "empty" => i \in spoiled \cup {setting.of}
    BY DEF Kept, FileTypes
  <2> QED
    BY <2>1, <2>2, Zenon DEF FileTypes, Files!TypeOK, Files!Absent, Files!Empty
<1> QED
  BY <1>1, FilesInit, FilesStep, PTL DEF Files!Spec

\* For any values, names and numbers of faults, and wherever the power is lost:
\* what was set last of each value is read again, except of the one that was being
\* set and of those whose last Set has failed (IO_SaveableValue.h, ReadFromFile).
THEOREM PowerLossHarmsOne == Files!Spec => Files!OthersSurvive
<1>1. FilesInv /\ [Files!Next]_(Files!vars) =>
        [Files!Restart => \A i \in Saveable \ spoiled' : value'[i] = saved[i]]_(Files!vars)
  <2> SUFFICES ASSUME FilesInv, Files!Restart, NEW i \in Saveable \ spoiled'
               PROVE  value'[i] = saved[i]
    OBVIOUS
  <2>1. value'[i] \in Files!ReadFromFile(i) /\ i \notin spoiled /\ setting.of # i
    BY DEF Files!Restart
  <2>2. saved[i] \in Data
    BY DEF FilesInv, FileTypes
  <2>3. \/ file[Files!file_name(i)] = saved[i]
        \/ file[Files!file_name(i)] = "absent" /\ saved[i] = Initial
    BY <2>1 DEF FilesInv, Kept
  <2>4. Files!ReadFromFile(i) = {saved[i]}
    BY <2>2, <2>3, FileConstants DEF Files!ReadFromFile, Files!Absent, Files!Empty
  <2> QED
    BY <2>1, <2>4
<1> QED
  BY <1>1, FilesInit, FilesStep, PTL DEF Files!Spec, Files!OthersSurvive

-----------------------------------------------------------------------------
(* The parts side by side: what one does leaves the others alone.            *)

LEMMA PartsMove ==
  [MCNext]_MCvars =>
    /\ [Next]_vars /\ [Clock!Next]_(Clock!vars)
    /\ [WiFi!Next]_(WiFi!vars) /\ [Files!Next]_(Files!vars)
<1> SUFFICES ASSUME [MCNext]_MCvars
             PROVE  /\ Next \/ UNCHANGED vars
                    /\ Clock!Next \/ UNCHANGED clock_vars
                    /\ WiFi!Next \/ UNCHANGED wifi_vars
                    /\ Files!Next \/ UNCHANGED file_vars
  BY DEF clock_vars, wifi_vars, file_vars, Clock!vars, WiFi!vars, Files!vars
<1>1. CASE UNCHANGED MCvars
  BY <1>1 DEF MCvars
<1>2. CASE MCNext
  BY <1>2, Zenon DEF MCNext
<1> QED
  BY <1>1, <1>2

\* A behaviour of the whole is one of every part.
LEMMA PartsBehave == MCSpec => Spec /\ Clock!Spec /\ WiFi!Spec /\ Files!Spec
<1>1. MCInit => Init /\ Clock!Init /\ WiFi!Init /\ Files!Init
  BY DEF MCInit
<1> QED
  BY <1>1, PartsMove, PTL DEF MCSpec, Spec, Clock!Spec, WiFi!Spec, Files!Spec

\* The state of all parts has its types.
THEOREM PartsTypeCorrect == MCSpec => []TypesOK
  BY PartsBehave, TypeCorrect, ClockTypeCorrect, WiFiTypeCorrect, FilesTypeCorrect, PTL DEF TypesOK

\* Before its clock wraps, the repeater of the device executes nothing early and
\* loses nothing (Repeater.cpp, repeatnow).
THEOREM PartsScheduled == MCSpec => []OnScheduleBeforeWrap
  BY PartsBehave, Scheduled, PTL DEF OnScheduleBeforeWrap

\* The access point of the device opens in time, and not before (Network.cpp, Loop).
THEOREM PartsInTime == MCSpec => []AccessPointInTime
  BY PartsBehave, WiFiInTime, PTL DEF AccessPointInTime

\* A power loss harms only the value that is being set (IO_SaveableValue.h).
THEOREM PartsSurvive == MCSpec => OthersSurvive
  BY PartsBehave, PowerLossHarmsOne DEF OthersSurvive

=============================================================================
