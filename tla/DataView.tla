------------------------------ MODULE DataView ------------------------------
(***************************************************************************)
(* The readers and writers of message buffers in the browser               *)
(* (DataViewReader and DataViewWriter of uDAQC_IO.js): how wide a value is *)
(* read, how far the pointer moves, and how 64-bit integers are put        *)
(* together from 32-bit halves, for want of such an operation.             *)
(*                                                                         *)
(* Simplifications:                                                        *)
(* - A byte of a buffer is <<thing, k, n>>, the k-th of the n bytes that   *)
(*   the thing is written in. What is read is the thing if it is all of    *)
(*   its bytes in order, and Garbage otherwise.                            *)
(* - Numbers are exact: the 53 bits of a double hold every time in use.    *)
(***************************************************************************)
EXTENDS Integers, Sequences

CONSTANTS
  max_uint32,  \* 2^32; an instance for TLC takes a smaller even number
  Garbage      \* what bytes of several things, or a part of one, read as

\* Garbage is neither a half of a time nor a flag.
ASSUME DataViewAssumption ==
  /\ max_uint32 \in Nat \ {0}
  /\ max_uint32 % 2 = 0
  /\ Garbage \notin Seq({"half", "flag"} \cup Int \cup BOOLEAN)

-----------------------------------------------------------------------------
(* 64-bit integers. *)

Half == max_uint32 \div 2

Int64 == - (Half * max_uint32) .. Half * max_uint32 - 1

\* The remainder of JavaScript, which has the sign of the dividend.
Remainder(v) == IF v >= 0 THEN v % max_uint32 ELSE - ((- v) % max_uint32)

\* DataView.setInt32 keeps the low 32 bits.
Uint32(v) == v % max_uint32
Int32(v) == ((v + Half) % max_uint32) - Half

\* Mutant of PutInt64: the quotient is rounded towards zero.
PutInt64_Truncated(v) ==
  [little |-> Uint32(Remainder(v)),
   big |-> Int32(IF v >= 0 THEN v \div max_uint32 ELSE - ((- v) \div max_uint32))]

\* putInt64: the two halves as they are in the buffer.
PutInt64(v) == [little |-> Uint32(Remainder(v)), big |-> Int32(v \div max_uint32)]

\* getInt64. The operator ~ of JavaScript maps n to -n - 1.
GetInt64(h) ==
  IF h.big >= 0 THEN h.little + h.big * max_uint32
                ELSE - ((max_uint32 - h.little) + (- h.big - 1) * max_uint32)

\* putLong and getLong of a little-endian ByteBuffer: two's complement.
PutLong(v) == [little |-> v % max_uint32, big |-> v \div max_uint32]
GetLong(h) == h.little + h.big * max_uint32

-----------------------------------------------------------------------------
(* Buffers. *)

Bytes(thing, n) == [k \in 1 .. n |-> <<thing, k, n>>]

Long(v) == Bytes(<<"half", PutLong(v).little>>, 4) \o Bytes(<<"half", PutLong(v).big>>, 4)

\* The thing that the n bytes behind pointer p make.
Read(buffer, p, n) ==
  LET cells == SubSeq(buffer, p + 1, p + n)
  IN  IF cells = Bytes(cells[1][1], n) THEN cells[1][1] ELSE Garbage

\* An access behind the end of the buffer is a RangeError.
InBuffer(buffer, p, n) == p + n <= Len(buffer)

\* getInt64 on a buffer: two reads of four bytes.
ReadInt64(buffer, p) ==
  LET little == Read(buffer, p, 4)
      big == Read(buffer, p + 4, 4)
  IN  IF little = Garbage \/ big = Garbage THEN Garbage
      ELSE GetInt64([little |-> little[2], big |-> big[2]])

\* The widths that peek knows. It only logs another one, and reads nothing.
PeekWidths(type) ==
  CASE type = "signed_integer" -> {1, 2, 4, 8}
    [] type = "unsigned_integer" -> {1, 2, 4}
    [] type = "floating_point" -> {4, 8}
    [] type = "bool" -> {1}

\* peek throws: there is no DataView.getUint64, or the buffer has ended.
PeekThrows(buffer, p, type, n) ==
  \/ type = "unsigned_integer" /\ n = 8
  \/ n \in PeekWidths(type) /\ ~ InBuffer(buffer, p, n)

Peek(buffer, p, type, n) ==
  IF n \in PeekWidths(type) THEN Read(buffer, p, n) ELSE Garbage

\* Mutant of AfterGet: the pointer moves by four bytes whatever is read.
AfterGet_Four(p, type, n) == p + 4

\* The pointer after get. peek reads a 64-bit integer with getInt64, which
\* moves the pointer; get then moves it again.
AfterGet(p, type, n) ==
  p + n + (IF type = "signed_integer" /\ n = 8 THEN 8 ELSE 0)
=============================================================================
