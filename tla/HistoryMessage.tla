--------------------------- MODULE HistoryMessage ---------------------------
(***************************************************************************)
(* A history on its way from the database to the charts: the entries that  *)
(* Database_uDAQC.getHistory writes for the rows it has selected, and what *)
(* RawHistory and AggregateHistory of uDAQC_IO.js read from them. Nothing  *)
(* in the message tells where a value begins: both sides go by the         *)
(* description of the system.                                              *)
(*                                                                         *)
(* Simplifications:                                                        *)
(* - The value in column n of row r is <<"datum", r, n, m>>; m counts the  *)
(*   aggregates of the value, and is 1 in raw data.                        *)
(* - The message has room for the rows (HistoryConnection is about that).  *)
(***************************************************************************)
EXTENDS DataView, SequencesExt

CONSTANT Null  \* null and undefined

\* Null is no datum.
ASSUME HistoryMessageAssumption == Null \notin Seq({"datum"} \cup Int)

aggregates_per_value == 3

Copies(aggregate) == IF aggregate THEN aggregates_per_value ELSE 1

\* A layout lists the nested values of a system; the first is the timestamp.
\* Column n is the value behind n others: n of them are charted.
ColumnCount(layout) == Len(layout) - 1
Column(layout, n) == layout[n + 1]

Datum(r, n, m) == <<"datum", r, n, m>>

-----------------------------------------------------------------------------
(* The Center writes. *)

\* A bool is stored as a float in the aggregates.
WrittenWidth(value, aggregate) ==
  IF aggregate /\ value.type = "bool" THEN 4 ELSE value.size

WrittenColumn(layout, r, n, aggregate) ==
  FlattenSeq([m \in 1 .. Copies(aggregate) |->
                Bytes(Datum(r, n, m), WrittenWidth(Column(layout, n), aggregate))])

\* Raw entries begin with the flag end_of_epoch; all have the time.
Entry(layout, row, r, aggregate) ==
  (IF aggregate THEN <<>> ELSE Bytes(<<"flag", row.end_of_epoch>>, 1))
    \o Long(row.time)
    \o FlattenSeq([n \in 1 .. ColumnCount(layout) |-> WrittenColumn(layout, r, n, aggregate)])

getHistory(layout, rows, aggregate) ==
  FlattenSeq([r \in DOMAIN rows |-> Entry(layout, rows[r], r, aggregate)])

-----------------------------------------------------------------------------
(* The browser reads. *)

\* A history under construction, and the pointer into its message.
NewHistory(layout, aggregate) ==
  [pointer |-> 0,
   thrown  |-> FALSE,
   times   |-> <<>>,
   values  |-> [n \in 1 .. ColumnCount(layout) |-> [m \in 1 .. Copies(aggregate) |-> <<>>]]]

\* Mutant of startNewEpoch: the labels are left as they are.
startNewEpoch_SameTimes(h) ==
  IF h.times = <<>> THEN h
  ELSE [h EXCEPT !.values = [n \in DOMAIN h.values |->
                               [m \in DOMAIN h.values[n] |-> Append(h.values[n][m], Null)]]]

\* A gap in every column, at the time of the last row.
startNewEpoch(h) ==
  IF h.times = <<>> THEN h
  ELSE [h EXCEPT !.times = Append(@, Last(@)),
                 !.values = [n \in DOMAIN h.values |->
                               [m \in DOMAIN h.values[n] |-> Append(h.values[n][m], Null)]]]

\* Value m of column n: message.get of the description's type and width.
ReadDatum(layout, message, h, n, m) ==
  LET v == Column(layout, n)
  IN  IF h.thrown \/ PeekThrows(message, h.pointer, v.type, v.size)
      THEN [h EXCEPT !.thrown = TRUE]
      ELSE [h EXCEPT !.pointer = AfterGet(h.pointer, v.type, v.size),
                     !.values[n][m] = Append(@, Peek(message, h.pointer, v.type, v.size))]

\* message.getFloat32.
ReadFloat32(message, h, n, m) ==
  IF h.thrown \/ ~ InBuffer(message, h.pointer, 4)
  THEN [h EXCEPT !.thrown = TRUE]
  ELSE [h EXCEPT !.pointer = @ + 4,
                 !.values[n][m] = Append(@, Read(message, h.pointer, 4))]

\* The switch in AggregateHistory goes by the value before the one it reads.
ReadAggregate(layout, message, h, n, m) ==
  IF layout[n].type = "bool" THEN ReadFloat32(message, h, n, m)
                             ELSE ReadDatum(layout, message, h, n, m)

\* The time of an entry, after skip bytes.
ReadTime(message, h, skip) ==
  IF ~ InBuffer(message, h.pointer + skip, 8) THEN [h EXCEPT !.thrown = TRUE]
  ELSE [h EXCEPT !.times = Append(@, ReadInt64(message, h.pointer + skip)),
                 !.pointer = @ + skip + 8]

\* The aggregates of column n.
ReadColumn(layout, message, h, n) ==
  LET g[m \in 0 .. aggregates_per_value] ==
        IF m = 0 THEN h ELSE ReadAggregate(layout, message, g[m - 1], n, m)
  IN  g[aggregates_per_value]

ReadAggregateEntry(layout, message, h) ==
  LET g[n \in 0 .. ColumnCount(layout)] ==
        IF n = 0 THEN ReadTime(message, h, 0) ELSE ReadColumn(layout, message, g[n - 1], n)
  IN  g[ColumnCount(layout)]

\* The time of a raw entry, behind its flag, and the values.
ReadRow(layout, message, h) ==
  LET g[n \in 0 .. ColumnCount(layout)] ==
        IF n = 0 THEN ReadTime(message, h, 1) ELSE ReadDatum(layout, message, g[n - 1], n, 1)
  IN  g[ColumnCount(layout)]

\* The flag of a raw entry. A byte of something else may be odd or even.
EndOfEpoch(message, p, odd) ==
  LET flags == Read(message, p, 1)
  IN  IF flags # Garbage /\ flags[1] = "flag" THEN flags[2] ELSE odd

\* Mutant of ReadRawEntry: the epoch ends before the row with the flag.
ReadRawEntry_GapBefore(layout, message, h, odd) ==
  ReadRow(layout, message, IF EndOfEpoch(message, h.pointer, odd) THEN startNewEpoch(h) ELSE h)

ReadRawEntry(layout, message, h, odd) ==
  LET g == ReadRow(layout, message, h)
  IN  IF ~ g.thrown /\ EndOfEpoch(message, h.pointer, odd) THEN startNewEpoch(g) ELSE g

ReadEntry(layout, message, h, aggregate, odd) ==
  IF aggregate THEN ReadAggregateEntry(layout, message, h)
               ELSE ReadRawEntry(layout, message, h, odd)

\* While bytes remain and nothing is thrown.
ReadMore(layout, message, h, aggregate, odd) ==
  IF h.thrown \/ h.pointer >= Len(message) THEN h
  ELSE ReadEntry(layout, message, h, aggregate, odd)

\* Each entry takes at least the eight bytes of its time.
EntriesAtMost(message) == Len(message) \div 8 + 1

processEntries(layout, message, aggregate, odd) ==
  LET h[i \in 0 .. EntriesAtMost(message)] ==
        IF i = 0 THEN NewHistory(layout, aggregate)
                 ELSE ReadMore(layout, message, h[i - 1], aggregate, odd)
  IN  h[EntriesAtMost(message)]

-----------------------------------------------------------------------------
(* The ends of a time axis. *)

Extent(times) ==
  IF times = <<>> THEN [min |-> Null, max |-> Null]
  ELSE IF Garbage \in Range(times) THEN [min |-> Garbage, max |-> Garbage]
  ELSE [min |-> CHOOSE t \in Range(times) : \A u \in Range(times) : t <= u,
        max |-> CHOOSE t \in Range(times) : \A u \in Range(times) : u <= t]

\* A layout that both sides understand alike: peek moves the pointer twice
\* over a 64-bit integer, and reads bools in aggregates as single bytes.
Readable(layout, aggregate) ==
  \A n \in 1 .. ColumnCount(layout) :
    /\ Column(layout, n).size # 8 \/ Column(layout, n).type = "floating_point"
    /\ aggregate => Column(layout, n).type # "bool"
=============================================================================
