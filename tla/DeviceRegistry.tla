--------------------------- MODULE DeviceRegistry ---------------------------
(***************************************************************************)
(* The Center's devices, from the TCP session that brings a description to *)
(* the rows in the database: Center.messageReceived and sessionClosed, the *)
(* static device list of IO_Device_Connected with its mutex, the tables    *)
(* devices and raw of Database_uDAQC, and the restart of the program.      *)
(*                                                                         *)
(* All statements go through one connection, which the history requests of *)
(* web clients switch to manual commit (Database_uDAQC.getHistory). What   *)
(* is written then is durable with their commit only, and undone if any    *)
(* statement of any thread fails before it. HistoryConnection has these    *)
(* requests step by step; here they are what they do to the connection.    *)
(*                                                                         *)
(* Every session has its events handled one after another, on the thread   *)
(* of its I/O processor; the handlers of two sessions interleave.          *)
(*                                                                         *)
(* Simplifications:                                                        *)
(* - A session is a connection ever made: a name is used once.             *)
(* - A device has one system, so one table of rows.                        *)
(* - Rows are stored in the order of their time: a device sends over one   *)
(*   connection at a time and its clock does not go back.                  *)
(* - The session field of a device object is left out: TimeSync and        *)
(*   Send_Command read it, nothing here does.                              *)
(***************************************************************************)
EXTENDS Integers, Sequences, FiniteSets, SequencesExt

CONSTANTS
  Sessions,   \* TCP sessions, and the device object each one makes
  Descs,      \* device descriptions, and the object loadDevices makes of each
  DescOf,     \* the description a session brings
  Names,      \* device names, which name the tables of rows
  NameOf,     \* the name in a description
  None,       \* nobody, nothing
  Histories,  \* bound: whether web clients ask for histories
  Faulty,     \* bound: the kinds of fault that happen
  MaxRows     \* bound: rows in the table of each name

ASSUME RegistryAssumption ==
  /\ Sessions \cap Descs = {}
  /\ None \notin Sessions
  /\ None \notin Descs
  /\ DescOf \in [Sessions -> Descs]
  /\ NameOf \in [Descs -> Names]
  /\ Histories \in BOOLEAN
  /\ Faulty \subseteq {"sql", "race"}
  /\ MaxRows \in [Names -> Nat]

VARIABLES
  phase,     \* of the program: loadDevices runs before the server starts
  pc,        \* where the handlers of a session are
  live,      \* sessions whose device is still there
  mutex,     \* who holds device_list_mutex
  vec,       \* IO_Device_Connected.devices
  index,     \* device_index of the objects
  map,       \* Center.devices: the sessions it has a device for
  synced,    \* sessions whose synchronizer is synced
  selected,  \* the row that closeEpoch has selected for a session
  db,        \* the table devices, as the connection sees it
  columns,   \* the description whose columns a table of rows has, likewise
  rows,      \* the tables of rows: who wrote a row, and end_of_epoch, likewise
  commit,    \* how the connection commits, and whether its transaction is aborted
  disk,      \* the three tables as they are committed
  lost,      \* history: devices whose insertion or table has failed or been undone
  faults     \* history: SQL errors, overlapping accesses to Center.devices

vars == <<phase, pc, live, mutex, vec, index, map, synced, selected,
          db, columns, rows, commit, disk, lost, faults>>

memory == <<vec, index, map, synced>>
tables == <<db, columns, rows>>
database == <<tables, commit, disk, lost>>

\* The tables as the connection sees them.
Seen == [db |-> db, columns |-> columns, rows |-> rows]

Objects == Sessions \cup Descs

Row == [by : Sessions, end_of_epoch : BOOLEAN]

\* The description of a device object.
Description(o) == IF o \in Sessions THEN DescOf[o] ELSE o

Name(s) == NameOf[DescOf[s]]

\* The handlers of a session that holds the mutex.
Holding == {"search", "insert", "create", "add"}

Place == {"none", "open", "acquire", "put", "sync", "ready", "select", "flag",
          "unmap", "done"} \cup Holding

TypeOK ==
  /\ phase \in {"loading", "serving"}
  /\ pc \in [Sessions -> Place]
  /\ live \subseteq Sessions
  /\ mutex \in Sessions \cup {None}
  /\ vec \in Seq(Objects)
  /\ index \in [Objects -> Nat \cup {-1}]
  /\ map \subseteq Sessions
  /\ synced \subseteq Sessions
  /\ selected \in [Sessions -> Nat]
  /\ db \subseteq Descs
  /\ columns \in [Names -> Descs \cup {None}]
  /\ rows \in [Names -> Seq(Row)]
  /\ commit \in {"auto", "manual", "aborted"}
  /\ disk \in [db : SUBSET Descs, columns : [Names -> Descs \cup {None}],
              rows : [Names -> Seq(Row)]]
  /\ lost \subseteq Descs
  /\ faults \subseteq Faulty

Init ==
  /\ phase = "loading"
  /\ pc = [s \in Sessions |-> "none"]
  /\ live = {}
  /\ mutex = None
  /\ vec = <<>>
  /\ index = [o \in Objects |-> -1]
  /\ map = {}
  /\ synced = {}
  /\ selected = [s \in Sessions |-> 0]
  /\ db = {}
  /\ columns = [n \in Names |-> None]
  /\ rows = [n \in Names |-> <<>>]
  /\ commit = "auto"
  /\ disk = Seen
  /\ lost = {}
  /\ faults = {}

-----------------------------------------------------------------------------
(* The database. Every statement may fail, and each one does in an aborted    *)
(* transaction: ok tells whether it succeeds. The exception is caught and the *)
(* caller goes on.                                                           *)

Statement(ok) ==
  \/ ok /\ commit # "aborted" /\ UNCHANGED <<commit, faults>>
  \/ /\ ~ ok
     /\ "sql" \in Faulty
     /\ commit' = IF commit = "auto" THEN "auto" ELSE "aborted"
     /\ faults' = faults \cup {"sql"}

\* In automatic commit what a statement has written is durable.
Persist == disk' = IF commit = "auto" THEN Seen' ELSE disk

\* What is to be stored of d is lost unless ok.
Storing(d, ok) == lost' = IF ok THEN lost ELSE lost \cup {d}

\* insertDevice: the row of the table devices.
Inserted(d, ok) == IF ok THEN db \cup {d} ELSE db

\* initSystemTable: nothing is done when there is a table of that name.
WithTable(d, ok) ==
  IF ok /\ columns[NameOf[d]] = None THEN [columns EXCEPT ![NameOf[d]] = d]
                                     ELSE columns

\* closeEpoch's update: the flag of row i, if there is one, of table n is set.
Flagged(n, i, ok) ==
  IF ok /\ i \in DOMAIN rows[n] THEN [rows EXCEPT ![n][i].end_of_epoch = TRUE]
                                ELSE rows

-----------------------------------------------------------------------------
(* The program starts: loadDevices. *)

Listed(d) == \E i \in DOMAIN vec : Description(vec[i]) = d

\* Mutant of LoadDevice: initSystemTable is left to the first connection.
LoadDevice_NoTable(d) ==
  /\ phase = "loading"
  /\ d \in db
  /\ ~ Listed(d)
  /\ index' = [index EXCEPT ![d] = Len(vec)]
  /\ vec' = Append(vec, d)
  /\ \E closed \in BOOLEAN :
       /\ rows' = Flagged(NameOf[d], Len(rows[NameOf[d]]), closed)
       /\ Statement(closed)
  /\ UNCHANGED <<phase, pc, live, mutex, map, synced, selected, db, columns, lost>>
  /\ Persist

\* One device of the table, in the order the database likes: it is new to the
\* list, its table is made if it is missing, and its last epoch is closed.
LoadDevice(d) ==
  /\ phase = "loading"
  /\ d \in db
  /\ ~ Listed(d)
  /\ index' = [index EXCEPT ![d] = Len(vec)]
  /\ vec' = Append(vec, d)
  /\ \E made, closed \in BOOLEAN :
       /\ columns' = WithTable(d, made)
       /\ Storing(d, made)
       /\ rows' = Flagged(NameOf[d], Len(rows[NameOf[d]]), closed)
       /\ Statement(made /\ closed)
  /\ UNCHANGED <<phase, pc, live, mutex, map, synced, selected, db>>
  /\ Persist

\* The server starts when every device is loaded, or the query has failed.
StartServer ==
  /\ phase = "loading"
  /\ \E ok \in BOOLEAN : (ok => \A d \in db : Listed(d)) /\ Statement(ok)
  /\ phase' = "serving"
  /\ UNCHANGED <<pc, live, mutex, selected, memory, tables, disk, lost>>

\* The tables become what is committed.
Restore ==
  /\ db' = disk.db
  /\ columns' = disk.columns
  /\ rows' = disk.rows
  /\ UNCHANGED disk

\* The program ends, at any point, and is started again.
Crash ==
  /\ phase' = "loading"
  /\ pc' = [s \in Sessions |-> IF pc[s] = "none" THEN "none" ELSE "done"]
  /\ live' = {}
  /\ mutex' = None
  /\ vec' = <<>>
  /\ index' = [o \in Objects |-> -1]
  /\ map' = {}
  /\ synced' = {}
  /\ selected' = [s \in Sessions |-> 0]
  /\ Restore
  /\ commit' = "auto"
  /\ lost' = {}
  /\ UNCHANGED faults

-----------------------------------------------------------------------------
(* What the history requests, and the statements of other threads, do to the *)
(* connection.                                                               *)

handlers == <<phase, pc, live, mutex, memory>>

\* getHistory: setAutoCommit(false). The web server starts after loadDevices.
SetManual ==
  /\ Histories
  /\ phase = "serving"
  /\ commit = "auto"
  /\ commit' = "manual"
  /\ UNCHANGED <<handlers, selected, tables, disk, lost, faults>>

\* Any other statement fails in the open transaction: one of a history request, or
\* the insertion of a row (its time is taken, there is no table).
StatementFails ==
  /\ commit = "manual"
  /\ Statement(FALSE)
  /\ UNCHANGED <<handlers, selected, tables, disk, lost>>

\* The devices whose row or table was made in the transaction.
InTransaction ==
  {d \in Descs : d \in db \ disk.db \/ columns[NameOf[d]] # disk.columns[NameOf[d]]}

\* getHistory: conn.commit, or setAutoCommit(true), which commits. An aborted
\* transaction is rolled back, and the driver may refuse to leave manual commit. A
\* row that closeEpoch has selected in it is not found any more.
EndTransaction ==
  /\ commit # "auto"
  /\ commit' \in {"auto", "manual"}
  /\ IF commit = "aborted"
     THEN /\ Restore
          /\ lost' = lost \cup InTransaction
          /\ selected' = [s \in Sessions |->
                IF selected[s] <= Len(disk.rows[Name(s)]) THEN selected[s] ELSE 0]
     ELSE disk' = Seen /\ UNCHANGED <<tables, lost, selected>>
  /\ UNCHANGED <<handlers, faults>>

-----------------------------------------------------------------------------
(* The devices and their connections. *)

Goto(s, place) == pc' = [pc EXCEPT ![s] = place]

\* A device connects. It has one connection at a time.
Connect(s) ==
  /\ phase = "serving"
  /\ pc[s] = "none"
  /\ \A t \in live : Name(t) # Name(s)
  /\ live' = live \cup {s}
  /\ Goto(s, "open")
  /\ UNCHANGED <<phase, mutex, selected, memory, database, faults>>

\* The device is switched off or cut off: the Center does not know yet.
Vanish(s) ==
  /\ s \in live
  /\ live' = live \ {s}
  /\ UNCHANGED <<phase, pc, mutex, selected, memory, database, faults>>

\* UDP_TimeSync has synchronised the device's synchronizer.
Synchronize(s) ==
  /\ pc[s] = "ready"
  /\ synced' = synced \cup {s}
  /\ UNCHANGED <<phase, pc, live, mutex, vec, index, map, selected, database, faults>>

-----------------------------------------------------------------------------
(* messageReceived, group_description: getDirectDevice, then devices.put and *)
(* addSynchronizer.                                                          *)

ReceiveDescription(s) ==
  /\ pc[s] = "open"
  /\ Goto(s, "acquire")
  /\ UNCHANGED <<phase, live, mutex, selected, memory, database, faults>>

\* Mutant of Acquire: no mutex.
Acquire_Unguarded(s) ==
  /\ pc[s] = "acquire"
  /\ mutex' = s
  /\ Goto(s, "search")
  /\ UNCHANGED <<phase, live, selected, memory, database, faults>>

Acquire(s) ==
  /\ pc[s] = "acquire"
  /\ mutex = None
  /\ mutex' = s
  /\ Goto(s, "search")
  /\ UNCHANGED <<phase, live, selected, memory, database, faults>>

Release == mutex' = None

\* The first device with an equal description is replaced.
Replace(s) ==
  /\ pc[s] = "search"
  /\ \E i \in DOMAIN vec :
       /\ Description(vec[i]) = DescOf[s]
       /\ \A j \in 1 .. i - 1 : Description(vec[j]) # DescOf[s]
       /\ vec' = [vec EXCEPT ![i] = s]
  /\ Release
  /\ Goto(s, "put")
  /\ UNCHANGED <<phase, live, index, map, synced, selected, database, faults>>

NewDevice(s) ==
  /\ pc[s] = "search"
  /\ ~ Listed(DescOf[s])
  /\ Goto(s, "insert")
  /\ UNCHANGED <<phase, live, mutex, selected, memory, database, faults>>

Insert(s) ==
  /\ pc[s] = "insert"
  /\ \E ok \in BOOLEAN :
       db' = Inserted(DescOf[s], ok) /\ Storing(DescOf[s], ok) /\ Statement(ok)
  /\ Goto(s, "create")
  /\ UNCHANGED <<phase, live, mutex, selected, memory, columns, rows>>
  /\ Persist

\* The views of the coarser regimes are made after the table: it may be made (and
\* be committed) although initSystemTable fails.
CreateTable(s) ==
  /\ pc[s] = "create"
  /\ \E made, ok \in BOOLEAN :
       /\ ok => made
       /\ made => commit # "aborted"
       /\ columns' = WithTable(DescOf[s], made)
       /\ Storing(DescOf[s], made)
       /\ Statement(ok)
  /\ Goto(s, "add")
  /\ UNCHANGED <<phase, live, mutex, selected, memory, db, rows>>
  /\ Persist

\* Mutant of Add: the index is taken after the device is added.
Add_SizeAfter(s) ==
  /\ pc[s] = "add"
  /\ vec' = Append(vec, s)
  /\ index' = [index EXCEPT ![s] = Len(vec')]
  /\ Release
  /\ Goto(s, "put")
  /\ UNCHANGED <<phase, live, map, synced, selected, database, faults>>

\* Mutant of Add: the mutex is kept.
Add_KeepsMutex(s) ==
  /\ pc[s] = "add"
  /\ index' = [index EXCEPT ![s] = Len(vec)]
  /\ vec' = Append(vec, s)
  /\ Goto(s, "put")
  /\ UNCHANGED <<phase, live, mutex, map, synced, selected, database, faults>>

Add(s) ==
  /\ pc[s] = "add"
  /\ index' = [index EXCEPT ![s] = Len(vec)]
  /\ vec' = Append(vec, s)
  /\ Release
  /\ Goto(s, "put")
  /\ UNCHANGED <<phase, live, map, synced, selected, database, faults>>

\* Center.devices is a TreeMap without synchronisation. An access while the
\* handler of another session changes it has an unspecified result.
Races(s) == "race" \in Faulty /\ \E t \in Sessions \ {s} : pc[t] \in {"put", "unmap"}

\* The map becomes new, or anything smaller if the access races.
SetMap(s, new) ==
  \/ map' = new /\ UNCHANGED faults
  \/ Races(s) /\ map' \in SUBSET (map \cup new) /\ faults' = faults \cup {"race"}

Put(s) ==
  /\ pc[s] = "put"
  /\ SetMap(s, map \cup {s})
  /\ Goto(s, "sync")
  /\ UNCHANGED <<phase, live, mutex, vec, index, synced, selected, database>>

AddSynchronizer(s) ==
  /\ pc[s] = "sync"
  /\ Goto(s, "ready")
  /\ UNCHANGED <<phase, live, mutex, selected, memory, database, faults>>

-----------------------------------------------------------------------------
(* messageReceived, data: ReceiveData and insertSystemTable. *)

\* A message without a device in the map, or with one not synchronised, or
\* whose insertion fails, is discarded and changes nothing.
Data(s) ==
  /\ pc[s] = "ready"
  /\ s \in live
  /\ s \in map
  /\ s \in synced
  /\ commit # "aborted"
  /\ columns[Name(s)] # None
  /\ Len(rows[Name(s)]) < MaxRows[Name(s)]
  /\ rows' = [rows EXCEPT ![Name(s)] = Append(@, [by |-> s, end_of_epoch |-> FALSE])]
  /\ UNCHANGED <<handlers, selected, db, columns, commit, lost, faults>>
  /\ Persist

-----------------------------------------------------------------------------
(* sessionClosed: ClientDisconnected, which closes the epoch, and            *)
(* devices.remove.                                                           *)

\* Mutant of SessionClosed: the device is removed before it is looked up.
SessionClosed_NoDevice(s) ==
  /\ pc[s] \in {"open", "ready"}
  /\ live' = live \ {s}
  /\ Goto(s, "unmap")
  /\ UNCHANGED <<phase, mutex, selected, memory, database, faults>>

SessionClosed(s) ==
  /\ pc[s] \in {"open", "ready"}
  /\ live' = live \ {s}
  /\ \/ Goto(s, IF s \in map THEN "select" ELSE "unmap") /\ UNCHANGED faults
     \/ Races(s) /\ Goto(s, "unmap") /\ faults' = faults \cup {"race"}
  /\ UNCHANGED <<phase, mutex, selected, memory, database>>

\* Mutant of SelectLast: rows are counted from 0.
SelectLast_FromZero(s) ==
  /\ pc[s] = "select"
  /\ selected' = [selected EXCEPT ![s] = Len(rows[Name(s)]) - 1]
  /\ Goto(s, "flag")
  /\ UNCHANGED <<phase, live, mutex, memory, database, faults>>

\* closeEpoch, the query for the last row.
SelectLast(s) ==
  /\ pc[s] = "select"
  /\ \/ /\ selected' = [selected EXCEPT ![s] = Len(rows[Name(s)])]
        /\ Goto(s, "flag")
        /\ Statement(TRUE)
     \/ UNCHANGED selected /\ Goto(s, "unmap") /\ Statement(FALSE)
  /\ UNCHANGED <<phase, live, mutex, memory, tables, disk, lost>>

\* closeEpoch, the update.
FlagLast(s) ==
  /\ pc[s] = "flag"
  /\ \E ok \in BOOLEAN : rows' = Flagged(Name(s), selected[s], ok) /\ Statement(ok)
  /\ selected' = [selected EXCEPT ![s] = 0]
  /\ Goto(s, "unmap")
  /\ UNCHANGED <<phase, live, mutex, memory, db, columns, lost>>
  /\ Persist

Unmap(s) ==
  /\ pc[s] = "unmap"
  /\ SetMap(s, map \ {s})
  /\ Goto(s, "done")
  /\ UNCHANGED <<phase, live, mutex, vec, index, synced, selected, database>>

-----------------------------------------------------------------------------
Program == StartServer \/ \E d \in Descs : LoadDevice(d)

\* What the thread of a session does without waiting for its device.
Handler(s) ==
  \/ Acquire(s) \/ Replace(s) \/ NewDevice(s) \/ Insert(s) \/ CreateTable(s)
  \/ Add(s) \/ Put(s) \/ AddSynchronizer(s)
  \/ SelectLast(s) \/ FlagLast(s) \/ Unmap(s)

Connection == SetManual \/ StatementFails \/ EndTransaction

Event(s) ==
  \/ Connect(s) \/ Vanish(s) \/ Synchronize(s)
  \/ ReceiveDescription(s) \/ Data(s) \/ SessionClosed(s)

Next ==
  \/ Program
  \/ \E s \in Sessions : Handler(s) \/ Event(s)
  \/ Connection
  \/ Crash

\* The threads run.
Fairness == \A s \in Sessions : WF_vars(Handler(s))

Spec == Init /\ [][Next]_vars /\ Fairness

-----------------------------------------------------------------------------
(* Safety. *)

Descriptions == [i \in DOMAIN vec |-> Description(vec[i])]

Table == INSTANCE DeviceTable
           WITH Devices <- Descs, table <- Descriptions, stored <- disk.db

\* The list, concurrently extended by the handlers of all sessions, is the
\* abstract one: no device twice, places kept, nothing deleted.
ImplementsTable == Table!Spec

\* A device_index always leads to the device it was given to (line 29,
\* getDirectDevice(index)), also after that device's object was replaced.
IndexLeadsHome ==
  \A o \in Objects :
    index[o] # -1 =>
      /\ index[o] < Len(vec)
      /\ Description(vec[index[o] + 1]) = Description(o)

\* A device with its row and the table for its rows.
Stored(d, where) == d \in where.db /\ where.columns[NameOf[d]] # None

\* Every device that the list holds is in the database with a table for its rows,
\* and on disk unless a history request keeps the transaction open: then a restart
\* may still take it. The exceptions are those that lost names: its own statement in
\* insertDevice or initSystemTable has failed, or it was written in a transaction in
\* which a statement of somebody else failed. The code tries neither again.
ListIsStored ==
  \A i \in DOMAIN vec :
    LET d == Description(vec[i])
    IN  d \in lost \/ (Stored(d, Seen) /\ (commit = "auto" => Stored(d, disk)))

Recording(s) == pc[s] \in {"ready", "select", "flag"}

\* When no session records for a device any more, whether its sessions were
\* closed in any order or the program was restarted, the last row is marked as
\* the end of an epoch, so that what is recorded next begins another.
LastEpochIsClosed ==
  phase = "serving" /\ faults = {} =>
    \A n \in Names :
      \/ rows[n] = <<>>
      \/ Last(rows[n]).end_of_epoch
      \/ \E s \in Sessions : Name(s) = n /\ Recording(s)

\* uDAQC_IO.js:1049: "Epoch separation is performed using the included flag":
\* the rows of two connections are separated, at the latest when the first
\* connection is closed.
EpochsSeparated ==
  faults = {} =>
    \A n \in Names : \A i \in 1 .. Len(rows[n]) - 1 :
      LET s == rows[n][i].by
      IN  \/ rows[n][i + 1].by = s
          \/ rows[n][i].end_of_epoch
          \/ pc[s] # "done"

-----------------------------------------------------------------------------
(* Liveness. *)

\* A description is always dealt with: the mutex is released on every path, and
\* the handlers do not wait for one another in a circle.
DescriptionHandled ==
  \A s \in Sessions : pc[s] = "acquire" ~> pc[s] \in {"ready", "done"}
=============================================================================
