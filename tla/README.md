# uDAQC in TLA+

Specifications, model-checking configurations and proofs for uDAQC, a data
acquisition system: microcontroller devices (C++, ESP8266/ESP32) send data to a
Center (Java), which stores them in PostgreSQL/TimescaleDB and shows them in a
browser. They are kept beside the code; every definition names, in the `map` of
`PROJECT.json`, the lines it stands for.

Paths below are relative to `src/`; `C` is
`Components/Center/uDAQC_Center/src`, `D` is `Components/Device/src` and `W` is
`Components/Center/uDAQC_WebInterface`.

## 1. The system

### Parts

| Part | State it keeps | Operations | Talks to |
|---|---|---|---|
| UDP time synchronisation (`C/network/udp/UDP_TimeSync.java`, `TimeSynchronizer.java`) | deque of synchronizers, the one being served, its points, last message, per device `synced` and time zero | add, poll, take an answer, finish (filter, average, move to the end), all on one thread | devices over UDP; registry (adds synchronizers); message handlers (read `synced`) |
| Device registry and session handlers (`C/udaqc/network/center/Center.java`, `IO_Device_Connected.java`) | static list of devices with a mutex, `device_index`, map from session to device | description, data, authentication, idle, session closed; command to a device | devices over TCP (one I/O thread per group of sessions), database, web server |
| Database (`C/udaqc/jdbc/Database_uDAQC.java`) | one JDBC connection; tables of devices and rows, views of coarser regimes | load, insert device, create tables, insert row, close epoch, history, retention | all of the Center's threads |
| TCP server and discovery (`C/network/tcp/server/TCP_Server.java`, `C/network/TCP_Base.java`, `C/network/udp/UDP_Funnel.java`) | acceptor, port, multicast socket | start, reset on an exception or timer, announce, answer | devices (announcements both ways) |
| Web server (`C/network/http`, `C/security`) | one socket object per endpoint, broadcast list, users, device credentials | session opened/closed, broadcast, command, history request, login and credential changes | browsers, registry, database |
| Command framing (`C/udaqc/network/center/command`, `D/IO/Devices/TCP/CommandCodec.cpp`) | partially received command | decode, encode | TCP streams |
| Device: TCP client and discovery (`D/IO/Devices/Bases/IO_System.cpp`) | list of centers with address, port, state; report buffer | add center, authenticate, send description and data, handle commands, answer time requests | Center |
| Device: stored values and files (`D/IO/Devices/Bases/IO_SaveableValue.h`, `D/FileSystem`) | values and files | load, modify, save | the two parts around it |
| Device: WiFi and credentials (`D/Network/Network.cpp`) | station / access point, timers, credential list | loop, web pages | |
| Device: timers and controllers (`D/ESP_Utilities`, `D/IO/Devices/Implementations`) | 32-bit clock readings, PID state | trigger, repeat, step | |
| Browser (`W/*.js`) | nodes of the devices, charts and their axes, tree and dashboards | receive descriptions and histories, zoom, select, request, modify | web server |

Messages: a device hears the Center's multicast announcement (or the Center
answers the device's), connects over TCP, authenticates, sends its description,
and is then synchronised over UDP; only from then on are its data accepted,
stored, and passed to the browsers by device index. When its session ends, the
last row of its table is flagged as the end of an epoch. Browsers send commands
back by device index and ask for histories.

### What is hard, and what makes each part correct

* **Time synchronisation.** One thread serves all devices over one socket with
  a receive timeout; datagrams are lost, late and duplicated, sessions close
  while they are served. Measurements of two devices must not mix, nobody may be
  forgotten or starved, attempts must end, and what the filter leaves must give
  an estimate within the round trip and the clock's resolution.
* **Registry.** Handlers of several sessions run at once; a device may reconnect
  before its old session is noticed to be dead; the program may end between any
  two statements; statements may fail. The list must hold a device once and at
  one place, an index must keep leading to its device, what is listed must be
  stored and, once no history request keeps it uncommitted, survive a restart, and
  epochs must end.
* **Database connection.** History requests switch the one connection to manual
  commit while the data handlers and the retention thread use it. It must be
  switched back whatever fails, and a row that was accepted must not stay uncommitted.
* **Server and discovery.** A restart that runs on a thread it waits for; a port
  that changes while the old one is announced; connections that die in silence. A
  device must not be connected twice, and must be registered again whenever that ends.
* **Framing.** A byte stream cut anywhere, on a device that waits for the rest: each
  command must be received once and in order, and the wait must end.
* **Stored values.** Power lost between truncation and write: the value being set may
  be lost, no other.
* **Timers and WiFi.** A 32-bit millisecond clock that wraps, under a repeater and a
  timer that is started, stopped and reset in different passes of the loop.
* **Web server.** One socket object for all clients: its session is that of the
  client who came last, and answers to anyone go there. Pages keep the indices
  they were given while the list changes; the list is iterated without its mutex;
  an exception in a handler ends the connection and what waits in it. An index
  must keep meaning its device, a history must not appear on another device's
  chart, a command must reach the device it names or nobody. (Two changes of one
  credential file are a hazard too.)
* **Browser.** A history is a row of bytes that only the description explains:
  one width read wrongly moves everything behind it. 64-bit integers are put
  together from halves. Every description makes all charts anew while histories
  for the old ones are on their way; tree and dashboards are two walks of one
  structure that must agree, and the axes of a system's charts are set one by one.

`PROJECT.json` lists the hazards at their lines, those not covered yet too.

## 2. What is modelled

### TimeSync

`UDP_TimeSync`, `TimeSynchronizer` and `IO_System::handleTimeSync`. `pc` is
where the thread is: at the head of its loop, blocked in `receive`, or dead.
One pass of the loop is `Select` (take the first synchronizer that needs it),
`Poll` (send a request), `ReceiveResponse` or `IgnoreResponse` or
`ReceiveTimesOut`, and `Finish` when the set is full or silence has lasted
`sync_timeout_ms`. `finishCurrent` is there with its arithmetic: mean, sample
deviation, the filter and the average, in integers (all inequalities are
multiplied out). A response carries the two one-way delays of its round trip in
place of clock readings, so that the error of the estimate can be stated (`Error`,
`MeanError`). The Center reads `millis()*1000` at both ends: its clock shows whole
ticks (`Resolution`, 1 ms) against the device's microseconds, so that a trip is known to whole
ticks only (`Interval`, zero for a short one) and the request was sent some time after the tick it
carries (`at`). `PollWithoutAddress` is the null remote address of a
closed session, which leaves the thread's loop by an exception.

Left out: a device that restarts in the middle of a synchronisation (its clock
zero changes; the resynchronisation after its new connection replaces the
estimate); the branch of `pollCurrent` for an unresolved address, which an
address of a connected session never takes. Time passes only while the thread
blocks in `receive`; the rest of the loop takes no time.

### DeviceTable and DeviceRegistry

`DeviceTable` is what the list promises: a device enters once, at the next place,
the list is emptied only by a restart, and the table of devices on disk only grows.
What is committed together is stored together.

`DeviceRegistry` follows the handlers of each session from place to place
(`pc`): `ReceiveDescription`, `Acquire` of the mutex, the search (`Replace` or
`NewDevice`), the statements of `insertDevice` (`Insert`, `CreateTable`), `Add`
with the index, then `Put` into the map of sessions, and `AddSynchronizer`;
`Data` with its three reasons to discard; `SessionClosed`, the two statements of
`closeEpoch` (`SelectLast`, `FlagLast`) and `Unmap`. `LoadDevice` and
`StartServer` are the start of the program, `Crash` its end at any point.
`Connect` and `Vanish` are the device's side: it has one live connection, and it
may be gone long before the Center handles `sessionClosed`.

All statements run on one connection, and `getHistory` switches it to manual commit
for its own purposes. So the module keeps two copies of the tables: what the
connection sees (`db`, `columns`, `rows`) and what is committed (`disk`), and how the
connection commits (`commit`: automatically, manually, or in an aborted transaction).
A statement writes to the disk only in automatic commit (`Persist`). `SetManual`,
`StatementFails` and `EndTransaction` are what history requests and the statements of
other threads do to the connection, in any order and number; `HistoryConnection` has
them step by step, and shows when a connection stays in manual commit, which here is
always possible (`EndTransaction` need not leave it, and need not come). A transaction
ends with what was written in it on disk or, if aborted, with everything undone, and
`Crash` brings back what is on disk. A device may thus be listed and in use while a
restart would still take it. `lost` remembers the devices whose insertion or table has failed or
been undone since the program started.

Two kinds of fault are chosen by the constant `Faulty`, and remembered in the
history variable `faults`: `"sql"`, a statement fails, and `"race"`, two
threads are in the unsynchronised `TreeMap` of sessions at the same time. Such
an overlap has no defined result; the model lets the map become anything smaller.

Left out: the request for authentication, which changes nothing; `sessionIdle`,
which closes a session, as `SessionClosed` may at any time; the `session` field of
a device object, which only commands from the web use (it is in `WebClients`);
several systems per device (each has a table of its own that is handled in the
same way).

### HistoryConnection

The state of the JDBC connection (`auto`, `txn`), the rows it sees and the rows
committed, and for each web thread the place in `getRefinedHistory` and
`getHistory`: `Refine` (counts per regime, the first with few enough rows),
`SetManual`, `Count` with the allocation of the message, `Fetch`, `Commit`,
`SetAuto`. `Insert` is a data handler's `insertSystemTable`, `DropChunks` the
retention thread, and both may come between any two steps. PostgreSQL's rule that
a failed statement spoils the transaction, and the driver's that it executes one
statement at a time, are the external part (`Succeeds`, `Fails`,
`EndTransaction`). An exception other than `SQLException` leaves `getHistory` by
`Escape`; `left` remembers which. `views` says whether the views of the coarser
regimes were ever made.

What is accepted in manual commit is not yet stored. `gone` and `undone` follow the rows
that are lost: to the retention or a restart, and to a rollback because a statement
in the same transaction failed. The latter is a loss that the code allows:
`insertSystemTable` has returned without an exception, and the row is rolled back when
any other thread's statement fails (say, two reports of one millisecond) before the
history request ends. `AcceptedRowsAreDecided` therefore does not claim that every
accepted row is stored; it claims that none stays undecided, and names the ways to be
lost.

### DataView, HistoryMessage and Description

The pure algorithms of the browser, as operators and recursive functions.

* `DataView`: `putInt64` and `getInt64` against Java's `putLong` and `getLong`
  (external); `get` and `peek`, with the width each type is read at and how far
  the pointer moves. A byte of a buffer is `<<thing, k, n>>`, the k-th of the n
  bytes the thing is written in; what is read is the thing if it is all of its
  bytes in order, and `Garbage` otherwise. A misalignment therefore shows in
  everything that is read behind it.
* `HistoryMessage`: the entries `getHistory` of the Center writes, and the two
  histories that `uDAQC_IO.js` reads from them, `RawHistory` with a gap behind each
  end of an epoch and `AggregateHistory` with three columns per value.
* `Description`: the nodes that the constructors of `IO_Group` make of a flat
  sequence. The constructors recurse; the model keeps the stack of groups still
  open from one node to the next. Then what is computed from the nodes: nested
  values, layouts, the tree and the dashboards. `WellFormed` is what devices send
  of themselves: every group is followed by as many members as it announces, the
  systems are the members of the device, and a value has one of the types and sizes of
  `IO_Value` (`Formats`).

### WebPage

One page. JavaScript runs one event at a time, so an action is one event handler
run to its end: `ReceiveDescription` (`update_devices`), `Refresh` (jstree has
loaded the nodes it was told to, later), `Select` (jstree's `changed` event, with
the checkbox rules of its plugin as the external `Checked`), `Zoom` (with the
request it sends), `ResetX` and `ReceiveHistory`. Histories arrive for any system
at any time, raw or aggregated; where a flag is read from a byte of something else,
it may be set or not (`odd`).

Left out: colours and layout; `chart_stream`, which nothing reads; names and units;
the value of a modification. There are no aggregates of a system with a bool: the
statement that makes the views averages it, and PostgreSQL has no average of one.

### WebClients

The composition: pages, the web server's threads and the list of devices. A
connection is `Open`ed (the shared `field` becomes this client's), then sent all
descriptions one by one (`SendDescription`, `Opened`, or `Interrupted` by a change
of the list). Frames are taken in order: `Passthrough` looks for the device by its
index, and ends the connection when that one has no session; `BeginHistory` asks
the database, and `Answer` sends to whoever `field` holds by then, or `AnswerFails`
ends the connection. `Close` empties `field`, whosever it is. The page's side is
`ReceiveDescription`, which sends the requests for all of the device's charts,
`ReceiveHistory` and `Ask`. `NewDevice`, `Replace`, `SetSession` and `DeviceLeaves`
change the list.

Simplified: registration, which `DeviceRegistry` follows statement by statement,
is two steps here, the list and the session; every system has one charted value;
two writes to one session do not mix; a page whose connection has ended is left
aside. Left out: `Broadcast` and with it new data and new descriptions to open
pages, because nothing in the Center calls it; the value of a modification.

### CommandFifo and CommandStream

`CommandFifo` is what the codecs promise: a command is received only when all of it has
arrived, as the command it was sent as, in the order of sending and once; the end of
the connection takes the newest ones. A command is on its line, in its inbox, or among
those received. `CommandStream` implements it: a command is on the line while its last
byte has not arrived (`OnTheWay`) and in the inbox until a reader takes it (`Waiting`),
whatever it takes it for. `InOrder` says nothing about when a command is received:
a reader that does not ask whether the message is there keeps it, but not
`ImplementsFifo`.
`CommandStream` is one direction of a connection. `Write` appends a header and a
message, `Arrive` delivers any piece of what was written, `Cut` ends it anywhere.
A byte is its place in the stream, and what is read as a header is the header of
a command only where one begins, else `Garbage`. The device reads with
`command_available` (`Call`, `ReadHeader`, `ReadMessage`, `ReturnFalse`: one pass of
its loop each, with what it keeps between calls), the Center with `tryDecode`
(`doDecode`). Left out: TLS, and negative lengths, which no sender writes.

### Discovery

The Center's server with its restart, `UDP_Funnel`, and the device's list of
clients. The threads of the server go through `run` (`Initialize`,
`serverinitialized`, which makes the funnel, `Dispose`, `CloseSessions`);
`ExceptionCaught`, `Joined` and `Start` are a restart from the I/O thread of a
session. Mina's `dispose` closes the sessions and waits for them, so a restart on a
thread that has one of these sessions ends only with the ten seconds of the join
(`Blocked`). `AuthRequest`, `Description`, `Handshake`, `SessionIdle` and
`SessionClosed` are the Center's handlers (`SessionIdle` closes a session whether it
lives or not: all that counts is that nothing has come); `add_center`, `auth_provision`, `Erase`
and `Notice` (a send that fails) the device's loop. Server, Center and device restart,
connections break or become silent, credentials change: each is a fault, of which
there are at most `MaxFaults`.

Simplified: a session has an I/O thread of its own; `start` is one step; the device's
announcement and the answer to it are one step, which may be lost; the acceptor's
reset timer never runs out, because an acceptor that is bound is active.

### Repeater, NetworkLoop and StoredValues

Three small parts of the device, which share no state. `Repeater`: `repeatnow`
with the addition that wraps and the comparison that does not, asked at any times.
`NetworkLoop`: `Loop` of the WiFi (`Online`, `Offline`) with the `Timer` it measures
its patience with, while the network comes and goes. `StoredValues`: `Set` from the
opening of the file, which empties it (`Set`), through `Write` to `Close`, with
failures of the file system, `Set_NoSave`, and a `Restart` between any two steps. A
value is written whole or not at all; from an empty file nothing is read, and the
value is then any (`ReadFromFile`).

### MCDevice

The instances of `CommandStream`, `Repeater`, `NetworkLoop` and `StoredValues`. They share
no state, so a behaviour of `MCDevice` is one of one of them (`part`) while the others
rest in an initial state: the states to check are the sum, not the product, of theirs.
Fairness (`MCFairness`) is that of `CommandStream` while it is the one that moves.

## 3. What the runs check

| Run | Instance | Shows |
|---|---|---|
| `timesync_safety` | two devices, sets of three points, delays 0 or 1, a clock tick of two units, two datagrams in flight | `TypeOK`; points are the current device's; the synchronizer of an open session is queued once; the filter leaves a point, and the average is late by at most half the longest round trip kept, early by at most that and one tick of the clock |
| `timesync_liveness` | two devices, sets of two points, instant or lost datagrams | every attempt ends; no connected device starves; one that is not cut off is synchronised |
| `timesync_served` | as above | **violated**: that every connection is synchronised (`Architecture.md:74`) |
| `registry` | two connections of one device, one of another; restarts; history requests; two rows | `TypeOK`; an index leads to its device; the last epoch is closed; list and disk implement `DeviceTable` |
| `registry_faults` | two connections of one device; restarts; history requests; every statement may fail; racing maps | what is listed is stored, and on disk in automatic commit, unless on record as lost; every description is dealt with |
| `registry_epochs` | two connections of one device | **violated**: that a flag separates the rows of two connections (`uDAQC_IO.js:1049`) |
| `history` | two clients, two times, three regimes, with and without views | `TypeOK`; the connection is restored; every accepted row is stored, or lost for a named reason, with liveness |
| `history_allocation` | as above | **violated**: that a message always has room (`Database_uDAQC.java:57`) |
| `web_page` | eight plans of descriptions, three sets of rows, one zoom | `TypeOK`, with complete groups; what the Center wrote for a value is on its chart at its time, with gaps behind epochs only; axes of a system, tree and dashboards, selection and display agree; a range arrives as it was asked for |
| `web_clients` | two clients, two devices with one and two systems, loaded or coming | `TypeOK`; indices of pages lead to their devices; histories are on their charts; commands reach the device they were meant for; the client who came last is answered in order |
| `device` | commands of no, one or three bytes in any pieces; a clock of eight delays; a network that comes and goes; two values of one cut name, two power losses or failures | types; both readers implement the queue and leave nothing that could be read, and the device's call returns; the repeater keeps its times until the clock wraps; the access point opens in time; a power loss harms only the value being set |
| `discovery` | a device, two connections, three servers, two faults | `TypeOK`; one living connection at most; a restart of the server returns; the device is registered again and again, and for good if it reports often enough |

Every property of a passing run has a mutant of the code in the module (an
operator named `<definition>_<change>`) that breaks it.

**Bounds.** Two devices are the fewest that can mix measurements or starve one
another (`Swap` exchanges the two, each with its address, in the run without liveness), and three points the fewest of which the filter drops one: the
deviation of two never excludes either. With a tick of two units, trips of up to two
units measure as nothing or as one tick, and errors have both signs. `SyncTimeout` is twice
`SoTimeout`, as 10 s and 5 s are in the code, so a set sees several polls. A datagram older
than `MaxDelay` counts as lost; further ones than `MaxInFlight` are lost on sending. Two sessions of one device are enough for
replacement, late closing and lost flags, and the third for a list with two
places. Two rows are a last row and one before it. The two connections of one device are
symmetric (`Twins`) in the run without liveness. That run has no faults, since each makes
most states fault states of which the epochs are not claimed; the other has all of them, and
the proofs hold with any. In `HistoryConnection` two
readers overlap in every combination of places; two rows and a limit of one
make the coarser regimes necessary, and the third regime is the one that is
not counted.

In `WebPage` half-words hold four values, so that times between -5 and 7 need both
halves and both signs. The plans are a flat system (with a float and a bool, a
double and a modifiable integer, a 64-bit integer), nested groups, two systems with
an empty group, two devices, and a device that has come back (index -1) whose second
description replaces the first. The rows are none, an end of epoch in the last row
and one in the first. In `WebClients` two clients are enough for one to take the
other's answers and to empty the field; three changes of the list are a device
that comes, one that returns and one that leaves, and one question of a user comes on
top of those that each description asks by itself. The clients are symmetric, and
no property of that run is a liveness property. A page that has received everything
has nothing left to do, therefore `CHECK_DEADLOCK FALSE`.

In `device` a header of two bytes and messages of up to three are cut at all places
that differ, and three commands let one be whole, one cut and one empty. The repeater's clock wraps after eight
delays and is followed beyond; the WiFi's is longer than the patience and two passes,
and starts anywhere, so that it wraps in every phase. The parts of `device` are
bounded and come to an end, therefore `CHECK_DEADLOCK FALSE`. In `discovery` a third
server is a restart after a restart; two faults are, for example, a silent connection
and a restart of the Center while it lasts; the second connection is the one too many.

**Fairness.** The time synchronisation thread runs when it can (weak fairness of
`Thread`), and time passes even while datagrams keep arriving (strong fairness of
`Tick`, which each arrival disables for a moment). `EventuallySynced` assumes, as a
part of the formula, that the network does not lose every datagram for ever. The
I/O threads of the Center run (weak fairness of each session's `Handler`); the
semaphore is not fair, but each session acquires it once. A history request
that has begun goes on. Nothing is assumed of devices, clients, the retention
thread or restarts. In `CommandStream` the network delivers until it is cut, the device's program calls
again and again, and the Center decodes what has arrived. In `Discovery` all threads
and the device's loop go on, announcements are repeated, and an offer made again and
again arrives some time (strong fairness of `add_center`): UDP does not lose every
datagram for ever. A session that has gone silent is closed as idle; one that lives may
be, at any time, but nothing requires it. A device notices a dead connection only if it has data to send. No
fault is ever assumed to happen. `NetworkLoop` has no fairness, but a bound on the
time between two passes, in which `NotTooLate` is stated. The modules of the web state no fairness: an answer to a client
whom another one has followed never arrives, and a connection may end at any time.

**Faults as conditions.** `ListIsStored` exempts the devices that `lost` names: their own
statement in `insertDevice` or `initSystemTable` failed, or they were written in the
transaction of a history request in which any statement of another thread failed. Of all
others it claims that they are durable in automatic commit only: while a history request
keeps a transaction open, a restart takes a listed device with everything else that is
uncommitted, although no statement has failed. `LastEpochIsClosed` is claimed when there was
neither a failure nor a race of the map. In all these cases the
code drops the exception and never tries again. The three ways `left` names are the
only ones in which `ConnectionRestored` fails. `LatestClientAnswered` is claimed of
the client whose session `field` is. `DevicesOnPage` and `HistoryOnItsChart` speak of indices
from 0 on: -1 is the index of every device that has come back. `RowsShown` and
`EpochsApart` speak of systems whose history the page can read (`Readable`): not of
those with a 64-bit value beside the timestamp, see below. `EventuallyRegistered`
assumes, as a part of the formula, that the announced server goes on serving, that the
credentials stay right, that the device has no connection that died in silence
before it had data to send (`HalfOpen`: such a one is not noticed, and declines every
further offer of its port), and that it does not let 80 seconds pass before its
description (`IdleBefore`). Then it is registered again and again. That it stays
registered needs one assumption more (`IdleAfter`): the Center closes any session from
which nothing has come for 80 seconds, so a device that reports more rarely loses its
connection each time, and its data until it has found the Center again. `OthersSurvive` exempts a value whose last `Set` has failed
or was cut off. `OnScheduleBeforeWrap` ends one delay before the wrap of the clock.

### Disagreements between the code and what is said of it

1. A session that closes while it is being synchronised ends the only
   time synchronisation thread (`UDP_TimeSync.java:189` is outside the `try` of
   `run`). No device that connects later is synchronised, and its data are
   discarded. The liveness properties of the passing runs therefore end in
   "or the thread is dead".
2. When a device reconnects before its old session is closed, the end of
   epoch is flagged on a row of the new connection, and the rows of both run on.
   `LastEpochIsClosed` says what does hold.
3. Rows inserted between a history request's count and query are visible to
   it, because they go through its own connection; the message overflows and the
   connection is left in manual commit.

Met while modelling, in the definitions but without a run of their own:

* A device that reconnects has index -1 in the list, against `Architecture.md:36`:
  `getDirectDevice` gives an index only to a new device (`IO_Device_Connected.java:63`,
  75). `IndexLeadsHome` says what does hold.
* A page asks for the history of the first device, whichever it means:
  `IO_System` takes `indices.device_index`, but the field is `indices.device`
  (`uDAQC_IO.js:657`, 760), and the undefined that follows is written as 0. Other
  devices' charts get no history by themselves, and a system that the first
  device does not have ends the connection. `Architecture.md:103` says that a request names
  its device.
* A command without a message waits for the first byte of the next one:
  `command_available` looks for more bytes before it looks at the length
  (`CommandCodec.cpp:64`, 84), although line 97 takes such a command for done. The answer
  to an unknown login has no bytes, so a device learns of it with the next handshake.
  `CommandsReceived` says what does hold.
* `Repeater.cpp:18` says that the wrap of `millis` needs no handling. The sum wraps, the
  comparison in line 15 does not know of it: behind the wrap every call executes, or
  none does for 49 days. The condition that would handle it is commented out.
* A server that has been restarted is never announced, against `Architecture.md:19`:
  `serverinitialized` makes a second `UDP_Funnel`, whose constructor tries for ever to
  get the port that the first still holds (`UDP_Funnel.java:34-53`). Devices go on being
  offered the port of the server that was ended, until the program is restarted.
* If the power is lost between the opening of a value's file and the write, the value
  does not persist (`IO_SaveableValue.h:57`): `ReadFromFile` reads nothing into a local
  variable without a value and takes that (line 135).
* Aggregates are written as average, maximum, minimum (`Database_uDAQC.java:107-116`,
  132-135); `Architecture.md:116-119` lists average, minimum, maximum. The page
  tells the three apart by position only.
* `peek` of a 64-bit integer moves the pointer, and `get` moves it again
  (`uDAQC_IO.js:309`): a history with such a value is misread behind it
  (`Architecture.md:121` promises a value of its own size).
* `AggregateHistory` chooses how to read by the value before the one it reads
  (`uDAQC_IO.js:984` takes `iovs[n]`, the timestamp for the first).
* A request without an end sets the start instead (`uDAQC_socket.js:69`).
* `DataViewWriter.put` writes nothing for 64-bit, unsigned and 1-byte integers
  (`uDAQC_IO.js:49-96`), and the Center writes nothing for a 1-byte integer of a
  history.
* The reply to a request carries the index of the device in the list, -1 after
  it has come back, so pages opened before that drop it.
* After any client has closed, an answer ends the connection of the one who asked,
  until another client comes.

## 4. What is proved

Every safety property that a run checks is a theorem: all invariants, the action
property `OthersSurvive` and the two refinements. The proofs hold for every value of the
constants under the named assumptions of the modules (`TimeSyncAssumption`,
`RegistryAssumption`, `HistoryAssumption`, `DataViewAssumption`,
`HistoryMessageAssumption`, `WebPageAssumption`, `ClientsAssumption`,
`StreamAssumption`, `DiscoveryAssumption`), and of `MCDevice` (`PartsAssumption`: what
`Repeater`, `NetworkLoop` and `StoredValues` assume of their constants). They say that
sizes and bounds are numbers, that descriptions are such as devices send (`WellFormed`),
that rows have a time of 64 bits and a flag, and that `Null` and `Garbage` are nothing
that is ever written. TLC evaluates each of them for its instance.

* `TimeSync_proofs`: `TypeCorrect`, `NobodyForgotten` (`OpenSessionQueuedOnce`)
  and `PointsNeverMixed` (`PointsFromCurrentDevice`). The three invariants are
  inductive together: that fewer points than `points_to_full` are there when the thread
  receives needs that there are none without a current synchronizer; that a synchronizer taken from the deque and re-added is
  still there once needs the lemmas `RemoveOnce` and `AppendNew` about sequences,
  and that points are the current device's needs that there are none without a
  current device. `EstimatesSound` (`EstimateSound`) is about one step of arithmetic
  over any number of points: some point is not above the mean (`SomeNotAbove`), so the
  filter, which drops only those far above it, keeps one; twice the error of a point is between its measured trip and that trip and two ticks
  below zero (`IntervalType`), so the sum over those kept is bounded by the longest
  (`BoundedSum`), and the division that makes their mean adds less than one unit (`MeanBound`).
* `HistoryConnection_proofs`: `TypeCorrect`, and `Restored` (`ConnectionRestored`).
  For the first, a regime's count never exceeds the number of rows, since the
  buckets are an image of the rows (`RowsBounded`). For the second, the invariant
  `IInv` strengthens it: manual commit is explained by a reader in
  `getHistory` or by an exception, and automatic commit leaves nothing
  uncommitted. It is what makes it irrelevant which of several readers
  switches the connection back first.
* `DeviceRegistry_proofs`: `Implementation` (`ImplementsTable`), `EpochsEnd`
  (`LastEpochIsClosed`), `DevicesStored` (`ListIsStored`), `IndexKept`
  (`IndexLeadsHome`) and `TypeCorrect`, for any number of sessions and with every
  kind of fault. The inductive invariant has these parts besides the types and the indices. `Control`: who is between
  acquire and release holds the mutex, nobody is there during loading, and what
  one has found new is not listed until that one adds it (this makes `Add` a step
  `Enter` of `DeviceTable`). `AllStored`: sessions past `insertDevice` have their
  device in the database, not only the list, unless it is lost; it rests on the lemma
  `StepForgetsNone`, that no step but a restart takes a row or a table from a device
  without `lost` naming it. `Durable`: in automatic commit the disk has what the
  connection sees, what is on disk is seen, a transaction is aborted and a device lost
  only after a failure, and loading happens in automatic commit. With the lemma
  `DiskStep` (the disk stays, or becomes what the connection sees) it gives that the
  disk never loses a device. `Epochs`: a session that records has
  its device in the map, rows belong to a device of the database (so loading finds
  them), and a last row without flag has a session that is going to flag *that*
  row; `RowsOnDisk` says of the committed rows too that they belong to a device, for a
  restart brings those back. That some session is about to flag a row would not be inductive: it may
  have selected an earlier one while a second session recorded.
* `WebClients_proofs`: `TypeCorrect`, `PagesLeadToDevices` (`DevicesOnPage`),
  `HistoriesInPlace` (`HistoryOnItsChart`) and `CommandsArrive`
  (`CommandsReachTheirDevice`), for any number of clients and devices and any
  bounds. The inductive invariant `IInv` says of everything that holds an index,
  wherever it is (page, message, answer, frame, chart), that the index `Leads` to its
  device; it is inductive because no change of the list takes a device from its
  place (`ChangeIInv`). That is why neither the order of messages nor the confusion
  of clients matters for these properties. `LatestAnswered` (`LatestClientAnswered`)
  needs a second invariant, `FieldAnswered`, of the client whose session the shared
  field is: what it awaits is, in order, what is among its messages, at its thread and
  among its frames, and that thread answers to the client itself. Nothing of the kind
  holds of a client that has been followed; but such a one does not come back.
* `Device_proofs`, the parts of a device, first each by itself and then side by side as
  in `MCDevice` (`PartsBehave`: a behaviour of the whole is one of every part).
  * `CommandStream`: `TypeCorrect`, `ReceivedInOrder` (`InOrder`) and `Implementation`
    (`ImplementsFifo`), for messages of any lengths cut anywhere. The inductive
    invariant says where a reader stands (`InPlace`): at the end of the last command it
    has received, or just behind the header of the next. As commands are at least as
    long as a header (`Ordered`), only one begins at a place, so what is read there is
    the header of that one. For `Implementation`, what has been received has ended
    where the reader stands at the latest, so it had arrived (`WaitingFacts`); each step
    is then one of the queue (`WriteSends`, `ArriveDelivers`, `ReadReceives`).
  * `Repeater`: `ClockTypeCorrect` and `Scheduled` (`OnScheduleBeforeWrap`), for any
    clock and delay. Beside the property, the invariant has that `timeofnextexec` is the
    time of the execution after the last one.
  * `NetworkLoop`: `WiFiTypeCorrect` and `WiFiInTime` (`AccessPointInTime`), for any
    patience and any clock longer than it, wherever it wraps. `Counted` is the heart of
    the invariant: the timer has counted all the time since the loss, or all but one
    pass. The latter happens once, when the clock has wrapped between two passes.
  * `StoredValues`: `FilesTypeCorrect` and `PowerLossHarmsOne` (`OthersSurvive`), for any
    values and names. `InProgress` says what the file of the value being set holds at
    each step, and `Kept` that the file of every other value, unless spoiled, holds
    what was saved.
* `Discovery_proofs`: `TypeCorrect` and `NeverTwoConnections` (`OneConnection`), for any
  numbers of devices, connections, servers and faults. Three facts make it inductive:
  in one run of the Center only one server's port is announced, since only the first
  funnel gets its own port (`OneFunnel`); every session is at that port (`Sessions`); and
  a device has one client per port (`OneClient`), because `add_center` declines an offer
  that it has already taken. The proof thus rests on what is a defect otherwise: that a
  server which has been restarted is never announced.
* `WebPage_proofs`: all properties of `WebPage`.
  * `Int64Agrees`: for halves of any even size, the browser's two halves are Java's, and
    each reads what the other writes. Browser and Java divide differently, and
    `getInt64` goes through the complement for negative numbers. `RangesArrive`
    (`RangeArrives`) follows, with the invariant that the request holds what `putInt64`
    made of its range.
  * `TypeCorrect` (`TypeOK`), `LabelsMatch` (`LabelsMatchData`) and `AxesStayTogether`
    (`AxesAgree`), with the invariant `PageInv`: they hold because every device on the
    page has come out of a description (`Described`). Of one parsed node after another,
    `Built` says that each open group on the stack lacks exactly the members it was
    announced with and has not got, and that together they lack what is `Missing` of
    the description; so all are closed when it ends (`ParseResult`). For
    `LabelsMatchData`, whatever bytes are read, the columns of a history are as long
    as its times but for those behind the one that is being read (`Filled`). For
    `AxesAgree`, no value is in two systems (`OneSystem`).
  * `TreeAgrees` (`TreeAndDashboardsAgree`), with `TreeInv`: both walks drop the same
    nodes, the first members of systems, which have nothing below them (`SameNodes`); a
    node of the tree is displayed if and only if something is selected at or below it, by
    induction on the height of a node in one direction and on its depth in the other.
  * `RowsArrive` (`RowsShown`) and `EpochsStayApart` (`EpochsApart`), with `ChartInv`. The
    lemma `HistoryReads` is the round trip: what `getHistory` writes for a layout, of any
    rows, `processEntries` reads back. The bytes are split into entries, columns and
    values where they were joined (`PartsLaid`), and the reader stands at the beginning
    of each of them when it comes to it (`At`), if the layout is one both sides
    understand alike (`Understood`: the formats that devices send, without 64-bit integers
    beside the timestamp, and no bools in aggregates). Between histories, the charts
    of a system stay what its last one made them (`Charting`).
* `Recursion` has what these proofs share: induction as a statement about sets
  (`Induction`, `Least`), that a function defined by recursion exists (`Defined`,
  `DefinedBefore`) and is determined by its steps (`Determined`). With it, what a
  recursive function computes for every input is within the prover's reach, although
  the library's induction theorems, which take an operator, are not.

Refinements: `DeviceRegistry` implements `DeviceTable`, `CommandStream` implements
`CommandFifo`; both are proved.

Only model-checked: liveness, since fairness and ENABLED are beyond the prover. These are
`AttemptEnds`, `NoStarvation` and `EventuallySynced` of `TimeSync`, `DescriptionHandled` of
`DeviceRegistry`, `AcceptedRowsAreDecided` of `HistoryConnection`, `CommandsReceived` and
`LoopEnds` of `CommandStream`, and `RestartReturns` and `EventuallyRegistered` of
`Discovery`. No module declares a RECURSIVE operator.

## 5. Not modelled

* **Most of the JavaScript by lines.** `bootstrap.js` and `bootstrap.bundle.js` are the
  Bootstrap library as released, 11448 of the 12971 lines of JavaScript; `index.html` only
  loads the minified bundle, for looks, and no code of this repository depends on their
  state. Of the program's own JavaScript (`uDAQC_IO.js`, `uDAQC_socket.js`,
  `uDAQC_charts.js`, `uDAQC_tree.js`) nearly all that changes state is modelled.
* **Two restarts of the server at once** (`TCP_Base.java:29`): `start` is one step in
  `Discovery`. Each of two threads may make a server, one of which nothing ends; no
  property is left to state after that.
* **Lists of networks and credentials on the device** (`FileSystem.cpp`) and the
  configuration pages (`Network.cpp`): what one page saves is read at the next start.
* **Controllers**: PID arithmetic in floating point.
* **The credential file and the users of the web**: what two overlapping writers leave
  depends on the lengths of lines. `Discovery` lets credentials change in any way.
* Certificates, logging, deployment.
* **`Broadcast`** of the web server: nothing calls it.
* **JavaFX interface and TCP client of a secondary Center**: unused by the current
  Center.
