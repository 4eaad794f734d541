----------------------------- MODULE WebClients -----------------------------
(***************************************************************************)
(* The web server of the Center (Socket_uD, HTTPS_Server) between its      *)
(* clients' pages (uDAQC_socket.js) and the list of devices                *)
(* (IO_Device_Connected). All clients share one socket object, whose field *)
(* session is that of the client who came last: answers go there.          *)
(*                                                                         *)
(* A client is one connection: a page does not connect again. Each has its *)
(* own thread in the server, one event at a time; an exception in it ends  *)
(* the connection (Jetty, external).                                       *)
(*                                                                         *)
(* Simplifications:                                                        *)
(* - What a page does with descriptions and histories is the matter of     *)
(*   WebPage; here a history is the device and the system it is about, and *)
(*   every system has one charted value.                                   *)
(* - The registration of devices is the matter of DeviceRegistry; here the *)
(*   list changes in one step, and the session field in another.           *)
(* - When a connection ends, its page is left aside, with what is on the   *)
(*   way to it: it no longer changes anything.                             *)
(* - Two threads may write to one session at once; writes are atomic.      *)
(***************************************************************************)
EXTENDS Integers, Sequences

CONSTANTS
  Clients,
  Devices,
  Null,         \* no client, no session, nothing handled
  Loaded,       \* the lists of devices that may be loaded from the database
  SystemCount,  \* how many systems each device has
  MaxAsked,     \* bound: requests and commands of all users
  MaxChanges    \* bound: changes of the list of devices

\* A history request that a thread is at, and whose session it answers to.
Handled == [to : Clients \cup {Null}, device : Devices, index : Int, system : Int]

ASSUME ClientsAssumption ==
  /\ Null \notin Clients \cup Handled
  /\ Loaded \subseteq Seq(Devices)
  /\ SystemCount \in [Devices -> Nat]
  /\ MaxAsked \in Nat
  /\ MaxChanges \in Nat

VARIABLES
  devices,   \* IO_Device_Connected.devices: device, device_index, session
  field,     \* Socket_uD.session: the client who connected last
  conn,      \* each client's connection
  sending,   \* the iterator of PassthroughInitialization: place, and size of the list
  inbox,     \* frames on the way from each client
  handler,   \* the history request each client's thread is at
  outbox,    \* messages on the way to each client
  page,      \* IO.devices of each page: the device for each index
  shown,     \* the histories that are on each page's charts
  asks,      \* how often a user has asked for something
  changes,   \* how often the list of devices has changed
  asked,     \* history: systems requested and not yet answered
  commands   \* history: the device each command was meant for and reached

vars == <<devices, field, conn, sending, inbox, handler, outbox, page, shown,
          asks, changes, asked, commands>>

server == <<field, conn, sending, handler>>
browser == <<page, shown, asks, asked>>
center == <<devices, changes>>

Systems(d) == 0 .. SystemCount[d] - 1

Listed == {devices[n].device : n \in DOMAIN devices}

NotSending == [place |-> 1, size |-> 0]

Init ==
  /\ \E list \in Loaded :
       devices = [n \in DOMAIN list |-> [device |-> list[n], index |-> n - 1, session |-> "none"]]
  /\ field = Null
  /\ conn = [c \in Clients |-> "new"]
  /\ sending = [c \in Clients |-> NotSending]
  /\ inbox = [c \in Clients |-> <<>>]
  /\ handler = [c \in Clients |-> Null]
  /\ outbox = [c \in Clients |-> <<>>]
  /\ page = [c \in Clients |-> <<>>]
  /\ shown = [c \in Clients |-> {}]
  /\ asks = 0
  /\ changes = 0
  /\ asked = [c \in Clients |-> <<>>]
  /\ commands = {}

-----------------------------------------------------------------------------
(* The list of devices changes.                                              *)

\* A step of another thread that changes the list to new.
Change(new) ==
  /\ changes < MaxChanges
  /\ changes' = changes + 1
  /\ devices' = new
  /\ UNCHANGED <<server, browser, inbox, outbox, commands>>

\* Mutant of NewDevice: the size of the list is taken after the device is in.
NewDevice_SizeAfter(d) ==
  /\ d \notin Listed
  /\ Change(Append(devices, [device |-> d, index |-> Len(devices) + 1, session |-> "none"]))

\* A device that is not in the list yet.
NewDevice(d) ==
  /\ d \notin Listed
  /\ Change(Append(devices, [device |-> d, index |-> Len(devices), session |-> "none"]))

\* The new object of a device takes the place of the old one, without index.
Replace(n) ==
  /\ Change([devices EXCEPT ![n].index = -1, ![n].session = "none"])

\* getDirectDevice(data, session) sets the session behind the list's mutex.
SetSession(n) ==
  /\ devices[n].session = "none"
  /\ Change([devices EXCEPT ![n].session = "connected"])

\* The session is closed; perhaps before its description was even handled.
DeviceLeaves(n) ==
  /\ devices[n].session = "connected"
  /\ Change([devices EXCEPT ![n].session = "closed"])

-----------------------------------------------------------------------------
(* The server: connections.                                                  *)

\* onWebSocketConnect, up to the first device.
Open(c) ==
  /\ conn[c] = "new"
  /\ conn' = [conn EXCEPT ![c] = "opening"]
  /\ field' = c
  /\ sending' = [sending EXCEPT ![c] = [place |-> 1, size |-> Len(devices)]]
  /\ UNCHANGED <<center, inbox, handler, outbox, browser, commands>>

\* The next device of the iteration. Devices that were added since make the
\* iterator throw instead.
SendDescription(c) ==
  LET at == sending[c].place
  IN  /\ conn[c] = "opening"
      /\ at <= sending[c].size
      /\ sending[c].size = Len(devices)
      /\ outbox' = [outbox EXCEPT ![c] =
                      Append(@, [kind |-> "description", device |-> devices[at].device,
                                 index |-> devices[at].index])]
      /\ sending' = [sending EXCEPT ![c].place = at + 1]
      /\ UNCHANGED <<center, field, conn, inbox, handler, browser, commands>>

\* All descriptions are sent: frames are read from now on.
Opened(c) ==
  /\ conn[c] = "opening"
  /\ sending[c].place > sending[c].size
  /\ sending[c].size = Len(devices)
  /\ conn' = [conn EXCEPT ![c] = "open"]
  /\ sending' = [sending EXCEPT ![c] = NotSending]
  /\ UNCHANGED <<center, field, inbox, handler, outbox, browser, commands>>

\* A connection ends: onWebSocketClose sets the field to null, whoever's session
\* it is. What is on the way is lost.
End(c) ==
  /\ conn' = [conn EXCEPT ![c] = "closed"]
  /\ field' = Null
  /\ handler' = [handler EXCEPT ![c] = Null]
  /\ inbox' = [inbox EXCEPT ![c] = <<>>]
  /\ outbox' = [outbox EXCEPT ![c] = <<>>]
  /\ page' = [page EXCEPT ![c] = <<>>]
  /\ shown' = [shown EXCEPT ![c] = {}]
  /\ asked' = [asked EXCEPT ![c] = <<>>]

\* ConcurrentModificationException.
Interrupted(c) ==
  /\ conn[c] = "opening"
  /\ sending[c].size # Len(devices)
  /\ sending' = [sending EXCEPT ![c] = NotSending]
  /\ End(c)
  /\ UNCHANGED <<center, asks, commands>>

\* Mutant of Close: the field keeps the session.
Close_KeepsField(c) ==
  /\ conn[c] = "open" /\ handler[c] = Null
  /\ conn' = [conn EXCEPT ![c] = "closed"]
  /\ inbox' = [inbox EXCEPT ![c] = <<>>]
  /\ outbox' = [outbox EXCEPT ![c] = <<>>]
  /\ page' = [page EXCEPT ![c] = <<>>]
  /\ shown' = [shown EXCEPT ![c] = {}]
  /\ asked' = [asked EXCEPT ![c] = <<>>]
  /\ UNCHANGED <<center, field, sending, handler, asks, commands>>

\* The client closes the page, or is cut off.
Close(c) ==
  /\ conn[c] = "open" /\ handler[c] = Null
  /\ End(c)
  /\ UNCHANGED <<center, sending, asks, commands>>

-----------------------------------------------------------------------------
(* The server: commands of clients.                                          *)

\* Mutant of Found: a negative index counts from the end of the list.
Found_FromEnd(i) == {IF i < 0 THEN Len(devices) + 1 + i ELSE i + 1} \cap DOMAIN devices

\* The place that Vector.get finds index i at; it throws if there is none.
Found(i) == {i + 1} \cap DOMAIN devices

\* Passthrough_from_Secondary and Send_Command: no device of that index, or one
\* without session yet, is an exception; a closed session is logged.
Passthrough(c) ==
  LET frame == Head(inbox[c])
  IN  /\ conn[c] = "open" /\ handler[c] = Null
      /\ inbox[c] # <<>> /\ frame.kind = "modify"
      /\ \/ /\ \A n \in Found(frame.device) : devices[n].session = "none"
            /\ End(c)
            /\ UNCHANGED commands
         \/ \E n \in Found(frame.device) :
              /\ devices[n].session # "none"
              /\ commands' = commands \cup
                   {[meant |-> frame.meant, reached |-> devices[n].device] :
                      s \in {devices[n].session} \cap {"connected"}}
              /\ inbox' = [inbox EXCEPT ![c] = Tail(@)]
              /\ UNCHANGED <<conn, field, handler, outbox, page, shown, asked>>
      /\ UNCHANGED <<center, sending, asks>>

\* Mutant of BeginHistory: a request for what is not there is skipped.
BeginHistory_Skips(c) ==
  LET frame == Head(inbox[c])
      found == {n \in Found(frame.device) : frame.system \in Systems(devices[n].device)}
  IN  /\ conn[c] = "open" /\ handler[c] = Null
      /\ inbox[c] # <<>> /\ frame.kind = "request"
      /\ handler' = [handler EXCEPT ![c] =
                       IF found = {} THEN Null
                       ELSE LET n == CHOOSE n \in found : TRUE
                            IN  [to |-> field, device |-> devices[n].device,
                                 index |-> devices[n].index, system |-> frame.system]]
      /\ inbox' = [inbox EXCEPT ![c] = Tail(@)]
      /\ UNCHANGED <<center, field, conn, sending, outbox, browser, commands>>

\* onWebSocketBinary hands the field's session to HandleCommand, which looks up
\* the system: exceptions, if it is not there.
BeginHistory(c) ==
  LET frame == Head(inbox[c])
      found == {n \in Found(frame.device) : frame.system \in Systems(devices[n].device)}
  IN  /\ conn[c] = "open" /\ handler[c] = Null
      /\ inbox[c] # <<>> /\ frame.kind = "request"
      /\ \/ found = {} /\ End(c)
         \/ \E n \in found :
              /\ handler' = [handler EXCEPT ![c] =
                               [to |-> field, device |-> devices[n].device,
                                index |-> devices[n].index, system |-> frame.system]]
              /\ inbox' = [inbox EXCEPT ![c] = Tail(@)]
              /\ UNCHANGED <<conn, field, outbox, page, shown, asked>>
      /\ UNCHANGED <<center, sending, asks, commands>>

IsOpen(c) == conn[c] \in {"opening", "open"}

\* getRefinedHistory has returned a history, and SendCommand sends it.
Answer(c) ==
  LET h == handler[c]
  IN  /\ h # Null /\ h.to # Null
      /\ outbox' = IF IsOpen(h.to)
                   THEN [outbox EXCEPT ![h.to] =
                           Append(@, [kind |-> "history", device |-> h.device, index |-> h.index,
                                      system |-> h.system, for |-> c])]
                   ELSE outbox
      /\ handler' = [handler EXCEPT ![c] = Null]
      /\ UNCHANGED <<center, field, conn, sending, inbox, browser, commands>>

\* The null that SendCommand is given in place of a session, or of a command
\* when the database has failed, is an exception. A closed session is not.
AnswerFails(c) ==
  LET h == handler[c]
  IN  /\ h # Null
      /\ IF h.to # Null /\ ~ IsOpen(h.to)
         THEN /\ handler' = [handler EXCEPT ![c] = Null]
              /\ UNCHANGED <<conn, field, inbox, outbox, page, shown, asked>>
         ELSE End(c)
      /\ UNCHANGED <<center, sending, asks, commands>>

-----------------------------------------------------------------------------
(* The browser.                                                              *)

Frame(kind, c, i, s) ==
  [kind |-> kind, system |-> s, about |-> i, meant |-> page'[c][i],
   device |-> IF kind = "request" THEN 0 ELSE i]

\* requestHistory. The system has no device_index of its device: it is written
\* as 0 whatever the device, about, is.
Requests(c, i) == [k \in 1 .. SystemCount[page'[c][i]] |-> Frame("request", c, i, k - 1)]

\* The systems of those messages of a sequence that are among these, in order.
SystemsAmong(messages, these) ==
  LET s[n \in 0 .. Len(messages)] ==
        IF n = 0 THEN <<>>
        ELSE s[n - 1] \o (IF messages[n] \in these THEN <<messages[n].system>> ELSE <<>>)
  IN  s[Len(messages)]

HistoryRequests ==
  [kind : {"request"}, system : Int, about : Int, meant : Devices, device : Int]

Send(c, frames) ==
  /\ inbox' = [inbox EXCEPT ![c] = @ \o frames]
  /\ asked' = [asked EXCEPT ![c] = @ \o SystemsAmong(frames, HistoryRequests)]

\* The device takes the place of an earlier one of that index, all charts are
\* made anew, and histories for those of the device are requested.
ReceiveDescription(c) ==
  LET message == Head(outbox[c])
  IN  /\ outbox[c] # <<>> /\ message.kind = "description"
      /\ outbox' = [outbox EXCEPT ![c] = Tail(@)]
      /\ page' = [page EXCEPT ![c] =
                    [i \in DOMAIN @ \cup {message.index} |->
                       IF i = message.index THEN message.device ELSE @[i]]]
      /\ shown' = [shown EXCEPT ![c] = {}]
      /\ Send(c, Requests(c, message.index))
      /\ UNCHANGED <<center, server, asks, commands>>

HasChart(c, i, s) == i \in DOMAIN page[c] /\ s \in Systems(page[c][i])

\* Mutant of Display: indices are taken for positions.
Display_Position(c, message) ==
  IF HasChart(c, message.index + 1, message.system)
  THEN {[index |-> message.index + 1, system |-> message.system, device |-> message.device]}
  ELSE {}

\* The charts that the history changes: none, if the page has no such system.
Display(c, message) ==
  IF HasChart(c, message.index, message.system)
  THEN {[index |-> message.index, system |-> message.system, device |-> message.device]}
  ELSE {}

\* handleHistory.
ReceiveHistory(c) ==
  LET message == Head(outbox[c])
      new == Display(c, message)
  IN  /\ outbox[c] # <<>> /\ message.kind = "history"
      /\ outbox' = [outbox EXCEPT ![c] = Tail(@)]
      /\ shown' = [shown EXCEPT ![c] =
                     {h \in @ : \A m \in new : h.index # m.index \/ h.system # m.system} \cup new]
      /\ asked' = IF message.for = c THEN [asked EXCEPT ![c] = Tail(@)] ELSE asked
      /\ UNCHANGED <<center, server, inbox, page, asks, commands>>

\* The user zooms a chart, or modifies a value of the device.
Ask(c, kind, i, s) ==
  /\ asks < MaxAsked
  /\ asks' = asks + 1
  /\ UNCHANGED page
  /\ Send(c, <<Frame(kind, c, i, s)>>)
  /\ UNCHANGED <<center, server, outbox, shown, commands>>

-----------------------------------------------------------------------------
Thread(c) ==
  \/ SendDescription(c) \/ Opened(c) \/ Interrupted(c)
  \/ Passthrough(c) \/ BeginHistory(c) \/ Answer(c) \/ AnswerFails(c)

Page(c) == ReceiveDescription(c) \/ ReceiveHistory(c)

Next ==
  \/ \E d \in Devices : NewDevice(d)
  \/ \E n \in DOMAIN devices : Replace(n) \/ SetSession(n) \/ DeviceLeaves(n)
  \/ \E c \in Clients :
       \/ Open(c) \/ Close(c) \/ Thread(c) \/ Page(c)
       \/ \E i \in DOMAIN page[c] : \E s \in Systems(page[c][i]), kind \in {"request", "modify"} :
            Ask(c, kind, i, s)

Spec == Init /\ [][Next]_vars

-----------------------------------------------------------------------------
(* Properties. *)

\* Types. Whoever the field holds is connected, and a thread is at a request
\* only while its connection is open.
TypeOK ==
  /\ \A n \in DOMAIN devices : devices[n].device \in Devices /\ devices[n].index \in {-1, n - 1}
  /\ field \in Clients \cup {Null}
  /\ field # Null => IsOpen(field)
  /\ conn \in [Clients -> {"new", "opening", "open", "closed"}]
  /\ \A c \in Clients : handler[c] # Null => conn[c] = "open"
  /\ \A c \in Clients : inbox[c] # <<>> \/ outbox[c] # <<>> => IsOpen(c)
  /\ asks \in 0 .. MaxAsked /\ changes \in 0 .. MaxChanges

\* The device that a page has for an index is the one at that place of the
\* Center's list, whenever the page was loaded, and however often devices have
\* come back: an index given to a page stays right. Not so -1, which every
\* device has that has come back.
DevicesOnPage ==
  \A c \in Clients : \A i \in DOMAIN page[c] :
    i >= 0 => i + 1 \in DOMAIN devices /\ page[c][i] = devices[i + 1].device

\* A chart shows a history of the device it belongs to: answers to other
\* clients, which the shared field brings, and answers that come after charts
\* are made anew are no exception.
HistoryOnItsChart ==
  \A c \in Clients : \A h \in shown[c] :
    h.index >= 0 => page[c][h.index] = h.device

\* A command that reaches a device reaches the one it was meant for, whatever
\* became of the list since the page was loaded.
CommandsReachTheirDevice == \A command \in commands : command.reached = command.meant

AnswersFor(c) ==
  [kind : {"history"}, device : Devices, index : Int, system : Int, for : {c}]

\* The systems whose history a client still awaits: answers on the way to it,
\* the request its thread is at, and those not yet read.
Awaited(c) ==
  SystemsAmong(outbox[c], AnswersFor(c))
    \o (IF handler[c] = Null THEN <<>> ELSE <<handler[c].system>>)
    \o SystemsAmong(inbox[c], HistoryRequests)

\* While the field is a client's, none of its requests is lost, answered twice
\* or answered out of order. (A client's whom another one has followed are
\* answered to that one.)
LatestClientAnswered ==
  \A c \in Clients : field = c => Awaited(c) = asked[c]
=============================================================================
