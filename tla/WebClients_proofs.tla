-------------------------- MODULE WebClients_proofs --------------------------
(***************************************************************************)
(* For any clients, devices and interleavings: indices that have been given*)
(* out keep leading to their devices, on pages, in messages on the way and *)
(* in commands, and the shared socket object has a connected session. The  *)
(* client whose session that is gets its answers in order, each once.      *)
(***************************************************************************)
EXTENDS WebClients, Recursion, SequenceTheorems

Object == [device : Devices, index : Int, session : {"none", "connected", "closed"}]

Frames == [kind : {"request", "modify"}, system : Int, about : Int, meant : Devices, device : Int]

Messages ==
  [kind : {"description"}, device : Devices, index : Int]
    \cup [kind : {"history"}, device : Devices, index : Int, system : Int, for : Clients]

Typed ==
  /\ devices \in Seq(Object)
  /\ \A n \in DOMAIN devices : devices[n].index \in {-1, n - 1}
  /\ field \in Clients \cup {Null}
  /\ conn \in [Clients -> {"new", "opening", "open", "closed"}]
  /\ sending \in [Clients -> [place : Nat \ {0}, size : Nat]]
  /\ inbox \in [Clients -> Seq(Frames)]
  /\ handler \in [Clients -> Handled \cup {Null}]
  /\ outbox \in [Clients -> Seq(Messages)]
  /\ DOMAIN page = Clients
  /\ shown \in [Clients -> SUBSET [index : Int, system : Int, device : Devices]]
  /\ asks \in 0 .. MaxAsked
  /\ changes \in 0 .. MaxChanges

\* An ended connection leaves nothing behind.
Connected ==
  /\ field # Null => IsOpen(field)
  /\ \A c \in Clients : handler[c] # Null => conn[c] = "open"
  /\ \A c \in Clients : inbox[c] # <<>> \/ outbox[c] # <<>> => IsOpen(c)
  /\ \A c \in Clients : DOMAIN page[c] # {} => IsOpen(c)

\* The list has device d at index i, if that is an index given by the list.
Leads(i, d) == i >= 0 => i + 1 \in DOMAIN devices /\ devices[i + 1].device = d

PagesRight ==
  \A c \in Clients : \A i \in DOMAIN page[c] : i \in Int /\ page[c][i] \in Devices /\ Leads(i, page[c][i])

MessagesRight ==
  \A c \in Clients : \A k \in DOMAIN outbox[c] : Leads(outbox[c][k].index, outbox[c][k].device)

AnswersRight ==
  \A c \in Clients : handler[c] # Null => Leads(handler[c].index, handler[c].device)

FramesRight ==
  \A c \in Clients : \A k \in DOMAIN inbox[c] :
    inbox[c][k].kind = "modify" => Leads(inbox[c][k].device, inbox[c][k].meant)

ChartsRight ==
  \A c \in Clients : \A h \in shown[c] : h.index \in DOMAIN page[c] /\ Leads(h.index, h.device)

\* The inductive invariant.
IInv ==
  /\ Typed
  /\ Connected
  /\ PagesRight
  /\ MessagesRight
  /\ AnswersRight
  /\ FramesRight
  /\ ChartsRight
  /\ CommandsReachTheirDevice

-----------------------------------------------------------------------------
(* Sequences of messages, in the forms the steps need.                       *)

LEMMA SeqOfFunction ==
  ASSUME NEW S, NEW n \in Nat, NEW s \in [1 .. n -> S]
  PROVE  s \in Seq(S)
  OBVIOUS

LEMMA AppendFacts ==
  ASSUME NEW S, NEW s \in Seq(S), NEW e \in S
  PROVE  /\ Append(s, e) \in Seq(S)
         /\ DOMAIN Append(s, e) = DOMAIN s \cup {Len(s) + 1}
         /\ \A k \in DOMAIN s : Append(s, e)[k] = s[k]
         /\ Append(s, e)[Len(s) + 1] = e
  OBVIOUS

LEMMA TailFacts ==
  ASSUME NEW S, NEW s \in Seq(S), s # <<>>
  PROVE  /\ Head(s) = s[1] /\ 1 \in DOMAIN s /\ s[1] \in S
         /\ Tail(s) \in Seq(S)
         /\ \A k \in DOMAIN Tail(s) : k + 1 \in DOMAIN s /\ Tail(s)[k] = s[k + 1]
  OBVIOUS

LEMMA ConcatFacts ==
  ASSUME NEW S, NEW s \in Seq(S), NEW t \in Seq(S)
  PROVE  /\ s \o t \in Seq(S)
         /\ \A k \in DOMAIN (s \o t) :
              \/ k \in DOMAIN s /\ (s \o t)[k] = s[k]
              \/ k - Len(s) \in DOMAIN t /\ (s \o t)[k] = t[k - Len(s)]
  OBVIOUS

-----------------------------------------------------------------------------
(* Initially, nothing is on its way. *)
LEMMA InitIInv == Init => IInv
<1>. SUFFICES ASSUME Init PROVE IInv
  OBVIOUS
<1>. USE ClientsAssumption DEF Init
<1>1. PICK list \in Loaded :
        devices = [n \in DOMAIN list |-> [device |-> list[n], index |-> n - 1, session |-> "none"]]
  OBVIOUS
<1>2. list \in Seq(Devices)
  OBVIOUS
<1>3. devices \in Seq(Object) /\ \A n \in DOMAIN devices : devices[n].index = n - 1
  <2>1. Len(list) \in Nat /\ DOMAIN list = 1 .. Len(list)
    BY <1>2
  <2>2. \A n \in 1 .. Len(list) : [device |-> list[n], index |-> n - 1, session |-> "none"] \in Object
    BY <1>2 DEF Object
  <2>3. devices \in [1 .. Len(list) -> Object]
    BY <1>1, <2>1, <2>2
  <2>. QED  BY <1>1, <2>1, <2>3, SeqOfFunction
<1>4. Typed
  BY <1>3 DEF Typed, NotSending
<1>. QED  BY <1>4 DEF IInv, Connected, PagesRight, MessagesRight, AnswersRight, FramesRight,
                     ChartsRight, CommandsReachTheirDevice

(* No change of the list takes a device from its place.                      *)
LEMMA ChangeIInv ==
  ASSUME IInv, NEW new \in Seq(Object), Change(new),
         \A n \in DOMAIN new : new[n].index \in {-1, n - 1},
         \A n \in DOMAIN devices : n \in DOMAIN new /\ new[n].device = devices[n].device
  PROVE  IInv'
<1>. USE DEF IInv, Change, server, browser
<1>1. ASSUME NEW i, NEW d, Leads(i, d) PROVE Leads(i, d)'
  BY <1>1 DEF Leads
<1>2. Typed'
  BY ClientsAssumption DEF Typed
<1>3. Connected'
  BY DEF Connected, IsOpen
<1>4. PagesRight'
  BY <1>1 DEF PagesRight
<1>5. MessagesRight'
  BY <1>1 DEF MessagesRight
<1>6. AnswersRight'
  BY <1>1 DEF AnswersRight
<1>7. FramesRight'
  BY <1>1 DEF FramesRight
<1>8. ChartsRight'
  BY <1>1 DEF ChartsRight
<1>9. CommandsReachTheirDevice'
  BY DEF CommandsReachTheirDevice
<1>. QED  BY <1>2, <1>3, <1>4, <1>5, <1>6, <1>7, <1>8, <1>9

(* A connection that ends takes all that is its client's with it, and the    *)
(* field is nobody's then.                                                   *)
LEMMA EndIInv ==
  ASSUME IInv, NEW c \in Clients, End(c), UNCHANGED <<center, asks, commands>>,
         sending' \in [Clients -> [place : Nat \ {0}, size : Nat]]
  PROVE  IInv'
<1>. USE DEF IInv, End, center
<1>1. ASSUME NEW i, NEW d, Leads(i, d) PROVE Leads(i, d)'
  BY <1>1 DEF Leads
<1>2. Typed'
  <2>1. /\ inbox' \in [Clients -> Seq(Frames)]
        /\ outbox' \in [Clients -> Seq(Messages)]
    BY DEF Typed
  <2>2. handler' \in [Clients -> Handled \cup {Null}]
    BY DEF Typed
  <2>3. conn' \in [Clients -> {"new", "opening", "open", "closed"}]
    BY DEF Typed
  <2>4. /\ DOMAIN page' = Clients
        /\ shown' \in [Clients -> SUBSET [index : Int, system : Int, device : Devices]]
    BY DEF Typed
  <2>. QED  BY <2>1, <2>2, <2>3, <2>4 DEF Typed
<1>3. Connected'
  BY ClientsAssumption DEF Connected, IsOpen, Typed
<1>4. PagesRight'
  BY <1>1 DEF PagesRight, Typed
<1>5. MessagesRight'
  BY <1>1 DEF MessagesRight, Typed
<1>6. AnswersRight'
  BY <1>1 DEF AnswersRight, Typed
<1>7. FramesRight'
  BY <1>1 DEF FramesRight, Typed
<1>8. ChartsRight'
  BY <1>1 DEF ChartsRight, Typed
<1>9. CommandsReachTheirDevice'
  BY DEF CommandsReachTheirDevice
<1>. QED  BY <1>2, <1>3, <1>4, <1>5, <1>6, <1>7, <1>8, <1>9

(* Steps that leave the list, the charts and the pages alone: what matters   *)
(* is whether new frames, messages and requests have right indices.          *)
LEMMA ServerIInv ==
  ASSUME IInv, UNCHANGED <<devices, page, shown, asks, changes>>,
         Typed', Connected', MessagesRight', AnswersRight', FramesRight',
         CommandsReachTheirDevice'
  PROVE  IInv'
<1>1. ASSUME NEW i, NEW d, Leads(i, d) PROVE Leads(i, d)'
  BY <1>1 DEF Leads
<1>2. PagesRight'
  BY <1>1 DEF PagesRight, IInv
<1>3. ChartsRight'
  BY <1>1 DEF ChartsRight, IInv
<1>. QED  BY <1>2, <1>3 DEF IInv

LEMMA ListSteps ==
  ASSUME IInv
  PROVE  /\ \A d \in Devices : NewDevice(d) => IInv'
         /\ \A n \in DOMAIN devices : Replace(n) \/ SetSession(n) \/ DeviceLeaves(n) => IInv'
<1>. USE DEF IInv, Typed
<1>1. ASSUME NEW d \in Devices, NewDevice(d) PROVE IInv'
  <2>. DEFINE e == [device |-> d, index |-> Len(devices), session |-> "none"]
  <2>1. e \in Object
    BY DEF Object
  <2>2. /\ Append(devices, e) \in Seq(Object)
        /\ DOMAIN Append(devices, e) = DOMAIN devices \cup {Len(devices) + 1}
        /\ \A n \in DOMAIN devices : Append(devices, e)[n] = devices[n]
        /\ Append(devices, e)[Len(devices) + 1] = e
    BY <2>1, AppendFacts
  <2>3. \A n \in DOMAIN Append(devices, e) : Append(devices, e)[n].index \in {-1, n - 1}
    BY <2>2
  <2>4. Change(Append(devices, e))
    BY <1>1 DEF NewDevice
  <2>. HIDE DEF e, IInv, Typed
  <2>. QED  BY <2>2, <2>3, <2>4, ChangeIInv
<1>2. ASSUME NEW n \in DOMAIN devices, NEW i \in {-1, n - 1}, NEW s \in {"none", "connected", "closed"},
             Change([devices EXCEPT ![n].index = i, ![n].session = s])
      PROVE  IInv'
  <2>. DEFINE new == [devices EXCEPT ![n].index = i, ![n].session = s]
  <2>1. DOMAIN devices = 1 .. Len(devices) /\ Len(devices) \in Nat
    OBVIOUS
  <2>2. \A k \in DOMAIN devices : devices[k] \in Object
    OBVIOUS
  <2>3. /\ DOMAIN new = DOMAIN devices
        /\ \A k \in DOMAIN devices : k # n => new[k] = devices[k]
        /\ new[n] = [devices[n] EXCEPT !.index = i, !.session = s]
    OBVIOUS
  <2>4. \A k \in DOMAIN devices : new[k] \in Object /\ new[k].device = devices[k].device
    <3>1. i \in Int
      BY <2>1
    <3>2. new[n] \in Object /\ new[n].device = devices[n].device
      <4>. HIDE DEF new, IInv, Typed
      <4>. QED  BY <2>2, <2>3, <3>1 DEF Object
    <3>. HIDE DEF new, IInv, Typed
    <3>. QED  BY <2>2, <2>3, <3>2
  <2>5. new \in Seq(Object)
    <3>1. new \in [1 .. Len(devices) -> Object]
      BY <2>1, <2>3, <2>4
    <3>. QED  BY <2>1, <3>1, SeqOfFunction
  <2>6. \A k \in DOMAIN new : new[k].index \in {-1, k - 1}
    <3>1. \A k \in DOMAIN devices : devices[k].index \in {-1, k - 1}
      OBVIOUS
    <3>. HIDE DEF new, IInv, Typed
    <3>. QED  BY <2>2, <2>3, <3>1 DEF Object
  <2>7. Change(new)
    BY <1>2
  <2>. HIDE DEF new, IInv, Typed
  <2>. QED  BY <2>3, <2>4, <2>5, <2>6, <2>7, ChangeIInv
<1>3. ASSUME NEW n \in DOMAIN devices, Replace(n) PROVE IInv'
  BY <1>2, <1>3 DEF Replace
<1>4. ASSUME NEW n \in DOMAIN devices, NEW s \in {"none", "connected", "closed"},
             Change([devices EXCEPT ![n].session = s])
      PROVE  IInv'
  <2>. DEFINE i == devices[n].index
  <2>1. i \in {-1, n - 1}
    OBVIOUS
  <2>2. devices[n] \in Object
    OBVIOUS
  <2>3. [devices EXCEPT ![n].index = i, ![n].session = s] = [devices EXCEPT ![n].session = s]
    <3>1. [devices[n] EXCEPT !.index = i, !.session = s] = [devices[n] EXCEPT !.session = s]
      BY <2>2 DEF Object
    <3>. QED  BY <3>1
  <2>. QED  BY <1>2, <1>4, <2>1, <2>3
<1>5. ASSUME NEW n \in DOMAIN devices, SetSession(n) \/ DeviceLeaves(n) PROVE IInv'
  BY <1>4, <1>5 DEF SetSession, DeviceLeaves
<1>. QED  BY <1>1, <1>3, <1>5

-----------------------------------------------------------------------------
(* The steps of the server's threads.                                        *)

(* A message with a right index is put on its way to an open connection.     *)
LEMMA PostKeeps ==
  ASSUME Typed, Connected, MessagesRight, UNCHANGED <<devices, conn, field, inbox>>,
         NEW c \in Clients, IsOpen(c), NEW m \in Messages, Leads(m.index, m.device),
         outbox' = [outbox EXCEPT ![c] = Append(@, m)]
  PROVE  /\ outbox' \in [Clients -> Seq(Messages)]
         /\ \A b \in Clients : outbox'[b] # <<>> => IsOpen(b)
         /\ MessagesRight'
<1>1. outbox \in [Clients -> Seq(Messages)] /\ outbox[c] \in Seq(Messages)
  BY DEF Typed
<1>2. /\ Append(outbox[c], m) \in Seq(Messages)
      /\ DOMAIN Append(outbox[c], m) = DOMAIN outbox[c] \cup {Len(outbox[c]) + 1}
      /\ \A k \in DOMAIN outbox[c] : Append(outbox[c], m)[k] = outbox[c][k]
      /\ Append(outbox[c], m)[Len(outbox[c]) + 1] = m
  BY <1>1, AppendFacts
<1>3. /\ outbox'[c] = Append(outbox[c], m)
      /\ \A b \in Clients \ {c} : outbox'[b] = outbox[b]
  BY <1>1
<1>4. outbox' \in [Clients -> Seq(Messages)]
  BY <1>1, <1>2
<1>5. \A b \in Clients : outbox'[b] # <<>> => IsOpen(b)
  BY <1>3 DEF Connected
<1>6. MessagesRight'
  BY <1>2, <1>3 DEF MessagesRight, Leads
<1>. QED  BY <1>4, <1>5, <1>6

(* The next frame of a client is read.                                       *)
LEMMA FrameRead ==
  ASSUME Typed, Connected, FramesRight, UNCHANGED <<devices, conn, field>>,
         NEW c \in Clients, inbox[c] # <<>>, inbox' = [inbox EXCEPT ![c] = Tail(@)]
  PROVE  /\ inbox' \in [Clients -> Seq(Frames)]
         /\ \A b \in Clients : inbox'[b] # <<>> => IsOpen(b)
         /\ FramesRight'
         /\ Head(inbox[c]) \in Frames
         /\ Head(inbox[c]).kind = "modify" => Leads(Head(inbox[c]).device, Head(inbox[c]).meant)
<1>1. inbox \in [Clients -> Seq(Frames)] /\ inbox[c] \in Seq(Frames)
  BY DEF Typed
<1>2. /\ Head(inbox[c]) = inbox[c][1] /\ 1 \in DOMAIN inbox[c] /\ inbox[c][1] \in Frames
      /\ Tail(inbox[c]) \in Seq(Frames)
      /\ \A k \in DOMAIN Tail(inbox[c]) : k + 1 \in DOMAIN inbox[c] /\ Tail(inbox[c])[k] = inbox[c][k + 1]
  BY <1>1, TailFacts
<1>3. /\ inbox'[c] = Tail(inbox[c])
      /\ \A b \in Clients \ {c} : inbox'[b] = inbox[b]
  BY <1>1
<1>4. inbox' \in [Clients -> Seq(Frames)]
  BY <1>1, <1>2
<1>5. \A b \in Clients : inbox'[b] # <<>> => IsOpen(b)
  BY <1>3 DEF Connected
<1>6. FramesRight'
  BY <1>2, <1>3 DEF FramesRight, Leads
<1>. QED  BY <1>2, <1>4, <1>5, <1>6 DEF FramesRight

(* A thread is at a request for the device it found, or at none.             *)
LEMMA HandlerKeeps ==
  ASSUME Typed, Connected, AnswersRight, UNCHANGED <<devices, conn>>,
         NEW c \in Clients, conn[c] = "open",
         NEW h \in Handled \cup {Null}, h # Null => Leads(h.index, h.device),
         handler' = [handler EXCEPT ![c] = h]
  PROVE  /\ handler' \in [Clients -> Handled \cup {Null}]
         /\ \A b \in Clients : handler'[b] # Null => conn'[b] = "open"
         /\ AnswersRight'
<1>1. handler \in [Clients -> Handled \cup {Null}]
  BY DEF Typed
<1>2. handler'[c] = h /\ \A b \in Clients \ {c} : handler'[b] = handler[b]
  BY <1>1
<1>. QED  BY <1>1, <1>2 DEF Connected, AnswersRight, Leads

LEMMA ConnectionSteps ==
  ASSUME IInv, NEW c \in Clients, Open(c) \/ Opened(c) \/ Interrupted(c) \/ Close(c)
  PROVE  IInv'
<1>1. Len(devices) \in Nat
  BY DEF IInv, Typed
<1>2. NotSending \in [place : Nat \ {0}, size : Nat]
  BY DEF NotSending
<1>3. ASSUME NEW to \in {"opening", "open"}, conn[c] \in {"new", "opening"},
             conn' = [conn EXCEPT ![c] = to], field' \in {field, c},
             sending' \in [Clients -> [place : Nat \ {0}, size : Nat]],
             UNCHANGED <<center, inbox, handler, outbox, browser, commands>>
      PROVE  IInv'
  <2>. USE <1>3 DEF IInv, center, browser
  <2>1. Typed'
    BY DEF Typed
  <2>2. Connected'
    BY ClientsAssumption DEF Connected, IsOpen, Typed
  <2>3. MessagesRight' /\ AnswersRight' /\ FramesRight' /\ CommandsReachTheirDevice'
    BY DEF MessagesRight, AnswersRight, FramesRight, Leads, CommandsReachTheirDevice
  <2>. QED  BY <2>1, <2>2, <2>3, ServerIInv
<1>4. CASE Open(c)
  <2>1. sending' \in [Clients -> [place : Nat \ {0}, size : Nat]]
    BY <1>1, <1>4 DEF Open, IInv, Typed
  <2>. QED  BY <1>3, <1>4, <2>1 DEF Open
<1>5. CASE Opened(c)
  <2>1. sending' \in [Clients -> [place : Nat \ {0}, size : Nat]]
    BY <1>2, <1>5 DEF Opened, IInv, Typed
  <2>. QED  BY <1>3, <1>5, <2>1 DEF Opened
<1>6. CASE Interrupted(c)
  <2>1. sending' \in [Clients -> [place : Nat \ {0}, size : Nat]]
    BY <1>2, <1>6 DEF Interrupted, IInv, Typed
  <2>. QED  BY <1>6, <2>1, EndIInv DEF Interrupted
<1>7. CASE Close(c)
  BY <1>7, EndIInv DEF Close, IInv, Typed
<1>. QED  BY <1>4, <1>5, <1>6, <1>7

LEMMA SendDescriptionStep ==
  ASSUME IInv, NEW c \in Clients, SendDescription(c)
  PROVE  IInv'
<1>. DEFINE at == sending[c].place
            m == [kind |-> "description", device |-> devices[at].device, index |-> devices[at].index]
<1>1. at \in DOMAIN devices /\ devices[at] \in Object /\ devices[at].index \in {-1, at - 1} /\ at \in Nat
  BY DEF SendDescription, IInv, Typed
<1>2. m \in Messages
  BY <1>1 DEF Object, Messages
<1>3. Leads(m.index, m.device)
  BY <1>1 DEF Leads
<1>4. /\ outbox' = [outbox EXCEPT ![c] = Append(@, m)]
      /\ UNCHANGED <<devices, changes, field, conn, inbox, handler, page, shown, asks, commands>>
      /\ IsOpen(c)
  BY DEF SendDescription, center, browser, IsOpen
<1>5. sending' \in [Clients -> [place : Nat \ {0}, size : Nat]]
  <2>1. at + 1 \in Nat \ {0}
    BY <1>1
  <2>. QED  BY <2>1 DEF SendDescription, IInv, Typed
<1>. HIDE DEF m
<1>6. /\ outbox' \in [Clients -> Seq(Messages)]
      /\ \A b \in Clients : outbox'[b] # <<>> => IsOpen(b)
      /\ MessagesRight'
  BY <1>2, <1>3, <1>4, PostKeeps DEF IInv
<1>7. Typed'
  BY <1>4, <1>5, <1>6 DEF IInv, Typed
<1>8. Connected'
  BY <1>4, <1>6 DEF IInv, Connected, IsOpen
<1>9. AnswersRight' /\ FramesRight' /\ CommandsReachTheirDevice'
  BY <1>4 DEF IInv, AnswersRight, FramesRight, Leads, CommandsReachTheirDevice
<1>. QED  BY <1>4, <1>6, <1>7, <1>8, <1>9, ServerIInv

(* Vector.get finds at most one place: that of the index.                    *)
LEMMA FoundFacts ==
  ASSUME Typed, NEW i \in Int, NEW n \in Found(i)
  PROVE  n = i + 1 /\ n \in DOMAIN devices /\ devices[n] \in Object /\ i >= 0
BY DEF Typed, Found

LEMMA PassthroughStep ==
  ASSUME IInv, NEW c \in Clients, Passthrough(c)
  PROVE  IInv'
<1>. DEFINE frame == Head(inbox[c])
<1>. USE DEF IInv
<1>1. sending' = sending /\ sending \in [Clients -> [place : Nat \ {0}, size : Nat]]
  BY DEF Passthrough, Typed
<1>2. CASE End(c) /\ UNCHANGED commands
  BY <1>1, <1>2, EndIInv DEF Passthrough
<1>3. ASSUME NEW n \in Found(frame.device),
             commands' = commands \cup {[meant |-> frame.meant, reached |-> devices[n].device] :
                                          s \in {devices[n].session} \cap {"connected"}},
             inbox' = [inbox EXCEPT ![c] = Tail(@)],
             UNCHANGED <<conn, field, handler, outbox, page, shown, asked>>
      PROVE  IInv'
  <2>1. /\ UNCHANGED <<devices, changes, asks, sending>>
        /\ inbox[c] # <<>> /\ frame.kind = "modify"
    BY DEF Passthrough, center
  <2>2. /\ inbox' \in [Clients -> Seq(Frames)]
        /\ \A b \in Clients : inbox'[b] # <<>> => IsOpen(b)
        /\ FramesRight'
        /\ frame \in Frames
        /\ Leads(frame.device, frame.meant)
    BY <1>3, <2>1, FrameRead
  <2>3. devices[n].device = frame.meant
    <3>1. frame.device \in Int
      BY <2>2 DEF Frames
    <3>. QED  BY <2>2, <3>1, FoundFacts DEF Leads
  <2>4. CommandsReachTheirDevice'
    BY <1>3, <2>3 DEF CommandsReachTheirDevice
  <2>5. Typed'
    BY <1>3, <2>1, <2>2 DEF Typed
  <2>6. Connected'
    BY <1>3, <2>1, <2>2 DEF Connected, IsOpen
  <2>7. MessagesRight' /\ AnswersRight'
    BY <1>3, <2>1 DEF MessagesRight, AnswersRight, Leads
  <2>. QED  BY <1>3, <2>1, <2>2, <2>4, <2>5, <2>6, <2>7, ServerIInv
<1>. QED  BY <1>2, <1>3 DEF Passthrough

LEMMA BeginHistoryStep ==
  ASSUME IInv, NEW c \in Clients, BeginHistory(c)
  PROVE  IInv'
<1>. DEFINE frame == Head(inbox[c])
            Request(n) == [to |-> field, device |-> devices[n].device,
                           index |-> devices[n].index, system |-> frame.system]
<1>. USE DEF IInv
<1>1. /\ sending' = sending /\ sending \in [Clients -> [place : Nat \ {0}, size : Nat]]
      /\ UNCHANGED <<center, devices, changes, asks, commands>>
      /\ inbox[c] # <<>> /\ conn[c] = "open"
  BY DEF BeginHistory, Typed, center
<1>2. CASE End(c)
  BY <1>1, <1>2, EndIInv
<1>3. ASSUME NEW n \in Found(frame.device),
             handler' = [handler EXCEPT ![c] = Request(n)],
             inbox' = [inbox EXCEPT ![c] = Tail(@)],
             UNCHANGED <<conn, field, outbox, page, shown, asked>>
      PROVE  IInv'
  <2>1. /\ inbox' \in [Clients -> Seq(Frames)]
        /\ \A b \in Clients : inbox'[b] # <<>> => IsOpen(b)
        /\ FramesRight'
        /\ frame \in Frames
    BY <1>1, <1>3, FrameRead
  <2>2. n \in DOMAIN devices /\ devices[n] \in Object /\ devices[n].index \in {-1, n - 1} /\ n \in Int
    <3>1. frame.device \in Int
      BY <2>1 DEF Frames
    <3>2. n \in DOMAIN devices /\ devices[n] \in Object /\ n \in Int
      BY <3>1, FoundFacts
    <3>. QED  BY <3>2 DEF Typed
  <2>3. Request(n) \in Handled /\ Leads(Request(n).index, Request(n).device)
    <3>1. field \in Clients \cup {Null} /\ frame.system \in Int
      BY <2>1 DEF Typed, Frames
    <3>. QED  BY <2>2, <3>1 DEF Handled, Object, Leads
  <2>. HIDE DEF Request
  <2>4. /\ handler' \in [Clients -> Handled \cup {Null}]
        /\ \A b \in Clients : handler'[b] # Null => conn'[b] = "open"
        /\ AnswersRight'
    BY <1>1, <1>3, <2>3, HandlerKeeps
  <2>5. Typed'
    BY <1>1, <1>3, <2>1, <2>4 DEF Typed
  <2>6. Connected'
    BY <1>1, <1>3, <2>1, <2>4 DEF Connected, IsOpen
  <2>7. MessagesRight' /\ CommandsReachTheirDevice'
    BY <1>1, <1>3 DEF MessagesRight, Leads, CommandsReachTheirDevice
  <2>. QED  BY <1>1, <1>3, <2>1, <2>4, <2>5, <2>6, <2>7, ServerIInv
<1>. QED  BY <1>2, <1>3 DEF BeginHistory

LEMMA AnswerStep ==
  ASSUME IInv, NEW c \in Clients, Answer(c)
  PROVE  IInv'
<1>. DEFINE h == handler[c]
            m == [kind |-> "history", device |-> h.device, index |-> h.index,
                  system |-> h.system, for |-> c]
<1>. USE DEF IInv
<1>1. /\ h \in Handled /\ h.to \in Clients /\ conn[c] = "open" /\ Leads(h.index, h.device)
  BY DEF Answer, Typed, Connected, AnswersRight, Handled
<1>2. m \in Messages /\ Leads(m.index, m.device)
  BY <1>1 DEF Messages, Handled
<1>3. UNCHANGED <<devices, changes, field, conn, sending, inbox, page, shown, asks, commands>>
  BY DEF Answer, center, browser
<1>. HIDE DEF m
<1>4. /\ outbox' \in [Clients -> Seq(Messages)]
      /\ \A b \in Clients : outbox'[b] # <<>> => IsOpen(b)
      /\ MessagesRight'
  <2>1. CASE IsOpen(h.to)
    <3>1. outbox' = [outbox EXCEPT ![h.to] = Append(@, m)]
      BY <2>1 DEF Answer, m
    <3>. QED  BY <1>1, <1>2, <1>3, <2>1, <3>1, PostKeeps
  <2>2. CASE ~ IsOpen(h.to)
    <3>1. outbox' = outbox
      BY <2>2 DEF Answer
    <3>. QED  BY <1>3, <3>1 DEF Typed, Connected, MessagesRight, Leads
  <2>. QED  BY <2>1, <2>2
<1>5. /\ handler' \in [Clients -> Handled \cup {Null}]
      /\ \A b \in Clients : handler'[b] # Null => conn'[b] = "open"
      /\ AnswersRight'
  <2>1. handler' = [handler EXCEPT ![c] = Null]
    BY DEF Answer
  <2>. QED  BY <1>1, <1>3, <2>1, HandlerKeeps
<1>6. Typed'
  BY <1>3, <1>4, <1>5 DEF Typed
<1>7. Connected'
  BY <1>3, <1>4, <1>5 DEF Connected, IsOpen
<1>8. FramesRight' /\ CommandsReachTheirDevice'
  BY <1>3 DEF FramesRight, Leads, CommandsReachTheirDevice
<1>. QED  BY <1>3, <1>4, <1>5, <1>6, <1>7, <1>8, ServerIInv

LEMMA AnswerFailsStep ==
  ASSUME IInv, NEW c \in Clients, AnswerFails(c)
  PROVE  IInv'
<1>. USE DEF IInv
<1>1. /\ sending' = sending /\ sending \in [Clients -> [place : Nat \ {0}, size : Nat]]
      /\ UNCHANGED <<center, devices, changes, asks, commands>>
      /\ conn[c] = "open"
  BY DEF AnswerFails, Typed, Connected, center
<1>2. CASE End(c)
  BY <1>1, <1>2, EndIInv
<1>3. CASE /\ handler' = [handler EXCEPT ![c] = Null]
           /\ UNCHANGED <<conn, field, inbox, outbox, page, shown, asked>>
  <2>1. /\ handler' \in [Clients -> Handled \cup {Null}]
        /\ \A b \in Clients : handler'[b] # Null => conn'[b] = "open"
        /\ AnswersRight'
    BY <1>1, <1>3, HandlerKeeps
  <2>2. Typed'
    BY <1>1, <1>3, <2>1 DEF Typed
  <2>3. Connected'
    BY <1>1, <1>3, <2>1 DEF Connected, IsOpen
  <2>4. MessagesRight' /\ FramesRight' /\ CommandsReachTheirDevice'
    BY <1>1, <1>3 DEF MessagesRight, FramesRight, Leads, CommandsReachTheirDevice
  <2>. QED  BY <1>1, <1>3, <2>1, <2>2, <2>3, <2>4, ServerIInv
<1>. QED  BY <1>2, <1>3 DEF AnswerFails

-----------------------------------------------------------------------------
(* The steps of the pages.                                                   *)

(* The next message of a client is read.                                     *)
LEMMA MessageRead ==
  ASSUME Typed, Connected, MessagesRight, UNCHANGED <<devices, conn, field>>,
         NEW c \in Clients, outbox[c] # <<>>, outbox' = [outbox EXCEPT ![c] = Tail(@)]
  PROVE  /\ outbox' \in [Clients -> Seq(Messages)]
         /\ \A b \in Clients : outbox'[b] # <<>> => IsOpen(b)
         /\ MessagesRight'
         /\ Head(outbox[c]) \in Messages
         /\ Leads(Head(outbox[c]).index, Head(outbox[c]).device)
<1>1. outbox \in [Clients -> Seq(Messages)] /\ outbox[c] \in Seq(Messages)
  BY DEF Typed
<1>2. /\ Head(outbox[c]) = outbox[c][1] /\ 1 \in DOMAIN outbox[c] /\ outbox[c][1] \in Messages
      /\ Tail(outbox[c]) \in Seq(Messages)
      /\ \A k \in DOMAIN Tail(outbox[c]) :
           k + 1 \in DOMAIN outbox[c] /\ Tail(outbox[c])[k] = outbox[c][k + 1]
  BY <1>1, TailFacts
<1>3. /\ outbox'[c] = Tail(outbox[c])
      /\ \A b \in Clients \ {c} : outbox'[b] = outbox[b]
  BY <1>1
<1>4. outbox' \in [Clients -> Seq(Messages)]
  BY <1>1, <1>2
<1>5. \A b \in Clients : outbox'[b] # <<>> => IsOpen(b)
  BY <1>3 DEF Connected
<1>6. MessagesRight'
  BY <1>2, <1>3 DEF MessagesRight, Leads
<1>. QED  BY <1>2, <1>4, <1>5, <1>6 DEF MessagesRight

(* A page sends frames whose commands have right indices.                    *)
LEMMA SendKeeps ==
  ASSUME Typed, Connected, FramesRight, UNCHANGED <<devices, conn, field>>,
         NEW c \in Clients, IsOpen(c), NEW frames \in Seq(Frames),
         \A k \in DOMAIN frames : frames[k].kind = "modify" => Leads(frames[k].device, frames[k].meant),
         inbox' = [inbox EXCEPT ![c] = @ \o frames]
  PROVE  /\ inbox' \in [Clients -> Seq(Frames)]
         /\ \A b \in Clients : inbox'[b] # <<>> => IsOpen(b)
         /\ FramesRight'
<1>1. inbox \in [Clients -> Seq(Frames)] /\ inbox[c] \in Seq(Frames)
  BY DEF Typed
<1>2. DEFINE new == inbox[c] \o frames
<1>3. /\ new \in Seq(Frames)
      /\ \A k \in DOMAIN new :
           \/ k \in DOMAIN inbox[c] /\ new[k] = inbox[c][k]
           \/ k - Len(inbox[c]) \in DOMAIN frames /\ new[k] = frames[k - Len(inbox[c])]
  BY <1>1, ConcatFacts
<1>4. /\ inbox'[c] = new
      /\ \A b \in Clients \ {c} : inbox'[b] = inbox[b]
  BY <1>1
<1>. HIDE DEF new
<1>5. inbox' \in [Clients -> Seq(Frames)]
  BY <1>1, <1>3, <1>4
<1>6. \A b \in Clients : inbox'[b] # <<>> => IsOpen(b)
  BY <1>4 DEF Connected
<1>7. FramesRight'
  <2>1. ASSUME NEW k \in DOMAIN new, new[k].kind = "modify" PROVE Leads(new[k].device, new[k].meant)
    BY <1>3, <2>1 DEF FramesRight
  <2>2. ASSUME NEW b \in Clients, NEW k \in DOMAIN inbox'[b], inbox'[b][k].kind = "modify"
        PROVE  Leads(inbox'[b][k].device, inbox'[b][k].meant)
    BY <1>4, <2>1, <2>2 DEF FramesRight
  <2>. QED  BY <2>2 DEF FramesRight, Leads
<1>. QED  BY <1>5, <1>6, <1>7

LEMMA ReceiveDescriptionStep ==
  ASSUME IInv, NEW c \in Clients, ReceiveDescription(c)
  PROVE  IInv'
<1>. DEFINE message == Head(outbox[c])
            i == message.index
            d == message.device
            frames == Requests(c, i)
<1>. USE DEF IInv
<1>1. /\ UNCHANGED <<devices, changes, field, conn, sending, handler, asks, commands>>
      /\ outbox[c] # <<>> /\ message.kind = "description"
      /\ outbox' = [outbox EXCEPT ![c] = Tail(@)]
      /\ shown' = [shown EXCEPT ![c] = {}]
      /\ inbox' = [inbox EXCEPT ![c] = @ \o frames]
  BY DEF ReceiveDescription, server, center, Send
<1>2. /\ outbox' \in [Clients -> Seq(Messages)]
      /\ \A b \in Clients : outbox'[b] # <<>> => IsOpen(b)
      /\ MessagesRight'
      /\ message \in Messages
      /\ Leads(i, d)
  BY <1>1, MessageRead
<1>3. i \in Int /\ d \in Devices /\ IsOpen(c)
  BY <1>1, <1>2 DEF Messages, Connected
<1>4. /\ DOMAIN page' = Clients
      /\ DOMAIN page'[c] = DOMAIN page[c] \cup {i}
      /\ page'[c][i] = d
      /\ \A j \in DOMAIN page[c] \ {i} : page'[c][j] = page[c][j]
      /\ \A b \in Clients \ {c} : page'[b] = page[b]
  BY DEF ReceiveDescription, Typed
<1>5. PagesRight'
  <2>1. \A j \in DOMAIN page'[c] : j \in Int /\ page'[c][j] \in Devices /\ Leads(j, page'[c][j])
    BY <1>2, <1>3, <1>4 DEF PagesRight
  <2>2. \A b \in Clients \ {c} : \A j \in DOMAIN page'[b] :
          j \in Int /\ page'[b][j] \in Devices /\ Leads(j, page'[b][j])
    BY <1>4 DEF PagesRight
  <2>. HIDE DEF i, d, message
  <2>. QED  BY <1>1, <2>1, <2>2 DEF PagesRight, Leads
<1>6. frames \in Seq(Frames) /\ \A k \in DOMAIN frames : frames[k].kind = "request"
  <2>1. SystemCount[d] \in Nat
    BY <1>3, ClientsAssumption
  <2>. HIDE DEF i, d, message
  <2>2. \A k \in 1 .. SystemCount[d] : /\ Frame("request", c, i, k - 1) \in Frames
                                       /\ Frame("request", c, i, k - 1).kind = "request"
    BY <1>3, <1>4 DEF Frame, Frames
  <2>3. frames = [k \in 1 .. SystemCount[d] |-> Frame("request", c, i, k - 1)]
    BY <1>4 DEF Requests
  <2>4. frames \in [1 .. SystemCount[d] -> Frames]
    BY <2>2, <2>3
  <2>. QED  BY <2>1, <2>2, <2>3, <2>4, SeqOfFunction
<1>. HIDE DEF frames
<1>7. /\ inbox' \in [Clients -> Seq(Frames)]
      /\ \A b \in Clients : inbox'[b] # <<>> => IsOpen(b)
      /\ FramesRight'
  BY <1>1, <1>3, <1>6, SendKeeps
<1>8. Typed'
  BY <1>1, <1>2, <1>4, <1>7 DEF Typed
<1>9. Connected'
  BY <1>1, <1>2, <1>3, <1>4, <1>7 DEF Connected, IsOpen
<1>10. AnswersRight' /\ CommandsReachTheirDevice'
  BY <1>1 DEF AnswersRight, Leads, CommandsReachTheirDevice
<1>11. ChartsRight'
  BY <1>1, <1>4 DEF ChartsRight, Leads, Typed
<1>. QED  BY <1>2, <1>5, <1>7, <1>8, <1>9, <1>10, <1>11

LEMMA ReceiveHistoryStep ==
  ASSUME IInv, NEW c \in Clients, ReceiveHistory(c)
  PROVE  IInv'
<1>. DEFINE message == Head(outbox[c])
            new == Display(c, message)
<1>. USE DEF IInv
<1>1. /\ UNCHANGED <<devices, changes, field, conn, sending, inbox, handler, page, asks, commands>>
      /\ outbox[c] # <<>> /\ message.kind = "history"
      /\ outbox' = [outbox EXCEPT ![c] = Tail(@)]
      /\ shown' = [shown EXCEPT ![c] =
                     {h \in @ : \A m \in new : h.index # m.index \/ h.system # m.system} \cup new]
  BY DEF ReceiveHistory, server, center
<1>2. /\ outbox' \in [Clients -> Seq(Messages)]
      /\ \A b \in Clients : outbox'[b] # <<>> => IsOpen(b)
      /\ MessagesRight'
      /\ message \in Messages
      /\ Leads(message.index, message.device)
  BY <1>1, MessageRead
<1>3. \A h \in new : /\ h \in [index : Int, system : Int, device : Devices]
                     /\ h.index \in DOMAIN page[c] /\ Leads(h.index, h.device)
  <2>1. message.index \in Int /\ message.system \in Int /\ message.device \in Devices
    BY <1>1, <1>2 DEF Messages
  <2>. HIDE DEF message
  <2>. QED  BY <1>2, <2>1 DEF Display, HasChart
<1>. HIDE DEF new
<1>4. /\ shown'[c] \subseteq shown[c] \cup new
      /\ \A b \in Clients \ {c} : shown'[b] = shown[b]
      /\ shown' = [b \in Clients |-> shown'[b]]
  BY <1>1 DEF Typed
<1>5. shown' \in [Clients -> SUBSET [index : Int, system : Int, device : Devices]]
  <2>1. \A b \in Clients : shown'[b] \subseteq [index : Int, system : Int, device : Devices]
    BY <1>3, <1>4 DEF Typed
  <2>. QED  BY <1>4, <2>1
<1>6. Typed'
  BY <1>1, <1>2, <1>5 DEF Typed
<1>7. Connected'
  BY <1>1, <1>2 DEF Connected, IsOpen
<1>8. AnswersRight' /\ FramesRight' /\ PagesRight' /\ CommandsReachTheirDevice'
  BY <1>1 DEF AnswersRight, FramesRight, PagesRight, Leads, CommandsReachTheirDevice
<1>9. ChartsRight'
  <2>1. \A b \in Clients : \A h \in shown'[b] : h.index \in DOMAIN page[b] /\ Leads(h.index, h.device)
    BY <1>3, <1>4 DEF ChartsRight
  <2>. QED  BY <1>1, <2>1 DEF ChartsRight, Leads
<1>. QED  BY <1>2, <1>6, <1>7, <1>8, <1>9

LEMMA AskStep ==
  ASSUME IInv, NEW c \in Clients, NEW i \in DOMAIN page[c], NEW s \in Systems(page[c][i]),
         NEW kind \in {"request", "modify"}, Ask(c, kind, i, s)
  PROVE  IInv'
<1>. DEFINE frame == Frame(kind, c, i, s)
<1>. USE DEF IInv
<1>1. /\ UNCHANGED <<devices, changes, field, conn, sending, handler, outbox, page, shown, commands>>
      /\ inbox' = [inbox EXCEPT ![c] = @ \o <<frame>>]
      /\ asks' = asks + 1 /\ asks < MaxAsked
  BY DEF Ask, server, center, Send
<1>2. i \in Int /\ page[c][i] \in Devices /\ Leads(i, page[c][i])
  BY DEF PagesRight
<1>3. s \in Int
  BY <1>2, ClientsAssumption DEF Systems
<1>4. frame \in Frames /\ (frame.kind = "modify" => Leads(frame.device, frame.meant))
  BY <1>1, <1>2, <1>3 DEF Frame, Frames
<1>. HIDE DEF frame
<1>5. <<frame>> \in Seq(Frames) /\ DOMAIN <<frame>> = {1} /\ <<frame>>[1] = frame
  BY <1>4
<1>6. IsOpen(c)
  BY DEF Connected
<1>7. /\ inbox' \in [Clients -> Seq(Frames)]
      /\ \A b \in Clients : inbox'[b] # <<>> => IsOpen(b)
      /\ FramesRight'
  BY <1>1, <1>4, <1>5, <1>6, SendKeeps
<1>8. Typed'
  <2>1. asks' \in 0 .. MaxAsked
    BY <1>1, ClientsAssumption DEF Typed
  <2>. QED  BY <1>1, <1>7, <2>1 DEF Typed
<1>9. Connected'
  BY <1>1, <1>7 DEF Connected, IsOpen
<1>10. AnswersRight' /\ MessagesRight' /\ PagesRight' /\ ChartsRight' /\ CommandsReachTheirDevice'
  BY <1>1 DEF AnswersRight, MessagesRight, PagesRight, ChartsRight, Leads, CommandsReachTheirDevice
<1>. QED  BY <1>7, <1>8, <1>9, <1>10

-----------------------------------------------------------------------------
(* Every step keeps the invariant.                                           *)
LEMMA NextIInv == IInv /\ [Next]_vars => IInv'
<1>. SUFFICES ASSUME IInv, [Next]_vars PROVE IInv'
  OBVIOUS
<1>1. CASE UNCHANGED vars
  BY <1>1 DEF vars, IInv, Typed, Connected, IsOpen, PagesRight, MessagesRight, AnswersRight,
              FramesRight, ChartsRight, Leads, CommandsReachTheirDevice
<1>2. ASSUME NEW c \in Clients, Open(c) \/ Close(c) \/ Thread(c) \/ Page(c) PROVE IInv'
  BY <1>2, ConnectionSteps, SendDescriptionStep, PassthroughStep, BeginHistoryStep, AnswerStep,
     AnswerFailsStep, ReceiveDescriptionStep, ReceiveHistoryStep DEF Thread, Page
<1>3. ASSUME NEW c \in Clients, NEW i \in DOMAIN page[c], NEW s \in Systems(page[c][i]),
             NEW kind \in {"request", "modify"}, Ask(c, kind, i, s)
      PROVE  IInv'
  BY <1>3, AskStep
<1>. QED  BY <1>1, <1>2, <1>3, ListSteps DEF Next

LEMMA Invariance == Spec => []IInv
<1>. QED  BY InitIInv, NextIInv, PTL DEF Spec

(***************************************************************************)
(* Whoever the shared socket object holds is connected, and a thread is at *)
(* a request only while its connection is open.                            *)
(***************************************************************************)
THEOREM TypeCorrect == Spec => []TypeOK
<1>1. Typed => \A n \in DOMAIN devices : devices[n] \in Object
  BY DEF Typed
<1>2. Typed /\ Connected => TypeOK
  BY <1>1 DEF Typed, Connected, TypeOK, Object
<1>3. IInv => TypeOK
  BY <1>2 DEF IInv
<1>. QED  BY <1>3, Invariance, PTL

(***************************************************************************)
(* The device a page has for an index is at that place of the list of the  *)
(* Center (getDevice_or_Add, getDirectDevice), whenever the page was       *)
(* loaded.                                                                 *)
(***************************************************************************)
THEOREM PagesLeadToDevices == Spec => []DevicesOnPage
<1>1. IInv => DevicesOnPage
  BY DEF IInv, PagesRight, Leads, DevicesOnPage
<1>. QED  BY <1>1, Invariance, PTL

(***************************************************************************)
(* Histories are shown by the charts of their devices (handleHistory),     *)
(* although the shared socket object brings those of other clients.        *)
(***************************************************************************)
THEOREM HistoriesInPlace == Spec => []HistoryOnItsChart
<1>1. IInv => HistoryOnItsChart
  BY DEF IInv, ChartsRight, PagesRight, Leads, HistoryOnItsChart
<1>. QED  BY <1>1, Invariance, PTL

(***************************************************************************)
(* A command of a page (Passthrough_from_Secondary) reaches the device it  *)
(* was meant for, or none.                                                 *)
(***************************************************************************)
THEOREM CommandsArrive == Spec => []CommandsReachTheirDevice
<1>1. IInv => CommandsReachTheirDevice
  BY DEF IInv
<1>. QED  BY <1>1, Invariance, PTL

-----------------------------------------------------------------------------
(* SystemsAmong: what it is of the empty sequence, of one message, of two    *)
(* sequences behind each other, and of the rest behind the first message.    *)

Picked(m, these) == IF m \in these THEN <<m.system>> ELSE <<>>

HaveSystems(these) == \A m \in these : m.system \in Int

\* The systems of the first messages, however many.
Picking(p, messages, these) ==
  /\ p \in [0 .. Len(messages) -> Seq(Int)]
  /\ p[0] = <<>>
  /\ \A n \in 1 .. Len(messages) : p[n] = p[n - 1] \o Picked(messages[n], these)

LEMMA PickedType ==
  ASSUME NEW these, HaveSystems(these), NEW m
  PROVE  Picked(m, these) \in Seq(Int)
BY DEF Picked, HaveSystems

LEMMA Picks ==
  ASSUME NEW S, NEW messages \in Seq(S), NEW these, HaveSystems(these)
  PROVE  \E p : Picking(p, messages, these) /\ SystemsAmong(messages, these) = p[Len(messages)]
<1> DEFINE N == Len(messages)
           step == [x \in Nat \X Seq(Int) |-> x[2] \o Picked(messages[x[1]], these)]
           Defines(f) == f = [n \in 0 .. N |-> IF n = 0 THEN <<>>
                                               ELSE f[n - 1] \o Picked(messages[n], these)]
<1>1. N \in Nat /\ <<>> \in Seq(Int)
  OBVIOUS
<1>2. step \in [Nat \X Seq(Int) -> Seq(Int)]
  <2>1. \A x \in Nat \X Seq(Int) : x[2] \o Picked(messages[x[1]], these) \in Seq(Int)
    BY PickedType
  <2> QED
    BY <2>1
<1>3. PICK f : Goes(f, Seq(Int), <<>>, step, N)
  <2> HIDE DEF step, N
  <2> QED
    BY <1>1, <1>2, Defined, Zenon
<1>4. ASSUME NEW n \in 1 .. N PROVE f[n] = f[n - 1] \o Picked(messages[n], these)
  <2>1. n - 1 \in 0 .. N /\ n \in Nat
    BY <1>1
  <2>2. f[n - 1] \in Seq(Int)
    BY <1>3, <2>1 DEF Goes
  <2>3. <<n, f[n - 1]>> \in Nat \X Seq(Int)
    BY <2>1, <2>2
  <2>4. step[<<n, f[n - 1]>>] = f[n - 1] \o Picked(messages[n], these)
    BY <2>3
  <2> HIDE DEF step
  <2> QED
    BY <1>3, <2>4 DEF Goes
<1>5. Picking(f, messages, these)
  BY <1>3, <1>4 DEF Picking, Goes
<1>6. Defines(f)
  <2>1. DOMAIN f = 0 .. N /\ f = [n \in 0 .. N |-> f[n]]
    BY <1>3 DEF Goes
  <2>2. ASSUME NEW n \in 0 .. N
        PROVE  f[n] = IF n = 0 THEN <<>> ELSE f[n - 1] \o Picked(messages[n], these)
    <3>1. CASE n = 0
      BY <1>3, <3>1 DEF Goes
    <3>2. CASE n \in 1 .. N
      <4>1. n # 0
        BY <1>1, <3>2
      <4>2. f[n] = f[n - 1] \o Picked(messages[n], these)
        BY <1>4, <3>2, Zenon
      <4> QED
        BY <4>1, <4>2
    <3> QED
      BY <1>1, <3>1, <3>2
  <2> QED
    BY <2>1, <2>2
<1> DEFINE p == CHOOSE g : Defines(g)
<1>7. Defines(p)
  <2> HIDE DEF Defines
  <2> QED
    BY <1>6, Zenon
<1>8. p[N] = f[N]
  <2> HIDE DEF p
  <2>1. p[0] = f[0]
    BY <1>1, <1>6, <1>7
  <2>2. ASSUME NEW n \in 1 .. N, p[n - 1] = f[n - 1] PROVE p[n] = f[n]
    <3>1. n \in 0 .. N /\ n # 0
      BY <1>1
    <3>2. /\ p[n] = p[n - 1] \o Picked(messages[n], these)
          /\ f[n] = f[n - 1] \o Picked(messages[n], these)
      BY <1>6, <1>7, <3>1
    <3> QED
      BY <2>2, <3>2
  <2>3. \A n \in 0 .. N : p[n] = f[n]
    <3> HIDE DEF N, Defines
    <3>1. Alike(p, f, N)
      BY <2>1, <2>2 DEF Alike
    <3> QED
      BY <1>1, <3>1, Determined
  <2> QED
    BY <1>1, <2>3
<1>9. SystemsAmong(messages, these) = p[N]
  BY DEF SystemsAmong, Picked
<1> QED
  <2> HIDE DEF p, N
  <2> QED
    BY <1>5, <1>8, <1>9 DEF N

LEMMA AmongType ==
  ASSUME NEW S, NEW messages \in Seq(S), NEW these, HaveSystems(these)
  PROVE  SystemsAmong(messages, these) \in Seq(Int)
<1>1. PICK p : Picking(p, messages, these) /\ SystemsAmong(messages, these) = p[Len(messages)]
  BY Picks
<1>2. Len(messages) \in 0 .. Len(messages)
  OBVIOUS
<1> QED
  BY <1>1, <1>2 DEF Picking

LEMMA AmongFew ==
  ASSUME NEW S, NEW m \in S, NEW these, HaveSystems(these)
  PROVE  /\ SystemsAmong(<<>>, these) = <<>>
         /\ SystemsAmong(<<m>>, these) = Picked(m, these)
<1>1. <<>> \in Seq(S) /\ <<m>> \in Seq(S) /\ Len(<<>>) = 0 /\ Len(<<m>>) = 1 /\ <<m>>[1] = m
  OBVIOUS
<1>2. PICK p : Picking(p, <<>>, these) /\ SystemsAmong(<<>>, these) = p[0]
  BY <1>1, Picks
<1>3. PICK q : Picking(q, <<m>>, these) /\ SystemsAmong(<<m>>, these) = q[1]
  BY <1>1, Picks
<1>4. q[0] = <<>> /\ q[1] = q[0] \o Picked(m, these)
  <2>1. 1 \in 1 .. Len(<<m>>) /\ 1 - 1 = 0
    BY <1>1
  <2>2. q[0] = <<>> /\ q[1] = q[1 - 1] \o Picked(<<m>>[1], these)
    BY <1>3, <2>1 DEF Picking
  <2> QED
    BY <1>1, <2>1, <2>2
<1>5. <<>> \o Picked(m, these) = Picked(m, these)
  BY PickedType
<1> QED
  BY <1>2, <1>3, <1>4, <1>5 DEF Picking

LEMMA Behind ==
  ASSUME NEW S, NEW s \in Seq(S), NEW t \in Seq(S)
  PROVE  /\ s \o t \in Seq(S) /\ Len(s \o t) = Len(s) + Len(t)
         /\ \A n \in 1 .. Len(s) : (s \o t)[n] = s[n]
         /\ \A n \in 1 .. Len(t) : (s \o t)[Len(s) + n] = t[n]
OBVIOUS

LEMMA Associative ==
  ASSUME NEW S, NEW s \in Seq(S), NEW t \in Seq(S), NEW u \in Seq(S)
  PROVE  (s \o t) \o u = s \o (t \o u)
OBVIOUS

LEMMA AmongConcat ==
  ASSUME NEW S, NEW s \in Seq(S), NEW t \in Seq(S), NEW these, HaveSystems(these)
  PROVE  SystemsAmong(s \o t, these) = SystemsAmong(s, these) \o SystemsAmong(t, these)
<1>1. /\ s \o t \in Seq(S) /\ Len(s) \in Nat /\ Len(t) \in Nat /\ Len(s \o t) = Len(s) + Len(t)
      /\ \A n \in 1 .. Len(s) : (s \o t)[n] = s[n]
      /\ \A n \in 1 .. Len(t) : (s \o t)[Len(s) + n] = t[n]
  BY Behind
<1>2. PICK p : Picking(p, s, these) /\ SystemsAmong(s, these) = p[Len(s)]
  BY Picks
<1>3. PICK q : Picking(q, t, these) /\ SystemsAmong(t, these) = q[Len(t)]
  BY Picks
<1>4. PICK r : Picking(r, s \o t, these) /\ SystemsAmong(s \o t, these) = r[Len(s \o t)]
  BY <1>1, Picks
<1> DEFINE a == Len(s)
           b == Len(t)
           pick(n) == Picked((s \o t)[n], these)
<1>5. /\ p[a] \in Seq(Int) /\ p[0] = <<>> /\ r[0] = <<>> /\ q[0] = <<>>
      /\ \A n \in 0 .. b : q[n] \in Seq(Int)
      /\ \A n \in 1 .. a : p[n] = p[n - 1] \o Picked(s[n], these)
      /\ \A n \in 1 .. b : q[n] = q[n - 1] \o Picked(t[n], these)
      /\ \A n \in 1 .. a + b : r[n] = r[n - 1] \o pick(n)
  <2>1. /\ p[0] = <<>> /\ r[0] = <<>> /\ q[0] = <<>>
        /\ \A n \in 1 .. a : p[n] = p[n - 1] \o Picked(s[n], these)
        /\ \A n \in 1 .. b : q[n] = q[n - 1] \o Picked(t[n], these)
    BY <1>2, <1>3, <1>4 DEF Picking
  <2>2. p \in [0 .. a -> Seq(Int)] /\ q \in [0 .. b -> Seq(Int)]
    BY <1>2, <1>3 DEF Picking
  <2>3. p[a] \in Seq(Int) /\ \A n \in 0 .. b : q[n] \in Seq(Int)
    <3>1. a \in 0 .. a
      BY <1>1
    <3> HIDE DEF a, b
    <3> QED
      BY <2>2, <3>1
  <2>4. \A n \in 1 .. Len(s \o t) : r[n] = r[n - 1] \o pick(n)
    BY <1>4 DEF Picking
  <2>5. \A n \in 1 .. a + b : r[n] = r[n - 1] \o pick(n)
    <3> HIDE DEF pick
    <3> QED
      BY <1>1, <2>4
  <2> QED
    BY <2>1, <2>3, <2>5
<1>6. \A n \in 1 .. a : n \in 1 .. a + b /\ pick(n) = Picked(s[n], these)
  BY <1>1
<1>7. \A n \in 1 .. b : pick(a + n) = Picked(t[n], these) /\ Picked(t[n], these) \in Seq(Int)
  BY <1>1, PickedType
<1>8. a \in Nat /\ b \in Nat
  BY <1>1
<1> HIDE DEF a, b, pick
<1>9. \A n \in 0 .. a : p[n] = r[n]
  <2>1. ASSUME NEW n \in 1 .. a, p[n - 1] = r[n - 1] PROVE p[n] = r[n]
    <3>1. p[n] = p[n - 1] \o Picked(s[n], these) /\ r[n] = r[n - 1] \o pick(n)
      BY <1>5, <1>6
    <3> QED
      BY <1>6, <2>1, <3>1
  <2> QED
    <3>1. p[0] = r[0]
      BY <1>5
    <3>2. Alike(p, r, a)
      BY <2>1, <3>1 DEF Alike
    <3> QED
      BY <1>8, <3>2, Determined
<1> DEFINE f == [n \in 0 .. b |-> r[a + n]]
           g == [n \in 0 .. b |-> p[a] \o q[n]]
<1>10. \A n \in 0 .. b : f[n] = g[n]
  <2>1. f[0] = g[0]
    <3>1. f[0] = r[a] /\ g[0] = p[a] \o <<>>
      <4>1. 0 \in 0 .. b /\ a + 0 = a
        BY <1>8
      <4>2. f[0] = r[a + 0] /\ g[0] = p[a] \o q[0]
        BY <4>1
      <4> HIDE DEF f, g
      <4> QED
        BY <1>5, <4>1, <4>2
    <3>2. p[a] \o <<>> = p[a] /\ a \in 0 .. a
      BY <1>5, <1>8
    <3> HIDE DEF f, g
    <3> QED
      BY <1>9, <3>1, <3>2
  <2>2. ASSUME NEW n \in 1 .. b, f[n - 1] = g[n - 1] PROVE f[n] = g[n]
    <3>1. /\ n \in 0 .. b /\ n - 1 \in 0 .. b /\ a + n \in 1 .. a + b
          /\ a + (n - 1) = (a + n) - 1
      BY <1>8
    <3>2. f[n] = r[a + n] /\ f[n - 1] = r[(a + n) - 1] /\ g[n] = p[a] \o q[n] /\ g[n - 1] = p[a] \o q[n - 1]
      BY <3>1
    <3> HIDE DEF f, g
    <3>3. r[a + n] = r[(a + n) - 1] \o Picked(t[n], these)
      <4>1. r[a + n] = r[(a + n) - 1] \o pick(a + n)
        <5> DEFINE k == a + n
        <5>1. k \in 1 .. a + b
          BY <3>1
        <5> HIDE DEF k
        <5>2. r[k] = r[k - 1] \o pick(k)
          BY <1>5, <5>1, Zenon
        <5> QED
          BY <5>2 DEF k
      <4>2. pick(a + n) = Picked(t[n], these)
        BY <1>7
      <4> QED
        BY <4>1, <4>2
    <3>4. r[a + n] = (p[a] \o q[n - 1]) \o Picked(t[n], these)
      BY <2>2, <3>2, <3>3
    <3>5. (p[a] \o q[n - 1]) \o Picked(t[n], these) = p[a] \o (q[n - 1] \o Picked(t[n], these))
      <4>1. p[a] \in Seq(Int) /\ q[n - 1] \in Seq(Int) /\ Picked(t[n], these) \in Seq(Int)
        BY <1>5, <1>7, <3>1
      <4> DEFINE x == p[a]
                 y == q[n - 1]
                 z == Picked(t[n], these)
      <4>2. x \in Seq(Int) /\ y \in Seq(Int) /\ z \in Seq(Int)
        BY <4>1
      <4> HIDE DEF x, y, z
      <4>3. (x \o y) \o z = x \o (y \o z)
        BY <4>2
      <4> QED
        BY <4>3 DEF x, y, z
    <3> QED
      BY <1>5, <3>2, <3>4, <3>5
  <2> HIDE DEF f, g
  <2>3. Alike(f, g, b)
    BY <2>1, <2>2 DEF Alike
  <2> QED
    BY <1>8, <2>3, Determined
<1>11. b \in 0 .. b /\ f[b] = r[a + b] /\ g[b] = p[a] \o q[b]
  <2>1. b \in 0 .. b
    BY <1>8
  <2> QED
    BY <2>1
<1>12. r[a + b] = p[a] \o q[b]
  <2> HIDE DEF f, g
  <2> QED
    BY <1>10, <1>11
<1> QED
  BY <1>1, <1>2, <1>3, <1>4, <1>12 DEF a, b

LEMMA AmongAppend ==
  ASSUME NEW S, NEW s \in Seq(S), NEW m \in S, NEW these, HaveSystems(these)
  PROVE  SystemsAmong(Append(s, m), these) = SystemsAmong(s, these) \o Picked(m, these)
<1> DEFINE one == <<m>>
<1>1. one \in Seq(S) /\ Append(s, m) = s \o one
  OBVIOUS
<1>2. SystemsAmong(one, these) = Picked(m, these)
  BY AmongFew, Zenon
<1> HIDE DEF one
<1>3. SystemsAmong(s \o one, these) = SystemsAmong(s, these) \o SystemsAmong(one, these)
  BY <1>1, AmongConcat
<1> QED
  BY <1>1, <1>2, <1>3

LEMMA AmongTail ==
  ASSUME NEW S, NEW s \in Seq(S), s # <<>>, NEW these, HaveSystems(these)
  PROVE  SystemsAmong(s, these) = Picked(Head(s), these) \o SystemsAmong(Tail(s), these)
<1> DEFINE one == <<Head(s)>>
           rest == Tail(s)
<1>1. Head(s) \in S /\ one \in Seq(S) /\ rest \in Seq(S) /\ s = one \o rest
  OBVIOUS
<1>2. SystemsAmong(one, these) = Picked(Head(s), these)
  BY <1>1, AmongFew, Zenon
<1> HIDE DEF one, rest
<1>3. SystemsAmong(one \o rest, these) = SystemsAmong(one, these) \o SystemsAmong(rest, these)
  BY <1>1, AmongConcat
<1> USE DEF rest
<1> QED
  BY <1>1, <1>2, <1>3

-----------------------------------------------------------------------------
(* The requests of the client whose session the field is: all on their way,  *)
(* in order. What the others await matters no more, since a client that has  *)
(* been followed does not come back.                                         *)

AtThread(c) == IF handler[c] = Null THEN <<>> ELSE <<handler[c].system>>

\* The thread answers to its own client, and what is asked is awaited.
Answered(c) ==
  /\ handler[c] # Null => handler[c].to = c
  /\ Awaited(c) = asked[c]

FieldAnswered ==
  /\ DOMAIN asked = Clients
  /\ \A c \in Clients : conn[c] = "new" => asked[c] = <<>>
  /\ \A c \in Clients : field = c => Answered(c)

LEMMA Filters ==
  ASSUME NEW c \in Clients
  PROVE  HaveSystems(AnswersFor(c)) /\ HaveSystems(HistoryRequests)
BY DEF HaveSystems, AnswersFor, HistoryRequests

LEMMA AwaitedParts ==
  ASSUME Typed, NEW c \in Clients
  PROVE  /\ inbox[c] \in Seq(Frames) /\ outbox[c] \in Seq(Messages)
         /\ SystemsAmong(outbox[c], AnswersFor(c)) \in Seq(Int)
         /\ AtThread(c) \in Seq(Int)
         /\ SystemsAmong(inbox[c], HistoryRequests) \in Seq(Int)
         /\ Awaited(c) = SystemsAmong(outbox[c], AnswersFor(c)) \o AtThread(c)
                            \o SystemsAmong(inbox[c], HistoryRequests)
<1>1. inbox[c] \in Seq(Frames) /\ outbox[c] \in Seq(Messages)
  BY DEF Typed
<1>2. AtThread(c) \in Seq(Int)
  <2>1. handler[c] # Null => handler[c].system \in Int
    BY DEF Typed, Handled
  <2> QED
    BY <2>1 DEF AtThread
<1> QED
  BY <1>1, <1>2, Filters, AmongType DEF Awaited, AtThread

\* A client whose messages, thread and requests stay as they are.
LEMMA Unmoved ==
  ASSUME NEW c \in Clients, Answered(c), inbox'[c] = inbox[c], outbox'[c] = outbox[c],
         handler'[c] = handler[c], asked'[c] = asked[c]
  PROVE  Answered(c)'
BY DEF Answered, Awaited

\* A message that is no answer to the client comes or goes.
LEMMA NoAnswer ==
  ASSUME Typed, NEW c \in Clients, Answered(c), inbox'[c] = inbox[c],
         handler'[c] = handler[c], asked'[c] = asked[c],
         NEW m \in Messages, m \notin AnswersFor(c),
         \/ outbox'[c] = Append(outbox[c], m)
         \/ outbox[c] # <<>> /\ m = Head(outbox[c]) /\ outbox'[c] = Tail(outbox[c])
  PROVE  Answered(c)'
<1> DEFINE these == AnswersFor(c)
<1>1. /\ outbox[c] \in Seq(Messages)
      /\ SystemsAmong(outbox[c], these) \in Seq(Int)
      /\ HaveSystems(these) /\ Picked(m, these) = <<>>
  BY AwaitedParts, Filters DEF Picked
<1>2. SystemsAmong(outbox'[c], these) = SystemsAmong(outbox[c], these)
  <2> HIDE DEF these
  <2>1. CASE outbox'[c] = Append(outbox[c], m)
    <3>1. SystemsAmong(outbox'[c], these) = SystemsAmong(outbox[c], these) \o <<>>
      <4> DEFINE s == outbox[c]
      <4>1. s \in Seq(Messages)
        BY <1>1
      <4> HIDE DEF s
      <4>2. SystemsAmong(Append(s, m), these) = SystemsAmong(s, these) \o Picked(m, these)
        BY <1>1, <4>1, AmongAppend
      <4> QED
        BY <1>1, <2>1, <4>2 DEF s
    <3> QED
      BY <1>1, <3>1
  <2>2. CASE outbox[c] # <<>> /\ m = Head(outbox[c]) /\ outbox'[c] = Tail(outbox[c])
    <3>1. SystemsAmong(outbox[c], these) = <<>> \o SystemsAmong(outbox'[c], these)
      BY <1>1, <2>2, AmongTail
    <3>2. outbox'[c] \in Seq(Messages)
      BY <1>1, <2>2
    <3>3. SystemsAmong(outbox'[c], these) \in Seq(Int)
      BY <1>1, <3>2, AmongType
    <3> QED
      BY <3>1, <3>3
  <2> QED
    BY <2>1, <2>2
<1> QED
  BY <1>2 DEF Answered, Awaited, AnswersFor

LEMMA InitFieldAnswered == Init => FieldAnswered
BY ClientsAssumption DEF Init, FieldAnswered

\* When a connection ends, the field is nobody's.
LEMMA EndFieldAnswered ==
  ASSUME IInv, FieldAnswered, NEW c \in Clients, End(c)
  PROVE  FieldAnswered'
<1>1. field' = Null /\ Null \notin Clients
  BY ClientsAssumption DEF End
<1>2. /\ DOMAIN asked' = Clients /\ asked'[c] = <<>>
      /\ \A b \in Clients \ {c} : asked'[b] = asked[b] /\ conn'[b] = conn[b]
  BY DEF End, FieldAnswered, IInv, Typed
<1> QED
  BY <1>1, <1>2 DEF FieldAnswered

\* Steps that leave the asked, the field and the connections alone.
LEMMA SameAsked ==
  ASSUME FieldAnswered, UNCHANGED <<asked, field, conn>>,
         \A c \in Clients : field = c => Answered(c)'
  PROVE  FieldAnswered'
BY DEF FieldAnswered

LEMMA OpenFieldAnswered ==
  ASSUME IInv, FieldAnswered, NEW c \in Clients, Open(c)
  PROVE  FieldAnswered'
<1>1. /\ conn[c] = "new" /\ field' = c
      /\ conn' = [conn EXCEPT ![c] = "opening"]
      /\ UNCHANGED <<inbox, outbox, handler, asked>>
  BY DEF Open, browser
<1>2. inbox[c] = <<>> /\ outbox[c] = <<>> /\ handler[c] = Null /\ asked[c] = <<>>
  BY <1>1 DEF IInv, Connected, IsOpen, FieldAnswered
<1>3. SystemsAmong(<<>>, AnswersFor(c)) = <<>> /\ SystemsAmong(<<>>, HistoryRequests) = <<>>
  BY Filters, AmongFew
<1>4. Awaited(c) = <<>>
  <2>1. (<<>> \o <<>>) \o <<>> = <<>>
    OBVIOUS
  <2> QED
    BY <1>2, <1>3, <2>1 DEF Awaited
<1>5. Answered(c)'
  BY <1>1, <1>2, <1>4 DEF Answered, Awaited
<1> QED
  BY <1>1, <1>5 DEF FieldAnswered, IInv, Typed

\* A command of a client is read: it awaits nothing.
LEMMA PassthroughAnswered ==
  ASSUME IInv, FieldAnswered, NEW c \in Clients, Passthrough(c)
  PROVE  FieldAnswered'
<1>1. CASE End(c)
  BY <1>1, EndFieldAnswered
<1>2. CASE /\ inbox' = [inbox EXCEPT ![c] = Tail(@)]
           /\ UNCHANGED <<conn, field, handler, outbox, page, shown, asked>>
  <2>1. inbox[c] # <<>> /\ Head(inbox[c]).kind = "modify" /\ inbox[c] \in Seq(Frames)
    BY AwaitedParts DEF Passthrough, IInv
  <2>2. Picked(Head(inbox[c]), HistoryRequests) = <<>>
    BY <2>1 DEF Picked, HistoryRequests
  <2>3. HaveSystems(HistoryRequests)
    BY Filters
  <2>4. Tail(inbox[c]) \in Seq(Frames) /\ inbox'[c] = Tail(inbox[c])
    BY <1>2, <2>1 DEF IInv, Typed
  <2>5. SystemsAmong(inbox[c], HistoryRequests) = SystemsAmong(inbox'[c], HistoryRequests)
    <3>1. SystemsAmong(inbox[c], HistoryRequests) = <<>> \o SystemsAmong(Tail(inbox[c]), HistoryRequests)
      BY <2>1, <2>2, <2>3, AmongTail
    <3>2. SystemsAmong(Tail(inbox[c]), HistoryRequests) \in Seq(Int)
      BY <2>3, <2>4, AmongType
    <3> QED
      BY <2>4, <3>1, <3>2
  <2>6. ASSUME NEW b \in Clients, field = b PROVE Answered(b)'
    <3>1. Answered(b)
      BY <2>6 DEF FieldAnswered
    <3>2. CASE b = c
      BY <1>2, <2>5, <3>1, <3>2 DEF Answered, Awaited, AnswersFor, HistoryRequests
    <3>3. CASE b # c
      <4>1. inbox'[b] = inbox[b]
        BY <1>2, <3>3 DEF IInv, Typed
      <4> QED
        BY <1>2, <3>1, <4>1, Unmoved
    <3> QED
      BY <3>2, <3>3
  <2> QED
    BY <1>2, <2>6, SameAsked
<1> QED
  BY <1>1, <1>2 DEF Passthrough

\* A request moves from the frames to the thread, which answers to the field.
LEMMA BeginHistoryAnswered ==
  ASSUME IInv, FieldAnswered, NEW c \in Clients, BeginHistory(c)
  PROVE  FieldAnswered'
<1> DEFINE frame == Head(inbox[c])
<1>1. CASE End(c)
  BY <1>1, EndFieldAnswered
<1>2. ASSUME NEW n,
             handler' = [handler EXCEPT ![c] = [to |-> field, device |-> devices[n].device,
                                                index |-> devices[n].index, system |-> frame.system]],
             inbox' = [inbox EXCEPT ![c] = Tail(@)],
             n \in Found(frame.device),
             UNCHANGED <<conn, field, outbox, page, shown, asked>>
      PROVE  FieldAnswered'
  <2>1. /\ inbox[c] # <<>> /\ frame.kind = "request" /\ handler[c] = Null
        /\ inbox[c] \in Seq(Frames)
    BY AwaitedParts DEF BeginHistory, IInv
  <2>2. frame \in HistoryRequests /\ frame.system \in Int
    <3>1. frame \in Frames
      BY <2>1
    <3> HIDE DEF frame
    <3> QED
      BY <2>1, <3>1 DEF Frames, HistoryRequests
  <2>3. /\ Tail(inbox[c]) \in Seq(Frames) /\ inbox'[c] = Tail(inbox[c])
        /\ handler'[c].to = field /\ handler'[c].system = frame.system
        /\ \A b \in Clients \ {c} : inbox'[b] = inbox[b] /\ handler'[b] = handler[b]
    BY <1>2, <2>1 DEF IInv, Typed
  <2> DEFINE x == SystemsAmong(outbox[c], AnswersFor(c))
             z == SystemsAmong(Tail(inbox[c]), HistoryRequests)
  <2>4. x \in Seq(Int) /\ z \in Seq(Int)
    BY <2>3, AwaitedParts, AmongType, Filters DEF IInv
  <2>5. SystemsAmong(inbox[c], HistoryRequests) = <<frame.system>> \o z
    <3>1. SystemsAmong(inbox[c], HistoryRequests) = Picked(frame, HistoryRequests) \o z
      BY <2>1, AmongTail, Filters
    <3> HIDE DEF frame, z
    <3> QED
      BY <2>2, <3>1 DEF Picked
  <2>6. Awaited(c) = (x \o <<frame.system>>) \o z
    <3>1. Awaited(c) = (x \o <<>>) \o (<<frame.system>> \o z)
      BY <2>1, <2>5 DEF Awaited
    <3> HIDE DEF frame, x, z
    <3> QED
      BY <2>2, <2>4, <3>1
  <2>7. handler'[c] \in Handled
    <3>1. frame.device \in Int
      BY <2>2 DEF HistoryRequests
    <3>2. devices[n] \in Object
      BY <1>2, <3>1, FoundFacts DEF IInv
    <3>3. field \in Clients \cup {Null}
      BY DEF IInv, Typed
    <3>4. handler'[c] = [to |-> field, device |-> devices[n].device,
                         index |-> devices[n].index, system |-> frame.system]
      BY <1>2 DEF IInv, Typed
    <3> HIDE DEF frame
    <3> QED
      BY <2>2, <3>2, <3>3, <3>4 DEF Handled, Object
  <2>8. ASSUME NEW b \in Clients, field = b PROVE Answered(b)'
    <3>1. Answered(b)
      BY <2>8 DEF FieldAnswered
    <3>2. CASE b = c
      <4>1. handler'[c] # Null
        <5>1. handler'[c] \in Handled
          BY <2>7
        <5> QED
          BY <5>1, ClientsAssumption
      <4>2. Awaited(c)' = (x \o <<frame.system>>) \o z
        BY <1>2, <2>3, <4>1 DEF Awaited, AnswersFor, HistoryRequests
      <4> QED
        BY <1>2, <2>3, <2>6, <2>8, <3>1, <3>2, <4>2 DEF Answered
    <3>3. CASE b # c
      <4>1. inbox'[b] = inbox[b] /\ handler'[b] = handler[b]
        BY <2>3, <3>3
      <4> QED
        BY <1>2, <3>1, <4>1, Unmoved
    <3> QED
      BY <3>2, <3>3
  <2> QED
    BY <1>2, <2>8, SameAsked
<1> QED
  BY <1>1, <1>2 DEF BeginHistory

\* A thread's answer is put behind those before it. Answers to other clients
\* that come the same way are none of this one's.
LEMMA AnswerAnswered ==
  ASSUME IInv, FieldAnswered, NEW c \in Clients, Answer(c)
  PROVE  FieldAnswered'
<1> DEFINE h == handler[c]
           m == [kind |-> "history", device |-> h.device, index |-> h.index,
                 system |-> h.system, for |-> c]
<1>1. /\ h # Null /\ h \in Handled /\ h.to \in Clients /\ h.system \in Int
      /\ handler' = [handler EXCEPT ![c] = Null]
      /\ outbox' = IF IsOpen(h.to) THEN [outbox EXCEPT ![h.to] = Append(@, m)] ELSE outbox
      /\ UNCHANGED <<field, conn, inbox, asked>>
  BY DEF Answer, browser, IInv, Typed, Handled
<1>2. m \in Messages /\ m \in AnswersFor(c) /\ \A b \in Clients \ {c} : m \notin AnswersFor(b)
  BY <1>1 DEF Handled, Messages, AnswersFor
<1>3. /\ \A b \in Clients \ {c} : handler'[b] = handler[b]
      /\ handler'[c] = Null
      /\ \A b \in Clients : b # h.to => outbox'[b] = outbox[b]
      /\ IsOpen(h.to) => outbox'[h.to] = Append(outbox[h.to], m)
      /\ ~ IsOpen(h.to) => outbox' = outbox
  BY <1>1 DEF IInv, Typed
<1>4. m.system = h.system
  OBVIOUS
<1> HIDE DEF m
<1>5. ASSUME NEW b \in Clients, field = b PROVE Answered(b)'
  <2>1. Answered(b) /\ IsOpen(b)
    BY <1>5, ClientsAssumption DEF FieldAnswered, IInv, Connected
  <2>2. CASE b # c
    <3>1. CASE outbox'[b] = outbox[b]
      BY <1>1, <1>3, <2>1, <2>2, <3>1, Unmoved
    <3>2. CASE outbox'[b] = Append(outbox[b], m)
      <4>1. handler'[b] = handler[b] /\ inbox'[b] = inbox[b] /\ asked'[b] = asked[b]
        BY <1>1, <1>3, <2>2
      <4>2. m \notin AnswersFor(b)
        BY <1>2, <2>2
      <4> QED
        BY <1>2, <2>1, <3>2, <4>1, <4>2, NoAnswer DEF IInv
    <3> QED
      BY <1>3, <3>1, <3>2
  <2>3. CASE b = c
    <3> DEFINE s == outbox[c]
               these == AnswersFor(c)
               x == SystemsAmong(s, these)
               z == SystemsAmong(inbox[c], HistoryRequests)
    <3>1. h.to = c
      BY <1>1, <2>1, <2>3 DEF Answered
    <3>2. outbox'[c] = Append(s, m)
      BY <1>3, <2>1, <2>3, <3>1
    <3>3. s \in Seq(Messages) /\ x \in Seq(Int) /\ z \in Seq(Int) /\ HaveSystems(these)
      BY AwaitedParts, Filters DEF IInv
    <3>4. SystemsAmong(Append(s, m), these) = x \o <<h.system>>
      <4>1. Picked(m, these) = <<h.system>>
        BY <1>2, <1>4 DEF Picked
      <4> HIDE DEF s, these
      <4>2. SystemsAmong(Append(s, m), these) = x \o Picked(m, these)
        BY <1>2, <3>3, AmongAppend
      <4> QED
        BY <4>1, <4>2
    <3>5. Awaited(c) = (x \o <<h.system>>) \o z
      BY <1>1 DEF Awaited
    <3>6. Awaited(c)' = ((x \o <<h.system>>) \o <<>>) \o z
      BY <1>1, <1>3, <3>2, <3>4 DEF Awaited, AnswersFor, HistoryRequests
    <3>7. Awaited(c)' = Awaited(c)
      <4> HIDE DEF h, x, z
      <4>1. (x \o <<h.system>>) \o <<>> = x \o <<h.system>>
        BY <1>1, <3>3
      <4> QED
        BY <3>5, <3>6, <4>1
    <3> QED
      BY <1>1, <1>3, <2>1, <2>3, <3>7 DEF Answered
  <2> QED
    BY <2>2, <2>3
<1> QED
  BY <1>1, <1>5, SameAsked

\* A session that has been closed is not the field's: the thread of the field's
\* client does not fail to answer without an end of its connection.
LEMMA AnswerFailsAnswered ==
  ASSUME IInv, FieldAnswered, NEW c \in Clients, AnswerFails(c)
  PROVE  FieldAnswered'
<1>1. CASE End(c)
  BY <1>1, EndFieldAnswered
<1>2. CASE /\ handler[c] # Null /\ ~ IsOpen(handler[c].to)
           /\ handler' = [handler EXCEPT ![c] = Null]
           /\ UNCHANGED <<conn, field, inbox, outbox, page, shown, asked>>
  <2>1. ASSUME NEW b \in Clients, field = b PROVE Answered(b)'
    <3>1. Answered(b) /\ IsOpen(b)
      BY <2>1, ClientsAssumption DEF FieldAnswered, IInv, Connected
    <3>2. b # c
      BY <1>2, <3>1 DEF Answered
    <3>3. handler'[b] = handler[b]
      BY <1>2, <3>2 DEF IInv, Typed
    <3> QED
      BY <1>2, <3>1, <3>3, Unmoved
  <2> QED
    BY <1>2, <2>1, SameAsked
<1> QED
  BY <1>1, <1>2 DEF AnswerFails

\* A description comes next: the client sends requests, and asks for as much.
LEMMA SendAnswered ==
  ASSUME Typed, NEW c \in Clients, Answered(c), DOMAIN asked = Clients,
         NEW frames \in Seq(Frames), Send(c, frames),
         handler'[c] = handler[c],
         SystemsAmong(outbox'[c], AnswersFor(c)) = SystemsAmong(outbox[c], AnswersFor(c))
  PROVE  Answered(c)'
<1> DEFINE s == inbox[c]
           x == SystemsAmong(outbox[c], AnswersFor(c))
           y == AtThread(c)
           z == SystemsAmong(s, HistoryRequests)
           new == SystemsAmong(frames, HistoryRequests)
<1>1. s \in Seq(Frames) /\ x \in Seq(Int) /\ y \in Seq(Int) /\ z \in Seq(Int)
  BY AwaitedParts
<1>2. new \in Seq(Int) /\ HaveSystems(HistoryRequests)
  BY AmongType, Filters
<1>3. /\ inbox'[c] = s \o frames /\ asked'[c] = asked[c] \o new
      /\ asked[c] = (x \o y) \o z
  BY AwaitedParts DEF Send, Typed, Answered
<1>4. SystemsAmong(s \o frames, HistoryRequests) = z \o new
  <2>1. s \in Seq(Frames) /\ frames \in Seq(Frames) /\ HaveSystems(HistoryRequests)
    BY <1>1, <1>2
  <2> HIDE DEF s
  <2>2. SystemsAmong(s \o frames, HistoryRequests)
          = SystemsAmong(s, HistoryRequests) \o SystemsAmong(frames, HistoryRequests)
    BY <2>1, AmongConcat
  <2> QED
    BY <2>2
<1>5. Awaited(c)' = (x \o y) \o (z \o new)
  BY <1>3, <1>4 DEF Awaited, AtThread, AnswersFor, HistoryRequests
<1>6. (x \o y) \o (z \o new) = ((x \o y) \o z) \o new
  <2> HIDE DEF s, x, y, z, new
  <2> DEFINE xy == x \o y
  <2>1. xy \in Seq(Int) /\ z \in Seq(Int) /\ new \in Seq(Int)
    BY <1>1, <1>2
  <2> HIDE DEF xy
  <2>2. xy \o (z \o new) = (xy \o z) \o new
    BY <2>1
  <2> QED
    BY <2>2 DEF xy
<1> QED
  BY <1>3, <1>5, <1>6 DEF Answered

\* A page that sends is that of a client that has connected.
LEMMA SendFieldAnswered ==
  ASSUME IInv, FieldAnswered, NEW c \in Clients, IsOpen(c), UNCHANGED <<field, conn, handler>>,
         NEW frames \in Seq(Frames), Send(c, frames),
         \A b \in Clients \ {c} : outbox'[b] = outbox[b],
         SystemsAmong(outbox'[c], AnswersFor(c)) = SystemsAmong(outbox[c], AnswersFor(c))
  PROVE  FieldAnswered'
<1>1. /\ DOMAIN asked' = Clients /\ conn[c] # "new"
      /\ \A b \in Clients \ {c} : asked'[b] = asked[b] /\ inbox'[b] = inbox[b]
  BY DEF Send, FieldAnswered, IInv, Typed, IsOpen
<1>2. ASSUME NEW b \in Clients, field = b PROVE Answered(b)'
  <2>1. Answered(b) /\ handler'[b] = handler[b]
    BY <1>2 DEF FieldAnswered
  <2>2. CASE b = c
    BY <2>1, <2>2, SendAnswered DEF FieldAnswered, IInv
  <2>3. CASE b # c
    BY <1>1, <2>1, <2>3, Unmoved
  <2> QED
    BY <2>2, <2>3
<1> QED
  BY <1>1, <1>2 DEF FieldAnswered

LEMMA ReceiveDescriptionAnswered ==
  ASSUME IInv, FieldAnswered, NEW c \in Clients, ReceiveDescription(c)
  PROVE  FieldAnswered'
<1> DEFINE message == Head(outbox[c])
           frames == Requests(c, message.index)
<1>1. /\ UNCHANGED <<field, conn, handler>>
      /\ outbox[c] # <<>> /\ message.kind = "description"
      /\ outbox' = [outbox EXCEPT ![c] = Tail(@)]
      /\ Send(c, frames) /\ IsOpen(c)
  BY DEF ReceiveDescription, server, IInv, Connected
<1>2. outbox[c] \in Seq(Messages) /\ Tail(outbox[c]) \in Seq(Messages) /\ message \in Messages
  BY <1>1 DEF IInv, Typed
<1>3. frames \in Seq(Frames)
  <2> DEFINE i == message.index
             d == message.device
  <2>1. i \in Int /\ d \in Devices
    BY <1>1, <1>2 DEF Messages
  <2>2. page'[c][i] = d
    BY DEF ReceiveDescription, IInv, Typed
  <2>3. SystemCount[d] \in Nat
    BY <2>1, ClientsAssumption
  <2> HIDE DEF i, d, message
  <2>4. \A k \in 1 .. SystemCount[d] : Frame("request", c, i, k - 1) \in Frames
    BY <2>1, <2>2, <2>3 DEF Frame, Frames
  <2>5. frames = [k \in 1 .. SystemCount[d] |-> Frame("request", c, i, k - 1)]
    BY <2>2 DEF Requests, i
  <2>6. frames \in [1 .. SystemCount[d] -> Frames]
    BY <2>4, <2>5
  <2> QED
    BY <2>3, <2>6, SeqOfFunction
<1>4. SystemsAmong(outbox'[c], AnswersFor(c)) = SystemsAmong(outbox[c], AnswersFor(c))
  <2>1. Picked(message, AnswersFor(c)) = <<>>
    BY <1>1 DEF Picked, AnswersFor
  <2>2. SystemsAmong(outbox[c], AnswersFor(c)) = <<>> \o SystemsAmong(Tail(outbox[c]), AnswersFor(c))
    BY <1>1, <1>2, <2>1, AmongTail, Filters
  <2>3. SystemsAmong(Tail(outbox[c]), AnswersFor(c)) \in Seq(Int)
    BY <1>2, AmongType, Filters
  <2>4. outbox'[c] = Tail(outbox[c])
    BY <1>1 DEF IInv, Typed
  <2> QED
    BY <2>2, <2>3, <2>4
<1>5. \A b \in Clients \ {c} : outbox'[b] = outbox[b]
  BY <1>1 DEF IInv, Typed
<1> QED
  BY <1>1, <1>3, <1>4, <1>5, SendFieldAnswered

LEMMA AskAnswered ==
  ASSUME IInv, FieldAnswered, NEW c \in Clients, NEW i \in DOMAIN page[c],
         NEW s \in Systems(page[c][i]), NEW kind \in {"request", "modify"}, Ask(c, kind, i, s)
  PROVE  FieldAnswered'
<1> DEFINE frame == Frame(kind, c, i, s)
<1>1. /\ UNCHANGED <<field, conn, handler, outbox, page>>
      /\ Send(c, <<frame>>)
  BY DEF Ask, server
<1>2. i \in Int /\ page[c][i] \in Devices /\ IsOpen(c)
  BY DEF IInv, PagesRight, Connected
<1>3. frame \in Frames
  BY <1>1, <1>2, ClientsAssumption DEF Frame, Frames, Systems
<1>4. <<frame>> \in Seq(Frames)
  <2> HIDE DEF frame
  <2> QED
    BY <1>3
<1> QED
  BY <1>1, <1>2, <1>4, SendFieldAnswered

\* An answer to the client itself is the first that it awaits.
LEMMA ReceiveHistoryAnswered ==
  ASSUME IInv, FieldAnswered, NEW c \in Clients, ReceiveHistory(c)
  PROVE  FieldAnswered'
<1> DEFINE m == Head(outbox[c])
           these == AnswersFor(c)
<1>1. /\ UNCHANGED <<field, conn, handler, inbox>>
      /\ outbox[c] # <<>> /\ m.kind = "history"
      /\ outbox' = [outbox EXCEPT ![c] = Tail(@)]
      /\ asked' = IF m.for = c THEN [asked EXCEPT ![c] = Tail(@)] ELSE asked
      /\ IsOpen(c)
  BY DEF ReceiveHistory, server, IInv, Connected
<1>2. outbox[c] \in Seq(Messages) /\ Tail(outbox[c]) \in Seq(Messages) /\ m \in Messages
  BY <1>1 DEF IInv, Typed
<1>3. /\ outbox'[c] = Tail(outbox[c])
      /\ \A b \in Clients \ {c} : outbox'[b] = outbox[b] /\ asked'[b] = asked[b]
      /\ DOMAIN asked' = Clients
      /\ conn[c] # "new"
  BY <1>1 DEF IInv, Typed, FieldAnswered, IsOpen
<1>4. ASSUME field = c PROVE Answered(c)'
  <2>1. Answered(c)
    BY <1>4 DEF FieldAnswered
  <2>2. CASE m.for # c
    <3>1. m \notin these
      BY <2>2 DEF AnswersFor
    <3>2. asked'[c] = asked[c]
      BY <1>1, <2>2
    <3> HIDE DEF m, these
    <3> QED
      BY <1>1, <1>2, <1>3, <2>1, <3>1, <3>2, NoAnswer DEF IInv, m, these
  <2>3. CASE m.for = c
    <3> DEFINE x == SystemsAmong(Tail(outbox[c]), these)
               y == AtThread(c)
               z == SystemsAmong(inbox[c], HistoryRequests)
    <3>1. m \in these /\ m.system \in Int
      <4> HIDE DEF m
      <4> QED
        BY <1>1, <1>2, <2>3 DEF Messages, AnswersFor
    <3>2. x \in Seq(Int) /\ y \in Seq(Int) /\ z \in Seq(Int)
      BY <1>2, AmongType, AwaitedParts, Filters DEF IInv
    <3>3. SystemsAmong(outbox[c], these) = <<m.system>> \o x
      <4>1. Picked(m, these) = <<m.system>>
        BY <3>1 DEF Picked
      <4> QED
        BY <1>1, <1>2, <4>1, AmongTail, Filters
    <3>4. asked[c] = ((<<m.system>> \o x) \o y) \o z
      BY <2>1, <3>3, AwaitedParts DEF Answered, IInv
    <3>5. asked'[c] = Tail(asked[c])
      BY <1>1, <2>3 DEF FieldAnswered
    <3>6. Awaited(c)' = (x \o y) \o z
      BY <1>1, <1>3 DEF Awaited, AtThread, AnswersFor, HistoryRequests
    <3>7. Tail(((<<m.system>> \o x) \o y) \o z) = (x \o y) \o z
      <4> DEFINE k == m.system
      <4>1. k \in Int
        BY <3>1
      <4> HIDE DEF k, x, y, z
      <4>2. Tail(((<<k>> \o x) \o y) \o z) = (x \o y) \o z
        BY <3>2, <4>1
      <4> QED
        BY <4>2 DEF k
    <3> QED
      BY <1>1, <2>1, <3>4, <3>5, <3>6, <3>7 DEF Answered
  <2> QED
    BY <2>2, <2>3
<1>5. ASSUME NEW b \in Clients, field = b PROVE Answered(b)'
  <2>1. CASE b = c
    BY <1>4, <1>5, <2>1
  <2>2. CASE b # c
    <3>1. Answered(b) /\ inbox'[b] = inbox[b] /\ handler'[b] = handler[b]
      BY <1>1, <1>5 DEF FieldAnswered
    <3> QED
      BY <1>3, <2>2, <3>1, Unmoved
  <2> QED
    BY <2>1, <2>2
<1> QED
  BY <1>1, <1>3, <1>5 DEF FieldAnswered

\* The list, and the connections that are being opened, are no matter of requests.
LEMMA OthersAnswered ==
  ASSUME IInv, FieldAnswered
  PROVE  /\ \A new : Change(new) => FieldAnswered'
         /\ \A c \in Clients : SendDescription(c) \/ Opened(c) => FieldAnswered'
         /\ UNCHANGED vars => FieldAnswered'
<1>1. ASSUME UNCHANGED <<field, asked, handler, inbox, outbox>>,
             \A c \in Clients : conn'[c] = "new" => conn[c] = "new"
      PROVE  FieldAnswered'
  BY <1>1, Unmoved DEF FieldAnswered
<1>2. ASSUME NEW new, Change(new) PROVE FieldAnswered'
  BY <1>1, <1>2 DEF Change, server, browser
<1>3. ASSUME NEW c \in Clients, Opened(c) PROVE FieldAnswered'
  <2>1. \A b \in Clients : conn'[b] = "new" => conn[b] = "new"
    BY <1>3 DEF Opened, IInv, Typed
  <2> QED
    BY <1>1, <1>3, <2>1 DEF Opened, browser
<1>4. ASSUME NEW c \in Clients, SendDescription(c) PROVE FieldAnswered'
  <2> DEFINE at == sending[c].place
             m == [kind |-> "description", device |-> devices[at].device, index |-> devices[at].index]
  <2>1. at \in DOMAIN devices /\ devices[at] \in Object
    BY <1>4 DEF SendDescription, IInv, Typed
  <2>2. m \in Messages /\ \A b \in Clients : m \notin AnswersFor(b)
    BY <2>1 DEF Object, Messages, AnswersFor
  <2>3. /\ outbox' = [outbox EXCEPT ![c] = Append(@, m)]
        /\ UNCHANGED <<field, conn, inbox, handler, asked>>
    BY <1>4 DEF SendDescription, browser
  <2> HIDE DEF m
  <2>4. outbox'[c] = Append(outbox[c], m) /\ \A b \in Clients \ {c} : outbox'[b] = outbox[b]
    BY <2>3 DEF IInv, Typed
  <2>5. ASSUME NEW b \in Clients, field = b PROVE Answered(b)'
    <3>1. /\ Answered(b) /\ inbox'[b] = inbox[b] /\ handler'[b] = handler[b]
          /\ asked'[b] = asked[b]
      BY <2>3, <2>5 DEF FieldAnswered
    <3>2. CASE b = c
      BY <2>2, <2>4, <3>1, <3>2, NoAnswer DEF IInv
    <3>3. CASE b # c
      BY <2>4, <3>1, <3>3, Unmoved
    <3> QED
      BY <3>2, <3>3
  <2> QED
    BY <2>3, <2>5, SameAsked
<1>5. UNCHANGED vars => FieldAnswered'
  BY <1>1 DEF vars
<1> QED
  BY <1>2, <1>3, <1>4, <1>5

LEMMA NextFieldAnswered == IInv /\ FieldAnswered /\ [Next]_vars => FieldAnswered'
<1> SUFFICES ASSUME IInv, FieldAnswered, [Next]_vars PROVE FieldAnswered'
  OBVIOUS
<1>1. CASE UNCHANGED vars
  BY <1>1, OthersAnswered
<1>2. ASSUME NEW d \in Devices, NewDevice(d) PROVE FieldAnswered'
  BY <1>2, OthersAnswered DEF NewDevice
<1>3. ASSUME NEW n \in DOMAIN devices, Replace(n) \/ SetSession(n) \/ DeviceLeaves(n)
      PROVE  FieldAnswered'
  BY <1>3, OthersAnswered DEF Replace, SetSession, DeviceLeaves
<1>4. ASSUME NEW c \in Clients, Interrupted(c) \/ Close(c) PROVE FieldAnswered'
  BY <1>4, EndFieldAnswered DEF Interrupted, Close
<1>5. ASSUME NEW c \in Clients, Open(c) \/ Thread(c) \/ Page(c) PROVE FieldAnswered'
  BY <1>4, <1>5, OpenFieldAnswered, OthersAnswered, PassthroughAnswered, BeginHistoryAnswered,
     AnswerAnswered, AnswerFailsAnswered, ReceiveDescriptionAnswered, ReceiveHistoryAnswered
     DEF Thread, Page
<1>6. ASSUME NEW c \in Clients, NEW i \in DOMAIN page[c], NEW s \in Systems(page[c][i]),
             NEW kind \in {"request", "modify"}, Ask(c, kind, i, s)
      PROVE  FieldAnswered'
  BY <1>6, AskAnswered
<1> QED
  BY <1>1, <1>2, <1>3, <1>4, <1>5, <1>6 DEF Next

(***************************************************************************)
(* While the shared session field (Socket_uD.session) is a client's, none  *)
(* of its history requests is lost, answered twice or answered out of      *)
(* order, whatever the other clients do.                                   *)
(***************************************************************************)
THEOREM LatestAnswered == Spec => []LatestClientAnswered
<1>1. FieldAnswered => LatestClientAnswered
  BY DEF FieldAnswered, Answered, LatestClientAnswered
<1> QED
  BY <1>1, Invariance, InitFieldAnswered, NextFieldAnswered, PTL DEF Spec
=============================================================================
