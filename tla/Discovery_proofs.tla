-------------------------- MODULE Discovery_proofs --------------------------
(***************************************************************************)
(* Proofs about Discovery, for any devices, connections, threads and       *)
(* faults: a device has one living connection at most.                     *)
(*                                                                         *)
(* The reason is that only one port is ever announced by one process of    *)
(* the Center, since the UDP port is never given back: all sessions are at *)
(* that port, and of one port a device has one connected client at most.   *)
(***************************************************************************)
EXTENDS Discovery, TLAPS

Place == {"none", "starting", "announcing", "loop", "disposing", "ended"}

Record ==
  [device : Device, port : 0 .. MaxThreads,
   client : {"none", "open", "broken"}, session : {"none", "open", "closing"},
   stage : {"requested", "right", "wrong", "unknown", "authenticated", "registered"},
   silent : BOOLEAN, io : {"ready", "join", "start"}, joins : 0 .. MaxThreads]

\* Where a thread is once its port has been announced.
Announced == {"loop", "disposing", "ended"}

-----------------------------------------------------------------------------
(* The invariant. *)

ServerTypes ==
  /\ place \in [Thread -> Place]
  /\ t \in 0 .. MaxThreads /\ continuerunning \in BOOLEAN /\ funnel \in 0 .. MaxThreads
  /\ offers \in [Device -> SUBSET Thread]
  /\ known \in [Device -> {"right", "wrong", "unknown"}]
  /\ faults \in 0 .. MaxFaults

\* Threads are started in order.
InOrder == \A m, n \in Thread : m < n /\ place[n] # "none" => place[m] # "none"

\* Only the funnel's thread has come to the loop in this process, and what is
\* offered to a device has been announced in this process or an earlier one.
OneFunnel ==
  /\ \A n \in Thread : place[n] = "loop" => funnel = n
  /\ funnel # 0 => place[funnel] \in Announced
  /\ \A d \in Device : \A p \in offers[d] : place[p] \in Announced

ServerInv == ServerTypes /\ InOrder /\ OneFunnel

\* All sessions are at the port that is announced, and in restart is an I/O thread
\* only for a session there is.
Sessions ==
  /\ conn \in [Connection -> Record]
  /\ \A c \in Connection : conn[c].session # "none" => conn[c].port = funnel /\ funnel # 0
  /\ \A c \in Connection : conn[c].io # "ready" => conn[c].session # "none"

\* Of one port a device has one connected client.
OneClient ==
  \A c1, c2 \in Connection :
    /\ Connected(c1) /\ Connected(c2)
    /\ conn[c1].device = conn[c2].device /\ conn[c1].port = conn[c2].port
    => c1 = c2

IInv == ServerInv /\ Sessions /\ OneClient

-----------------------------------------------------------------------------
(* Connections. *)

LEMMA NoConnectionFacts ==
  /\ NoConnection \in Record
  /\ NoConnection.client = "none" /\ NoConnection.session = "none"
  /\ NoConnection.io = "ready" /\ NoConnection.port = 0
<1>1. (CHOOSE d \in Device : TRUE) \in Device
  BY DiscoveryAssumption, Zenon
<1> QED
  BY <1>1, DiscoveryAssumption DEF NoConnection, Record

LEMMA InitIInv == Init => IInv
<1> SUFFICES ASSUME Init PROVE IInv
  OBVIOUS
<1> USE DiscoveryAssumption DEF Init
<1>1. ServerTypes
  <2>1. continuerunning \in BOOLEAN
    BY Zenon
  <2>2. /\ place \in [Thread -> Place] /\ offers \in [Device -> SUBSET Thread]
        /\ known \in [Device -> {"right", "wrong", "unknown"}]
    BY DEF Place
  <2>3. t \in 0 .. MaxThreads /\ funnel \in 0 .. MaxThreads /\ faults \in 0 .. MaxFaults
    BY SMT
  <2> QED
    BY <2>1, <2>2, <2>3 DEF ServerTypes
<1>2. InOrder
  BY DEF InOrder, Thread
<1>3. OneFunnel
  BY DEF OneFunnel, Thread
<1>4. Sessions
  BY NoConnectionFacts DEF Sessions
<1>5. OneClient
  BY NoConnectionFacts DEF OneClient, Connected
<1> QED
  BY <1>1, <1>2, <1>3, <1>4, <1>5 DEF IInv, ServerInv

\* What becomes of a connection in every step but that which makes it: a session
\* does not begin, a client does not connect, and neither goes to another port.
Fades(r, s) ==
  /\ s \in Record
  /\ s.session # "none" => r.session # "none" /\ s.port = r.port
  /\ s.client = "open" => r.client = "open" /\ s.port = r.port /\ s.device = r.device
  /\ s.io # "ready" => s.session # "none"

LEMMA TidyFades ==
  ASSUME NEW r, NEW s, Fades(r, s)
  PROVE  Fades(r, Tidy(s))
  BY NoConnectionFacts DEF Fades, Tidy

\* Steps that concern one connection.
LEMMA SetFades ==
  ASSUME IInv, NEW c \in Connection, NEW s, Set(c, s), Fades(conn[c], s)
  PROVE  /\ conn' \in [Connection -> Record]
         /\ \A x \in Connection : Fades(conn[x], conn'[x])
<1>1. conn \in [Connection -> Record]
      /\ \A x \in Connection : conn[x].io # "ready" => conn[x].session # "none"
  BY DEF IInv, Sessions
<1>2. conn' = [conn EXCEPT ![c] = Tidy(s)]
  BY DEF Set
<1>3. Fades(conn[c], Tidy(s))
  BY TidyFades
<1>4. Tidy(s) \in Record
  BY <1>3 DEF Fades
<1>5. \A x \in Connection : Fades(conn[x], conn[x])
  BY <1>1 DEF Fades
<1> HIDE DEF Fades
<1> QED
  BY <1>1, <1>2, <1>3, <1>4, <1>5

\* When all connections fade, what was true of them stays so.
LEMMA FadesKeep ==
  ASSUME IInv, conn' \in [Connection -> Record],
         \A x \in Connection : Fades(conn[x], conn'[x]),
         funnel' = funnel \/ \A x \in Connection : conn'[x].session = "none"
  PROVE  Sessions' /\ OneClient'
<1>1. Sessions'
  BY DEF IInv, Sessions, Fades
<1>2. OneClient'
  <2> SUFFICES ASSUME NEW c1 \in Connection, NEW c2 \in Connection,
                      Connected(c1)', Connected(c2)',
                      conn'[c1].device = conn'[c2].device, conn'[c1].port = conn'[c2].port
               PROVE  c1 = c2
    BY DEF OneClient
  <2> QED
    BY DEF IInv, OneClient, Connected, Fades
<1> QED
  BY <1>1, <1>2

-----------------------------------------------------------------------------
(* Threads. *)

LEMMA FaultCount ==
  ASSUME ServerTypes, Fault PROVE faults' \in 0 .. MaxFaults
  BY DiscoveryAssumption DEF ServerTypes, Fault

LEMMA ThreadFacts == \A n \in Thread : n \in 1 .. MaxThreads /\ n \in 0 .. MaxThreads /\ n # 0
  BY DiscoveryAssumption DEF Thread

\* A thread that was started goes on, and does not become the funnel's.
LEMMA ThreadMoves ==
  ASSUME ServerInv, NEW n \in Thread, NEW q \in Place \ {"none", "loop"},
         place[n] # "none", place[n] \in Announced => q \in Announced,
         place' = [place EXCEPT ![n] = q],
         UNCHANGED <<t, continuerunning, funnel, offers, known, faults>>
  PROVE  ServerInv'
<1> USE DEF ServerInv
<1>1. place' \in [Thread -> Place] /\ place \in [Thread -> Place]
      /\ \A m \in Thread : place'[m] = IF m = n THEN q ELSE place[m]
  BY DEF ServerTypes
<1>2. ServerTypes'
  BY <1>1, Zenon DEF ServerTypes
<1>3. InOrder'
  BY <1>1 DEF InOrder
<1>4. OneFunnel'
  <2>1. \A m \in Thread : place[m] \in Announced => place'[m] \in Announced
    BY <1>1
  <2>2. funnel # 0 => funnel \in Thread
    BY DEF ServerTypes, Thread
  <2>3. \A d \in Device : \A p \in offers[d] : p \in Thread
    BY DEF ServerTypes
  <2>4. \A m \in Thread : place'[m] = "loop" => place[m] = "loop"
    BY <1>1
  <2> QED
    BY <2>1, <2>2, <2>3, <2>4, Zenon DEF OneFunnel
<1> QED
  BY <1>2, <1>3, <1>4

\* Only the announcements on their way change: some are lost, or the funnel's port
\* is announced.
LEMMA OffersChange ==
  ASSUME ServerInv, offers' \in [Device -> SUBSET Thread],
         \A d \in Device : \A p \in offers'[d] : p \in offers[d] \/ (p = funnel /\ funnel # 0),
         UNCHANGED <<place, t, continuerunning, funnel, known, faults>>
  PROVE  ServerInv'
<1>1. ServerTypes'
  BY Zenon DEF ServerInv, ServerTypes
<1>2. InOrder' /\ OneFunnel'
  BY Zenon DEF ServerInv, InOrder, OneFunnel
<1> QED
  BY <1>1, <1>2 DEF ServerInv

\* The next thread is started.
LEMMA ThreadStarts ==
  ASSUME ServerInv, NEW n \in Thread, Unstarted(n),
         place' = [place EXCEPT ![n] = "starting"],
         t' = n, continuerunning' = TRUE, UNCHANGED <<funnel, offers, known, faults>>
  PROVE  ServerInv'
<1> USE DEF ServerInv
<1>1. place' \in [Thread -> Place] /\ place \in [Thread -> Place] /\ place[n] = "none"
      /\ \A m \in Thread : place'[m] = IF m = n THEN "starting" ELSE place[m]
  BY DEF ServerTypes, Unstarted, Place
<1>2. ServerTypes'
  BY <1>1, ThreadFacts, Zenon DEF ServerTypes
<1>3. InOrder'
  <2> SUFFICES ASSUME NEW m1 \in Thread, NEW m2 \in Thread, m1 < m2, place'[m2] # "none"
               PROVE  place'[m1] # "none"
    BY DEF InOrder
  <2>1. CASE m2 = n
    BY <1>1, <2>1 DEF Unstarted, Thread
  <2>2. CASE m2 # n
    BY <1>1, <2>2 DEF InOrder
  <2> QED
    BY <2>1, <2>2
<1>4. OneFunnel'
  <2>1. \A m \in Thread : place[m] \in Announced => place'[m] \in Announced
    BY <1>1 DEF Announced
  <2>2. funnel # 0 => funnel \in Thread
    BY DEF ServerTypes, Thread
  <2>3. \A d \in Device : \A p \in offers[d] : p \in Thread
    BY DEF ServerTypes
  <2>4. \A m \in Thread : place'[m] = "loop" => place[m] = "loop"
    BY <1>1
  <2> QED
    BY <2>1, <2>2, <2>3, <2>4, Zenon DEF OneFunnel
<1> QED
  BY <1>2, <1>3, <1>4

\* Closing sessions fade.
LEMMA ClosingFades ==
  ASSUME IInv, NEW S \in SUBSET Connection,
         conn' = [c \in Connection |-> IF c \in S THEN Closing(conn[c]) ELSE conn[c]]
  PROVE  /\ conn' \in [Connection -> Record]
         /\ \A x \in Connection : Fades(conn[x], conn'[x])
<1>1. \A x \in Connection :
        conn[x] \in Record /\ (conn[x].io # "ready" => conn[x].session # "none")
  BY DEF IInv, Sessions
<1>2. \A x \in Connection : Fades(conn[x], conn[x]) /\ Fades(conn[x], Closing(conn[x]))
  BY <1>1 DEF Fades, Closing, Record
<1>3. \A x \in Connection : conn'[x] \in Record
  BY <1>2 DEF Fades
<1> HIDE DEF Fades, Closing
<1> QED
  BY <1>2, <1>3

LEMMA RunStep == ASSUME IInv, NEW n \in Thread, Run(n) PROVE IInv'
<1> USE DEF IInv
<1>a. ServerInv
  OBVIOUS
<1>1. CASE Initialize(n)
  <2>1. /\ place[n] = "starting" /\ UNCHANGED <<t, continuerunning, funnel, offers, known, faults>>
        /\ place' = [place EXCEPT ![n] = IF continuerunning THEN "announcing" ELSE "ended"]
        /\ conn' = IF continuerunning THEN conn ELSE [c \in Connection |-> Closing(conn[c])]
    BY <1>1, Zenon DEF Initialize
  <2>2. \E q \in {"announcing", "ended"} : place' = [place EXCEPT ![n] = q]
    BY <2>1, Zenon
  <2>3. ServerInv'
    BY <1>a, <2>1, <2>2, ThreadMoves DEF Place, Announced
  <2>4. \E S \in SUBSET Connection :
          conn' = [c \in Connection |-> IF c \in S THEN Closing(conn[c]) ELSE conn[c]]
    <3>1. CASE continuerunning
      <4>1. conn' = [c \in Connection |-> IF c \in {} THEN Closing(conn[c]) ELSE conn[c]]
        BY <2>1, <3>1, Zenon DEF Sessions
      <4>2. {} \in SUBSET Connection
        OBVIOUS
      <4> QED
        BY <4>1, <4>2, Zenon
    <3>2. CASE ~ continuerunning
      <4>1. conn' = [c \in Connection |-> IF c \in Connection THEN Closing(conn[c]) ELSE conn[c]]
        BY <2>1, <3>2, Zenon
      <4>2. Connection \in SUBSET Connection
        OBVIOUS
      <4> QED
        BY <4>1, <4>2, Zenon
    <3> QED
      BY <3>1, <3>2
  <2>5. Sessions' /\ OneClient'
    BY <2>1, <2>4, ClosingFades, FadesKeep
  <2> QED
    BY <2>3, <2>5
<1>2. CASE serverinitialized(n)
  <2>1. /\ place[n] = "announcing" /\ funnel = 0 /\ funnel' = n
        /\ place' = [place EXCEPT ![n] = "loop"]
        /\ offers' = [d \in Device |-> offers[d] \cup {n}]
        /\ UNCHANGED <<t, continuerunning, conn, known, faults>>
    BY <1>2 DEF serverinitialized
  <2>2. /\ place' \in [Thread -> Place] /\ place \in [Thread -> Place]
        /\ offers' \in [Device -> SUBSET Thread]
        /\ \A m \in Thread : place'[m] = IF m = n THEN "loop" ELSE place[m]
    BY <2>1 DEF ServerInv, ServerTypes, Place
  <2>3. ServerTypes'
    BY <2>1, <2>2, ThreadFacts, Zenon DEF ServerInv, ServerTypes
  <2>4. InOrder'
    BY <2>1, <2>2 DEF ServerInv, InOrder
  <2>5. OneFunnel'
    <3>1. \A m \in Thread : place[m] # "loop"
      BY <2>1, ThreadFacts DEF ServerInv, OneFunnel
    <3>2. \A m \in Thread : place'[m] = "loop" => m = n
      BY <2>2, <3>1
    <3>3. \A m \in Thread : place[m] \in Announced => place'[m] \in Announced
      BY <2>2 DEF Announced
    <3>4. place'[n] \in Announced
      BY <2>2 DEF Announced
    <3>5. ASSUME NEW d \in Device, NEW p \in offers'[d] PROVE place'[p] \in Announced
      <4>1. p \in Thread /\ (p = n \/ p \in offers[d])
        BY <2>1, <2>2 DEF ServerInv, ServerTypes
      <4>2. p \in offers[d] => place[p] \in Announced
        BY DEF ServerInv, OneFunnel
      <4> QED
        BY <3>3, <3>4, <4>1, <4>2
    <3> QED
      BY <2>1, <3>2, <3>4, <3>5 DEF OneFunnel
  <2>6. Sessions' /\ OneClient'
    BY <2>1 DEF Sessions, OneClient, Connected
  <2> QED
    BY <2>3, <2>4, <2>5, <2>6 DEF ServerInv
<1>3. CASE Dispose(n)
  <2>1. /\ place[n] = "loop" /\ place' = [place EXCEPT ![n] = "disposing"]
        /\ UNCHANGED <<t, continuerunning, funnel, offers, known, faults>>
        /\ conn' = [c \in Connection |->
                      IF c \in {x \in Connection : conn[x].port = n} THEN Closing(conn[c]) ELSE conn[c]]
    BY <1>3 DEF Dispose
  <2>2. ServerInv'
    BY <1>a, <2>1, ThreadMoves DEF Place, Announced
  <2>3. Sessions' /\ OneClient'
    BY <2>1, ClosingFades, FadesKeep
  <2> QED
    BY <2>2, <2>3
<1>4. CASE CloseSessions(n)
  <2>1. /\ place[n] = "disposing" /\ place' = [place EXCEPT ![n] = "ended"]
        /\ UNCHANGED <<t, continuerunning, funnel, offers, known, faults>>
        /\ conn' = [c \in Connection |->
                      IF c \in Connection THEN Closing(conn[c]) ELSE conn[c]]
    BY <1>4 DEF CloseSessions
  <2>2. ServerInv'
    BY <1>a, <2>1, ThreadMoves DEF Place, Announced
  <2>3. Sessions' /\ OneClient'
    BY <2>1, ClosingFades, FadesKeep
  <2> QED
    BY <2>2, <2>3
<1> QED
  BY <1>1, <1>2, <1>3, <1>4 DEF Run

-----------------------------------------------------------------------------
(* Sessions and clients. *)

\* The server is left alone, but for what a fault counts.
ServerRests ==
  UNCHANGED <<place, t, continuerunning, funnel, offers, known>>
    /\ (faults' = faults \/ Fault)

LEMMA RestKeeps == ASSUME ServerInv, ServerRests PROVE ServerInv'
<1>1. faults' \in 0 .. MaxFaults
  BY FaultCount, Zenon DEF ServerInv, ServerTypes, ServerRests
<1> QED
  BY <1>1, Zenon DEF ServerInv, ServerTypes, InOrder, OneFunnel, ServerRests

\* What one connection turns into in the steps that leave the server alone.
LEMMA ChangeFades ==
  ASSUME NEW r \in Record, r.io # "ready" => r.session # "none"
  PROVE  /\ \A x \in {"requested", "right", "wrong", "unknown", "authenticated", "registered"} :
              Fades(r, [r EXCEPT !.stage = x])
         /\ \A x \in {"none", "broken"} : Fades(r, [r EXCEPT !.client = x])
         /\ r.io = "ready" => Fades(r, [r EXCEPT !.session = "none",
                                                 !.client = IF r.client = "open" /\ ~ r.silent THEN "broken" ELSE @])
         /\ r.session # "none" => Fades(r, [r EXCEPT !.session = "closing"])
         /\ r.session # "none" =>
              \A x \in {"join", "start"}, n \in 0 .. MaxThreads :
                Fades(r, [r EXCEPT !.io = x, !.joins = n]) /\ Fades(r, [r EXCEPT !.io = x])
         /\ Fades(r, [r EXCEPT !.io = "ready", !.joins = 0])
         /\ Fades(r, [r EXCEPT !.silent = TRUE])
         /\ Fades(r, [Closing(r) EXCEPT !.client = "broken"])
         /\ Fades(r, [r EXCEPT !.client = "none", !.silent = TRUE])
<1> USE DiscoveryAssumption DEF Fades, Record
<1>1. /\ \A x \in {"requested", "right", "wrong", "unknown", "authenticated", "registered"} :
           Fades(r, [r EXCEPT !.stage = x])
      /\ \A x \in {"none", "broken"} : Fades(r, [r EXCEPT !.client = x])
  OBVIOUS
<1>2. ASSUME r.io = "ready"
      PROVE  Fades(r, [r EXCEPT !.session = "none",
                                !.client = IF r.client = "open" /\ ~ r.silent THEN "broken" ELSE @])
  <2> DEFINE x == IF r.client = "open" /\ ~ r.silent THEN "broken" ELSE r.client
  <2>1. x \in {"none", "open", "broken"} /\ (x = "open" => r.client = "open")
    BY Zenon
  <2> HIDE DEF x
  <2>2. Fades(r, [r EXCEPT !.session = "none", !.client = x])
    BY <1>2, <2>1
  <2> QED
    BY <2>2, Zenon DEF x
<1>3. r.session # "none" => Fades(r, [r EXCEPT !.session = "closing"])
  OBVIOUS
<1>4. r.session # "none" =>
        \A x \in {"join", "start"}, n \in 0 .. MaxThreads :
          Fades(r, [r EXCEPT !.io = x, !.joins = n]) /\ Fades(r, [r EXCEPT !.io = x])
  OBVIOUS
<1>5. Fades(r, [r EXCEPT !.io = "ready", !.joins = 0])
  <2> DEFINE s == [r EXCEPT !.io = "ready", !.joins = 0]
  <2>1. s \in Record
    <3>1. \A n \in 0 .. MaxThreads : [r EXCEPT !.io = "ready", !.joins = n] \in Record
      OBVIOUS
    <3>2. 0 \in 0 .. MaxThreads
      OBVIOUS
    <3> QED
      BY <3>1, <3>2, Zenon
  <2>2. s.io = "ready" /\ s.session = r.session /\ s.port = r.port
        /\ s.client = r.client /\ s.device = r.device
    BY SMTT(30)
  <2> QED
    BY <2>1, <2>2, Zenon
<1>6. Fades(r, [r EXCEPT !.silent = TRUE]) /\ Fades(r, [r EXCEPT !.client = "none", !.silent = TRUE])
  OBVIOUS
<1>7. Fades(r, [Closing(r) EXCEPT !.client = "broken"])
  BY DEF Closing
<1> HIDE DEF Fades, Record
<1> QED
  BY <1>1, <1>2, <1>3, <1>4, <1>5, <1>6, <1>7, Zenon

LEMMA Typed ==
  ASSUME IInv, NEW c \in Connection
  PROVE  conn[c] \in Record /\ (conn[c].io # "ready" => conn[c].session # "none")
  BY DEF IInv, Sessions

\* A step of one connection, while the server rests.
LEMMA OneFades ==
  ASSUME IInv, ServerInv', funnel' = funnel,
         NEW c \in Connection, NEW s, Set(c, s), Fades(conn[c], s)
  PROVE  IInv'
<1>1. Sessions' /\ OneClient'
  BY SetFades, FadesKeep
<1> QED
  BY <1>1 DEF IInv

LEMMA ExceptionCaughtStep == ASSUME IInv, NEW c \in Connection, ExceptionCaught(c) PROVE IInv'
<1>1. /\ Fault /\ conn[c].session = "open"
      /\ UNCHANGED <<place, t, funnel, offers, known>>
      /\ \/ continuerunning' = FALSE /\ Set(c, [conn[c] EXCEPT !.io = "join", !.joins = t])
         \/ continuerunning' = continuerunning /\ Set(c, [conn[c] EXCEPT !.io = "start"])
  BY Zenon DEF ExceptionCaught
<1>2. continuerunning' \in BOOLEAN
  BY <1>1, Zenon DEF IInv, ServerInv, ServerTypes
<1>3. faults' \in 0 .. MaxFaults /\ t \in 0 .. MaxThreads
  BY <1>1, FaultCount DEF IInv, ServerInv, ServerTypes
<1>4. ServerInv'
  BY <1>1, <1>2, <1>3, Zenon DEF IInv, ServerInv, ServerTypes, InOrder, OneFunnel
<1>5. Fades(conn[c], [conn[c] EXCEPT !.io = "join", !.joins = t])
      /\ Fades(conn[c], [conn[c] EXCEPT !.io = "start"])
  BY <1>1, <1>3, Typed, ChangeFades
<1> QED
  BY <1>1, <1>4, <1>5, OneFades, Zenon

LEMMA JoinedStep == ASSUME IInv, NEW c \in Connection, Joined(c) PROVE IInv'
<1>1. /\ conn[c].io = "join" /\ t' = 0 /\ Set(c, [conn[c] EXCEPT !.io = "start"])
      /\ UNCHANGED <<place, continuerunning, funnel, offers, known, faults>>
  BY DEF Joined
<1>2. ServerInv'
  <2>1. t' \in 0 .. MaxThreads
    BY <1>1, DiscoveryAssumption
  <2> QED
    BY <1>1, <2>1, Zenon DEF IInv, ServerInv, ServerTypes, InOrder, OneFunnel
<1>3. Fades(conn[c], [conn[c] EXCEPT !.io = "start"])
  <2>1. conn[c].session # "none" /\ 0 \in 0 .. MaxThreads
    BY <1>1, Typed, DiscoveryAssumption
  <2> QED
    BY <2>1, Typed, ChangeFades
<1> QED
  BY <1>1, <1>2, <1>3, OneFades

LEMMA StartStep == ASSUME IInv, NEW c \in Connection, Start(c) PROVE IInv'
<1>1. /\ Set(c, [conn[c] EXCEPT !.io = "ready", !.joins = 0])
      /\ UNCHANGED <<funnel, offers, known, faults>>
      /\ \/ \E n \in Thread :
              /\ Unstarted(n) /\ place' = [place EXCEPT ![n] = "starting"]
              /\ t' = n /\ continuerunning' = TRUE
         \/ UNCHANGED <<place, t, continuerunning>>
  BY Zenon DEF Start
<1>2. ServerInv'
  <2>1. CASE UNCHANGED <<place, t, continuerunning>>
    BY <1>1, <2>1, RestKeeps, Zenon DEF IInv, ServerRests
  <2>2. ASSUME NEW n \in Thread, Unstarted(n), place' = [place EXCEPT ![n] = "starting"],
               t' = n, continuerunning' = TRUE
        PROVE  ServerInv'
    BY <1>1, <2>2, ThreadStarts DEF IInv
  <2> QED
    BY <1>1, <2>1, <2>2
<1>3. Fades(conn[c], [conn[c] EXCEPT !.io = "ready", !.joins = 0])
  BY Typed, ChangeFades
<1> QED
  BY <1>1, <1>2, <1>3, OneFades

\* The steps of a connection that leave the server alone.
Exchange(c) ==
  \/ AuthRequest(c) \/ Description(c) \/ Handshake(c) \/ SessionIdle(c) \/ SessionClosed(c)
  \/ auth_provision(c) \/ Erase(c) \/ Notice(c) \/ Break(c) \/ Vanish(c)

LEMMA ExchangeStep == ASSUME IInv, NEW c \in Connection, Exchange(c) PROVE IInv'
<1> DEFINE r == conn[c]
<1>1. r \in Record /\ (r.io # "ready" => r.session # "none")
  BY Typed
<1>2. known[r.device] \in {"right", "wrong", "unknown"}
  BY <1>1 DEF IInv, ServerInv, ServerTypes, Record
<1>3. ServerRests
  BY Zenon DEF Exchange, ServerRests, server, AuthRequest, Description, Handshake, SessionIdle, SessionClosed,
               auth_provision, Erase, Notice, Break, Vanish
<1>4. \E s : Set(c, s) /\ Fades(r, s)
  <2>1. CASE AuthRequest(c) \/ Description(c) \/ Handshake(c)
    <3>1. \E x \in {"requested", "right", "wrong", "unknown", "authenticated", "registered"} :
            Set(c, [r EXCEPT !.stage = x])
      BY <1>2, <2>1 DEF AuthRequest, Description, Handshake
    <3> QED
      BY <1>1, <3>1, ChangeFades, Zenon
  <2>2. CASE SessionIdle(c)
    BY <1>1, <2>2, ChangeFades DEF SessionIdle
  <2>3. CASE SessionClosed(c)
    <3>1. r.io = "ready" /\ Set(c, [r EXCEPT !.session = "none",
                                             !.client = IF r.client = "open" /\ ~ r.silent THEN "broken" ELSE @])
      BY <2>3, Zenon DEF SessionClosed
    <3> QED
      BY <1>1, <3>1, ChangeFades, Zenon
  <2>4. CASE auth_provision(c) \/ Erase(c) \/ Notice(c)
    <3>1. \/ Set(c, [r EXCEPT !.stage = "authenticated"])
          \/ Set(c, [r EXCEPT !.client = "broken"])
          \/ Set(c, [r EXCEPT !.client = "none"])
      BY <2>4, Zenon DEF auth_provision, Erase, Notice
    <3> QED
      BY <1>1, <3>1, ChangeFades
  <2>5. CASE Break(c) \/ Vanish(c)
    <3>1. Set(c, [Closing(r) EXCEPT !.client = "broken"]) \/ Set(c, [r EXCEPT !.silent = TRUE])
      BY <2>5, Zenon DEF Break, Vanish
    <3> QED
      BY <1>1, <3>1, ChangeFades, Zenon
  <2> QED
    BY <2>1, <2>2, <2>3, <2>4, <2>5 DEF Exchange
<1>5. ServerInv' /\ funnel' = funnel
  BY <1>3, RestKeeps DEF IInv, ServerRests
<1> QED
  BY <1>4, <1>5, OneFades

-----------------------------------------------------------------------------
(* The Center and the devices start again; a device connects.                *)

LEMMA CenterRestartsStep == ASSUME IInv, NEW n \in Thread, CenterRestarts(n) PROVE IInv'
<1> USE DEF IInv
<1>1. /\ Fault /\ Unstarted(n)
      /\ place' = [m \in Thread |-> IF m = n THEN "starting" ELSE IF m < n THEN "ended" ELSE "none"]
      /\ t' = n /\ continuerunning' = TRUE /\ funnel' = 0
      /\ UNCHANGED <<offers, known>>
  BY DEF CenterRestarts
<1>2. ServerTypes'
  <2>1. place' \in [Thread -> Place]
    BY <1>1 DEF Place
  <2>2. faults' \in 0 .. MaxFaults
    BY <1>1, FaultCount DEF ServerInv
  <2>3. t' \in 0 .. MaxThreads /\ funnel' \in 0 .. MaxThreads
    BY <1>1, ThreadFacts, DiscoveryAssumption
  <2>4. continuerunning' \in BOOLEAN
    BY <1>1, Zenon
  <2> QED
    BY <1>1, <2>1, <2>2, <2>3, <2>4, Zenon DEF ServerInv, ServerTypes
<1>3. InOrder'
  BY <1>1, ThreadFacts DEF InOrder
<1>4. OneFunnel'
  <2>1. \A m \in Thread : place'[m] # "loop"
    BY <1>1
  <2>2. ASSUME NEW d \in Device, NEW p \in offers'[d] PROVE place'[p] \in Announced
    <3>1. p \in Thread /\ place[p] \in Announced
      BY <1>1 DEF ServerInv, ServerTypes, OneFunnel
    <3>2. place[n] = "none" /\ p # n
      BY <1>1, <3>1 DEF Unstarted, Announced
    <3>3. ~ n < p
      BY <3>1, <3>2 DEF ServerInv, InOrder, Announced
    <3>4. p < n
      BY <3>1, <3>2, <3>3, ThreadFacts
    <3> QED
      BY <1>1, <3>1, <3>2, <3>4 DEF Announced
  <2> QED
    BY <1>1, <2>1, <2>2 DEF OneFunnel
<1>5. /\ conn' \in [Connection -> Record]
      /\ \A c \in Connection : Fades(conn[c], conn'[c]) /\ conn'[c].session = "none"
  <2>1. PICK silent \in BOOLEAN :
          conn' = [c \in Connection |->
                  Tidy([conn[c] EXCEPT
                    !.session = "none", !.io = "ready", !.joins = 0,
                    !.silent = @ \/ silent,
                    !.client = IF @ = "open" /\ ~ silent /\ ~ conn[c].silent THEN "broken" ELSE @])]
    BY Zenon DEF CenterRestarts
  <2>2. ASSUME NEW c \in Connection PROVE Fades(conn[c], conn'[c]) /\ conn'[c].session = "none"
    <3> DEFINE r == conn[c]
               b == r.silent \/ silent
               x == IF r.client = "open" /\ ~ silent /\ ~ r.silent THEN "broken" ELSE r.client
               s == [r EXCEPT !.session = "none", !.io = "ready", !.joins = 0, !.silent = b, !.client = x]
    <3>1. r \in Record
      BY Typed
    <3>2. b \in BOOLEAN /\ x \in {r.client, "broken"}
      BY Zenon
    <3>3. conn'[c] = Tidy(s)
      BY <2>1, Zenon
    <3> HIDE DEF b, x, r
    <3>4. r.client \in {"none", "open", "broken"} /\ 0 \in 0 .. MaxThreads
      BY <3>1, DiscoveryAssumption DEF Record
    <3>5. x \in {"none", "open", "broken"}
      BY <3>2, <3>4, Zenon
    <3>6. s \in Record /\ s.session = "none" /\ s.io = "ready" /\ s.client = x
          /\ s.port = r.port /\ s.device = r.device
      <4>1. \A n1 \in 0 .. MaxThreads :
              [r EXCEPT !.session = "none", !.io = "ready", !.joins = n1, !.silent = b, !.client = x] \in Record
        BY <3>1, <3>2, <3>5 DEF Record
      <4>2. s \in Record
        BY <3>4, <4>1, Zenon
      <4>3. s.session = "none" /\ s.io = "ready" /\ s.client = x /\ s.port = r.port /\ s.device = r.device
        BY <3>1 DEF Record
      <4> QED
        BY <4>2, <4>3
    <3> HIDE DEF s
    <3>7. x = "open" => r.client = "open"
      BY <3>2, Zenon
    <3>8. Fades(r, s)
      BY <3>6, <3>7 DEF Fades
    <3>9. Tidy(s).session = "none"
      BY <3>6, NoConnectionFacts DEF Tidy
    <3> QED
      BY <3>3, <3>8, <3>9, TidyFades DEF r
  <2>3. \A c \in Connection : conn'[c] \in Record
    BY <2>2 DEF Fades
  <2> QED
    BY <2>1, <2>2, <2>3
<1>6. Sessions' /\ OneClient'
  BY <1>5, FadesKeep
<1> QED
  BY <1>2, <1>3, <1>4, <1>6 DEF ServerInv

LEMMA DeviceRestartsStep == ASSUME IInv, NEW d \in Device, DeviceRestarts(d) PROVE IInv'
<1>1. /\ ServerRests
      /\ conn' = [c \in Connection |->
                    IF c \in tcp_clients(d) THEN Tidy([conn[c] EXCEPT !.client = "none", !.silent = TRUE])
                                            ELSE conn[c]]
  BY Zenon DEF DeviceRestarts, ServerRests, server
<1>2. \A c \in Connection : Fades(conn[c], conn'[c])
  <2> SUFFICES ASSUME NEW c \in Connection PROVE Fades(conn[c], conn'[c])
    OBVIOUS
  <2>1. Fades(conn[c], Tidy([conn[c] EXCEPT !.client = "none", !.silent = TRUE]))
    BY Typed, ChangeFades, TidyFades
  <2>2. Fades(conn[c], conn[c])
    BY Typed DEF Fades
  <2> QED
    BY <1>1, <2>1, <2>2, Zenon
<1>3. \A c \in Connection : conn'[c] \in Record
  BY <1>2 DEF Fades
<1>4. conn' \in [Connection -> Record]
  BY <1>1, <1>3, Zenon
<1>5. Sessions' /\ OneClient' /\ ServerInv'
  BY <1>1, <1>2, <1>4, FadesKeep, RestKeeps DEF IInv, ServerRests
<1> QED
  BY <1>5 DEF IInv

\* A new connection: its session, if there is one, is at the funnel's port, because
\* no other thread that has been announced accepts connections.
LEMMA ConnectKeeps ==
  ASSUME IInv, NEW d \in Device, NEW p \in offers[d], Connect(d, p), funnel' = funnel,
         \A c \in tcp_clients(d) : ~ (Connected(c) /\ conn[c].port = p)
  PROVE  Sessions' /\ OneClient'
<1> DEFINE accepted == place[p] \in {"announcing", "loop"}
           s == [NoConnection EXCEPT !.device = d, !.port = p,
                   !.client = IF accepted THEN "open" ELSE "broken",
                   !.session = IF accepted THEN "open" ELSE "none"]
<1>1. PICK c \in Connection : conn[c] = NoConnection /\ Set(c, s)
  BY Zenon DEF Connect
<1>2. p \in Thread /\ place[p] \in Announced
  BY DEF IInv, ServerInv, ServerTypes, OneFunnel
<1>3. accepted => funnel = p
  BY <1>2 DEF IInv, ServerInv, OneFunnel, Announced
<1>4. /\ s \in Record /\ s.device = d /\ s.port = p /\ s.io = "ready"
      /\ s.session \in {"none", "open"} /\ (s.session = "open" => accepted)
      /\ s.client # "none"
  BY <1>2, ThreadFacts, NoConnectionFacts DEF Record
<1> HIDE DEF s, accepted
<1>5. Tidy(s) = s
  BY <1>4, Zenon DEF Tidy
<1>6. conn \in [Connection -> Record] /\ conn' = [conn EXCEPT ![c] = s]
  BY <1>1, <1>5, Zenon DEF IInv, Sessions, Set
<1>7. conn' \in [Connection -> Record] /\ conn'[c] = s /\ \A x \in Connection : x # c => conn'[x] = conn[x]
  BY <1>4, <1>6
<1>8. Sessions'
  <2>1. s.session # "none" => s.port = funnel /\ funnel # 0
    BY <1>2, <1>3, <1>4, ThreadFacts
  <2> QED
    BY <1>4, <1>7, <2>1 DEF IInv, Sessions
<1>9. OneClient'
  <2>1. ASSUME NEW x \in Connection, x # c, conn[x].client = "open", conn[x].device = d, conn[x].port = p
        PROVE  FALSE
    BY <2>1 DEF tcp_clients, Connected
  <2>2. SUFFICES ASSUME NEW c1 \in Connection, NEW c2 \in Connection, c1 # c2,
                        conn'[c1].client = "open", conn'[c2].client = "open",
                        conn'[c1].device = conn'[c2].device, conn'[c1].port = conn'[c2].port
                 PROVE  FALSE
    BY DEF OneClient, Connected
  <2>3. CASE c1 = c
    BY <1>4, <1>7, <2>1, <2>2, <2>3
  <2>4. CASE c2 = c
    BY <1>4, <1>7, <2>1, <2>2, <2>4
  <2>5. CASE c1 # c /\ c2 # c
    BY <1>7, <2>2, <2>5 DEF IInv, OneClient, Connected
  <2> QED
    BY <2>3, <2>4, <2>5
<1> QED
  BY <1>8, <1>9

LEMMA AddCenterStep == ASSUME IInv, NEW d \in Device, NEW p \in Thread, add_center(d, p) PROVE IInv'
<1>1. /\ p \in offers[d] /\ offers' = [offers EXCEPT ![d] = @ \ {p}]
      /\ UNCHANGED <<place, t, continuerunning, funnel, known, faults>>
      /\ \/ conn' = conn
         \/ Connect(d, p) /\ \A c \in tcp_clients(d) : ~ (Connected(c) /\ conn[c].port = p)
  BY Zenon DEF add_center, server
<1>2. offers' \in [Device -> SUBSET Thread] /\ \A x \in Device : \A q \in offers'[x] : q \in offers[x]
  BY <1>1 DEF IInv, ServerInv, ServerTypes
<1>3. ServerInv'
  BY <1>1, <1>2, OffersChange, Zenon DEF IInv
<1>4. Sessions' /\ OneClient'
  <2>1. CASE conn' = conn
    BY <1>1, <2>1 DEF IInv, Sessions, OneClient, Connected
  <2>2. CASE Connect(d, p) /\ \A c \in tcp_clients(d) : ~ (Connected(c) /\ conn[c].port = p)
    BY <1>1, <2>2, ConnectKeeps
  <2> QED
    BY <1>1, <2>1, <2>2
<1> QED
  BY <1>3, <1>4 DEF IInv

\* Announcements and what becomes of them; the credentials change.
LEMMA OfferStep ==
  ASSUME IInv, FunnelAnnounces \/ \E d \in Device : announceUDP(d) \/ Lose(d)
  PROVE  IInv'
<1>1. /\ UNCHANGED <<place, t, continuerunning, funnel, conn, known, faults>>
      /\ \/ funnel # 0 /\ offers' = [d \in Device |-> offers[d] \cup {funnel}]
         \/ \E d \in Device : funnel # 0 /\ offers' = [offers EXCEPT ![d] = @ \cup {funnel}]
         \/ \E d \in Device : offers' = [offers EXCEPT ![d] = {}]
  BY Zenon DEF FunnelAnnounces, announceUDP, Lose, server
<1>2. offers \in [Device -> SUBSET Thread] /\ (funnel # 0 => funnel \in Thread)
  BY DEF IInv, ServerInv, ServerTypes, Thread
<1>3. /\ offers' \in [Device -> SUBSET Thread]
      /\ \A d \in Device : \A p \in offers'[d] : p \in offers[d] \/ (p = funnel /\ funnel # 0)
  BY <1>1, <1>2
<1>4. ServerInv'
  BY <1>1, <1>3, OffersChange, Zenon DEF IInv
<1> QED
  BY <1>1, <1>4, Zenon DEF IInv, Sessions, OneClient, Connected

LEMMA CredentialsStep ==
  ASSUME IInv, NEW d \in Device, NEW k \in {"right", "wrong", "unknown"}, ChangeCredentials(d, k)
  PROVE  IInv'
<1>1. /\ UNCHANGED <<place, t, continuerunning, funnel, conn, offers>> /\ Fault
      /\ known' = [known EXCEPT ![d] = k]
  BY Zenon DEF ChangeCredentials, server
<1>2. faults' \in 0 .. MaxFaults /\ known' \in [Device -> {"right", "wrong", "unknown"}]
  BY <1>1, FaultCount DEF IInv, ServerInv, ServerTypes
<1> QED
  BY <1>1, <1>2, Zenon DEF IInv, ServerInv, ServerTypes, InOrder, OneFunnel, Sessions, OneClient, Connected

LEMMA NextIInv == IInv /\ [Next]_vars => IInv'
<1> SUFFICES ASSUME IInv, [Next]_vars PROVE IInv'
  OBVIOUS
<1>1. CASE UNCHANGED vars
  BY <1>1, Zenon DEF vars, IInv, ServerInv, ServerTypes, InOrder, OneFunnel, Sessions, OneClient, Connected
<1>2. ASSUME NEW n \in Thread, Run(n) \/ CenterRestarts(n) PROVE IInv'
  BY <1>2, RunStep, CenterRestartsStep
<1>3. ASSUME NEW c \in Connection,
             IO(c) \/ SessionIdle(c) \/ ExceptionCaught(c) \/ auth_provision(c) \/ Erase(c) \/ Notice(c) \/ Break(c) \/ Vanish(c)
      PROVE  IInv'
  <2>1. Exchange(c) \/ Joined(c) \/ Start(c) \/ ExceptionCaught(c)
    BY <1>3, Zenon DEF IO, Exchange
  <2> QED
    BY <2>1, ExchangeStep, JoinedStep, StartStep, ExceptionCaughtStep
<1>4. CASE FunnelAnnounces \/ \E d \in Device : announceUDP(d) \/ Lose(d)
  BY <1>4, OfferStep
<1>5. ASSUME NEW d \in Device,
             \/ DeviceRestarts(d) \/ \E p \in Thread : add_center(d, p)
             \/ \E k \in {"right", "wrong", "unknown"} : ChangeCredentials(d, k)
      PROVE  IInv'
  BY <1>5, DeviceRestartsStep, AddCenterStep, CredentialsStep
<1> QED
  BY <1>1, <1>2, <1>3, <1>4, <1>5, Zenon DEF Next

LEMMA Invariance == Spec => []IInv
  BY InitIInv, NextIInv, PTL DEF Spec

-----------------------------------------------------------------------------
\* The types of the Center's and the devices' state; an I/O thread is in restart
\* only for a session there is (TCP_Server, restart; TCP.cpp).
THEOREM TypeCorrect == Spec => []TypeOK
<1>1. IInv => TypeOK
  BY Zenon DEF IInv, ServerInv, ServerTypes, Sessions, TypeOK, Place, Record
<1> QED
  BY <1>1, Invariance, PTL

\* For any numbers of devices, connections, threads and faults: through all
\* restarts and announcements a device has one living connection at most
\* (add_center, UDP_Funnel, TCP_Server).
THEOREM NeverTwoConnections == Spec => []OneConnection
<1>1. IInv => OneConnection
  BY DEF IInv, Sessions, OneClient, OneConnection, Live
<1> QED
  BY <1>1, Invariance, PTL
=============================================================================
