----------------------------- MODULE Discovery -----------------------------
(***************************************************************************)
(* How devices find the Center: the Center's TCP server with the threads   *)
(* that its restart makes, UDP_Funnel, which announces the server's port,  *)
(* and on the device the list of connections, their authentication, and    *)
(* what it does about those that break.                                    *)
(*                                                                         *)
(* Each thread of the server binds one port, so threads and ports have the *)
(* same numbers. A connection is followed at both of its ends: the client  *)
(* in the device's list and the session of the Center.                     *)
(*                                                                         *)
(* Simplifications:                                                        *)
(* - Each session has an I/O thread of its own.                            *)
(* - What is sent over a connection arrives, unless it is silent.          *)
(* - The reset timer of TCP_Server never runs out, because an acceptor     *)
(*   that is bound is active.                                              *)
(* - The device's announcement and its answer are one step, which may be   *)
(*   lost; those on reconnecting to the WiFi are like any of the funnel.   *)
(***************************************************************************)
EXTENDS Naturals, FiniteSets

CONSTANTS
  Device,
  Connection,  \* bound: connections there can be at a time
  MaxThreads,  \* bound: threads of servers
  MaxFaults    \* bound: what goes wrong

ASSUME DiscoveryAssumption ==
  Device # {} /\ MaxThreads \in Nat \ {0} /\ MaxFaults \in Nat

VARIABLES
  place,            \* where each thread of a server is in run
  t,                \* the thread the server knows, 0 for null
  continuerunning,
  funnel,           \* the port that is announced; 0: nobody has the UDP port
  conn,             \* the connections
  offers,           \* announcements on their way to a device
  known,            \* what the Center's file has for the device's login
  faults            \* how much has gone wrong

vars == <<place, t, continuerunning, funnel, conn, offers, known, faults>>
server == <<place, t, continuerunning, funnel>>

Thread == 1 .. MaxThreads

\* The fields: the device; the port; client, whether the device has it in
\* tcp_clients, and connected; session, whether the Center has it; stage, how far
\* the authentication is; silent, nothing passes any more and neither end has been
\* told; io, where the session's I/O thread is in restart, and the thread joined.
NoConnection ==
  [device |-> CHOOSE d \in Device : TRUE, port |-> 0, client |-> "none", session |-> "none",
   stage |-> "requested", silent |-> FALSE, io |-> "ready", joins |-> 0]

\* A connection that neither end has is none.
Tidy(r) == IF r.client = "none" /\ r.session = "none" THEN NoConnection ELSE r

Set(c, r) == conn' = [conn EXCEPT ![c] = Tidy(r)]

Closing(r) == IF r.session = "open" THEN [r EXCEPT !.session = "closing"] ELSE r

tcp_clients(d) == {c \in Connection : conn[c].client # "none" /\ conn[c].device = d}

Connected(c) == conn[c].client = "open"

\* The next thread, of this process or the next.
Unstarted(n) == place[n] = "none" /\ \A m \in 1 .. n - 1 : place[m] # "none"

Fault == faults < MaxFaults /\ faults' = faults + 1

Init ==
  /\ place = [n \in Thread |-> IF n = 1 THEN "starting" ELSE "none"]
  /\ t = 1 /\ continuerunning = TRUE
  /\ funnel = 0
  /\ conn = [c \in Connection |-> NoConnection]
  /\ offers = [d \in Device |-> {}]
  /\ known \in [Device -> {"right", "wrong", "unknown"}]
  /\ faults = 0

-----------------------------------------------------------------------------
(* The threads of the server: run. *)

\* A thread that has been told to end before it began closes all sessions.
Initialize(n) ==
  /\ place[n] = "starting"
  /\ place' = [place EXCEPT ![n] = IF continuerunning THEN "announcing" ELSE "ended"]
  /\ conn' = IF continuerunning THEN conn ELSE [c \in Connection |-> Closing(conn[c])]
  /\ UNCHANGED <<t, continuerunning, funnel, offers, known, faults>>

\* serverinitialized: the constructor of UDP_Funnel tries until it has the UDP
\* port, which nobody ever gives back while the program runs; then it announces.
serverinitialized(n) ==
  /\ place[n] = "announcing" /\ funnel = 0
  /\ funnel' = n
  /\ place' = [place EXCEPT ![n] = "loop"]
  /\ offers' = [d \in Device |-> offers[d] \cup {n}]
  /\ UNCHANGED <<t, continuerunning, conn, known, faults>>

\* Out of the loop. The acceptor is disposed of, which closes its sessions...
Dispose(n) ==
  /\ place[n] = "loop" /\ ~ continuerunning
  /\ place' = [place EXCEPT ![n] = "disposing"]
  /\ conn' = [c \in Connection |-> IF conn[c].port = n THEN Closing(conn[c]) ELSE conn[c]]
  /\ UNCHANGED <<t, continuerunning, funnel, offers, known, faults>>

\* ... and waits for them; then all that are left are closed.
CloseSessions(n) ==
  /\ place[n] = "disposing"
  /\ \A c \in Connection : conn[c].port = n => conn[c].session = "none"
  /\ place' = [place EXCEPT ![n] = "ended"]
  /\ conn' = [c \in Connection |-> Closing(conn[c])]
  /\ UNCHANGED <<t, continuerunning, funnel, offers, known, faults>>

Run(n) == Initialize(n) \/ serverinitialized(n) \/ Dispose(n) \/ CloseSessions(n)

-----------------------------------------------------------------------------
(* exceptionCaught and restart, on the I/O thread of a session. *)

ExceptionCaught(c) ==
  /\ Fault
  /\ conn[c].session = "open" /\ conn[c].io = "ready"
  /\ IF t # 0
       THEN /\ continuerunning' = FALSE
            /\ Set(c, [conn[c] EXCEPT !.io = "join", !.joins = t])
       ELSE /\ Set(c, [conn[c] EXCEPT !.io = "start"])
            /\ UNCHANGED continuerunning
  /\ UNCHANGED <<place, t, funnel, offers, known>>

\* What makes a thread take longer to end than the ten seconds of the join: the
\* UDP port, or a session that is closed by an I/O thread that is in the join.
Blocked(n) ==
  \/ place[n] = "announcing" /\ funnel # 0
  \/ place[n] = "disposing" /\ \E c \in Connection :
       conn[c].port = n /\ conn[c].session # "none" /\ conn[c].io = "join"

\* Mutant of Joined: the thread is waited for, however long it takes.
Joined_NoTimeout(c) ==
  /\ conn[c].io = "join"
  /\ place[conn[c].joins] = "ended"
  /\ t' = 0
  /\ Set(c, [conn[c] EXCEPT !.io = "start"])
  /\ UNCHANGED <<place, continuerunning, funnel, offers, known, faults>>

\* The join ends, by the end of the thread or by its timeout.
Joined(c) ==
  /\ conn[c].io = "join"
  /\ place[conn[c].joins] = "ended" \/ Blocked(conn[c].joins)
  /\ t' = 0
  /\ Set(c, [conn[c] EXCEPT !.io = "start"])
  /\ UNCHANGED <<place, continuerunning, funnel, offers, known, faults>>

\* start: there is a new thread, unless another I/O thread has just made one.
Start(c) ==
  /\ conn[c].io = "start"
  /\ IF t = 0 \/ place[t] = "ended"
       THEN \E n \in Thread :
              /\ Unstarted(n)
              /\ place' = [place EXCEPT ![n] = "starting"]
              /\ t' = n /\ continuerunning' = TRUE
       ELSE UNCHANGED <<place, t, continuerunning>>
  /\ Set(c, [conn[c] EXCEPT !.io = "ready", !.joins = 0])
  /\ UNCHANGED <<funnel, offers, known, faults>>

\* The whole program ends and is started again. The connections break, or are
\* silent if the computer went with it.
CenterRestarts(n) ==
  /\ Fault
  /\ Unstarted(n)
  /\ place' = [m \in Thread |-> IF m = n THEN "starting" ELSE IF m < n THEN "ended" ELSE "none"]
  /\ t' = n /\ continuerunning' = TRUE
  /\ funnel' = 0
  /\ \E silent \in BOOLEAN :
       conn' = [c \in Connection |->
                  Tidy([conn[c] EXCEPT
                    !.session = "none", !.io = "ready", !.joins = 0,
                    !.silent = @ \/ silent,
                    !.client = IF @ = "open" /\ ~ silent /\ ~ conn[c].silent THEN "broken" ELSE @])]
  /\ UNCHANGED <<offers, known>>

-----------------------------------------------------------------------------
(* Sessions of the Center. *)

Handles(c) == conn[c].session = "open" /\ conn[c].io = "ready" /\ ~ conn[c].silent

\* messageReceived, auth_request: the answer is what the file has.
AuthRequest(c) ==
  /\ Handles(c) /\ conn[c].client # "none" /\ conn[c].stage = "requested"
  /\ Set(c, [conn[c] EXCEPT !.stage = known[conn[c].device]])
  /\ UNCHANGED <<server, offers, known, faults>>

\* messageReceived, group_description.
Description(c) ==
  /\ Handles(c) /\ conn[c].stage = "authenticated"
  /\ Set(c, [conn[c] EXCEPT !.stage = "registered"])
  /\ UNCHANGED <<server, offers, known, faults>>

\* sessionIdle sends a handshake. The answer for an unknown login has no bytes, so
\* the device finds it when a byte of the handshake comes (see CommandStream).
Handshake(c) ==
  /\ Handles(c) /\ conn[c].stage = "unknown"
  /\ Set(c, [conn[c] EXCEPT !.stage = "wrong"])
  /\ UNCHANGED <<server, offers, known, faults>>

\* sessionIdle, when nothing has come from the device for 80 seconds: the session is
\* closed. The device does not answer handshakes, so that it need not be silent.
SessionIdle(c) ==
  /\ conn[c].session = "open" /\ conn[c].io = "ready"
  /\ Set(c, [conn[c] EXCEPT !.session = "closing"])
  /\ UNCHANGED <<server, offers, known, faults>>

\* Mutant of SessionClosed: the session goes while its I/O thread is in restart.
SessionClosed_AnyThread(c) ==
  /\ \/ conn[c].session = "closing"
     \/ conn[c].session = "open" /\ ~ conn[c].silent /\ ~ Connected(c)
  /\ Set(c, [conn[c] EXCEPT
       !.session = "none",
       !.client = IF @ = "open" /\ ~ conn[c].silent THEN "broken" ELSE @])
  /\ UNCHANGED <<server, offers, known, faults>>

\* sessionClosed, after the Center or the device has closed it; the other end is
\* told, unless the connection is silent.
SessionClosed(c) ==
  /\ conn[c].io = "ready"
  /\ \/ conn[c].session = "closing"
     \/ conn[c].session = "open" /\ ~ conn[c].silent /\ ~ Connected(c)
  /\ Set(c, [conn[c] EXCEPT
       !.session = "none",
       !.client = IF @ = "open" /\ ~ conn[c].silent THEN "broken" ELSE @])
  /\ UNCHANGED <<server, offers, known, faults>>

IO(c) ==
  \/ Joined(c) \/ Start(c)
  \/ AuthRequest(c) \/ Description(c) \/ Handshake(c) \/ SessionClosed(c)

-----------------------------------------------------------------------------
(* UDP_Funnel, and the device's announcements. *)

FunnelAnnounces ==
  /\ funnel # 0
  /\ offers' = [d \in Device |-> offers[d] \cup {funnel}]
  /\ UNCHANGED <<server, conn, known, faults>>

\* LoopUDP: a device without any client announces itself every two minutes, and
\* the funnel answers.
announceUDP(d) ==
  /\ tcp_clients(d) = {} /\ funnel # 0
  /\ offers' = [offers EXCEPT ![d] = @ \cup {funnel}]
  /\ UNCHANGED <<server, conn, known, faults>>

\* Datagrams are lost.
Lose(d) ==
  /\ offers' = [offers EXCEPT ![d] = {}]
  /\ UNCHANGED <<server, conn, known, faults>>

-----------------------------------------------------------------------------
(* The device: add_center, LoopTCPClient. *)

\* A client of what answers at the port, or one that is not connected.
Connect(d, p) ==
  \E c \in Connection :
    /\ conn[c] = NoConnection
    /\ LET accepted == place[p] \in {"announcing", "loop"}
       IN  Set(c, [NoConnection EXCEPT
             !.device = d, !.port = p,
             !.client = IF accepted THEN "open" ELSE "broken",
             !.session = IF accepted THEN "open" ELSE "none"])

\* Mutant of add_center: it connects to whatever is offered.
add_center_Again(d, p) ==
  /\ p \in offers[d]
  /\ offers' = [offers EXCEPT ![d] = @ \ {p}]
  /\ Connect(d, p)
  /\ UNCHANGED <<server, known, faults>>

\* If there is a client of this address and port, nothing is done; one that is not
\* connected has no address.
add_center(d, p) ==
  /\ p \in offers[d]
  /\ offers' = [offers EXCEPT ![d] = @ \ {p}]
  /\ IF \E c \in tcp_clients(d) : Connected(c) /\ conn[c].port = p
       THEN UNCHANGED conn
       ELSE Connect(d, p)
  /\ UNCHANGED <<server, known, faults>>

\* Mutant of auth_provision: a connection that was turned away is kept.
auth_provision_Keeps(c) ==
  /\ Connected(c) /\ ~ conn[c].silent
  /\ conn[c].stage = "right"
  /\ Set(c, [conn[c] EXCEPT !.stage = "authenticated"])
  /\ UNCHANGED <<server, offers, known, faults>>

\* auth_provision: with the right answer the description is sent.
auth_provision(c) ==
  /\ Connected(c) /\ ~ conn[c].silent
  /\ \/ /\ conn[c].stage = "right"
        /\ Set(c, [conn[c] EXCEPT !.stage = "authenticated"])
     \/ /\ conn[c].stage = "wrong"
        /\ Set(c, [conn[c] EXCEPT !.client = "broken"])
  /\ UNCHANGED <<server, offers, known, faults>>

\* A client that is not connected is erased.
Erase(c) ==
  /\ conn[c].client = "broken"
  /\ Set(c, [conn[c] EXCEPT !.client = "none"])
  /\ UNCHANGED <<server, offers, known, faults>>

\* The device learns that a connection is dead only from what it sends: data, if
\* it is authenticated, or the request.
Notice(c) ==
  /\ Connected(c) /\ conn[c].silent
  /\ conn[c].stage \in {"requested", "authenticated", "registered"}
  /\ Set(c, [conn[c] EXCEPT !.client = "broken"])
  /\ UNCHANGED <<server, offers, known, faults>>

Sends(c) == conn[c].stage \in {"authenticated", "registered"}

-----------------------------------------------------------------------------
(* What goes wrong. *)

\* A connection breaks, and both ends are told.
Break(c) ==
  /\ Fault
  /\ Connected(c) /\ ~ conn[c].silent
  /\ Set(c, [Closing(conn[c]) EXCEPT !.client = "broken"])
  /\ UNCHANGED <<server, offers, known>>

Vanish(c) ==
  /\ Fault
  /\ Connected(c) /\ ~ conn[c].silent
  /\ Set(c, [conn[c] EXCEPT !.silent = TRUE])
  /\ UNCHANGED <<server, offers, known>>

\* The device starts again.
DeviceRestarts(d) ==
  /\ Fault
  /\ conn' = [c \in Connection |->
                IF c \in tcp_clients(d) THEN Tidy([conn[c] EXCEPT !.client = "none", !.silent = TRUE])
                                        ELSE conn[c]]
  /\ UNCHANGED <<server, offers, known>>

\* A user changes the credentials, here or there.
ChangeCredentials(d, k) ==
  /\ Fault
  /\ known' = [known EXCEPT ![d] = k]
  /\ UNCHANGED <<server, conn, offers>>

Next ==
  \/ \E n \in Thread : Run(n) \/ CenterRestarts(n)
  \/ \E c \in Connection :
       IO(c) \/ SessionIdle(c) \/ ExceptionCaught(c) \/ auth_provision(c) \/ Erase(c) \/ Notice(c) \/ Break(c) \/ Vanish(c)
  \/ FunnelAnnounces
  \/ \E d \in Device :
       \/ announceUDP(d) \/ Lose(d) \/ DeviceRestarts(d)
       \/ \E p \in Thread : add_center(d, p)
       \/ \E k \in {"right", "wrong", "unknown"} : ChangeCredentials(d, k)

\* All threads go on, and so does the device's loop. From a silent connection
\* nothing comes, so its session is closed; no other need ever be. An offer that is
\* made again and again does arrive some time.
Fairness ==
  /\ \A n \in Thread : WF_vars(Run(n))
  /\ \A c \in Connection :
       /\ WF_vars(IO(c)) /\ WF_vars(conn[c].silent /\ SessionIdle(c))
       /\ WF_vars(auth_provision(c) \/ Erase(c)) /\ WF_vars(Notice(c) /\ Sends(c))
  /\ WF_vars(FunnelAnnounces)
  /\ \A d \in Device :
       /\ WF_vars(announceUDP(d))
       /\ \A p \in Thread : SF_vars(add_center(d, p))

Spec == Init /\ [][Next]_vars

FairSpec == Spec /\ Fairness

-----------------------------------------------------------------------------
(* Properties. *)

\* Types. An I/O thread is in restart only for a session there is.
TypeOK ==
  /\ place \in [Thread -> {"none", "starting", "announcing", "loop", "disposing", "ended"}]
  /\ t \in 0 .. MaxThreads /\ continuerunning \in BOOLEAN /\ funnel \in 0 .. MaxThreads
  /\ conn \in [Connection ->
       [device : Device, port : 0 .. MaxThreads,
        client : {"none", "open", "broken"}, session : {"none", "open", "closing"},
        stage : {"requested", "right", "wrong", "unknown", "authenticated", "registered"},
        silent : BOOLEAN, io : {"ready", "join", "start"}, joins : 0 .. MaxThreads]]
  /\ \A c \in Connection : conn[c].io # "ready" => conn[c].session # "none"
  /\ offers \in [Device -> SUBSET Thread]
  /\ known \in [Device -> {"right", "wrong", "unknown"}]
  /\ faults \in 0 .. MaxFaults

Live(c) == Connected(c) /\ conn[c].session = "open" /\ ~ conn[c].silent

\* However often it is announced, and through all restarts of servers, Center and
\* devices, a device never has two living connections: its data are never stored
\* twice.
OneConnection ==
  \A c1, c2 \in Connection :
    Live(c1) /\ Live(c2) /\ conn[c1].device = conn[c2].device => c1 = c2

\* restart returns, although it waits for a thread that waits for the session
\* whose I/O thread runs it.
RestartReturns == \A c \in Connection : conn[c].io = "join" ~> conn[c].io = "ready"

Registered(d) == \E c \in Connection : conn[c].device = d /\ Live(c) /\ conn[c].stage = "registered"

\* A connection that is silent while the device has nothing to send: nothing tells
\* the device that it is dead, and as long as it seems connected every offer of
\* this port is declined.
HalfOpen(d) ==
  \E c \in tcp_clients(d) : Connected(c) /\ conn[c].silent /\ ~ Sends(c)

\* The server that is announced accepts connections.
Serving == funnel # 0 /\ place[funnel] = "loop"

\* A session that lives is closed because the device has not sent anything for so
\* long, before or after it was registered.
IdleBefore(d) ==
  \E c \in Connection :
    conn[c].device = d /\ Live(c) /\ conn[c].stage # "registered" /\ SessionIdle(c)
IdleAfter(d) ==
  \E c \in Connection :
    conn[c].device = d /\ Live(c) /\ conn[c].stage = "registered" /\ SessionIdle(c)

\* Whatever has broken before: if the announced server goes on serving, the
\* credentials stay right, the device has no half-open connection and is never
\* closed as idle before it could register, it is registered again and again. It
\* stays so if it also sends its data often enough not to be closed as idle
\* (sessionIdle, add_center, auth_provision).
EventuallyRegistered ==
  \A d \in Device :
    <>[](Serving /\ known[d] = "right" /\ ~ HalfOpen(d)) /\ <>[][~ IdleBefore(d)]_vars
      => /\ []<>Registered(d)
         /\ <>[][~ IdleAfter(d)]_vars => <>[]Registered(d)
=============================================================================
