------------------------------ MODULE TimeSync ------------------------------
(***************************************************************************)
(* The Center's clock synchronisation over UDP: UDP_TimeSync (one thread   *)
(* that serves the synchronizers in turn), TimeSynchronizer (the state of  *)
(* one synchronizer) and the device's answer (IO_System::handleTimeSync).  *)
(*                                                                         *)
(* Simplifications:                                                        *)
(* - One unit of time is the socket's receive timeout divided by SoTimeout *)
(*   and passes only while the thread blocks in receive.                   *)
(* - A response carries the two one-way delays of its round trip instead   *)
(*   of clock readings. How long before its request the Center's clock had *)
(*   ticked, which the readings depend on too, is chosen when the response *)
(*   is received. That clock is not adjusted in the middle of a round      *)
(*   trip; the device's clock counts single units of time.                 *)
(* - Sums, means and deviations of trips are exact (they are doubles).     *)
(* - A synchronizer name stands for the objects made for one connection    *)
(*   after another; it is reused once the earlier object is forgotten.     *)
(* - getRemoteAddress() of a closed session belongs to the network library *)
(*   and may yield no address; an open session's address is resolved, so   *)
(*   the "Null address" branch of pollCurrent (195-200) is never taken.    *)
(***************************************************************************)
EXTENDS Integers, Sequences, FiniteSets, SequencesExt

CONSTANTS
  Syncs,         \* TimeSynchronizer objects
  Addresses,     \* IP addresses of the devices
  AddressOf,     \* the address of the connection a synchronizer belongs to
  NoSync,        \* current_sync = null
  PointsToFull,  \* points_to_full (20 in the code)
  SoTimeout,     \* socket.setSoTimeout, in units of time
  SyncTimeout,   \* sync_timeout_ms, in units of time
  Resolution,    \* one tick of the Center's clock (1 ms), in units of time
  MaxDelay,      \* bound: a datagram older than this is lost
  MaxInFlight    \* bound: datagrams in flight at once, further ones are lost

ASSUME TimeSyncAssumption ==
  /\ NoSync \notin Syncs
  /\ AddressOf \in [Syncs -> Addresses]
  /\ PointsToFull \in Nat \ {0}
  /\ SoTimeout \in Nat \ {0}
  /\ SyncTimeout \in Nat
  /\ Resolution \in Nat \ {0}
  /\ MaxDelay \in Nat
  /\ MaxInFlight \in Nat

VARIABLES
  pc,       \* where the UDP TimeSync thread is
  queue,    \* syncs_to_perform
  current,  \* current_sync
  points,   \* the sync points gathered for current
  silence,  \* now - last_sync_message, up to SyncTimeout + 1
  waited,   \* how long the thread has blocked in receive
  session,  \* the TCP session of each synchronizer
  status,   \* synced, and whether resync_interval has passed since
  net       \* datagrams in flight

vars == <<pc, queue, current, points, silence, waited, session, status, net>>

Delay == 0 .. MaxDelay
Phase == 0 .. Resolution - 1
Point == [addr : Addresses, at : Phase, out : Delay, back : Delay]
Datagram ==
  [kind : {"request", "response"}, addr : Addresses, out : Delay, back : Delay]

\* Types. A set that is full is finished before anything else is received.

TypeOK ==
  /\ pc \in {"loop", "receive", "dead"}
  /\ queue \in Seq(Syncs)
  /\ current \in Syncs \cup {NoSync}
  /\ points \in Seq(Point)
  /\ Len(points) <= PointsToFull
  /\ pc # "loop" => Len(points) < PointsToFull
  /\ silence \in 0 .. SyncTimeout + 1
  /\ waited \in 0 .. SoTimeout
  /\ session \in [Syncs -> {"open", "closed"}]
  /\ status \in [Syncs -> {"unsynced", "synced", "stale"}]
  /\ net \subseteq Datagram

Init ==
  /\ pc = "loop"
  /\ queue = <<>>
  /\ current = NoSync
  /\ points = <<>>
  /\ silence = 0
  /\ waited = 0
  /\ session = [s \in Syncs |-> "closed"]
  /\ status = [s \in Syncs |-> "unsynced"]
  /\ net = {}

-----------------------------------------------------------------------------
(* TimeSynchronizer and the arithmetic of finishCurrent. *)

Queued(s) == \E i \in DOMAIN queue : queue[i] = s

\* TimeSynchronizer.SynchronizeNow
SynchronizeNow(s) == status[s] # "synced"

\* sync_point.interval: the difference of two readings of the Center's clock,
\* which show whole ticks. The request was sent p.at after a tick.
Interval(p) == Resolution * ((p.at + p.out + p.back) \div Resolution)

\* Mutant of Error: half the trip is added to the time of receipt.
Error_FromReceipt(p) == Interval(p) + Interval(p) \div 2 - (p.at + p.out)

\* The error of sync_point.micros = request + interval/2 - device time, against
\* the device's true time zero: the device read its clock p.out after the request
\* was sent, and p.at + p.out after the tick that the Center has read.
Error(p) == Interval(p) \div 2 - (p.at + p.out)

\* The sum of a sequence of numbers.
Total(numbers) ==
  LET sum[n \in 0 .. Len(numbers)] == IF n = 0 THEN 0 ELSE sum[n - 1] + numbers[n]
  IN  sum[Len(numbers)]

Intervals(pts) == [i \in DOMAIN pts |-> Interval(pts[i])]
Squares(pts) == [i \in DOMAIN pts |-> Interval(pts[i]) * Interval(pts[i])]

\* p.interval > mean + std_dev, with the sample deviation over Len - 1. With
\* one point the deviation is 0/0 and the comparison with NaN is false, as it
\* is here.
Excessive(p, pts) ==
  LET n == Len(pts)
      sum == Total(Intervals(pts))
      above == n * Interval(p) - sum
  IN  /\ above > 0
      /\ above * above * (n - 1) > n * (n * Total(Squares(pts)) - sum * sum)

\* The places of the points that are not removed.
Kept(pts) == {i \in DOMAIN pts : ~ Excessive(pts[i], pts)}

\* The errors of the points that are averaged.
KeptErrors(pts) ==
  LET kept == Kept(pts)
  IN  [i \in DOMAIN pts |-> IF i \in kept THEN Error(pts[i]) ELSE 0]

\* The error of mean_micros, a division of integers that are positive.
MeanError(pts) == Total(KeptErrors(pts)) \div Cardinality(Kept(pts))

-----------------------------------------------------------------------------
(* Sessions and time. *)

\* Center.messageReceived makes a device for a new description and hands its
\* synchronizer to addSynchronizer.
AddSynchronizer(s) ==
  /\ session[s] = "closed"
  /\ ~ Queued(s)
  /\ current # s
  /\ session' = [session EXCEPT ![s] = "open"]
  /\ status' = [status EXCEPT ![s] = "unsynced"]
  /\ queue' = Append(queue, s)
  /\ UNCHANGED <<pc, current, points, silence, waited, net>>

\* The device disconnects. The synchronizer stays where it is.
SessionCloses(s) ==
  /\ session[s] = "open"
  /\ session' = [session EXCEPT ![s] = "closed"]
  /\ UNCHANGED <<pc, queue, current, points, silence, waited, status, net>>

\* resync_interval (6 hours) passes after a synchronisation.
ResyncDue(s) ==
  /\ status[s] = "synced"
  /\ status' = [status EXCEPT ![s] = "stale"]
  /\ UNCHANGED <<pc, queue, current, points, silence, waited, session, net>>

Aged(m) == IF m.kind = "request" THEN [m EXCEPT !.out = @ + 1]
                                 ELSE [m EXCEPT !.back = @ + 1]

Aging == {Aged(m) : m \in net} \cap Datagram

Tick ==
  /\ pc = "receive"
  /\ waited < SoTimeout
  /\ waited' = waited + 1
  /\ silence' = IF silence > SyncTimeout THEN silence ELSE silence + 1
  /\ net' = Aging
  /\ UNCHANGED <<pc, queue, current, points, session, status>>

-----------------------------------------------------------------------------
(* The UDP TimeSync thread. *)

\* The first synchronizer in the deque that wants synchronisation becomes the
\* current one.
Select ==
  /\ pc = "loop"
  /\ current = NoSync
  /\ \E i \in DOMAIN queue :
       /\ SynchronizeNow(queue[i])
       /\ \A j \in 1 .. i - 1 : ~ SynchronizeNow(queue[j])
       /\ current' = queue[i]
  /\ silence' = 0
  /\ UNCHANGED <<pc, queue, points, waited, session, status, net>>

NothingToDo ==
  /\ pc = "loop"
  /\ current = NoSync
  /\ \A i \in DOMAIN queue : ~ SynchronizeNow(queue[i])
  /\ pc' = "receive"
  /\ waited' = 0
  /\ UNCHANGED <<queue, current, points, silence, session, status, net>>

\* Mutant of FinishCurrent: a connected synchronizer is not put back.
FinishCurrent_Drops(pts) ==
  /\ status' = IF pts = <<>> THEN status
                             ELSE [status EXCEPT ![current] = "synced"]
  /\ points' = <<>>
  /\ queue' = RemoveFirst(queue, current)
  /\ current' = NoSync

\* Mutant of FinishCurrent: a connected synchronizer keeps its place.
FinishCurrent_KeepsPlace(pts) ==
  /\ status' = IF pts = <<>> THEN status
                             ELSE [status EXCEPT ![current] = "synced"]
  /\ points' = <<>>
  /\ queue' = IF session[current] = "open" THEN queue
                                           ELSE RemoveFirst(queue, current)
  /\ current' = NoSync

\* Mutant of FinishCurrent: a set cut short by the timeout is thrown away.
FinishCurrent_WholeSetsOnly(pts) ==
  /\ status' = IF Len(pts) < PointsToFull THEN status
                                         ELSE [status EXCEPT ![current] = "synced"]
  /\ points' = <<>>
  /\ queue' = LET rest == RemoveFirst(queue, current)
              IN  IF session[current] = "open" THEN Append(rest, current)
                                               ELSE rest
  /\ current' = NoSync

\* finishCurrent, with the points pts: synchronise if there is any point, and
\* move the synchronizer to the end of the deque while its session lasts.
FinishCurrent(pts) ==
  /\ status' = IF pts = <<>> THEN status
                             ELSE [status EXCEPT ![current] = "synced"]
  /\ points' = <<>>
  /\ queue' = LET rest == RemoveFirst(queue, current)
              IN  IF session[current] = "open" THEN Append(rest, current)
                                               ELSE rest
  /\ current' = NoSync

\* Mutant of Full: one point more is waited for.
Full_OneMore == silence > SyncTimeout \/ Len(points) > PointsToFull

Full == silence > SyncTimeout \/ Len(points) >= PointsToFull

Finish ==
  /\ pc = "loop"
  /\ current # NoSync
  /\ Full
  /\ FinishCurrent(points)
  /\ pc' = "receive"
  /\ waited' = 0
  /\ UNCHANGED <<silence, session, net>>

\* The datagrams in flight after one more is sent, or lost.
Sending(m, others) ==
  {n \in {others, others \cup {m}} : Cardinality(n) <= MaxInFlight} \cup {others}

Request(a) == [kind |-> "request", addr |-> a, out |-> 0, back |-> 0]

\* Mutant of Poll: every poll restarts the timeout.
Poll_RestartsTimeout ==
  /\ pc = "loop"
  /\ current # NoSync
  /\ ~ Full
  /\ net' \in Sending(Request(AddressOf[current]), net)
  /\ pc' = "receive"
  /\ waited' = 0
  /\ silence' = 0
  /\ UNCHANGED <<queue, current, points, session, status>>

\* pollCurrent
Poll ==
  /\ pc = "loop"
  /\ current # NoSync
  /\ ~ Full
  /\ net' \in Sending(Request(AddressOf[current]), net)
  /\ pc' = "receive"
  /\ waited' = 0
  /\ UNCHANGED <<queue, current, points, silence, session, status>>

\* TimeSyncAddress dereferences the address of a session that has none any
\* more. pollCurrent is not inside run's try block: the thread ends, and
\* nothing restarts it.
PollWithoutAddress ==
  /\ pc = "loop"
  /\ current # NoSync
  /\ ~ Full
  /\ session[current] = "closed"
  /\ pc' = "dead"
  /\ UNCHANGED <<queue, current, points, silence, waited, session, status, net>>

ReceiveTimesOut ==
  /\ pc = "receive"
  /\ waited = SoTimeout
  /\ pc' = "loop"
  /\ UNCHANGED <<queue, current, points, silence, waited, session, status, net>>

\* Mutant of Expected: any device is heard.
Expected_AnySource(a) == current # NoSync

\* The check of run's timesync_response case: only the current device's
\* address is heard.
Expected(a) == current # NoSync /\ AddressOf[current] = a

\* A datagram is taken from the network, which may hold a copy of it.
Taken(m) == {net, net \ {m}}

\* handleResponse. The request was sent at after a tick of the Center's clock.
ReceiveResponse(m, at) ==
  LET pts == Append(points, [addr |-> m.addr, at |-> at, out |-> m.out, back |-> m.back])
  IN  /\ pc = "receive"
      /\ m.kind = "response"
      /\ Expected(m.addr)
      /\ net' \in Taken(m)
      /\ pc' = "loop"
      /\ silence' = 0
      /\ IF Len(pts) > PointsToFull
         THEN FinishCurrent(pts)
         ELSE /\ points' = pts
              /\ UNCHANGED <<queue, current, status>>
      /\ UNCHANGED <<waited, session>>

\* A response nobody waits for: current is null, the source is another device,
\* or the session has no address any more. The exception is caught in run.
IgnoreResponse(m) ==
  /\ pc = "receive"
  /\ m.kind = "response"
  /\ ~ (Expected(m.addr) /\ session[current] = "open")
  /\ net' \in Taken(m)
  /\ pc' = "loop"
  /\ UNCHANGED <<queue, current, points, silence, waited, session, status>>

\* IO_System::LoopUDP and handleTimeSync on the device.
DeviceAnswers(m) ==
  /\ m.kind = "request"
  /\ \E others \in Taken(m) :
       net' \in Sending([m EXCEPT !.kind = "response"], others)
  /\ UNCHANGED <<pc, queue, current, points, silence, waited, session, status>>

-----------------------------------------------------------------------------
Thread ==
  \/ Select
  \/ NothingToDo
  \/ Finish
  \/ Poll
  \/ PollWithoutAddress
  \/ ReceiveTimesOut

Network ==
  \E m \in net :
    (\E at \in Phase : ReceiveResponse(m, at)) \/ IgnoreResponse(m) \/ DeviceAnswers(m)

Environment ==
  \E s \in Syncs : AddSynchronizer(s) \/ SessionCloses(s) \/ ResyncDue(s)

Next == Thread \/ Network \/ Environment \/ Tick

\* The thread runs whenever it can, and time passes: a thread that is handed
\* datagrams without end still sees the clock advance.
Fairness == WF_vars(Thread) /\ SF_vars(Tick)

Spec == Init /\ [][Next]_vars /\ Fairness

-----------------------------------------------------------------------------
(* Safety. *)

\* Measurements of two devices are never mixed ("Don't want to mix up time
\* syncs", run): every point gathered came from the current synchronizer's
\* device, and none is left over when the next synchronizer is selected.
PointsFromCurrentDevice ==
  /\ current = NoSync => points = <<>>
  /\ \A i \in DOMAIN points : AddressOf[current] = points[i].addr

\* No connected device is forgotten by the deque, and none is served twice in
\* a round: the synchronizer of an open session is queued, at one place, and so
\* is the current one, although finishCurrent removes and re-adds it.
OpenSessionQueuedOnce ==
  /\ \A s \in Syncs : session[s] = "open" => Queued(s)
  /\ current # NoSync => Queued(current)
  /\ \A i, j \in DOMAIN queue : queue[i] = queue[j] => i = j

\* Whatever points a synchronisation ends with, finishCurrent's filter leaves
\* one (no division by zero), and the time zero it stores is late by at most half
\* the longest trip that it kept, and early by at most that and one tick of the
\* Center's clock: a trip within a tick measures as nothing and says nothing. That
\* trip is not the longest of all unless no longer one differs from the mean by
\* more than the deviation.
EstimateSound ==
  points # <<>> =>
    LET kept == Kept(points)
        error == MeanError(points)
    IN  \E longest \in kept :
          LET trip == Interval(points[longest])
          IN  /\ \A i \in kept : Interval(points[i]) <= trip
              /\ 2 * error <= trip
              /\ - 2 * error <= trip + 2 * Resolution
              /\ \A i \in DOMAIN points : Interval(points[i]) < trip => i \in kept

-----------------------------------------------------------------------------
(* Liveness. A synchronizer whose session closes may end the thread (see       *)
(* PollWithoutAddress), which the properties below leave out by name.        *)

Gone(s) == session[s] = "closed" \/ pc = "dead"

\* An unresponsive device cannot keep the thread: every attempt ends, by the
\* points gathered or by sync_timeout_ms of silence.
AttemptEnds ==
  \A s \in Syncs : current = s ~> (current # s \/ pc = "dead")

\* No connected device starves, however the others behave: it is served
\* whenever it needs synchronisation, because a finished synchronizer goes to
\* the end of the deque.
NoStarvation ==
  \A s \in Syncs :
    session[s] = "open" /\ SynchronizeNow(s) ~> current = s \/ Gone(s)

PollArrives(s) == current = s /\ Poll /\ Request(AddressOf[s]) \in net'

AnswerArrives(s) ==
  /\ current = s
  /\ \E m \in net : m.addr = AddressOf[s] /\ DeviceAnswers(m)
  /\ \E r \in net' : r.kind = "response" /\ r.addr = AddressOf[s]

ResponseHeard(s) == current = s /\ \E m \in net, at \in Phase : ReceiveResponse(m, at)

\* While s is served, the network does not lose every datagram for ever.
Reachable(s) ==
  /\ SF_vars(PollArrives(s))
  /\ SF_vars(AnswerArrives(s))
  /\ SF_vars(ResponseHeard(s))

\* A connected device that the network does not cut off is synchronised, so that
\* its data are accepted at last, also when it answers too rarely to fill a
\* whole set of points.
EventuallySynced ==
  \A s \in Syncs :
    Reachable(s)
      => (session[s] = "open" ~> status[s] = "synced" \/ Gone(s))

\* Architecture.md, "Time": "When a Center connects to a Device, it will perform
\* a time synchronization over UDP before accepting data messages."
EveryConnectionIsServed ==
  \A s \in Syncs :
    session[s] = "open" /\ SynchronizeNow(s) ~> current = s \/ session[s] = "closed"
=============================================================================
