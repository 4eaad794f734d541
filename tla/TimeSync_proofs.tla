--------------------------- MODULE TimeSync_proofs ---------------------------
(***************************************************************************)
(* Proofs about TimeSync for every set of synchronizers and devices, and   *)
(* every number of points, timeout and delay.                              *)
(***************************************************************************)
EXTENDS TimeSync, Recursion, SequenceTheorems, FiniteSetTheorems

NoRepeat(q) == \A i, j \in DOMAIN q : q[i] = q[j] => i = j
Holds(q, x) == \E i \in DOMAIN q : q[i] = x

(***************************************************************************)
(* Removing an element that occurs once leaves the other elements, each at *)
(* one place.                                                              *)
(***************************************************************************)
LEMMA RemoveOnce ==
  ASSUME NEW S, NEW q \in Seq(S), NEW e, NoRepeat(q)
  PROVE  /\ RemoveFirst(q, e) \in Seq(S)
         /\ NoRepeat(RemoveFirst(q, e))
         /\ \A x : Holds(RemoveFirst(q, e), x) <=> x # e /\ Holds(q, x)
<1>. DEFINE r == RemoveFirst(q, e)
<1>0. Len(q) \in Nat /\ DOMAIN q = 1 .. Len(q) /\ \A i \in 1 .. Len(q) : q[i] \in S
  BY LenProperties
<1>1. CASE ~ \E i \in 1 .. Len(q) : q[i] = e
  <2>1. r = q
    BY <1>1 DEF RemoveFirst
  <2>. QED  BY <1>0, <1>1, <2>1 DEF NoRepeat, Holds
<1>2. CASE \E i \in 1 .. Len(q) : q[i] = e
  <2>1. PICK k \in 1 .. Len(q) : q[k] = e
    BY <1>2
  <2>2. {i \in 1 .. Len(q) : q[i] = e} = {k}
    BY <1>0, <2>1 DEF NoRepeat
  <2>3. Min({k}) = k
    BY <2>1 DEF Min
  <2>4. r = RemoveAt(q, k)
    BY <1>2, <2>2, <2>3 DEF RemoveFirst, SelectInSeq
  <2>. DEFINE left == SubSeq(q, 1, k - 1)
              right == SubSeq(q, k + 1, Len(q))
  <2>5. /\ left \in Seq(S)
        /\ Len(left) = k - 1
        /\ \A i \in 1 .. k - 1 : left[i] = q[i]
    <3>1. \A i \in 1 .. k - 1 : q[i] \in S
      BY <1>0, <2>1
    <3>2. /\ left \in Seq(S)
          /\ Len(left) = IF 1 <= k - 1 THEN (k - 1) - 1 + 1 ELSE 0
          /\ \A i \in 1 .. (k - 1) - 1 + 1 : left[i] = q[1 + i - 1]
      BY <1>0, <2>1, <3>1, SubSeqProperties
    <3>. HIDE DEF left
    <3>3. Len(left) = k - 1
      BY <2>1, <3>2
    <3>4. ASSUME NEW i \in 1 .. k - 1 PROVE left[i] = q[i]
      <4>1. i \in 1 .. (k - 1) - 1 + 1 /\ 1 + i - 1 = i
        BY <2>1
      <4>. QED  BY <3>2, <4>1
    <3>. QED  BY <3>2, <3>3, <3>4
  <2>6. /\ right \in Seq(S)
        /\ Len(right) = Len(q) - k
        /\ \A i \in 1 .. Len(q) - k : right[i] = q[k + i]
    <3>1. /\ \A i \in k + 1 .. Len(q) : q[i] \in S
          /\ k + 1 \in Int /\ Len(q) \in Int
      BY <1>0, <2>1
    <3>2. /\ right \in Seq(S)
          /\ Len(right) = IF k + 1 <= Len(q) THEN Len(q) - (k + 1) + 1 ELSE 0
          /\ \A i \in 1 .. Len(q) - (k + 1) + 1 : right[i] = q[k + 1 + i - 1]
      BY <1>0, <2>1, <3>1, SubSeqProperties
    <3>. HIDE DEF right
    <3>3. Len(right) = Len(q) - k
      <4>1. ASSUME NEW n \in Nat, NEW j \in 1 .. n
            PROVE  n - j = IF j + 1 <= n THEN n - (j + 1) + 1 ELSE 0
        OBVIOUS
      <4>. QED  BY <1>0, <3>2, <4>1, Zenon
    <3>4. ASSUME NEW i \in 1 .. Len(q) - k PROVE right[i] = q[k + i]
      <4>1. i \in 1 .. Len(q) - (k + 1) + 1 /\ k + 1 + i - 1 = k + i
        BY <1>0, <2>1
      <4>. QED  BY <3>2, <4>1
    <3>. QED  BY <3>2, <3>3, <3>4
  <2>7. r = left \o right
    BY <2>4 DEF RemoveAt
  <2>. HIDE DEF r, left, right
  <2>8. /\ r \in Seq(S)
        /\ Len(r) = Len(left) + Len(right)
        /\ \A i \in 1 .. Len(left) + Len(right) :
             r[i] = IF i <= Len(left) THEN left[i] ELSE right[i - Len(left)]
    BY <2>5, <2>6, <2>7, ConcatProperties
  <2>9. /\ DOMAIN r = 1 .. Len(q) - 1
        /\ \A i \in 1 .. Len(q) - 1 : r[i] = IF i < k THEN q[i] ELSE q[i + 1]
    <3>1. Len(r) = Len(q) - 1
      BY <1>0, <2>1, <2>5, <2>6, <2>8
    <3>2. DOMAIN r = 1 .. Len(q) - 1
      BY <2>8, <3>1, LenProperties
    <3>3. ASSUME NEW i \in 1 .. Len(q) - 1, i < k PROVE r[i] = q[i]
      <4>1. i <= Len(left) /\ i \in 1 .. Len(left) + Len(right) /\ i \in 1 .. k - 1
        BY <1>0, <2>1, <2>5, <2>6, <3>3
      <4>. QED  BY <2>5, <2>8, <4>1
    <3>4. ASSUME NEW i \in 1 .. Len(q) - 1, ~ (i < k) PROVE r[i] = q[i + 1]
      <4>1. /\ ~ (i <= Len(left))
            /\ i \in 1 .. Len(left) + Len(right)
            /\ i - Len(left) \in 1 .. Len(q) - k
            /\ k + (i - Len(left)) = i + 1
        BY <1>0, <2>1, <2>5, <2>6, <3>4
      <4>2. r[i] = right[i - Len(left)]
        BY <2>8, <4>1
      <4>3. right[i - Len(left)] = q[k + (i - Len(left))]
        BY <2>6, <4>1
      <4>. QED  BY <4>1, <4>2, <4>3
    <3>. QED  BY <3>2, <3>3, <3>4
  <2>10. NoRepeat(r)
    BY <1>0, <2>1, <2>9 DEF NoRepeat
  <2>11. ASSUME NEW x PROVE Holds(r, x) <=> x # e /\ Holds(q, x)
    <3>1. ASSUME Holds(r, x) PROVE x # e /\ Holds(q, x)
      <4>1. PICK i \in 1 .. Len(q) - 1 : r[i] = x
        BY <2>9, <3>1 DEF Holds
      <4>2. PICK j \in 1 .. Len(q) : q[j] = x /\ j # k
        <5>1. CASE i < k
          <6>1. i \in 1 .. Len(q) /\ q[i] = x /\ i # k
            BY <1>0, <2>1, <2>9, <4>1, <5>1
          <6>. QED  BY <6>1
        <5>2. CASE ~ (i < k)
          <6>1. i + 1 \in 1 .. Len(q) /\ q[i + 1] = x /\ i + 1 # k
            BY <1>0, <2>1, <2>9, <4>1, <5>2
          <6>. QED  BY <6>1
        <5>. QED  BY <5>1, <5>2
      <4>. QED  BY <1>0, <2>1, <4>2 DEF NoRepeat, Holds
    <3>2. ASSUME x # e, Holds(q, x) PROVE Holds(r, x)
      <4>1. PICK i \in 1 .. Len(q) : q[i] = x /\ i # k
        BY <1>0, <2>1, <3>2 DEF Holds
      <4>2. CASE i < k
        <5>1. i \in DOMAIN r /\ r[i] = x
          BY <1>0, <2>1, <2>9, <4>1, <4>2
        <5>. QED  BY <5>1 DEF Holds
      <4>3. CASE i > k
        <5>1. i - 1 \in DOMAIN r /\ r[i - 1] = x
          BY <1>0, <2>1, <2>9, <4>1, <4>3
        <5>. QED  BY <5>1 DEF Holds
      <4>. QED  BY <1>0, <2>1, <4>1, <4>2, <4>3
    <3>. QED  BY <3>1, <3>2
  <2>. QED  BY <2>8, <2>10, <2>11 DEF r
<1>. QED  BY <1>0, <1>1, <1>2

(***************************************************************************)
(* Appending a new element to a sequence without repetitions.              *)
(***************************************************************************)
LEMMA AppendNew ==
  ASSUME NEW S, NEW q \in Seq(S), NEW e \in S, NoRepeat(q), ~ Holds(q, e)
  PROVE  /\ Append(q, e) \in Seq(S)
         /\ NoRepeat(Append(q, e))
         /\ \A x : Holds(Append(q, e), x) <=> x = e \/ Holds(q, x)
<1>1. /\ Append(q, e) \in Seq(S)
      /\ Len(q) \in Nat
      /\ DOMAIN q = 1 .. Len(q)
      /\ DOMAIN Append(q, e) = 1 .. Len(q) + 1
      /\ \A i \in 1 .. Len(q) : Append(q, e)[i] = q[i]
      /\ Append(q, e)[Len(q) + 1] = e
  BY AppendProperties, LenProperties
<1>2. NoRepeat(Append(q, e))
  BY <1>1 DEF NoRepeat, Holds
<1>3. ASSUME NEW x PROVE Holds(Append(q, e), x) <=> x = e \/ Holds(q, x)
  BY <1>1 DEF Holds
<1>. QED  BY <1>1, <1>2, <1>3

-----------------------------------------------------------------------------
(* The inductive invariant is TypeOK, OpenSessionQueuedOnce and               *)
(* PointsFromCurrentDevice together: TypeOK needs the deque free of            *)
(* repetitions where finishCurrent removes the current synchronizer, and no   *)
(* point where no synchronizer is the current one.                            *)

(***************************************************************************)
(* The code starts with an empty deque and no point.                       *)
(***************************************************************************)
LEMMA InitTypeOK == Init => TypeOK
<1>. SUFFICES ASSUME Init PROVE TypeOK
  OBVIOUS
<1>1. <<>> \in Seq(Syncs) /\ <<>> \in Seq(Point) /\ Len(<<>>) = 0
  OBVIOUS
<1>. QED  BY <1>1, TimeSyncAssumption DEF Init, TypeOK

(***************************************************************************)
(* Every step preserves the types.                                         *)
(***************************************************************************)
LEMMA NextTypeOK ==
  TypeOK /\ NoRepeat(queue) /\ PointsFromCurrentDevice /\ [Next]_vars => TypeOK'
<1>. SUFFICES ASSUME TypeOK, NoRepeat(queue), PointsFromCurrentDevice, [Next]_vars
              PROVE  TypeOK'
  OBVIOUS
<1>0. Len(points) \in Nat
  BY LenProperties DEF TypeOK
<1>. USE DEF TypeOK
<1>1. ASSUME NEW s \in Syncs, AddSynchronizer(s) PROVE TypeOK'
  <2>1. Append(queue, s) \in Seq(Syncs)
    BY AppendProperties
  <2>. QED  BY <1>1, <2>1 DEF AddSynchronizer
<1>2. ASSUME NEW s \in Syncs, SessionCloses(s) PROVE TypeOK'
  BY <1>2 DEF SessionCloses
<1>3. ASSUME NEW s \in Syncs, ResyncDue(s) PROVE TypeOK'
  BY <1>3 DEF ResyncDue
<1>4. CASE Select
  <2>1. \A i \in DOMAIN queue : queue[i] \in Syncs
    BY LenProperties
  <2>. QED  BY <1>4, <2>1, TimeSyncAssumption DEF Select
<1>5. CASE NothingToDo
  <2>1. points = <<>> /\ Len(<<>>) = 0
    BY <1>5 DEF NothingToDo, PointsFromCurrentDevice
  <2>. QED  BY <1>5, <2>1, TimeSyncAssumption DEF NothingToDo
<1>6. ASSUME NEW pts \in Seq(Point), current \in Syncs, FinishCurrent(pts)
      PROVE  /\ queue' \in Seq(Syncs)
             /\ current' = NoSync
             /\ points' \in Seq(Point)
             /\ Len(points') = 0
             /\ status' \in [Syncs -> {"unsynced", "synced", "stale"}]
  <2>1. RemoveFirst(queue, current) \in Seq(Syncs)
    BY RemoveOnce
  <2>2. Append(RemoveFirst(queue, current), current) \in Seq(Syncs)
    BY <1>6, <2>1, AppendProperties
  <2>3. points' = <<>> /\ Len(<<>>) = 0 /\ <<>> \in Seq(Point)
    BY <1>6 DEF FinishCurrent
  <2>. QED  BY <1>6, <2>1, <2>2, <2>3 DEF FinishCurrent
<1>7. CASE Finish
  <2>1. current \in Syncs /\ FinishCurrent(points)
    BY <1>7 DEF Finish
  <2>2. /\ pc' = "receive"
        /\ waited' = 0
        /\ UNCHANGED <<silence, session, net>>
    BY <1>7 DEF Finish
  <2>. QED  BY <1>6, <2>1, <2>2, TimeSyncAssumption
<1>8. CASE Poll
  <2>1. Request(AddressOf[current]) \in Datagram
    BY <1>8, TimeSyncAssumption DEF Poll, Request, Datagram, Delay
  <2>2. Len(points) < PointsToFull
    BY <1>0, <1>8, TimeSyncAssumption DEF Poll, Full
  <2>. QED  BY <1>8, <2>1, <2>2, TimeSyncAssumption DEF Poll, Sending
<1>9. CASE PollWithoutAddress
  <2>1. Len(points) < PointsToFull
    BY <1>0, <1>9, TimeSyncAssumption DEF PollWithoutAddress, Full
  <2>. QED  BY <1>9, <2>1 DEF PollWithoutAddress
<1>10. CASE ReceiveTimesOut
  BY <1>10 DEF ReceiveTimesOut
<1>11. ASSUME NEW m \in net, NEW at \in Phase, ReceiveResponse(m, at) PROVE TypeOK'
  <2>. DEFINE pts == Append(points, [addr |-> m.addr, at |-> at, out |-> m.out, back |-> m.back])
  <2>1. [addr |-> m.addr, at |-> at, out |-> m.out, back |-> m.back] \in Point
    BY DEF Datagram, Point
  <2>2. pts \in Seq(Point) /\ Len(pts) = Len(points) + 1
    BY <2>1, AppendProperties
  <2>3. current \in Syncs
    BY <1>11 DEF ReceiveResponse, Expected
  <2>4. net' \subseteq Datagram
    BY <1>11 DEF ReceiveResponse, Taken
  <2>5. pc' = "loop" /\ silence' \in 0 .. SyncTimeout + 1 /\ waited' = waited
        /\ session' = session
    BY <1>11, TimeSyncAssumption DEF ReceiveResponse
  <2>6. CASE Len(pts) > PointsToFull
    <3>1. FinishCurrent(pts)
      BY <1>11, <2>6 DEF ReceiveResponse
    <3>. HIDE DEF pts
    <3>. QED  BY <1>6, <2>2, <2>3, <2>4, <2>5, <3>1, TimeSyncAssumption
  <2>7. CASE ~ (Len(pts) > PointsToFull)
    <3>1. points' = pts /\ UNCHANGED <<queue, current, status>>
      BY <1>11, <2>7 DEF ReceiveResponse
    <3>2. Len(pts) \in Nat
      BY <2>2, LenProperties
    <3>. HIDE DEF pts
    <3>. QED  BY <2>2, <2>4, <2>5, <2>7, <3>1, <3>2, TimeSyncAssumption
  <2>. QED  BY <2>6, <2>7
<1>12. ASSUME NEW m \in net, IgnoreResponse(m) PROVE TypeOK'
  BY <1>12 DEF IgnoreResponse, Taken
<1>13. ASSUME NEW m \in net, DeviceAnswers(m) PROVE TypeOK'
  <2>1. [m EXCEPT !.kind = "response"] \in Datagram
    BY DEF Datagram
  <2>. QED  BY <1>13, <2>1 DEF DeviceAnswers, Taken, Sending
<1>14. CASE Tick
  BY <1>14, TimeSyncAssumption DEF Tick, Aging
<1>15. CASE UNCHANGED vars
  BY <1>15 DEF vars
<1>. QED  BY <1>1, <1>2, <1>3, <1>4, <1>5, <1>7, <1>8, <1>9, <1>10, <1>11,
             <1>12, <1>13, <1>14, <1>15
          DEF Next, Thread, Network, Environment

(***************************************************************************)
(* Every step keeps the synchronizers of open sessions, and the current    *)
(* one, in the deque at one place.                                         *)
(***************************************************************************)
LEMMA NextQueue ==
  TypeOK /\ OpenSessionQueuedOnce /\ [Next]_vars => OpenSessionQueuedOnce'
<1>. SUFFICES ASSUME TypeOK, OpenSessionQueuedOnce, [Next]_vars
              PROVE  OpenSessionQueuedOnce'
  OBVIOUS
<1>0. /\ queue \in Seq(Syncs)
      /\ NoRepeat(queue)
      /\ \A s \in Syncs : session[s] = "open" => Holds(queue, s)
      /\ current # NoSync => Holds(queue, current)
      /\ session \in [Syncs -> {"open", "closed"}]
  BY DEF TypeOK, OpenSessionQueuedOnce, NoRepeat, Holds, Queued
<1>. SUFFICES /\ NoRepeat(queue')
              /\ \A s \in Syncs : session'[s] = "open" => Holds(queue', s)
              /\ current' # NoSync => Holds(queue', current')
  BY DEF OpenSessionQueuedOnce, NoRepeat, Holds, Queued
<1>1. ASSUME NEW s \in Syncs, AddSynchronizer(s)
      PROVE  /\ NoRepeat(queue')
             /\ \A r \in Syncs : session'[r] = "open" => Holds(queue', r)
             /\ current' # NoSync => Holds(queue', current')
  <2>1. ~ Holds(queue, s)
    BY <1>1 DEF AddSynchronizer, Holds, Queued
  <2>2. /\ NoRepeat(queue')
        /\ \A x : Holds(queue', x) <=> x = s \/ Holds(queue, x)
    BY <1>0, <1>1, <2>1, AppendNew DEF AddSynchronizer
  <2>. QED  BY <1>0, <1>1, <2>2 DEF AddSynchronizer
<1>2. ASSUME NEW s \in Syncs, SessionCloses(s)
      PROVE  /\ NoRepeat(queue')
             /\ \A r \in Syncs : session'[r] = "open" => Holds(queue', r)
             /\ current' # NoSync => Holds(queue', current')
  BY <1>0, <1>2 DEF SessionCloses
<1>3. CASE Select
  BY <1>0, <1>3 DEF Select, Holds
<1>4. ASSUME NEW pts, current # NoSync, FinishCurrent(pts), session' = session
      PROVE  /\ NoRepeat(queue')
             /\ \A r \in Syncs : session'[r] = "open" => Holds(queue', r)
             /\ current' # NoSync => Holds(queue', current')
  <2>. DEFINE rest == RemoveFirst(queue, current)
  <2>0. current \in Syncs
    BY <1>4 DEF TypeOK
  <2>1. /\ rest \in Seq(Syncs)
        /\ NoRepeat(rest)
        /\ \A x : Holds(rest, x) <=> x # current /\ Holds(queue, x)
    BY <1>0, RemoveOnce
  <2>2. current' = NoSync
    BY <1>4 DEF FinishCurrent
  <2>3. CASE session[current] = "open"
    <3>1. queue' = Append(rest, current)
      BY <1>4, <2>3 DEF FinishCurrent
    <3>. HIDE DEF rest
    <3>2. /\ NoRepeat(Append(rest, current))
          /\ \A x : Holds(Append(rest, current), x) <=> x = current \/ Holds(rest, x)
      BY <2>0, <2>1, AppendNew
    <3>. QED  BY <1>0, <1>4, <2>1, <2>2, <3>1, <3>2
  <2>4. CASE session[current] # "open"
    <3>1. queue' = rest
      BY <1>4, <2>4 DEF FinishCurrent
    <3>. HIDE DEF rest
    <3>. QED  BY <1>0, <1>4, <2>1, <2>2, <2>4, <3>1
  <2>. QED  BY <2>3, <2>4
<1>5. CASE Finish
  BY <1>4, <1>5 DEF Finish
<1>6. ASSUME NEW m \in net, NEW at \in Phase, ReceiveResponse(m, at)
      PROVE  /\ NoRepeat(queue')
             /\ \A r \in Syncs : session'[r] = "open" => Holds(queue', r)
             /\ current' # NoSync => Holds(queue', current')
  <2>. DEFINE pts == Append(points, [addr |-> m.addr, at |-> at, out |-> m.out, back |-> m.back])
  <2>1. current # NoSync /\ session' = session
    BY <1>6 DEF ReceiveResponse, Expected
  <2>2. CASE Len(pts) > PointsToFull
    <3>1. FinishCurrent(pts)
      BY <1>6, <2>2 DEF ReceiveResponse
    <3>. QED  BY <1>4, <2>1, <3>1
  <2>3. CASE ~ (Len(pts) > PointsToFull)
    <3>1. UNCHANGED <<queue, current>>
      BY <1>6, <2>3 DEF ReceiveResponse
    <3>. QED  BY <1>0, <2>1, <3>1
  <2>. QED  BY <2>2, <2>3
<1>7. ASSUME UNCHANGED <<queue, current, session>>
      PROVE  /\ NoRepeat(queue')
             /\ \A r \in Syncs : session'[r] = "open" => Holds(queue', r)
             /\ current' # NoSync => Holds(queue', current')
  BY <1>0, <1>7
<1>8. ASSUME \/ \E s \in Syncs : ResyncDue(s)
             \/ NothingToDo \/ Poll \/ PollWithoutAddress \/ ReceiveTimesOut
             \/ \E m \in net : IgnoreResponse(m) \/ DeviceAnswers(m)
             \/ Tick
             \/ UNCHANGED vars
      PROVE  UNCHANGED <<queue, current, session>>
  BY <1>8 DEF ResyncDue, NothingToDo, Poll, PollWithoutAddress, ReceiveTimesOut,
              IgnoreResponse, DeviceAnswers, Tick, vars
<1>. QED  BY <1>1, <1>2, <1>3, <1>5, <1>6, <1>7, <1>8
          DEF Next, Thread, Network, Environment

(***************************************************************************)
(* Every step keeps the points of one device.                              *)
(***************************************************************************)
LEMMA NextPoints ==
  TypeOK /\ PointsFromCurrentDevice /\ [Next]_vars => PointsFromCurrentDevice'
<1>. SUFFICES ASSUME TypeOK, PointsFromCurrentDevice, [Next]_vars
              PROVE  PointsFromCurrentDevice'
  OBVIOUS
<1>0. ASSUME NEW pts, FinishCurrent(pts) PROVE PointsFromCurrentDevice'
  BY <1>0 DEF FinishCurrent, PointsFromCurrentDevice
<1>1. CASE Select
  BY <1>1 DEF Select, PointsFromCurrentDevice
<1>2. CASE Finish
  BY <1>0, <1>2 DEF Finish
<1>3. ASSUME NEW m \in net, NEW at \in Phase, ReceiveResponse(m, at)
      PROVE  PointsFromCurrentDevice'
  <2>. DEFINE p == [addr |-> m.addr, at |-> at, out |-> m.out, back |-> m.back]
  <2>1. current # NoSync /\ AddressOf[current] = p.addr
    BY <1>3 DEF ReceiveResponse, Expected
  <2>2. CASE Len(Append(points, p)) > PointsToFull
    BY <1>0, <1>3, <2>2 DEF ReceiveResponse
  <2>3. CASE ~ (Len(Append(points, p)) > PointsToFull)
    <3>1. points' = Append(points, p) /\ current' = current
      BY <1>3, <2>3 DEF ReceiveResponse
    <3>2. p \in Point /\ points \in Seq(Point)
      BY DEF TypeOK, Datagram, Point
    <3>. HIDE DEF p
    <3>3. /\ DOMAIN points = 1 .. Len(points)
          /\ DOMAIN points' = 1 .. Len(points) + 1
          /\ \A i \in 1 .. Len(points) : points'[i] = points[i]
          /\ points'[Len(points) + 1] = p
          /\ Len(points) \in Nat
      BY <3>1, <3>2, AppendProperties, LenProperties
    <3>4. ASSUME NEW i \in DOMAIN points' PROVE AddressOf[current] = points'[i].addr
      <4>1. CASE i \in 1 .. Len(points)
        BY <3>3, <4>1 DEF PointsFromCurrentDevice
      <4>2. CASE i = Len(points) + 1
        BY <2>1, <3>3, <4>2
      <4>. QED  BY <3>3, <4>1, <4>2
    <3>. QED  BY <2>1, <3>1, <3>4 DEF PointsFromCurrentDevice
  <2>. QED  BY <2>2, <2>3
<1>4. CASE UNCHANGED <<points, current>>
  BY <1>4 DEF PointsFromCurrentDevice
<1>5. ASSUME \/ \E s \in Syncs : AddSynchronizer(s) \/ SessionCloses(s) \/ ResyncDue(s)
             \/ NothingToDo \/ Poll \/ PollWithoutAddress \/ ReceiveTimesOut
             \/ \E m \in net : IgnoreResponse(m) \/ DeviceAnswers(m)
             \/ Tick
             \/ UNCHANGED vars
      PROVE  UNCHANGED <<points, current>>
  BY <1>5 DEF AddSynchronizer, SessionCloses, ResyncDue, NothingToDo, Poll,
              PollWithoutAddress, ReceiveTimesOut, IgnoreResponse, DeviceAnswers,
              Tick, vars
<1>. QED  BY <1>1, <1>2, <1>3, <1>4, <1>5 DEF Next, Thread, Network, Environment

-----------------------------------------------------------------------------
(***************************************************************************)
(* The three invariants hold together in every behaviour.                  *)
(***************************************************************************)
LEMMA Inductive ==
  Spec => [](TypeOK /\ OpenSessionQueuedOnce /\ PointsFromCurrentDevice)
<1>. DEFINE IInv == TypeOK /\ OpenSessionQueuedOnce /\ PointsFromCurrentDevice
<1>1. Init => IInv
  BY InitTypeOK
  DEF Init, OpenSessionQueuedOnce, PointsFromCurrentDevice, Queued
<1>2. IInv /\ [Next]_vars => IInv'
  BY NextTypeOK, NextQueue, NextPoints DEF OpenSessionQueuedOnce, NoRepeat
<1>. QED  BY <1>1, <1>2, PTL DEF Spec

(***************************************************************************)
(* UDP_TimeSync's fields stay in their types; in particular at most        *)
(* points_to_full points are stored between two steps.                     *)
(***************************************************************************)
THEOREM TypeCorrect == Spec => []TypeOK
BY Inductive, PTL

(***************************************************************************)
(* finishCurrent and addSynchronizer keep the synchronizer of every open   *)
(* session in the deque, at one place.                                     *)
(***************************************************************************)
THEOREM NobodyForgotten == Spec => []OpenSessionQueuedOnce
BY Inductive, PTL

(***************************************************************************)
(* handleResponse never mixes the measurements of two devices.             *)
(***************************************************************************)
THEOREM PointsNeverMixed == Spec => []PointsFromCurrentDevice
BY Inductive, PTL

-----------------------------------------------------------------------------
(* Sums. *)

\* The sums of the first numbers, however many.
Summing(sum, numbers) ==
  /\ sum \in [0 .. Len(numbers) -> Int]
  /\ sum[0] = 0
  /\ \A n \in 1 .. Len(numbers) : sum[n] = sum[n - 1] + numbers[n]

LEMMA Sums ==
  ASSUME NEW numbers \in Seq(Int)
  PROVE  \E sum : Summing(sum, numbers) /\ Total(numbers) = sum[Len(numbers)]
<1> DEFINE N == Len(numbers)
           step == [x \in Nat \X Int |-> x[2] + (IF x[1] \in 1 .. N THEN numbers[x[1]] ELSE 0)]
           Defines(f) == f = [n \in 0 .. N |-> IF n = 0 THEN 0 ELSE f[n - 1] + numbers[n]]
<1>1. N \in Nat /\ 0 \in Int /\ \A n \in 1 .. N : numbers[n] \in Int
  OBVIOUS
<1>2. step \in [Nat \X Int -> Int]
  <2> HIDE DEF N
  <2>1. \A x \in Nat \X Int : x[2] + (IF x[1] \in 1 .. N THEN numbers[x[1]] ELSE 0) \in Int
    BY <1>1
  <2> QED
    BY <2>1
<1>3. PICK f : Goes(f, Int, 0, step, N)
  <2> HIDE DEF step, N
  <2> QED
    BY <1>1, <1>2, Defined, Zenon
<1> HIDE DEF N
<1>4. ASSUME NEW n \in 1 .. N PROVE f[n] = f[n - 1] + numbers[n]
  <2>1. n - 1 \in 0 .. N /\ n \in Nat
    BY <1>1
  <2>2. f[n - 1] \in Int
    BY <1>3, <2>1 DEF Goes
  <2>3. <<n, f[n - 1]>> \in Nat \X Int
    BY <2>1, <2>2
  <2>4. step[<<n, f[n - 1]>>] = f[n - 1] + numbers[n]
    BY <2>3
  <2> HIDE DEF step
  <2> QED
    BY <1>3, <2>4 DEF Goes
<1>5. Summing(f, numbers)
  BY <1>3, <1>4 DEF Summing, Goes, N
<1>6. Defines(f)
  <2>1. DOMAIN f = 0 .. N /\ f = [n \in 0 .. N |-> f[n]]
    BY <1>3 DEF Goes
  <2>2. ASSUME NEW n \in 0 .. N
        PROVE  f[n] = IF n = 0 THEN 0 ELSE f[n - 1] + numbers[n]
    <3>1. CASE n = 0
      BY <1>3, <3>1 DEF Goes
    <3>2. CASE n \in 1 .. N
      <4>1. n # 0
        BY <1>1, <3>2
      <4>2. f[n] = f[n - 1] + numbers[n]
        BY <1>4, <3>2, Zenon
      <4> QED
        BY <4>1, <4>2
    <3> QED
      BY <1>1, <3>1, <3>2
  <2> QED
    BY <2>1, <2>2
<1> DEFINE p == CHOOSE g : Defines(g)
<1>7. Defines(p)
  <2> HIDE DEF Defines
  <2> QED
    BY <1>6, Zenon
<1>8. p[N] = f[N]
  <2> HIDE DEF p
  <2>1. p[0] = f[0]
    BY <1>1, <1>6, <1>7
  <2>2. ASSUME NEW n \in 1 .. N, p[n - 1] = f[n - 1] PROVE p[n] = f[n]
    <3>1. n \in 0 .. N /\ n # 0
      BY <1>1
    <3>2. p[n] = p[n - 1] + numbers[n] /\ f[n] = f[n - 1] + numbers[n]
      BY <1>6, <1>7, <3>1
    <3> QED
      BY <2>2, <3>2
  <2>3. \A n \in 0 .. N : p[n] = f[n]
    <3> HIDE DEF N, Defines
    <3>1. N \in Nat
      BY <1>1
    <3>2. Alike(p, f, N)
      BY <2>1, <2>2 DEF Alike
    <3> QED
      BY <3>1, <3>2, Determined
  <2> QED
    BY <1>1, <2>3
<1>9. Total(numbers) = p[N]
  BY DEF Total, N
<1> QED
  <2> HIDE DEF p
  <2> QED
    BY <1>5, <1>8, <1>9 DEF N

\* The numbers are not all above their mean.
LEMMA SomeNotAbove ==
  ASSUME NEW numbers \in Seq(Int), numbers # <<>>
  PROVE  \E i \in DOMAIN numbers : Len(numbers) * numbers[i] - Total(numbers) <= 0
<1> DEFINE N == Len(numbers)
           T == Total(numbers)
<1>1. PICK sum : Summing(sum, numbers) /\ T = sum[N]
  BY Sums
<1>2. /\ N \in Nat /\ N >= 1 /\ DOMAIN numbers = 1 .. N
      /\ \A n \in 1 .. N : numbers[n] \in Int
      /\ \A n \in 0 .. N : sum[n] \in Int
  <2>1. N \in Nat /\ N >= 1 /\ DOMAIN numbers = 1 .. N /\ \A n \in 1 .. N : numbers[n] \in Int
    OBVIOUS
  <2>2. sum \in [0 .. N -> Int]
    BY <1>1 DEF Summing
  <2> HIDE DEF N
  <2> QED
    BY <2>1, <2>2
<1>3. T \in Int /\ sum[0] = 0 /\ \A n \in 1 .. N : sum[n] = sum[n - 1] + numbers[n]
  BY <1>1, <1>2 DEF Summing
<1> HIDE DEF N, T
<1> SUFFICES ASSUME \A i \in 1 .. N : ~ (N * numbers[i] - T <= 0) PROVE FALSE
  <2>1. DOMAIN numbers = 1 .. N
    BY <1>2
  <2> QED
    BY <2>1, Zenon DEF N, T
<1>4. ASSUME NEW i \in 1 .. N PROVE N * numbers[i] - T >= 1
  <2> DEFINE y == N * numbers[i]
  <2>1. y \in Int /\ ~ (y - T <= 0)
    BY <1>2
  <2> HIDE DEF y
  <2>2. y - T >= 1
    BY <1>3, <2>1
  <2> QED
    BY <2>2 DEF y
<1> DEFINE Good == {n \in Nat : n <= N => N * sum[n] >= n * T + n}
<1>5. 0 \in Good
  BY <1>2, <1>3
<1>6. ASSUME NEW n \in Nat, n \in Good PROVE n + 1 \in Good
  <2> SUFFICES ASSUME n + 1 <= N PROVE N * sum[n + 1] >= (n + 1) * T + (n + 1)
    OBVIOUS
  <2>1. /\ n + 1 \in 1 .. N /\ n \in 0 .. N /\ (n + 1) - 1 = n
    BY <1>2
  <2> DEFINE x == numbers[n + 1]
             s == sum[n]
  <2>2. sum[n + 1] = s + x /\ x \in Int /\ s \in Int /\ N * x - T >= 1
    BY <1>2, <1>3, <1>4, <2>1
  <2>3. N * s >= n * T + n
    BY <1>6, <2>1
  <2> HIDE DEF x, s
  <2>4. N * (s + x) = N * s + N * x /\ (n + 1) * T = n * T + T
    BY <1>2, <1>3, <2>2
  <2>5. N * s \in Int /\ N * x \in Int /\ n * T \in Int
    BY <1>2, <1>3, <2>2
  <2> QED
    BY <1>3, <2>2, <2>3, <2>4, <2>5
<1>7. N \in Good
  <2> HIDE DEF Good
  <2> QED
    BY <1>2, <1>5, <1>6, Induction
<1>8. N * T >= N * T + N
  BY <1>1, <1>2, <1>7 DEF N, T
<1> QED
  BY <1>2, <1>3, <1>8

\* Numbers that are summed one by one against counted ones: twice each is between
\* - a and b, and those that are not counted are zero.
LEMMA BoundedSum ==
  ASSUME NEW numbers \in Seq(Int), NEW places, places \subseteq DOMAIN numbers, NEW a \in Int, NEW b \in Int,
         \A i \in places : 2 * numbers[i] <= b /\ - 2 * numbers[i] <= a,
         \A i \in DOMAIN numbers \ places : numbers[i] = 0
  PROVE  /\ 2 * Total(numbers) <= Cardinality(places) * b
         /\ - 2 * Total(numbers) <= Cardinality(places) * a
         /\ Cardinality(places) \in Nat
<1> DEFINE N == Len(numbers)
           count(n) == Cardinality(places \cap (1 .. n))
<1>1. PICK sum : Summing(sum, numbers) /\ Total(numbers) = sum[N]
  BY Sums
<1>2. /\ N \in Nat /\ DOMAIN numbers = 1 .. N
      /\ \A n \in 1 .. N : numbers[n] \in Int
  OBVIOUS
<1>3. /\ \A n \in 0 .. N : sum[n] \in Int
      /\ sum[0] = 0 /\ \A n \in 1 .. N : sum[n] = sum[n - 1] + numbers[n]
  <2>1. sum \in [0 .. N -> Int] /\ sum[0] = 0 /\ \A n \in 1 .. N : sum[n] = sum[n - 1] + numbers[n]
    BY <1>1 DEF Summing
  <2> HIDE DEF N
  <2> QED
    BY <2>1
<1> HIDE DEF N
<1>4. ASSUME NEW n \in Nat PROVE IsFiniteSet(places \cap (1 .. n)) /\ count(n) \in Nat
  <2>1. IsFiniteSet(1 .. n)
    BY FS_Interval
  <2>2. IsFiniteSet(places \cap (1 .. n))
    BY <2>1, FS_Subset
  <2> QED
    BY <2>2, FS_CardinalityType
<1>5. count(0) = 0
  <2>1. places \cap (1 .. 0) = {}
    OBVIOUS
  <2> QED
    BY <2>1, FS_EmptySet
<1>6. ASSUME NEW n \in 0 .. N - 1
      PROVE  count(n + 1) = count(n) + (IF n + 1 \in places THEN 1 ELSE 0)
  <2>1. n \in Nat /\ n + 1 \notin places \cap (1 .. n)
    BY <1>2
  <2>2. CASE n + 1 \in places
    <3>1. places \cap (1 .. n + 1) = (places \cap (1 .. n)) \cup {n + 1}
      BY <1>2, <2>1, <2>2
    <3> QED
      BY <1>4, <2>1, <2>2, <3>1, FS_AddElement
  <2>3. CASE n + 1 \notin places
    <3>1. places \cap (1 .. n + 1) = places \cap (1 .. n)
      BY <1>2, <2>1, <2>3
    <3>2. count(n + 1) = count(n)
      BY <3>1, Zenon
    <3>3. count(n) \in Nat
      BY <1>4, <2>1
    <3> HIDE DEF count
    <3> QED
      BY <2>3, <3>2, <3>3
  <2> QED
    BY <2>2, <2>3
<1> HIDE DEF count
<1> DEFINE Good == {n \in Nat :
                  n <= N => 2 * sum[n] <= count(n) * b /\ - 2 * sum[n] <= count(n) * a}
<1>7. 0 \in Good
  BY <1>3, <1>5
<1>8. ASSUME NEW n \in Nat, n \in Good PROVE n + 1 \in Good
  <2> SUFFICES ASSUME n + 1 <= N
               PROVE  2 * sum[n + 1] <= count(n + 1) * b /\ - 2 * sum[n + 1] <= count(n + 1) * a
    OBVIOUS
  <2>1. n \in 0 .. N - 1 /\ n + 1 \in 1 .. N /\ n \in 0 .. N /\ (n + 1) - 1 = n
    BY <1>2
  <2> DEFINE x == numbers[n + 1]
             s == sum[n]
             c == count(n)
  <2>5. sum[n + 1] = s + x
    BY <1>3, <2>1
  <2>6. x \in Int /\ s \in Int
    BY <1>2, <1>3, <2>1
  <2>7. c \in Nat
    BY <1>4, <1>8
  <2>8. 2 * s <= c * b /\ - 2 * s <= c * a
    BY <1>2, <1>8, <2>1
  <2>2. sum[n + 1] = s + x /\ x \in Int /\ s \in Int /\ c \in Nat
         /\ 2 * s <= c * b /\ - 2 * s <= c * a
    BY <2>5, <2>6, <2>7, <2>8
  <2>3. CASE n + 1 \in places
    <3>1. 2 * x <= b /\ - 2 * x <= a /\ count(n + 1) = c + 1
      BY <1>6, <2>1, <2>3
    <3> DEFINE product == c * b
               other == c * a
    <3> HIDE DEF x, s, c
    <3>2. /\ (c + 1) * b = product + b /\ product \in Int
          /\ (c + 1) * a = other + a /\ other \in Int
      BY <2>2
    <3>3. 2 * s <= product /\ - 2 * s <= other
      BY <2>2
    <3> HIDE DEF product, other
    <3>4. 2 * (s + x) <= product + b /\ - 2 * (s + x) <= other + a
      BY <2>2, <3>1, <3>2, <3>3
    <3>5. sum[n + 1] = s + x /\ count(n + 1) = c + 1
      BY <2>2, <3>1
    <3> QED
      BY <3>2, <3>4, <3>5
  <2>4. CASE n + 1 \notin places
    <3>1. x = 0 /\ count(n + 1) = c
      <4>1. n + 1 \in DOMAIN numbers
        BY <1>2, <2>1
      <4>2. count(n + 1) = c + 0
        BY <1>6, <2>1, <2>4
      <4> QED
        BY <2>2, <2>4, <4>1, <4>2
    <3> HIDE DEF x, s, c
    <3> QED
      BY <2>2, <3>1
  <2> QED
    BY <2>3, <2>4
<1>9. N \in Good
  <2> HIDE DEF Good
  <2> QED
    BY <1>2, <1>7, <1>8, Induction
<1>10. count(N) = Cardinality(places) /\ count(N) \in Nat
  <2>1. places \cap (1 .. N) = places
    BY <1>2
  <2> QED
    BY <1>2, <1>4, <2>1 DEF count
<1>11. Total(numbers) = sum[N] /\ N \in Nat /\ N <= N
  BY <1>1, <1>2 DEF N
<1> HIDE DEF N, count
<1> QED
  BY <1>2, <1>9, <1>10, <1>11

\* The largest multiple below a number.
LEMMA Multiple ==
  ASSUME NEW t \in Int, NEW d \in Nat \ {0}
  PROVE  /\ t \div d \in Int
         /\ d * (t \div d) <= t
         /\ t < d * (t \div d) + d
OBVIOUS

\* The times of a point.
LEMMA IntervalType ==
  ASSUME NEW p \in Point, MaxDelay \in Nat, Resolution \in Nat \ {0}
  PROVE  /\ Interval(p) \in Int
         /\ Interval(p) <= 2 * MaxDelay + Resolution
         /\ Error(p) \in Int
         /\ 2 * Error(p) <= Interval(p)
         /\ - 2 * Error(p) <= Interval(p) + 2 * Resolution - 1
<1>. DEFINE sent == p.at + p.out
            trip == p.at + p.out + p.back
            half == Interval(p) \div 2
<1>1. p.at \in 0 .. Resolution - 1 /\ p.out \in 0 .. MaxDelay /\ p.back \in 0 .. MaxDelay
  BY DEF Point, Phase, Delay
<1>2. sent \in Nat /\ trip \in Nat /\ sent <= trip /\ trip <= 2 * MaxDelay + Resolution
  BY <1>1
<1>3. Interval(p) = Resolution * (trip \div Resolution) /\ Error(p) = half - sent
  BY Zenon DEF Interval, Error
<1>. HIDE DEF sent, trip
<1>4. trip \div Resolution \in Int
  BY <1>2, Multiple
<1>5. Resolution * (trip \div Resolution) \in Int
  BY <1>4
<1>6. /\ Interval(p) \in Int
      /\ Interval(p) <= trip
      /\ trip < Interval(p) + Resolution
  BY <1>2, <1>3, <1>5, Multiple
<1>7. half \in Int /\ 2 * half <= Interval(p) /\ Interval(p) <= 2 * half + 1
  BY <1>6
<1>. HIDE DEF half
<1> QED
  BY <1>2, <1>3, <1>6, <1>7

\* A sum of integers is one.
LEMMA TotalType ==
  ASSUME NEW numbers \in Seq(Int)
  PROVE  Total(numbers) \in Int
<1> DEFINE N == Len(numbers)
<1>1. PICK sum : Summing(sum, numbers) /\ Total(numbers) = sum[N]
  BY Sums
<1>2. N \in Nat /\ N \in 0 .. N
  OBVIOUS
<1>3. sum \in [0 .. N -> Int]
  BY <1>1 DEF Summing
<1> HIDE DEF N
<1> QED
  BY <1>1, <1>2, <1>3

\* The sequences that finishCurrent sums.
LEMMA SumTypes ==
  ASSUME NEW pts \in Seq(Point), MaxDelay \in Nat, Resolution \in Nat \ {0}
  PROVE  /\ Intervals(pts) \in Seq(Int) /\ DOMAIN Intervals(pts) = DOMAIN pts
         /\ Len(Intervals(pts)) = Len(pts)
         /\ Squares(pts) \in Seq(Int)
         /\ KeptErrors(pts) \in Seq(Int) /\ DOMAIN KeptErrors(pts) = DOMAIN pts
<1> DEFINE n == Len(pts)
<1>1. n \in Nat /\ DOMAIN pts = 1 .. n
  OBVIOUS
<1>2. ASSUME NEW i \in 1 .. n PROVE Interval(pts[i]) \in Int /\ Error(pts[i]) \in Int
  <2>1. pts[i] \in Point
    BY <1>1
  <2> QED
    BY <2>1, IntervalType
<1> HIDE DEF n
<1>3. Intervals(pts) = [i \in 1 .. n |-> Interval(pts[i])]
  BY <1>1 DEF Intervals
<1>4. Squares(pts) = [i \in 1 .. n |-> Interval(pts[i]) * Interval(pts[i])]
  BY <1>1 DEF Squares
<1>5. KeptErrors(pts) = [i \in 1 .. n |-> IF i \in Kept(pts) THEN Error(pts[i]) ELSE 0]
  BY <1>1 DEF KeptErrors
<1>6. Intervals(pts) \in [1 .. n -> Int]
  BY <1>2, <1>3
<1>7. \A i \in 1 .. n : Interval(pts[i]) * Interval(pts[i]) \in Int
  BY <1>2
<1>8. Squares(pts) \in [1 .. n -> Int]
  BY <1>4, <1>7
<1>9. \A i \in 1 .. n : (IF i \in Kept(pts) THEN Error(pts[i]) ELSE 0) \in Int
  BY <1>2
<1>10. KeptErrors(pts) \in [1 .. n -> Int]
  BY <1>5, <1>9
<1>11. \A f \in [1 .. n -> Int] : f \in Seq(Int) /\ Len(f) = n /\ DOMAIN f = 1 .. n
  BY <1>1
<1>12. n = Len(pts)
  BY DEF n
<1> QED
  BY <1>1, <1>6, <1>8, <1>10, <1>11, <1>12

\* Squares and products of numbers in order.
LEMMA Squared ==
  ASSUME NEW x \in Int, NEW y \in Int, 0 < x, x <= y
  PROVE  x * x <= y * y
<1>1. x * x <= x * y
  OBVIOUS
<1>2. x * y <= y * y
  OBVIOUS
<1> QED
  BY <1>1, <1>2

LEMMA Scaled ==
  ASSUME NEW a \in Int, NEW b \in Int, a <= b, NEW m \in Nat
  PROVE  a * m <= b * m
<1>1. (b - a) * m >= 0
  OBVIOUS
<1>2. (b - a) * m = b * m - a * m
  OBVIOUS
<1>3. a * m \in Int /\ b * m \in Int
  OBVIOUS
<1> QED
  BY <1>1, <1>2, <1>3

\* A longer trip than an excessive one is excessive.
LEMMA LongerExcessive ==
  ASSUME NEW pts \in Seq(Point), NEW i \in DOMAIN pts, NEW l \in DOMAIN pts,
         Interval(pts[i]) <= Interval(pts[l]), Excessive(pts[i], pts),
         MaxDelay \in Nat, Resolution \in Nat \ {0}
  PROVE  Excessive(pts[l], pts)
<1> DEFINE n == Len(pts)
           sum == Total(Intervals(pts))
           squares == Total(Squares(pts))
           var == n * (n * squares - sum * sum)
           a == Interval(pts[i])
           c == Interval(pts[l])
           x == n * a - sum
           y == n * c - sum
<1>1. n \in Nat /\ n >= 1
  OBVIOUS
<1>2. a \in Int /\ c \in Int /\ a <= c
  BY IntervalType
<1>3. sum \in Int /\ squares \in Int
  BY SumTypes, TotalType
<1>4. x > 0 /\ (x * x) * (n - 1) > var
  BY Zenon DEF Excessive
<1> SUFFICES y > 0 /\ (y * y) * (n - 1) > var
  BY Zenon DEF Excessive
<1> HIDE DEF n, sum, squares, a, c
<1>5. sum * sum \in Int /\ n * squares \in Int
  BY <1>1, <1>3
<1>6. var \in Int
  BY <1>1, <1>5
<1> HIDE DEF var
<1>7. n * a \in Int /\ n * c \in Int /\ a * n <= c * n
  BY <1>1, <1>2, Scaled
<1>8. a * n = n * a /\ c * n = n * c
  BY <1>1, <1>2
<1>9. x \in Int /\ y \in Int /\ 0 < x /\ x <= y
  BY <1>3, <1>4, <1>7, <1>8
<1> HIDE DEF x, y
<1>10. x * x \in Int /\ y * y \in Int /\ x * x <= y * y
  BY <1>9, Squared
<1>11. n - 1 \in Nat
  BY <1>1
<1>12. (x * x) * (n - 1) <= (y * y) * (n - 1)
  BY <1>10, <1>11, Scaled
<1>13. (x * x) * (n - 1) \in Int /\ (y * y) * (n - 1) \in Int
  BY <1>10, <1>11
<1> QED
  BY <1>4, <1>6, <1>9, <1>12, <1>13

\* Some point is kept.
LEMMA SomeKept ==
  ASSUME NEW pts \in Seq(Point), pts # <<>>, MaxDelay \in Nat, Resolution \in Nat \ {0}
  PROVE  Kept(pts) # {}
<1> DEFINE numbers == Intervals(pts)
<1>1. numbers \in Seq(Int) /\ numbers # <<>> /\ DOMAIN numbers = DOMAIN pts
      /\ Len(numbers) = Len(pts)
  BY SumTypes
<1>2. \A i \in DOMAIN pts : numbers[i] = Interval(pts[i]) /\ Interval(pts[i]) \in Int
  BY IntervalType DEF Intervals
<1> HIDE DEF numbers
<1>3. PICK i \in DOMAIN pts : Len(pts) * numbers[i] - Total(numbers) <= 0
  BY <1>1, SomeNotAbove
<1>4. Len(pts) * Interval(pts[i]) \in Int /\ Total(numbers) \in Int
  BY <1>1, <1>2, TotalType
<1>5. ~ (Len(pts) * Interval(pts[i]) - Total(numbers) > 0)
  BY <1>2, <1>3, <1>4
<1>6. ~ Excessive(pts[i], pts)
  BY <1>5, Zenon DEF Excessive, numbers
<1> QED
  BY <1>6 DEF Kept

\* What leaves less room is larger.
LEMMA LessRoom ==
  ASSUME NEW x \in Int, NEW y \in Int, NEW most \in Int, most - y <= most - x
  PROVE  x <= y
OBVIOUS

\* Of the places kept, one has the longest trip.
LEMMA LongestKept ==
  ASSUME NEW pts \in Seq(Point), pts # <<>>, MaxDelay \in Nat, Resolution \in Nat \ {0}
  PROVE  \E l \in Kept(pts) : \A i \in Kept(pts) : Interval(pts[i]) <= Interval(pts[l])
<1> DEFINE room(i) == 2 * MaxDelay + Resolution - Interval(pts[i])
           T == {room(i) : i \in Kept(pts)}
<1>1. \A i \in Kept(pts) : Interval(pts[i]) \in Int /\ room(i) \in Nat
  <2> TAKE i \in Kept(pts)
  <2> DEFINE interval == Interval(pts[i])
  <2>1. pts[i] \in Point
    BY DEF Kept
  <2>2. interval \in Int /\ interval <= 2 * MaxDelay + Resolution
    BY <2>1, IntervalType
  <2> HIDE DEF interval
  <2>3. 2 * MaxDelay + Resolution - interval \in Nat
    BY <2>2
  <2> QED
    BY <2>2, <2>3 DEF interval
<1>2. T \subseteq Nat /\ T # {}
  BY <1>1, SomeKept
<1>3. PICK least \in T : \A m \in T : least <= m
  <2> HIDE DEF T
  <2> QED
    BY <1>2, Least
<1>4. PICK l \in Kept(pts) : least = room(l)
  BY <1>3
<1>5. \A i \in Kept(pts) : room(i) \in T
  OBVIOUS
<1>6. \A i \in Kept(pts) : room(l) <= room(i)
  BY <1>3, <1>4, <1>5, Zenon
<1>7. 2 * MaxDelay + Resolution \in Int
  OBVIOUS
<1>8. ASSUME NEW i \in Kept(pts) PROVE Interval(pts[i]) <= Interval(pts[l])
  <2>1. 2 * MaxDelay + Resolution - Interval(pts[l])
          <= 2 * MaxDelay + Resolution - Interval(pts[i])
    BY <1>6
  <2>2. Interval(pts[i]) \in Int /\ Interval(pts[l]) \in Int
    BY <1>1
  <2> HIDE DEF room, T
  <2> QED
    BY <1>7, <2>1, <2>2, LessRoom
<1> QED
  BY <1>8

\* The mean of numbers whose sum is known.
LEMMA MeanBound ==
  ASSUME NEW sum \in Int, NEW n \in Nat \ {0}, NEW a \in Int, NEW b \in Int,
         2 * sum <= n * b, - 2 * sum <= n * a
  PROVE  2 * (sum \div n) <= b /\ - 2 * (sum \div n) <= a + 1
<1>. DEFINE mean == sum \div n
            below == n * mean
<1>1. mean \in Int /\ below <= sum /\ sum < below + n
  BY Multiple
<1>. HIDE DEF mean
<1>2. below \in Int /\ n * a \in Int /\ n * b \in Int
  BY <1>1
<1>3. 2 * below <= n * b /\ - 2 * below < n * a + 2 * n
  <2>. HIDE DEF below
  <2>. QED  BY <1>1, <1>2
<1>4. 2 * below = n * (2 * mean) /\ - 2 * below = n * (- 2 * mean) /\ n * a + 2 * n = n * (a + 2)
  BY <1>1
<1>5. ASSUME ~ (2 * mean <= b) PROVE FALSE
  <2>1. b + 1 <= 2 * mean /\ b + 1 \in Int /\ 2 * mean \in Int
    BY <1>1, <1>5
  <2>2. (b + 1) * n <= (2 * mean) * n
    BY <2>1, Scaled
  <2>3. (b + 1) * n = n * b + n /\ (2 * mean) * n = 2 * below
    BY <1>1, <1>4
  <2>. HIDE DEF below
  <2>. QED  BY <1>2, <1>3, <2>2, <2>3
<1>6. ASSUME ~ (- 2 * mean <= a + 1) PROVE FALSE
  <2>1. a + 2 <= - 2 * mean /\ a + 2 \in Int /\ - 2 * mean \in Int
    BY <1>1, <1>6
  <2>2. (a + 2) * n <= (- 2 * mean) * n
    BY <2>1, Scaled
  <2>3. (a + 2) * n = n * a + 2 * n /\ (- 2 * mean) * n = - 2 * below
    BY <1>1, <1>4
  <2>. HIDE DEF below
  <2>. QED  BY <1>2, <1>3, <2>2, <2>3
<1>. QED  BY <1>5, <1>6 DEF mean

\* What finishCurrent stores, for any points that it is given.
LEMMA SoundEstimate ==
  ASSUME NEW pts \in Seq(Point), pts # <<>>, MaxDelay \in Nat, Resolution \in Nat \ {0}
  PROVE  \E longest \in Kept(pts) :
           /\ \A i \in Kept(pts) : Interval(pts[i]) <= Interval(pts[longest])
           /\ 2 * MeanError(pts) <= Interval(pts[longest])
           /\ - 2 * MeanError(pts) <= Interval(pts[longest]) + 2 * Resolution
           /\ \A i \in DOMAIN pts : Interval(pts[i]) < Interval(pts[longest]) => i \in Kept(pts)
<1>1. PICK l \in Kept(pts) : \A i \in Kept(pts) : Interval(pts[i]) <= Interval(pts[l])
  BY LongestKept
<1> DEFINE numbers == KeptErrors(pts)
           places == Kept(pts)
           b == Interval(pts[l])
           a == b + 2 * Resolution - 1
<1>2. places \subseteq DOMAIN pts
  BY DEF Kept
<1>3. \A i \in DOMAIN pts : /\ Interval(pts[i]) \in Int /\ Error(pts[i]) \in Int
                            /\ 2 * Error(pts[i]) <= Interval(pts[i])
                            /\ - 2 * Error(pts[i]) <= Interval(pts[i]) + 2 * Resolution - 1
  BY IntervalType
<1>4. numbers \in Seq(Int) /\ DOMAIN numbers = DOMAIN pts
  BY SumTypes
<1>5. b \in Int /\ a \in Int
  BY <1>1, <1>2, <1>3
<1>6. ASSUME NEW i \in places PROVE 2 * numbers[i] <= b /\ - 2 * numbers[i] <= a
  <2>1. i \in DOMAIN pts /\ numbers[i] = Error(pts[i])
    BY <1>2, <1>6 DEF KeptErrors
  <2>2. Interval(pts[i]) <= b
    BY <1>1
  <2> HIDE DEF numbers, b
  <2> QED
    BY <1>3, <1>5, <2>1, <2>2
<1>7. ASSUME NEW i \in DOMAIN pts \ places PROVE numbers[i] = 0
  BY <1>7 DEF KeptErrors
<1>8. /\ 2 * Total(numbers) <= Cardinality(places) * b
      /\ - 2 * Total(numbers) <= Cardinality(places) * a
      /\ Cardinality(places) \in Nat
  <2>1. places \subseteq DOMAIN numbers
    BY <1>2, <1>4
  <2>2. \A i \in places : 2 * numbers[i] <= b /\ - 2 * numbers[i] <= a
    BY <1>6
  <2>3. \A i \in DOMAIN numbers \ places : numbers[i] = 0
    BY <1>4, <1>7
  <2> HIDE DEF numbers, places, a, b
  <2> QED
    BY <1>4, <1>5, <2>1, <2>2, <2>3, BoundedSum, Zenon
<1>9. Cardinality(places) # 0
  <2>1. IsFiniteSet(DOMAIN pts)
    <3>1. DOMAIN pts = 1 .. Len(pts) /\ Len(pts) \in Nat
      OBVIOUS
    <3> QED
      BY <3>1, FS_Interval
  <2>2. IsFiniteSet(places) /\ places # {}
    BY <1>1, <1>2, <2>1, FS_Subset
  <2> HIDE DEF places
  <2> QED
    BY <2>2, FS_EmptySet
<1>10. /\ 2 * (Total(numbers) \div Cardinality(places)) <= b
       /\ - 2 * (Total(numbers) \div Cardinality(places)) <= a + 1
  <2>1. Total(numbers) \in Int
    BY <1>4, TotalType
  <2> HIDE DEF numbers, places, a, b
  <2> QED
    BY <1>5, <1>8, <1>9, <2>1, MeanBound
<1>11. MeanError(pts) = Total(numbers) \div Cardinality(places)
  BY DEF MeanError
<1>12. a + 1 = b + 2 * Resolution
  <2> HIDE DEF b
  <2> QED
    BY <1>5
<1>13. ASSUME NEW i \in DOMAIN pts, Interval(pts[i]) < Interval(pts[l]), i \notin Kept(pts)
      PROVE  FALSE
  <2>1. Excessive(pts[i], pts) /\ ~ Excessive(pts[l], pts) /\ l \in DOMAIN pts
    BY <1>1, <1>13 DEF Kept
  <2>2. Interval(pts[i]) <= Interval(pts[l])
    BY <1>3, <1>13, <2>1
  <2> QED
    BY <2>1, <2>2, LongerExcessive
<1>14. 2 * MeanError(pts) <= b /\ - 2 * MeanError(pts) <= b + 2 * Resolution
  <2> HIDE DEF numbers, places, a, b
  <2> QED
    BY <1>10, <1>11, <1>12
<1> QED
  BY <1>1, <1>13, <1>14

(***************************************************************************)
(* finishCurrent never divides by zero, whatever the network did to the    *)
(* round trips and however coarse the Center's clock is, and the time zero *)
(* that it stores is late by at most half the longest trip among the       *)
(* points it kept, and early by at most that and one tick of the clock.    *)
(***************************************************************************)
THEOREM EstimatesSound == Spec => []EstimateSound
<1>1. TypeOK => EstimateSound
  <2> SUFFICES ASSUME TypeOK, points # <<>> PROVE EstimateSound
    BY DEF EstimateSound
  <2>1. points \in Seq(Point) /\ MaxDelay \in Nat /\ Resolution \in Nat \ {0}
    BY TimeSyncAssumption DEF TypeOK
  <2> QED
    BY <2>1, SoundEstimate DEF EstimateSound
<1> QED
  BY <1>1, TypeCorrect, PTL
=============================================================================
