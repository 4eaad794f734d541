----------------------- MODULE HistoryConnection_proofs -----------------------
(***************************************************************************)
(* Proofs about HistoryConnection for any number of clients, rows and      *)
(* regimes.                                                                *)
(***************************************************************************)
EXTENDS HistoryConnection, FiniteSetTheorems, TLAPS

(***************************************************************************)
(* Automatic commit leaves nothing uncommitted; manual commit is explained *)
(* by a request that is being served or by an exception; every request is  *)
(* at a place of getRefinedHistory.                                        *)
(***************************************************************************)
IInv ==
  /\ auto \in BOOLEAN
  /\ auto => txn = "none" /\ table = disk
  /\ ~ auto => left # {} \/ \E r \in Readers : Reading(r)
  /\ pc = [r \in Readers |-> pc[r]]

(***************************************************************************)
(* A step of any thread keeps the invariant.                               *)
(***************************************************************************)
LEMMA NextIInv == IInv /\ [Next]_vars => IInv'
<1>. SUFFICES ASSUME IInv, [Next]_vars PROVE IInv'
  OBVIOUS
<1>. USE DEF IInv, Become, rows
<1>0. ASSUME NEW r \in Readers, NEW place, Goto(r, place)
      PROVE  /\ pc'[r] = place
             /\ \A q \in Readers \ {r} : pc'[q] = pc[q]
             /\ DOMAIN pc' = Readers
             /\ pc' = [q \in Readers |-> pc'[q]]
  BY <1>0 DEF Goto
<1>1. ASSUME NEW t \in Times, Insert(t) PROVE IInv'
  BY <1>1 DEF Insert, Succeeds, Fails, reader, Reading
<1>2. ASSUME NEW t \in Times, DropChunks(t) PROVE IInv'
  BY <1>2 DEF DropChunks, Succeeds, Fails, reader, Reading
<1>3. CASE Crash
  BY <1>3 DEF Crash
\* A statement of a reader that goes on to a place of the same kind.
<1>4. ASSUME NEW r \in Readers, NEW place,
             Goto(r, place),
             Reading(r) => place \in {"count", "fetch", "commit", "auto"},
             left \subseteq left',
             \/ \E new : Succeeds(new)
             \/ Fails
             \/ UNCHANGED <<auto, txn, rows>>
      PROVE  IInv'
  <2>1. \A q \in Readers : Reading(q) => Reading(q)'
    BY <1>0, <1>4 DEF Reading
  <2>2. auto' = auto /\ (auto => txn' = "none" /\ table' = disk')
    BY <1>4 DEF Succeeds, Fails
  <2>. QED  BY <1>0, <1>4, <2>1, <2>2
\* The end of a request by an exception.
<1>5. ASSUME NEW r \in Readers, NEW exception,
             Escape(r, exception),
             \/ \E new : Succeeds(new)
             \/ Fails
      PROVE  IInv'
  <2>1. left' # {}
    BY <1>5 DEF Escape
  <2>2. auto' = auto /\ (auto => txn' = "none" /\ table' = disk')
    BY <1>5 DEF Succeeds, Fails
  <2>. QED  BY <1>0, <1>5, <2>1, <2>2 DEF Escape, Leave
<1>6. ASSUME NEW r \in Readers, Request(r) PROVE IInv'
  BY <1>4, <1>6 DEF Request, Reading
<1>7. ASSUME NEW r \in Readers, Refine(r) PROVE IInv'
  <2>1. ~ Reading(r) /\ left' = left
    BY <1>7 DEF Refine, Reading
  <2>2. CASE pc' = pc
    <3>1. auto' = auto /\ (auto => txn' = "none" /\ table' = disk')
      BY <1>7 DEF Refine, Succeeds, Fails
    <3>. QED  BY <2>1, <2>2, <3>1 DEF Reading
  <2>3. CASE Goto(r, "manual")
    <3>1. \/ \E new : Succeeds(new)
          \/ Fails
          \/ UNCHANGED <<auto, txn, rows>>
      BY <1>7 DEF Refine
    <3>. QED  BY <1>4, <2>1, <2>3, <3>1
  <2>. QED  BY <1>7, <2>2, <2>3 DEF Refine
<1>8. ASSUME NEW r \in Readers, SetManual(r) PROVE IInv'
  <2>1. Reading(r)'
    BY <1>0, <1>8 DEF SetManual, Reading
  <2>. QED  BY <1>0, <1>8, <2>1 DEF SetManual
<1>9. ASSUME NEW r \in Readers, Count(r) PROVE IInv'
  <2>1. CASE Readable(regime[r])
    <3>1. Succeeds(table) /\ Goto(r, "fetch") /\ left' = left
      BY <1>9, <2>1 DEF Count
    <3>. QED  BY <1>4, <3>1
  <2>2. CASE ~ Readable(regime[r])
    BY <1>5, <1>9, <2>2 DEF Count
  <2>. QED  BY <2>1, <2>2
<1>10. ASSUME NEW r \in Readers, Fetch(r) PROVE IInv'
  <2>1. CASE Readable(regime[r]) /\ Cardinality(RowsOf(regime[r])) > counted[r]
    BY <1>5, <1>10, <2>1 DEF Fetch
  <2>2. CASE Readable(regime[r]) /\ ~ (Cardinality(RowsOf(regime[r])) > counted[r])
    <3>1. Succeeds(table) /\ Goto(r, "commit") /\ left' = left
      BY <1>10, <2>2 DEF Fetch
    <3>. QED  BY <1>4, <3>1
  <2>3. CASE ~ Readable(regime[r])
    <3>1. Fails /\ Goto(r, "auto") /\ left' = left
      BY <1>10, <2>3 DEF Fetch
    <3>. QED  BY <1>4, <3>1
  <2>. QED  BY <2>1, <2>2, <2>3
<1>11. ASSUME NEW r \in Readers, Commit(r) PROVE IInv'
  <2>1. auto' = auto /\ left' = left /\ Goto(r, "auto")
    BY <1>11 DEF Commit
  <2>2. \A q \in Readers : Reading(q) => Reading(q)'
    BY <1>0, <2>1 DEF Reading
  <2>3. auto => txn' = "none" /\ table' = disk'
    BY <1>11 DEF Commit
  <2>. QED  BY <1>0, <2>1, <2>2, <2>3
<1>12. ASSUME NEW r \in Readers, SetAuto(r) PROVE IInv'
  <2>1. txn' = "none" /\ table' = disk'
    BY <1>12 DEF SetAuto, EndTransaction
  <2>2. auto' = TRUE \/ (auto' = auto /\ left' # {})
    BY <1>12 DEF SetAuto
  <2>. QED  BY <1>0, <1>12, <2>1, <2>2 DEF SetAuto, Leave
<1>13. CASE UNCHANGED vars
  BY <1>13 DEF vars, Reading
<1>. QED  BY <1>1, <1>2, <1>3, <1>6, <1>7, <1>8, <1>9, <1>10, <1>11, <1>12, <1>13
          DEF Next, Step

(***************************************************************************)
(* Once nobody reads, and unless one of the named exceptions happened, the *)
(* connection commits automatically and every accepted row is on disk.     *)
(***************************************************************************)
THEOREM Restored == Spec => []ConnectionRestored
<1>1. Init => IInv
  BY DEF Init, IInv
<1>2. IInv => ConnectionRestored
  BY DEF IInv, ConnectionRestored
<1>. QED  BY <1>1, <1>2, NextIInv, PTL DEF Spec

-----------------------------------------------------------------------------
(***************************************************************************)
(* A regime has no more rows than the table: each is the bucket of one.    *)
(***************************************************************************)
LEMMA RowsBounded ==
  ASSUME table \subseteq Times, NEW n \in 1 .. Coarsest
  PROVE  Cardinality(RowsOf(n)) \in 0 .. MaxTime
<1>. DEFINE f == [t \in table |-> t \div Width[n]]
<1>. USE HistoryAssumption
<1>1. IsFiniteSet(Times) /\ Cardinality(Times) = MaxTime
  <2>1. MaxTime \in Nat
    OBVIOUS
  <2>2. /\ IsFiniteSet(1 .. MaxTime)
        /\ Cardinality(1 .. MaxTime) = IF 1 > MaxTime THEN 0 ELSE MaxTime - 1 + 1
    <3>1. 1 \in Int /\ MaxTime \in Int
      BY <2>1
    <3>. HIDE HistoryAssumption
    <3>. QED  BY <3>1, FS_Interval, Zenon
  <2>3. Cardinality(1 .. MaxTime) = MaxTime
    BY <2>1, <2>2
  <2>. QED  BY <2>2, <2>3 DEF Times
<1>2. IsFiniteSet(table) /\ Cardinality(table) <= MaxTime
  BY <1>1, FS_Subset
<1>3. f \in Surjection(table, RowsOf(n))
  BY DEF RowsOf, Surjection
<1>4. Cardinality(RowsOf(n)) <= Cardinality(table) /\ IsFiniteSet(RowsOf(n))
  BY <1>2, <1>3, FS_Surjection
<1>. QED  BY <1>2, <1>4, FS_CardinalityType

(***************************************************************************)
(* The types are kept by every step.                                       *)
(***************************************************************************)
LEMMA NextTypeOK == TypeOK /\ [Next]_vars => TypeOK'
<1>. SUFFICES ASSUME TypeOK, [Next]_vars PROVE TypeOK'
  OBVIOUS
<1>. USE HistoryAssumption DEF TypeOK, rows
<1>1. ASSUME NEW new \in SUBSET Times, Succeeds(new) \/ Fails
      PROVE  /\ txn' \in {"none", "open", "aborted"} /\ (auto' => txn' = "none")
             /\ table' \subseteq Times /\ disk' \subseteq Times /\ auto' = auto
             /\ gone' \subseteq Times \ table' /\ undone' \subseteq Times \ table'
  BY <1>1 DEF Succeeds, Fails, Become
<1>2. ASSUME NEW r \in Readers, Leave(r)
      PROVE  /\ pc' \in [Readers -> {"idle", "refine", "manual", "count", "fetch", "commit", "auto"}]
             /\ regime' \in [Readers -> 1 .. Coarsest]
             /\ counted' \in [Readers -> 0 .. MaxTime]
  BY <1>2 DEF Leave, Goto
<1>3. ASSUME NEW r \in Readers, NEW place \in {"refine", "manual", "count", "fetch", "commit", "auto"},
             Goto(r, place)
      PROVE  pc' \in [Readers -> {"idle", "refine", "manual", "count", "fetch", "commit", "auto"}]
  BY <1>3 DEF Goto
<1>4. ASSUME NEW t \in Times, Insert(t) PROVE TypeOK'
  <2>1. UNCHANGED <<views, pc, regime, counted, left>>
    BY <1>4 DEF Insert, reader
  <2>2. Succeeds(table \cup {t}) \/ Fails
    BY <1>4 DEF Insert
  <2>. QED  BY <1>1, <2>1, <2>2
<1>5. ASSUME NEW t \in Times, DropChunks(t) PROVE TypeOK'
  <2>1. UNCHANGED <<views, pc, regime, counted, left>>
    BY <1>5 DEF DropChunks, reader
  <2>2. Succeeds({u \in table : u > t}) \/ Fails
    BY <1>5 DEF DropChunks
  <2>. QED  BY <1>1, <2>1, <2>2
<1>6. CASE Crash
  BY <1>6 DEF Crash, Become
<1>7. ASSUME NEW r \in Readers, Request(r) PROVE TypeOK'
  BY <1>3, <1>7 DEF Request
<1>8. ASSUME NEW r \in Readers, Refine(r) PROVE TypeOK'
  <2>1. views' = views /\ counted' = counted /\ left' = left
    BY <1>8 DEF Refine
  <2>2. Succeeds(table) \/ Fails \/ UNCHANGED <<auto, txn, rows>>
    BY <1>8 DEF Refine
  <2>3. pc' = pc \/ Goto(r, "manual")
    BY <1>8 DEF Refine
  <2>4. regime' \in [Readers -> 1 .. Coarsest]
    <3>1. CASE regime' = regime
      BY <3>1
    <3>2. CASE regime[r] # Coarsest /\ regime' = [regime EXCEPT ![r] = regime[r] + 1]
      <4>1. regime[r] + 1 \in 1 .. Coarsest
        BY <3>2
      <4>. QED  BY <3>2, <4>1
    <3>3. \/ regime' = regime
          \/ regime[r] # Coarsest /\ regime' = [regime EXCEPT ![r] = regime[r] + 1]
      <4>. HIDE DEF TypeOK
      <4>. QED  BY <1>8 DEF Refine
    <3>. QED  BY <3>1, <3>2, <3>3
  <2>5. /\ txn' \in {"none", "open", "aborted"} /\ (auto' => txn' = "none")
        /\ table' \subseteq Times /\ disk' \subseteq Times /\ auto' \in BOOLEAN
        /\ gone' \subseteq Times \ table' /\ undone' \subseteq Times \ table'
    <3>1. CASE UNCHANGED <<auto, txn, rows>>
      BY <3>1
    <3>2. table \in SUBSET Times
      OBVIOUS
    <3>3. CASE Succeeds(table) \/ Fails
      BY <1>1, <3>2, <3>3
    <3>. QED  BY <2>2, <3>1, <3>3
  <2>6. pc' \in [Readers -> {"idle", "refine", "manual", "count", "fetch", "commit", "auto"}]
    BY <1>3, <2>3
  <2>. QED  BY <2>1, <2>4, <2>5, <2>6
<1>9. ASSUME NEW r \in Readers, SetManual(r) PROVE TypeOK'
  BY <1>3, <1>9 DEF SetManual
<1>10. ASSUME NEW r \in Readers, Count(r) PROVE TypeOK'
  <2>1. CASE Readable(regime[r])
    <3>1. Cardinality(RowsOf(regime[r])) \in 0 .. MaxTime
      BY RowsBounded
    <3>2. /\ counted' = [counted EXCEPT ![r] = Cardinality(RowsOf(regime[r]))]
          /\ Succeeds(table) /\ Goto(r, "fetch") /\ UNCHANGED <<regime, left, views>>
      BY <1>10, <2>1 DEF Count
    <3>3. counted' \in [Readers -> 0 .. MaxTime]
      BY <3>1, <3>2
    <3>. QED  BY <1>1, <1>3, <3>2, <3>3
  <2>2. CASE ~ Readable(regime[r])
    BY <1>1, <1>2, <1>10, <2>2 DEF Count, Escape
  <2>. QED  BY <2>1, <2>2
<1>11. ASSUME NEW r \in Readers, Fetch(r) PROVE TypeOK'
  <2>1. views' = views /\ (Succeeds(table) \/ Fails)
    BY <1>11 DEF Fetch
  <2>2. \/ Escape(r, "overflow")
        \/ /\ Goto(r, "commit") \/ Goto(r, "auto")
           /\ UNCHANGED <<regime, counted, left>>
    BY <1>11 DEF Fetch
  <2>. QED  BY <1>1, <1>2, <1>3, <2>1, <2>2 DEF Escape
<1>12. ASSUME NEW r \in Readers, Commit(r) PROVE TypeOK'
  <2>1. UNCHANGED <<auto, views, regime, counted, left>> /\ Goto(r, "auto")
    BY <1>12 DEF Commit
  <2>. QED  BY <1>3, <1>12, <2>1 DEF Commit, EndTransaction, Become
<1>13. ASSUME NEW r \in Readers, SetAuto(r) PROVE TypeOK'
  <2>1. /\ txn' = "none" /\ table' \subseteq Times /\ disk' \subseteq Times
        /\ gone' \subseteq Times \ table' /\ undone' \subseteq Times \ table'
        /\ auto' \in BOOLEAN /\ left' \subseteq {"overflow", "negative", "refused"}
    BY <1>13 DEF SetAuto, EndTransaction, Become
  <2>2. Leave(r) /\ views' = views
    BY <1>13 DEF SetAuto
  <2>. QED  BY <1>2, <2>1, <2>2
<1>14. CASE UNCHANGED vars
  BY <1>14 DEF vars
<1>. QED  BY <1>4, <1>5, <1>6, <1>7, <1>8, <1>9, <1>10, <1>11, <1>12, <1>13, <1>14 DEF Next, Step

(***************************************************************************)
(* Types of the connection and of the requests: in particular, a           *)
(* transaction is open in manual commit only.                              *)
(***************************************************************************)
THEOREM TypeCorrect == Spec => []TypeOK
<1>1. Init => TypeOK
  BY HistoryAssumption DEF Init, TypeOK
<1>. QED  BY <1>1, NextTypeOK, PTL DEF Spec
=============================================================================
