-------------------------- MODULE HistoryConnection --------------------------
(***************************************************************************)
(* The one database connection of the Center (Database_uDAQC.conn), which  *)
(* the data handlers, the retention thread and the history requests of all *)
(* web clients share. A history request switches it to manual commit for   *)
(* the time it takes, whatever the other threads are doing.                *)
(*                                                                         *)
(* Simplifications:                                                        *)
(* - One system. A row is its time; values and flags are left out.         *)
(* - The views of the coarser regimes are up to date, or do not exist (the *)
(*   statement that creates them fails for a system with a bool).          *)
(* - A request asks for the whole time span.                               *)
(* - The driver executes one statement at a time (external).               *)
(***************************************************************************)
EXTENDS Integers, FiniteSets

CONSTANTS
  Readers,    \* threads of the web server
  MaxTime,    \* bound: rows have the times 1 .. MaxTime (in milliseconds)
  Coarsest,   \* number of regimes; regime 1 is raw
  Width,      \* the length of a regime's time bucket
  MaxPoints   \* max_points of getRefinedHistory

ASSUME HistoryAssumption ==
  /\ MaxTime \in Nat
  /\ Coarsest \in Nat \ {0}
  /\ Width \in [1 .. Coarsest -> Nat \ {0}]
  /\ Width[1] = 1
  /\ MaxPoints \in Nat

VARIABLES
  auto,      \* autocommit
  txn,       \* the transaction of the connection
  table,     \* the rows as the connection sees them
  disk,      \* the rows committed
  gone,      \* history: rows that the retention or a restart has taken
  undone,    \* history: rows rolled back with a statement that failed
  views,     \* whether the views of the coarser regimes exist
  pc,        \* where each reader is
  regime,    \* the regime each reader is at
  counted,   \* the rows each reader has allocated its message for
  left       \* history: how getHistory has left the connection in manual commit

rows == <<table, disk, gone, undone>>
vars == <<auto, txn, rows, views, pc, regime, counted, left>>

reader == <<pc, regime, counted, left>>

Times == 1 .. MaxTime

TypeOK ==
  /\ auto \in BOOLEAN
  /\ txn \in {"none", "open", "aborted"}
  /\ auto => txn = "none"
  /\ table \subseteq Times
  /\ disk \subseteq Times
  /\ gone \subseteq Times \ table
  /\ undone \subseteq Times \ table
  /\ views \in BOOLEAN
  /\ pc \in [Readers -> {"idle", "refine", "manual", "count", "fetch", "commit", "auto"}]
  /\ regime \in [Readers -> 1 .. Coarsest]
  /\ counted \in [Readers -> 0 .. MaxTime]
  /\ left \subseteq {"overflow", "negative", "refused"}

Init ==
  /\ auto = TRUE
  /\ txn = "none"
  /\ table = {}
  /\ disk = {}
  /\ gone = {}
  /\ undone = {}
  /\ views \in BOOLEAN
  /\ pc = [r \in Readers |-> "idle"]
  /\ regime = [r \in Readers |-> 1]
  /\ counted = [r \in Readers |-> 0]
  /\ left = {}

-----------------------------------------------------------------------------
(* The connection. *)

\* The connection sees new rows; what is missing is undone, or gone.
Become(new, undoing) ==
  /\ table' = new
  /\ undone' = (undone \cup undoing) \ new
  /\ gone' = (gone \cup (table \ undoing)) \ new

\* A statement that succeeds and makes the table new: by itself a transaction,
\* or part of the open one, which it begins if there is none.
Succeeds(new) ==
  /\ txn # "aborted"
  /\ Become(new, {})
  /\ disk' = IF auto THEN new ELSE disk
  /\ txn' = IF auto THEN "none" ELSE "open"
  /\ UNCHANGED auto

\* A statement that fails, as every one does in an aborted transaction.
Fails ==
  /\ txn' = IF auto THEN "none" ELSE "aborted"
  /\ UNCHANGED <<auto, rows>>

\* The end of the transaction; an aborted one is rolled back.
EndTransaction ==
  /\ txn' = "none"
  /\ IF txn = "aborted" THEN Become(disk, table \ disk) /\ UNCHANGED disk
                        ELSE disk' = table /\ UNCHANGED <<table, gone, undone>>

-----------------------------------------------------------------------------
(* The other threads. *)

\* insertSystemTable: the time is the primary key.
Insert(t) ==
  /\ IF t \in table THEN Fails
                    ELSE Succeeds(table \cup {t}) \/ (txn = "aborted" /\ Fails)
  /\ UNCHANGED <<views, reader>>

\* BackgroundManager: rows older than the retention are dropped.
DropChunks(t) ==
  /\ Succeeds({u \in table : u > t}) \/ (txn = "aborted" /\ Fails)
  /\ UNCHANGED <<views, reader>>

\* The program is restarted.
Crash ==
  /\ auto' = TRUE
  /\ txn' = "none"
  /\ Become(disk, {})
  /\ pc' = [r \in Readers |-> "idle"]
  /\ regime' = [r \in Readers |-> 1]
  /\ counted' = [r \in Readers |-> 0]
  /\ left' = {}
  /\ UNCHANGED <<disk, views>>

-----------------------------------------------------------------------------
(* A history request. *)

Goto(r, place) == pc' = [pc EXCEPT ![r] = place]

\* The rows of a regime.
RowsOf(n) == {t \div Width[n] : t \in table}

Readable(n) == txn # "aborted" /\ (n = 1 \/ views)

Request(r) ==
  /\ pc[r] = "idle"
  /\ Goto(r, "refine")
  /\ UNCHANGED <<auto, txn, rows, views, regime, counted, left>>

\* getRefinedHistory: the first regime with few enough rows, or the last. A
\* count that fails yields -1.
Refine(r) ==
  LET n == regime[r]
  IN  /\ pc[r] = "refine"
      /\ IF n = Coarsest
         THEN /\ Goto(r, "manual")
              /\ UNCHANGED <<regime, auto, txn, rows>>
         ELSE IF Readable(n)
         THEN /\ Succeeds(table)
              /\ IF Cardinality(RowsOf(n)) <= MaxPoints
                 THEN Goto(r, "manual") /\ UNCHANGED regime
                 ELSE regime' = [regime EXCEPT ![r] = n + 1] /\ UNCHANGED pc
         ELSE /\ Fails
              /\ Goto(r, "manual")
              /\ UNCHANGED regime
      /\ UNCHANGED <<views, counted, left>>

\* getHistory: setAutoCommit(false)
SetManual(r) ==
  /\ pc[r] = "manual"
  /\ auto' = FALSE
  /\ Goto(r, "count")
  /\ UNCHANGED <<txn, rows, views, regime, counted, left>>

\* The request ends.
Leave(r) ==
  /\ Goto(r, "idle")
  /\ regime' = [regime EXCEPT ![r] = 1]
  /\ counted' = [counted EXCEPT ![r] = 0]

\* An exception other than SQLException is not caught: nothing is undone.
Escape(r, exception) ==
  /\ left' = left \cup {exception}
  /\ Leave(r)

\* count and ByteBuffer.allocate, whose size is negative if the count failed.
Count(r) ==
  /\ pc[r] = "count"
  /\ IF Readable(regime[r])
     THEN /\ Succeeds(table)
          /\ counted' = [counted EXCEPT ![r] = Cardinality(RowsOf(regime[r]))]
          /\ Goto(r, "fetch")
          /\ UNCHANGED <<regime, left>>
     ELSE /\ Fails
          /\ Escape(r, "negative")
  /\ UNCHANGED views

\* Mutant of Fetch: the connection is not set back after an SQLException.
Fetch_ReturnsOnError(r) ==
  /\ pc[r] = "fetch"
  /\ IF Readable(regime[r])
     THEN /\ Succeeds(table)
          /\ IF Cardinality(RowsOf(regime[r])) > counted[r]
             THEN Escape(r, "overflow")
             ELSE Goto(r, "commit") /\ UNCHANGED <<regime, counted, left>>
     ELSE /\ Fails
          /\ Leave(r)
          /\ UNCHANGED left
  /\ UNCHANGED views

\* The query; the rows are put into the message, as far as there is room.
Fetch(r) ==
  /\ pc[r] = "fetch"
  /\ IF Readable(regime[r])
     THEN /\ Succeeds(table)
          /\ IF Cardinality(RowsOf(regime[r])) > counted[r]
             THEN Escape(r, "overflow")
             ELSE Goto(r, "commit") /\ UNCHANGED <<regime, counted, left>>
     ELSE /\ Fails
          /\ Goto(r, "auto")
          /\ UNCHANGED <<regime, counted, left>>
  /\ UNCHANGED views

\* conn.commit, an SQLException in automatic commit.
Commit(r) ==
  /\ pc[r] = "commit"
  /\ IF auto THEN UNCHANGED <<txn, rows>> ELSE EndTransaction
  /\ Goto(r, "auto")
  /\ UNCHANGED <<auto, views, regime, counted, left>>

\* Mutant of SetAuto: the connection stays in manual commit.
SetAuto_StaysManual(r) ==
  /\ pc[r] = "auto"
  /\ Leave(r)
  /\ UNCHANGED <<auto, txn, rows, views, left>>

\* Mutant of SetAuto: the open transaction is not ended.
SetAuto_NoCommit(r) ==
  /\ pc[r] = "auto"
  /\ auto' = TRUE
  /\ Leave(r)
  /\ UNCHANGED <<txn, rows, views, left>>

\* setAutoCommit(true), which commits, and the reply. The driver may refuse to
\* commit what has become a rollback (pgjdbc 42.3.8 does, pom.xml): then it stays
\* in manual commit, and the exception is caught.
SetAuto(r) ==
  /\ pc[r] = "auto"
  /\ IF auto THEN UNCHANGED <<txn, rows>> ELSE EndTransaction
  /\ \/ auto' = TRUE /\ UNCHANGED left
     \/ txn = "aborted" /\ left' = left \cup {"refused"} /\ UNCHANGED auto
  /\ Leave(r)
  /\ UNCHANGED views

-----------------------------------------------------------------------------
Step(r) ==
  \/ Refine(r) \/ SetManual(r) \/ Count(r) \/ Fetch(r) \/ Commit(r) \/ SetAuto(r)

Next ==
  \/ \E r \in Readers : Request(r) \/ Step(r)
  \/ \E t \in Times : Insert(t) \/ DropChunks(t)
  \/ Crash

\* A request that was begun goes on.
Fairness == \A r \in Readers : WF_vars(Step(r))

Spec == Init /\ [][Next]_vars /\ Fairness

-----------------------------------------------------------------------------
\* In the middle of getHistory.
Reading(r) == pc[r] \in {"count", "fetch", "commit", "auto"}

\* However the requests of several clients overlap, and whatever statements of
\* theirs or of other threads fail: once nobody reads, the connection commits
\* automatically again and all accepted rows are on disk. The exceptions are
\* those left names: a message with too little room, a count that failed, a
\* driver that refuses to end a failed transaction.
ConnectionRestored ==
  left = {} /\ (\A r \in Readers : ~ Reading(r))
    => auto /\ txn = "none" /\ table = disk

\* A row accepted while somebody reads does not stay outside the database for
\* ever, also if some client is always reading: it is stored (insertSystemTable,
\* getHistory), or it is lost for one of three reasons. The retention drops it, a
\* restart comes before the commit, or a statement fails in the transaction that
\* the row has come into, its own thread's or another's: the row is rolled back
\* with that. And the connection may have been left in manual commit.
AcceptedRowsAreDecided ==
  \A t \in Times :
    t \in table \ disk ~> t \in disk \/ t \in gone \/ t \in undone \/ left # {}

\* Database_uDAQC.java:57, of a database without transaction isolation: "This
\* will result in allocation errors." With isolation there should be none.
NoAllocationError == "overflow" \notin left
=============================================================================
