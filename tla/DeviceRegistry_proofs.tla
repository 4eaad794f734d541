------------------------ MODULE DeviceRegistry_proofs ------------------------
(***************************************************************************)
(* Proofs about DeviceRegistry for every set of sessions, descriptions and *)
(* names, and with every kind of fault: its types, what the mutex          *)
(* protects, what the indices, the database and the epochs promise, and    *)
(* that it implements DeviceTable.                                         *)
(***************************************************************************)
EXTENDS DeviceRegistry, SequenceTheorems, TLAPS

(***************************************************************************)
(* Flagging a row of a table changes neither its length nor takes a flag   *)
(* away.                                                                   *)
(***************************************************************************)
LEMMA FlaggedRows ==
  ASSUME TypeOK, NEW n \in Names, NEW i, NEW ok \in BOOLEAN
  PROVE  /\ Flagged(n, i, ok) \in [Names -> Seq(Row)]
         /\ \A m \in Names :
              /\ Len(Flagged(n, i, ok)[m]) = Len(rows[m])
              /\ \A j \in 1 .. Len(rows[m]) :
                   Flagged(n, i, ok)[m][j].end_of_epoch
                     <=> rows[m][j].end_of_epoch
                         \/ (ok /\ m = n /\ j = i)
<1>1. /\ rows \in [Names -> Seq(Row)]
      /\ rows[n] \in Seq(Row)
      /\ DOMAIN rows[n] = 1 .. Len(rows[n])
      /\ Len(rows[n]) \in Nat
      /\ \A j \in 1 .. Len(rows[n]) : rows[n][j] \in Row
  BY LenProperties DEF TypeOK
<1>2. CASE ok /\ i \in DOMAIN rows[n]
  <2>. DEFINE row == [rows[n][i] EXCEPT !.end_of_epoch = TRUE]
              new == [rows[n] EXCEPT ![i] = row]
  <2>1. row \in Row /\ row.end_of_epoch
    BY <1>1, <1>2 DEF Row
  <2>2. /\ new \in Seq(Row)
        /\ Len(new) = Len(rows[n])
        /\ \A j \in 1 .. Len(rows[n]) : new[j] = IF j = i THEN row ELSE rows[n][j]
    BY <1>1, <1>2, <2>1, ExceptSeq
  <2>3. Flagged(n, i, ok) = [rows EXCEPT ![n] = new]
    BY <1>2 DEF Flagged
  <2>. HIDE DEF row, new
  <2>. QED  BY <1>1, <1>2, <2>1, <2>2, <2>3
<1>3. CASE ~ (ok /\ i \in DOMAIN rows[n])
  <2>1. Flagged(n, i, ok) = rows
    BY <1>3 DEF Flagged
  <2>. QED  BY <1>1, <1>3, <2>1
<1>. QED  BY <1>2, <1>3

(***************************************************************************)
(* A step of any thread, of a device or of the program keeps the types.    *)
(***************************************************************************)
LEMMA InitTypeOK == Init => TypeOK
BY RegistryAssumption, EmptySeq DEF Init, TypeOK, Place, Objects, Seen

LEMMA NextTypeOK == TypeOK /\ [Next]_vars => TypeOK'
<1>. SUFFICES ASSUME TypeOK, [Next]_vars PROVE TypeOK'
  OBVIOUS
<1>. USE RegistryAssumption DEF TypeOK, memory, tables, database, handlers
<1>0. ASSUME NEW s \in Sessions, NEW place \in Place, Goto(s, place)
      PROVE  pc' \in [Sessions -> Place]
  BY <1>0 DEF Goto
<1>00. ASSUME NEW ok \in BOOLEAN, Statement(ok)
       PROVE  commit' \in {"auto", "manual", "aborted"} /\ faults' \subseteq Faulty
  BY <1>00 DEF Statement
<1>01. ASSUME db' \subseteq Descs, columns' \in [Names -> Descs \cup {None}],
              rows' \in [Names -> Seq(Row)], Persist
       PROVE  disk' \in [db : SUBSET Descs, columns : [Names -> Descs \cup {None}],
                         rows : [Names -> Seq(Row)]]
  BY <1>01 DEF Persist, Seen
<1>02. ASSUME NEW d \in Descs, NEW ok \in BOOLEAN, Storing(d, ok)
       PROVE  lost' \subseteq Descs
  BY <1>02 DEF Storing
<1>03. ASSUME Restore
       PROVE  /\ db' \subseteq Descs
              /\ columns' \in [Names -> Descs \cup {None}]
              /\ rows' \in [Names -> Seq(Row)]
              /\ disk' = disk
  BY <1>03 DEF Restore
<1>1. ASSUME NEW d \in Descs, LoadDevice(d) PROVE TypeOK'
  <2>1. PICK made \in BOOLEAN, closed \in BOOLEAN :
          /\ columns' = WithTable(d, made)
          /\ Storing(d, made)
          /\ rows' = Flagged(NameOf[d], Len(rows[NameOf[d]]), closed)
          /\ Statement(made /\ closed)
    BY <1>1 DEF LoadDevice
  <2>2. vec' \in Seq(Objects)
    BY <1>1, AppendProperties DEF LoadDevice, Objects
  <2>3. index' \in [Objects -> Nat \cup {-1}]
    BY <1>1, LenProperties DEF LoadDevice, Objects
  <2>4. columns' \in [Names -> Descs \cup {None}]
    BY <2>1 DEF WithTable
  <2>5. rows' \in [Names -> Seq(Row)]
    BY <2>1, FlaggedRows
  <2>6. commit' \in {"auto", "manual", "aborted"} /\ faults' \subseteq Faulty
    <3>1. (made /\ closed) \in BOOLEAN
      OBVIOUS
    <3>. QED  BY <1>00, <2>1, <3>1
  <2>7. db' \subseteq Descs /\ lost' \subseteq Descs
    BY <1>02, <1>1, <2>1 DEF LoadDevice
  <2>8. disk' \in [db : SUBSET Descs, columns : [Names -> Descs \cup {None}],
                   rows : [Names -> Seq(Row)]]
    BY <1>01, <1>1, <2>4, <2>5, <2>7 DEF LoadDevice
  <2>. QED  BY <1>1, <2>2, <2>3, <2>4, <2>5, <2>6, <2>7, <2>8 DEF LoadDevice
<1>2. CASE StartServer
  BY <1>2 DEF StartServer, Statement
<1>3. CASE Crash
  BY <1>03, <1>3, EmptySeq DEF Crash, Place
<1>31. CASE SetManual
  BY <1>31 DEF SetManual
<1>32. CASE StatementFails
  BY <1>00, <1>32 DEF StatementFails
<1>33. CASE EndTransaction
  <2>1. CASE commit = "aborted"
    <3>1. /\ Restore
          /\ commit' \in {"auto", "manual"}
          /\ lost' = lost \cup InTransaction
          /\ selected' = [s \in Sessions |->
                IF selected[s] <= Len(disk.rows[Name(s)]) THEN selected[s] ELSE 0]
          /\ UNCHANGED <<handlers, faults>>
      BY <1>33, <2>1 DEF EndTransaction
    <3>2. lost' \subseteq Descs
      BY <3>1 DEF InTransaction
    <3>3. selected' \in [Sessions -> Nat]
      <4>. DEFINE room(s) == selected[s] <= Len(disk.rows[Name(s)])
      <4>1. selected' = [s \in Sessions |-> IF room(s) THEN selected[s] ELSE 0]
        BY <3>1
      <4>. HIDE DEF room
      <4>. QED  BY <4>1
    <3>. QED  BY <1>03, <3>1, <3>2, <3>3
  <2>2. CASE commit # "aborted"
    <3>1. /\ commit' \in {"auto", "manual"}
          /\ disk' = Seen
          /\ UNCHANGED <<tables, lost, selected, handlers, faults>>
      BY <1>33, <2>2 DEF EndTransaction
    <3>2. disk' \in [db : SUBSET Descs, columns : [Names -> Descs \cup {None}],
                     rows : [Names -> Seq(Row)]]
      BY <3>1 DEF Seen
    <3>. QED  BY <3>1, <3>2
  <2>. QED  BY <2>1, <2>2
<1>4. ASSUME NEW s \in Sessions, Event(s) PROVE TypeOK'
  <2>1. CASE Connect(s)
    BY <1>0, <2>1 DEF Connect, Place
  <2>2. CASE Vanish(s)
    BY <2>2 DEF Vanish
  <2>3. CASE Synchronize(s)
    BY <2>3 DEF Synchronize
  <2>4. CASE ReceiveDescription(s)
    BY <1>0, <2>4 DEF ReceiveDescription, Place
  <2>5. CASE Data(s)
    <3>. DEFINE n == Name(s)
                row == [by |-> s, end_of_epoch |-> FALSE]
    <3>1. n \in Names /\ row \in Row
      BY DEF Name, Row
    <3>2. Append(rows[n], row) \in Seq(Row)
      BY <3>1, AppendProperties
    <3>3. rows' = [rows EXCEPT ![n] = Append(rows[n], row)]
      BY <2>5 DEF Data
    <3>. HIDE DEF n, row
    <3>4. rows' \in [Names -> Seq(Row)]
      BY <3>1, <3>2, <3>3
    <3>5. disk' \in [db : SUBSET Descs, columns : [Names -> Descs \cup {None}],
                     rows : [Names -> Seq(Row)]]
      BY <1>01, <2>5, <3>4 DEF Data
    <3>. QED  BY <2>5, <3>4, <3>5 DEF Data
  <2>6. CASE SessionClosed(s)
    <3>1. pc' \in [Sessions -> Place]
      BY <1>0, <2>6 DEF SessionClosed, Place
    <3>2. faults' \subseteq Faulty
      BY <2>6 DEF SessionClosed, Races
    <3>. QED  BY <2>6, <3>1, <3>2 DEF SessionClosed
  <2>. QED  BY <1>4, <2>1, <2>2, <2>3, <2>4, <2>5, <2>6 DEF Event
<1>5. ASSUME NEW s \in Sessions, Handler(s) PROVE TypeOK'
  <2>0. s \in Objects /\ DescOf[s] \in Descs /\ Name(s) \in Names
    BY DEF Objects, Name
  <2>1. CASE Acquire(s)
    BY <1>0, <2>1 DEF Acquire, Place, Holding
  <2>2. CASE Replace(s)
    <3>1. vec' \in Seq(Objects)
      BY <2>0, <2>2, ExceptSeq, LenProperties DEF Replace
    <3>. QED  BY <1>0, <2>2, <3>1 DEF Replace, Release, Place
  <2>3. CASE NewDevice(s)
    BY <1>0, <2>3 DEF NewDevice, Place, Holding
  <2>4. CASE Insert(s)
    <3>1. PICK ok \in BOOLEAN :
            db' = Inserted(DescOf[s], ok) /\ Storing(DescOf[s], ok) /\ Statement(ok)
      BY <2>4 DEF Insert
    <3>2. /\ Goto(s, "create")
          /\ Persist
          /\ UNCHANGED <<phase, live, mutex, selected, memory, columns, rows>>
      BY <2>4 DEF Insert
    <3>3. db' \subseteq Descs
      BY <2>0, <3>1 DEF Inserted
    <3>4. disk' \in [db : SUBSET Descs, columns : [Names -> Descs \cup {None}],
                     rows : [Names -> Seq(Row)]]
      BY <1>01, <3>2, <3>3
    <3>5. pc' \in [Sessions -> Place]
      BY <1>0, <3>2 DEF Place, Holding
    <3>6. /\ commit' \in {"auto", "manual", "aborted"}
          /\ faults' \subseteq Faulty
      BY <1>00, <3>1
    <3>7. lost' \subseteq Descs
      BY <1>02, <2>0, <3>1
    <3>. QED  BY <3>2, <3>3, <3>4, <3>5, <3>6, <3>7
  <2>5. CASE CreateTable(s)
    <3>1. PICK made \in BOOLEAN, ok \in BOOLEAN :
            /\ columns' = WithTable(DescOf[s], made)
            /\ Storing(DescOf[s], made)
            /\ Statement(ok)
      BY <2>5 DEF CreateTable
    <3>2. /\ Goto(s, "add")
          /\ Persist
          /\ UNCHANGED <<phase, live, mutex, selected, memory, db, rows>>
      BY <2>5 DEF CreateTable
    <3>3. columns' \in [Names -> Descs \cup {None}]
      BY <2>0, <3>1 DEF WithTable
    <3>4. disk' \in [db : SUBSET Descs, columns : [Names -> Descs \cup {None}],
                     rows : [Names -> Seq(Row)]]
      BY <1>01, <3>2, <3>3
    <3>5. pc' \in [Sessions -> Place]
      BY <1>0, <3>2 DEF Place, Holding
    <3>6. /\ commit' \in {"auto", "manual", "aborted"}
          /\ faults' \subseteq Faulty
      BY <1>00, <3>1
    <3>7. lost' \subseteq Descs
      BY <1>02, <2>0, <3>1
    <3>. QED  BY <3>2, <3>3, <3>4, <3>5, <3>6, <3>7
  <2>6. CASE Add(s)
    <3>1. vec' \in Seq(Objects)
      BY <2>0, <2>6, AppendProperties DEF Add
    <3>2. index' \in [Objects -> Nat \cup {-1}]
      BY <2>0, <2>6, LenProperties DEF Add
    <3>. QED  BY <1>0, <2>6, <3>1, <3>2 DEF Add, Release, Place
  <2>7. CASE Put(s)
    BY <1>0, <2>7 DEF Put, SetMap, Races, Place
  <2>8. CASE AddSynchronizer(s)
    BY <1>0, <2>8 DEF AddSynchronizer, Place
  <2>9. CASE SelectLast(s)
    <3>1. Len(rows[Name(s)]) \in Nat
      BY <2>0, LenProperties
    <3>2. selected' \in [Sessions -> Nat]
      <4>. DEFINE n == Len(rows[Name(s)])
      <4>1. selected' = selected \/ selected' = [selected EXCEPT ![s] = n]
        BY <2>9 DEF SelectLast
      <4>. HIDE DEF n
      <4>2. n \in Nat
        BY <3>1 DEF n
      <4>3. ASSUME NEW f \in [Sessions -> Nat], NEW k \in Nat
            PROVE  [f EXCEPT ![s] = k] \in [Sessions -> Nat]
        OBVIOUS
      <4>4. selected \in [Sessions -> Nat]
        OBVIOUS
      <4>5. CASE selected' = selected
        BY <4>4, <4>5
      <4>6. CASE selected' = [selected EXCEPT ![s] = n]
        BY <4>2, <4>3, <4>4, <4>6
      <4>. QED  BY <4>1, <4>5, <4>6
    <3>. QED  BY <1>0, <2>9, <3>2 DEF SelectLast, Statement, Place
  <2>10. CASE FlagLast(s)
    <3>1. rows' \in [Names -> Seq(Row)]
      BY <2>0, <2>10, FlaggedRows DEF FlagLast
    <3>2. disk' \in [db : SUBSET Descs, columns : [Names -> Descs \cup {None}],
                     rows : [Names -> Seq(Row)]]
      BY <1>01, <2>10, <3>1 DEF FlagLast
    <3>3. selected' \in [Sessions -> Nat] /\ pc' \in [Sessions -> Place]
      BY <1>0, <2>10 DEF FlagLast, Place
    <3>. QED  BY <1>00, <2>10, <3>1, <3>2, <3>3 DEF FlagLast
  <2>11. CASE Unmap(s)
    BY <1>0, <2>11 DEF Unmap, SetMap, Races, Place
  <2>. QED  BY <1>5, <2>1, <2>2, <2>3, <2>4, <2>5, <2>6, <2>7, <2>8, <2>9,
               <2>10, <2>11 DEF Handler
<1>6. CASE UNCHANGED vars
  BY <1>6 DEF vars, Row, Place, Objects
<1>. QED  BY <1>1, <1>2, <1>3, <1>31, <1>32, <1>33, <1>4, <1>5, <1>6
          DEF Next, Program, Connection

(***************************************************************************)
(* The mutex and the map. A session between acquire and release holds the  *)
(* mutex; nobody is there while the program loads its devices; what one    *)
(* has found new is not in the list until that one adds it; and a session  *)
(* has no device in the map before it has brought its description.         *)
(***************************************************************************)
Control ==
  /\ \A s \in Sessions : pc[s] \in Holding => mutex = s
  /\ phase = "loading" => \A s \in Sessions : pc[s] \in {"none", "done"}
  /\ \A s \in Sessions :
       pc[s] \in Holding \ {"search"} => ~ Listed(DescOf[s])
  /\ \A s \in Sessions : pc[s] \in {"none", "open"} => s \notin map

\* Two sessions are never both between acquire and release.
LEMMA OneHolder ==
  ASSUME Control, NEW s \in Sessions, NEW t \in Sessions,
         pc[s] \in Holding, pc[t] \in Holding
  PROVE  s = t
BY DEF Control

\* What the list holds after an object is put in the place of one with an equal
\* description, or at the end.
LEMMA ReplaceKeeps ==
  ASSUME TypeOK, NEW s \in Sessions, Replace(s)
  PROVE  /\ vec' \in Seq(Objects)
         /\ Len(vec') = Len(vec)
         /\ \A i \in 1 .. Len(vec) : Description(vec'[i]) = Description(vec[i])
<1>1. PICK i \in DOMAIN vec :
        /\ Description(vec[i]) = DescOf[s]
        /\ vec' = [vec EXCEPT ![i] = s]
  BY DEF Replace
<1>2. Description(s) = DescOf[s] /\ s \in Objects
  BY DEF Description, Objects
<1>3. /\ vec' \in Seq(Objects)
      /\ Len(vec') = Len(vec)
      /\ \A j \in 1 .. Len(vec) : vec'[j] = IF j = i THEN s ELSE vec[j]
  BY <1>1, <1>2, ExceptSeq, LenProperties DEF TypeOK
<1>. QED  BY <1>1, <1>2, <1>3

LEMMA AppendEnters ==
  ASSUME TypeOK, NEW o \in Objects, vec' = Append(vec, o)
  PROVE  /\ vec' \in Seq(Objects)
         /\ Len(vec') = Len(vec) + 1
         /\ \A i \in 1 .. Len(vec) : vec'[i] = vec[i]
         /\ vec'[Len(vec) + 1] = o
BY AppendProperties DEF TypeOK

LEMMA NextControl == TypeOK /\ Control /\ [Next]_vars => Control'
<1>. SUFFICES ASSUME TypeOK, Control, [Next]_vars PROVE Control'
  OBVIOUS
<1>. USE RegistryAssumption DEF Control, Holding, memory, tables, database, handlers
<1>0. ASSUME NEW s \in Sessions, NEW place, Goto(s, place)
      PROVE  /\ pc'[s] = place
             /\ \A t \in Sessions \ {s} : pc'[t] = pc[t]
  BY <1>0 DEF Goto, TypeOK
<1>01. /\ vec \in Seq(Objects)
       /\ DOMAIN vec = 1 .. Len(vec)
       /\ Len(vec) \in Nat
  BY LenProperties DEF TypeOK
\* A step that leaves list, mutex and phase alone, and leads a session to a
\* place without the mutex, or on while it holds it.
<1>02. ASSUME NEW s \in Sessions, NEW place, Goto(s, place),
              pc[s] \notin {"none", "done"},
              place \in Holding => pc[s] \in Holding,
              place \in Holding \ {"search"} => ~ Listed(DescOf[s]),
              place \notin {"none", "open"},
              map' \subseteq map \cup {s},
              UNCHANGED <<vec, mutex, phase>>
       PROVE  Control'
  BY <1>0, <1>02 DEF Listed
<1>1. ASSUME NEW d \in Descs, LoadDevice(d) PROVE Control'
  BY <1>1 DEF LoadDevice
<1>2. CASE StartServer
  BY <1>2 DEF StartServer, Listed
<1>3. CASE Crash
  BY <1>3 DEF Crash
<1>4. ASSUME NEW s \in Sessions, Event(s) PROVE Control'
  <2>1. CASE Connect(s)
    BY <1>0, <2>1 DEF Connect, Listed
  <2>2. CASE Vanish(s)
    BY <2>2 DEF Vanish, Listed
  <2>3. CASE Synchronize(s)
    BY <2>3 DEF Synchronize, Listed
  <2>4. CASE ReceiveDescription(s)
    BY <1>02, <2>4 DEF ReceiveDescription
  <2>5. CASE Data(s)
    BY <2>5 DEF Data, Listed
  <2>6. CASE SessionClosed(s)
    BY <1>02, <2>6 DEF SessionClosed
  <2>. QED  BY <1>4, <2>1, <2>2, <2>3, <2>4, <2>5, <2>6 DEF Event
<1>5. ASSUME NEW s \in Sessions, Handler(s) PROVE Control'
  <2>1. CASE Acquire(s)
    BY <1>0, <2>1 DEF Acquire, Listed
  <2>2. CASE Replace(s)
    <3>1. DOMAIN vec' = DOMAIN vec
      BY <1>01, <2>2, ReplaceKeeps, LenProperties
    <3>2. \A d : Listed(d)' => Listed(d)
      BY <1>01, <2>2, <3>1, ReplaceKeeps DEF Listed, Description
    <3>. QED  BY <1>0, <2>2, <3>2 DEF Replace, Release
  <2>3. CASE NewDevice(s)
    BY <1>02, <2>3 DEF NewDevice
  <2>4. CASE Insert(s)
    BY <1>02, <2>4 DEF Insert
  <2>5. CASE CreateTable(s)
    BY <1>02, <2>5 DEF CreateTable
  <2>6. CASE Add(s)
    <3>1. phase' = "serving" /\ pc'[s] = "put"
      BY <1>0, <2>6 DEF Add, TypeOK
    <3>2. \A t \in Sessions : pc'[t] \notin Holding
      BY <1>0, <2>6, <3>1, OneHolder DEF Add
    <3>3. \A t \in Sessions : pc'[t] \in {"none", "open"} => t \notin map'
      BY <1>0, <2>6, <3>1 DEF Add
    <3>. QED  BY <3>1, <3>2, <3>3
  <2>7. CASE Put(s)
    BY <1>02, <2>7 DEF Put, SetMap
  <2>8. CASE AddSynchronizer(s)
    BY <1>02, <2>8 DEF AddSynchronizer
  <2>9. CASE SelectLast(s)
    BY <1>02, <2>9 DEF SelectLast
  <2>10. CASE FlagLast(s)
    BY <1>02, <2>10 DEF FlagLast
  <2>11. CASE Unmap(s)
    BY <1>02, <2>11 DEF Unmap, SetMap
  <2>. QED  BY <1>5, <2>1, <2>2, <2>3, <2>4, <2>5, <2>6, <2>7, <2>8, <2>9,
               <2>10, <2>11 DEF Handler
<1>6. CASE Connection \/ UNCHANGED vars
  BY <1>6 DEF vars, Listed, Connection, SetManual, StatementFails, EndTransaction
<1>. QED  BY <1>1, <1>2, <1>3, <1>4, <1>5, <1>6 DEF Next, Program

(***************************************************************************)
(* The indices. The list only grows while the program runs, and an object  *)
(* is only replaced by one with an equal description.                      *)
(***************************************************************************)
LEMMA NextHome == TypeOK /\ IndexLeadsHome /\ [Next]_vars => IndexLeadsHome'
<1>. SUFFICES ASSUME TypeOK, IndexLeadsHome, [Next]_vars PROVE IndexLeadsHome'
  OBVIOUS
<1>. USE DEF memory, tables, database, handlers
<1>0. /\ Len(vec) \in Nat
      /\ index \in [Objects -> Nat \cup {-1}]
      /\ \A o \in Objects :
           index[o] # -1 =>
             /\ index[o] + 1 \in 1 .. Len(vec)
             /\ Description(vec[index[o] + 1]) = Description(o)
  BY LenProperties DEF TypeOK, IndexLeadsHome
\* The object o enters at the end.
<1>1. ASSUME NEW o \in Objects,
             index' = [index EXCEPT ![o] = Len(vec)],
             vec' = Append(vec, o)
      PROVE  IndexLeadsHome'
  <2>1. /\ Len(vec') = Len(vec) + 1
        /\ \A i \in 1 .. Len(vec) : vec'[i] = vec[i]
        /\ vec'[Len(vec) + 1] = o
    BY <1>1, AppendEnters
  <2>. SUFFICES ASSUME NEW p \in Objects, index'[p] # -1
                PROVE  /\ index'[p] < Len(vec')
                       /\ Description(vec'[index'[p] + 1]) = Description(p)
    BY DEF IndexLeadsHome, Description
  <2>2. CASE p = o
    BY <1>0, <1>1, <2>1, <2>2
  <2>3. CASE p # o
    <3>1. index'[p] = index[p]
      BY <1>0, <1>1, <2>3
    <3>. QED  BY <1>0, <2>1, <3>1
  <2>. QED  BY <2>2, <2>3
<1>2. ASSUME UNCHANGED <<vec, index>> PROVE IndexLeadsHome'
  BY <1>2 DEF IndexLeadsHome, Description
<1>3. ASSUME NEW d \in Descs, LoadDevice(d) PROVE IndexLeadsHome'
  BY <1>1, <1>3 DEF LoadDevice, Objects
<1>4. CASE StartServer
  BY <1>2, <1>4 DEF StartServer
<1>5. CASE Crash
  BY <1>5 DEF Crash, IndexLeadsHome
<1>6. ASSUME NEW s \in Sessions, Event(s) PROVE IndexLeadsHome'
  BY <1>2, <1>6 DEF Event, Connect, Vanish, Synchronize, ReceiveDescription,
                    Data, SessionClosed
<1>7. ASSUME NEW s \in Sessions, Handler(s) PROVE IndexLeadsHome'
  <2>1. CASE Replace(s)
    <3>1. index' = index
      BY <2>1 DEF Replace
    <3>. QED  BY <1>0, <2>1, <3>1, ReplaceKeeps DEF IndexLeadsHome, Description
  <2>2. CASE Add(s)
    BY <1>1, <2>2 DEF Add, Objects
  <2>3. CASE ~ Replace(s) /\ ~ Add(s)
    BY <1>2, <1>7, <2>3
       DEF Handler, Acquire, NewDevice, Insert, CreateTable, Put,
           AddSynchronizer, SelectLast, FlagLast, Unmap
  <2>. QED  BY <2>1, <2>2, <2>3
<1>8. CASE Connection \/ UNCHANGED vars
  BY <1>2, <1>8 DEF vars, Connection, SetManual, StatementFails, EndTransaction
<1>. QED  BY <1>3, <1>4, <1>5, <1>6, <1>7, <1>8 DEF Next, Program

(***************************************************************************)
(* The database. The faults on record stay on record; what is on disk      *)
(* stays, or becomes what the connection sees; and a step other than the   *)
(* end of the program takes neither a row nor a table from a device        *)
(* without the device being on record as lost.                             *)
(***************************************************************************)
LEMMA FaultsGrow == [Next]_vars => faults \subseteq faults'
BY DEF Next, Program, Handler, Event, Connection, vars, tables, database, handlers,
       Statement, SetMap, LoadDevice, StartServer, Crash, Connect, Vanish,
       Synchronize, ReceiveDescription, Data, SessionClosed, Acquire, Replace,
       NewDevice, Insert, CreateTable, Add, Put, AddSynchronizer, SelectLast,
       FlagLast, Unmap, SetManual, StatementFails, EndTransaction

LEMMA DiskStep ==
  [Next]_vars => disk' = disk \/ (disk' = Seen' /\ db \subseteq db')
<1>. SUFFICES ASSUME [Next]_vars
              PROVE  disk' = disk \/ (disk' = Seen' /\ db \subseteq db')
  OBVIOUS
<1>. USE DEF tables, database
<1>0. ASSUME Persist, db \subseteq db'
      PROVE  disk' = disk \/ (disk' = Seen' /\ db \subseteq db')
  BY <1>0 DEF Persist
<1>1. ASSUME NEW d \in Descs, LoadDevice(d)
      PROVE  disk' = disk \/ (disk' = Seen' /\ db \subseteq db')
  BY <1>0, <1>1 DEF LoadDevice
<1>2. CASE StartServer \/ Crash
  BY <1>2 DEF StartServer, Crash, Restore
<1>3. CASE Connection
  <2>1. CASE SetManual \/ StatementFails
    BY <2>1 DEF SetManual, StatementFails
  <2>2. CASE EndTransaction
    <3>1. disk' = disk \/ (disk' = Seen /\ UNCHANGED <<db, columns, rows>>)
      BY <2>2 DEF EndTransaction, Restore
    <3>. QED  BY <3>1 DEF Seen
  <2>. QED  BY <1>3, <2>1, <2>2 DEF Connection
<1>4. ASSUME NEW s \in Sessions, Event(s)
      PROVE  disk' = disk \/ (disk' = Seen' /\ db \subseteq db')
  <2>1. CASE Data(s)
    BY <1>0, <2>1 DEF Data
  <2>2. CASE ~ Data(s)
    BY <1>4, <2>2 DEF Event, Connect, Vanish, Synchronize, ReceiveDescription,
                      SessionClosed
  <2>. QED  BY <2>1, <2>2
<1>5. ASSUME NEW s \in Sessions, Handler(s)
      PROVE  disk' = disk \/ (disk' = Seen' /\ db \subseteq db')
  <2>1. CASE Insert(s)
    <3>1. db \subseteq db'
      BY <2>1 DEF Insert, Inserted
    <3>. QED  BY <1>0, <2>1, <3>1 DEF Insert
  <2>2. CASE CreateTable(s)
    BY <1>0, <2>2 DEF CreateTable
  <2>3. CASE FlagLast(s)
    BY <1>0, <2>3 DEF FlagLast
  <2>4. CASE ~ Insert(s) /\ ~ CreateTable(s) /\ ~ FlagLast(s)
    BY <1>5, <2>4 DEF Handler, Acquire, Replace, NewDevice, Add, Put,
                      AddSynchronizer, SelectLast, Unmap
  <2>. QED  BY <2>1, <2>2, <2>3, <2>4
<1>6. CASE UNCHANGED vars
  BY <1>6 DEF vars
<1>. QED  BY <1>1, <1>2, <1>3, <1>4, <1>5, <1>6 DEF Next, Program

HasTable(cols, d) == cols[NameOf[d]] # None

NoneForgotten ==
  \A d \in Descs :
    \/ d \in lost'
    \/ /\ d \notin lost
       /\ d \in db => d \in db'
       /\ HasTable(columns, d) => HasTable(columns', d)

LEMMA StepForgetsNone == TypeOK /\ [Next]_vars => NoneForgotten \/ Crash
<1>. SUFFICES ASSUME TypeOK, [Next]_vars PROVE NoneForgotten \/ Crash
  OBVIOUS
<1>. USE RegistryAssumption DEF memory, tables, database, handlers
<1>0. ASSUME UNCHANGED <<db, columns, lost>> PROVE NoneForgotten
  BY <1>0 DEF NoneForgotten
<1>1. ASSUME NEW d \in Descs, NEW made \in BOOLEAN, columns' = WithTable(d, made),
             Storing(d, made), db' = db
      PROVE  NoneForgotten
  BY <1>1 DEF NoneForgotten, WithTable, Storing, HasTable, TypeOK
<1>2. ASSUME NEW d \in Descs, LoadDevice(d) PROVE NoneForgotten
  BY <1>1, <1>2 DEF LoadDevice
<1>3. CASE StartServer
  BY <1>0, <1>3 DEF StartServer
<1>4. CASE Connection
  <2>1. CASE SetManual \/ StatementFails
    BY <1>0, <2>1 DEF SetManual, StatementFails
  <2>2. CASE EndTransaction
    <3>1. CASE commit = "aborted"
      <4>1. /\ db' = disk.db
            /\ columns' = disk.columns
            /\ lost' = lost \cup InTransaction
        BY <2>2, <3>1 DEF EndTransaction, Restore
      <4>. QED  BY <4>1 DEF NoneForgotten, InTransaction, HasTable
    <3>. QED  BY <1>0, <2>2, <3>1 DEF EndTransaction
  <2>. QED  BY <1>4, <2>1, <2>2 DEF Connection
<1>5. ASSUME NEW s \in Sessions, Event(s) PROVE NoneForgotten
  BY <1>0, <1>5 DEF Event, Connect, Vanish, Synchronize, ReceiveDescription,
                    Data, SessionClosed
<1>6. ASSUME NEW s \in Sessions, Handler(s) PROVE NoneForgotten
  <2>0. DescOf[s] \in Descs
    OBVIOUS
  <2>1. CASE Insert(s)
    <3>1. /\ db \subseteq db'
          /\ lost \subseteq lost'
          /\ columns' = columns
      BY <2>1 DEF Insert, Inserted, Storing
    <3>. QED  BY <3>1 DEF NoneForgotten
  <2>2. CASE CreateTable(s)
    BY <1>1, <2>0, <2>2 DEF CreateTable
  <2>3. CASE ~ Insert(s) /\ ~ CreateTable(s)
    BY <1>0, <1>6, <2>3 DEF Handler, Acquire, Replace, NewDevice, Add, Put,
                            AddSynchronizer, SelectLast, FlagLast, Unmap
  <2>. QED  BY <2>1, <2>2, <2>3
<1>7. CASE UNCHANGED vars
  BY <1>0, <1>7 DEF vars
<1>. QED  BY <1>2, <1>3, <1>4, <1>5, <1>6, <1>7 DEF Next, Program

(***************************************************************************)
(* The devices of the list, and those of the sessions that have got past   *)
(* insertDevice, are stored, as the connection sees it, or lost.           *)
(***************************************************************************)
Registered == {"create", "add", "put", "sync", "ready", "select", "flag"}

AllStored ==
  /\ \A i \in DOMAIN vec :
       LET d == Description(vec[i])
       IN  d \in lost \/ (d \in db /\ HasTable(columns, d))
  /\ \A s \in Sessions : pc[s] \in Registered => DescOf[s] \in db \cup lost
  /\ \A s \in Sessions :
       pc[s] = "add" => DescOf[s] \in lost \/ HasTable(columns, DescOf[s])

LEMMA NextStored ==
  TypeOK /\ Control /\ AllStored /\ [Next]_vars => AllStored'
<1>. SUFFICES ASSUME TypeOK, Control, AllStored, [Next]_vars PROVE AllStored'
  OBVIOUS
<1>. USE RegistryAssumption DEF memory, tables, database, handlers
<1>0. ASSUME NEW s \in Sessions, NEW place, Goto(s, place)
      PROVE  /\ pc'[s] = place
             /\ \A t \in Sessions \ {s} : pc'[t] = pc[t]
  BY <1>0 DEF Goto, TypeOK
<1>01. /\ vec \in Seq(Objects)
       /\ DOMAIN vec = 1 .. Len(vec)
       /\ Len(vec) \in Nat
       /\ \A i \in 1 .. Len(vec) : vec[i] \in Objects
       /\ \A o \in Objects : Description(o) \in Descs
       /\ \A s \in Sessions : Description(s) = DescOf[s] /\ DescOf[s] \in Descs
       /\ \A d \in Descs : Description(d) = d
  BY LenProperties DEF TypeOK, Objects, Description
<1>. DEFINE stored(d) == d \in lost \/ (d \in db /\ HasTable(columns, d))
            still(d) == d \in lost' \/ (d \in db' /\ HasTable(columns', d))
<1>02. /\ \A i \in DOMAIN vec : stored(Description(vec[i]))
       /\ \A s \in Sessions : pc[s] \in Registered => DescOf[s] \in db \cup lost
       /\ \A s \in Sessions :
            pc[s] = "add" => DescOf[s] \in lost \/ HasTable(columns, DescOf[s])
  BY DEF AllStored
<1>03. ASSUME \A i \in DOMAIN vec' : still(Description(vec'[i])),
              \A s \in Sessions : pc'[s] \in Registered => DescOf[s] \in db' \cup lost',
              \A s \in Sessions :
                pc'[s] = "add" => DescOf[s] \in lost' \/ HasTable(columns', DescOf[s])
       PROVE  AllStored'
  BY <1>03 DEF AllStored, HasTable, Description
<1>04. ASSUME NoneForgotten
       PROVE  /\ \A d \in Descs : stored(d) => still(d)
              /\ \A d \in Descs : d \in db \cup lost => d \in db' \cup lost'
              /\ \A d \in Descs : d \in lost \/ HasTable(columns, d)
                                    => d \in lost' \/ HasTable(columns', d)
  BY <1>04 DEF NoneForgotten
<1>. HIDE DEF stored, still
\* A step that leaves the list alone.
<1>05. ASSUME NoneForgotten, vec' = vec, NEW s \in Sessions, NEW place, Goto(s, place),
              place \in Registered => DescOf[s] \in db' \cup lost',
              place = "add" => DescOf[s] \in lost' \/ HasTable(columns', DescOf[s])
       PROVE  AllStored'
  <2>1. \A i \in DOMAIN vec' : still(Description(vec'[i]))
    BY <1>01, <1>02, <1>04, <1>05
  <2>2. \A t \in Sessions : pc'[t] \in Registered => DescOf[t] \in db' \cup lost'
    BY <1>0, <1>01, <1>02, <1>04, <1>05
  <2>3. \A t \in Sessions :
          pc'[t] = "add" => DescOf[t] \in lost' \/ HasTable(columns', DescOf[t])
    BY <1>0, <1>01, <1>02, <1>04, <1>05
  <2>. QED  BY <1>03, <2>1, <2>2, <2>3
<1>06. ASSUME NoneForgotten, vec' = vec, pc' = pc PROVE AllStored'
  <2>1. \A i \in DOMAIN vec' : still(Description(vec'[i]))
    BY <1>01, <1>02, <1>04, <1>06
  <2>2. \A t \in Sessions : pc'[t] \in Registered => DescOf[t] \in db' \cup lost'
    BY <1>01, <1>02, <1>04, <1>06
  <2>3. \A t \in Sessions :
          pc'[t] = "add" => DescOf[t] \in lost' \/ HasTable(columns', DescOf[t])
    BY <1>01, <1>02, <1>04, <1>06
  <2>. QED  BY <1>03, <2>1, <2>2, <2>3
\* The object o enters at the end.
<1>07. ASSUME NoneForgotten, NEW o \in Objects, vec' = Append(vec, o),
              still(Description(o))
       PROVE  \A i \in DOMAIN vec' : still(Description(vec'[i]))
  <2>1. /\ DOMAIN vec' = 1 .. Len(vec) + 1
        /\ \A i \in 1 .. Len(vec) : vec'[i] = vec[i]
        /\ vec'[Len(vec) + 1] = o
    BY <1>07, AppendEnters, LenProperties
  <2>2. ASSUME NEW i \in 1 .. Len(vec) PROVE still(Description(vec'[i]))
    BY <1>01, <1>02, <1>04, <1>07, <2>1
  <2>3. \A i \in DOMAIN vec' : i \in 1 .. Len(vec) \/ i = Len(vec) + 1
    BY <1>01, <2>1
  <2>. QED  BY <1>07, <2>1, <2>2, <2>3
\* A listed device is stored, and so is what a session brings that has it.
<1>08. \A d \in Descs : Listed(d) => d \in db \cup lost
  BY <1>02 DEF Listed, stored
<1>1. CASE Crash
  BY <1>1, EmptySeq DEF Crash, AllStored, Registered
<1>2. ASSUME NEW d \in Descs, LoadDevice(d), NoneForgotten PROVE AllStored'
  <2>1. d \in Objects /\ Description(d) = d /\ d \in db
    BY <1>01, <1>2 DEF LoadDevice, Objects
  <2>2. PICK made \in BOOLEAN : columns' = WithTable(d, made) /\ Storing(d, made)
    BY <1>2 DEF LoadDevice
  <2>3. vec' = Append(vec, d) /\ db' = db /\ pc' = pc
    BY <1>2 DEF LoadDevice
  <2>4. still(d)
    <3>1. CASE made
      BY <2>1, <2>2, <2>3, <3>1 DEF WithTable, HasTable, TypeOK, still
    <3>. QED  BY <2>2, <3>1 DEF Storing, still
  <2>5. \A i \in DOMAIN vec' : still(Description(vec'[i]))
    BY <1>07, <1>2, <2>1, <2>3, <2>4
  <2>6. \A t \in Sessions : pc'[t] \in Registered => DescOf[t] \in db' \cup lost'
    BY <1>01, <1>02, <1>04, <1>2, <2>3
  <2>7. \A t \in Sessions :
          pc'[t] = "add" => DescOf[t] \in lost' \/ HasTable(columns', DescOf[t])
    BY <1>01, <1>02, <1>04, <1>2, <2>3
  <2>. QED  BY <1>03, <2>5, <2>6, <2>7
<1>3. CASE StartServer /\ NoneForgotten
  BY <1>06, <1>3 DEF StartServer
<1>4. CASE Connection /\ NoneForgotten
  BY <1>06, <1>4 DEF Connection, SetManual, StatementFails, EndTransaction
<1>5. ASSUME NEW s \in Sessions, Event(s), NoneForgotten PROVE AllStored'
  <2>1. CASE Connect(s)
    BY <1>05, <1>5, <2>1 DEF Connect, Registered
  <2>2. CASE Vanish(s)
    BY <1>06, <1>5, <2>2 DEF Vanish
  <2>3. CASE Synchronize(s)
    BY <1>06, <1>5, <2>3 DEF Synchronize
  <2>4. CASE ReceiveDescription(s)
    BY <1>05, <1>5, <2>4 DEF ReceiveDescription, Registered
  <2>5. CASE Data(s)
    BY <1>06, <1>5, <2>5 DEF Data
  <2>6. CASE SessionClosed(s)
    <3>1. vec' = vec /\ UNCHANGED <<db, lost>>
      BY <2>6 DEF SessionClosed
    <3>2. CASE Goto(s, "unmap")
      BY <1>05, <1>5, <3>1, <3>2 DEF Registered
    <3>3. CASE Goto(s, "select") /\ s \in map
      <4>1. pc[s] \in Registered
        BY <2>6, <3>3 DEF SessionClosed, Control, Registered
      <4>. QED  BY <1>02, <1>05, <1>5, <3>1, <3>3, <4>1
    <3>. QED  BY <2>6, <3>2, <3>3 DEF SessionClosed
  <2>. QED  BY <1>5, <2>1, <2>2, <2>3, <2>4, <2>5, <2>6 DEF Event
<1>6. ASSUME NEW s \in Sessions, Handler(s), NoneForgotten PROVE AllStored'
  <2>0. DescOf[s] \in Descs /\ s \in Objects /\ Description(s) = DescOf[s]
    BY <1>01 DEF Objects
  \* A session that stays among the registered ones.
  <2>01. ASSUME vec' = vec, NEW place, Goto(s, place), pc[s] \in Registered,
                place # "add"
         PROVE  AllStored'
    BY <1>02, <1>04, <1>05, <1>6, <2>0, <2>01
  <2>02. ASSUME vec' = vec, NEW place, Goto(s, place), place \notin Registered
         PROVE  AllStored'
    BY <1>05, <1>6, <2>02 DEF Registered
  <2>1. CASE Acquire(s)
    BY <2>02, <2>1 DEF Acquire, Registered
  <2>2. CASE Replace(s)
    <3>1. /\ DOMAIN vec' = DOMAIN vec
          /\ \A i \in DOMAIN vec : Description(vec'[i]) = Description(vec[i])
      BY <1>01, <2>2, ReplaceKeeps, LenProperties
    <3>2. /\ Goto(s, "put")
          /\ Listed(DescOf[s])
          /\ UNCHANGED <<db, columns, lost>>
      BY <2>2 DEF Replace, Listed
    <3>3. \A i \in DOMAIN vec' : still(Description(vec'[i]))
      BY <1>01, <1>02, <1>04, <1>6, <3>1
    <3>4. \A t \in Sessions : pc'[t] \in Registered => DescOf[t] \in db' \cup lost'
      BY <1>0, <1>02, <1>08, <2>0, <3>2
    <3>5. \A t \in Sessions :
            pc'[t] = "add" => DescOf[t] \in lost' \/ HasTable(columns', DescOf[t])
      BY <1>0, <1>02, <3>2
    <3>. QED  BY <1>03, <3>3, <3>4, <3>5
  <2>3. CASE NewDevice(s)
    BY <2>02, <2>3 DEF NewDevice, Registered
  <2>4. CASE Insert(s)
    <3>1. DescOf[s] \in db' \cup lost'
      BY <2>4 DEF Insert, Inserted, Storing
    <3>. QED  BY <1>05, <1>6, <2>4, <3>1 DEF Insert
  <2>5. CASE CreateTable(s)
    <3>1. PICK made \in BOOLEAN :
            columns' = WithTable(DescOf[s], made) /\ Storing(DescOf[s], made)
      BY <2>5 DEF CreateTable
    <3>2. DescOf[s] \in lost' \/ HasTable(columns', DescOf[s])
      <4>1. CASE made
        BY <2>0, <3>1, <4>1 DEF WithTable, HasTable, TypeOK
      <4>. QED  BY <3>1, <4>1 DEF Storing
    <3>3. Goto(s, "add") /\ vec' = vec /\ pc[s] \in Registered
      BY <2>5 DEF CreateTable, Registered
    <3>4. DescOf[s] \in db' \cup lost'
      BY <1>02, <1>04, <1>6, <2>0, <3>3
    <3>. QED  BY <1>05, <1>6, <3>2, <3>3, <3>4
  <2>6. CASE Add(s)
    <3>1. /\ Goto(s, "put") /\ pc[s] = "add"
          /\ vec' = Append(vec, s)
          /\ UNCHANGED <<db, columns, lost>>
      BY <2>6 DEF Add
    <3>2. still(Description(s))
      BY <1>02, <2>0, <3>1 DEF Registered, still
    <3>3. \A i \in DOMAIN vec' : still(Description(vec'[i]))
      BY <1>07, <1>6, <2>0, <3>1, <3>2
    <3>4. \A t \in Sessions : pc'[t] \in Registered => DescOf[t] \in db' \cup lost'
      BY <1>0, <1>02, <3>1 DEF Registered
    <3>5. \A t \in Sessions :
            pc'[t] = "add" => DescOf[t] \in lost' \/ HasTable(columns', DescOf[t])
      BY <1>0, <1>02, <3>1
    <3>. QED  BY <1>03, <3>3, <3>4, <3>5
  <2>7. CASE Put(s)
    BY <2>01, <2>7 DEF Put, Registered
  <2>8. CASE AddSynchronizer(s)
    BY <2>01, <2>8 DEF AddSynchronizer, Registered
  <2>9. CASE SelectLast(s)
    BY <2>01, <2>9 DEF SelectLast, Registered
  <2>10. CASE FlagLast(s)
    BY <2>02, <2>10 DEF FlagLast, Registered
  <2>11. CASE Unmap(s)
    BY <2>02, <2>11 DEF Unmap, Registered
  <2>. QED  BY <1>6, <2>1, <2>2, <2>3, <2>4, <2>5, <2>6, <2>7, <2>8, <2>9,
               <2>10, <2>11 DEF Handler
<1>7. CASE UNCHANGED vars
  <2>1. NoneForgotten
    BY <1>7 DEF vars, NoneForgotten
  <2>. QED  BY <1>06, <1>7, <2>1 DEF vars
<1>8. NoneForgotten \/ Crash
  BY StepForgetsNone
<1>. QED  BY <1>1, <1>2, <1>3, <1>4, <1>5, <1>6, <1>7, <1>8 DEF Next, Program

(***************************************************************************)
(* The connection. In automatic commit the disk has what the connection    *)
(* sees; a device that is committed is seen; a transaction is only aborted,*)
(* and a device only lost, after a statement has failed; and while the     *)
(* program loads its devices nobody has switched to manual commit.         *)
(***************************************************************************)
Durable ==
  /\ commit = "auto" => disk = Seen
  /\ disk.db \subseteq db
  /\ commit = "aborted" => "sql" \in faults
  /\ lost # {} => "sql" \in faults
  /\ phase = "loading" => commit = "auto"

LEMMA NextDurable == TypeOK /\ Control /\ Durable /\ [Next]_vars => Durable'
<1>. SUFFICES ASSUME TypeOK, Control, Durable, [Next]_vars PROVE Durable'
  OBVIOUS
<1>. USE DEF memory, tables, database, handlers
<1>0. \A s \in Sessions : pc[s] \notin {"none", "done"} => phase = "serving"
  BY DEF Control, TypeOK
<1>01. ASSUME NEW ok \in BOOLEAN, Statement(ok)
       PROVE  /\ commit = "auto" <=> commit' = "auto"
              /\ commit' = "aborted" => "sql" \in faults'
              /\ faults \subseteq faults'
              /\ ~ ok => "sql" \in faults'
  BY <1>01 DEF Statement, Durable
\* A statement, and what it writes.
<1>02. ASSUME NEW ok \in BOOLEAN, Statement(ok), Persist, db \subseteq db',
              lost' # {} => lost # {} \/ "sql" \in faults',
              phase' = phase
       PROVE  Durable'
  <2>1. CASE commit = "auto"
    <3>1. commit' = "auto" /\ disk' = Seen'
      BY <1>01, <1>02, <2>1 DEF Persist
    <3>. QED  BY <1>01, <1>02, <3>1 DEF Durable, Seen
  <2>2. CASE commit # "auto"
    <3>1. commit' # "auto" /\ disk' = disk
      BY <1>01, <1>02, <2>2 DEF Persist
    <3>. QED  BY <1>01, <1>02, <2>2, <3>1 DEF Durable
  <2>. QED  BY <2>1, <2>2
\* A step that leaves the database alone.
<1>03. ASSUME UNCHANGED <<db, columns, rows, disk, commit, lost>>,
              faults \subseteq faults', phase' = phase
       PROVE  Durable'
  BY <1>03 DEF Durable, Seen
\* A statement that changes no table.
<1>04. ASSUME NEW ok \in BOOLEAN, Statement(ok),
              UNCHANGED <<db, columns, rows, disk, lost>>,
              phase' = "loading" => phase = "loading"
       PROVE  Durable'
  BY <1>01, <1>04 DEF Durable, Seen
<1>1. ASSUME NEW d \in Descs, LoadDevice(d) PROVE Durable'
  <2>1. PICK made \in BOOLEAN, closed \in BOOLEAN :
          Storing(d, made) /\ Statement(made /\ closed)
    BY <1>1 DEF LoadDevice
  <2>2. (made /\ closed) \in BOOLEAN
    OBVIOUS
  <2>3. lost' # {} => lost # {} \/ "sql" \in faults'
    <3>1. CASE made
      BY <2>1, <3>1 DEF Storing
    <3>2. CASE ~ made
      BY <2>1, <3>2 DEF Statement
    <3>. QED  BY <3>1, <3>2
  <2>. QED  BY <1>02, <1>1, <2>1, <2>2, <2>3 DEF LoadDevice
<1>2. CASE StartServer
  BY <1>04, <1>2 DEF StartServer
<1>3. CASE Crash
  BY <1>3 DEF Crash, Restore, Durable, Seen, TypeOK
<1>4. CASE Connection
  <2>1. CASE SetManual
    BY <2>1 DEF SetManual, Durable, Seen
  <2>2. CASE StatementFails
    BY <1>04, <2>2 DEF StatementFails
  <2>3. CASE EndTransaction
    <3>1. CASE commit = "aborted"
      <4>1. /\ Restore
            /\ commit' \in {"auto", "manual"}
            /\ phase' = phase /\ faults' = faults
        BY <2>3, <3>1 DEF EndTransaction
      <4>. QED  BY <3>1, <4>1 DEF Restore, Durable, Seen, TypeOK
    <3>2. CASE commit # "aborted"
      <4>1. /\ disk' = Seen
            /\ commit' \in {"auto", "manual"}
            /\ commit # "auto"
            /\ UNCHANGED <<db, columns, rows, lost, phase, faults>>
        BY <2>3, <3>2 DEF EndTransaction
      <4>. QED  BY <4>1 DEF Durable, Seen
    <3>. QED  BY <3>1, <3>2
  <2>. QED  BY <1>4, <2>1, <2>2, <2>3 DEF Connection
<1>5. ASSUME NEW s \in Sessions, Event(s) PROVE Durable'
  <2>1. CASE Data(s)
    <3>1. /\ commit # "aborted"
          /\ Persist
          /\ UNCHANGED <<db, commit, lost, faults, phase>>
      BY <2>1 DEF Data
    <3>2. Statement(TRUE)
      BY <3>1 DEF Statement
    <3>. QED  BY <1>02, <3>1, <3>2
  <2>2. CASE ~ Data(s)
    BY <1>03, <1>5, <2>2 DEF Event, Connect, Vanish, Synchronize,
                             ReceiveDescription, SessionClosed
  <2>. QED  BY <2>1, <2>2
<1>6. ASSUME NEW s \in Sessions, Handler(s) PROVE Durable'
  <2>1. CASE Insert(s)
    <3>1. PICK ok \in BOOLEAN :
            db' = Inserted(DescOf[s], ok) /\ Storing(DescOf[s], ok) /\ Statement(ok)
      BY <2>1 DEF Insert
    <3>2. db \subseteq db'
      BY <3>1 DEF Inserted
    <3>3. lost' # {} => lost # {} \/ "sql" \in faults'
      <4>1. CASE ok
        BY <3>1, <4>1 DEF Storing
      <4>2. CASE ~ ok
        BY <3>1, <4>2 DEF Statement
      <4>. QED  BY <4>1, <4>2
    <3>. QED  BY <1>02, <2>1, <3>1, <3>2, <3>3 DEF Insert
  <2>2. CASE CreateTable(s)
    <3>1. PICK made \in BOOLEAN, ok \in BOOLEAN :
            (ok => made) /\ Storing(DescOf[s], made) /\ Statement(ok)
      BY <2>2 DEF CreateTable
    <3>2. lost' # {} => lost # {} \/ "sql" \in faults'
      <4>1. CASE made
        BY <3>1, <4>1 DEF Storing
      <4>2. CASE ~ made
        BY <3>1, <4>2 DEF Statement
      <4>. QED  BY <4>1, <4>2
    <3>. QED  BY <1>02, <2>2, <3>1, <3>2 DEF CreateTable
  <2>3. CASE FlagLast(s)
    <3>1. PICK ok \in BOOLEAN : Statement(ok)
      BY <2>3 DEF FlagLast
    <3>. QED  BY <1>02, <2>3, <3>1 DEF FlagLast
  <2>4. CASE SelectLast(s)
    <3>1. PICK ok \in BOOLEAN : Statement(ok)
      BY <2>4 DEF SelectLast
    <3>. QED  BY <1>04, <2>4, <3>1 DEF SelectLast
  <2>5. CASE ~ Insert(s) /\ ~ CreateTable(s) /\ ~ FlagLast(s) /\ ~ SelectLast(s)
    BY <1>03, <1>6, <2>5 DEF Handler, Acquire, Replace, NewDevice, Add, Put,
                             AddSynchronizer, Unmap, SetMap
  <2>. QED  BY <2>1, <2>2, <2>3, <2>4, <2>5
<1>7. CASE UNCHANGED vars
  BY <1>03, <1>7 DEF vars
<1>. QED  BY <1>1, <1>2, <1>3, <1>4, <1>5, <1>6, <1>7 DEF Next, Program

(***************************************************************************)
(* The epochs. Unless something has failed: a session that records has its *)
(* device in the map, so closing it closes the epoch; rows belong to a     *)
(* device of the database, so loading it closes the epoch; and a last row  *)
(* without flag has a session that will flag that very row. That some      *)
(* session is about to flag a row would not do: it may have selected an    *)
(* earlier one.                                                            *)
(***************************************************************************)
EndsEpoch(q) == Len(q) # 0 => q[Len(q)].end_of_epoch

Mapped == {"sync", "ready", "select", "flag"}

WillClose(s) ==
  \/ pc[s] \in {"ready", "select"}
  \/ pc[s] = "flag" /\ selected[s] = Len(rows[Name(s)])

Epochs ==
  faults = {} =>
    /\ \A s \in Sessions : pc[s] \in Mapped => s \in map
    /\ \A n \in Names : Len(rows[n]) # 0 => \E d \in db : NameOf[d] = n
    /\ phase = "loading" =>
         \A d \in Descs : Listed(d) => EndsEpoch(rows[NameOf[d]])
    /\ phase = "serving" =>
         \A n \in Names :
           EndsEpoch(rows[n]) \/ \E s \in Sessions : Name(s) = n /\ WillClose(s)

\* The same of the rows on disk, which a restart brings back.
RowsOnDisk ==
  faults = {} =>
    \A n \in Names : Len(disk.rows[n]) # 0 => \E d \in disk.db : NameOf[d] = n

\* The last row is flagged if it is the one selected, and stays flagged.
LEMMA FlaggedEnds ==
  ASSUME TypeOK, NEW n \in Names, NEW i, rows' = Flagged(n, i, TRUE)
  PROVE  /\ \A m \in Names :
              /\ Len(rows'[m]) = Len(rows[m])
              /\ EndsEpoch(rows[m]) => EndsEpoch(rows'[m])
         /\ i = Len(rows[n]) => EndsEpoch(rows'[n])
<1>1. \A m \in Names : Len(rows[m]) \in Nat
  BY LenProperties DEF TypeOK
<1>2. \A m \in Names :
        /\ Len(rows'[m]) = Len(rows[m])
        /\ \A j \in 1 .. Len(rows[m]) :
             rows'[m][j].end_of_epoch
               <=> rows[m][j].end_of_epoch \/ (m = n /\ j = i)
  <2>1. PICK ok \in BOOLEAN : ok = TRUE
    OBVIOUS
  <2>2. rows' = Flagged(n, i, ok)
    BY <2>1
  <2>3. \A m \in Names :
          /\ Len(Flagged(n, i, ok)[m]) = Len(rows[m])
          /\ \A j \in 1 .. Len(rows[m]) :
               Flagged(n, i, ok)[m][j].end_of_epoch
                 <=> rows[m][j].end_of_epoch \/ (ok /\ m = n /\ j = i)
    BY FlaggedRows
  <2>. QED  BY <2>1, <2>2, <2>3
<1>3. \A m \in Names : Len(rows[m]) # 0 => Len(rows[m]) \in 1 .. Len(rows[m])
  BY <1>1
<1>. QED  BY <1>2, <1>3 DEF EndsEpoch

LEMMA NextEpochs ==
  TypeOK /\ Control /\ AllStored /\ Durable /\ Epochs /\ RowsOnDisk /\ [Next]_vars
    => Epochs'
<1>. SUFFICES ASSUME TypeOK, Control, AllStored, Durable, Epochs, RowsOnDisk,
                     [Next]_vars
              PROVE  Epochs'
  OBVIOUS
<1>. SUFFICES ASSUME faults' = {} PROVE Epochs'
  BY DEF Epochs
<1>. USE RegistryAssumption DEF memory, tables, database, handlers
<1>0. ASSUME NEW s \in Sessions, NEW place, Goto(s, place)
      PROVE  /\ pc'[s] = place
             /\ \A t \in Sessions \ {s} : pc'[t] = pc[t]
  BY <1>0 DEF Goto, TypeOK
<1>01. /\ faults = {}
       /\ \A s \in Sessions : pc[s] \in Mapped => s \in map
       /\ \A n \in Names : Len(rows[n]) # 0 => \E d \in db : NameOf[d] = n
       /\ phase = "loading" =>
            \A d \in Descs : Listed(d) => EndsEpoch(rows[NameOf[d]])
       /\ phase = "serving" =>
            \A n \in Names :
              \/ EndsEpoch(rows[n])
              \/ \E s \in Sessions : Name(s) = n /\ WillClose(s)
  <2>1. faults = {}
    BY FaultsGrow
  <2>. QED  BY <2>1 DEF Epochs
<1>02. \A n \in Names : Len(rows[n]) \in Nat
  BY LenProperties DEF TypeOK
<1>05. \A n \in Names : Len(disk.rows[n]) # 0 => \E d \in disk.db : NameOf[d] = n
  BY <1>01 DEF RowsOnDisk
\* A step of a session that leaves rows and selections alone, and does not give
\* up closing an epoch.
<1>03. ASSUME NEW s \in Sessions, NEW place, Goto(s, place),
              phase = "serving",
              UNCHANGED <<phase, rows, selected>>,
              db \subseteq db',
              map \subseteq map' \cup {s},
              place \in Mapped => s \in map',
              WillClose(s) => place \in {"ready", "select"}
       PROVE  Epochs'
  <2>1. \A t \in Sessions : pc'[t] \in Mapped => t \in map'
    BY <1>0, <1>01, <1>03
  <2>2. ASSUME NEW t \in Sessions, WillClose(t) PROVE WillClose(t)'
    BY <1>0, <1>03, <2>2 DEF WillClose, Name
  <2>3. \A n \in Names :
          EndsEpoch(rows[n]) \/ \E t \in Sessions : Name(t) = n /\ WillClose(t)'
    BY <1>01, <1>03, <2>2
  <2>4. \A n \in Names : Len(rows[n]) # 0 => \E d \in db' : NameOf[d] = n
    BY <1>01, <1>03
  <2>. QED  BY <1>03, <2>1, <2>3, <2>4 DEF Epochs, Name
<1>04. ASSUME UNCHANGED <<phase, pc, map, rows, db, vec, selected>> PROVE Epochs'
  BY <1>01, <1>04 DEF Epochs, EndsEpoch, WillClose, Listed, Name, Description
<1>1. ASSUME NEW d \in Descs, LoadDevice(d) PROVE Epochs'
  <2>1. /\ phase = "loading"
        /\ UNCHANGED <<phase, pc, map, db>>
        /\ vec' = Append(vec, d)
    BY <1>1 DEF LoadDevice
  <2>2. PICK made \in BOOLEAN, closed \in BOOLEAN :
          /\ rows' = Flagged(NameOf[d], Len(rows[NameOf[d]]), closed)
          /\ Statement(made /\ closed)
    BY <1>1 DEF LoadDevice
  <2>3. closed = TRUE
    BY <2>2 DEF Statement
  <2>4. /\ \A m \in Names :
             /\ Len(rows'[m]) = Len(rows[m])
             /\ EndsEpoch(rows[m]) => EndsEpoch(rows'[m])
        /\ EndsEpoch(rows'[NameOf[d]])
    BY <2>2, <2>3, FlaggedEnds
  <2>5. ASSUME NEW c \in Descs, Listed(c)' PROVE Listed(c) \/ c = d
    <3>1. d \in Objects /\ Description(d) = d
      BY DEF Objects, Description
    <3>2. /\ DOMAIN vec = 1 .. Len(vec)
          /\ Len(vec) \in Nat
          /\ DOMAIN vec' = 1 .. Len(vec) + 1
          /\ \A i \in 1 .. Len(vec) : vec'[i] = vec[i]
          /\ vec'[Len(vec) + 1] = d
      BY <2>1, <3>1, AppendEnters, LenProperties DEF TypeOK
    <3>. QED  BY <2>5, <3>1, <3>2 DEF Listed, Description
  <2>6. \A c \in Descs : Listed(c)' => EndsEpoch(rows'[NameOf[c]])
    BY <1>01, <2>1, <2>4, <2>5
  <2>7. \A s \in Sessions : pc'[s] \in Mapped => s \in map'
    BY <1>01, <2>1
  <2>8. \A n \in Names : Len(rows'[n]) # 0 => \E c \in db' : NameOf[c] = n
    BY <1>01, <2>1, <2>4
  <2>9. phase' = "loading"
    BY <2>1
  <2>. QED  BY <2>6, <2>7, <2>8, <2>9 DEF Epochs
<1>2. CASE StartServer
  <2>1. /\ phase = "loading"
        /\ phase' = "serving"
        /\ UNCHANGED <<pc, map, rows, db>>
        /\ \A d \in db : Listed(d)
    BY <1>2 DEF StartServer, Statement
  <2>2. \A n \in Names : EndsEpoch(rows[n])
    BY <1>01, <2>1 DEF TypeOK, EndsEpoch
  <2>. QED  BY <1>01, <2>1, <2>2 DEF Epochs
<1>3. CASE Crash
  <2>1. /\ phase' = "loading"
        /\ \A s \in Sessions : pc'[s] \notin Mapped
        /\ \A d \in Descs : ~ Listed(d)'
        /\ rows' = disk.rows
        /\ db' = disk.db
    BY <1>3 DEF Crash, Restore, Mapped, Listed
  <2>2. \A n \in Names : Len(rows'[n]) # 0 => \E d \in db' : NameOf[d] = n
    BY <1>05, <2>1
  <2>. QED  BY <2>1, <2>2 DEF Epochs
<1>31. CASE Connection
  <2>1. CASE SetManual
    BY <1>04, <2>1 DEF SetManual
  <2>2. CASE StatementFails
    BY <1>04, <2>2 DEF StatementFails
  <2>3. CASE EndTransaction
    <3>1. commit # "aborted"
      BY <1>01 DEF Durable
    <3>. QED  BY <1>04, <2>3, <3>1 DEF EndTransaction
  <2>. QED  BY <1>31, <2>1, <2>2, <2>3 DEF Connection
<1>4. ASSUME NEW s \in Sessions, Event(s) PROVE Epochs'
  <2>1. CASE Connect(s)
    BY <1>03, <2>1 DEF Connect, Mapped, WillClose
  <2>2. CASE Vanish(s)
    BY <1>04, <2>2 DEF Vanish
  <2>3. CASE Synchronize(s)
    BY <1>04, <2>3 DEF Synchronize
  <2>4. CASE ReceiveDescription(s)
    <3>1. phase = "serving"
      BY <2>4 DEF ReceiveDescription, Control, TypeOK
    <3>. QED  BY <1>03, <2>4, <3>1 DEF ReceiveDescription, Mapped, WillClose
  <2>5. CASE Data(s)
    <3>. DEFINE n == Name(s)
                row == [by |-> s, end_of_epoch |-> FALSE]
    <3>1. /\ phase = "serving"
          /\ pc[s] = "ready"
          /\ UNCHANGED <<phase, pc, map, selected, db>>
          /\ rows' = [rows EXCEPT ![n] = Append(rows[n], row)]
      BY <2>5 DEF Data, Control, TypeOK
    <3>. HIDE DEF row
    <3>2. DescOf[s] \in db /\ NameOf[DescOf[s]] = n
      BY <1>01, <3>1 DEF AllStored, Durable, Registered, Name
    <3>3. n \in Names /\ \A m \in Names \ {n} : rows'[m] = rows[m]
      BY <3>1 DEF TypeOK, Name
    <3>. HIDE DEF n
    <3>4. \A m \in Names : Len(rows'[m]) # 0 => \E d \in db : NameOf[d] = m
      BY <1>01, <3>2, <3>3
    <3>5. ASSUME NEW m \in Names
          PROVE  \/ EndsEpoch(rows'[m])
                 \/ \E t \in Sessions : Name(t) = m /\ WillClose(t)'
      <4>1. CASE m = n
        <5>1. Name(s) = m /\ WillClose(s)'
          BY <3>1, <4>1 DEF WillClose, n
        <5>. QED  BY <5>1
      <4>2. CASE m # n
        <5>1. ASSUME NEW t \in Sessions, Name(t) = m, WillClose(t)
              PROVE  WillClose(t)'
          BY <3>1, <3>3, <4>2, <5>1 DEF WillClose, Name
        <5>. QED  BY <1>01, <3>1, <3>3, <4>2, <5>1
      <4>. QED  BY <4>1, <4>2
    <3>6. \A t \in Sessions : pc'[t] \in Mapped => t \in map'
      BY <1>01, <3>1
    <3>. QED  BY <3>1, <3>4, <3>5, <3>6 DEF Epochs, Name
  <2>6. CASE SessionClosed(s)
    <3>1. phase = "serving"
      BY <2>6 DEF SessionClosed, Control, TypeOK
    <3>2. /\ pc[s] \in {"open", "ready"}
          /\ Goto(s, IF s \in map THEN "select" ELSE "unmap")
          /\ UNCHANGED <<phase, rows, selected, db, map>>
      BY <2>6 DEF SessionClosed
    <3>3. CASE s \in map
      BY <1>03, <3>1, <3>2, <3>3
    <3>4. CASE s \notin map
      <4>1. ~ WillClose(s)
        BY <1>01, <3>2, <3>4 DEF WillClose, Mapped
      <4>. QED  BY <1>03, <3>1, <3>2, <3>4, <4>1 DEF Mapped
    <3>. QED  BY <3>3, <3>4
  <2>. QED  BY <1>4, <2>1, <2>2, <2>3, <2>4, <2>5, <2>6 DEF Event
<1>5. ASSUME NEW s \in Sessions, Handler(s) PROVE Epochs'
  <2>0. phase = "serving" /\ phase' = phase
    BY <1>5 DEF Handler, Control, TypeOK, Acquire, Replace, NewDevice, Insert,
                CreateTable, Add, Put, AddSynchronizer, SelectLast, FlagLast,
                Unmap
  <2>1. CASE Acquire(s)
    BY <1>03, <2>0, <2>1 DEF Acquire, Mapped, WillClose
  <2>2. CASE Replace(s)
    BY <1>03, <2>0, <2>2 DEF Replace, Mapped, WillClose
  <2>3. CASE NewDevice(s)
    BY <1>03, <2>0, <2>3 DEF NewDevice, Mapped, WillClose
  <2>4. CASE Insert(s)
    BY <1>03, <2>0, <2>4 DEF Insert, Inserted, Mapped, WillClose
  <2>5. CASE CreateTable(s)
    BY <1>03, <2>0, <2>5 DEF CreateTable, Mapped, WillClose
  <2>6. CASE Add(s)
    BY <1>03, <2>0, <2>6 DEF Add, Mapped, WillClose
  <2>7. CASE Put(s)
    BY <1>03, <2>0, <2>7 DEF Put, SetMap, Mapped, WillClose
  <2>8. CASE AddSynchronizer(s)
    BY <1>01, <1>03, <2>0, <2>8 DEF AddSynchronizer, Mapped
  <2>9. CASE SelectLast(s)
    <3>1. /\ pc[s] = "select"
          /\ selected' = [selected EXCEPT ![s] = Len(rows[Name(s)])]
          /\ Goto(s, "flag")
          /\ UNCHANGED <<map, rows, db>>
      BY <2>9 DEF SelectLast, Statement
    <3>2. /\ selected'[s] = Len(rows[Name(s)])
          /\ \A t \in Sessions \ {s} : selected'[t] = selected[t]
      BY <3>1 DEF TypeOK
    <3>3. ASSUME NEW t \in Sessions, WillClose(t) PROVE WillClose(t)'
      BY <1>0, <3>1, <3>2, <3>3 DEF WillClose, Name
    <3>4. \A n \in Names :
            \/ EndsEpoch(rows[n])
            \/ \E t \in Sessions : Name(t) = n /\ WillClose(t)'
      BY <1>01, <2>0, <3>3
    <3>5. \A t \in Sessions : pc'[t] \in Mapped => t \in map'
      BY <1>0, <1>01, <3>1 DEF Mapped
    <3>6. \A n \in Names : Len(rows'[n]) # 0 => \E d \in db' : NameOf[d] = n
      BY <1>01, <3>1
    <3>. QED  BY <2>0, <3>1, <3>4, <3>5, <3>6 DEF Epochs, Name
  <2>10. CASE FlagLast(s)
    <3>. DEFINE n == Name(s)
    <3>1. /\ pc[s] = "flag"
          /\ rows' = Flagged(n, selected[s], TRUE)
          /\ selected' = [selected EXCEPT ![s] = 0]
          /\ Goto(s, "unmap")
          /\ UNCHANGED <<map, db>>
      BY <2>10 DEF FlagLast, Statement
    <3>2. n \in Names
      BY DEF TypeOK, Name
    <3>3. /\ \A m \in Names :
               /\ Len(rows'[m]) = Len(rows[m])
               /\ EndsEpoch(rows[m]) => EndsEpoch(rows'[m])
          /\ selected[s] = Len(rows[n]) => EndsEpoch(rows'[n])
      BY <3>1, <3>2, FlaggedEnds
    <3>4. \A t \in Sessions \ {s} : selected'[t] = selected[t]
      BY <3>1 DEF TypeOK
    <3>5. ASSUME NEW t \in Sessions, t # s, WillClose(t) PROVE WillClose(t)'
      <4>1. pc'[t] = pc[t]
        BY <1>0, <3>1, <3>5
      <4>2. Name(t) \in Names
        BY DEF TypeOK, Name
      <4>. QED  BY <3>3, <3>4, <3>5, <4>1, <4>2 DEF WillClose, Name
    <3>6. ASSUME NEW m \in Names
          PROVE  \/ EndsEpoch(rows'[m])
                 \/ \E t \in Sessions : Name(t) = m /\ WillClose(t)'
      <4>1. CASE EndsEpoch(rows[m])
        BY <3>3, <4>1
      <4>2. ASSUME NEW t \in Sessions, Name(t) = m, WillClose(t)
            PROVE  EndsEpoch(rows'[m]) \/ WillClose(t)'
        <5>1. CASE t = s
          BY <3>1, <3>3, <4>2, <5>1 DEF WillClose
        <5>. QED  BY <3>5, <4>2, <5>1
      <4>. QED  BY <1>01, <2>0, <4>1, <4>2
    <3>7. \A t \in Sessions : pc'[t] \in Mapped => t \in map'
      BY <1>0, <1>01, <3>1 DEF Mapped
    <3>8. \A m \in Names : Len(rows'[m]) # 0 => \E d \in db' : NameOf[d] = m
      BY <1>01, <3>1, <3>3
    <3>. QED  BY <2>0, <3>6, <3>7, <3>8 DEF Epochs, Name
  <2>11. CASE Unmap(s)
    BY <1>03, <2>0, <2>11 DEF Unmap, SetMap, Mapped, WillClose
  <2>. QED  BY <1>5, <2>1, <2>2, <2>3, <2>4, <2>5, <2>6, <2>7, <2>8, <2>9,
               <2>10, <2>11 DEF Handler
<1>6. CASE UNCHANGED vars
  BY <1>04, <1>6 DEF vars
<1>. QED  BY <1>1, <1>2, <1>3, <1>31, <1>4, <1>5, <1>6 DEF Next, Program

LEMMA NextRowsOnDisk ==
  RowsOnDisk /\ Epochs' /\ [Next]_vars => RowsOnDisk'
<1>. SUFFICES ASSUME RowsOnDisk, Epochs', [Next]_vars, faults' = {}
              PROVE  RowsOnDisk'
  BY DEF RowsOnDisk
<1>1. CASE disk' = disk
  <2>1. faults = {}
    BY FaultsGrow
  <2>. QED  BY <1>1, <2>1 DEF RowsOnDisk
<1>2. CASE disk' = Seen'
  BY <1>2 DEF Epochs, RowsOnDisk, Seen
<1>. QED  BY <1>1, <1>2, DiskStep

(***************************************************************************)
(* The inductive invariant.                                                *)
(***************************************************************************)
IInv ==
  /\ TypeOK
  /\ Control
  /\ IndexLeadsHome
  /\ AllStored
  /\ Durable
  /\ Epochs
  /\ RowsOnDisk

LEMMA Inductive == Spec => []IInv
<1>1. Init => IInv
  <2>. SUFFICES ASSUME Init PROVE IInv
    OBVIOUS
  <2>1. Control
    BY DEF Init, Control, Holding
  <2>2. IndexLeadsHome
    BY DEF Init, IndexLeadsHome
  <2>3. AllStored
    BY DEF Init, AllStored, Registered
  <2>4. Epochs /\ RowsOnDisk
    BY EmptySeq DEF Init, Epochs, RowsOnDisk, Mapped, Listed, Seen
  <2>5. Durable
    BY DEF Init, Durable, Seen
  <2>. QED  BY InitTypeOK, <2>1, <2>2, <2>3, <2>4, <2>5 DEF IInv
<1>2. IInv /\ [Next]_vars => IInv'
  BY NextTypeOK, NextControl, NextHome, NextStored, NextDurable, NextEpochs,
     NextRowsOnDisk DEF IInv
<1>. QED  BY <1>1, <1>2, PTL DEF Spec

(***************************************************************************)
(* Type correctness of the registry.                                       *)
(***************************************************************************)
THEOREM TypeCorrect == Spec => []TypeOK
<1>1. IInv => TypeOK
  BY DEF IInv
<1>. QED  BY <1>1, Inductive, PTL

(***************************************************************************)
(* An index given to a device by getDirectDevice or loadDevices leads to   *)
(* that device as long as the program runs, however often its object is    *)
(* replaced and whatever fails.                                            *)
(***************************************************************************)
THEOREM IndexKept == Spec => []IndexLeadsHome
<1>1. IInv => IndexLeadsHome
  BY DEF IInv
<1>. QED  BY <1>1, Inductive, PTL

(***************************************************************************)
(* Every device of the list has its row and a table for its rows, on disk  *)
(* too while the connection commits automatically, but for the devices     *)
(* whose own statement failed and those undone with a transaction in which *)
(* somebody else's did: through history requests, aborted transactions and *)
(* restarts at any point.                                                  *)
(***************************************************************************)
THEOREM DevicesStored == Spec => []ListIsStored
<1>1. IInv => ListIsStored
  <2>. SUFFICES ASSUME IInv, NEW i \in DOMAIN vec
                PROVE  LET d == Description(vec[i])
                       IN  \/ d \in lost
                           \/ /\ Stored(d, Seen)
                              /\ commit = "auto" => Stored(d, disk)
    BY DEF ListIsStored
  <2>1. LET d == Description(vec[i])
        IN  d \in lost \/ (d \in db /\ HasTable(columns, d))
    BY DEF IInv, AllStored
  <2>2. commit = "auto" => disk = Seen
    BY DEF IInv, Durable
  <2>. QED  BY <2>1, <2>2 DEF Stored, Seen, HasTable
<1>. QED  BY <1>1, Inductive, PTL

(***************************************************************************)
(* Unless something has failed, closeEpoch and loadDevices between them    *)
(* leave no last row without flag when no session records any more.        *)
(***************************************************************************)
THEOREM EpochsEnd == Spec => []LastEpochIsClosed
<1>1. IInv => LastEpochIsClosed
  <2>. SUFFICES ASSUME IInv, phase = "serving", faults = {}, NEW n \in Names
                PROVE  \/ rows[n] = <<>>
                       \/ Last(rows[n]).end_of_epoch
                       \/ \E s \in Sessions : Name(s) = n /\ Recording(s)
    BY DEF LastEpochIsClosed
  <2>1. CASE EndsEpoch(rows[n])
    BY <2>1, EmptySeq DEF EndsEpoch, Last, IInv, TypeOK
  <2>2. CASE \E s \in Sessions : Name(s) = n /\ WillClose(s)
    BY <2>2 DEF WillClose, Recording
  <2>. QED  BY <2>1, <2>2 DEF IInv, Epochs
<1>. QED  BY <1>1, Inductive, PTL

(***************************************************************************)
(* What DeviceTable sees of a list of objects, and of it after a step.     *)
(***************************************************************************)
Described(list) == [i \in DOMAIN list |-> Description(list[i])]

LEMMA DescribedList ==
  ASSUME NEW list \in Seq(Objects)
  PROVE  /\ Described(list) \in Seq(Descs)
         /\ Len(list) \in Nat
         /\ Len(Described(list)) = Len(list)
         /\ \A i \in 1 .. Len(list) : Described(list)[i] = Description(list[i])
<1>1. /\ Len(list) \in Nat
      /\ DOMAIN list = 1 .. Len(list)
      /\ \A i \in 1 .. Len(list) : list[i] \in Objects
  BY LenProperties
<1>2. \A o \in Objects : Description(o) \in Descs
  BY RegistryAssumption DEF Objects, Description
<1>3. Described(list) = [i \in 1 .. Len(list) |-> Description(list[i])]
  BY <1>1 DEF Described
<1>4. Described(list) \in [1 .. Len(list) -> Descs]
  BY <1>1, <1>2, <1>3
<1>5. Described(list) \in Seq(Descs)
  BY <1>1, <1>4, SeqDef
<1>6. Len(Described(list)) = Len(list)
  BY <1>1, <1>4, <1>5, LenProperties
<1>. QED  BY <1>1, <1>3, <1>5, <1>6

LEMMA DescribedReplace ==
  ASSUME TypeOK, NEW s \in Sessions, Replace(s)
  PROVE  Described(vec') = Described(vec)
<1>1. vec \in Seq(Objects)
  BY DEF TypeOK
<1>. QED  BY <1>1, ReplaceKeeps, DescribedList, SeqEqual

LEMMA DescribedAppend ==
  ASSUME TypeOK, NEW o \in Objects, vec' = Append(vec, o)
  PROVE  /\ Described(vec') = Append(Described(vec), Description(o))
         /\ ~ Listed(Description(o)) => Description(o) \notin Range(Described(vec))
<1>. DEFINE d == Description(o)
            old == Described(vec)
            new == Described(vec')
<1>1. /\ vec \in Seq(Objects)
      /\ vec' \in Seq(Objects)
      /\ Len(vec') = Len(vec) + 1
      /\ \A i \in 1 .. Len(vec) : vec'[i] = vec[i]
      /\ vec'[Len(vec) + 1] = o
  BY AppendEnters DEF TypeOK
<1>2. d \in Descs
  BY RegistryAssumption DEF Objects, Description
<1>3. /\ old \in Seq(Descs)
      /\ Len(vec) \in Nat
      /\ Len(old) = Len(vec)
      /\ \A i \in 1 .. Len(vec) : old[i] = Description(vec[i])
  BY <1>1, DescribedList
<1>4. /\ new \in Seq(Descs)
      /\ Len(new) = Len(vec')
      /\ \A i \in 1 .. Len(vec') : new[i] = Description(vec'[i])
  BY <1>1, DescribedList
<1>5. ~ Listed(d) => d \notin Range(old)
  BY <1>1, <1>3, LenProperties DEF Listed, Range
<1>. HIDE DEF d, old, new
<1>6. /\ Append(old, d) \in Seq(Descs)
      /\ Len(Append(old, d)) = Len(vec) + 1
      /\ \A i \in 1 .. Len(vec) : Append(old, d)[i] = old[i]
      /\ Append(old, d)[Len(vec) + 1] = d
  BY <1>2, <1>3, AppendProperties
<1>7. ASSUME NEW i \in 1 .. Len(new) PROVE new[i] = Append(old, d)[i]
  <2>1. CASE i \in 1 .. Len(vec)
    BY <1>1, <1>3, <1>4, <1>6, <2>1
  <2>2. CASE i = Len(vec) + 1
    BY <1>1, <1>3, <1>4, <1>6, <2>2 DEF d
  <2>. QED  BY <1>1, <1>3, <1>4, <2>1, <2>2
<1>8. new = Append(old, d)
  BY <1>1, <1>4, <1>6, <1>7, SeqEqual
<1>. QED  BY <1>5, <1>8 DEF d, old, new

(***************************************************************************)
(* The list, which the handlers of all sessions extend under the mutex,    *)
(* and the devices on disk implement DeviceTable: replacing an object      *)
(* changes nothing, adding one enters a device that has no place yet, what *)
(* is committed stores devices, and nothing takes one from the disk again. *)
(***************************************************************************)
LEMMA NextTable ==
  TypeOK /\ Control /\ Durable /\ [Next]_vars
    => [Table!Next]_<<Descriptions, disk.db>>
<1>. SUFFICES ASSUME TypeOK, Control, Durable, [Next]_vars
              PROVE  \/ Table!Store \/ Table!Enter \/ Table!Restart
                     \/ UNCHANGED <<Descriptions, disk.db>>
  BY DEF Table!Next
<1>. USE DEF memory, tables, database, handlers
<1>0. Descriptions = Described(vec) /\ Descriptions' = Described(vec')
  BY DEF Descriptions, Described, Description
<1>01. ASSUME NEW o \in Objects, vec' = Append(vec, o), disk'.db = disk.db,
              ~ Listed(Description(o))
       PROVE  Table!Enter
  <2>1. Description(o) \in Descs
    BY RegistryAssumption DEF Objects, Description
  <2>2. /\ Descriptions' = Append(Descriptions, Description(o))
        /\ Description(o) \notin Range(Descriptions)
    BY <1>0, <1>01, DescribedAppend
  <2>3. Description(o) \notin Table!Range(Descriptions)
    BY <2>2 DEF Range, Table!Range
  <2>. QED  BY <1>01, <2>1, <2>2, <2>3 DEF Table!Enter
\* A step that leaves the list as it is described: what it commits is stored.
<1>02. ASSUME Descriptions' = Descriptions PROVE Table!Store
  <2>1. TypeOK'
    BY NextTypeOK
  <2>2. disk'.db \in SUBSET Descs /\ disk.db \subseteq db
    BY <2>1 DEF TypeOK, Durable
  <2>3. disk.db \subseteq disk'.db
    <3>1. CASE disk' = disk
      BY <3>1
    <3>2. CASE disk' = Seen' /\ db \subseteq db'
      BY <2>2, <3>2 DEF Seen
    <3>. QED  BY <3>1, <3>2, DiskStep
  <2>4. disk'.db = disk.db \cup disk'.db
    BY <2>3
  <2>. QED  BY <1>02, <2>2, <2>4 DEF Table!Store
<1>03. ASSUME vec' = vec PROVE Table!Store
  BY <1>0, <1>02, <1>03
<1>1. ASSUME NEW d \in Descs, LoadDevice(d) PROVE Table!Enter
  <2>1. d \in Objects /\ Description(d) = d
    BY RegistryAssumption DEF Objects, Description
  <2>2. commit = "auto" /\ disk = Seen
    BY <1>1 DEF LoadDevice, Durable
  <2>3. disk' = Seen' /\ db' = db
    BY <1>1, <2>2 DEF LoadDevice, Persist
  <2>4. disk'.db = disk.db
    BY <2>2, <2>3 DEF Seen
  <2>. QED  BY <1>01, <1>1, <2>1, <2>4 DEF LoadDevice
<1>2. CASE StartServer
  BY <1>03, <1>2 DEF StartServer
<1>3. CASE Crash
  <2>1. Descriptions' = <<>>
    BY <1>0, <1>3, DescribedList, EmptySeq DEF Crash
  <2>. QED  BY <1>3, <2>1 DEF Crash, Restore, Table!Restart
<1>31. CASE Connection
  BY <1>03, <1>31 DEF Connection, SetManual, StatementFails, EndTransaction
<1>4. ASSUME NEW s \in Sessions, Event(s) PROVE Table!Store
  BY <1>03, <1>4 DEF Event, Connect, Vanish, Synchronize, ReceiveDescription,
                     Data, SessionClosed
<1>5. ASSUME NEW s \in Sessions, Handler(s) PROVE Table!Store \/ Table!Enter
  <2>0. s \in Objects /\ Description(s) = DescOf[s] /\ DescOf[s] \in Descs
    BY RegistryAssumption DEF Objects, Description
  <2>1. CASE Replace(s)
    BY <1>0, <1>02, <2>1, DescribedReplace
  <2>2. CASE Add(s)
    <3>1. ~ Listed(DescOf[s])
      BY <2>2 DEF Add, Control, Holding
    <3>. QED  BY <1>01, <2>0, <2>2, <3>1 DEF Add
  <2>3. CASE ~ Replace(s) /\ ~ Add(s)
    BY <1>03, <1>5, <2>3
       DEF Handler, Acquire, NewDevice, Insert, CreateTable, Put,
           AddSynchronizer, SelectLast, FlagLast, Unmap
  <2>. QED  BY <2>1, <2>2, <2>3
<1>6. CASE UNCHANGED vars
  BY <1>03, <1>6 DEF vars
<1>. QED  BY <1>1, <1>2, <1>3, <1>31, <1>4, <1>5, <1>6 DEF Next, Program

(***************************************************************************)
(* The device list with its places, extended by the handlers of all        *)
(* sessions, and the committed table devices implement DeviceTable.        *)
(***************************************************************************)
THEOREM Implementation == Spec => ImplementsTable
<1>1. Init => Table!Init
  <2>. SUFFICES ASSUME Init PROVE Descriptions = <<>> /\ disk.db = {}
    BY DEF Table!Init
  <2>1. vec = <<>> /\ disk.db = {}
    BY DEF Init, Seen
  <2>2. Descriptions = Described(<<>>)
    BY <2>1 DEF Descriptions, Described
  <2>. QED  BY <2>1, <2>2, DescribedList, EmptySeq
<1>2. IInv /\ [Next]_vars => [Table!Next]_<<Descriptions, disk.db>>
  BY NextTable DEF IInv
<1>. QED  BY <1>1, <1>2, Inductive, PTL DEF Spec, ImplementsTable, Table!Spec
=============================================================================
