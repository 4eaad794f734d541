------------------------------- MODULE WebPage -------------------------------
(***************************************************************************)
(* The page in one browser: the devices it has descriptions of, their      *)
(* charts and axes, the tree (jstree, external) and the dashboards that    *)
(* the tree's selection shows. JavaScript runs one event at a time; an     *)
(* action is an event handler, run to its end.                             *)
(*                                                                         *)
(* Simplifications:                                                        *)
(* - A device's node k is <<i, k>>, i its device index: node and dashboard *)
(*   ids are made of these two numbers and a suffix.                       *)
(* - A history comes from the Center with the layout of the description;   *)
(*   which device it is about is the matter of WebClients.                 *)
(* - chart_stream, which nothing reads, is left out.                       *)
(***************************************************************************)
EXTENDS Description, HistoryMessage, FiniteSets

CONSTANTS
  Plans,     \* the descriptions a page may be sent, with their indices
  RowSets,   \* bound: the rows a history may have, in order of time
  Zooms      \* bound: the ranges [min, max] that a zoom ends with

ASSUME WebPageAssumption ==
  /\ \A plan \in Plans : /\ plan \in Seq([index : Int, description : Seq(Node)])
                         /\ \A n \in DOMAIN plan : WellFormed(plan[n].description)
  /\ RowSets \subseteq Seq([time : Int64, end_of_epoch : BOOLEAN])
  /\ \A z \in Zooms : z.min \in Int64 /\ z.max \in Int64

VARIABLES
  inbox,       \* descriptions still to come
  devices,     \* IO.devices: the nodes of each device
  charts,      \* what each value's chart shows: labels and datasets
  axis,        \* time.min and time.max of each chart
  chartmeta,   \* xabsmin and xabsmax of each system
  tree,        \* the nodes that jstree has loaded, and their parents
  refreshing,  \* jstree has been told to load the nodes of devices
  selected,    \* the nodes selected in the tree
  dashboards,  \* the dashboards displayed
  request,     \* the range of the last history request, and how it was sent
  sent         \* history: the rows each system's charts are made from

vars == <<inbox, devices, charts, axis, chartmeta, tree, refreshing, selected,
          dashboards, request, sent>>

Blank == [labels |-> <<>>, datasets |-> <<>>]

-----------------------------------------------------------------------------
(* Systems, values and nodes of all devices of a page. *)

Systems(devs) == UNION {{<<i, s>> : s \in SystemsOf(devs[i])} : i \in DOMAIN devs}

Nested(devs, y) == NestedIOValues(devs[y[1]], y[2])

\* The layouts of all systems that the page may be told of.
Layouts ==
  LET described == {Parse(d.description) : d \in UNION {Range(plan) : plan \in Plans}}
  IN  UNION {{LayoutOf(nodes, s) : s \in SystemsOf(nodes)} : nodes \in described}

\* The charted values of a system: all but the first, the timestamp.
Charted(devs, y) == {<<y[1], Nested(devs, y)[n]>> : n \in 2 .. Len(Nested(devs, y))}

Charts(devs) == UNION {Charted(devs, y) : y \in Systems(devs)}

\* The place of a charted value among those of its system.
Place(devs, y, c) == CHOOSE n \in 1 .. Len(Nested(devs, y)) - 1 : Nested(devs, y)[n + 1] = c[2]

Panels(devs) == UNION {{<<i, k>> : k \in DashboardNodes(devs[i])} : i \in DOMAIN devs}

\* The data that changeNodes gives jstree: the parent of each node.
TreeIds(devs) == UNION {{<<i, k>> : k \in TreeNodes(devs[i])} : i \in DOMAIN devs}

TreeData(devs) == [x \in TreeIds(devs) |-> <<x[1], devs[x[1]][x[2]].parent>>]

-----------------------------------------------------------------------------
(* setDashboardVisibilityFromNodeID, called for the root when the selection  *)
(* changes.                                                                  *)

\* Mutant of Visible: only the node itself counts.
Visible_Itself(nodes, panels, chosen) == [x \in DOMAIN nodes |-> x \in panels /\ x \in chosen]

\* A node's dashboard is displayed if the node is selected or one of its
\* children's is. Nodes without a dashboard say nothing to their parents.
Visible(nodes, panels, chosen) ==
  LET v[x \in DOMAIN nodes] ==
        /\ x \in panels
        /\ x \in chosen \/ \E y \in DOMAIN nodes : nodes[y] = x /\ v[y]
  IN  v

\* The dashboards displayed after a change; those that no node of the tree
\* names stay as they are.
AfterChange(nodes, panels, chosen, before) ==
  {x \in panels : IF x \in DOMAIN nodes THEN Visible(nodes, panels, chosen)[x]
                                        ELSE x \in before}

-----------------------------------------------------------------------------
(* requestHistory: the range goes out as two 64-bit integers, -1 for an open *)
(* end.                                                                      *)

RequestHistory(start_time, end_time) ==
  [min |-> start_time, max |-> end_time,
   start |-> PutInt64(start_time), end |-> PutInt64(end_time)]

Init ==
  /\ inbox \in Plans
  /\ devices = <<>>
  /\ charts = <<>>
  /\ axis = <<>>
  /\ chartmeta = <<>>
  /\ tree = <<>>
  /\ refreshing = FALSE
  /\ selected = {}
  /\ dashboards = {}
  /\ request = RequestHistory(-1, -1)
  /\ sent = <<>>

\* Mutant of ReceiveDescription: the charts of the replaced device stay.
ReceiveDescription_KeepsCharts ==
  /\ inbox # <<>>
  /\ inbox' = Tail(inbox)
  /\ LET i == Head(inbox).index
         new == [j \in DOMAIN devices \cup {i} |->
                   IF j = i THEN Parse(Head(inbox).description) ELSE devices[j]]
     IN  /\ devices' = new
         /\ charts' = [c \in Charts(new) \cup DOMAIN charts |->
                      IF c \in Charts(new) THEN Blank ELSE charts[c]]
         /\ axis' = [c \in Charts(new) |-> [min |-> 0, max |-> 0]]
         /\ chartmeta' = [y \in Systems(new) |->
                            IF y[1] = i THEN Extent(<<>>) ELSE chartmeta[y]]
         /\ dashboards' = Panels(new)
         /\ sent' = [y \in Systems(new) |-> Null]
  /\ tree' = <<>>
  /\ selected' = {}
  /\ refreshing' = TRUE
  /\ request' = RequestHistory(-1, -1)

\* A passthrough group_description: the device takes the place of an earlier
\* one of that index. update_devices makes the dashboards and charts of all
\* devices anew, which are displayed at first, and has the tree loaded again,
\* which jstree empties for the time. Histories of the new device's systems
\* are requested.
ReceiveDescription ==
  /\ inbox # <<>>
  /\ inbox' = Tail(inbox)
  /\ LET i == Head(inbox).index
         new == [j \in DOMAIN devices \cup {i} |->
                   IF j = i THEN Parse(Head(inbox).description) ELSE devices[j]]
     IN  /\ devices' = new
         /\ charts' = [c \in Charts(new) |-> Blank]
         /\ axis' = [c \in Charts(new) |-> [min |-> 0, max |-> 0]]
         /\ chartmeta' = [y \in Systems(new) |->
                            IF y[1] = i THEN Extent(<<>>) ELSE chartmeta[y]]
         /\ dashboards' = Panels(new)
         /\ sent' = [y \in Systems(new) |-> Null]
  /\ tree' = <<>>
  /\ selected' = {}
  /\ refreshing' = TRUE
  /\ request' = RequestHistory(-1, -1)

\* jstree has loaded the nodes: all are selected.
Refresh ==
  /\ refreshing
  /\ refreshing' = FALSE
  /\ tree' = TreeData(devices)
  /\ selected' = DOMAIN tree'
  /\ dashboards' = AfterChange(tree', Panels(devices), selected', dashboards)
  /\ UNCHANGED <<inbox, devices, charts, axis, chartmeta, request, sent>>

-----------------------------------------------------------------------------
(* What the user does, and the histories that come.                          *)

Leaves == {x \in DOMAIN tree : \A y \in DOMAIN tree : tree[y] # x}

\* The checkboxes with three states: a node that is not a leaf is selected
\* when all of its children are.
Checked(chosen) ==
  LET c[x \in DOMAIN tree] ==
        IF x \in Leaves THEN x \in chosen
                        ELSE \A y \in DOMAIN tree : tree[y] = x => c[y]
  IN  {x \in DOMAIN tree : c[x]}

Select(chosen) ==
  /\ selected' = Checked(chosen)
  /\ dashboards' = AfterChange(tree, Panels(devices), selected', dashboards)
  /\ UNCHANGED <<inbox, devices, charts, axis, chartmeta, tree, refreshing, request, sent>>

\* Mutant of Zoom: the other charts of the system stay as they are.
Zoom_OneChart(c, z) ==
  /\ axis' = [axis EXCEPT ![c] = z]
  /\ request' = RequestHistory(z.min, z.max)
  /\ UNCHANGED <<inbox, devices, charts, chartmeta, tree, refreshing, selected, dashboards, sent>>

\* All charts of system y get the range of one of them.
updateChartXAxis(y, z) ==
  /\ axis' = [c \in Charts(devices) |-> IF c \in Charted(devices, y) THEN z ELSE axis[c]]
  /\ request' = RequestHistory(z.min, z.max)

\* onZoom: the user zooms the chart of a value. chartSystemMap has its system.
Zoom(c, z) ==
  /\ \E y \in Systems(devices) : c \in Charted(devices, y) /\ updateChartXAxis(y, z)
  /\ UNCHANGED <<inbox, devices, charts, chartmeta, tree, refreshing, selected, dashboards, sent>>

\* The axis of a chart goes back to the ends of its system's history.
resetChartXAxis(c) == chartmeta[CHOOSE y \in Systems(devices) : c \in Charted(devices, y)]

\* The button, for all systems.
ResetX ==
  /\ DOMAIN devices # {}
  /\ axis' = [c \in Charts(devices) |-> resetChartXAxis(c)]
  /\ request' = RequestHistory(-1, -1)
  /\ UNCHANGED <<inbox, devices, charts, chartmeta, tree, refreshing, selected, dashboards, sent>>

\* What handleHistory makes of the messages that may come.
Histories ==
  [layout \in Layouts |-> [rows \in RowSets |-> [aggregate \in BOOLEAN |-> [odd \in BOOLEAN |->
     processEntries(layout, getHistory(layout, rows, aggregate), aggregate, odd)]]]]

\* The lines of the n-th charted value: one for each aggregate.
setChartDatasets(history, n) == history.values[n]

\* A history becomes that of system y and of its charts.
setChart(y, history) ==
  LET ends == Extent(history.times)
      shown == Charted(devices, y)
  IN  /\ chartmeta' = [chartmeta EXCEPT ![y] = ends]
      /\ axis' = [c \in Charts(devices) |-> IF c \in shown THEN ends ELSE axis[c]]
      /\ charts' = [c \in Charts(devices) |->
                      IF c \in shown
                      THEN [labels |-> history.times,
                            datasets |-> setChartDatasets(history, Place(devices, y, c))]
                      ELSE charts[c]]

\* handleHistory. When the message ends too early, the system keeps its
\* history. There are no aggregates of systems with a bool: the views cannot
\* be made (Database_uDAQC.java, line 456).
ReceiveHistory(y, rows, aggregate, odd) ==
  LET layout == LayoutOf(devices[y[1]], y[2])
      history == Histories[layout][rows][aggregate][odd]
  IN  /\ aggregate => \A n \in DOMAIN layout : layout[n].type # "bool"
      /\ IF history.thrown THEN UNCHANGED <<chartmeta, axis, charts>>
                           ELSE setChart(y, history)
      /\ sent' = [sent EXCEPT ![y] = [rows |-> rows, aggregate |-> aggregate]]
      /\ UNCHANGED <<inbox, devices, tree, refreshing, selected, dashboards, request>>

Next ==
  \/ ReceiveDescription
  \/ Refresh
  \/ \E chosen \in SUBSET Leaves : Select(chosen)
  \/ \E c \in Charts(devices), z \in Zooms : Zoom(c, z)
  \/ ResetX
  \/ \E y \in Systems(devices), rows \in RowSets, aggregate, odd \in BOOLEAN :
       ReceiveHistory(y, rows, aggregate, odd)

Spec == Init /\ [][Next]_vars

-----------------------------------------------------------------------------
(* Properties. *)

\* Every group has as many members as it was announced with: no constructor of
\* IO_Group takes a node of the group around it, or leaves one of its own.
GroupsComplete ==
  \A i \in DOMAIN devices : \A k \in DOMAIN devices[i] :
    Cardinality(Members(devices[i], k)) = devices[i][k].members

\* Types. Exactly the values of the devices on the page have charts, in the
\* dashboards that update_devices makes, and the groups have their members.
TypeOK ==
  /\ \A i \in DOMAIN devices : \A k \in DOMAIN devices[i] :
       devices[i][k].kind \in Kinds /\ devices[i][k].parent \in 0 .. k - 1
  /\ DOMAIN charts = Charts(devices)
  /\ DOMAIN axis = Charts(devices)
  /\ \A c \in DOMAIN charts : Len(charts[c].datasets) \in {0, 1, aggregates_per_value}
  /\ DOMAIN chartmeta = Systems(devices)
  /\ DOMAIN sent = Systems(devices)
  /\ DOMAIN tree \subseteq TreeIds(devices)
  /\ refreshing \in BOOLEAN
  /\ selected \subseteq DOMAIN tree
  /\ dashboards \subseteq Panels(devices)
  /\ GroupsComplete

\* The line that a chart draws without its gaps.
Line(labels, data) ==
  LET drawn[k \in 0 .. Len(data)] ==
        IF k = 0 THEN <<>>
        ELSE IF data[k] = Null THEN drawn[k - 1]
        ELSE Append(drawn[k - 1], [time |-> labels[k], datum |-> data[k]])
  IN  drawn[Len(data)]

\* Whether the last history of y can be read with its layout.
Legible(y) ==
  sent[y] # Null /\ Readable(LayoutOf(devices[y[1]], y[2]), sent[y].aggregate)

\* A chart has a label for each entry of its data, even when the entries are
\* misread: else the points behind a gap would move along the axis.
LabelsMatchData ==
  \A c \in DOMAIN charts : \A m \in DOMAIN charts[c].datasets :
    Len(charts[c].datasets[m]) = Len(charts[c].labels)

\* What the Center wrote for a value is on that value's chart, row for row at
\* its time, though the message says of no byte what it belongs to.
RowsShown ==
  \A y \in Systems(devices) : Legible(y) =>
    \A c \in Charted(devices, y) :
      [m \in DOMAIN charts[c].datasets |-> Line(charts[c].labels, charts[c].datasets[m])]
        = [m \in 1 .. Copies(sent[y].aggregate) |->
             [r \in DOMAIN sent[y].rows |->
                [time |-> sent[y].rows[r].time, datum |-> Datum(r, Place(devices, y, c), m)]]]

\* A raw line is interrupted behind the rows that end an epoch, and behind no
\* others.
EpochsApart ==
  \A y \in Systems(devices) : Legible(y) /\ ~ sent[y].aggregate =>
    \A c \in Charted(devices, y) : \A r \in DOMAIN sent[y].rows :
      LET data == FlattenSeq(charts[c].datasets)
          place == Place(devices, y, c)
          gap == \E k \in DOMAIN data : k > 1 /\ data[k] = Null /\ data[k - 1] = Datum(r, place, 1)
      IN  gap <=> sent[y].rows[r].end_of_epoch

\* The charts of one system show the same range of time, whichever of them was
\* zoomed and in whatever order histories, zooms and resets come.
AxesAgree ==
  \A y \in Systems(devices) : \A c, d \in Charted(devices, y) : axis[c] = axis[d]

\* Once it is loaded, the tree has an entry for every dashboard and every
\* charted value, and none without a dashboard: toTreeNode and createDashboard
\* drop the timestamps of systems alike.
TreeMatchesDashboards ==
  ~ refreshing =>
    /\ DOMAIN tree = Panels(devices)
    /\ Charts(devices) = {x \in DOMAIN tree : devices[x[1]][x[2]].kind \in ValueKinds}
    /\ \A x \in DOMAIN tree : tree[x][2] # 0 => tree[x] \in DOMAIN tree

\* The nodes at or below x.
Below(x) ==
  LET b[y \in DOMAIN tree] == x = y \/ (tree[y] \in DOMAIN tree /\ b[tree[y]])
  IN  {y \in DOMAIN tree : b[y]}

\* A dashboard is displayed exactly when its node or one below it is selected:
\* a value that is selected is never hidden by a group around it that is not.
DisplayMatchesSelection ==
  \A x \in DOMAIN tree : x \in dashboards <=> Below(x) \cap selected # {}

\* The tree and the dashboards, which two walks of the devices make and which the
\* user sees side by side, agree in what there is and in what is displayed.
TreeAndDashboardsAgree == TreeMatchesDashboards /\ DisplayMatchesSelection

\* The Center reads the range that was asked for.
RangeArrives ==
  /\ GetLong(request.start) = request.min
  /\ GetLong(request.end) = request.max
=============================================================================
