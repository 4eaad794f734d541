----------------------------- MODULE Description -----------------------------
(***************************************************************************)
(* The description of a device as the browser reads it: the constructors   *)
(* of IO_Device, IO_Group, IO_System and IO_Value in uDAQC_IO.js, what     *)
(* they find in the tree, and what of it becomes tree nodes and dashboards.*)
(*                                                                         *)
(* A description is the sequence of its nodes, a group before its members: *)
(* kind, number of members, and for a value its type and size. Names,      *)
(* units and the indices of modifiable values are left out.                *)
(***************************************************************************)
EXTENDS Integers, Sequences, SequencesExt

Kinds == {"device", "group", "system", "value", "modifiable", "empty"}

ValueKinds == {"value", "modifiable"}

-----------------------------------------------------------------------------
(* Construction. The groups still open are a stack, as the constructors'     *)
(* calls are; left is the number of members to come.                         *)

\* A description as the message has it.
Node == [kind : Kinds, members : Nat,
         type : {"none", "signed_integer", "unsigned_integer", "floating_point", "bool"},
         size : Nat]

Push(stack, g) == IF g.left > 0 THEN Append(stack, g) ELSE stack

\* The node that a description becomes in the group around it.
InGroup(d, g) ==
  [kind |-> d.kind, members |-> d.members, type |-> d.type, size |-> d.size, parent |-> g]

\* Mutant of Construct: a group stays open when it has all its members.
Construct_NeverCloses(p, d) ==
  LET node == Len(p.nodes) + 1
      outer == IF p.open = <<>> THEN [node |-> 0, left |-> 0] ELSE Last(p.open)
  IN  [nodes |-> Append(p.nodes, InGroup(d, outer.node)),
       open  |-> Push(p.open, [node |-> node, left |-> d.members])]

\* One constructor: the node gets the next node_index, which is its position,
\* and takes one of the places of the group it is in.
Construct(p, d) ==
  LET node == Len(p.nodes) + 1
      outer == IF p.open = <<>> THEN [node |-> 0, left |-> 1] ELSE Last(p.open)
      rest == IF p.open = <<>> THEN <<>> ELSE Front(p.open)
  IN  [nodes |-> Append(p.nodes, InGroup(d, outer.node)),
       open  |-> Push(Push(rest, [outer EXCEPT !.left = @ - 1]),
                      [node |-> node, left |-> d.members])]

\* new IO_Device(message, index), and the groups that still lack members when
\* the message has ended.
Parsed(description) ==
  LET p[n \in 0 .. Len(description)] ==
        IF n = 0 THEN [nodes |-> <<>>, open |-> <<>>]
                 ELSE Construct(p[n - 1], description[n])
  IN  p[Len(description)]

Parse(description) == Parsed(description).nodes

-----------------------------------------------------------------------------
(* What devices send of themselves.                                          *)

\* How many nodes there are in all, by what the first n say of their members.
Announced(description) ==
  LET sum[n \in 0 .. Len(description)] ==
        IF n = 0 THEN 1 ELSE sum[n - 1] + description[n].members
  IN  sum

\* How many of the announced nodes have yet to come behind the n-th.
Missing(description) == [n \in DOMAIN description |-> Announced(description)[n] - n]

\* GetTypeInt and DataSize of IO_Value: float and double, int and long, long long,
\* and bool.
Formats == {<<"floating_point", 4>>, <<"floating_point", 8>>, <<"signed_integer", 4>>,
            <<"signed_integer", 8>>, <<"bool", 1>>}

\* IO_Group::SendDescription: a group is followed by its members, all of them.
\* The members of a device are its systems, which are nowhere else: one begins
\* when nothing before it lacks a member but the device, so that fewer nodes are
\* missing than ever before. A system begins with the timestamp that its
\* constructor has given it. Nothing is in a value or an empty node.
WellFormed(description) ==
  LET missing == Missing(description)
  IN  /\ description \in Seq(Node)
      /\ description # <<>>
      /\ \A n \in DOMAIN description : n < Len(description) <=> missing[n] > 0
      /\ \A n \in DOMAIN description :
           /\ description[n].kind = "device" <=> n = 1
           /\ n < Len(description) =>
                (description[n + 1].kind = "system" <=> \A m \in 1 .. n - 1 : missing[n] < missing[m])
           /\ description[n].kind = "system" =>
                /\ description[n].members > 0
                /\ description[n + 1].kind \in ValueKinds
           /\ description[n].kind = "empty" => description[n].members = 0
           /\ description[n].kind \in ValueKinds =>
                /\ description[n].members = 0
                /\ <<description[n].type, description[n].size>> \in Formats

-----------------------------------------------------------------------------
(* What is nested in what. Positions are node_index + 1; parents come first. *)

\* The node that the groups around a node are in: its system, or the device.
Holder(nodes) ==
  LET h[k \in DOMAIN nodes] ==
        LET q == nodes[k].parent
        IN  IF q = 0 THEN 0 ELSE IF nodes[q].kind = "group" THEN h[q] ELSE q
  IN  h

SystemsOf(nodes) == {s \in DOMAIN nodes : nodes[s].kind = "system"}

\* _getNestedIOValues, and _countNestedIOValues by its length: values in the
\* system's groups, not those of a system inside it.
NestedIOValues(nodes, s) ==
  LET holder == Holder(nodes)
      found[k \in 0 .. Len(nodes)] ==
        IF k = 0 THEN <<>>
        ELSE IF nodes[k].kind \in ValueKinds /\ holder[k] = s THEN Append(found[k - 1], k)
        ELSE found[k - 1]
  IN  found[Len(nodes)]

\* The types and sizes of the nested values.
LayoutOf(nodes, s) ==
  [n \in DOMAIN NestedIOValues(nodes, s) |->
     [type |-> nodes[NestedIOValues(nodes, s)[n]].type,
      size |-> nodes[NestedIOValues(nodes, s)[n]].size]]

-----------------------------------------------------------------------------
(* Display. *)

Members(nodes, g) == {k \in DOMAIN nodes : nodes[k].parent = g}

\* What IO_System drops: the entry behind its own in the tree, and the first
\* panel behind its title in the dashboard. Both are of its first member.
Timestamps(nodes) == {s + 1 : s \in {t \in SystemsOf(nodes) : Members(nodes, t) # {}}}

\* Mutant of TreeNodes: the tree keeps the timestamps.
TreeNodes_Timestamps(nodes) == DOMAIN nodes

\* toTreeNode makes an entry of every node, a group before its members.
TreeNodes(nodes) == DOMAIN nodes \ Timestamps(nodes)

\* createDashboard makes a panel of every node inside that of its group; with a
\* panel goes what is in it.
DashboardNodes(nodes) ==
  LET kept[k \in DOMAIN nodes] ==
        /\ k \notin Timestamps(nodes)
        /\ nodes[k].parent # 0 => kept[nodes[k].parent]
  IN  {k \in DOMAIN nodes : kept[k]}
=============================================================================
