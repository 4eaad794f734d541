---------------------------- MODULE WebPage_proofs ----------------------------
(***************************************************************************)
(* For any descriptions, histories and zooms: what the page makes of a     *)
(* description, what its charts, axes, tree and dashboards show, and that  *)
(* the Center reads the range of a history request as the page meant it.   *)
(* The proofs go from the bytes to the page:                               *)
(* - 64-bit integers and the range of a request,                           *)
(* - the parser of descriptions and what is nested in what,                *)
(* - messages: what is read of any bytes, and what of those that were      *)
(*   written for the same layout,                                          *)
(* - the values, charts and nodes of a page, and its invariants.           *)
(***************************************************************************)
EXTENDS WebPage, Recursion, SequenceTheorems, FiniteSetTheorems, TLAPS

-----------------------------------------------------------------------------
(* 64-bit integers (DataView).                                               *)

LEMMA Constants ==
  /\ max_uint32 \in Nat \ {0}
  /\ Half \in Nat \ {0}
  /\ max_uint32 = 2 * Half
BY DataViewAssumption DEF Half

\* Division with remainder, and that it is unique.
LEMMA Division ==
  ASSUME NEW v \in Int, NEW m \in Nat \ {0}
  PROVE  /\ v \div m \in Int
         /\ v % m \in 0 .. m - 1
         /\ v = m * (v \div m) + (v % m)
OBVIOUS

LEMMA Unique ==
  ASSUME NEW m \in Nat \ {0}, NEW q \in Int, NEW p \in Int,
         NEW r \in 0 .. m - 1, NEW s \in 0 .. m - 1,
         m * q + r = m * p + s
  PROVE  q = p /\ r = s
<1>1. m * (q - p) = s - r
  OBVIOUS
<1>2. ~ (q - p >= 1)
  <2> SUFFICES ASSUME q - p >= 1 PROVE FALSE
    OBVIOUS
  <2>1. m * (q - p) >= m * 1
    OBVIOUS
  <2> QED
    BY <1>1, <2>1
<1>3. ~ (q - p <= -1)
  <2> SUFFICES ASSUME q - p <= -1 PROVE FALSE
    OBVIOUS
  <2>1. m * (q - p) <= m * (-1)
    OBVIOUS
  <2> QED
    BY <1>1, <2>1
<1> QED
  BY <1>1, <1>2, <1>3

\* A remainder of a remainder.
LEMMA Reduced ==
  ASSUME NEW m \in Nat \ {0}, NEW r \in 0 .. m - 1
  PROVE  r % m = r
<1>1. r = m * (r \div m) + (r % m) /\ r \div m \in Int /\ r % m \in 0 .. m - 1
  BY Division
<1>2. r = m * 0 + r
  OBVIOUS
<1> QED
  BY <1>1, <1>2, Unique

\* The lower half is the right one although the sign of a JavaScript remainder
\* is that of the dividend.
LEMMA LowerHalf ==
  ASSUME NEW v \in Int
  PROVE  Uint32(Remainder(v)) = v % max_uint32
<1> DEFINE m == max_uint32
           w == - v
           s == w % m
           t == (- s) % m
<1>1. m \in Nat \ {0}
  BY Constants
<1>2. v % m \in 0 .. m - 1 /\ v \div m \in Int /\ v = m * (v \div m) + (v % m)
  BY <1>1, Division
<1>3. CASE v >= 0
  <2>1. Uint32(Remainder(v)) = (v % m) % m
    BY <1>3 DEF Uint32, Remainder
  <2> QED
    BY <1>1, <1>2, <2>1, Reduced
<1>4. CASE ~ v >= 0
  <2>1. Uint32(Remainder(v)) = t
    BY <1>4 DEF Uint32, Remainder
  <2>2. w = m * (w \div m) + s /\ s \in 0 .. m - 1 /\ w \div m \in Int
    <3>1. w \in Int
      OBVIOUS
    <3> QED
      BY <1>1, <3>1, Division
  <2>3. - s = m * ((- s) \div m) + t /\ t \in 0 .. m - 1 /\ (- s) \div m \in Int
    <3>1. - s \in Int
      BY <2>2
    <3> QED
      BY <1>1, <3>1, Division
  <2> DEFINE a == w \div m
             b == (- s) \div m
  <2>4. v = m * (b - a) + t
    <3> HIDE DEF s, t, a, b, m
    <3>1. w = m * a + s /\ a \in Int /\ s \in Int
      BY <1>1, <2>2 DEF a
    <3>2. - s = m * b + t /\ b \in Int /\ t \in Int
      BY <1>1, <2>3 DEF b
    <3>3. m * (b - a) = m * b - m * a
      BY <1>1, <3>1, <3>2
    <3>4. m * a \in Int /\ m * b \in Int
      BY <1>1, <3>1, <3>2
    <3> QED
      BY <3>1, <3>2, <3>3, <3>4
  <2>5. b - a \in Int
    BY <2>2, <2>3
  <2>6. t = v % m
    <3> DEFINE c == b - a
               k == v \div m
               r == v % m
    <3>1. /\ c \in Int /\ k \in Int
          /\ t \in 0 .. m - 1 /\ r \in 0 .. m - 1
          /\ m * c + t = m * k + r
      BY <1>2, <2>3, <2>4, <2>5
    <3> HIDE DEF c, k, r, t, m
    <3>2. t = r
      BY <1>1, <3>1, Unique
    <3> QED
      BY <3>2 DEF r
  <2> QED
    BY <2>1, <2>6
<1> QED
  BY <1>3, <1>4

\* The upper half of a 64-bit integer fits setInt32.
LEMMA UpperHalf ==
  ASSUME NEW v \in Int64
  PROVE  Int32(v \div max_uint32) = v \div max_uint32
<1> DEFINE m == max_uint32
           q == v \div m
           r == v % m
<1>1. m \in Nat \ {0} /\ Half \in Nat \ {0} /\ m = 2 * Half
  BY Constants
<1>2. v \in Int /\ - (Half * m) <= v /\ v <= Half * m - 1
  BY <1>1 DEF Int64
<1>3. q \in Int /\ r \in 0 .. m - 1 /\ v = m * q + r
  BY <1>1, <1>2, Division
<1> HIDE DEF q, r, m
<1>4. ~ q >= Half
  <2> SUFFICES ASSUME q >= Half PROVE FALSE
    OBVIOUS
  <2>1. m * q >= m * Half
    BY <1>1, <1>3
  <2> QED
    BY <1>1, <1>2, <1>3, <2>1
<1>5. ~ q <= - Half - 1
  <2> SUFFICES ASSUME q <= - Half - 1 PROVE FALSE
    OBVIOUS
  <2>1. m * q <= m * (- Half - 1)
    BY <1>1, <1>3
  <2>2. m * (- Half - 1) = - (Half * m) - m
    BY <1>1
  <2> QED
    BY <1>1, <1>2, <1>3, <2>1, <2>2
<1>6. q + Half \in 0 .. m - 1
  BY <1>1, <1>3, <1>4, <1>5
<1>7. (q + Half) % m = q + Half
  BY <1>1, <1>6, Reduced
<1> QED
  BY <1>1, <1>3, <1>7 DEF Int32, q, m

\* What getInt64 makes of two halves is their two's complement number,
\* whatever the sign (uDAQC_IO.js:211-242).
LEMMA TwosComplement ==
  ASSUME NEW h \in [little : Int, big : Int]
  PROVE  GetInt64(h) = GetLong(h)
<1>1. max_uint32 \in Int
  BY Constants
<1>2. (- h.big - 1) * max_uint32 = - (h.big * max_uint32) - max_uint32
  BY <1>1
<1> QED
  BY <1>1, <1>2 DEF GetInt64, GetLong

\* The browser writes every 64-bit integer as the Center does, so the Center
\* reads what was meant, and the browser reads what the Center wrote
\* (uDAQC_IO.js:119-141 and 211-242, HTTPS_Server.java:422).
THEOREM Int64Agrees ==
  ASSUME NEW v \in Int64
  PROVE  /\ PutInt64(v) = PutLong(v)
         /\ GetLong(PutInt64(v)) = v
         /\ GetInt64(PutLong(v)) = v
<1> DEFINE m == max_uint32
<1>1. m \in Nat \ {0} /\ Half \in Nat
  BY Constants
<1>2. v \in Int
  BY <1>1 DEF Int64
<1>3. PutInt64(v) = PutLong(v)
  BY <1>2, LowerHalf, UpperHalf DEF PutInt64, PutLong
<1>4. /\ PutLong(v) \in [little : Int, big : Int]
      /\ PutLong(v).little = v % m
      /\ PutLong(v).big = v \div m
      /\ v = m * (v \div m) + (v % m)
  BY <1>1, <1>2, Division DEF PutLong
<1>5. GetLong(PutLong(v)) = v
  <2> DEFINE q == v \div m
             r == v % m
  <2>1. q \in Int /\ r \in Int /\ v = m * q + r
    BY <1>1, <1>2, Division
  <2>2. GetLong(PutLong(v)) = r + q * m
    BY <1>4 DEF GetLong
  <2> HIDE DEF q, r, m
  <2>3. r + q * m = m * q + r
    BY <1>1, <2>1
  <2> QED
    BY <2>1, <2>2, <2>3
<1>6. GetInt64(PutLong(v)) = GetLong(PutLong(v))
  BY <1>4, TwosComplement
<1> QED
  BY <1>3, <1>5, <1>6

-----------------------------------------------------------------------------
(* The range of the last request.                                            *)

\* The range is one that requestHistory has written.
Written == \E a, b \in Int64 : request = RequestHistory(a, b)

\* An open end, -1, is a 64-bit integer.
LEMMA OpenEnd == -1 \in Int64
<1>1. max_uint32 \in Nat \ {0} /\ Half \in Nat /\ Half >= 1
  BY DataViewAssumption DEF Half
<1>2. Half * max_uint32 \in Nat \ {0}
  <2>. DEFINE m == max_uint32
  <2>1. m \in Nat \ {0}
    BY <1>1
  <2>. HIDE DEF m
  <2>2. Half * m \in Nat \ {0}
    BY <1>1, <2>1, SMTT(30)
  <2>. QED  BY <2>2 DEF m
<1>. QED  BY <1>2 DEF Int64

LEMMA InitWritten == Init => Written
BY OpenEnd DEF Init, Written

LEMMA NextWritten == Written /\ [Next]_vars => Written'
<1>. SUFFICES ASSUME Written, [Next]_vars PROVE Written'
  OBVIOUS
<1>1. CASE ReceiveDescription \/ ResetX
  <2>1. request' = RequestHistory(-1, -1)
    BY <1>1, Zenon DEF ReceiveDescription, ResetX
  <2>. QED  BY <2>1, OpenEnd DEF Written
<1>2. CASE Refresh
  BY <1>2, Zenon DEF Refresh, Written
<1>3. ASSUME NEW chosen \in SUBSET Leaves, Select(chosen) PROVE Written'
  BY <1>3, Zenon DEF Select, Written
<1>4. ASSUME NEW c \in Charts(devices), NEW z \in Zooms, Zoom(c, z) PROVE Written'
  BY <1>4, WebPageAssumption, Zenon DEF Zoom, updateChartXAxis, Written
<1>5. ASSUME NEW y \in Systems(devices), NEW rows \in RowSets, NEW aggregate \in BOOLEAN,
             NEW odd \in BOOLEAN, ReceiveHistory(y, rows, aggregate, odd)
      PROVE  Written'
  BY <1>5, Zenon DEF ReceiveHistory, Written
<1>6. CASE UNCHANGED vars
  BY <1>6 DEF vars, Written
<1>. QED  BY <1>1, <1>2, <1>3, <1>4, <1>5, <1>6 DEF Next

(***************************************************************************)
(* The two 64-bit integers that requestHistory puts together from halves   *)
(* are read by the Center (getLong) as the range that was asked for.       *)
(***************************************************************************)
THEOREM RangesArrive == Spec => []RangeArrives
<1>1. Written => RangeArrives
  BY Int64Agrees DEF Written, RangeArrives, RequestHistory
<1>. QED  BY <1>1, InitWritten, NextWritten, PTL DEF Spec

-----------------------------------------------------------------------------
(* Descriptions (Description). The groups that still lack members are a      *)
(* stack, from the device to the group that the next node is in.             *)

OpenGroup == [node : Nat, left : Int]

\* Groups of a stack lack members, and come in the order of their places up to n.
Stack(s, n) ==
  /\ s \in Seq(OpenGroup)
  /\ \A j \in DOMAIN s : s[j].left > 0 /\ s[j].node \in 1 .. n
  /\ \A j, l \in DOMAIN s : j < l => s[j].node < s[l].node

\* Group k lacks m members.
Lacks(s, k, m) ==
  \/ \E j \in DOMAIN s : s[j].node = k /\ s[j].left = m
  \/ m = 0 /\ \A j \in DOMAIN s : s[j].node # k

\* All groups together lack t members.
InAll(f, s, t) ==
  /\ f \in [0 .. Len(s) -> Nat]
  /\ f[0] = 0
  /\ \A j \in 1 .. Len(s) : f[j] = f[j - 1] + s[j].left
  /\ f[Len(s)] = t

LackInAll(s, t) == \E f : InAll(f, s, t)

\* An element behind a sequence.
LEMMA Behind ==
  ASSUME NEW S, NEW s \in Seq(S), NEW e \in S
  PROVE  /\ Append(s, e) \in Seq(S)
         /\ Len(s) \in Nat
         /\ Len(Append(s, e)) = Len(s) + 1
         /\ DOMAIN s = 1 .. Len(s)
         /\ DOMAIN Append(s, e) = 1 .. Len(s) + 1
         /\ \A j \in 1 .. Len(s) : Append(s, e)[j] = s[j] /\ s[j] \in S
         /\ Append(s, e)[Len(s) + 1] = e
OBVIOUS

\* A sequence without its last element.
LEMMA FrontOf ==
  ASSUME NEW S, NEW s \in Seq(S), s # <<>>
  PROVE  /\ Front(s) \in Seq(S)
         /\ Len(s) \in Nat /\ Len(s) >= 1
         /\ Len(Front(s)) = Len(s) - 1
         /\ DOMAIN s = 1 .. Len(s)
         /\ DOMAIN Front(s) = 1 .. Len(s) - 1
         /\ \A j \in 1 .. Len(s) - 1 : Front(s)[j] = s[j]
         /\ Last(s) = s[Len(s)] /\ Last(s) \in S
<1>1. Len(s) \in Nat /\ Len(s) >= 1 /\ DOMAIN s = 1 .. Len(s)
  OBVIOUS
<1>2. Front(s) = SubSeq(s, 1, Len(s) - 1) /\ Last(s) = s[Len(s)]
  BY DEF Front, Last
<1>3. SubSeq(s, 1, Len(s) - 1) \in Seq(S) /\ Len(SubSeq(s, 1, Len(s) - 1)) = Len(s) - 1
  BY <1>1
<1>4. \A j \in 1 .. Len(s) - 1 : SubSeq(s, 1, Len(s) - 1)[j] = s[j]
  BY <1>1
<1> QED
  BY <1>1, <1>2, <1>3, <1>4

\* A group with members to come is put on the stack, another is left out.
LEMMA PushStack ==
  ASSUME NEW a \in Nat, NEW s, Stack(s, a),
         NEW g \in OpenGroup, g.left >= 0, g.node > a
  PROVE  /\ Stack(Push(s, g), g.node)
         /\ Lacks(Push(s, g), g.node, g.left)
         /\ \A k, m : Lacks(s, k, m) /\ k # g.node => Lacks(Push(s, g), k, m)
<1>1. s \in Seq(OpenGroup) /\ g.node \in Nat /\ g.left \in Int
  BY DEF Stack, OpenGroup
<1>2. CASE g.left > 0
  <2> DEFINE r == Append(s, g)
             n == Len(s)
  <2>1. Push(s, g) = r
    BY <1>2 DEF Push
  <2>2. /\ r \in Seq(OpenGroup) /\ n \in Nat /\ DOMAIN s = 1 .. n /\ DOMAIN r = 1 .. n + 1
        /\ \A j \in 1 .. n : r[j] = s[j] /\ s[j] \in OpenGroup
        /\ r[n + 1] = g
    BY <1>1, Behind
  <2> HIDE DEF r, n
  <2>3. ASSUME NEW j \in DOMAIN r PROVE r[j].left > 0 /\ r[j].node \in 1 .. g.node
    <3>1. CASE j \in 1 .. n
      BY <1>1, <2>2, <3>1 DEF Stack
    <3>2. CASE j = n + 1
      BY <1>1, <1>2, <2>2, <3>2
    <3> QED
      BY <2>2, <3>1, <3>2
  <2>4. ASSUME NEW j \in DOMAIN r, NEW l \in DOMAIN r, j < l PROVE r[j].node < r[l].node
    <3>1. j \in 1 .. n
      BY <2>2, <2>4
    <3>2. CASE l \in 1 .. n
      BY <2>2, <2>4, <3>1, <3>2 DEF Stack
    <3>3. CASE l = n + 1
      <4>1. s[j].node \in 1 .. a /\ r[j] = s[j] /\ r[l] = g
        BY <2>2, <3>1, <3>3 DEF Stack
      <4> QED
        BY <1>1, <4>1
    <3> QED
      BY <2>2, <3>2, <3>3
  <2>5. Stack(r, g.node)
    BY <2>2, <2>3, <2>4 DEF Stack
  <2>6. n + 1 \in DOMAIN r
    BY <2>2
  <2>7. Lacks(r, g.node, g.left)
    BY <2>2, <2>6 DEF Lacks
  <2>8. ASSUME NEW k, NEW m, Lacks(s, k, m), k # g.node PROVE Lacks(r, k, m)
    <3>1. CASE \E j \in DOMAIN s : s[j].node = k /\ s[j].left = m
      <4>1. PICK j \in DOMAIN s : s[j].node = k /\ s[j].left = m
        BY <3>1
      <4>2. j \in DOMAIN r /\ r[j] = s[j]
        BY <2>2
      <4> QED
        BY <4>1, <4>2 DEF Lacks
    <3>2. CASE m = 0 /\ \A j \in DOMAIN s : s[j].node # k
      <4>1. ASSUME NEW j \in DOMAIN r PROVE r[j].node # k
        <5>1. CASE j \in 1 .. n
          BY <2>2, <3>2, <5>1
        <5>2. CASE j = n + 1
          BY <2>2, <2>8, <5>2
        <5> QED
          BY <2>2, <5>1, <5>2
      <4> QED
        BY <3>2, <4>1 DEF Lacks
    <3> QED
      BY <2>8, <3>1, <3>2 DEF Lacks
  <2> QED
    BY <2>1, <2>5, <2>7, <2>8
<1>3. CASE ~ (g.left > 0)
  <2>1. Push(s, g) = s /\ g.left = 0
    BY <1>1, <1>3 DEF Push
  <2>2. \A j \in DOMAIN s : s[j].node \in 1 .. a
    BY DEF Stack
  <2>3. Stack(s, g.node)
    <3>1. \A j \in DOMAIN s : s[j].node \in 1 .. g.node
      BY <1>1, <2>2
    <3> QED
      BY <3>1 DEF Stack
  <2>4. \A j \in DOMAIN s : s[j].node # g.node
    BY <1>1, <2>2
  <2> QED
    BY <2>1, <2>3, <2>4 DEF Lacks
<1> QED
  BY <1>2, <1>3

\* The last group of a stack is taken off.
LEMMA PopStack ==
  ASSUME NEW a \in Nat, NEW s, Stack(s, a), s # <<>>
  PROVE  /\ Last(s) \in OpenGroup /\ Last(s).left > 0 /\ Last(s).node \in 1 .. a
         /\ Stack(Front(s), Last(s).node - 1)
         /\ \A m : Lacks(s, Last(s).node, m) => m = Last(s).left
         /\ \A k, m : Lacks(s, k, m) /\ k # Last(s).node => Lacks(Front(s), k, m)
<1> DEFINE n == Len(s)
           r == Front(s)
           g == Last(s)
<1>1. s \in Seq(OpenGroup)
  BY DEF Stack
<1>2. /\ r \in Seq(OpenGroup) /\ n \in Nat /\ n >= 1
      /\ DOMAIN s = 1 .. n /\ DOMAIN r = 1 .. n - 1
      /\ \A j \in 1 .. n - 1 : r[j] = s[j]
      /\ g = s[n] /\ g \in OpenGroup
  BY <1>1, FrontOf
<1>3. n \in DOMAIN s
  BY <1>2
<1>4. g.left > 0 /\ g.node \in 1 .. a
  BY <1>2, <1>3 DEF Stack
<1>5. ASSUME NEW j \in 1 .. n - 1
      PROVE  s[j].node < g.node /\ s[j].node \in 1 .. a /\ s[j].left > 0
  <2>1. j \in DOMAIN s /\ j < n
    BY <1>2
  <2>2. s[j].node < s[n].node
    BY <1>3, <2>1 DEF Stack
  <2> QED
    BY <1>2, <2>1, <2>2 DEF Stack
<1> HIDE DEF n, r, g
<1>6. Stack(r, g.node - 1)
  <2>1. \A j \in DOMAIN r : r[j].left > 0 /\ r[j].node \in 1 .. g.node - 1
    BY <1>2, <1>4, <1>5
  <2>2. ASSUME NEW j \in DOMAIN r, NEW l \in DOMAIN r, j < l PROVE r[j].node < r[l].node
    <3>1. j \in DOMAIN s /\ l \in DOMAIN s /\ r[j] = s[j] /\ r[l] = s[l]
      BY <1>2
    <3> QED
      BY <2>2, <3>1 DEF Stack
  <2> QED
    BY <1>2, <2>1, <2>2 DEF Stack
<1>7. ASSUME NEW m, Lacks(s, g.node, m) PROVE m = g.left
  <2>1. PICK j \in DOMAIN s : s[j].node = g.node /\ s[j].left = m
    BY <1>2, <1>3, <1>7 DEF Lacks
  <2>2. j = n
    BY <1>2, <1>4, <1>5, <2>1
  <2> QED
    BY <1>2, <2>1, <2>2
<1>8. ASSUME NEW k, NEW m, Lacks(s, k, m), k # g.node PROVE Lacks(r, k, m)
  <2>1. CASE \E j \in DOMAIN s : s[j].node = k /\ s[j].left = m
    <3>1. PICK j \in DOMAIN s : s[j].node = k /\ s[j].left = m
      BY <2>1
    <3>2. j # n
      BY <1>2, <1>8, <3>1
    <3>3. j \in DOMAIN r /\ r[j] = s[j]
      BY <1>2, <3>2
    <3> QED
      BY <3>1, <3>3 DEF Lacks
  <2>2. CASE m = 0 /\ \A j \in DOMAIN s : s[j].node # k
    <3>1. \A j \in DOMAIN r : j \in DOMAIN s /\ r[j] = s[j]
      BY <1>2
    <3> QED
      BY <2>2, <3>1 DEF Lacks
  <2> QED
    BY <1>8, <2>1, <2>2 DEF Lacks
<1> QED
  BY <1>2, <1>4, <1>6, <1>7, <1>8 DEF r, g

\* The members that all groups lack.
LEMMA PushAll ==
  ASSUME NEW s \in Seq(OpenGroup), NEW g \in OpenGroup, g.left >= 0,
         NEW t, LackInAll(s, t)
  PROVE  LackInAll(Push(s, g), t + g.left)
<1> DEFINE n == Len(s)
<1>1. PICK f : InAll(f, s, t)
  BY DEF LackInAll
<1>2. n \in Nat /\ n \in 0 .. n /\ g.left \in Nat
  BY DEF OpenGroup
<1>3. f \in [0 .. n -> Nat] /\ f[0] = 0 /\ f[n] = t /\ t \in Nat
      /\ \A j \in 1 .. n : f[j] = f[j - 1] + s[j].left
  BY <1>1, <1>2 DEF InAll
<1>4. CASE g.left > 0
  <2> DEFINE r == Append(s, g)
             h == [j \in 0 .. n + 1 |-> IF j = n + 1 THEN t + g.left ELSE f[j]]
  <2>1. Push(s, g) = r
    BY <1>4 DEF Push
  <2>2. /\ Len(r) = n + 1
        /\ \A j \in 1 .. n : r[j] = s[j]
        /\ r[n + 1] = g
    BY Behind
  <2> HIDE DEF r, n
  <2>3. h \in [0 .. n + 1 -> Nat]
    BY <1>2, <1>3
  <2>4. h[0] = 0 /\ h[n + 1] = t + g.left
    BY <1>2, <1>3
  <2>5. ASSUME NEW j \in 1 .. n + 1 PROVE h[j] = h[j - 1] + r[j].left
    <3>1. CASE j \in 1 .. n
      <4>1. j \in 0 .. n + 1 /\ j - 1 \in 0 .. n + 1 /\ j # n + 1 /\ j - 1 # n + 1
        BY <1>2, <3>1
      <4>2. h[j] = f[j] /\ h[j - 1] = f[j - 1]
        BY <4>1
      <4> HIDE DEF h
      <4> QED
        BY <1>3, <2>2, <3>1, <4>2
    <3>2. CASE j = n + 1
      <4>1. j - 1 = n /\ n \in 0 .. n + 1 /\ n # n + 1
        BY <1>2, <3>2
      <4>2. h[j - 1] = t /\ h[j] = t + g.left
        BY <1>3, <2>4, <3>2, <4>1
      <4> HIDE DEF h
      <4> QED
        BY <2>2, <3>2, <4>2
    <3> QED
      BY <1>2, <3>1, <3>2
  <2>6. InAll(h, r, t + g.left)
    <3> HIDE DEF h
    <3> QED
      BY <2>2, <2>3, <2>4, <2>5 DEF InAll
  <2> HIDE DEF h
  <2> QED
    BY <2>1, <2>6 DEF LackInAll
<1>5. CASE ~ (g.left > 0)
  <2>1. Push(s, g) = s /\ t + g.left = t
    BY <1>2, <1>3, <1>5 DEF Push
  <2> QED
    BY <2>1
<1> QED
  BY <1>4, <1>5

LEMMA PopAll ==
  ASSUME NEW s \in Seq(OpenGroup), s # <<>>, NEW t, LackInAll(s, t)
  PROVE  LackInAll(Front(s), t - Last(s).left) /\ t \in Nat
<1> DEFINE n == Len(s)
           r == Front(s)
           g == Last(s)
<1>1. PICK f : InAll(f, s, t)
  BY DEF LackInAll
<1>2. /\ n \in Nat /\ n >= 1 /\ Len(r) = n - 1
      /\ \A j \in 1 .. n - 1 : r[j] = s[j]
      /\ g = s[n] /\ g \in OpenGroup
  BY FrontOf
<1>3. f \in [0 .. n -> Nat] /\ f[0] = 0 /\ f[n] = t
      /\ \A j \in 1 .. n : f[j] = f[j - 1] + s[j].left
  BY <1>1 DEF InAll
<1> HIDE DEF n, r, g
<1>4. n \in 1 .. n /\ n \in 0 .. n /\ n - 1 \in 0 .. n - 1 /\ n - 1 \in 0 .. n
  BY <1>2
<1>5. t \in Nat /\ f[n - 1] \in Nat /\ t = f[n - 1] + g.left /\ g.left \in Int
  BY <1>2, <1>3, <1>4 DEF OpenGroup
<1> DEFINE h == [j \in 0 .. n - 1 |-> f[j]]
<1>6. h \in [0 .. n - 1 -> Nat] /\ h[0] = 0 /\ h[n - 1] = t - g.left
  <2>1. 0 \in 0 .. n - 1 /\ \A j \in 0 .. n - 1 : f[j] \in Nat
    BY <1>2, <1>3
  <2> QED
    BY <1>3, <1>4, <1>5, <2>1
<1>7. ASSUME NEW j \in 1 .. n - 1 PROVE h[j] = h[j - 1] + r[j].left
  <2>1. j \in 0 .. n - 1 /\ j - 1 \in 0 .. n - 1 /\ j \in 1 .. n
    BY <1>2
  <2> QED
    BY <1>2, <1>3, <2>1
<1>8. InAll(h, r, t - g.left)
  <2> HIDE DEF h
  <2> QED
    BY <1>2, <1>6, <1>7 DEF InAll
<1> HIDE DEF h
<1> QED
  BY <1>5, <1>8 DEF LackInAll, r, g

\* When nothing is lacking, no group is open.
LEMMA NothingLacks ==
  ASSUME NEW a \in Nat, NEW s, Stack(s, a), LackInAll(s, 0)
  PROVE  s = <<>>
<1> SUFFICES ASSUME s # <<>> PROVE FALSE
  OBVIOUS
<1>1. s \in Seq(OpenGroup) /\ Last(s).left > 0 /\ Last(s) \in OpenGroup
  BY PopStack DEF Stack
<1>2. LackInAll(Front(s), 0 - Last(s).left)
  BY <1>1, PopAll
<1>3. PICK f : InAll(f, Front(s), 0 - Last(s).left)
  BY <1>2 DEF LackInAll
<1>4. Len(Front(s)) \in Nat
  BY <1>1, FrontOf
<1>5. 0 - Last(s).left \in Nat
  BY <1>3, <1>4 DEF InAll
<1> QED
  BY <1>1, <1>5 DEF OpenGroup

LEMMA NoStack ==
  /\ \A n \in Nat : Stack(<<>>, n)
  /\ LackInAll(<<>>, 0)
  /\ \A t : LackInAll(<<>>, t) => t = 0
  /\ \A k : Lacks(<<>>, k, 0)
<1>1. <<>> \in Seq(OpenGroup) /\ Len(<<>>) = 0 /\ DOMAIN <<>> = {}
  OBVIOUS
<1>2. InAll([j \in 0 .. 0 |-> 0], <<>>, 0)
  BY <1>1 DEF InAll
<1> QED
  BY <1>1, <1>2 DEF Stack, LackInAll, InAll, Lacks

\* The nodes that descriptions become.
ParsedNode ==
  [kind : Kinds, members : Nat,
   type : {"none", "signed_integer", "unsigned_integer", "floating_point", "bool"},
   size : Nat, parent : Nat]

ParseState == [nodes : Seq(ParsedNode), open : Seq(OpenGroup)]

LEMMA InGroupType ==
  ASSUME NEW d \in Node, NEW g \in Nat
  PROVE  /\ InGroup(d, g) \in ParsedNode
         /\ InGroup(d, g).parent = g /\ InGroup(d, g).members = d.members
         /\ InGroup(d, g).kind = d.kind /\ InGroup(d, g).type = d.type /\ InGroup(d, g).size = d.size
BY DEF InGroup, Node, ParsedNode

LEMMA ConstructType ==
  ASSUME NEW p \in ParseState, NEW d \in Node
  PROVE  Construct(p, d) \in ParseState
<1> DEFINE node == Len(p.nodes) + 1
           outer == IF p.open = <<>> THEN [node |-> 0, left |-> 1] ELSE Last(p.open)
           rest == IF p.open = <<>> THEN <<>> ELSE Front(p.open)
           less == [outer EXCEPT !.left = @ - 1]
           new == [node |-> node, left |-> d.members]
<1>1. p.nodes \in Seq(ParsedNode) /\ p.open \in Seq(OpenGroup) /\ node \in Nat
  BY DEF ParseState
<1>2. outer \in OpenGroup /\ rest \in Seq(OpenGroup)
  <2>1. CASE p.open = <<>>
    BY <2>1 DEF OpenGroup
  <2>2. CASE p.open # <<>>
    BY <1>1, <2>2, FrontOf
  <2> QED
    BY <2>1, <2>2
<1>3. d.members \in Nat
  BY DEF Node
<1>4. less \in OpenGroup /\ new \in OpenGroup
  <2> HIDE DEF outer, node
  <2> QED
    BY <1>1, <1>2, <1>3 DEF OpenGroup
<1>5. \A s \in Seq(OpenGroup), g \in OpenGroup : Push(s, g) \in Seq(OpenGroup)
  BY DEF Push
<1>6. outer.node \in Nat
  BY <1>2 DEF OpenGroup
<1>7. Append(p.nodes, InGroup(d, outer.node)) \in Seq(ParsedNode)
  <2>1. InGroup(d, outer.node) \in ParsedNode
    BY <1>6, InGroupType
  <2> HIDE DEF outer
  <2> QED
    BY <1>1, <2>1
<1>8. Push(Push(rest, less), new) \in Seq(OpenGroup)
  <2> HIDE DEF rest, less, new
  <2> QED
    BY <1>2, <1>4, <1>5
<1>9. Construct(p, d) = [nodes |-> Append(p.nodes, InGroup(d, outer.node)),
                         open |-> Push(Push(rest, less), new)]
  BY Zenon DEF Construct
<1> HIDE DEF outer, rest, less, new
<1> QED
  BY <1>7, <1>8, <1>9 DEF ParseState

\* The states of the constructors, one node after another.
Parsing(p, d) ==
  /\ DOMAIN p = 0 .. Len(d)
  /\ p[0] = [nodes |-> <<>>, open |-> <<>>]
  /\ \A n \in 1 .. Len(d) : p[n] = Construct(p[n - 1], d[n])

LEMMA ParsingExists ==
  ASSUME NEW d \in Seq(Node)
  PROVE  \E p : Parsing(p, d) /\ Parsed(d) = p[Len(d)]
<1> DEFINE N == Len(d)
           base == [nodes |-> <<>>, open |-> <<>>]
           step == [x \in Nat \X ParseState |->
                      IF x[1] \in 1 .. N THEN Construct(x[2], d[x[1]]) ELSE x[2]]
           Defines(g) == g = [n \in 0 .. N |-> IF n = 0 THEN base
                                               ELSE Construct(g[n - 1], d[n])]
<1>1. N \in Nat /\ \A n \in 1 .. N : d[n] \in Node
  OBVIOUS
<1>2. base \in ParseState
  BY DEF ParseState
<1>3. step \in [Nat \X ParseState -> ParseState]
  <2>1. ASSUME NEW x \in Nat \X ParseState
        PROVE  (IF x[1] \in 1 .. N THEN Construct(x[2], d[x[1]]) ELSE x[2]) \in ParseState
    <3>1. x[2] \in ParseState /\ x[1] \in Nat
      OBVIOUS
    <3>2. CASE x[1] \in 1 .. N
      BY <1>1, <3>1, <3>2, ConstructType
    <3> HIDE DEF N
    <3> QED
      BY <3>1, <3>2
  <2> QED
    BY <2>1
<1> HIDE DEF base
<1>4. \E f : Goes(f, ParseState, base, step, N)
  <2> HIDE DEF step, N
  <2> QED
    BY <1>1, <1>2, <1>3, Defined, Zenon
<1>5. PICK f : Goes(f, ParseState, base, step, N)
  BY <1>4
<1>6. f \in [0 .. N -> ParseState] /\ f[0] = base
  BY <1>5 DEF Goes
<1>7. ASSUME NEW n \in 1 .. N PROVE f[n] = Construct(f[n - 1], d[n])
  <2>1. n - 1 \in 0 .. N /\ n \in Nat
    BY <1>1
  <2>2. <<n, f[n - 1]>> \in Nat \X ParseState
    BY <1>6, <2>1
  <2>3. step[<<n, f[n - 1]>>] = Construct(f[n - 1], d[n])
    BY <2>2
  <2> HIDE DEF step
  <2> QED
    BY <1>5, <2>3 DEF Goes
<1>8. Defines(f)
  <2>1. f = [n \in 0 .. N |-> f[n]]
    BY <1>6
  <2>2. ASSUME NEW n \in 0 .. N
        PROVE  f[n] = IF n = 0 THEN base ELSE Construct(f[n - 1], d[n])
    <3>1. n = 0 \/ (n # 0 /\ n \in 1 .. N)
      BY <1>1
    <3> QED
      BY <1>6, <1>7, <3>1, Zenon
  <2> QED
    BY <2>1, <2>2
<1> DEFINE p == CHOOSE g : Defines(g)
<1>9. Defines(p)
  <2> HIDE DEF Defines
  <2> QED
    BY <1>8, Zenon
<1>10. Parsed(d) = p[N]
  BY DEF Parsed, base, N
<1>11. Parsing(p, d)
  <2> HIDE DEF p
  <2>1. p = [n \in 0 .. N |-> IF n = 0 THEN base ELSE Construct(p[n - 1], d[n])]
    BY <1>9
  <2>2. DOMAIN p = 0 .. N
    BY <2>1
  <2>3. p[0] = base
    BY <1>1, <2>1
  <2>4. ASSUME NEW n \in 1 .. N PROVE p[n] = Construct(p[n - 1], d[n])
    <3>1. n \in 0 .. N /\ n # 0
      BY <1>1
    <3> QED
      BY <2>1, <3>1
  <2> QED
    BY <2>2, <2>3, <2>4 DEF Parsing, base, N
<1> HIDE DEF p
<1> QED
  BY <1>10, <1>11 DEF N

\* The sums of the members that are announced.
LEMMA AnnouncedSums ==
  ASSUME NEW d \in Seq(Node)
  PROVE  /\ Announced(d)[0] = 1
         /\ \A n \in 1 .. Len(d) : Announced(d)[n] = Announced(d)[n - 1] + d[n].members
         /\ \A n \in 0 .. Len(d) : Announced(d)[n] \in Nat
<1> DEFINE N == Len(d)
           step == [x \in Nat \X Nat |->
                      IF x[1] \in 1 .. N THEN x[2] + d[x[1]].members ELSE x[2]]
           Defines(g) == g = [n \in 0 .. N |-> IF n = 0 THEN 1 ELSE g[n - 1] + d[n].members]
<1>1. N \in Nat /\ \A n \in 1 .. N : d[n].members \in Nat
  <2>1. N \in Nat /\ \A n \in 1 .. N : d[n] \in Node
    OBVIOUS
  <2> QED
    BY <2>1 DEF Node
<1>2. step \in [Nat \X Nat -> Nat]
  <2>1. ASSUME NEW x \in Nat \X Nat
        PROVE  (IF x[1] \in 1 .. N THEN x[2] + d[x[1]].members ELSE x[2]) \in Nat
    <3> HIDE DEF N
    <3> QED
      BY <1>1
  <2> QED
    BY <2>1
<1>3. \E f : Goes(f, Nat, 1, step, N)
  <2> HIDE DEF step, N
  <2>1. 1 \in Nat
    OBVIOUS
  <2> QED
    BY <1>1, <1>2, <2>1, Defined, Zenon
<1>4. PICK f : Goes(f, Nat, 1, step, N)
  BY <1>3
<1>5. f \in [0 .. N -> Nat] /\ f[0] = 1
  BY <1>4 DEF Goes
<1>6. ASSUME NEW n \in 1 .. N PROVE f[n] = f[n - 1] + d[n].members
  <2>1. n - 1 \in 0 .. N /\ n \in Nat
    BY <1>1
  <2>2. <<n, f[n - 1]>> \in Nat \X Nat
    BY <1>5, <2>1
  <2>3. step[<<n, f[n - 1]>>] = f[n - 1] + d[n].members
    BY <2>2
  <2> HIDE DEF step
  <2> QED
    BY <1>4, <2>3 DEF Goes
<1>7. Defines(f)
  <2>1. f = [n \in 0 .. N |-> f[n]]
    BY <1>5
  <2>2. ASSUME NEW n \in 0 .. N PROVE f[n] = IF n = 0 THEN 1 ELSE f[n - 1] + d[n].members
    <3>1. n = 0 \/ (n # 0 /\ n \in 1 .. N)
      BY <1>1
    <3> QED
      BY <1>5, <1>6, <3>1, Zenon
  <2> QED
    BY <2>1, <2>2
<1> DEFINE p == CHOOSE g : Defines(g)
<1>8. Defines(p)
  <2> HIDE DEF Defines
  <2> QED
    BY <1>7, Zenon
<1>9. Announced(d) = p
  BY DEF Announced, N
<1> HIDE DEF p
<1>10. p[0] = 1
  BY <1>1, <1>8
<1>11. ASSUME NEW n \in 1 .. N PROVE p[n] = p[n - 1] + d[n].members
  <2>1. n \in 0 .. N /\ n # 0
    BY <1>1
  <2> QED
    BY <1>8, <2>1
<1> DEFINE Good == {n \in Nat : n <= N => p[n] \in Nat}
<1>12. 0 \in Good
  BY <1>10
<1>13. ASSUME NEW n \in Nat, n \in Good PROVE n + 1 \in Good
  <2> SUFFICES ASSUME n + 1 <= N PROVE p[n + 1] \in Nat
    OBVIOUS
  <2>1. n + 1 \in 1 .. N /\ (n + 1) - 1 = n /\ n <= N
    BY <1>1
  <2>2. p[n + 1] = p[n] + d[n + 1].members /\ p[n] \in Nat /\ d[n + 1].members \in Nat
    BY <1>1, <1>11, <1>13, <2>1
  <2> QED
    BY <2>2
<1>14. \A n \in Nat : n \in Good
  <2> HIDE DEF Good
  <2> QED
    BY <1>12, <1>13, Induction
<1>15. \A n \in 0 .. N : p[n] \in Nat
  BY <1>1, <1>14
<1> QED
  BY <1>9, <1>10, <1>11, <1>15 DEF N

LEMMA MissingNodes ==
  ASSUME NEW d, WellFormed(d), NEW n \in 1 .. Len(d)
  PROVE  /\ Missing(d)[n] = Announced(d)[n] - n
         /\ Missing(d)[n] \in Int
         /\ n < Len(d) <=> n < Announced(d)[n]
<1>1. d \in Seq(Node) /\ Len(d) \in Nat
  BY DEF WellFormed
<1>2. DOMAIN d = 1 .. Len(d) /\ n \in DOMAIN d /\ n \in 0 .. Len(d)
  BY <1>1
<1>3. Announced(d)[n] \in Nat
  BY <1>1, <1>2, AnnouncedSums
<1>4. Missing(d)[n] = Announced(d)[n] - n
  BY <1>2 DEF Missing
<1>5. n < Len(d) <=> Missing(d)[n] > 0
  BY <1>2, Zenon DEF WellFormed
<1> QED
  BY <1>3, <1>4, <1>5

\* What the constructors have made of the first n nodes.
Built(p, d, n) ==
  /\ p \in ParseState
  /\ Len(p.nodes) = n
  /\ \A k \in 1 .. n :
       /\ p.nodes[k].parent \in 0 .. k - 1
       /\ p.nodes[k].kind = d[k].kind
       /\ p.nodes[k].members = d[k].members
       /\ p.nodes[k].type = d[k].type /\ p.nodes[k].size = d[k].size
  /\ Stack(p.open, n)
  /\ \A k \in 1 .. n :
       /\ IsFiniteSet(Members(p.nodes, k))
       /\ Lacks(p.open, k, d[k].members - Cardinality(Members(p.nodes, k)))
  /\ IF n = 0 THEN p.open = <<>> ELSE LackInAll(p.open, Announced(d)[n] - n)

\* A node more.
LEMMA MembersAfter ==
  ASSUME NEW nodes \in Seq(ParsedNode), NEW x \in ParsedNode,
         \A j \in 1 .. Len(nodes) : nodes[j].parent \in 0 .. j - 1,
         x.parent \in 0 .. Len(nodes)
  PROVE  /\ \A k \in 1 .. Len(nodes) :
              Members(Append(nodes, x), k) =
                IF k = x.parent THEN Members(nodes, k) \cup {Len(nodes) + 1}
                                ELSE Members(nodes, k)
         /\ Members(Append(nodes, x), Len(nodes) + 1) = {}
         /\ \A k \in 1 .. Len(nodes) : Len(nodes) + 1 \notin Members(nodes, k)
<1> DEFINE n == Len(nodes)
           after == Append(nodes, x)
<1>1. /\ n \in Nat /\ DOMAIN nodes = 1 .. n /\ DOMAIN after = 1 .. n + 1
      /\ \A j \in 1 .. n : after[j] = nodes[j]
      /\ after[n + 1] = x
  BY Behind
<1> HIDE DEF n, after
<1>2. \A k : Members(nodes, k) = {j \in 1 .. n : nodes[j].parent = k}
  BY <1>1 DEF Members
<1>3. \A k : Members(after, k) = {j \in 1 .. n + 1 : after[j].parent = k}
  BY <1>1 DEF Members
<1>4. ASSUME NEW k PROVE Members(after, k) = {j \in 1 .. n : nodes[j].parent = k}
                           \cup {j \in {n + 1} : x.parent = k}
  <2>1. 1 .. n + 1 = (1 .. n) \cup {n + 1}
    BY <1>1
  <2> QED
    BY <1>1, <1>3, <2>1
<1>5. \A k \in 1 .. n : Members(after, k) =
                IF k = x.parent THEN Members(nodes, k) \cup {n + 1} ELSE Members(nodes, k)
  BY <1>2, <1>4
<1>6. \A j \in 1 .. n : nodes[j].parent # n + 1
  <2> TAKE j \in 1 .. n
  <2>1. nodes[j].parent \in 0 .. j - 1
    BY DEF n
  <2> QED
    BY <1>1, <2>1
<1>7. x.parent # n + 1
  <2>1. x.parent \in 0 .. n
    BY DEF n
  <2> QED
    BY <1>1, <2>1
<1>8. Members(after, n + 1) = {}
  BY <1>4, <1>6, <1>7
<1>9. \A k \in 1 .. n : n + 1 \notin Members(nodes, k)
  BY <1>1, <1>2
<1> QED
  BY <1>5, <1>8, <1>9 DEF n, after

LEMMA BuiltStart ==
  ASSUME NEW d
  PROVE  Built([nodes |-> <<>>, open |-> <<>>], d, 0)
<1>1. [nodes |-> <<>>, open |-> <<>>] \in ParseState
  BY DEF ParseState
<1>2. Stack(<<>>, 0)
  BY NoStack
<1>3. 1 .. 0 = {} /\ Len(<<>>) = 0
  OBVIOUS
<1> QED
  BY <1>1, <1>2, <1>3 DEF Built

\* One constructor.
LEMMA BuiltStep ==
  ASSUME NEW d, WellFormed(d), NEW n \in Nat, n < Len(d), NEW p, Built(p, d, n)
  PROVE  Built(Construct(p, d[n + 1]), d, n + 1)
<1> DEFINE x == d[n + 1]
           outer == IF p.open = <<>> THEN [node |-> 0, left |-> 1] ELSE Last(p.open)
           rest == IF p.open = <<>> THEN <<>> ELSE Front(p.open)
           less == [outer EXCEPT !.left = @ - 1]
           new == [node |-> n + 1, left |-> x.members]
           mid == Push(rest, less)
           open == Push(mid, new)
           y == InGroup(x, outer.node)
           nodes == Append(p.nodes, y)
           q == outer.node
           after == [nodes |-> nodes, open |-> open]
<1>1. d \in Seq(Node) /\ Len(d) \in Nat /\ n + 1 \in 1 .. Len(d) /\ n \in 0 .. Len(d)
  BY DEF WellFormed
<1>2. x \in Node /\ x.members \in Nat
  <2>1. x \in Node
    BY <1>1
  <2> QED
    BY <2>1 DEF Node
<1>3. p \in ParseState /\ p.nodes \in Seq(ParsedNode) /\ p.open \in Seq(OpenGroup)
      /\ Len(p.nodes) = n /\ Stack(p.open, n)
  BY DEF Built, ParseState
<1>4. Construct(p, x) = after
  BY <1>3, Zenon DEF Construct
<1>5. after \in ParseState
  BY <1>2, <1>3, <1>4, ConstructType
<1>6. new \in OpenGroup /\ new.left = x.members /\ new.node = n + 1 /\ new.left >= 0
  BY <1>2 DEF OpenGroup
<1>7. /\ Announced(d)[n + 1] = Announced(d)[n] + x.members
      /\ Announced(d)[n] \in Nat /\ Announced(d)[0] = 1
  <2>1. (n + 1) - 1 = n
    OBVIOUS
  <2> QED
    BY <1>1, <2>1, AnnouncedSums
<1>8. n # 0 => n < Announced(d)[n]
  <2>1. n # 0 => n \in 1 .. Len(d)
    BY <1>1
  <2> QED
    BY <2>1, MissingNodes
<1>9. p.open = <<>> <=> n = 0
  <2>1. CASE n = 0
    BY <2>1 DEF Built
  <2>2. CASE n # 0
    <3> SUFFICES ASSUME p.open = <<>> PROVE FALSE
      BY <2>2
    <3>1. LackInAll(<<>>, Announced(d)[n] - n)
      BY <2>2 DEF Built
    <3>2. Announced(d)[n] - n = 0
      BY <3>1, NoStack
    <3> QED
      BY <1>7, <1>8, <2>2, <3>2
  <2> QED
    BY <2>1, <2>2
\* The stack.
<1>10. /\ less \in OpenGroup /\ less.node = q /\ q \in 0 .. n /\ less.left >= 0
       /\ less.left = outer.left - 1 /\ outer \in OpenGroup
  <2>1. CASE n = 0
    BY <1>9, <2>1 DEF OpenGroup
  <2>2. CASE n # 0
    <3>1. outer = Last(p.open) /\ p.open # <<>>
      BY <1>9, <2>2
    <3>2. outer \in OpenGroup /\ outer.left > 0 /\ outer.node \in 1 .. n
      BY <1>3, <3>1, PopStack
    <3> HIDE DEF outer
    <3>3. outer.node \in Nat /\ outer.left \in Int
      BY <3>2 DEF OpenGroup
    <3>4. less \in OpenGroup /\ less.node = outer.node /\ less.left = outer.left - 1
      BY <3>2, <3>3 DEF OpenGroup
    <3> QED
      BY <3>2, <3>3, <3>4
  <2> QED
    BY <2>1, <2>2
<1>11. /\ Stack(mid, q)
       /\ \A k, m : Lacks(p.open, k, m) /\ k # q => Lacks(mid, k, m)
       /\ n # 0 => Lacks(mid, q, less.left)
  <2>1. CASE n = 0
    <3>1. less.left = 0 /\ rest = <<>> /\ q = 0 /\ p.open = <<>>
      BY <1>9, <2>1
    <3>2. mid = <<>>
      BY <3>1 DEF Push
    <3> QED
      BY <2>1, <3>1, <3>2, NoStack
  <2>2. CASE n # 0
    <3>1. outer = Last(p.open) /\ rest = Front(p.open) /\ p.open # <<>>
      BY <1>9, <2>2
    <3>2. /\ Stack(rest, q - 1) /\ q \in 1 .. n
          /\ \A k, m : Lacks(p.open, k, m) /\ k # q => Lacks(rest, k, m)
      BY <1>3, <3>1, PopStack
    <3>3. q - 1 \in Nat /\ less.node > q - 1
      BY <1>10, <3>2
    <3> HIDE DEF less, rest, q
    <3>4. /\ Stack(mid, less.node)
          /\ Lacks(mid, less.node, less.left)
          /\ \A k, m : Lacks(rest, k, m) /\ k # less.node => Lacks(mid, k, m)
      BY <1>10, <3>2, <3>3, PushStack
    <3> QED
      BY <1>10, <3>2, <3>4
  <2> QED
    BY <2>1, <2>2
<1>12. /\ Stack(open, n + 1)
       /\ Lacks(open, n + 1, x.members)
       /\ \A k, m : Lacks(mid, k, m) /\ k # n + 1 => Lacks(open, k, m)
  <2>1. q \in Nat /\ new.node > q
    BY <1>6, <1>10
  <2> HIDE DEF mid, new, q
  <2> QED
    BY <1>6, <1>11, <2>1, PushStack
\* What is lacking in all.
<1>13. LackInAll(open, Announced(d)[n + 1] - (n + 1))
  <2> DEFINE t == Announced(d)[n] - n
  <2>1. rest \in Seq(OpenGroup) /\ mid \in Seq(OpenGroup)
    <3>1. CASE n = 0
      BY <1>9, <1>11, <3>1 DEF Stack
    <3>2. CASE n # 0
      BY <1>3, <1>9, <1>11, <3>2, FrontOf DEF Stack
    <3> QED
      BY <3>1, <3>2
  <2>2. LackInAll(mid, t - 1) /\ t \in Int
    <3>1. CASE n = 0
      <4>1. mid = <<>>
        BY <1>9, <3>1 DEF Push
      <4>2. t - 1 = 0 /\ t \in Int
        BY <1>7, <3>1
      <4> QED
        BY <4>1, <4>2, NoStack
    <3>2. CASE n # 0
      <4>1. outer = Last(p.open) /\ rest = Front(p.open) /\ p.open # <<>>
        BY <1>9, <3>2
      <4>2. LackInAll(p.open, t)
        BY <3>2 DEF Built
      <4>3. LackInAll(rest, t - outer.left) /\ t \in Nat
        BY <1>3, <4>1, <4>2, PopAll
      <4> HIDE DEF rest, less, outer, t
      <4>4. LackInAll(mid, (t - outer.left) + less.left)
        BY <1>10, <2>1, <4>3, PushAll
      <4>5. outer.left \in Int
        BY <1>10 DEF OpenGroup
      <4>6. (t - outer.left) + less.left = t - 1
        BY <1>10, <4>3, <4>5
      <4> QED
        BY <4>3, <4>4, <4>6
    <3> QED
      BY <3>1, <3>2
  <2>3. LackInAll(open, (t - 1) + new.left)
    <3> HIDE DEF mid, new, t
    <3> QED
      BY <1>6, <2>1, <2>2, PushAll
  <2>4. (t - 1) + new.left = Announced(d)[n + 1] - (n + 1)
    BY <1>2, <1>6, <1>7
  <2> QED
    BY <2>3, <2>4
\* The nodes.
<1>14. /\ y \in ParsedNode /\ y.parent = q /\ y.members = x.members
       /\ y.kind = x.kind /\ y.type = x.type /\ y.size = x.size
  <2>1. q \in Nat
    BY <1>10
  <2> HIDE DEF outer
  <2> QED
    BY <1>2, <2>1, InGroupType
<1> HIDE DEF y
<1>15. /\ Len(nodes) = n + 1
       /\ \A j \in 1 .. n : nodes[j] = p.nodes[j]
       /\ nodes[n + 1] = y
  BY <1>3, <1>14, Behind
<1>16. \A j \in 1 .. n : p.nodes[j].parent \in 0 .. j - 1
  BY DEF Built
<1>17. /\ \A k \in 1 .. n : Members(nodes, k) = IF k = q THEN Members(p.nodes, k) \cup {n + 1}
                                                ELSE Members(p.nodes, k)
       /\ Members(nodes, n + 1) = {}
       /\ \A k \in 1 .. n : n + 1 \notin Members(p.nodes, k)
  <2>1. y.parent \in 0 .. Len(p.nodes)
    BY <1>3, <1>10, <1>14
  <2>2. \A j \in 1 .. Len(p.nodes) : p.nodes[j].parent \in 0 .. j - 1
    BY <1>3, <1>16
  <2>3. p.nodes \in Seq(ParsedNode) /\ y \in ParsedNode
    BY <1>3, <1>14
  <2>4. /\ \A k \in 1 .. Len(p.nodes) :
              Members(nodes, k) = IF k = y.parent THEN Members(p.nodes, k) \cup {Len(p.nodes) + 1}
                                                  ELSE Members(p.nodes, k)
        /\ Members(nodes, Len(p.nodes) + 1) = {}
        /\ \A k \in 1 .. Len(p.nodes) : Len(p.nodes) + 1 \notin Members(p.nodes, k)
    BY <2>1, <2>2, <2>3, MembersAfter, Zenon
  <2>5. y.parent = q /\ Len(p.nodes) = n
    BY <1>3, <1>14
  <2> HIDE DEF q, nodes
  <2> QED
    BY <2>4, <2>5, Zenon
<1> HIDE DEF nodes, open, mid, less, new, rest, outer
<1>18. ASSUME NEW k \in 1 .. n + 1
       PROVE  /\ nodes[k].parent \in 0 .. k - 1
              /\ nodes[k].kind = d[k].kind
              /\ nodes[k].members = d[k].members
              /\ nodes[k].type = d[k].type /\ nodes[k].size = d[k].size
  <2>1. CASE k \in 1 .. n
    BY <1>15, <2>1 DEF Built
  <2>2. CASE k = n + 1
    BY <1>10, <1>14, <1>15, <2>2
  <2> QED
    BY <2>1, <2>2
<1>19. ASSUME NEW k \in 1 .. n + 1
       PROVE  /\ IsFiniteSet(Members(nodes, k))
              /\ Lacks(open, k, d[k].members - Cardinality(Members(nodes, k)))
  <2>1. CASE k = n + 1
    <3>1. Members(nodes, k) = {} /\ x.members - 0 = x.members
      BY <1>2, <1>17, <2>1
    <3>2. IsFiniteSet({}) /\ Cardinality({}) = 0
      BY FS_EmptySet
    <3> QED
      BY <1>12, <2>1, <3>1, <3>2
  <2>2. CASE k \in 1 .. n
    <3> DEFINE old == Members(p.nodes, k)
               m == d[k].members - Cardinality(old)
    <3>1. IsFiniteSet(old) /\ Lacks(p.open, k, m) /\ k # n + 1 /\ Cardinality(old) \in Nat
      <4>1. IsFiniteSet(old) /\ Lacks(p.open, k, m)
        BY <2>2 DEF Built
      <4> QED
        BY <2>2, <4>1, FS_CardinalityType
    <3>2. CASE k # q
      <4>1. Members(nodes, k) = old
        BY <1>17, <2>2, <3>2
      <4>2. Lacks(open, k, m)
        BY <1>11, <1>12, <3>1, <3>2
      <4> QED
        BY <3>1, <4>1, <4>2
    <3>3. CASE k = q
      <4>1. n # 0 /\ Members(nodes, k) = old \cup {n + 1} /\ n + 1 \notin old
        BY <1>17, <2>2, <3>3
      <4>2. IsFiniteSet(Members(nodes, k)) /\ Cardinality(Members(nodes, k)) = Cardinality(old) + 1
        BY <3>1, <4>1, FS_AddElement
      <4>3. outer = Last(p.open) /\ p.open # <<>>
        BY <1>9, <4>1 DEF outer
      <4>4. m = outer.left
        BY <1>3, <3>1, <3>3, <4>3, PopStack DEF q
      <4>5. Lacks(open, k, less.left)
        BY <1>11, <1>12, <3>1, <3>3, <4>1
      <4>6. d[k].members \in Nat
        <5>1. d[k] \in Node
          BY <1>1, <2>2
        <5> QED
          BY <5>1 DEF Node
      <4>7. d[k].members - Cardinality(Members(nodes, k)) = m - 1
        BY <3>1, <4>2, <4>6
      <4>8. less.left = m - 1
        BY <1>10, <4>4
      <4> QED
        BY <4>2, <4>5, <4>7, <4>8
    <3> QED
      BY <3>2, <3>3
  <2> QED
    BY <2>1, <2>2
<1>20. after.nodes = nodes /\ after.open = open /\ n + 1 # 0
  OBVIOUS
<1> HIDE DEF after, x
<1>21. Built(after, d, n + 1)
  BY <1>5, <1>12, <1>13, <1>15, <1>18, <1>19, <1>20 DEF Built
<1> QED
  BY <1>4, <1>21 DEF x

\* What becomes of a description: every group has its members.
LEMMA ParseResult ==
  ASSUME NEW d, WellFormed(d)
  PROVE  /\ Parse(d) \in Seq(ParsedNode)
         /\ Len(Parse(d)) = Len(d)
         /\ \A k \in 1 .. Len(d) :
              /\ Parse(d)[k].parent \in 0 .. k - 1
              /\ Parse(d)[k].kind = d[k].kind
              /\ Parse(d)[k].type = d[k].type /\ Parse(d)[k].size = d[k].size
              /\ Parse(d)[k].members = d[k].members
              /\ Cardinality(Members(Parse(d), k)) = Parse(d)[k].members
<1> DEFINE N == Len(d)
<1>1. d \in Seq(Node) /\ N \in Nat /\ N # 0 /\ DOMAIN d = 1 .. N
  BY DEF WellFormed
<1>2. PICK p : Parsing(p, d) /\ Parsed(d) = p[N]
  BY <1>1, ParsingExists
<1>3. p[0] = [nodes |-> <<>>, open |-> <<>>] /\ \A n \in 1 .. N : p[n] = Construct(p[n - 1], d[n])
  BY <1>2 DEF Parsing
<1> HIDE DEF N
<1> DEFINE Good == {n \in Nat : n <= N => Built(p[n], d, n)}
<1>4. 0 \in Good
  BY <1>3, BuiltStart
<1>5. ASSUME NEW n \in Nat, n \in Good PROVE n + 1 \in Good
  <2> SUFFICES ASSUME n + 1 <= N PROVE Built(p[n + 1], d, n + 1)
    OBVIOUS
  <2>1. n + 1 \in 1 .. N /\ (n + 1) - 1 = n /\ n <= N /\ n < Len(d)
    BY <1>1 DEF N
  <2>2. p[n + 1] = Construct(p[n], d[n + 1])
    BY <1>3, <2>1
  <2>3. Built(p[n], d, n)
    BY <1>5, <2>1
  <2> QED
    BY <2>1, <2>2, <2>3, BuiltStep
<1>6. N \in Good
  <2> HIDE DEF Good
  <2> QED
    BY <1>1, <1>4, <1>5, Induction
<1> DEFINE final == p[N]
<1>7. Built(final, d, N)
  BY <1>1, <1>6
<1>8. Parse(d) = final.nodes
  BY <1>2, Zenon DEF Parse
<1> HIDE DEF final
<1>9. final.nodes \in Seq(ParsedNode) /\ Len(final.nodes) = N
  BY <1>7 DEF Built, ParseState
\* The last node ends the last group.
<1>10. Announced(d)[N] = N
  <2>1. N \in DOMAIN d /\ ~ (N < Announced(d)[N])
    <3>1. N \in 1 .. Len(d) /\ ~ (N < Len(d))
      BY <1>1 DEF N
    <3> QED
      BY <1>1, <3>1, MissingNodes
  <2>2. /\ Announced(d)[N] \in Nat /\ Announced(d)[N - 1] \in Nat
        /\ Announced(d)[N] = Announced(d)[N - 1] + d[N].members /\ d[N].members \in Nat
    <3>1. N \in 1 .. Len(d) /\ N - 1 \in 0 .. Len(d) /\ N \in 0 .. Len(d) /\ d[N] \in Node
      BY <1>1 DEF N
    <3>2. d[N].members \in Nat
      BY <3>1 DEF Node
    <3> QED
      BY <1>1, <3>1, <3>2, AnnouncedSums
  <2>3. Announced(d)[N - 1] > N - 1
    <3>1. CASE N = 1
      BY <1>1, <3>1, AnnouncedSums
    <3>2. CASE N # 1
      <4>1. N - 1 \in DOMAIN d /\ N - 1 < Len(d)
        BY <1>1, <3>2 DEF N
      <4>2. N - 1 \in 1 .. Len(d)
        BY <1>1, <4>1 DEF N
      <4> QED
        BY <1>1, <2>2, <4>1, <4>2, MissingNodes
    <3> QED
      BY <3>1, <3>2
  <2> QED
    BY <1>1, <2>1, <2>2, <2>3
<1>11. final.open = <<>>
  <2>1. LackInAll(final.open, Announced(d)[N] - N) /\ Stack(final.open, N)
    BY <1>1, <1>7 DEF Built
  <2>2. Announced(d)[N] - N = 0
    BY <1>1, <1>10
  <2> QED
    BY <1>1, <2>1, <2>2, NothingLacks
<1>12. ASSUME NEW k \in 1 .. N PROVE Cardinality(Members(final.nodes, k)) = final.nodes[k].members
  <2>1. /\ Lacks(<<>>, k, d[k].members - Cardinality(Members(final.nodes, k)))
        /\ IsFiniteSet(Members(final.nodes, k))
        /\ final.nodes[k].members = d[k].members
    BY <1>7, <1>11 DEF Built
  <2>2. Cardinality(Members(final.nodes, k)) \in Nat
    BY <2>1, FS_CardinalityType
  <2>3. d[k].members \in Nat
    <3>1. d[k] \in Node
      BY <1>1
    <3> QED
      BY <3>1 DEF Node
  <2>4. d[k].members - Cardinality(Members(final.nodes, k)) = 0
    <3>1. DOMAIN <<>> = {}
      OBVIOUS
    <3> QED
      BY <2>1, <3>1 DEF Lacks
  <2> QED
    BY <2>1, <2>2, <2>3, <2>4
<1> QED
  BY <1>7, <1>8, <1>9, <1>12 DEF Built, N

\* A group lacks no more than all groups together.
LEMMA LacksAtMost ==
  ASSUME NEW a, NEW s, Stack(s, a), NEW t, LackInAll(s, t), NEW k, NEW m, Lacks(s, k, m)
  PROVE  t \in Nat /\ m \in Int /\ m <= t
<1> DEFINE N == Len(s)
<1>1. PICK f : InAll(f, s, t)
  BY DEF LackInAll
<1>2. s \in Seq(OpenGroup)
  BY DEF Stack
<1>3. /\ N \in Nat /\ DOMAIN s = 1 .. N
      /\ f \in [0 .. N -> Nat] /\ f[N] = t
      /\ \A j \in 1 .. N : f[j] = f[j - 1] + s[j].left
  BY <1>1, <1>2 DEF InAll
<1>4. \A j \in 1 .. N : s[j].left \in Nat
  <2>1. \A j \in 1 .. N : s[j] \in OpenGroup /\ s[j].left > 0
    BY <1>2, <1>3 DEF Stack
  <2> QED
    BY <2>1 DEF OpenGroup
<1> HIDE DEF N
<1>5. t \in Nat
  BY <1>3
<1>6. CASE m = 0
  BY <1>5, <1>6
<1>7. CASE m # 0
  <2>1. PICK j \in 1 .. N : s[j].left = m
    BY <1>3, <1>7 DEF Lacks
  <2> DEFINE Good == {l \in Nat : j + l <= N => f[j] <= f[j + l]}
  <2>2. 0 \in Good
    <3>1. j + 0 = j /\ f[j] \in Nat
      BY <1>3
    <3> QED
      BY <3>1
  <2>3. ASSUME NEW l \in Nat, l \in Good PROVE l + 1 \in Good
    <3> SUFFICES ASSUME j + (l + 1) <= N PROVE f[j] <= f[j + (l + 1)]
      OBVIOUS
    <3> DEFINE i == j + (l + 1)
    <3>1. j + l <= N /\ i \in 1 .. N /\ i - 1 = j + l
          /\ j + l \in 0 .. N /\ j \in 0 .. N /\ i \in 0 .. N
      BY <1>3
    <3> HIDE DEF i
    <3>2. f[j] <= f[j + l]
      BY <2>3, <3>1
    <3>3. f[i] = f[j + l] + s[i].left /\ s[i].left \in Nat
      BY <1>3, <1>4, <3>1
    <3>4. f[j] \in Nat /\ f[j + l] \in Nat
      BY <1>3, <3>1
    <3> QED
      BY <3>2, <3>3, <3>4 DEF i
  <2>4. \A l \in Nat : l \in Good
    <3> HIDE DEF Good
    <3> QED
      BY <2>2, <2>3, Induction
  <2>5. f[j] <= f[N]
    <3>1. N - j \in Nat /\ j + (N - j) = N
      BY <1>3
    <3>2. N - j \in Good
      BY <2>4, <3>1
    <3> QED
      BY <1>3, <3>1, <3>2
  <2>6. f[j] = f[j - 1] + m /\ f[j] \in Nat /\ f[j - 1] \in Nat /\ m \in Nat
    <3>1. j - 1 \in 0 .. N /\ j \in 0 .. N
      BY <1>3
    <3> QED
      BY <1>3, <1>4, <2>1, <3>1
  <2> QED
    BY <1>3, <2>5, <2>6
<1> QED
  BY <1>6, <1>7

LEMMA BottomOfStack ==
  ASSUME NEW s, Stack(s, 0)
  PROVE  s = <<>>
<1>1. s \in Seq(OpenGroup) /\ \A j \in DOMAIN s : s[j].node \in 1 .. 0
  BY DEF Stack
<1>2. ASSUME NEW j \in DOMAIN s PROVE FALSE
  <2>1. s[j].node \in 1 .. 0
    BY <1>1
  <2> QED
    BY <2>1
<1>3. DOMAIN s = {}
  BY <1>2
<1> QED
  BY <1>1, <1>3

\* What a constructor makes of a stack that is not empty.
Grown(s, n, members) ==
  Push(Push(Front(s), [Last(s) EXCEPT !.left = @ - 1]), [node |-> n + 1, left |-> members])

LEMMA StackStep ==
  ASSUME NEW n \in Nat, NEW s, Stack(s, n), s # <<>>, NEW members \in Nat,
         NEW open, open = Grown(s, n, members)
  PROVE  /\ Last(s).node \in 1 .. n /\ Last(s).left \in Nat /\ Last(s).left > 0
         /\ \A m : Lacks(s, Last(s).node, m) => m = Last(s).left
         /\ Lacks(open, Last(s).node, Last(s).left - 1)
         /\ \A k, m : Lacks(s, k, m) /\ k # Last(s).node /\ k # n + 1 => Lacks(open, k, m)
         /\ members > 0 => open # <<>> /\ Last(open).node = n + 1
<1> DEFINE g == Last(s)
           rest == Front(s)
           less == [g EXCEPT !.left = @ - 1]
           mid == Push(rest, less)
           new == [node |-> n + 1, left |-> members]
<1>1. /\ g \in OpenGroup /\ g.left > 0 /\ g.node \in 1 .. n
      /\ Stack(rest, g.node - 1)
      /\ \A m : Lacks(s, g.node, m) => m = g.left
      /\ \A k, m : Lacks(s, k, m) /\ k # g.node => Lacks(rest, k, m)
  BY PopStack
<1> HIDE DEF g, rest
<1>2. g.left \in Int /\ g.node \in Nat
  BY <1>1 DEF OpenGroup
<1>3. /\ less \in OpenGroup /\ less.node = g.node /\ less.left = g.left - 1 /\ less.left >= 0
  BY <1>1, <1>2 DEF OpenGroup
<1>4. new \in OpenGroup /\ new.node = n + 1 /\ new.left = members /\ new.left >= 0
  BY DEF OpenGroup
<1>5. g.node - 1 \in Nat /\ less.node > g.node - 1
  BY <1>1, <1>2, <1>3
<1> HIDE DEF less
<1>6. /\ Stack(mid, less.node)
      /\ Lacks(mid, less.node, less.left)
      /\ \A k, m : Lacks(rest, k, m) /\ k # less.node => Lacks(mid, k, m)
  BY <1>1, <1>3, <1>5, PushStack
<1> HIDE DEF mid
<1>7. less.node \in Nat /\ new.node > less.node
  BY <1>1, <1>2, <1>3, <1>4
<1>8. open = Push(mid, new)
  BY DEF Grown, mid, less, rest, g
<1> HIDE DEF new
<1>9. /\ \A k, m : Lacks(mid, k, m) /\ k # new.node => Lacks(open, k, m)
  BY <1>4, <1>6, <1>7, <1>8, PushStack
<1>10. members > 0 => open # <<>> /\ Last(open).node = n + 1
  <2> SUFFICES ASSUME members > 0 PROVE open # <<>> /\ Last(open).node = n + 1
    OBVIOUS
  <2>1. open = Append(mid, new)
    BY <1>4, <1>8 DEF Push
  <2>2. mid \in Seq(OpenGroup)
    BY <1>6 DEF Stack
  <2>3. Len(open) = Len(mid) + 1 /\ Len(mid) \in Nat /\ open[Len(mid) + 1] = new
    BY <1>4, <2>1, <2>2, Behind
  <2> QED
    BY <1>4, <2>3 DEF Last
<1>11. Lacks(open, g.node, g.left - 1)
  <2>1. Lacks(mid, g.node, g.left - 1) /\ g.node # new.node
    BY <1>1, <1>2, <1>3, <1>4, <1>6
  <2> QED
    BY <1>9, <2>1
<1>12. ASSUME NEW k, NEW m, Lacks(s, k, m), k # g.node, k # n + 1
       PROVE  Lacks(open, k, m)
  <2>1. Lacks(rest, k, m)
    BY <1>1, <1>12
  <2>2. Lacks(mid, k, m)
    BY <1>3, <1>6, <1>12, <2>1
  <2> QED
    BY <1>4, <1>9, <1>12, <2>2
<1>13. g.left \in Nat
  BY <1>1, <1>2
<1> QED
  BY <1>1, <1>10, <1>11, <1>12, <1>13 DEF g

\* Where the first n nodes are: the device alone is in no group, its members are
\* the systems, and the first member of a group follows it. D is what the device
\* lacks: fewer nodes are missing than ever before when nothing else is lacking.
Placed(p, d, n) ==
  /\ \A k \in 1 .. n :
       /\ p.nodes[k].parent = 0 <=> k = 1
       /\ p.nodes[k].parent = 1 <=> d[k].kind = "system"
       /\ k < n /\ d[k].members > 0 => p.nodes[k + 1].parent = k
  /\ d[n].members > 0 => p.open # <<>> /\ Last(p.open).node = n
  /\ \E D \in Nat :
       /\ Lacks(p.open, 1, D)
       /\ \A m \in 1 .. n - 1 : Missing(d)[m] > D
       /\ n > 1 => \E m \in 1 .. n - 1 : Missing(d)[m] = D + 1

\* The device.
LEMMA PlacedStart ==
  ASSUME NEW d, WellFormed(d)
  PROVE  Placed(Construct([nodes |-> <<>>, open |-> <<>>], d[1]), d, 1)
<1> DEFINE x == d[1]
           p == [nodes |-> <<>>, open |-> <<>>]
           outer == [node |-> 0, left |-> 1]
           less == [outer EXCEPT !.left = @ - 1]
           new == [node |-> 1, left |-> x.members]
           open == Push(Push(<<>>, less), new)
           after == Construct(p, x)
<1>1. d \in Seq(Node) /\ Len(d) \in Nat /\ 1 \in DOMAIN d /\ x \in Node
  <2>1. d \in Seq(Node) /\ d # <<>>
    BY DEF WellFormed
  <2> QED
    BY <2>1
<1>2. x.kind = "device" /\ x.members \in Nat
  <2>1. x.kind = "device"
    BY <1>1, Zenon DEF WellFormed
  <2>2. x.members \in Nat
    BY <1>1 DEF Node
  <2> QED
    BY <2>1, <2>2
<1> HIDE DEF x
<1>3. after.nodes = Append(<<>>, InGroup(x, 0)) /\ after.open = open
  <2>1. p.open = <<>> /\ p.nodes = <<>> /\ Len(p.nodes) + 1 = 1
    OBVIOUS
  <2> HIDE DEF p
  <2> QED
    BY <2>1 DEF Construct
<1>4. after.nodes[1].parent = 0
  BY <1>3 DEF InGroup
<1>5. open = IF x.members > 0 THEN <<new>> ELSE <<>>
  BY DEF Push
<1>6. Lacks(open, 1, x.members)
  BY <1>2, <1>5 DEF Lacks
<1>7. x.members > 0 => open # <<>> /\ Last(open).node = 1
  BY <1>5 DEF Last
<1> HIDE DEF after, open
<1>8. ASSUME NEW k \in 1 .. 1
      PROVE  /\ after.nodes[k].parent = 0 <=> k = 1
             /\ after.nodes[k].parent = 1 <=> d[k].kind = "system"
             /\ k < 1 /\ d[k].members > 0 => after.nodes[k + 1].parent = k
  <2>1. k = 1
    OBVIOUS
  <2>2. d[k].kind = "device"
    BY <1>2, <2>1 DEF x
  <2> QED
    BY <1>4, <2>1, <2>2
<1>9. d[1].members > 0 => after.open # <<>> /\ Last(after.open).node = 1
  BY <1>3, <1>7 DEF x
<1>10. Lacks(after.open, 1, x.members) /\ 1 .. 1 - 1 = {}
  BY <1>3, <1>6
<1>11. Placed(after, d, 1)
  BY <1>2, <1>8, <1>9, <1>10 DEF Placed
<1> QED
  BY <1>11 DEF after, x

\* One constructor more.
LEMMA PlacedStep ==
  ASSUME NEW d, WellFormed(d), NEW n \in Nat, n >= 1, n < Len(d),
         NEW p, Built(p, d, n), Placed(p, d, n)
  PROVE  Placed(Construct(p, d[n + 1]), d, n + 1)
<1> DEFINE x == d[n + 1]
           top == Last(p.open)
           q == top.node
           after == Construct(p, x)
           open == Push(Push(Front(p.open), [top EXCEPT !.left = @ - 1]),
                        [node |-> n + 1, left |-> x.members])
           y == InGroup(x, q)
           M == Missing(d)[n]
<1>1. /\ d \in Seq(Node) /\ Len(d) \in Nat /\ n + 1 \in 1 .. Len(d) /\ n \in 1 .. Len(d)
      /\ DOMAIN d = 1 .. Len(d)
  BY DEF WellFormed
<1>2. x \in Node /\ x.members \in Nat
  <2>1. x \in Node
    BY <1>1
  <2> QED
    BY <2>1 DEF Node
<1>3. p \in ParseState /\ p.nodes \in Seq(ParsedNode) /\ p.open \in Seq(OpenGroup)
      /\ Len(p.nodes) = n /\ Stack(p.open, n)
  BY DEF Built, ParseState
<1>4. LackInAll(p.open, M) /\ M > 0 /\ M \in Int
  <2>1. LackInAll(p.open, Announced(d)[n] - n)
    BY DEF Built
  <2>2. M = Announced(d)[n] - n /\ n < Announced(d)[n] /\ M \in Int
    BY <1>1, MissingNodes
  <2>3. Announced(d)[n] \in Nat
    BY <1>1, AnnouncedSums
  <2> QED
    BY <2>1, <2>2, <2>3
<1>5. p.open # <<>>
  <2> SUFFICES ASSUME p.open = <<>> PROVE FALSE
    OBVIOUS
  <2>1. LackInAll(<<>>, M)
    BY <1>4
  <2>2. M = 0
    BY <2>1, NoStack
  <2> QED
    BY <1>4, <2>2
<1>6. after.nodes = Append(p.nodes, y) /\ after.open = open
  BY <1>3, <1>5 DEF Construct
<1> HIDE DEF after, y
<1>7. /\ q \in 1 .. n /\ top.left \in Nat /\ top.left > 0
      /\ \A m : Lacks(p.open, q, m) => m = top.left
      /\ Lacks(open, q, top.left - 1)
      /\ \A k, m : Lacks(p.open, k, m) /\ k # q /\ k # n + 1 => Lacks(open, k, m)
      /\ x.members > 0 => open # <<>> /\ Last(open).node = n + 1
  <2> HIDE DEF x
  <2>1. open = Push(Push(Front(p.open), [Last(p.open) EXCEPT !.left = @ - 1]),
                    [node |-> n + 1, left |-> x.members])
    BY Zenon
  <2> DEFINE s == p.open
             members == x.members
  <2>2. Stack(s, n) /\ s # <<>> /\ members \in Nat
    BY <1>2, <1>3, <1>5
  <2>3. open = Grown(s, n, members)
    BY <2>1 DEF Grown
  <2> HIDE DEF open, s, members
  <2>4. /\ Last(s).node \in 1 .. n /\ Last(s).left \in Nat /\ Last(s).left > 0
        /\ \A m : Lacks(s, Last(s).node, m) => m = Last(s).left
        /\ Lacks(open, Last(s).node, Last(s).left - 1)
        /\ \A k, m : Lacks(s, k, m) /\ k # Last(s).node /\ k # n + 1 => Lacks(open, k, m)
        /\ members > 0 => open # <<>> /\ Last(open).node = n + 1
    BY <2>2, <2>3, StackStep, Zenon
  <2> QED
    BY <2>4, Zenon DEF s, members
<1> HIDE DEF open
<1>8. y \in ParsedNode /\ y.parent = q
  <2>1. q \in Nat
    BY <1>7
  <2> HIDE DEF q, x
  <2> QED
    BY <1>2, <2>1, InGroupType DEF y
<1>9. /\ \A k \in 1 .. n : after.nodes[k] = p.nodes[k]
      /\ after.nodes[n + 1] = y
  BY <1>3, <1>6, <1>8, Behind
\* Who lacks what.
<1>10. PICK D \in Nat :
         /\ Lacks(p.open, 1, D)
         /\ \A m \in 1 .. n - 1 : Missing(d)[m] > D
         /\ n > 1 => \E m \in 1 .. n - 1 : Missing(d)[m] = D + 1
  BY Zenon DEF Placed
<1>11. \A m \in 1 .. n : Missing(d)[m] \in Int
  BY <1>1, MissingNodes
<1>12. PICK E \in Nat :
         /\ Lacks(open, 1, E)
         /\ \A m \in 1 .. n : Missing(d)[m] > E
         /\ \E m \in 1 .. n : Missing(d)[m] = E + 1
         /\ x.kind = "system" <=> q = 1
  <2> HIDE DEF M, q, top, x
  <2>1. x.kind = "system" <=> \A m \in 1 .. n - 1 : M < Missing(d)[m]
    <3>1. n \in DOMAIN d /\ n < Len(d)
      BY <1>1
    <3> QED
      BY <3>1 DEF WellFormed, x, M
  <2>2. CASE q = 1
    <3>1. D = top.left
      BY <1>7, <1>10, <2>2
    <3>2. M = D
      <4>1. Stack(Front(p.open), 0) /\ top \in OpenGroup
        <5>1. Stack(Front(p.open), q - 1) /\ top \in OpenGroup
          BY <1>3, <1>5, PopStack DEF q, top
        <5> QED
          BY <2>2, <5>1
      <4>2. Front(p.open) = <<>>
        BY <4>1, BottomOfStack
      <4>3. LackInAll(Front(p.open), M - top.left)
        BY <1>3, <1>4, <1>5, PopAll DEF top
      <4>4. M - top.left = 0
        BY <4>2, <4>3, NoStack
      <4> QED
        BY <1>4, <1>7, <3>1, <4>4
    <3>3. \A m \in 1 .. n - 1 : M < Missing(d)[m]
      BY <1>10, <3>2
    <3>4. D - 1 \in Nat /\ Lacks(open, 1, D - 1)
      BY <1>7, <2>2, <3>1
    <3>5. ASSUME NEW m \in 1 .. n PROVE Missing(d)[m] > D - 1
      <4>1. CASE m = n
        BY <3>2, <4>1 DEF M
      <4>2. CASE m # n
        <5>1. m \in 1 .. n - 1 /\ Missing(d)[m] \in Int
          BY <1>11, <4>2
        <5> QED
          BY <1>10, <5>1
      <4> QED
        BY <4>1, <4>2
    <3>6. n \in 1 .. n /\ Missing(d)[n] = (D - 1) + 1
      BY <3>2 DEF M
    <3> QED
      BY <2>1, <2>2, <3>3, <3>4, <3>5, <3>6
  <2>3. CASE q # 1
    <3>1. n > 1
      BY <1>7, <2>3
    <3>2. M > D
      <4>1. /\ Stack(Front(p.open), q - 1)
            /\ \A k, m : Lacks(p.open, k, m) /\ k # q => Lacks(Front(p.open), k, m)
        BY <1>3, <1>5, PopStack DEF q, top
      <4>2. LackInAll(Front(p.open), M - top.left)
        BY <1>3, <1>4, <1>5, PopAll DEF top
      <4>3. Lacks(Front(p.open), 1, D)
        BY <1>10, <2>3, <4>1
      <4>4. D <= M - top.left
        BY <4>1, <4>2, <4>3, LacksAtMost
      <4> QED
        BY <1>4, <1>7, <4>4
    <3>3. PICK m \in 1 .. n - 1 : Missing(d)[m] = D + 1
      BY <1>10, <3>1
    <3>4. ~ (M < Missing(d)[m])
      BY <1>4, <3>2, <3>3
    <3>5. Lacks(open, 1, D)
      BY <1>7, <1>10, <2>3
    <3>6. ASSUME NEW l \in 1 .. n PROVE Missing(d)[l] > D
      <4>1. CASE l = n
        BY <3>2, <4>1 DEF M
      <4>2. CASE l # n
        <5>1. l \in 1 .. n - 1
          BY <4>2
        <5> QED
          BY <1>10, <5>1
      <4> QED
        BY <4>1, <4>2
    <3>7. m \in 1 .. n
      OBVIOUS
    <3> QED
      BY <2>1, <2>3, <3>3, <3>4, <3>5, <3>6, <3>7
  <2> QED
    BY <2>2, <2>3
\* Where the nodes are.
<1>13. ASSUME NEW k \in 1 .. n + 1
       PROVE  /\ after.nodes[k].parent = 0 <=> k = 1
              /\ after.nodes[k].parent = 1 <=> d[k].kind = "system"
              /\ k < n + 1 /\ d[k].members > 0 => after.nodes[k + 1].parent = k
  <2> HIDE DEF q
  <2>1. CASE k \in 1 .. n - 1
    <3>1. k \in 1 .. n /\ k + 1 \in 1 .. n /\ k < n
      BY <2>1
    <3> QED
      BY <1>9, <3>1 DEF Placed
  <2>2. CASE k = n
    <3>1. /\ p.nodes[k].parent = 0 <=> k = 1
          /\ p.nodes[k].parent = 1 <=> d[k].kind = "system"
          /\ d[k].members > 0 => Last(p.open).node = k
      BY <2>2 DEF Placed
    <3>2. after.nodes[k] = p.nodes[k] /\ after.nodes[k + 1].parent = q
      BY <1>8, <1>9, <2>2
    <3> QED
      BY <3>1, <3>2 DEF q, top
  <2>3. CASE k = n + 1
    <3>1. after.nodes[k].parent = q /\ q # 0 /\ k # 1
      BY <1>7, <1>8, <1>9, <2>3
    <3> QED
      BY <1>12, <2>3, <3>1 DEF x
  <2> QED
    BY <2>1, <2>2, <2>3
<1>14. (n + 1) - 1 = n
  OBVIOUS
<1>15. Placed(after, d, n + 1)
  <2>1. d[n + 1].members > 0 => after.open # <<>> /\ Last(after.open).node = n + 1
    BY <1>6, <1>7
  <2>2. /\ Lacks(after.open, 1, E)
        /\ \A m \in 1 .. (n + 1) - 1 : Missing(d)[m] > E
        /\ \E m \in 1 .. (n + 1) - 1 : Missing(d)[m] = E + 1
    BY <1>6, <1>12, <1>14
  <2> HIDE DEF x, top, q, M
  <2> QED
    BY <1>13, <2>1, <2>2 DEF Placed
<1> QED
  BY <1>15 DEF after

\* The tree that the constructors make is the one that the device has sent: it
\* has the device at its root, whose members are its systems.
LEMMA ParseShape ==
  ASSUME NEW d, WellFormed(d), NEW k \in 1 .. Len(d)
  PROVE  /\ Parse(d)[k].parent = 0 <=> k = 1
         /\ Parse(d)[k].parent = 1 <=> d[k].kind = "system"
         /\ k < Len(d) /\ d[k].members > 0 => Parse(d)[k + 1].parent = k
<1> DEFINE N == Len(d)
<1>1. d \in Seq(Node) /\ N \in Nat /\ N # 0 /\ DOMAIN d = 1 .. N
  BY DEF WellFormed
<1>2. PICK p : Parsing(p, d) /\ Parsed(d) = p[N]
  BY <1>1, ParsingExists
<1>3. p[0] = [nodes |-> <<>>, open |-> <<>>] /\ \A n \in 1 .. N : p[n] = Construct(p[n - 1], d[n])
  BY <1>2 DEF Parsing
<1> HIDE DEF N
<1> DEFINE Good == {n \in Nat : n + 1 <= N => Built(p[n + 1], d, n + 1) /\ Placed(p[n + 1], d, n + 1)}
<1>4. 0 \in Good
  <2>1. 1 \in 1 .. N /\ 0 < Len(d) /\ 1 - 1 = 0 /\ 0 + 1 = 1
    BY <1>1 DEF N
  <2>2. p[1] = Construct([nodes |-> <<>>, open |-> <<>>], d[1])
    BY <1>3, <2>1
  <2>3. Built(p[1], d, 1)
    <3>1. Built(Construct([nodes |-> <<>>, open |-> <<>>], d[0 + 1]), d, 0 + 1)
      BY <2>1, BuiltStart, BuiltStep
    <3> QED
      BY <2>2, <3>1
  <2>4. Placed(p[1], d, 1)
    BY <2>2, PlacedStart
  <2> QED
    BY <2>3, <2>4
<1>5. ASSUME NEW n \in Nat, n \in Good PROVE n + 1 \in Good
  <2> DEFINE m == n + 1
  <2>1. m \in Nat /\ m >= 1 /\ m + 1 \in Nat
    OBVIOUS
  <2>2. (Built(p[m], d, m) /\ Placed(p[m], d, m)) \/ ~ m <= N
    BY <1>5
  <2> HIDE DEF m
  <2>3. ASSUME m + 1 <= N PROVE Built(p[m + 1], d, m + 1) /\ Placed(p[m + 1], d, m + 1)
    <3>1. m + 1 \in 1 .. N /\ (m + 1) - 1 = m /\ m <= N /\ m < Len(d)
      BY <1>1, <2>1, <2>3 DEF N
    <3>2. p[m + 1] = Construct(p[m], d[m + 1])
      BY <1>3, <3>1
    <3>3. Built(p[m], d, m) /\ Placed(p[m], d, m)
      BY <2>2, <3>1
    <3> QED
      BY <2>1, <3>1, <3>2, <3>3, BuiltStep, PlacedStep
  <2> QED
    BY <2>1, <2>3 DEF m
<1>6. N - 1 \in Nat /\ (N - 1) + 1 = N
  BY <1>1
<1>7. N - 1 \in Good
  <2> HIDE DEF Good
  <2> QED
    BY <1>4, <1>5, <1>6, Induction
<1>8. Placed(p[N], d, N)
  BY <1>1, <1>6, <1>7
<1>9. Parse(d) = p[N].nodes
  BY <1>2, Zenon DEF Parse
<1> QED
  BY <1>8, <1>9 DEF Placed, N

\* The nodes of a device: a tree with the device at its root, the systems below
\* it, each with its timestamp first, and nothing in values and empty nodes.
Shape(nodes) ==
  /\ nodes \in Seq(ParsedNode)
  /\ Len(nodes) \in Nat /\ Len(nodes) >= 1 /\ DOMAIN nodes = 1 .. Len(nodes)
  /\ \A k \in 1 .. Len(nodes) :
       /\ nodes[k].parent \in 0 .. k - 1
       /\ nodes[k].parent = 0 <=> k = 1
       /\ nodes[k].parent = 1 <=> nodes[k].kind = "system"
       /\ nodes[k].kind = "device" <=> k = 1
       /\ nodes[k].kind \in Kinds
       /\ nodes[k].kind = "system" =>
            k < Len(nodes) /\ nodes[k + 1].parent = k /\ nodes[k + 1].kind \in ValueKinds
       /\ k > 1 => nodes[nodes[k].parent].kind \in {"device", "system", "group"}

LEMMA WellShaped ==
  ASSUME NEW d, WellFormed(d)
  PROVE  Shape(Parse(d))
<1> DEFINE nodes == Parse(d)
           N == Len(d)
<1>1. /\ d \in Seq(Node) /\ N \in Nat /\ N >= 1 /\ DOMAIN d = 1 .. N
  BY DEF WellFormed
<1>2. /\ nodes \in Seq(ParsedNode) /\ Len(nodes) = N
      /\ \A k \in 1 .. N : /\ nodes[k].parent \in 0 .. k - 1
                           /\ nodes[k].kind = d[k].kind
                           /\ Cardinality(Members(nodes, k)) = nodes[k].members
  BY ParseResult
<1>3. \A k \in 1 .. N : /\ nodes[k].parent = 0 <=> k = 1
                        /\ nodes[k].parent = 1 <=> d[k].kind = "system"
                        /\ k < N /\ d[k].members > 0 => nodes[k + 1].parent = k
  BY ParseShape
<1>4. \A k \in 1 .. N : nodes[k].members = d[k].members
  BY ParseResult
<1>5. \A k \in 1 .. N :
        /\ d[k].kind = "device" <=> k = 1
        /\ d[k].kind = "system" => d[k].members > 0 /\ d[k + 1].kind \in ValueKinds
        /\ d[k].kind = "empty" => d[k].members = 0
        /\ d[k].kind \in ValueKinds => d[k].members = 0
  BY <1>1, Zenon DEF WellFormed
<1> HIDE DEF nodes, N
<1>6. DOMAIN nodes = 1 .. N
  BY <1>2
<1>7. \A k \in 1 .. N : nodes[k].kind \in Kinds
  <2>1. \A k \in 1 .. N : nodes[k] \in ParsedNode
    BY <1>2, <1>6
  <2> QED
    BY <2>1 DEF ParsedNode
<1>8. ASSUME NEW q \in 1 .. N
      PROVE  IsFiniteSet(Members(nodes, q)) /\ (d[q].members = 0 <=> Members(nodes, q) = {})
  <2>1. Members(nodes, q) \subseteq 1 .. N
    BY <1>6 DEF Members
  <2>2. IsFiniteSet(Members(nodes, q))
    BY <1>1, <2>1, FS_Interval, FS_Subset
  <2>3. Cardinality(Members(nodes, q)) = 0 <=> Members(nodes, q) = {}
    BY <2>2, FS_EmptySet
  <2> QED
    BY <1>2, <1>4, <2>2, <2>3
<1>9. ASSUME NEW k \in 1 .. N, d[k].kind = "system"
      PROVE  k < N /\ nodes[k + 1].parent = k /\ nodes[k + 1].kind \in ValueKinds
  <2>1. d[k].members > 0 /\ d[k + 1].kind \in ValueKinds
    BY <1>5, <1>9
  <2>2. PICK j \in 1 .. N : nodes[j].parent = k
    <3>1. Members(nodes, k) # {}
      BY <1>8, <2>1
    <3> QED
      BY <1>6, <3>1 DEF Members
  <2>3. k < N
    BY <1>1, <1>2, <2>2
  <2> QED
    BY <1>1, <1>2, <1>3, <2>1, <2>3
<1>10. ASSUME NEW k \in 1 .. N, k > 1
       PROVE  nodes[nodes[k].parent].kind \in {"device", "system", "group"}
  <2> DEFINE q == nodes[k].parent
  <2>1. q \in 1 .. N
    BY <1>1, <1>2, <1>3, <1>10
  <2>2. k \in Members(nodes, q)
    BY <1>6 DEF Members
  <2> HIDE DEF q
  <2>3. d[q].members # 0
    BY <1>8, <2>1, <2>2
  <2>4. nodes[q].kind \notin ValueKinds /\ nodes[q].kind # "empty"
    BY <1>2, <1>5, <2>1, <2>3
  <2>5. nodes[q].kind \in Kinds
    BY <1>7, <2>1
  <2> QED
    BY <2>4, <2>5 DEF Kinds, ValueKinds, q
<1>11. ASSUME NEW k \in 1 .. N
       PROVE  /\ nodes[k].parent \in 0 .. k - 1
              /\ nodes[k].parent = 0 <=> k = 1
              /\ nodes[k].parent = 1 <=> nodes[k].kind = "system"
              /\ nodes[k].kind = "device" <=> k = 1
              /\ nodes[k].kind \in Kinds
              /\ nodes[k].kind = "system" =>
                   k < N /\ nodes[k + 1].parent = k /\ nodes[k + 1].kind \in ValueKinds
              /\ k > 1 => nodes[nodes[k].parent].kind \in {"device", "system", "group"}
  <2>1. nodes[k].kind = d[k].kind /\ nodes[k].parent \in 0 .. k - 1
    BY <1>2
  <2>2. d[k].kind = "system" =>
          k < N /\ nodes[k + 1].parent = k /\ nodes[k + 1].kind \in ValueKinds
    BY <1>9
  <2>3. k > 1 => nodes[nodes[k].parent].kind \in {"device", "system", "group"}
    BY <1>10
  <2> QED
    BY <1>3, <1>5, <1>7, <2>1, <2>2, <2>3
<1>12. Shape(nodes)
  BY <1>1, <1>2, <1>6, <1>11 DEF Shape
<1> QED
  BY <1>12 DEF nodes

-----------------------------------------------------------------------------
(* What is computed from the nodes (Description).                            *)

LEMMA TimestampsOf ==
  ASSUME NEW nodes, Shape(nodes)
  PROVE  /\ Timestamps(nodes) = {s + 1 : s \in SystemsOf(nodes)}
         /\ \A k \in Timestamps(nodes) : k \in 2 .. Len(nodes) /\ nodes[k].kind \in ValueKinds
         /\ \A k \in 1 .. Len(nodes) : nodes[k].parent \notin Timestamps(nodes)
<1> DEFINE N == Len(nodes)
<1>1. /\ N \in Nat /\ DOMAIN nodes = 1 .. N
      /\ \A k \in 1 .. N :
           /\ nodes[k].parent \in 0 .. k - 1
           /\ nodes[k].parent = 0 <=> k = 1
           /\ nodes[k].kind = "system" =>
                k < N /\ nodes[k + 1].parent = k /\ nodes[k + 1].kind \in ValueKinds
           /\ k > 1 => nodes[nodes[k].parent].kind \in {"device", "system", "group"}
  BY DEF Shape
<1> HIDE DEF N
<1>2. \A s \in SystemsOf(nodes) :
        /\ s \in 1 .. N /\ s + 1 \in 2 .. N
        /\ nodes[s + 1].parent = s /\ nodes[s + 1].kind \in ValueKinds
  BY <1>1 DEF SystemsOf
<1>3. ASSUME NEW s \in SystemsOf(nodes) PROVE Members(nodes, s) # {}
  <2>1. s + 1 \in Members(nodes, s)
    BY <1>1, <1>2 DEF Members
  <2> QED
    BY <2>1
<1>4. Timestamps(nodes) = {s + 1 : s \in SystemsOf(nodes)}
  BY <1>3 DEF Timestamps
<1>5. \A k \in Timestamps(nodes) : k \in 2 .. N /\ nodes[k].kind \in ValueKinds
  BY <1>2, <1>4
<1>6. ASSUME NEW k \in 1 .. N PROVE nodes[k].parent \notin Timestamps(nodes)
  <2>1. CASE k = 1
    BY <1>1, <1>5, <2>1
  <2>2. CASE k # 1
    <3>1. nodes[nodes[k].parent].kind \notin ValueKinds
      BY <1>1, <2>2 DEF ValueKinds
    <3> QED
      BY <1>5, <3>1
  <2> QED
    BY <2>1, <2>2
<1> QED
  BY <1>4, <1>5, <1>6 DEF N

\* toTreeNode and createDashboard leave out the same nodes.
LEMMA SameNodes ==
  ASSUME NEW nodes, Shape(nodes)
  PROVE  DashboardNodes(nodes) = TreeNodes(nodes)
<1> DEFINE N == Len(nodes)
           T == Timestamps(nodes)
           Defines(f) == f = [k \in DOMAIN nodes |->
                                /\ k \notin T
                                /\ nodes[k].parent # 0 => f[nodes[k].parent]]
           g == [k \in DOMAIN nodes |-> k \notin T]
           p == CHOOSE f : Defines(f)
<1>1. /\ N \in Nat /\ DOMAIN nodes = 1 .. N
      /\ \A k \in 1 .. N : nodes[k].parent \in 0 .. k - 1 /\ nodes[k].parent \notin T
  BY TimestampsOf DEF Shape
<1> HIDE DEF N, T
<1>2. Defines(g)
  <2>1. ASSUME NEW k \in DOMAIN nodes
        PROVE  (k \notin T) = (/\ k \notin T
                               /\ nodes[k].parent # 0 => g[nodes[k].parent])
    <3>1. nodes[k].parent # 0 => nodes[k].parent \in DOMAIN nodes /\ nodes[k].parent \notin T
      BY <1>1
    <3>2. nodes[k].parent # 0 => g[nodes[k].parent]
      BY <3>1
    <3> QED
      BY <3>2, Zenon
  <2> QED
    BY <2>1, Zenon
<1>3. Defines(p)
  <2> HIDE DEF Defines
  <2> QED
    BY <1>2, Zenon
<1>4. DashboardNodes(nodes) = {k \in DOMAIN nodes : p[k]}
  BY Zenon DEF DashboardNodes, T
<1> HIDE DEF p
<1>5. \A k \in DOMAIN nodes :
        p[k] = (/\ k \notin T
                /\ nodes[k].parent # 0 => p[nodes[k].parent])
  BY <1>3, Zenon
<1> DEFINE Bad == {k \in DOMAIN nodes : ~ (p[k] <=> k \notin T)}
<1>6. Bad = {}
  <2> SUFFICES ASSUME Bad # {} PROVE FALSE
    OBVIOUS
  <2>1. Bad \subseteq Nat
    BY <1>1
  <2>2. PICK k \in Bad : \A m \in Bad : k <= m
    <3> HIDE DEF Bad
    <3> QED
      BY <2>1, Least
  <2> DEFINE q == nodes[k].parent
  <2>3. k \in 1 .. N /\ k \in DOMAIN nodes /\ ~ (p[k] <=> k \notin T)
    BY <1>1
  <2>4. q # 0 => q \in DOMAIN nodes /\ q < k
    BY <1>1, <2>3
  <2>5. q # 0 => q \notin Bad
    BY <1>1, <2>1, <2>2, <2>3, <2>4
  <2>6. q \notin T
    BY <1>1, <2>3
  <2>7. q # 0 => p[q]
    BY <2>4, <2>5, <2>6, Zenon
  <2> QED
    BY <1>5, <2>3, <2>7, Zenon
<1>7. \A k \in DOMAIN nodes : p[k] <=> k \notin T
  BY <1>6
<1> QED
  BY <1>4, <1>7, Zenon DEF TreeNodes, T

\* The holder of a node is found by its parents.
LEMMA HolderSteps ==
  ASSUME NEW nodes, Shape(nodes), NEW k \in 1 .. Len(nodes)
  PROVE  Holder(nodes)[k] =
           LET q == nodes[k].parent
           IN  IF q = 0 THEN 0 ELSE IF nodes[q].kind = "group" THEN Holder(nodes)[q] ELSE q
<1> DEFINE N == Len(nodes)
           Value(h, j) == LET q == nodes[j].parent
                          IN  IF q = 0 THEN 0 ELSE IF nodes[q].kind = "group" THEN h[q] ELSE q
           Defines(h) == h = [j \in DOMAIN nodes |-> Value(h, j)]
           p == CHOOSE h : Defines(h)
           Inside == {j \in 1 .. N : nodes[j].parent # 0 /\ nodes[nodes[j].parent].kind = "group"}
           before == [j \in 1 .. N |-> nodes[j].parent]
<1>1. N \in Nat /\ DOMAIN nodes = 1 .. N /\ \A j \in 1 .. N : nodes[j].parent \in 0 .. j - 1
  BY DEF Shape
<1> HIDE DEF N
<1>2. before \in [1 .. N -> Nat]
  BY <1>1
<1>3. ASSUME NEW j \in Inside PROVE before[j] \in 1 .. j - 1
  BY <1>1
<1>4. PICK h : /\ h \in [1 .. N -> Nat]
               /\ \A j \in 1 .. N : h[j] = IF j \in Inside THEN h[before[j]] ELSE before[j]
  <2> HIDE DEF Inside, before
  <2>1. Earlier(Inside, before)
    BY <1>3 DEF Earlier
  <2>2. \E f : Follows(f, Nat, before, Inside, before, N)
    BY <1>1, <1>2, <2>1, DefinedBefore, Zenon
  <2> QED
    BY <2>2, Zenon DEF Follows
<1>5. Defines(h)
  <2>1. ASSUME NEW j \in 1 .. N PROVE h[j] = Value(h, j)
    <3>1. before[j] = nodes[j].parent
      OBVIOUS
    <3>2. j \in Inside <=> nodes[j].parent # 0 /\ nodes[nodes[j].parent].kind = "group"
      OBVIOUS
    <3> HIDE DEF Inside, before
    <3> QED
      BY <1>4, <3>1, <3>2
  <2>2. h = [j \in DOMAIN nodes |-> h[j]]
    BY <1>1, <1>4
  <2> HIDE DEF Value
  <2> QED
    BY <1>1, <2>1, <2>2
<1>6. Defines(p)
  <2> HIDE DEF Defines
  <2> QED
    BY <1>5, Zenon
<1>7. Holder(nodes) = p
  BY Zenon DEF Holder
<1> HIDE DEF p
<1>8. k \in DOMAIN nodes
  BY <1>1 DEF N
<1>9. p[k] = Value(p, k)
  <2> HIDE DEF Value
  <2> QED
    BY <1>6, <1>8
<1> QED
  BY <1>7, <1>9, Zenon

\* Values are in systems.
LEMMA HolderIsSystem ==
  ASSUME NEW nodes, Shape(nodes), NEW k \in 2 .. Len(nodes), nodes[k].kind # "system"
  PROVE  Holder(nodes)[k] \in SystemsOf(nodes) /\ Holder(nodes)[k] \in 1 .. k - 1
<1> DEFINE N == Len(nodes)
           H == Holder(nodes)
<1>1. /\ N \in Nat /\ DOMAIN nodes = 1 .. N
      /\ \A j \in 1 .. N :
           /\ nodes[j].parent \in 0 .. j - 1
           /\ nodes[j].parent = 0 <=> j = 1
           /\ nodes[j].parent = 1 <=> nodes[j].kind = "system"
           /\ nodes[j].kind = "device" <=> j = 1
           /\ j > 1 => nodes[nodes[j].parent].kind \in {"device", "system", "group"}
  BY DEF Shape
<1>2. \A j \in 1 .. N :
        H[j] = IF nodes[j].parent = 0 THEN 0
               ELSE IF nodes[nodes[j].parent].kind = "group" THEN H[nodes[j].parent]
               ELSE nodes[j].parent
  BY HolderSteps
<1> HIDE DEF N, H
<1> DEFINE Bad == {j \in 2 .. N : nodes[j].kind # "system"
                                  /\ ~ (H[j] \in SystemsOf(nodes) /\ H[j] \in 1 .. j - 1)}
<1>3. Bad = {}
  <2> SUFFICES ASSUME Bad # {} PROVE FALSE
    OBVIOUS
  <2>1. Bad \subseteq Nat
    BY <1>1
  <2>2. PICK j \in Bad : \A m \in Bad : j <= m
    <3> HIDE DEF Bad
    <3> QED
      BY <2>1, Least
  <2> DEFINE q == nodes[j].parent
  <2>3. /\ j \in 2 .. N /\ nodes[j].kind # "system"
        /\ ~ (H[j] \in SystemsOf(nodes) /\ H[j] \in 1 .. j - 1)
    OBVIOUS
  <2>4. N \in Nat /\ j \in 1 .. N /\ j # 1 /\ q \in 2 .. j - 1
    <3>1. N \in Nat
      BY <1>1
    <3>2. j \in 1 .. N /\ j # 1
      BY <2>3, <3>1
    <3>3. q \in 0 .. j - 1 /\ q # 0 /\ q # 1
      BY <1>1, <2>3, <3>2
    <3> HIDE DEF q
    <3> QED
      BY <3>1, <3>2, <3>3
  <2> HIDE DEF q
  <2>5. q \in 2 .. N /\ q \in 1 .. N /\ q < j /\ q # 0 /\ q # 1
    BY <2>4
  <2> USE DEF q
  <2>6. nodes[q].kind \in {"system", "group"}
    <3>1. nodes[q].kind \in {"device", "system", "group"}
      BY <1>1, <2>3, <2>4
    <3>2. nodes[q].kind # "device"
      BY <1>1, <2>5
    <3> QED
      BY <3>1, <3>2
  <2>7. H[j] = IF nodes[q].kind = "group" THEN H[q] ELSE q
    BY <1>2, <2>4, <2>5
  <2> HIDE DEF q
  <2>8. CASE nodes[q].kind = "group"
    <3>1. q \notin Bad
      BY <2>1, <2>2, <2>5, <2>3
    <3>2. H[q] \in SystemsOf(nodes) /\ H[q] \in 1 .. q - 1
      BY <2>5, <2>8, <3>1
    <3>3. H[q] \in 1 .. j - 1
      BY <2>3, <2>5, <3>2
    <3> QED
      BY <2>3, <2>7, <2>8, <3>2, <3>3
  <2>9. CASE nodes[q].kind = "system"
    <3>1. q \in SystemsOf(nodes)
      BY <1>1, <2>5, <2>9 DEF SystemsOf
    <3>2. H[j] = q
      BY <2>7, <2>9
    <3> QED
      BY <2>3, <2>4, <2>5, <3>1, <3>2
  <2> QED
    BY <2>6, <2>8, <2>9
<1>4. k \in 2 .. N /\ k \notin Bad
  BY <1>3 DEF N
<1> QED
  BY <1>4 DEF H

-----------------------------------------------------------------------------
(* Messages (HistoryMessage).                                                *)

IsSequence(s) == \E S : s \in Seq(S)

\* The pieces are joined one by one.
Joins(f, seqs, S) ==
  /\ f \in [0 .. Len(seqs) -> Seq(S)]
  /\ f[0] = <<>>
  /\ \A i \in 1 .. Len(seqs) : f[i] = f[i - 1] \o seqs[i]

LEMMA FlattenSteps ==
  ASSUME NEW S, NEW seqs \in Seq(Seq(S))
  PROVE  \E f : Joins(f, seqs, S) /\ FlattenSeq(seqs) = f[Len(seqs)]
<1> DEFINE N == Len(seqs)
           base == seqs[1]
           step == [x \in Nat \X Seq(S) |->
                      IF x[1] \in 1 .. N - 1 THEN x[2] \o seqs[x[1] + 1] ELSE x[2]]
           Defines(g) == g = [i \in 1 .. N |-> IF i = 1 THEN seqs[i] ELSE g[i - 1] \o seqs[i]]
<1>1. N \in Nat /\ \A i \in 1 .. N : seqs[i] \in Seq(S)
  OBVIOUS
<1>2. CASE N = 0
  <2>1. seqs = <<>>
    BY <1>2
  <2>2. FlattenSeq(seqs) = seqs
    BY <1>2 DEF FlattenSeq
  <2> DEFINE e == [i \in 0 .. 0 |-> seqs]
  <2>3. <<>> \in Seq(S)
    OBVIOUS
  <2>4. e \in [0 .. Len(seqs) -> Seq(S)] /\ e[0] = <<>>
    BY <1>2, <2>1, <2>3
  <2>5. \A i \in 1 .. Len(seqs) : FALSE
    BY <1>2
  <2> HIDE DEF e
  <2>6. Joins(e, seqs, S)
    BY <2>4, <2>5 DEF Joins
  <2>7. FlattenSeq(seqs) = e[Len(seqs)]
    BY <1>2, <2>1, <2>2, <2>4
  <2> QED
    BY <2>6, <2>7
<1>3. CASE N # 0
  <2>1. N - 1 \in Nat /\ base \in Seq(S)
    BY <1>1, <1>3
  <2>2. step \in [Nat \X Seq(S) -> Seq(S)]
    <3>1. ASSUME NEW x \in Nat \X Seq(S)
          PROVE  (IF x[1] \in 1 .. N - 1 THEN x[2] \o seqs[x[1] + 1] ELSE x[2]) \in Seq(S)
      <4>1. x[2] \in Seq(S) /\ x[1] \in Nat
        OBVIOUS
      <4>2. CASE x[1] \in 1 .. N - 1
        <5>1. x[1] + 1 \in 1 .. N
          BY <1>1, <4>1, <4>2
        <5>2. seqs[x[1] + 1] \in Seq(S)
          BY <1>1, <5>1
        <5> QED
          BY <4>1, <4>2, <5>2
      <4> HIDE DEF N
      <4> QED
        BY <4>1, <4>2
    <3> QED
      BY <3>1
  <2>3. \E f : Goes(f, Seq(S), base, step, N - 1)
    <3> HIDE DEF step, N, base
    <3> QED
      BY <2>1, <2>2, Defined, Zenon
  <2>4. PICK f : Goes(f, Seq(S), base, step, N - 1)
    BY <2>3
  <2>5. f \in [0 .. N - 1 -> Seq(S)] /\ f[0] = base
    BY <2>4 DEF Goes
  <2>6. ASSUME NEW n \in 1 .. N - 1 PROVE f[n] = f[n - 1] \o seqs[n + 1]
    <3>1. n - 1 \in 0 .. N - 1 /\ n \in Nat
      BY <1>1
    <3>2. <<n, f[n - 1]>> \in Nat \X Seq(S)
      BY <2>5, <3>1
    <3>3. step[<<n, f[n - 1]>>] = f[n - 1] \o seqs[n + 1]
      BY <3>2
    <3> HIDE DEF step
    <3> QED
      BY <2>4, <3>3 DEF Goes
  <2> DEFINE h == [i \in 1 .. N |-> f[i - 1]]
  <2>7. Defines(h)
    <3>1. ASSUME NEW i \in 1 .. N
          PROVE  f[i - 1] = IF i = 1 THEN seqs[i] ELSE h[i - 1] \o seqs[i]
      <4>1. CASE i = 1
        BY <2>5, <4>1
      <4>2. CASE i # 1
        <5>1. i - 1 \in 1 .. N - 1 /\ i - 1 \in 1 .. N /\ (i - 1) + 1 = i
          BY <1>1, <4>2
        <5>2. h[i - 1] = f[(i - 1) - 1]
          BY <5>1
        <5>3. f[i - 1] = f[(i - 1) - 1] \o seqs[i]
          BY <2>6, <5>1
        <5> QED
          BY <4>2, <5>2, <5>3
      <4> QED
        BY <4>1, <4>2
    <3> QED
      BY <3>1
  <2> DEFINE p == CHOOSE g : Defines(g)
  <2>8. Defines(p)
    <3> HIDE DEF Defines, h
    <3> QED
      BY <2>7, Zenon
  <2>9. FlattenSeq(seqs) = p[N]
    BY <1>3 DEF FlattenSeq, N
  <2> HIDE DEF p
  <2> DEFINE Good == {n \in Nat : n + 1 <= N => p[n + 1] \in Seq(S)}
  <2>10. 0 \in Good
    <3>1. 1 \in 1 .. N
      BY <1>1, <1>3
    <3>2. p[1] = seqs[1]
      BY <2>8, <3>1
    <3> QED
      BY <1>1, <3>1, <3>2
  <2>11. ASSUME NEW n \in Nat, n \in Good PROVE n + 1 \in Good
    <3> SUFFICES ASSUME (n + 1) + 1 <= N PROVE p[(n + 1) + 1] \in Seq(S)
      OBVIOUS
    <3> DEFINE i == (n + 1) + 1
    <3>1. i \in 1 .. N /\ i # 1 /\ i - 1 = n + 1 /\ n + 1 <= N
      BY <1>1
    <3>2. p[n + 1] \in Seq(S) /\ seqs[i] \in Seq(S)
      BY <1>1, <2>11, <3>1
    <3> HIDE DEF i
    <3>3. p[i] = p[n + 1] \o seqs[i]
      BY <2>8, <3>1
    <3> QED
      BY <3>2, <3>3 DEF i
  <2>12. \A n \in Nat : n \in Good
    <3> HIDE DEF Good
    <3> QED
      BY <2>10, <2>11, Induction
  <2> DEFINE e == [i \in 0 .. N |-> IF i = 0 THEN <<>> ELSE p[i]]
  <2>13. ASSUME NEW i \in 1 .. N PROVE p[i] \in Seq(S)
    <3>1. i - 1 \in Good /\ (i - 1) + 1 = i /\ i <= N
      <4> HIDE DEF Good, N
      <4> QED
        BY <1>1, <2>1, <2>12
    <3> QED
      BY <1>1, <3>1
  <2>14. e \in [0 .. N -> Seq(S)]
    <3>1. ASSUME NEW i \in 0 .. N PROVE (IF i = 0 THEN <<>> ELSE p[i]) \in Seq(S)
      <4>1. i # 0 => i \in 1 .. N
        BY <1>1
      <4>2. <<>> \in Seq(S)
        OBVIOUS
      <4> QED
        BY <2>13, <4>1, <4>2
    <3> QED
      BY <3>1
  <2>15. ASSUME NEW i \in 1 .. N PROVE e[i] = e[i - 1] \o seqs[i]
    <3>1. e[i] = p[i] /\ i - 1 \in 0 .. N
      BY <1>1
    <3>2. CASE i = 1
      <4>1. e[i - 1] = <<>> /\ p[i] = seqs[i]
        BY <2>8, <3>1, <3>2
      <4>2. seqs[i] \in Seq(S)
        BY <1>1
      <4>3. <<>> \o seqs[i] = seqs[i]
        BY <4>2
      <4> QED
        BY <3>1, <4>1, <4>3
    <3>3. CASE i # 1
      <4>1. e[i - 1] = p[i - 1]
        BY <1>1, <3>1, <3>3
      <4>2. p[i] = p[i - 1] \o seqs[i]
        BY <2>8, <3>3
      <4> QED
        BY <3>1, <4>1, <4>2
    <3> QED
      BY <3>2, <3>3
  <2>16. e[0] = <<>> /\ e[N] = p[N]
    BY <1>1, <1>3
  <2> HIDE DEF e
  <2>17. Joins(e, seqs, S)
    BY <2>14, <2>15, <2>16 DEF Joins
  <2>18. FlattenSeq(seqs) = e[Len(seqs)]
    BY <2>9, <2>16 DEF N
  <2> QED
    BY <2>17, <2>18
<1> QED
  BY <1>2, <1>3

LEMMA Flattened ==
  ASSUME NEW S, NEW seqs \in Seq(Seq(S))
  PROVE  FlattenSeq(seqs) \in Seq(S)
<1>1. PICK f : Joins(f, seqs, S) /\ FlattenSeq(seqs) = f[Len(seqs)]
  BY FlattenSteps
<1>2. Len(seqs) \in 0 .. Len(seqs)
  OBVIOUS
<1> QED
  BY <1>1, <1>2 DEF Joins

\* The same for pieces of any kind.
LEMMA OneSet ==
  ASSUME NEW N \in Nat, NEW seqs, DOMAIN seqs = 1 .. N, seqs = [i \in 1 .. N |-> seqs[i]],
         \A i \in 1 .. N : IsSequence(seqs[i])
  PROVE  \E S : seqs \in Seq(Seq(S))
<1> DEFINE S == UNION {{seqs[i][j] : j \in 1 .. Len(seqs[i])} : i \in 1 .. N}
<1>1. ASSUME NEW i \in 1 .. N PROVE seqs[i] \in Seq(S)
  <2>1. PICK T : seqs[i] \in Seq(T)
    BY DEF IsSequence
  <2> DEFINE s == seqs[i]
  <2>2. Len(s) \in Nat /\ s = [j \in 1 .. Len(s) |-> s[j]]
    BY <2>1
  <2>3. ASSUME NEW j \in 1 .. Len(s) PROVE s[j] \in S
    OBVIOUS
  <2> HIDE DEF S, s
  <2>4. s \in [1 .. Len(s) -> S]
    BY <2>2, <2>3
  <2>5. s \in Seq(S)
    BY <2>2, <2>4
  <2> QED
    BY <2>5 DEF s
<1>2. seqs \in Seq(Seq(S))
  <2> HIDE DEF S
  <2>1. seqs \in [1 .. N -> Seq(S)]
    BY <1>1
  <2> QED
    BY <2>1
<1> HIDE DEF S
<1> QED
  BY <1>2

LEMMA FlattenedSequence ==
  ASSUME NEW N \in Nat, NEW seqs, DOMAIN seqs = 1 .. N, seqs = [i \in 1 .. N |-> seqs[i]],
         \A i \in 1 .. N : IsSequence(seqs[i])
  PROVE  IsSequence(FlattenSeq(seqs))
<1>1. PICK S : seqs \in Seq(Seq(S))
  BY OneSet
<1>2. FlattenSeq(seqs) \in Seq(S)
  BY <1>1, Flattened
<1> QED
  BY <1>2 DEF IsSequence

\* The sequence is in the buffer, behind pointer p.
Holds(buffer, p, s) ==
  /\ p + Len(s) <= Len(buffer)
  /\ \A k \in 1 .. Len(s) : buffer[p + k] = s[k]

\* The pieces are in the buffer, one behind the other.
Laid(buffer, seqs, pos, p, N) ==
  /\ pos \in [0 .. N -> Nat] /\ pos[0] = p
  /\ \A i \in 1 .. N : pos[i] = pos[i - 1] + Len(seqs[i]) /\ Holds(buffer, pos[i - 1], seqs[i])

\* A sequence of N pieces.
Pieces(seqs, N) ==
  /\ DOMAIN seqs = 1 .. N /\ seqs = [i \in 1 .. N |-> seqs[i]]
  /\ \A i \in 1 .. N : IsSequence(seqs[i])

LEMMA PartsLaid ==
  ASSUME NEW N \in Nat, NEW seqs, Pieces(seqs, N), NEW buffer, IsSequence(buffer), NEW p \in Nat,
         Holds(buffer, p, FlattenSeq(seqs))
  PROVE  \E pos : Laid(buffer, seqs, pos, p, N) /\ pos[N] = p + Len(FlattenSeq(seqs))
<1>0. /\ DOMAIN seqs = 1 .. N /\ seqs = [i \in 1 .. N |-> seqs[i]]
      /\ \A i \in 1 .. N : IsSequence(seqs[i])
      /\ Len(buffer) \in Nat
  BY DEF Pieces, IsSequence
<1> USE <1>0
<1>1. PICK S : seqs \in Seq(Seq(S))
  BY OneSet
<1>2. Len(seqs) = N
  BY <1>1
<1>3. PICK f : Joins(f, seqs, S) /\ FlattenSeq(seqs) = f[N]
  BY <1>1, <1>2, FlattenSteps
<1>4. /\ f \in [0 .. N -> Seq(S)] /\ f[0] = <<>>
      /\ \A i \in 1 .. N : f[i] = f[i - 1] \o seqs[i]
      /\ \A i \in 1 .. N : seqs[i] \in Seq(S)
  BY <1>1, <1>2, <1>3 DEF Joins
<1>5. ASSUME NEW i \in 1 .. N
      PROVE  /\ i - 1 \in 0 .. N /\ i \in 0 .. N
             /\ Len(f[i]) = Len(f[i - 1]) + Len(seqs[i])
             /\ Len(f[i]) \in Nat /\ Len(f[i - 1]) \in Nat /\ Len(seqs[i]) \in Nat
             /\ \A k \in 1 .. Len(f[i - 1]) : f[i][k] = f[i - 1][k]
             /\ \A k \in 1 .. Len(seqs[i]) : f[i][Len(f[i - 1]) + k] = seqs[i][k]
  <2>1. i - 1 \in 0 .. N /\ i \in 0 .. N
    OBVIOUS
  <2>2. f[i - 1] \in Seq(S) /\ seqs[i] \in Seq(S) /\ f[i] = f[i - 1] \o seqs[i]
    BY <1>4, <2>1
  <2> DEFINE a == f[i - 1]
             b == seqs[i]
  <2>3. a \in Seq(S) /\ b \in Seq(S) /\ f[i] = a \o b
    BY <2>2
  <2> HIDE DEF a, b
  <2>4. /\ Len(a \o b) = Len(a) + Len(b) /\ Len(a) \in Nat /\ Len(b) \in Nat
        /\ \A k \in 1 .. Len(a) : (a \o b)[k] = a[k]
        /\ \A k \in 1 .. Len(b) : (a \o b)[Len(a) + k] = b[k]
    BY <2>3
  <2>5. /\ Len(f[i]) = Len(a) + Len(b)
        /\ \A k \in 1 .. Len(a) : f[i][k] = a[k]
        /\ \A k \in 1 .. Len(b) : f[i][Len(a) + k] = b[k]
    BY <2>3, <2>4
  <2>6. Len(f[i]) \in Nat
    BY <2>4, <2>5
  <2> QED
    BY <2>1, <2>4, <2>5, <2>6 DEF a, b
\* What is joined stays where it is.
<1>6. ASSUME NEW i \in 0 .. N
      PROVE  /\ Len(f[i]) \in Nat /\ Len(f[i]) <= Len(f[N]) /\ Len(f[N]) \in Nat
             /\ \A k \in 1 .. Len(f[i]) : f[N][k] = f[i][k]
  <2> DEFINE Stays(j) == Len(f[i]) <= Len(f[j]) /\ \A k \in 1 .. Len(f[i]) : f[j][k] = f[i][k]
             Good == {d \in Nat : i + d <= N => Stays(i + d)}
  <2>1. \A j \in 0 .. N : Len(f[j]) \in Nat
    BY <1>4
  <2>2. 0 \in Good
    <3>1. i + 0 = i
      OBVIOUS
    <3>2. Stays(i)
      BY <2>1
    <3> QED
      BY <3>1, <3>2
  <2>3. ASSUME NEW d \in Nat, d \in Good PROVE d + 1 \in Good
    <3> SUFFICES ASSUME i + (d + 1) <= N PROVE Stays(i + (d + 1))
      OBVIOUS
    <3> DEFINE j == i + (d + 1)
    <3>1. j \in 1 .. N /\ j - 1 = i + d /\ i + d <= N /\ i + d \in 0 .. N
      OBVIOUS
    <3>2. Stays(i + d)
      BY <2>3, <3>1
    <3> HIDE DEF j
    <3> DEFINE e == f[i + d]
               o == f[i]
               u == f[j]
    <3>3. f[j - 1] = e
      BY <3>1
    <3>4. /\ Len(u) = Len(e) + Len(seqs[j])
          /\ Len(u) \in Nat /\ Len(e) \in Nat /\ Len(seqs[j]) \in Nat
          /\ \A k \in 1 .. Len(e) : u[k] = e[k]
      <4>1. /\ Len(f[j]) = Len(f[j - 1]) + Len(seqs[j])
            /\ Len(f[j]) \in Nat /\ Len(f[j - 1]) \in Nat /\ Len(seqs[j]) \in Nat
            /\ \A k \in 1 .. Len(f[j - 1]) : f[j][k] = f[j - 1][k]
        BY <1>5, <3>1
      <4>2. u = f[j]
        OBVIOUS
      <4> HIDE DEF e, u
      <4> QED
        BY <3>3, <4>1, <4>2
    <3>5. Len(o) \in Nat /\ Len(o) <= Len(e) /\ \A k \in 1 .. Len(o) : e[k] = o[k]
      BY <2>1, <3>2
    <3> HIDE DEF e, o, u
    <3>6. Len(o) <= Len(u) /\ \A k \in 1 .. Len(o) : u[k] = o[k]
      BY <3>4, <3>5
    <3>7. Stays(j)
      BY <3>6 DEF o, u
    <3> QED
      BY <3>7 DEF j
  <2>4. \A d \in Nat : d \in Good
    <3> HIDE DEF Good
    <3> QED
      BY <2>2, <2>3, Induction
  <2>5. PICK d \in Nat : i + d = N
    <3>1. N - i \in Nat /\ i + (N - i) = N
      OBVIOUS
    <3> QED
      BY <3>1
  <2>6. Stays(N)
    <3>1. i + d <= N
      BY <2>5
    <3> HIDE DEF Stays
    <3>2. Stays(i + d)
      BY <2>4, <3>1
    <3> QED
      BY <2>5, <3>2
  <2>7. N \in 0 .. N
    OBVIOUS
  <2> QED
    BY <2>1, <2>6, <2>7
<1> DEFINE pos == [i \in 0 .. N |-> p + Len(f[i])]
<1>7. pos \in [0 .. N -> Nat]
  BY <1>6
<1>8. pos[0] = p /\ pos[N] = p + Len(f[N])
  BY <1>4
<1>9. ASSUME NEW i \in 1 .. N
      PROVE  pos[i] = pos[i - 1] + Len(seqs[i]) /\ Holds(buffer, pos[i - 1], seqs[i])
  <2> DEFINE a == Len(f[i - 1])
             b == Len(seqs[i])
  <2>1. /\ i - 1 \in 0 .. N /\ i \in 0 .. N
        /\ Len(f[i]) = a + b /\ a \in Nat /\ b \in Nat
        /\ \A k \in 1 .. b : f[i][a + k] = seqs[i][k]
    BY <1>5
  <2>2. pos[i] = p + (a + b) /\ pos[i - 1] = p + a
    BY <2>1
  <2>3. Len(f[i]) <= Len(f[N]) /\ Len(f[N]) \in Nat /\ \A k \in 1 .. Len(f[i]) : f[N][k] = f[i][k]
    BY <1>6, <2>1
  <2>4. p + Len(f[N]) <= Len(buffer) /\ \A k \in 1 .. Len(f[N]) : buffer[p + k] = f[N][k]
    BY <1>3 DEF Holds
  <2> HIDE DEF a, b, pos
  <2>5. (p + a) + b <= Len(buffer)
    BY <2>1, <2>3, <2>4
  <2>6. ASSUME NEW k \in 1 .. b PROVE buffer[(p + a) + k] = seqs[i][k]
    <3> DEFINE c == Len(f[i])
               d == Len(f[N])
    <3>0. c = a + b /\ a \in Nat /\ b \in Nat /\ d \in Nat /\ c <= d
      BY <2>1, <2>3
    <3> HIDE DEF c, d
    <3>1. a + k \in 1 .. c /\ a + k \in 1 .. d /\ (p + a) + k = p + (a + k)
      BY <3>0
    <3> USE DEF c, d
    <3>2. buffer[p + (a + k)] = f[N][a + k]
      BY <2>4, <3>1
    <3> QED
      BY <2>1, <2>3, <3>1, <3>2
  <2>7. Holds(buffer, p + a, seqs[i])
    BY <2>5, <2>6 DEF Holds, b
  <2>8. pos[i] = pos[i - 1] + b
    BY <2>1, <2>2
  <2> QED
    BY <2>2, <2>7, <2>8 DEF b
<1> HIDE DEF pos
<1>10. Laid(buffer, seqs, pos, p, N)
  BY <1>7, <1>8, <1>9 DEF Laid
<1> QED
  BY <1>3, <1>8, <1>10

LEMMA Joined ==
  ASSUME NEW s, NEW t, IsSequence(s), IsSequence(t)
  PROVE  IsSequence(s \o t)
<1>1. PICK S : s \in Seq(S)
  BY DEF IsSequence
<1>2. PICK T : t \in Seq(T)
  BY DEF IsSequence
<1>3. s \in Seq(S \cup T) /\ t \in Seq(S \cup T)
  BY <1>1, <1>2
<1>4. s \o t \in Seq(S \cup T)
  BY <1>3
<1> QED
  BY <1>4 DEF IsSequence

LEMMA BytesSequence ==
  ASSUME NEW thing, NEW n \in Nat
  PROVE  IsSequence(Bytes(thing, n))
<1> DEFINE S == {<<thing, k, n>> : k \in 1 .. n}
<1>1. Bytes(thing, n) \in [1 .. n -> S]
  BY DEF Bytes
<1> HIDE DEF S
<1>2. Bytes(thing, n) \in Seq(S)
  BY <1>1
<1> QED
  BY <1>2 DEF IsSequence

\* The types and sizes of a system's values, and the rows of a history.
LayoutEntry ==
  [type : {"none", "signed_integer", "unsigned_integer", "floating_point", "bool"}, size : Nat]

Layout == Seq(LayoutEntry)

Rows == Seq([time : Int64, end_of_epoch : BOOLEAN])

LEMMA LayoutColumns ==
  ASSUME NEW layout \in Layout
  PROVE  /\ ColumnCount(layout) \in Int
         /\ \A n \in 1 .. ColumnCount(layout) : Column(layout, n).size \in Nat
<1>1. Len(layout) \in Nat
  BY DEF Layout
<1>2. ASSUME NEW n \in 1 .. ColumnCount(layout) PROVE Column(layout, n).size \in Nat
  <2>1. n + 1 \in 1 .. Len(layout)
    BY <1>1 DEF ColumnCount
  <2>2. layout[n + 1] \in LayoutEntry
    BY <2>1 DEF Layout
  <2> QED
    BY <2>2 DEF Column, LayoutEntry
<1> QED
  BY <1>1, <1>2 DEF ColumnCount

\* An entry is a sequence of bytes.
LEMMA EntrySequence ==
  ASSUME NEW layout \in Layout, ColumnCount(layout) \in Nat, NEW aggregate \in BOOLEAN,
         NEW row, NEW r
  PROVE  IsSequence(Entry(layout, row, r, aggregate))
<1> DEFINE column(n) == WrittenColumn(layout, r, n, aggregate)
           C == ColumnCount(layout)
<1>1. Copies(aggregate) \in Nat
  BY DEF Copies, aggregates_per_value
<1>2. ASSUME NEW n \in 1 .. C PROVE IsSequence(column(n))
  <2> DEFINE width == WrittenWidth(Column(layout, n), aggregate)
             seqs == [m \in 1 .. Copies(aggregate) |-> Bytes(Datum(r, n, m), width)]
  <2>1. width \in Nat
    BY LayoutColumns DEF WrittenWidth
  <2> HIDE DEF width
  <2>2. \A m \in 1 .. Copies(aggregate) : IsSequence(seqs[m])
    BY <2>1, BytesSequence
  <2>3. DOMAIN seqs = 1 .. Copies(aggregate) /\ seqs = [m \in 1 .. Copies(aggregate) |-> seqs[m]]
    OBVIOUS
  <2> HIDE DEF seqs
  <2>4. IsSequence(FlattenSeq(seqs))
    BY <1>1, <2>2, <2>3, FlattenedSequence
  <2> QED
    BY <2>4 DEF WrittenColumn, seqs, width
<1> DEFINE flag == IF aggregate THEN <<>> ELSE Bytes(<<"flag", row.end_of_epoch>>, 1)
           time == Long(row.time)
           seqs == [n \in 1 .. C |-> column(n)]
<1>3. IsSequence(flag)
  <2>1. CASE aggregate
    <3>1. flag \in Seq({})
      BY <2>1
    <3> QED
      BY <3>1 DEF IsSequence
  <2>2. CASE ~ aggregate
    BY <2>2, BytesSequence
  <2> QED
    BY <2>1, <2>2
<1>4. IsSequence(time)
  BY BytesSequence, Joined DEF Long
<1>5. \A n \in 1 .. C : IsSequence(seqs[n])
  BY <1>2
<1>6. DOMAIN seqs = 1 .. C /\ seqs = [n \in 1 .. C |-> seqs[n]]
  OBVIOUS
<1>7. IsSequence(FlattenSeq(seqs))
  <2> HIDE DEF seqs, C
  <2>1. C \in Nat
    BY DEF C
  <2> QED
    BY <1>5, <1>6, <2>1, FlattenedSequence
<1>8. IsSequence((flag \o time) \o FlattenSeq(seqs))
  <2> HIDE DEF flag, time, seqs
  <2>1. IsSequence(flag \o time)
    BY <1>3, <1>4, Joined
  <2> QED
    BY <1>7, <2>1, Joined
<1>9. Entry(layout, row, r, aggregate) = (flag \o time) \o FlattenSeq(seqs)
  BY DEF Entry
<1> QED
  BY <1>8, <1>9

\* A message is one, too.
LEMMA MessageSequence ==
  ASSUME NEW layout \in Layout, ColumnCount(layout) \in Nat, NEW rows \in Rows,
         NEW aggregate \in BOOLEAN
  PROVE  IsSequence(getHistory(layout, rows, aggregate))
<1> DEFINE entry(r) == Entry(layout, rows[r], r, aggregate)
<1>3. ASSUME NEW r PROVE IsSequence(entry(r))
  BY EntrySequence
<1> DEFINE seqs == [r \in DOMAIN rows |-> entry(r)]
           N == Len(rows)
<1>4. N \in Nat /\ DOMAIN rows = 1 .. N
  BY DEF Rows
<1> HIDE DEF N, entry
<1>5. DOMAIN seqs = 1 .. N /\ seqs = [i \in 1 .. N |-> seqs[i]]
      /\ \A i \in 1 .. N : IsSequence(seqs[i])
  BY <1>3, <1>4
<1> HIDE DEF seqs
<1>6. IsSequence(FlattenSeq(seqs))
  BY <1>4, <1>5, FlattenedSequence
<1> QED
  BY <1>6 DEF getHistory, seqs, entry

-----------------------------------------------------------------------------
(* What the browser reads where the Center wrote it.                         *)

LEMMA HoldsJoined ==
  ASSUME NEW s, NEW t, IsSequence(s), IsSequence(t), NEW buffer, Len(buffer) \in Nat,
         NEW p \in Nat, Holds(buffer, p, s \o t)
  PROVE  /\ Holds(buffer, p, s) /\ Holds(buffer, p + Len(s), t)
         /\ Len(s) \in Nat /\ Len(t) \in Nat /\ Len(s \o t) = Len(s) + Len(t)
<1>1. PICK S : s \in Seq(S)
  BY DEF IsSequence
<1>2. PICK T : t \in Seq(T)
  BY DEF IsSequence
<1>3. s \in Seq(S \cup T) /\ t \in Seq(S \cup T)
  BY <1>1, <1>2
<1> DEFINE u == s \o t
<1>4. /\ Len(u) = Len(s) + Len(t) /\ Len(s) \in Nat /\ Len(t) \in Nat
      /\ \A k \in 1 .. Len(s) : u[k] = s[k]
      /\ \A k \in 1 .. Len(t) : u[Len(s) + k] = t[k]
  BY <1>3
<1>5. p + Len(u) <= Len(buffer) /\ \A k \in 1 .. Len(u) : buffer[p + k] = u[k]
  BY DEF Holds
<1> HIDE DEF u
<1>6. Holds(buffer, p, s)
  <2>1. ASSUME NEW k \in 1 .. Len(s) PROVE buffer[p + k] = s[k]
    <3>1. k \in 1 .. Len(u)
      BY <1>4
    <3> QED
      BY <1>4, <1>5, <3>1
  <2>2. p + Len(s) <= Len(buffer)
    BY <1>4, <1>5
  <2> QED
    BY <2>1, <2>2 DEF Holds
<1>7. Holds(buffer, p + Len(s), t)
  <2>1. ASSUME NEW k \in 1 .. Len(t) PROVE buffer[(p + Len(s)) + k] = t[k]
    <3>1. Len(s) + k \in 1 .. Len(u) /\ (p + Len(s)) + k = p + (Len(s) + k)
      BY <1>4
    <3> QED
      BY <1>4, <1>5, <3>1
  <2>2. (p + Len(s)) + Len(t) <= Len(buffer)
    BY <1>4, <1>5
  <2> QED
    BY <2>1, <2>2 DEF Holds
<1> QED
  BY <1>4, <1>6, <1>7 DEF u

LEMMA BytesLength ==
  ASSUME NEW thing, NEW n \in Nat
  PROVE  Len(Bytes(thing, n)) = n
<1> DEFINE S == {<<thing, k, n>> : k \in 1 .. n}
<1>1. Bytes(thing, n) \in [1 .. n -> S]
  BY DEF Bytes
<1> HIDE DEF S
<1> QED
  BY <1>1

LEMMA BytesRead ==
  ASSUME NEW buffer, IsSequence(buffer), NEW p \in Nat, NEW n \in Nat \ {0}, NEW thing,
         Holds(buffer, p, Bytes(thing, n))
  PROVE  InBuffer(buffer, p, n) /\ Read(buffer, p, n) = thing
<1>1. PICK S : buffer \in Seq(S)
  BY DEF IsSequence
<1> DEFINE cells == SubSeq(buffer, p + 1, p + n)
<1>2. Len(Bytes(thing, n)) = n
  BY BytesLength
<1>3. p + n <= Len(buffer) /\ Len(buffer) \in Nat
  BY <1>1, <1>2 DEF Holds
<1>4. \A k \in 1 .. n : buffer[p + k] = <<thing, k, n>>
  BY <1>2 DEF Holds, Bytes
<1>5. /\ cells \in Seq(S) /\ Len(cells) = n
      /\ \A k \in 1 .. n : cells[k] = buffer[p + k]
  <2>1. (p + n) - (p + 1) + 1 = n
    OBVIOUS
  <2>2. cells \in Seq(S) /\ Len(cells) = n
    BY <1>1, <1>3, <2>1
  <2>3. ASSUME NEW k \in 1 .. n PROVE cells[k] = buffer[p + k]
    <3>1. (p + 1) + k - 1 = p + k
      OBVIOUS
    <3> QED
      BY <1>1, <1>3, <2>2, <3>1
  <2> QED
    BY <2>2, <2>3
<1> HIDE DEF cells
<1>6. cells = [k \in 1 .. n |-> <<thing, k, n>>]
  <2>1. DOMAIN cells = 1 .. n /\ cells = [k \in 1 .. n |-> cells[k]]
    BY <1>5
  <2>2. \A k \in 1 .. n : cells[k] = <<thing, k, n>>
    BY <1>4, <1>5
  <2> QED
    BY <2>1, <2>2
<1>7. cells[1][1] = thing
  BY <1>6
<1>8. cells = Bytes(cells[1][1], n)
  BY <1>6, <1>7 DEF Bytes
<1> QED
  BY <1>3, <1>7, <1>8, Zenon DEF Read, InBuffer, cells

\* A time.
LEMMA LongRead ==
  ASSUME NEW buffer, IsSequence(buffer), NEW p \in Nat, NEW v \in Int64, Holds(buffer, p, Long(v))
  PROVE  /\ InBuffer(buffer, p, 8) /\ ReadInt64(buffer, p) = v
         /\ Len(Long(v)) = 8
<1> DEFINE little == <<"half", PutLong(v).little>>
           big == <<"half", PutLong(v).big>>
           s == Bytes(little, 4)
           t == Bytes(big, 4)
<1>1. IsSequence(s) /\ IsSequence(t)
  BY BytesSequence
<1>2. Len(s) = 4 /\ Len(t) = 4
  BY BytesLength
<1>3. Long(v) = s \o t
  BY DEF Long
<1>4. Len(buffer) \in Nat
  BY DEF IsSequence
<1>5. PutLong(v).little \in Int /\ PutLong(v).big \in Int
  <2>1. v \in Int
    BY Constants DEF Int64
  <2>2. v % max_uint32 \in Int /\ v \div max_uint32 \in Int
    BY <2>1, Constants, Division
  <2> QED
    BY <2>2 DEF PutLong
<1>6. little # Garbage /\ big # Garbage
  <2> DEFINE S == {"half", "flag"} \cup Int \cup BOOLEAN
  <2>1. little \in Seq(S) /\ big \in Seq(S)
    <3>1. "half" \in S
      OBVIOUS
    <3>2. \A x \in Int : x \in S
      OBVIOUS
    <3>3. PutLong(v).little \in S /\ PutLong(v).big \in S
      <4> HIDE DEF S
      <4> QED
        BY <1>5, <3>2
    <3> HIDE DEF S
    <3> QED
      BY <3>1, <3>3
  <2> HIDE DEF little, big
  <2> QED
    BY <2>1, DataViewAssumption
<1>7. little[2] = PutLong(v).little /\ big[2] = PutLong(v).big
  OBVIOUS
<1> HIDE DEF little, big, s, t
<1>8. Holds(buffer, p, s) /\ Holds(buffer, p + 4, t) /\ Len(Long(v)) = 8
  <2>1. Holds(buffer, p, s \o t)
    BY <1>3
  <2>2. /\ Holds(buffer, p, s) /\ Holds(buffer, p + Len(s), t)
        /\ Len(s \o t) = Len(s) + Len(t)
    BY <1>1, <1>4, <2>1, HoldsJoined
  <2> QED
    BY <1>2, <1>3, <2>2
<1>9. InBuffer(buffer, p, 4) /\ Read(buffer, p, 4) = little
  BY <1>8, BytesRead DEF s
<1>10. InBuffer(buffer, p + 4, 4) /\ Read(buffer, p + 4, 4) = big
  BY <1>8, BytesRead DEF t
<1>11. InBuffer(buffer, p, 8)
  BY <1>4, <1>10 DEF InBuffer
<1>12. ReadInt64(buffer, p) = GetInt64([little |-> little[2], big |-> big[2]])
  BY <1>6, <1>9, <1>10 DEF ReadInt64
<1>13. [little |-> little[2], big |-> big[2]] = PutLong(v)
  BY <1>7 DEF PutLong
<1>14. GetInt64(PutLong(v)) = v
  BY Int64Agrees
<1> QED
  BY <1>8, <1>11, <1>12, <1>13, <1>14

\* The layouts that both sides understand alike.
Understood(layout, aggregate) ==
  /\ layout \in Layout
  /\ \A n \in DOMAIN layout :
       /\ <<layout[n].type, layout[n].size>> \in Formats
       /\ aggregate => layout[n].type # "bool"
  /\ Readable(layout, aggregate)

\* A value.
LEMMA DatumRead ==
  ASSUME NEW layout, NEW aggregate \in BOOLEAN, Understood(layout, aggregate),
         NEW n \in 1 .. ColumnCount(layout), NEW buffer, IsSequence(buffer), NEW p \in Nat, NEW thing,
         Holds(buffer, p, Bytes(thing, WrittenWidth(Column(layout, n), aggregate)))
  PROVE  LET v == Column(layout, n)
         IN  /\ v.size \in Nat \ {0} /\ WrittenWidth(v, aggregate) = v.size
             /\ ~ PeekThrows(buffer, p, v.type, v.size)
             /\ Peek(buffer, p, v.type, v.size) = thing
             /\ AfterGet(p, v.type, v.size) = p + v.size
<1> DEFINE v == Column(layout, n)
<1>1. Len(layout) \in Nat /\ DOMAIN layout = 1 .. Len(layout)
  BY DEF Understood, Layout
<1>2. n + 1 \in DOMAIN layout /\ v = layout[n + 1]
  BY <1>1 DEF ColumnCount, Column
<1>3. <<v.type, v.size>> \in Formats /\ (aggregate => v.type # "bool")
  BY <1>2 DEF Understood
<1>4. v.size # 8 \/ v.type = "floating_point"
  BY DEF Understood, Readable
<1> HIDE DEF v
<1>5. \/ v.type = "floating_point" /\ v.size = 4
      \/ v.type = "floating_point" /\ v.size = 8
      \/ v.type = "signed_integer" /\ v.size = 4
      \/ v.type = "bool" /\ v.size = 1
  BY <1>3, <1>4 DEF Formats
<1>6. v.size \in Nat \ {0} /\ v.size \in PeekWidths(v.type) /\ ~ (v.type = "unsigned_integer")
      /\ ~ (v.type = "signed_integer" /\ v.size = 8)
  BY <1>5 DEF PeekWidths
<1>7. WrittenWidth(v, aggregate) = v.size
  BY <1>3 DEF WrittenWidth
<1>8. InBuffer(buffer, p, v.size) /\ Read(buffer, p, v.size) = thing
  <2>1. Holds(buffer, p, Bytes(thing, v.size))
    BY <1>7 DEF v
  <2> QED
    BY <1>6, <2>1, BytesRead
<1>9. ~ PeekThrows(buffer, p, v.type, v.size) /\ Peek(buffer, p, v.type, v.size) = thing
  BY <1>6, <1>8 DEF PeekThrows, Peek
<1>10. AfterGet(p, v.type, v.size) = p + v.size
  BY <1>6 DEF AfterGet
<1> QED
  BY <1>6, <1>7, <1>9, <1>10 DEF v

-----------------------------------------------------------------------------
(* What the browser reads, byte for byte or not.                             *)

Times(message) == {ReadInt64(message, p) : p \in Int}

Data(message) == {Null, Garbage} \cup {Read(message, p, n) : p \in Int, n \in Nat}

HistoryOf(message, C, M) ==
  [pointer : Int, thrown : BOOLEAN, times : Seq(Times(message)),
   values : [1 .. C -> [1 .. M -> Seq(Data(message))]]]

\* Up to line m of column n, there is a datum for each time; behind it, for each
\* but the last.
Filled(h, C, M, n, m) ==
  ~ h.thrown =>
    \A i \in 1 .. C, j \in 1 .. M :
      Len(h.values[i][j]) = IF i < n \/ (i = n /\ j <= m) THEN Len(h.times) ELSE Len(h.times) - 1

\* There is a datum for each time.
Even(h, C, M) == Filled(h, C, M, C + 1, 0)

LEMMA Thrown ==
  ASSUME NEW message, NEW C, NEW M, NEW h \in HistoryOf(message, C, M)
  PROVE  /\ [h EXCEPT !.thrown = TRUE] \in HistoryOf(message, C, M)
         /\ \A n, m : Filled([h EXCEPT !.thrown = TRUE], C, M, n, m)
BY DEF HistoryOf, Filled

\* The end of one column is the start of the next.
LEMMA NextColumn ==
  ASSUME NEW C \in Nat, NEW M \in Nat, NEW h, NEW n \in Nat, Filled(h, C, M, n, M)
  PROVE  Filled(h, C, M, n + 1, 0)
<1> SUFFICES ASSUME ~ h.thrown, NEW i \in 1 .. C, NEW j \in 1 .. M
             PROVE  Len(h.values[i][j]) = IF i < n + 1 \/ (i = n + 1 /\ j <= 0)
                                          THEN Len(h.times) ELSE Len(h.times) - 1
  BY DEF Filled
<1>1. Len(h.values[i][j]) = IF i < n \/ (i = n /\ j <= M) THEN Len(h.times) ELSE Len(h.times) - 1
  BY DEF Filled
<1>2. (i < n \/ (i = n /\ j <= M)) <=> (i < n + 1 \/ (i = n + 1 /\ j <= 0))
  OBVIOUS
<1> QED
  BY <1>1, <1>2

\* A datum is put behind the others of its line.
LEMMA PutDatum ==
  ASSUME NEW message, NEW C \in Nat, NEW M \in Nat, NEW h \in HistoryOf(message, C, M),
         NEW n \in 1 .. C, NEW m \in 1 .. M, NEW pt \in Int, NEW x \in Data(message)
  PROVE  /\ [h EXCEPT !.pointer = pt, !.values[n][m] = Append(@, x)] \in HistoryOf(message, C, M)
         /\ Filled(h, C, M, n, m - 1) =>
              Filled([h EXCEPT !.pointer = pt, !.values[n][m] = Append(@, x)], C, M, n, m)
<1> DEFINE line == Append(h.values[n][m], x)
           values == [h.values EXCEPT ![n] = [h.values[n] EXCEPT ![m] = line]]
           g == [h EXCEPT !.pointer = pt, !.values[n][m] = Append(@, x)]
<1>1. /\ h.values \in [1 .. C -> [1 .. M -> Seq(Data(message))]]
      /\ h.times \in Seq(Times(message)) /\ h.thrown \in BOOLEAN
  BY DEF HistoryOf
<1>2. g = [h EXCEPT !.pointer = pt, !.values = values]
  OBVIOUS
<1>3. h.values[n][m] \in Seq(Data(message))
  BY <1>1
<1>4. line \in Seq(Data(message)) /\ Len(line) = Len(h.values[n][m]) + 1
  BY <1>3, Behind
<1> HIDE DEF line
<1>5. values \in [1 .. C -> [1 .. M -> Seq(Data(message))]]
  BY <1>1, <1>4
<1>6. \A i \in 1 .. C, j \in 1 .. M :
        values[i][j] = IF i = n /\ j = m THEN line ELSE h.values[i][j]
  BY <1>1
<1> HIDE DEF values, g
<1>7. g \in HistoryOf(message, C, M) /\ g.values = values /\ g.times = h.times
      /\ g.thrown = h.thrown
  BY <1>1, <1>2, <1>5 DEF HistoryOf
<1>8. ASSUME Filled(h, C, M, n, m - 1) PROVE Filled(g, C, M, n, m)
  <2> SUFFICES ASSUME ~ h.thrown, NEW i \in 1 .. C, NEW j \in 1 .. M
               PROVE  Len(values[i][j]) = IF i < n \/ (i = n /\ j <= m)
                                          THEN Len(h.times) ELSE Len(h.times) - 1
    BY <1>7 DEF Filled
  <2>1. Len(h.values[i][j]) = IF i < n \/ (i = n /\ j <= m - 1)
                              THEN Len(h.times) ELSE Len(h.times) - 1
    BY <1>8 DEF Filled
  <2>2. Len(h.times) \in Nat
    BY <1>1
  <2>3. CASE i = n /\ j = m
    <3>1. ~ (i < n \/ (i = n /\ j <= m - 1)) /\ (i < n \/ (i = n /\ j <= m))
      BY <2>3
    <3>2. Len(h.values[n][m]) = Len(h.times) - 1
      BY <2>1, <2>3, <3>1
    <3>3. values[i][j] = line
      BY <1>6, <2>3
    <3>4. Len(values[i][j]) = Len(h.times)
      BY <1>4, <2>2, <3>2, <3>3
    <3> QED
      BY <3>1, <3>4
  <2>4. CASE ~ (i = n /\ j = m)
    <3>1. (i < n \/ (i = n /\ j <= m - 1)) <=> (i < n \/ (i = n /\ j <= m))
      BY <2>4
    <3> QED
      BY <1>6, <2>1, <2>4, <3>1
  <2> QED
    BY <2>3, <2>4
<1> QED
  BY <1>7, <1>8 DEF g

\* One reading of a value.
LEMMA ReadDatumStep ==
  ASSUME NEW layout \in Layout, NEW message, NEW M \in Nat, NEW C, C = ColumnCount(layout),
         NEW h \in HistoryOf(message, C, M), NEW n \in 1 .. C, NEW m \in 1 .. M
  PROVE  /\ ReadDatum(layout, message, h, n, m) \in HistoryOf(message, C, M)
         /\ Filled(h, C, M, n, m - 1) =>
              Filled(ReadDatum(layout, message, h, n, m), C, M, n, m)
<1> DEFINE v == Column(layout, n)
           throws == h.thrown \/ PeekThrows(message, h.pointer, v.type, v.size)
           pt == AfterGet(h.pointer, v.type, v.size)
           x == Peek(message, h.pointer, v.type, v.size)
           stopped == [h EXCEPT !.thrown = TRUE]
           g == [h EXCEPT !.pointer = pt, !.values[n][m] = Append(@, x)]
<1>1. h.pointer \in Int /\ v.size \in Nat /\ C \in Nat
  <2>1. h.pointer \in Int
    BY DEF HistoryOf
  <2> QED
    BY <2>1, LayoutColumns
<1> HIDE DEF v
<1>2. pt \in Int
  BY <1>1 DEF AfterGet
<1>3. x \in Data(message)
  BY <1>1 DEF Peek, Data
<1> HIDE DEF pt, x, throws
<1>4. stopped \in HistoryOf(message, C, M) /\ Filled(stopped, C, M, n, m)
  BY Thrown
<1>5. /\ g \in HistoryOf(message, C, M)
      /\ Filled(h, C, M, n, m - 1) => Filled(g, C, M, n, m)
  BY <1>1, <1>2, <1>3, PutDatum
<1>6. ReadDatum(layout, message, h, n, m) = IF throws THEN stopped ELSE g
  BY Zenon DEF ReadDatum, throws, v, pt, x
<1> HIDE DEF stopped, g
<1> QED
  BY <1>4, <1>5, <1>6

LEMMA ReadAggregateStep ==
  ASSUME NEW layout \in Layout, NEW message, NEW M \in Nat, NEW C, C = ColumnCount(layout),
         NEW h \in HistoryOf(message, C, M), NEW n \in 1 .. C, NEW m \in 1 .. M
  PROVE  /\ ReadAggregate(layout, message, h, n, m) \in HistoryOf(message, C, M)
         /\ Filled(h, C, M, n, m - 1) =>
              Filled(ReadAggregate(layout, message, h, n, m), C, M, n, m)
<1> DEFINE throws == h.thrown \/ ~ InBuffer(message, h.pointer, 4)
           pt == h.pointer + 4
           x == Read(message, h.pointer, 4)
           stopped == [h EXCEPT !.thrown = TRUE]
           g == [h EXCEPT !.pointer = pt, !.values[n][m] = Append(@, x)]
<1>1. h.pointer \in Int /\ C \in Nat
  <2>1. h.pointer \in Int
    BY DEF HistoryOf
  <2> QED
    BY <2>1, LayoutColumns
<1>2. pt \in Int /\ x \in Data(message)
  BY <1>1 DEF Data
<1> HIDE DEF x, throws
<1>3. stopped \in HistoryOf(message, C, M) /\ Filled(stopped, C, M, n, m)
  BY Thrown
<1>4. /\ g \in HistoryOf(message, C, M)
      /\ Filled(h, C, M, n, m - 1) => Filled(g, C, M, n, m)
  <2> HIDE DEF pt
  <2> QED
    BY <1>1, <1>2, PutDatum
<1>5. ReadAggregate(layout, message, h, n, m) =
        IF layout[n].type = "bool" THEN IF throws THEN stopped ELSE g
                                   ELSE ReadDatum(layout, message, h, n, m)
  <2>1. g = [h EXCEPT !.pointer = @ + 4, !.values[n][m] = Append(@, x)]
    OBVIOUS
  <2> HIDE DEF g
  <2> QED
    BY <2>1, Zenon DEF ReadAggregate, ReadFloat32, throws, x
<1> HIDE DEF stopped, g
<1> QED
  BY <1>3, <1>4, <1>5, ReadDatumStep

\* The time of an entry.
LEMMA ReadTimeStep ==
  ASSUME NEW message, NEW C \in Nat, NEW M \in Nat, NEW h \in HistoryOf(message, C, M),
         NEW skip \in Nat
  PROVE  /\ ReadTime(message, h, skip) \in HistoryOf(message, C, M)
         /\ Even(h, C, M) => Filled(ReadTime(message, h, skip), C, M, 1, 0)
<1> DEFINE t == ReadInt64(message, h.pointer + skip)
           times == Append(h.times, t)
           g == [h EXCEPT !.times = times, !.pointer = @ + skip + 8]
<1>1. CASE ~ InBuffer(message, h.pointer + skip, 8)
  BY <1>1, Thrown DEF ReadTime
<1>2. CASE InBuffer(message, h.pointer + skip, 8)
  <2>1. ReadTime(message, h, skip) = g
    BY <1>2 DEF ReadTime
  <2>2. /\ h.pointer \in Int /\ h.times \in Seq(Times(message)) /\ h.thrown \in BOOLEAN
        /\ h.values \in [1 .. C -> [1 .. M -> Seq(Data(message))]]
    BY DEF HistoryOf
  <2>3. h.pointer + skip \in Int /\ h.pointer + skip + 8 \in Int
    BY <2>2
  <2>4. t \in Times(message)
    BY <2>3 DEF Times
  <2>5. times \in Seq(Times(message)) /\ Len(times) = Len(h.times) + 1 /\ Len(h.times) \in Nat
    <3> HIDE DEF t
    <3> QED
      BY <2>2, <2>4, Behind
  <2> HIDE DEF times
  <2>6. /\ g \in HistoryOf(message, C, M) /\ g.times = times /\ g.values = h.values
        /\ g.thrown = h.thrown
    BY <2>2, <2>3, <2>5 DEF HistoryOf
  <2> HIDE DEF g
  <2>7. ASSUME Even(h, C, M) PROVE Filled(g, C, M, 1, 0)
    <3> SUFFICES ASSUME ~ h.thrown, NEW i \in 1 .. C, NEW j \in 1 .. M
                 PROVE  Len(h.values[i][j]) = IF i < 1 \/ (i = 1 /\ j <= 0)
                                              THEN Len(times) ELSE Len(times) - 1
      BY <2>6 DEF Filled
    <3>1. Len(h.values[i][j]) = Len(h.times)
      <4>1. i < C + 1
        OBVIOUS
      <4> QED
        BY <2>7, <4>1 DEF Even, Filled
    <3> QED
      BY <2>5, <3>1
  <2> QED
    BY <2>1, <2>6, <2>7
<1> QED
  BY <1>1, <1>2

\* A gap keeps the lines as long as the times.
LEMMA GapStep ==
  ASSUME NEW message, NEW C \in Nat, NEW M \in Nat, NEW h \in HistoryOf(message, C, M)
  PROVE  /\ startNewEpoch(h) \in HistoryOf(message, C, M)
         /\ Even(h, C, M) => Even(startNewEpoch(h), C, M)
<1>1. /\ h.pointer \in Int /\ h.times \in Seq(Times(message)) /\ h.thrown \in BOOLEAN
      /\ h.values \in [1 .. C -> [1 .. M -> Seq(Data(message))]]
  BY DEF HistoryOf
<1>2. CASE h.times = <<>>
  BY <1>2 DEF startNewEpoch
<1>3. CASE h.times # <<>>
  <2> DEFINE times == Append(h.times, Last(h.times))
             values == [n \in DOMAIN h.values |->
                          [m \in DOMAIN h.values[n] |-> Append(h.values[n][m], Null)]]
             g == [h EXCEPT !.times = times, !.values = values]
  <2>1. startNewEpoch(h) = g
    BY <1>3 DEF startNewEpoch
  <2>2. Last(h.times) \in Times(message)
    BY <1>1, <1>3, FrontOf
  <2>3. times \in Seq(Times(message)) /\ Len(times) = Len(h.times) + 1 /\ Len(h.times) \in Nat
    BY <1>1, <2>2, Behind
  <2>4. Null \in Data(message)
    BY DEF Data
  <2>5. \A n \in 1 .. C, m \in 1 .. M :
          /\ Append(h.values[n][m], Null) \in Seq(Data(message))
          /\ Len(Append(h.values[n][m], Null)) = Len(h.values[n][m]) + 1
    BY <1>1, <2>4, Behind
  <2>6. values = [n \in 1 .. C |-> [m \in 1 .. M |-> Append(h.values[n][m], Null)]]
    BY <1>1
  <2>7. values \in [1 .. C -> [1 .. M -> Seq(Data(message))]]
    BY <2>5, <2>6
  <2>8. \A n \in 1 .. C, m \in 1 .. M : Len(values[n][m]) = Len(h.values[n][m]) + 1
    BY <2>5, <2>6
  <2> HIDE DEF times, values
  <2>9. /\ g \in HistoryOf(message, C, M) /\ g.times = times /\ g.values = values
        /\ g.thrown = h.thrown
    BY <1>1, <2>3, <2>7 DEF HistoryOf
  <2> HIDE DEF g
  <2>10. ASSUME Even(h, C, M) PROVE Even(g, C, M)
    <3> SUFFICES ASSUME ~ h.thrown, NEW i \in 1 .. C, NEW j \in 1 .. M
                 PROVE  Len(values[i][j]) = Len(times)
      BY <2>9 DEF Even, Filled
    <3>1. Len(h.values[i][j]) = Len(h.times)
      <4>1. i < C + 1
        OBVIOUS
      <4> QED
        BY <2>10, <4>1 DEF Even, Filled
    <3> QED
      BY <2>3, <2>8, <3>1
  <2> QED
    BY <2>1, <2>9, <2>10
<1> QED
  BY <1>2, <1>3
\* The aggregates of a column, one after another.
ReadsColumn(f, layout, message, h, n) ==
  /\ f[0] = h
  /\ \A m \in 1 .. aggregates_per_value : f[m] = ReadAggregate(layout, message, f[m - 1], n, m)

LEMMA ColumnSteps ==
  ASSUME NEW layout \in Layout, NEW message, NEW C \in Nat, C = ColumnCount(layout),
         NEW h \in HistoryOf(message, C, aggregates_per_value), NEW n \in 1 .. C
  PROVE  \E f : ReadsColumn(f, layout, message, h, n) /\ ReadColumn(layout, message, h, n) = f[aggregates_per_value]
<1> DEFINE N == aggregates_per_value
           S == HistoryOf(message, C, aggregates_per_value)
           base == h
           step == [x \in Nat \X S |->
                      IF x[1] \in 1 .. N THEN ReadAggregate(layout, message, x[2], n, x[1]) ELSE x[2]]
           Defines(g) == g = [m \in 0 .. N |-> IF m = 0 THEN base
                                ELSE ReadAggregate(layout, message, g[m - 1], n, m)]
<1>1. N \in Nat
  BY DEF aggregates_per_value
<1>2. base \in S
  OBVIOUS
<1>3. \A g \in S, m \in 1 .. N : ReadAggregate(layout, message, g, n, m) \in S
  BY <1>1, ReadAggregateStep
<1>4. step \in [Nat \X S -> S]
  <2>1. ASSUME NEW x \in Nat \X S
        PROVE  (IF x[1] \in 1 .. N THEN ReadAggregate(layout, message, x[2], n, x[1]) ELSE x[2]) \in S
    <3>1. x[2] \in S /\ x[1] \in Nat
      OBVIOUS
    <3> HIDE DEF N, S
    <3> QED
      BY <1>3, <3>1
  <2> QED
    BY <2>1
<1>5. \E f : Goes(f, S, base, step, N)
  <2> HIDE DEF step, N, S, base
  <2> QED
    BY <1>1, <1>2, <1>4, Defined, Zenon
<1>6. PICK f : Goes(f, S, base, step, N)
  BY <1>5
<1> HIDE DEF S
<1>7. f \in [0 .. N -> S] /\ f[0] = base
  BY <1>6 DEF Goes
<1>8. ASSUME NEW m \in 1 .. N PROVE f[m] = ReadAggregate(layout, message, f[m - 1], n, m)
  <2>1. m - 1 \in 0 .. N /\ m \in Nat
    BY <1>1
  <2>2. <<m, f[m - 1]>> \in Nat \X S
    BY <1>7, <2>1
  <2>3. step[<<m, f[m - 1]>>] = ReadAggregate(layout, message, f[m - 1], n, m)
    BY <2>2
  <2> HIDE DEF step
  <2> QED
    BY <1>6, <2>3 DEF Goes
<1>9. Defines(f)
  <2>1. f = [m \in 0 .. N |-> f[m]]
    BY <1>7
  <2>2. ASSUME NEW m \in 0 .. N
        PROVE  f[m] = IF m = 0 THEN base ELSE ReadAggregate(layout, message, f[m - 1], n, m)
    <3>1. m = 0 \/ (m # 0 /\ m \in 1 .. N)
      BY <1>1
    <3> QED
      BY <1>7, <1>8, <3>1, Zenon
  <2> QED
    BY <2>1, <2>2
<1> DEFINE p == CHOOSE g : Defines(g)
<1>10. Defines(p)
  <2> HIDE DEF Defines
  <2> QED
    BY <1>9, Zenon
<1>11. ReadColumn(layout, message, h, n) = p[N]
  BY DEF ReadColumn, N
<1>12. ReadsColumn(p, layout, message, h, n)
  <2> HIDE DEF p
  <2>1. p[0] = base
    BY <1>1, <1>10
  <2>2. ASSUME NEW m \in 1 .. N PROVE p[m] = ReadAggregate(layout, message, p[m - 1], n, m)
    <3>1. m \in 0 .. N /\ m # 0
      BY <1>1
    <3> QED
      BY <1>10, <3>1
  <2> QED
    BY <2>1, <2>2 DEF ReadsColumn
<1> HIDE DEF p
<1> QED
  BY <1>11, <1>12 DEF N

LEMMA ColumnResult ==
  ASSUME NEW layout \in Layout, NEW message, NEW C \in Nat, C = ColumnCount(layout),
         NEW h \in HistoryOf(message, C, aggregates_per_value), NEW n \in 1 .. C
  PROVE  /\ ReadColumn(layout, message, h, n) \in HistoryOf(message, C, aggregates_per_value)
         /\ Filled(h, C, aggregates_per_value, n, 0) =>
              Filled(ReadColumn(layout, message, h, n), C, aggregates_per_value, n + 1, 0)
<1> DEFINE M == aggregates_per_value
           S == HistoryOf(message, C, M)
           Full(g, k) == Filled(h, C, M, n, 0) => Filled(g, C, M, n, k)
<1>1. PICK f : ReadsColumn(f, layout, message, h, n)
               /\ ReadColumn(layout, message, h, n) = f[aggregates_per_value]
  BY ColumnSteps
<1>2. M \in Nat
  BY DEF aggregates_per_value
<1>3. f[0] = h /\ \A m \in 1 .. M : f[m] = ReadAggregate(layout, message, f[m - 1], n, m)
  BY <1>1 DEF ReadsColumn
<1>4. ReadColumn(layout, message, h, n) = f[M]
  BY <1>1
<1> HIDE DEF M
<1> DEFINE Good == {k \in Nat : k <= M => f[k] \in S /\ Full(f[k], k)}
<1>5. 0 \in Good
  <2>1. f[0] \in S /\ Full(f[0], 0)
    BY <1>3 DEF M
  <2> QED
    BY <2>1
<1>6. ASSUME NEW k \in Nat, k \in Good PROVE k + 1 \in Good
  <2> SUFFICES ASSUME k + 1 <= M PROVE f[k + 1] \in S /\ Full(f[k + 1], k + 1)
    OBVIOUS
  <2>1. k + 1 \in 1 .. M /\ (k + 1) - 1 = k /\ k <= M
    BY <1>2
  <2>2. f[k] \in S /\ Full(f[k], k)
    BY <1>6, <2>1
  <2>3. f[k + 1] = ReadAggregate(layout, message, f[k], n, k + 1)
    BY <1>3, <2>1
  <2> QED
    BY <1>2, <2>1, <2>2, <2>3, ReadAggregateStep
<1>7. \A k \in Nat : k \in Good
  <2> HIDE DEF Good
  <2> QED
    BY <1>5, <1>6, Induction
<1>8. f[M] \in S /\ Full(f[M], M)
  BY <1>2, <1>7
<1> QED
  BY <1>2, <1>4, <1>8, NextColumn DEF M

\* The columns of an aggregate entry.
ReadsAggregateEntry(f, layout, message, h) ==
  /\ f[0] = ReadTime(message, h, 0)
  /\ \A n \in 1 .. ColumnCount(layout) : f[n] = ReadColumn(layout, message, f[n - 1], n)

LEMMA AggregateEntrySteps ==
  ASSUME NEW layout \in Layout, NEW message, NEW C \in Nat, C = ColumnCount(layout),
         NEW h \in HistoryOf(message, C, aggregates_per_value)
  PROVE  \E f : ReadsAggregateEntry(f, layout, message, h) /\ ReadAggregateEntry(layout, message, h) = f[ColumnCount(layout)]
<1> DEFINE N == ColumnCount(layout)
           S == HistoryOf(message, C, aggregates_per_value)
           base == ReadTime(message, h, 0)
           step == [x \in Nat \X S |->
                      IF x[1] \in 1 .. N THEN ReadColumn(layout, message, x[2], x[1]) ELSE x[2]]
           Defines(g) == g = [n \in 0 .. N |-> IF n = 0 THEN base
                                ELSE ReadColumn(layout, message, g[n - 1], n)]
<1>0. aggregates_per_value \in Nat
  BY DEF aggregates_per_value
<1>1. N \in Nat
  OBVIOUS
<1>2. base \in S
  BY <1>0, ReadTimeStep
<1>3. \A g \in S, n \in 1 .. N : ReadColumn(layout, message, g, n) \in S
  BY <1>0, ColumnResult
<1>4. step \in [Nat \X S -> S]
  <2>1. ASSUME NEW x \in Nat \X S
        PROVE  (IF x[1] \in 1 .. N THEN ReadColumn(layout, message, x[2], x[1]) ELSE x[2]) \in S
    <3>1. x[2] \in S /\ x[1] \in Nat
      OBVIOUS
    <3> HIDE DEF N, S
    <3> QED
      BY <1>3, <3>1
  <2> QED
    BY <2>1
<1>5. \E f : Goes(f, S, base, step, N)
  <2> HIDE DEF step, N, S, base
  <2> QED
    BY <1>1, <1>2, <1>4, Defined, Zenon
<1>6. PICK f : Goes(f, S, base, step, N)
  BY <1>5
<1> HIDE DEF S
<1>7. f \in [0 .. N -> S] /\ f[0] = base
  BY <1>6 DEF Goes
<1>8. ASSUME NEW n \in 1 .. N PROVE f[n] = ReadColumn(layout, message, f[n - 1], n)
  <2>1. n - 1 \in 0 .. N /\ n \in Nat
    BY <1>1
  <2>2. <<n, f[n - 1]>> \in Nat \X S
    BY <1>7, <2>1
  <2>3. step[<<n, f[n - 1]>>] = ReadColumn(layout, message, f[n - 1], n)
    BY <2>2
  <2> HIDE DEF step
  <2> QED
    BY <1>6, <2>3 DEF Goes
<1>9. Defines(f)
  <2>1. f = [n \in 0 .. N |-> f[n]]
    BY <1>7
  <2>2. ASSUME NEW n \in 0 .. N
        PROVE  f[n] = IF n = 0 THEN base ELSE ReadColumn(layout, message, f[n - 1], n)
    <3>1. n = 0 \/ (n # 0 /\ n \in 1 .. N)
      BY <1>1
    <3> QED
      BY <1>7, <1>8, <3>1, Zenon
  <2> QED
    BY <2>1, <2>2
<1> DEFINE p == CHOOSE g : Defines(g)
<1>10. Defines(p)
  <2> HIDE DEF Defines
  <2> QED
    BY <1>9, Zenon
<1>11. ReadAggregateEntry(layout, message, h) = p[N]
  BY DEF ReadAggregateEntry, N
<1>12. ReadsAggregateEntry(p, layout, message, h)
  <2> HIDE DEF p
  <2>1. p[0] = base
    BY <1>1, <1>10
  <2>2. ASSUME NEW n \in 1 .. N PROVE p[n] = ReadColumn(layout, message, p[n - 1], n)
    <3>1. n \in 0 .. N /\ n # 0
      BY <1>1
    <3> QED
      BY <1>10, <3>1
  <2> QED
    BY <2>1, <2>2 DEF ReadsAggregateEntry
<1> HIDE DEF p
<1> QED
  BY <1>11, <1>12 DEF N

LEMMA AggregateEntryResult ==
  ASSUME NEW layout \in Layout, NEW message, NEW C \in Nat, C = ColumnCount(layout),
         NEW h \in HistoryOf(message, C, aggregates_per_value)
  PROVE  /\ ReadAggregateEntry(layout, message, h) \in HistoryOf(message, C, aggregates_per_value)
         /\ Even(h, C, aggregates_per_value) => Even(ReadAggregateEntry(layout, message, h), C, aggregates_per_value)
<1> DEFINE S == HistoryOf(message, C, aggregates_per_value)
           Full(g, k) == Even(h, C, aggregates_per_value) => Filled(g, C, aggregates_per_value, k + 1, 0)
<1>0. aggregates_per_value \in Nat
  BY DEF aggregates_per_value
<1>1. PICK f : ReadsAggregateEntry(f, layout, message, h)
               /\ ReadAggregateEntry(layout, message, h) = f[ColumnCount(layout)]
  BY AggregateEntrySteps
<1>2. /\ f[0] = ReadTime(message, h, 0)
      /\ \A n \in 1 .. C : f[n] = ReadColumn(layout, message, f[n - 1], n)
      /\ ReadAggregateEntry(layout, message, h) = f[C]
  BY <1>1 DEF ReadsAggregateEntry
<1> DEFINE Good == {k \in Nat : k <= C => f[k] \in S /\ Full(f[k], k)}
<1>3. 0 \in Good
  <2>1. f[0] \in S /\ (Even(h, C, aggregates_per_value) => Filled(f[0], C, aggregates_per_value, 1, 0)) /\ 0 + 1 = 1
    BY <1>0, <1>2, ReadTimeStep
  <2> QED
    BY <2>1
<1>4. ASSUME NEW k \in Nat, k \in Good PROVE k + 1 \in Good
  <2> SUFFICES ASSUME k + 1 <= C PROVE f[k + 1] \in S /\ Full(f[k + 1], k + 1)
    OBVIOUS
  <2>1. k + 1 \in 1 .. C /\ (k + 1) - 1 = k /\ k <= C
    OBVIOUS
  <2>2. f[k] \in S /\ Full(f[k], k)
    BY <1>4, <2>1
  <2>3. f[k + 1] = ReadColumn(layout, message, f[k], k + 1)
    BY <1>2, <2>1
  <2>4. Full(f[k + 1], k + 1)
    BY <1>0, <2>1, <2>2, <2>3, ColumnResult
  <2>5. f[k + 1] \in S
    BY <1>0, <2>1, <2>2, <2>3, ColumnResult
  <2> QED
    BY <2>4, <2>5
<1>5. \A k \in Nat : k \in Good
  <2> HIDE DEF Good
  <2> QED
    BY <1>3, <1>4, Induction
<1>6. f[C] \in S /\ Full(f[C], C)
  BY <1>5
<1> QED
  BY <1>2, <1>6 DEF Even

\* The values of a raw entry.
ReadsRow(f, layout, message, h) ==
  /\ f[0] = ReadTime(message, h, 1)
  /\ \A n \in 1 .. ColumnCount(layout) : f[n] = ReadDatum(layout, message, f[n - 1], n, 1)

LEMMA RowSteps ==
  ASSUME NEW layout \in Layout, NEW message, NEW C \in Nat, C = ColumnCount(layout),
         NEW h \in HistoryOf(message, C, 1)
  PROVE  \E f : ReadsRow(f, layout, message, h) /\ ReadRow(layout, message, h) = f[ColumnCount(layout)]
<1> DEFINE N == ColumnCount(layout)
           S == HistoryOf(message, C, 1)
           base == ReadTime(message, h, 1)
           step == [x \in Nat \X S |->
                      IF x[1] \in 1 .. N THEN ReadDatum(layout, message, x[2], x[1], 1) ELSE x[2]]
           Defines(g) == g = [n \in 0 .. N |-> IF n = 0 THEN base
                                ELSE ReadDatum(layout, message, g[n - 1], n, 1)]
<1>0. 1 \in Nat /\ 1 \in 1 .. 1
  OBVIOUS
<1>1. N \in Nat
  OBVIOUS
<1>2. base \in S
  BY <1>0, ReadTimeStep
<1>3. \A g \in S, n \in 1 .. N : ReadDatum(layout, message, g, n, 1) \in S
  BY <1>0, ReadDatumStep
<1>4. step \in [Nat \X S -> S]
  <2>1. ASSUME NEW x \in Nat \X S
        PROVE  (IF x[1] \in 1 .. N THEN ReadDatum(layout, message, x[2], x[1], 1) ELSE x[2]) \in S
    <3>1. x[2] \in S /\ x[1] \in Nat
      OBVIOUS
    <3> HIDE DEF N, S
    <3> QED
      BY <1>3, <3>1
  <2> QED
    BY <2>1
<1>5. \E f : Goes(f, S, base, step, N)
  <2> HIDE DEF step, N, S, base
  <2> QED
    BY <1>1, <1>2, <1>4, Defined, Zenon
<1>6. PICK f : Goes(f, S, base, step, N)
  BY <1>5
<1> HIDE DEF S
<1>7. f \in [0 .. N -> S] /\ f[0] = base
  BY <1>6 DEF Goes
<1>8. ASSUME NEW n \in 1 .. N PROVE f[n] = ReadDatum(layout, message, f[n - 1], n, 1)
  <2>1. n - 1 \in 0 .. N /\ n \in Nat
    BY <1>1
  <2>2. <<n, f[n - 1]>> \in Nat \X S
    BY <1>7, <2>1
  <2>3. step[<<n, f[n - 1]>>] = ReadDatum(layout, message, f[n - 1], n, 1)
    BY <2>2
  <2> HIDE DEF step
  <2> QED
    BY <1>6, <2>3 DEF Goes
<1>9. Defines(f)
  <2>1. f = [n \in 0 .. N |-> f[n]]
    BY <1>7
  <2>2. ASSUME NEW n \in 0 .. N
        PROVE  f[n] = IF n = 0 THEN base ELSE ReadDatum(layout, message, f[n - 1], n, 1)
    <3>1. n = 0 \/ (n # 0 /\ n \in 1 .. N)
      BY <1>1
    <3> QED
      BY <1>7, <1>8, <3>1, Zenon
  <2> QED
    BY <2>1, <2>2
<1> DEFINE p == CHOOSE g : Defines(g)
<1>10. Defines(p)
  <2> HIDE DEF Defines
  <2> QED
    BY <1>9, Zenon
<1>11. ReadRow(layout, message, h) = p[N]
  BY DEF ReadRow, N
<1>12. ReadsRow(p, layout, message, h)
  <2> HIDE DEF p
  <2>1. p[0] = base
    BY <1>1, <1>10
  <2>2. ASSUME NEW n \in 1 .. N PROVE p[n] = ReadDatum(layout, message, p[n - 1], n, 1)
    <3>1. n \in 0 .. N /\ n # 0
      BY <1>1
    <3> QED
      BY <1>10, <3>1
  <2> QED
    BY <2>1, <2>2 DEF ReadsRow
<1> HIDE DEF p
<1> QED
  BY <1>11, <1>12 DEF N

LEMMA RowResult ==
  ASSUME NEW layout \in Layout, NEW message, NEW C \in Nat, C = ColumnCount(layout),
         NEW h \in HistoryOf(message, C, 1)
  PROVE  /\ ReadRow(layout, message, h) \in HistoryOf(message, C, 1)
         /\ Even(h, C, 1) => Even(ReadRow(layout, message, h), C, 1)
<1> DEFINE S == HistoryOf(message, C, 1)
           Full(g, k) == Even(h, C, 1) => Filled(g, C, 1, k + 1, 0)
<1>0. 1 \in Nat /\ 1 \in 1 .. 1
  OBVIOUS
<1>1. PICK f : ReadsRow(f, layout, message, h)
               /\ ReadRow(layout, message, h) = f[ColumnCount(layout)]
  BY RowSteps
<1>2. /\ f[0] = ReadTime(message, h, 1)
      /\ \A n \in 1 .. C : f[n] = ReadDatum(layout, message, f[n - 1], n, 1)
      /\ ReadRow(layout, message, h) = f[C]
  BY <1>1 DEF ReadsRow
<1> DEFINE Good == {k \in Nat : k <= C => f[k] \in S /\ Full(f[k], k)}
<1>3. 0 \in Good
  <2>1. f[0] \in S /\ (Even(h, C, 1) => Filled(f[0], C, 1, 1, 0)) /\ 0 + 1 = 1
    BY <1>0, <1>2, ReadTimeStep
  <2> QED
    BY <2>1
<1>4. ASSUME NEW k \in Nat, k \in Good PROVE k + 1 \in Good
  <2> SUFFICES ASSUME k + 1 <= C PROVE f[k + 1] \in S /\ Full(f[k + 1], k + 1)
    OBVIOUS
  <2>1. k + 1 \in 1 .. C /\ (k + 1) - 1 = k /\ k <= C
    OBVIOUS
  <2>2. f[k] \in S /\ Full(f[k], k)
    BY <1>4, <2>1
  <2>3. f[k + 1] = ReadDatum(layout, message, f[k], k + 1, 1)
    BY <1>2, <2>1
  <2>4. Full(f[k + 1], k + 1)
    <3>1. 1 - 1 = 0 /\ k + 1 \in Nat /\ 1 \in 1 .. 1
      OBVIOUS
    <3>2. Even(h, C, 1) => Filled(f[k + 1], C, 1, k + 1, 1)
      BY <1>0, <2>1, <2>2, <2>3, <3>1, ReadDatumStep
    <3> QED
      BY <1>0, <3>1, <3>2, NextColumn
  <2>5. f[k + 1] \in S
    BY <1>0, <2>1, <2>2, <2>3, ReadDatumStep
  <2> QED
    BY <2>4, <2>5
<1>5. \A k \in Nat : k \in Good
  <2> HIDE DEF Good
  <2> QED
    BY <1>3, <1>4, Induction
<1>6. f[C] \in S /\ Full(f[C], C)
  BY <1>5
<1> QED
  BY <1>2, <1>6 DEF Even

\* An entry of either kind, if any is left.
LEMMA EntryResult ==
  ASSUME NEW layout \in Layout, NEW message, NEW C \in Nat, C = ColumnCount(layout),
         NEW aggregate \in BOOLEAN, NEW odd \in BOOLEAN,
         NEW h \in HistoryOf(message, C, Copies(aggregate))
  PROVE  /\ ReadMore(layout, message, h, aggregate, odd) \in HistoryOf(message, C, Copies(aggregate))
         /\ Even(h, C, Copies(aggregate)) =>
              Even(ReadMore(layout, message, h, aggregate, odd), C, Copies(aggregate))
<1> DEFINE M == Copies(aggregate)
           S == HistoryOf(message, C, M)
           r == ReadEntry(layout, message, h, aggregate, odd)
<1>1. r \in S /\ (Even(h, C, M) => Even(r, C, M))
  <2>1. CASE aggregate
    <3>1. M = aggregates_per_value /\ r = ReadAggregateEntry(layout, message, h)
      BY <2>1 DEF Copies, ReadEntry
    <3> HIDE DEF M, r
    <3>2. h \in HistoryOf(message, C, aggregates_per_value)
      BY <3>1 DEF M
    <3> QED
      BY <3>1, <3>2, AggregateEntryResult
  <2>2. CASE ~ aggregate
    <3> DEFINE g == ReadRow(layout, message, h)
    <3>1. M = 1 /\ r = (IF ~ g.thrown /\ EndOfEpoch(message, h.pointer, odd) THEN startNewEpoch(g)
                        ELSE g)
      BY <2>2 DEF Copies, ReadEntry, ReadRawEntry
    <3>2. h \in HistoryOf(message, C, 1)
      BY <3>1 DEF M
    <3>3. g \in HistoryOf(message, C, 1) /\ (Even(h, C, 1) => Even(g, C, 1))
      BY <3>2, RowResult
    <3> HIDE DEF M, r, g
    <3>4. /\ startNewEpoch(g) \in HistoryOf(message, C, 1)
          /\ Even(g, C, 1) => Even(startNewEpoch(g), C, 1)
      BY <3>3, GapStep
    <3>5. r = g \/ r = startNewEpoch(g)
      BY <3>1, Zenon
    <3> QED
      BY <3>1, <3>3, <3>4, <3>5
  <2> QED
    BY <2>1, <2>2
<1>2. ReadMore(layout, message, h, aggregate, odd) = h
      \/ ReadMore(layout, message, h, aggregate, odd) = r
  BY Zenon DEF ReadMore
<1> HIDE DEF r
<1> QED
  BY <1>1, <1>2

LEMMA NewHistoryType ==
  ASSUME NEW layout \in Layout, NEW message, NEW C \in Nat, C = ColumnCount(layout),
         NEW aggregate \in BOOLEAN
  PROVE  /\ NewHistory(layout, aggregate) \in HistoryOf(message, C, Copies(aggregate))
         /\ Even(NewHistory(layout, aggregate), C, Copies(aggregate))
<1> DEFINE M == Copies(aggregate)
           values == [n \in 1 .. C |-> [m \in 1 .. M |-> <<>>]]
           h == [pointer |-> 0, thrown |-> FALSE, times |-> <<>>, values |-> values]
<1>1. NewHistory(layout, aggregate) = h
  BY DEF NewHistory
<1>2. \A n \in 1 .. C, m \in 1 .. M : values[n][m] = <<>>
  OBVIOUS
<1>3. values \in [1 .. C -> [1 .. M -> Seq(Data(message))]]
  <2>1. <<>> \in Seq(Data(message))
    OBVIOUS
  <2> QED
    BY <2>1
<1> HIDE DEF values, M
<1>4. h \in HistoryOf(message, C, M)
  <2>1. <<>> \in Seq(Times(message))
    OBVIOUS
  <2> QED
    BY <1>3, <2>1 DEF HistoryOf
<1>5. h.times = <<>> /\ h.values = values
  OBVIOUS
<1>6. Even(h, C, M)
  <2> SUFFICES ASSUME NEW i \in 1 .. C, NEW j \in 1 .. M PROVE Len(values[i][j]) = 0
    BY <1>5 DEF Even, Filled
  <2> QED
    BY <1>2
<1> QED
  BY <1>1, <1>4, <1>6 DEF M

\* The entries of a message.
ReadsHistory(f, layout, message, aggregate, odd) ==
  /\ f[0] = NewHistory(layout, aggregate)
  /\ \A i \in 1 .. EntriesAtMost(message) : f[i] = ReadMore(layout, message, f[i - 1], aggregate, odd)

LEMMA EntriesBound ==
  ASSUME NEW message, Len(message) \in Nat
  PROVE  EntriesAtMost(message) \in Nat
<1> DEFINE n == Len(message)
<1> HIDE DEF n
<1>1. n \in Nat
  BY DEF n
<1>2. n \div 8 \in Nat
  BY <1>1
<1> QED
  BY <1>2 DEF EntriesAtMost, n

LEMMA HistorySteps ==
  ASSUME NEW layout \in Layout, NEW message, NEW C \in Nat, C = ColumnCount(layout),
         NEW aggregate \in BOOLEAN, NEW odd \in BOOLEAN, Len(message) \in Nat
  PROVE  \E f : ReadsHistory(f, layout, message, aggregate, odd) /\ processEntries(layout, message, aggregate, odd) = f[EntriesAtMost(message)]
<1> DEFINE N == EntriesAtMost(message)
           S == HistoryOf(message, C, Copies(aggregate))
           base == NewHistory(layout, aggregate)
           step == [x \in Nat \X S |->
                      IF x[1] \in 1 .. N THEN ReadMore(layout, message, x[2], aggregate, odd) ELSE x[2]]
           Defines(g) == g = [i \in 0 .. N |-> IF i = 0 THEN base
                                ELSE ReadMore(layout, message, g[i - 1], aggregate, odd)]
<1>1. N \in Nat
  BY EntriesBound
<1>2. base \in S
  BY NewHistoryType
<1>3. \A g \in S, i \in 1 .. N : ReadMore(layout, message, g, aggregate, odd) \in S
  BY EntryResult
<1>4. step \in [Nat \X S -> S]
  <2>1. ASSUME NEW x \in Nat \X S
        PROVE  (IF x[1] \in 1 .. N THEN ReadMore(layout, message, x[2], aggregate, odd) ELSE x[2]) \in S
    <3>1. x[2] \in S /\ x[1] \in Nat
      OBVIOUS
    <3> HIDE DEF N, S
    <3> QED
      BY <1>3, <3>1
  <2> QED
    BY <2>1
<1>5. \E f : Goes(f, S, base, step, N)
  <2> HIDE DEF step, N, S, base
  <2> QED
    BY <1>1, <1>2, <1>4, Defined, Zenon
<1>6. PICK f : Goes(f, S, base, step, N)
  BY <1>5
<1> HIDE DEF S
<1>7. f \in [0 .. N -> S] /\ f[0] = base
  BY <1>6 DEF Goes
<1>8. ASSUME NEW i \in 1 .. N PROVE f[i] = ReadMore(layout, message, f[i - 1], aggregate, odd)
  <2>1. i - 1 \in 0 .. N /\ i \in Nat
    BY <1>1
  <2>2. <<i, f[i - 1]>> \in Nat \X S
    BY <1>7, <2>1
  <2>3. step[<<i, f[i - 1]>>] = ReadMore(layout, message, f[i - 1], aggregate, odd)
    BY <2>2
  <2> HIDE DEF step
  <2> QED
    BY <1>6, <2>3 DEF Goes
<1>9. Defines(f)
  <2>1. f = [i \in 0 .. N |-> f[i]]
    BY <1>7
  <2>2. ASSUME NEW i \in 0 .. N
        PROVE  f[i] = IF i = 0 THEN base ELSE ReadMore(layout, message, f[i - 1], aggregate, odd)
    <3>1. i = 0 \/ (i # 0 /\ i \in 1 .. N)
      BY <1>1
    <3> QED
      BY <1>7, <1>8, <3>1, Zenon
  <2> QED
    BY <2>1, <2>2
<1> DEFINE p == CHOOSE g : Defines(g)
<1>10. Defines(p)
  <2> HIDE DEF Defines
  <2> QED
    BY <1>9, Zenon
<1>11. processEntries(layout, message, aggregate, odd) = p[N]
  BY DEF processEntries, N
<1>12. ReadsHistory(p, layout, message, aggregate, odd)
  <2> HIDE DEF p
  <2>1. p[0] = base
    BY <1>1, <1>10
  <2>2. ASSUME NEW i \in 1 .. N PROVE p[i] = ReadMore(layout, message, p[i - 1], aggregate, odd)
    <3>1. i \in 0 .. N /\ i # 0
      BY <1>1
    <3> QED
      BY <1>10, <3>1
  <2> QED
    BY <2>1, <2>2 DEF ReadsHistory
<1> HIDE DEF p
<1> QED
  BY <1>11, <1>12 DEF N

\* The history that is read: unless the reading was broken off, each line has a
\* datum for every time.
LEMMA HistoryResult ==
  ASSUME NEW layout \in Layout, NEW message, NEW C \in Nat, C = ColumnCount(layout),
         NEW aggregate \in BOOLEAN, NEW odd \in BOOLEAN, Len(message) \in Nat
  PROVE  /\ processEntries(layout, message, aggregate, odd)
              \in HistoryOf(message, C, Copies(aggregate))
         /\ Even(processEntries(layout, message, aggregate, odd), C, Copies(aggregate))
<1> DEFINE N == EntriesAtMost(message)
           M == Copies(aggregate)
           S == HistoryOf(message, C, M)
<1>1. PICK f : ReadsHistory(f, layout, message, aggregate, odd)
               /\ processEntries(layout, message, aggregate, odd) = f[EntriesAtMost(message)]
  BY HistorySteps
<1>2. /\ f[0] = NewHistory(layout, aggregate)
      /\ \A i \in 1 .. N : f[i] = ReadMore(layout, message, f[i - 1], aggregate, odd)
      /\ processEntries(layout, message, aggregate, odd) = f[N]
  BY <1>1 DEF ReadsHistory
<1>3. N \in Nat
  BY EntriesBound
<1> HIDE DEF N
<1> DEFINE Good == {k \in Nat : k <= N => f[k] \in S /\ Even(f[k], C, M)}
<1>4. 0 \in Good
  BY <1>2, NewHistoryType
<1>5. ASSUME NEW k \in Nat, k \in Good PROVE k + 1 \in Good
  <2> SUFFICES ASSUME k + 1 <= N PROVE f[k + 1] \in S /\ Even(f[k + 1], C, M)
    OBVIOUS
  <2>1. k + 1 \in 1 .. N /\ (k + 1) - 1 = k /\ k <= N
    BY <1>3
  <2>2. f[k] \in S /\ Even(f[k], C, M)
    BY <1>5, <2>1
  <2>3. f[k + 1] = ReadMore(layout, message, f[k], aggregate, odd)
    BY <1>2, <2>1
  <2> QED
    BY <2>2, <2>3, EntryResult
<1>6. \A k \in Nat : k \in Good
  <2> HIDE DEF Good
  <2> QED
    BY <1>4, <1>5, Induction
<1>7. f[N] \in S /\ Even(f[N], C, M)
  BY <1>3, <1>6
<1> QED
  BY <1>2, <1>7

-----------------------------------------------------------------------------
(* A message that is read as it was written.                                 *)

LEMMA FlagRead ==
  ASSUME NEW buffer, IsSequence(buffer), NEW p \in Nat, NEW b \in BOOLEAN, NEW odd,
         Holds(buffer, p, Bytes(<<"flag", b>>, 1))
  PROVE  EndOfEpoch(buffer, p, odd) = b
<1> DEFINE flag == <<"flag", b>>
           S == {"half", "flag"} \cup Int \cup BOOLEAN
<1>1. flag # Garbage
  <2>1. "flag" \in S /\ b \in S
    OBVIOUS
  <2> HIDE DEF S
  <2>2. flag \in Seq(S)
    BY <2>1
  <2> HIDE DEF flag
  <2> QED
    BY <2>2, DataViewAssumption DEF S
<1>2. Read(buffer, p, 1) = flag
  <2> HIDE DEF flag
  <2> QED
    BY BytesRead DEF flag
<1>3. flag[1] = "flag" /\ flag[2] = b
  OBVIOUS
<1> HIDE DEF flag
<1> QED
  BY <1>1, <1>2, <1>3 DEF EndOfEpoch

\* The points of a line, one entry after the other.
Draws(f, labels, data) ==
  /\ f[0] = <<>>
  /\ \A k \in 1 .. Len(data) :
       f[k] = IF data[k] = Null THEN f[k - 1]
              ELSE Append(f[k - 1], [time |-> labels[k], datum |-> data[k]])

LEMMA LineSteps ==
  ASSUME NEW labels, NEW data, Len(data) \in Nat
  PROVE  \E f : Draws(f, labels, data) /\ Line(labels, data) = f[Len(data)]
<1> DEFINE N == Len(data)
           point(k) == [time |-> labels[k], datum |-> data[k]]
           P == {point(k) : k \in 1 .. N}
           S == Seq(P)
           base == <<>>
           step == [x \in Nat \X S |->
                      IF x[1] \in 1 .. N THEN (IF data[x[1]] = Null THEN x[2] ELSE Append(x[2], point(x[1]))) ELSE x[2]]
           Value(g, k) == IF data[k] = Null THEN g[k - 1] ELSE Append(g[k - 1], point(k))
           Defines(g) == g = [k \in 0 .. N |-> IF k = 0 THEN base ELSE Value(g, k)]
<1>1. N \in Nat
  OBVIOUS
<1>2. base \in S
  OBVIOUS
<1>3. \A k \in 1 .. N : point(k) \in P
  OBVIOUS
<1>4. \A g \in S, k \in 1 .. N : (IF data[k] = Null THEN g ELSE Append(g, point(k))) \in S
  <2> TAKE g \in S, k \in 1 .. N
  <2>1. point(k) \in P
    BY <1>3
  <2> HIDE DEF P, point
  <2> QED
    BY <2>1
<1> HIDE DEF base, P, point
<1>5. step \in [Nat \X S -> S]
  <2>1. ASSUME NEW x \in Nat \X S
        PROVE  (IF x[1] \in 1 .. N THEN (IF data[x[1]] = Null THEN x[2] ELSE Append(x[2], point(x[1]))) ELSE x[2]) \in S
    <3>1. x[2] \in S /\ x[1] \in Nat
      OBVIOUS
    <3> HIDE DEF N, S
    <3> QED
      BY <1>4, <3>1
  <2> QED
    BY <2>1
<1>6. PICK f : Goes(f, S, base, step, N)
  <2> HIDE DEF step, N, S
  <2> QED
    BY <1>1, <1>2, <1>5, Defined, Zenon
<1> HIDE DEF S
<1>7. f \in [0 .. N -> S] /\ f[0] = base
  BY <1>6 DEF Goes
<1>8. ASSUME NEW k \in 1 .. N PROVE f[k] = Value(f, k)
  <2>1. k - 1 \in 0 .. N /\ k \in Nat
    BY <1>1
  <2>2. <<k, f[k - 1]>> \in Nat \X S
    BY <1>7, <2>1
  <2>3. step[<<k, f[k - 1]>>] = Value(f, k)
    BY <2>2
  <2> HIDE DEF step, Value
  <2> QED
    BY <1>6, <2>3 DEF Goes
<1> HIDE DEF Value
<1>9. Defines(f)
  <2>1. f = [k \in 0 .. N |-> f[k]]
    BY <1>7
  <2>2. ASSUME NEW k \in 0 .. N PROVE f[k] = IF k = 0 THEN base ELSE Value(f, k)
    <3>1. k = 0 \/ (k # 0 /\ k \in 1 .. N)
      BY <1>1
    <3> QED
      BY <1>7, <1>8, <3>1, Zenon
  <2> QED
    BY <2>1, <2>2
<1> DEFINE p == CHOOSE g : Defines(g)
<1>10. Defines(p)
  <2> HIDE DEF Defines
  <2> QED
    BY <1>9, Zenon
<1>11. Line(labels, data) = p[N]
  BY Zenon DEF Line, N, base, Value, point
<1>12. Draws(p, labels, data)
  <2> HIDE DEF p
  <2>1. p[0] = base
    BY <1>1, <1>10
  <2>2. ASSUME NEW k \in 1 .. N PROVE p[k] = Value(p, k)
    <3>1. k \in 0 .. N /\ k # 0
      BY <1>1
    <3> QED
      BY <1>10, <3>1
  <2> QED
    BY <2>1, <2>2 DEF Draws, base, N, Value, point
<1> HIDE DEF p
<1> QED
  BY <1>11, <1>12 DEF N

LEMMA LineEmpty == ASSUME NEW labels PROVE Line(labels, <<>>) = <<>>
<1> DEFINE data == <<>>
<1>1. Len(data) = 0
  OBVIOUS
<1> HIDE DEF data
<1>2. \E f : Draws(f, labels, data) /\ Line(labels, data) = f[Len(data)]
  BY <1>1, LineSteps
<1>3. Line(labels, data) = <<>>
  BY <1>1, <1>2 DEF Draws
<1> QED
  BY <1>3 DEF data

\* A datum is one more point, a gap none.
LEMMA LineAppend ==
  ASSUME NEW A, NEW labels \in Seq(A), NEW t \in A, NEW B, NEW data \in Seq(B), NEW x \in B,
         Len(labels) = Len(data)
  PROVE  Line(Append(labels, t), Append(data, x)) =
           IF x = Null THEN Line(labels, data)
           ELSE Append(Line(labels, data), [time |-> t, datum |-> x])
<1> DEFINE labels2 == Append(labels, t)
           data2 == Append(data, x)
           N == Len(data)
<1>1. /\ N \in Nat /\ Len(data2) = N + 1
      /\ \A k \in 1 .. N : labels2[k] = labels[k] /\ data2[k] = data[k]
      /\ labels2[N + 1] = t /\ data2[N + 1] = x
  BY Behind
<1> HIDE DEF labels2, data2
<1>2. PICK f : Draws(f, labels, data) /\ Line(labels, data) = f[N]
  BY <1>1, LineSteps
<1>3. Len(data2) \in Nat
  BY <1>1
<1>4. PICK g : Draws(g, labels2, data2) /\ Line(labels2, data2) = g[N + 1]
  BY <1>1, <1>3, LineSteps
<1> HIDE DEF N
<1>5. f[0] = g[0]
  BY <1>2, <1>4 DEF Draws
<1>6. ASSUME NEW k \in 1 .. N, f[k - 1] = g[k - 1] PROVE f[k] = g[k]
  <2>1. f[k] = IF data[k] = Null THEN f[k - 1] ELSE Append(f[k - 1], [time |-> labels[k], datum |-> data[k]])
    BY <1>2 DEF Draws, N
  <2>2. k \in 1 .. N + 1
    BY <1>1
  <2>3. g[k] = IF data2[k] = Null THEN g[k - 1] ELSE Append(g[k - 1], [time |-> labels2[k], datum |-> data2[k]])
    BY <1>1, <1>4, <2>2 DEF Draws
  <2> QED
    BY <1>1, <1>6, <2>1, <2>3
<1>7. f[N] = g[N]
  <2>1. Alike(f, g, N)
    BY <1>5, <1>6 DEF Alike
  <2>2. N \in Nat
    BY <1>1
  <2>3. \A k \in 0 .. N : f[k] = g[k]
    BY <2>1, <2>2, Determined
  <2>4. N \in 0 .. N
    BY <2>2
  <2> QED
    BY <2>3, <2>4
<1>8. g[N + 1] = IF x = Null THEN g[N] ELSE Append(g[N], [time |-> t, datum |-> x])
  <2>1. N + 1 \in 1 .. N + 1 /\ (N + 1) - 1 = N
    BY <1>1
  <2>2. g[N + 1] = IF data2[N + 1] = Null THEN g[(N + 1) - 1]
                   ELSE Append(g[(N + 1) - 1], [time |-> labels2[N + 1], datum |-> data2[N + 1]])
    BY <1>1, <1>4, <2>1 DEF Draws
  <2> QED
    BY <1>1, <2>1, <2>2
<1> QED
  BY <1>2, <1>4, <1>7, <1>8 DEF labels2, data2

LEMMA LineGap ==
  ASSUME NEW A, NEW labels \in Seq(A), NEW t \in A, NEW B, NEW data \in Seq(B), Null \in B,
         Len(labels) = Len(data)
  PROVE  Line(Append(labels, t), Append(data, Null)) = Line(labels, data)
<1>1. \A x \in B : Line(Append(labels, t), Append(data, x)) =
                     IF x = Null THEN Line(labels, data)
                     ELSE Append(Line(labels, data), [time |-> t, datum |-> x])
  BY LineAppend
<1> QED
  BY <1>1, Zenon

\* g is h with row r, of time t, up to line m of column n.
Part(message, h, g, C, M, r, t, n, m) ==
  /\ g \in HistoryOf(message, C, M) /\ ~ g.thrown
  /\ g.times = Append(h.times, t)
  /\ \A k \in 1 .. C, j \in 1 .. M :
       g.values[k][j] = IF k < n \/ (k = n /\ j <= m) THEN Append(h.values[k][j], Datum(r, k, j))
                                                      ELSE h.values[k][j]

LEMMA PartNext ==
  ASSUME NEW message, NEW h, NEW g, NEW C \in Nat, NEW M \in Nat, NEW r, NEW t,
         NEW n \in 1 .. C, Part(message, h, g, C, M, r, t, n, M)
  PROVE  Part(message, h, g, C, M, r, t, n + 1, 0)
<1>1. ASSUME NEW k \in 1 .. C, NEW j \in 1 .. M
      PROVE  (k < n \/ (k = n /\ j <= M)) <=> (k < n + 1 \/ (k = n + 1 /\ j <= 0))
  OBVIOUS
<1>2. ASSUME NEW k \in 1 .. C, NEW j \in 1 .. M
      PROVE  g.values[k][j] = IF k < n + 1 \/ (k = n + 1 /\ j <= 0)
                              THEN Append(h.values[k][j], Datum(r, k, j)) ELSE h.values[k][j]
  <2>1. g.values[k][j] = IF k < n \/ (k = n /\ j <= M)
                         THEN Append(h.values[k][j], Datum(r, k, j)) ELSE h.values[k][j]
    BY DEF Part
  <2> QED
    BY <1>1, <2>1
<1> QED
  BY <1>2 DEF Part

\* One more datum.
Put(g, n, m, pt, x) == [g EXCEPT !.pointer = pt, !.values[n][m] = Append(@, x)]

LEMMA PartDatum ==
  ASSUME NEW message, NEW h, NEW g, NEW C \in Nat, NEW M \in Nat, NEW r, NEW t,
         NEW n \in 1 .. C, NEW m \in 1 .. M, Part(message, h, g, C, M, r, t, n, m - 1),
         NEW pt \in Int, Datum(r, n, m) \in Data(message)
  PROVE  /\ Part(message, h, Put(g, n, m, pt, Datum(r, n, m)), C, M, r, t, n, m)
         /\ Put(g, n, m, pt, Datum(r, n, m)).pointer = pt
<1> DEFINE x == Datum(r, n, m)
           new == Put(g, n, m, pt, x)
           line == Append(g.values[n][m], x)
           values == [g.values EXCEPT ![n] = [g.values[n] EXCEPT ![m] = line]]
<1>1. g \in HistoryOf(message, C, M) /\ ~ g.thrown /\ g.times = Append(h.times, t)
  BY DEF Part
<1>2. g.values \in [1 .. C -> [1 .. M -> Seq(Data(message))]]
  BY <1>1 DEF HistoryOf
<1>3. new \in HistoryOf(message, C, M)
  <2> HIDE DEF x
  <2> QED
    BY <1>1, PutDatum DEF x, Put
<1>4. new = [g EXCEPT !.pointer = pt, !.values = values]
  <2> HIDE DEF x
  <2> QED
    BY DEF Put
<1>5. \A k \in 1 .. C, j \in 1 .. M : values[k][j] = IF k = n /\ j = m THEN line ELSE g.values[k][j]
  <2> HIDE DEF line
  <2> QED
    BY <1>2
<1> HIDE DEF values, new, line
<1>6. new.pointer = pt /\ new.values = values /\ new.times = g.times /\ new.thrown = g.thrown
  BY <1>1, <1>4 DEF HistoryOf
<1>7. ASSUME NEW k \in 1 .. C, NEW j \in 1 .. M
      PROVE  new.values[k][j] = IF k < n \/ (k = n /\ j <= m)
                                THEN Append(h.values[k][j], Datum(r, k, j)) ELSE h.values[k][j]
  <2>1. g.values[k][j] = IF k < n \/ (k = n /\ j <= m - 1)
                         THEN Append(h.values[k][j], Datum(r, k, j)) ELSE h.values[k][j]
    BY DEF Part
  <2> HIDE DEF x
  <2>2. CASE k = n /\ j = m
    <3>1. g.values[n][m] = h.values[n][m]
      BY <2>1, <2>2
    <3>2. new.values[k][j] = Append(h.values[n][m], x)
      BY <1>5, <1>6, <2>2, <3>1 DEF line
    <3>3. k < n \/ (k = n /\ j <= m)
      BY <2>2
    <3>4. Append(h.values[k][j], Datum(r, k, j)) = Append(h.values[n][m], x)
      BY <2>2, Zenon DEF x
    <3> QED
      BY <3>2, <3>3, <3>4, Zenon
  <2>3. CASE ~ (k = n /\ j = m)
    <3>1. (k < n \/ (k = n /\ j <= m - 1)) <=> (k < n \/ (k = n /\ j <= m))
      BY <2>3
    <3> QED
      BY <1>5, <1>6, <2>1, <2>3, <3>1
  <2> QED
    BY <2>2, <2>3
<1>8. Part(message, h, new, C, M, r, t, n, m)
  BY <1>1, <1>3, <1>6, <1>7 DEF Part
<1> QED
  BY <1>6, <1>8 DEF new, x

\* The bytes of line m of column n of row r.
Piece(layout, r, n, m, aggregate) ==
  Bytes(Datum(r, n, m), WrittenWidth(Column(layout, n), aggregate))

\* A message is read by the layout that it was written by.
Reading(layout, aggregate, message, C, M) ==
  /\ aggregate \in BOOLEAN /\ Understood(layout, aggregate)
  /\ IsSequence(message)
  /\ C \in Nat /\ C = ColumnCount(layout)
  /\ M \in Nat /\ M = Copies(aggregate)

\* The reader is at p.
At(message, h, g, C, M, r, t, n, m, p) ==
  Part(message, h, g, C, M, r, t, n, m) /\ p \in Nat /\ g.pointer = p

LEMMA DatumReads ==
  ASSUME NEW layout, NEW aggregate, NEW message, NEW C, NEW M, Reading(layout, aggregate, message, C, M),
         NEW h, NEW g, NEW r, NEW t, NEW n \in 1 .. C, NEW m \in 1 .. M, NEW k, k + 1 = m, k \in Nat,
         NEW p, At(message, h, g, C, M, r, t, n, k, p),
         Holds(message, p, Piece(layout, r, n, m, aggregate))
  PROVE  At(message, h, ReadDatum(layout, message, g, n, m), C, M, r, t, n, m,
            p + Len(Piece(layout, r, n, m, aggregate)))
<1>0. /\ aggregate \in BOOLEAN /\ Understood(layout, aggregate)
      /\ IsSequence(message)
      /\ C \in Nat /\ C = ColumnCount(layout) /\ M \in Nat
      /\ m - 1 = k /\ Part(message, h, g, C, M, r, t, n, m - 1) /\ p \in Nat /\ g.pointer = p
  <2>1. m - 1 = k
    OBVIOUS
  <2> QED
    BY <2>1 DEF Reading, At
<1> USE <1>0
<1> DEFINE v == Column(layout, n)
           x == Datum(r, n, m)
<1>1. /\ v.size \in Nat \ {0} /\ WrittenWidth(v, aggregate) = v.size
      /\ ~ PeekThrows(message, p, v.type, v.size)
      /\ Peek(message, p, v.type, v.size) = x
      /\ AfterGet(p, v.type, v.size) = p + v.size
  <2>1. n \in 1 .. ColumnCount(layout)
    OBVIOUS
  <2>2. Holds(message, p, Bytes(x, WrittenWidth(Column(layout, n), aggregate)))
    BY DEF Piece
  <2> HIDE DEF x
  <2> QED
    BY <2>1, <2>2, DatumRead
<1>2. Len(Piece(layout, r, n, m, aggregate)) = v.size
  BY <1>1, BytesLength DEF Piece
<1>3. ~ g.thrown
  BY DEF Part
<1> HIDE DEF v
<1>4. x \in Data(message)
  <2>1. \/ x = Garbage
        \/ x = Read(message, p, v.size)
    <3> HIDE DEF x
    <3> QED
      BY <1>1 DEF Peek
  <2> HIDE DEF x
  <2>2. p \in Int /\ v.size \in Nat
    BY <1>1
  <2> QED
    BY <2>1, <2>2 DEF Data
<1> DEFINE pt == p + v.size
<1>5. pt \in Int
  BY <1>1
<1>6. ReadDatum(layout, message, g, n, m) = Put(g, n, m, pt, x)
  <2> HIDE DEF x
  <2>1. ReadDatum(layout, message, g, n, m) =
          IF g.thrown \/ PeekThrows(message, g.pointer, v.type, v.size)
          THEN [g EXCEPT !.thrown = TRUE]
          ELSE Put(g, n, m, AfterGet(g.pointer, v.type, v.size), Peek(message, g.pointer, v.type, v.size))
    BY Zenon DEF ReadDatum, Put, v
  <2> QED
    BY <1>1, <1>3, <2>1
<1> HIDE DEF pt
<1>7. /\ Part(message, h, Put(g, n, m, pt, x), C, M, r, t, n, m)
      /\ Put(g, n, m, pt, x).pointer = pt
  BY <1>4, <1>5, PartDatum
<1> HIDE DEF x
<1>8. pt \in Nat
  BY <1>1 DEF pt
<1> QED
  BY <1>2, <1>6, <1>7, <1>8 DEF pt, At

LEMMA AggregateReads ==
  ASSUME NEW layout, NEW aggregate, NEW message, NEW C, NEW M, Reading(layout, aggregate, message, C, M),
         aggregate,
         NEW h, NEW g, NEW r, NEW t, NEW n \in 1 .. C, NEW m \in 1 .. M, NEW k, k + 1 = m, k \in Nat,
         NEW p, At(message, h, g, C, M, r, t, n, k, p),
         Holds(message, p, Piece(layout, r, n, m, aggregate))
  PROVE  At(message, h, ReadAggregate(layout, message, g, n, m), C, M, r, t, n, m,
            p + Len(Piece(layout, r, n, m, aggregate)))
<1>1. Len(layout) \in Nat /\ DOMAIN layout = 1 .. Len(layout)
  BY DEF Reading, Understood, Layout
<1>2. n \in DOMAIN layout
  BY <1>1 DEF Reading, ColumnCount
<1>3. layout[n].type # "bool"
  BY <1>2 DEF Reading, Understood
<1>4. ReadAggregate(layout, message, g, n, m) = ReadDatum(layout, message, g, n, m)
  BY <1>3 DEF ReadAggregate
<1> QED
  BY <1>4, DatumReads

\* The values of column n, as RawHistory or AggregateHistory reads them.
ReadValues(layout, message, g, n, aggregate) ==
  IF aggregate THEN ReadColumn(layout, message, g, n) ELSE ReadDatum(layout, message, g, n, 1)

\* The bytes of column n of row r are in the message, behind p.
LaidPieces(pos, layout, message, r, n, p, aggregate) ==
  /\ pos[0] = p
  /\ pos[Copies(aggregate)] = p + Len(WrittenColumn(layout, r, n, aggregate))
  /\ \A m \in 1 .. Copies(aggregate) :
       /\ pos[m - 1] \in Nat
       /\ pos[m] = pos[m - 1] + Len(Piece(layout, r, n, m, aggregate))
       /\ Holds(message, pos[m - 1], Piece(layout, r, n, m, aggregate))

LEMMA PiecesLaid ==
  ASSUME NEW layout, NEW aggregate, NEW message, NEW C, NEW M, Reading(layout, aggregate, message, C, M),
         NEW n \in 1 .. C, NEW r, NEW p \in Nat, Holds(message, p, WrittenColumn(layout, r, n, aggregate))
  PROVE  \E pos : LaidPieces(pos, layout, message, r, n, p, aggregate)
<1>0. /\ aggregate \in BOOLEAN /\ Understood(layout, aggregate) /\ IsSequence(message)
      /\ n \in 1 .. ColumnCount(layout)
  BY DEF Reading
<1> DEFINE N == Copies(aggregate)
           seqs == [m \in 1 .. N |-> Piece(layout, r, n, m, aggregate)]
<1>1. N \in Nat
  BY DEF Copies, aggregates_per_value
<1>2. WrittenColumn(layout, r, n, aggregate) = FlattenSeq(seqs)
  BY DEF WrittenColumn, Piece
<1>3. \A m \in 1 .. N : IsSequence(seqs[m])
  <2>1. WrittenWidth(Column(layout, n), aggregate) \in Nat
    BY <1>0, LayoutColumns DEF Understood, WrittenWidth
  <2> QED
    BY <2>1, BytesSequence DEF Piece
<1>4. Pieces(seqs, N)
  BY <1>3 DEF Pieces
<1>5. \A m \in 1 .. N : seqs[m] = Piece(layout, r, n, m, aggregate)
  OBVIOUS
<1> HIDE DEF seqs, N
<1>6. Holds(message, p, FlattenSeq(seqs))
  BY <1>2
<1>7. PICK pos : Laid(message, seqs, pos, p, N) /\ pos[N] = p + Len(FlattenSeq(seqs))
  BY <1>0, <1>1, <1>4, <1>6, PartsLaid
<1>8. pos[0] = p /\ pos[N] = p + Len(WrittenColumn(layout, r, n, aggregate))
  BY <1>2, <1>7 DEF Laid
<1>9. ASSUME NEW m \in 1 .. N
      PROVE  /\ pos[m - 1] \in Nat
             /\ pos[m] = pos[m - 1] + Len(Piece(layout, r, n, m, aggregate))
             /\ Holds(message, pos[m - 1], Piece(layout, r, n, m, aggregate))
  <2>1. m - 1 \in 0 .. N
    BY <1>1
  <2> QED
    BY <1>5, <1>7, <2>1 DEF Laid
<1> QED
  BY <1>8, <1>9 DEF N, LaidPieces

LEMMA ColumnReads ==
  ASSUME NEW layout, NEW aggregate, NEW message, NEW C, NEW M, Reading(layout, aggregate, message, C, M),
         aggregate, NEW h, NEW g, NEW r, NEW t, NEW n \in 1 .. C, NEW p,
         At(message, h, g, C, M, r, t, n, 0, p), Holds(message, p, WrittenColumn(layout, r, n, aggregate))
  PROVE  At(message, h, ReadColumn(layout, message, g, n), C, M, r, t, n + 1, 0,
            p + Len(WrittenColumn(layout, r, n, aggregate)))
<1> DEFINE piece(m) == Piece(layout, r, n, m, aggregate)
           width == Len(WrittenColumn(layout, r, n, aggregate))
<1>0. M \in Nat /\ Copies(aggregate) = M /\ M = aggregates_per_value
  BY DEF Reading, aggregates_per_value, Copies
<1>1. PICK pos : /\ pos[0] = p /\ pos[M] = p + width
                 /\ \A m \in 1 .. M : /\ pos[m - 1] \in Nat
                                      /\ pos[m] = pos[m - 1] + Len(piece(m))
                                      /\ Holds(message, pos[m - 1], piece(m))
  <2>1. p \in Nat
    BY DEF At
  <2>2. PICK pos : LaidPieces(pos, layout, message, r, n, p, aggregate)
    BY <2>1, PiecesLaid
  <2> QED
    BY <1>0, <2>2 DEF LaidPieces
<1>2. layout \in Layout /\ C \in Nat /\ C = ColumnCount(layout) /\ g \in HistoryOf(message, C, aggregates_per_value)
  BY <1>0 DEF Reading, Understood, At, Part
<1>3. PICK f : ReadsColumn(f, layout, message, g, n) /\ ReadColumn(layout, message, g, n) = f[aggregates_per_value]
  BY <1>2, ColumnSteps
<1>4. /\ f[0] = g /\ \A m \in 1 .. M : f[m] = ReadAggregate(layout, message, f[m - 1], n, m)
      /\ ReadColumn(layout, message, g, n) = f[M]
  BY <1>0, <1>3 DEF ReadsColumn
<1> HIDE DEF piece, width
<1> DEFINE Good == {k \in Nat : k <= M => At(message, h, f[k], C, M, r, t, n, k, pos[k])}
<1>6. 0 \in Good
  BY <1>1, <1>4
<1>7. ASSUME NEW k \in Nat, k \in Good PROVE k + 1 \in Good
  <2> DEFINE m == k + 1
  <2> SUFFICES ASSUME m <= M
               PROVE  At(message, h, f[m], C, M, r, t, n, m, pos[m])
    OBVIOUS
  <2>1. m \in 1 .. M /\ m - 1 = k /\ k <= M
    BY <1>0
  <2>2. At(message, h, f[k], C, M, r, t, n, k, pos[k])
    BY <1>7, <2>1
  <2>3. k + 1 = m
    OBVIOUS
  <2> HIDE DEF m
  <2>4. f[m] = ReadAggregate(layout, message, f[k], n, m)
    BY <1>4, <2>1
  <2>5. pos[m] = pos[k] + Len(Piece(layout, r, n, m, aggregate))
        /\ Holds(message, pos[k], Piece(layout, r, n, m, aggregate))
    BY <1>1, <2>1 DEF piece
  <2>6. At(message, h, ReadAggregate(layout, message, f[k], n, m), C, M, r, t, n, m,
           pos[k] + Len(Piece(layout, r, n, m, aggregate)))
    BY <2>1, <2>2, <2>3, <2>5, AggregateReads
  <2> QED
    BY <2>4, <2>5, <2>6
<1>8. \A k \in Nat : k \in Good
  <2> HIDE DEF Good
  <2> QED
    BY <1>6, <1>7, Induction
<1>9. At(message, h, f[M], C, M, r, t, n, M, pos[M])
  BY <1>0, <1>8
<1>10. At(message, h, f[M], C, M, r, t, n + 1, 0, pos[M])
  BY <1>9, PartNext DEF At, Reading
<1> QED
  BY <1>1, <1>4, <1>10 DEF width

LEMMA ValuesRead ==
  ASSUME NEW layout, NEW aggregate, NEW message, NEW C, NEW M, Reading(layout, aggregate, message, C, M),
         NEW h, NEW g, NEW r, NEW t, NEW n \in 1 .. C, NEW p,
         At(message, h, g, C, M, r, t, n, 0, p), Holds(message, p, WrittenColumn(layout, r, n, aggregate))
  PROVE  At(message, h, ReadValues(layout, message, g, n, aggregate), C, M, r, t, n + 1, 0,
            p + Len(WrittenColumn(layout, r, n, aggregate)))
<1>1. CASE aggregate
  <2>1. ReadValues(layout, message, g, n, aggregate) = ReadColumn(layout, message, g, n)
    BY <1>1 DEF ReadValues
  <2> QED
    BY <1>1, <2>1, ColumnReads
<1>2. CASE ~ aggregate
  <2>1. Copies(aggregate) = 1 /\ M = 1
    BY <1>2 DEF Reading, Copies
  <2>2. ReadValues(layout, message, g, n, aggregate) = ReadDatum(layout, message, g, n, 1)
    BY <1>2 DEF ReadValues
  <2>3. p \in Nat
    BY DEF At
  <2>4. PICK pos : LaidPieces(pos, layout, message, r, n, p, aggregate)
    BY <2>3, PiecesLaid
  <2> DEFINE m == 1
             k == 0
  <2>5. m \in 1 .. M /\ k + 1 = m /\ k \in Nat /\ m - 1 = k
    BY <2>1
  <2> HIDE DEF m, k
  <2>6. /\ pos[m] = p + Len(Piece(layout, r, n, m, aggregate))
        /\ pos[m] = p + Len(WrittenColumn(layout, r, n, aggregate))
        /\ Holds(message, p, Piece(layout, r, n, m, aggregate))
    <3>1. pos[k] = p /\ pos[m] = p + Len(WrittenColumn(layout, r, n, aggregate))
      BY <2>1, <2>4 DEF LaidPieces, m, k
    <3>2. /\ pos[m] = pos[m - 1] + Len(Piece(layout, r, n, m, aggregate))
          /\ Holds(message, pos[m - 1], Piece(layout, r, n, m, aggregate))
      BY <2>1, <2>4, <2>5 DEF LaidPieces
    <3> QED
      BY <2>5, <3>1, <3>2
  <2>7. At(message, h, g, C, M, r, t, n, k, p)
    BY DEF k
  <2>8. At(message, h, ReadDatum(layout, message, g, n, m), C, M, r, t, n, m, p + Len(Piece(layout, r, n, m, aggregate)))
    BY <2>5, <2>6, <2>7, DatumReads
  <2>9. At(message, h, ReadDatum(layout, message, g, n, m), C, M, r, t, n, M, pos[m])
    BY <2>1, <2>6, <2>8 DEF m
  <2>10. At(message, h, ReadDatum(layout, message, g, n, m), C, M, r, t, n + 1, 0, pos[m])
    BY <2>9, PartNext DEF At, Reading
  <2> QED
    BY <2>2, <2>6, <2>10 DEF m
<1> QED
  BY <1>1, <1>2

\* The columns of an entry, one behind the other.
Columns(layout, r, aggregate) ==
  FlattenSeq([n \in 1 .. ColumnCount(layout) |-> WrittenColumn(layout, r, n, aggregate)])

LEMMA ColumnSequence ==
  ASSUME NEW layout, NEW aggregate, NEW message, NEW C, NEW M, Reading(layout, aggregate, message, C, M),
         NEW n \in 1 .. C, NEW r
  PROVE  IsSequence(WrittenColumn(layout, r, n, aggregate))
<1> DEFINE N == Copies(aggregate)
           seqs == [m \in 1 .. N |-> Piece(layout, r, n, m, aggregate)]
<1>1. N \in Nat
  BY DEF Copies, aggregates_per_value
<1>2. WrittenColumn(layout, r, n, aggregate) = FlattenSeq(seqs)
  BY DEF WrittenColumn, Piece
<1>3. \A m \in 1 .. N : IsSequence(seqs[m])
  <2>1. WrittenWidth(Column(layout, n), aggregate) \in Nat
    BY LayoutColumns DEF Reading, Understood, WrittenWidth
  <2> QED
    BY <2>1, BytesSequence DEF Piece
<1>4. DOMAIN seqs = 1 .. N /\ seqs = [m \in 1 .. N |-> seqs[m]]
  OBVIOUS
<1> HIDE DEF seqs, N
<1> QED
  BY <1>1, <1>2, <1>3, <1>4, FlattenedSequence

LaidColumns(pos, layout, message, r, p, C, aggregate) ==
  /\ pos[0] = p /\ pos \in [0 .. C -> Nat]
  /\ pos[C] = p + Len(Columns(layout, r, aggregate))
  /\ \A n \in 1 .. C : /\ pos[n] = pos[n - 1] + Len(WrittenColumn(layout, r, n, aggregate))
                       /\ Holds(message, pos[n - 1], WrittenColumn(layout, r, n, aggregate))

LEMMA ColumnsLaid ==
  ASSUME NEW layout, NEW aggregate, NEW message, NEW C, NEW M, Reading(layout, aggregate, message, C, M),
         NEW r
  PROVE  /\ IsSequence(Columns(layout, r, aggregate))
         /\ \A p \in Nat : Holds(message, p, Columns(layout, r, aggregate)) =>
              \E pos : LaidColumns(pos, layout, message, r, p, C, aggregate)
<1> DEFINE seqs == [n \in 1 .. C |-> WrittenColumn(layout, r, n, aggregate)]
<1>1. Columns(layout, r, aggregate) = FlattenSeq(seqs)
  BY DEF Columns, Reading
<1>2. \A n \in 1 .. C : IsSequence(seqs[n])
  BY ColumnSequence
<1>3. Pieces(seqs, C)
  BY <1>2 DEF Pieces
<1>4. \A n \in 1 .. C : seqs[n] = WrittenColumn(layout, r, n, aggregate)
  OBVIOUS
<1>5. C \in Nat /\ IsSequence(message)
  BY DEF Reading
<1> HIDE DEF seqs
<1>6. ASSUME NEW p \in Nat, Holds(message, p, Columns(layout, r, aggregate))
      PROVE  \E pos : LaidColumns(pos, layout, message, r, p, C, aggregate)
  <2>1. Holds(message, p, FlattenSeq(seqs))
    BY <1>1, <1>6
  <2>2. PICK pos : Laid(message, seqs, pos, p, C) /\ pos[C] = p + Len(FlattenSeq(seqs))
    BY <1>3, <1>5, <2>1, PartsLaid
  <2>3. LaidColumns(pos, layout, message, r, p, C, aggregate)
    BY <1>1, <1>4, <2>2 DEF Laid, LaidColumns
  <2> QED
    BY <2>3
<1>7. IsSequence(Columns(layout, r, aggregate))
  BY <1>1, <1>3, <1>5, FlattenedSequence DEF Pieces
<1> QED
  BY <1>6, <1>7

LEMMA ColumnsRead ==
  ASSUME NEW layout, NEW aggregate, NEW message, NEW C, NEW M, Reading(layout, aggregate, message, C, M),
         NEW h, NEW f, NEW r, NEW t, NEW p, At(message, h, f[0], C, M, r, t, 1, 0, p),
         \A n \in 1 .. C : f[n] = ReadValues(layout, message, f[n - 1], n, aggregate),
         Holds(message, p, Columns(layout, r, aggregate))
  PROVE  At(message, h, f[C], C, M, r, t, C + 1, 0, p + Len(Columns(layout, r, aggregate)))
<1> DEFINE column(n) == WrittenColumn(layout, r, n, aggregate)
<1>5. p \in Nat /\ C \in Nat
  BY DEF At, Reading
<1>6. PICK pos : LaidColumns(pos, layout, message, r, p, C, aggregate)
  BY <1>5, ColumnsLaid
<1>7. /\ pos[0] = p /\ pos \in [0 .. C -> Nat]
      /\ pos[C] = p + Len(Columns(layout, r, aggregate))
      /\ \A n \in 1 .. C : pos[n] = pos[n - 1] + Len(column(n)) /\ Holds(message, pos[n - 1], column(n))
  BY <1>6 DEF LaidColumns
<1> DEFINE Good == {k \in Nat : k <= C => At(message, h, f[k], C, M, r, t, k + 1, 0, pos[k])}
<1>8. 0 \in Good
  <2>1. 0 + 1 = 1
    OBVIOUS
  <2> QED
    BY <1>7, <2>1
<1>9. ASSUME NEW k \in Nat, k \in Good PROVE k + 1 \in Good
  <2> DEFINE n == k + 1
  <2> SUFFICES ASSUME n <= C PROVE At(message, h, f[n], C, M, r, t, n + 1, 0, pos[n])
    OBVIOUS
  <2>1. n \in 1 .. C /\ n - 1 = k /\ k <= C
    BY <1>5
  <2>2. At(message, h, f[k], C, M, r, t, n, 0, pos[k])
    BY <1>9, <2>1
  <2> HIDE DEF n
  <2>3. f[n] = ReadValues(layout, message, f[k], n, aggregate)
    BY <2>1
  <2>4. pos[n] = pos[k] + Len(column(n)) /\ Holds(message, pos[k], column(n))
    BY <1>7, <2>1
  <2>5. At(message, h, ReadValues(layout, message, f[k], n, aggregate), C, M, r, t, n + 1, 0,
           pos[k] + Len(column(n)))
    BY <2>1, <2>2, <2>4, ValuesRead
  <2> QED
    BY <2>3, <2>4, <2>5
<1>10. \A k \in Nat : k \in Good
  <2> HIDE DEF Good
  <2> QED
    BY <1>8, <1>9, Induction
<1>11. At(message, h, f[C], C, M, r, t, C + 1, 0, pos[C])
  BY <1>5, <1>10
<1> QED
  BY <1>7, <1>11

LEMMA TimeReads ==
  ASSUME NEW layout, NEW aggregate, NEW message, NEW C, NEW M, Reading(layout, aggregate, message, C, M),
         NEW h \in HistoryOf(message, C, M), ~ h.thrown, NEW p \in Nat, h.pointer = p,
         NEW skip \in Nat, NEW t \in Int64, Holds(message, p + skip, Long(t)), NEW r
  PROVE  At(message, h, ReadTime(message, h, skip), C, M, r, t, 1, 0, (p + skip) + 8)
<1> DEFINE g == ReadTime(message, h, skip)
           q == p + skip
<1>1. C \in Nat /\ M \in Nat /\ IsSequence(message)
  BY DEF Reading
<1>2. q \in Nat /\ h.pointer + skip = q /\ q + 8 \in Nat
  OBVIOUS
<1> HIDE DEF q
<1>3. InBuffer(message, q, 8) /\ ReadInt64(message, q) = t
  <2>1. Holds(message, q, Long(t))
    BY DEF q
  <2> QED
    BY <1>1, <1>2, <2>1, LongRead
<1>4. g = [h EXCEPT !.times = Append(@, t), !.pointer = @ + skip + 8]
  BY <1>2, <1>3 DEF ReadTime
<1>5. g \in HistoryOf(message, C, M)
  BY <1>1, ReadTimeStep
<1>6. /\ g.times = Append(h.times, t) /\ g.values = h.values /\ g.thrown = h.thrown
      /\ g.pointer = h.pointer + skip + 8
  <2>1. /\ h = [h EXCEPT !.pointer = h.pointer]
        /\ DOMAIN h = {"pointer", "thrown", "times", "values"}
    BY DEF HistoryOf
  <2> HIDE DEF g
  <2> QED
    BY <1>4, <2>1
<1>7. g.pointer = q + 8
  BY <1>2, <1>6
<1> HIDE DEF g
<1>8. \A k \in 1 .. C, j \in 1 .. M : ~ (k < 1 \/ (k = 1 /\ j <= 0))
  OBVIOUS
<1>9. Part(message, h, g, C, M, r, t, 1, 0)
  BY <1>5, <1>6, <1>8 DEF Part
<1> QED
  BY <1>2, <1>7, <1>9 DEF At, g, q

\* The parts of an entry.
Flag(row, aggregate) == IF aggregate THEN <<>> ELSE Bytes(<<"flag", row.end_of_epoch>>, 1)

Skipped(aggregate) == IF aggregate THEN 0 ELSE 1

LEMMA EntryParts ==
  ASSUME NEW layout, NEW aggregate, NEW message, NEW C, NEW M, Reading(layout, aggregate, message, C, M),
         NEW row, NEW r, NEW p \in Nat, Holds(message, p, Entry(layout, row, r, aggregate)),
         row.time \in Int64
  PROVE  /\ Skipped(aggregate) \in Nat
         /\ Holds(message, p, Flag(row, aggregate))
         /\ Holds(message, p + Skipped(aggregate), Long(row.time))
         /\ Holds(message, (p + Skipped(aggregate)) + 8, Columns(layout, r, aggregate))
         /\ p + Len(Entry(layout, row, r, aggregate))
              = ((p + Skipped(aggregate)) + 8) + Len(Columns(layout, r, aggregate))
         /\ Len(Entry(layout, row, r, aggregate)) \in Nat
         /\ Len(Entry(layout, row, r, aggregate)) >= 8
<1> DEFINE flag == Flag(row, aggregate)
           skip == Skipped(aggregate)
           time == Long(row.time)
           columns == Columns(layout, r, aggregate)
           head == flag \o time
<1>1. Entry(layout, row, r, aggregate) = head \o columns
  BY Zenon DEF Entry, Flag, Columns
<1>2. /\ IsSequence(message) /\ Len(message) \in Nat
  BY DEF Reading, IsSequence
<1>3. IsSequence(flag) /\ Len(flag) = skip /\ skip \in Nat
  <2>1. CASE aggregate
    <3>1. flag = <<>> /\ skip = 0
      BY <2>1 DEF Flag, Skipped
    <3>2. <<>> \in Seq({}) /\ Len(<<>>) = 0
      OBVIOUS
    <3> QED
      BY <3>1, <3>2 DEF IsSequence
  <2>2. CASE ~ aggregate
    <3> DEFINE b == <<"flag", row.end_of_epoch>>
    <3>1. flag = Bytes(b, 1) /\ skip = 1
      BY <2>2 DEF Flag, Skipped
    <3> HIDE DEF b, flag, skip
    <3>2. Len(Bytes(b, 1)) = 1 /\ IsSequence(Bytes(b, 1))
      BY BytesLength, BytesSequence
    <3> QED
      BY <3>1, <3>2
  <2> QED
    BY <2>1, <2>2
<1>4. IsSequence(time)
  BY BytesSequence, Joined DEF Long
<1>5. IsSequence(columns)
  BY ColumnsLaid
<1> HIDE DEF flag, skip, time, columns
<1>6. IsSequence(head)
  BY <1>3, <1>4, Joined
<1>7. Holds(message, p, head \o columns)
  BY <1>1
<1> HIDE DEF head
<1>8. /\ Holds(message, p, head) /\ Holds(message, p + Len(head), columns)
      /\ Len(head) \in Nat /\ Len(columns) \in Nat /\ Len(head \o columns) = Len(head) + Len(columns)
  BY <1>2, <1>5, <1>6, <1>7, HoldsJoined
<1>9. /\ Holds(message, p, flag) /\ Holds(message, p + Len(flag), time)
      /\ Len(time) \in Nat /\ Len(head) = Len(flag) + Len(time)
  BY <1>2, <1>3, <1>4, <1>8, HoldsJoined DEF head
<1>10. Len(time) = 8
  <2>1. p + Len(flag) \in Nat
    BY <1>3
  <2>2. Holds(message, p + Len(flag), Long(row.time))
    BY <1>9 DEF time
  <2> QED
    BY <1>2, <2>1, <2>2, LongRead DEF time
<1>11. p + Len(head) = (p + skip) + 8 /\ p + (Len(head) + Len(columns)) = ((p + skip) + 8) + Len(columns)
       /\ Len(head) + Len(columns) \in Nat /\ Len(head) + Len(columns) >= 8
  BY <1>3, <1>8, <1>9, <1>10
<1> QED
  BY <1>1, <1>3, <1>8, <1>9, <1>11 DEF flag, skip, time, columns

\* An entry is read as it was written.
LEMMA EntryReads ==
  ASSUME NEW layout, NEW aggregate, NEW message, NEW C, NEW M, Reading(layout, aggregate, message, C, M),
         NEW h \in HistoryOf(message, C, M), ~ h.thrown, NEW p \in Nat, h.pointer = p,
         NEW row, NEW r, Holds(message, p, Entry(layout, row, r, aggregate)),
         row.time \in Int64, row.end_of_epoch \in BOOLEAN, NEW odd
  PROVE  \E g : /\ At(message, h, g, C, M, r, row.time, C + 1, 0,
                      p + Len(Entry(layout, row, r, aggregate)))
                /\ ReadEntry(layout, message, h, aggregate, odd) =
                     IF ~ aggregate /\ row.end_of_epoch THEN startNewEpoch(g) ELSE g
<1> DEFINE skip == Skipped(aggregate)
           q == (p + skip) + 8
           t == row.time
           columns == Columns(layout, r, aggregate)
<1>1. /\ skip \in Nat /\ Holds(message, p, Flag(row, aggregate))
      /\ Holds(message, p + skip, Long(t)) /\ Holds(message, q, columns)
      /\ p + Len(Entry(layout, row, r, aggregate)) = q + Len(columns)
  BY EntryParts
<1> HIDE DEF skip
<1>2. At(message, h, ReadTime(message, h, skip), C, M, r, t, 1, 0, q)
  BY <1>1, TimeReads
<1> HIDE DEF q, columns, t
<1>3. /\ C \in Nat /\ C = ColumnCount(layout) /\ layout \in Layout /\ M = Copies(aggregate)
      /\ aggregate \in BOOLEAN /\ IsSequence(message)
  BY DEF Reading, Understood
<1>4. ASSUME NEW f, f[0] = ReadTime(message, h, skip),
             \A n \in 1 .. C : f[n] = ReadValues(layout, message, f[n - 1], n, aggregate)
      PROVE  At(message, h, f[C], C, M, r, t, C + 1, 0, p + Len(Entry(layout, row, r, aggregate)))
  <2>1. At(message, h, f[0], C, M, r, t, 1, 0, q)
    BY <1>2, <1>4
  <2>2. Holds(message, q, Columns(layout, r, aggregate))
    BY <1>1 DEF columns
  <2>3. At(message, h, f[C], C, M, r, t, C + 1, 0, q + Len(Columns(layout, r, aggregate)))
    BY <1>4, <2>1, <2>2, ColumnsRead
  <2> QED
    BY <1>1, <2>3 DEF columns
<1>5. CASE aggregate
  <2>1. skip = 0 /\ h \in HistoryOf(message, C, aggregates_per_value)
    BY <1>3, <1>5 DEF skip, Skipped, Copies
  <2>2. PICK f : ReadsAggregateEntry(f, layout, message, h)
                 /\ ReadAggregateEntry(layout, message, h) = f[ColumnCount(layout)]
    BY <1>3, <2>1, AggregateEntrySteps
  <2>3. f[0] = ReadTime(message, h, skip)
    BY <2>1, <2>2 DEF ReadsAggregateEntry
  <2>4. \A n \in 1 .. C : f[n] = ReadValues(layout, message, f[n - 1], n, aggregate)
    BY <1>3, <1>5, <2>2 DEF ReadsAggregateEntry, ReadValues
  <2>5. ReadEntry(layout, message, h, aggregate, odd) = f[C]
    BY <1>3, <1>5, <2>2 DEF ReadEntry
  <2> QED
    BY <1>4, <1>5, <2>3, <2>4, <2>5 DEF t
<1>6. CASE ~ aggregate
  <2>1. skip = 1 /\ h \in HistoryOf(message, C, 1)
    BY <1>3, <1>6 DEF skip, Skipped, Copies
  <2>2. PICK f : ReadsRow(f, layout, message, h) /\ ReadRow(layout, message, h) = f[ColumnCount(layout)]
    BY <1>3, <2>1, RowSteps
  <2>3. f[0] = ReadTime(message, h, skip)
    BY <2>1, <2>2 DEF ReadsRow
  <2>4. \A n \in 1 .. C : f[n] = ReadValues(layout, message, f[n - 1], n, aggregate)
    BY <1>3, <1>6, <2>2 DEF ReadsRow, ReadValues
  <2>5. At(message, h, f[C], C, M, r, t, C + 1, 0, p + Len(Entry(layout, row, r, aggregate)))
    BY <1>4, <2>3, <2>4
  <2>6. ~ f[C].thrown
    BY <2>5 DEF At, Part
  <2>7. EndOfEpoch(message, h.pointer, odd) = row.end_of_epoch
    <3> DEFINE b == row.end_of_epoch
    <3> HIDE DEF b
    <3>1. Holds(message, p, Bytes(<<"flag", b>>, 1)) /\ b \in BOOLEAN
      BY <1>1, <1>6 DEF Flag, b
    <3>2. EndOfEpoch(message, p, odd) = b
      BY <1>3, <3>1, FlagRead
    <3> QED
      BY <3>2 DEF b
  <2>8. ReadEntry(layout, message, h, aggregate, odd) =
          IF row.end_of_epoch THEN startNewEpoch(f[C]) ELSE f[C]
    <3> DEFINE g == ReadRow(layout, message, h)
    <3>1. ReadEntry(layout, message, h, aggregate, odd) =
            IF ~ g.thrown /\ EndOfEpoch(message, h.pointer, odd) THEN startNewEpoch(g) ELSE g
      BY <1>6, Zenon DEF ReadEntry, ReadRawEntry
    <3>2. g = f[C]
      BY <1>3, <2>2
    <3> HIDE DEF g
    <3> QED
      BY <2>6, <2>7, <3>1, <3>2, Zenon
  <2> QED
    BY <1>6, <2>5, <2>8 DEF t
<1> QED
  BY <1>3, <1>5, <1>6

\* A line is interrupted behind this datum.
Gap(data, d) == \E k \in DOMAIN data : k > 1 /\ data[k] = Null /\ data[k - 1] = d

LEMMA GapAppend ==
  ASSUME NEW B, NEW data \in Seq(B), NEW x \in B, NEW d
  PROVE  Gap(Append(data, x), d) <=> Gap(data, d) \/ (x = Null /\ data # <<>> /\ data[Len(data)] = d)
<1> DEFINE more == Append(data, x)
           N == Len(data)
<1>1. /\ N \in Nat /\ DOMAIN data = 1 .. N /\ DOMAIN more = 1 .. N + 1
      /\ \A k \in 1 .. N : more[k] = data[k]
      /\ more[N + 1] = x /\ (data # <<>> <=> N > 0)
  BY Behind
<1> HIDE DEF more, N
<1>2. ASSUME Gap(more, d) PROVE Gap(data, d) \/ (x = Null /\ data # <<>> /\ data[N] = d)
  <2>1. PICK k \in 1 .. N + 1 : k > 1 /\ more[k] = Null /\ more[k - 1] = d
    BY <1>1, <1>2 DEF Gap
  <2>2. k - 1 \in 1 .. N /\ more[k - 1] = data[k - 1]
    BY <1>1, <2>1
  <2>3. CASE k = N + 1
    <3>1. k - 1 = N
      BY <1>1, <2>3
    <3> QED
      BY <1>1, <2>1, <2>2, <2>3, <3>1
  <2>4. CASE k # N + 1
    <3>1. k \in 1 .. N
      BY <1>1, <2>4
    <3> QED
      BY <1>1, <2>1, <2>2, <3>1 DEF Gap
  <2> QED
    BY <2>3, <2>4
<1>3. ASSUME Gap(data, d) PROVE Gap(more, d)
  <2>1. PICK k \in 1 .. N : k > 1 /\ data[k] = Null /\ data[k - 1] = d
    BY <1>1, <1>3 DEF Gap
  <2>2. k - 1 \in 1 .. N /\ k \in 1 .. N + 1 /\ more[k] = data[k]
    BY <1>1, <2>1
  <2>3. more[k - 1] = data[k - 1]
    BY <1>1, <2>2
  <2> QED
    BY <1>1, <2>1, <2>2, <2>3 DEF Gap
<1>4. ASSUME x = Null, data # <<>>, data[N] = d PROVE Gap(more, d)
  <2>1. N \in 1 .. N /\ N + 1 \in 1 .. N + 1 /\ N + 1 > 1 /\ (N + 1) - 1 = N
    BY <1>1, <1>4
  <2>2. more[(N + 1) - 1] = d /\ more[N + 1] = Null
    BY <1>1, <1>4, <2>1
  <2> QED
    BY <1>1, <2>1, <2>2 DEF Gap
<1> QED
  BY <1>2, <1>3, <1>4, Zenon DEF more, N

LEMMA DatumOf ==
  ASSUME NEW r \in Int, NEW n \in Int, NEW m \in Int
  PROVE  /\ Datum(r, n, m) # Null
         /\ \A s \in Int : Datum(s, n, m) = Datum(r, n, m) <=> s = r
<1>1. Datum(r, n, m) # Null
  <2> DEFINE S == {"datum"} \cup Int
             d == <<"datum", r, n, m>>
  <2>1. "datum" \in S /\ r \in S /\ n \in S /\ m \in S
    OBVIOUS
  <2> HIDE DEF S
  <2>2. d \in Seq(S)
    BY <2>1
  <2> HIDE DEF d
  <2>3. d # Null
    BY <2>2, HistoryMessageAssumption DEF S
  <2> QED
    BY <2>3 DEF d, Datum
<1>2. \A s \in Int : Datum(s, n, m) = Datum(r, n, m) <=> s = r
  BY DEF Datum
<1> QED
  BY <1>1, <1>2

\* The row is the last of its epoch, and the reader is told.
Ends(rows, r, aggregate) == ~ aggregate /\ rows[r].end_of_epoch

\* Line m of column n shows the first i rows.
Point(rows, r, n, m) == [time |-> rows[r].time, datum |-> Datum(r, n, m)]

LineShows(times, data, rows, i, n, m, aggregate) ==
  /\ Line(times, data) = [r \in 1 .. i |-> Point(rows, r, n, m)]
  /\ \A r \in DOMAIN rows :
       Gap(data, Datum(r, n, m)) <=> r \in 1 .. i /\ Ends(rows, r, aggregate)

LEMMA LineGrows ==
  ASSUME NEW rows \in Rows, NEW i \in Nat, NEW j \in DOMAIN rows, j = i + 1,
         NEW n \in Int, NEW m \in Int, NEW aggregate, NEW times, IsSequence(times),
         NEW data, IsSequence(data), Len(times) = Len(data),
         LineShows(times, data, rows, i, n, m, aggregate), NEW u
  PROVE  /\ ~ Ends(rows, j, aggregate) =>
              LineShows(Append(times, rows[j].time), Append(data, Datum(j, n, m)),
                        rows, j, n, m, aggregate)
         /\ Ends(rows, j, aggregate) =>
              LineShows(Append(Append(times, rows[j].time), u), Append(Append(data, Datum(j, n, m)), Null),
                        rows, j, n, m, aggregate)
<1> DEFINE t == rows[j].time
           x == Datum(j, n, m)
           times1 == Append(times, t)
           data1 == Append(data, x)
           times2 == Append(times1, u)
           data2 == Append(data1, Null)
<1>1. PICK T : times \in Seq(T)
  BY DEF IsSequence
<1>2. PICK D : data \in Seq(D)
  BY DEF IsSequence
<1> DEFINE A == T \cup {t, u}
           B == D \cup {x, Null}
<1>3. times \in Seq(A) /\ data \in Seq(B) /\ t \in A /\ u \in A /\ x \in B /\ Null \in B
  <2> HIDE DEF t, x
  <2> QED
    BY <1>1, <1>2
<1> HIDE DEF A, B
<1>4. DOMAIN rows = 1 .. Len(rows) /\ Len(rows) \in Nat
  BY DEF Rows
<1>5. x # Null /\ \A r \in DOMAIN rows : Datum(r, n, m) = x <=> r = j
  BY <1>4, DatumOf
<1>6. Point(rows, j, n, m) = [time |-> t, datum |-> x]
  BY DEF Point
<1> HIDE DEF t, x
<1>7. /\ times1 \in Seq(A) /\ data1 \in Seq(B) /\ Len(times1) = Len(data1)
      /\ data1 # <<>> /\ data1[Len(data1)] = x
  BY <1>3, Behind
<1>8. Line(times1, data1) = [r \in 1 .. j |-> Point(rows, r, n, m)]
  <2>1. Line(times1, data1) = Append(Line(times, data), [time |-> t, datum |-> x])
    BY <1>3, <1>5, LineAppend
  <2> DEFINE points == [r \in 1 .. i |-> Point(rows, r, n, m)]
             S == {Point(rows, r, n, m) : r \in 1 .. j}
  <2>2. points \in [1 .. i -> S]
    <3>1. \A r \in 1 .. i : r \in 1 .. j
      OBVIOUS
    <3> QED
      BY <3>1
  <2>3. Point(rows, j, n, m) \in S
    OBVIOUS
  <2> HIDE DEF S
  <2>4. points \in Seq(S) /\ Len(points) = i
    BY <2>2
  <2>5. \A r \in 1 .. i : points[r] = Point(rows, r, n, m)
    OBVIOUS
  <2> HIDE DEF points
  <2> DEFINE more == Append(points, Point(rows, j, n, m))
  <2>6. /\ more \in Seq(S) /\ Len(more) = j
        /\ \A r \in 1 .. j : more[r] = Point(rows, r, n, m)
    BY <2>3, <2>4, <2>5, Behind
  <2> HIDE DEF more
  <2>7. more = [r \in 1 .. j |-> Point(rows, r, n, m)]
    <3>1. DOMAIN more = 1 .. j /\ more = [r \in 1 .. j |-> more[r]]
      BY <2>6
    <3> QED
      BY <2>6, <3>1
  <2>8. Line(times, data) = points
    BY DEF LineShows, points
  <2> QED
    BY <1>6, <2>1, <2>7, <2>8 DEF more
<1>9. ASSUME NEW r \in DOMAIN rows
      PROVE  /\ Gap(data1, Datum(r, n, m)) <=> r \in 1 .. i /\ Ends(rows, r, aggregate)
             /\ r \in 1 .. j <=> r \in 1 .. i \/ r = j
             /\ r = j => r \notin 1 .. i
  <2>1. Gap(data1, Datum(r, n, m)) <=> Gap(data, Datum(r, n, m))
    BY <1>3, <1>5, GapAppend
  <2>2. Gap(data, Datum(r, n, m)) <=> r \in 1 .. i /\ Ends(rows, r, aggregate)
    BY DEF LineShows
  <2>3. r \in Nat
    BY <1>4
  <2>4. (r \in 1 .. j <=> r \in 1 .. i \/ r = j) /\ (r = j => r \notin 1 .. i)
    BY <2>3
  <2> QED
    BY <2>1, <2>2, <2>4
<1> HIDE DEF times1, data1
<1>10. ASSUME ~ Ends(rows, j, aggregate) PROVE LineShows(times1, data1, rows, j, n, m, aggregate)
  <2>1. ASSUME NEW r \in DOMAIN rows
        PROVE  Gap(data1, Datum(r, n, m)) <=> r \in 1 .. j /\ Ends(rows, r, aggregate)
    BY <1>9, <1>10
  <2> QED
    BY <1>8, <2>1 DEF LineShows
<1>11. ASSUME Ends(rows, j, aggregate) PROVE LineShows(times2, data2, rows, j, n, m, aggregate)
  <2>1. Line(times2, data2) = Line(times1, data1)
    <3>1. u \in A /\ Null \in B /\ Len(times1) = Len(data1)
      BY <1>3, <1>7
    <3> QED
      BY <1>7, <3>1, LineGap
  <2>2. ASSUME NEW r \in DOMAIN rows
        PROVE  Gap(data2, Datum(r, n, m)) <=> r \in 1 .. j /\ Ends(rows, r, aggregate)
    <3>1. Gap(data2, Datum(r, n, m)) <=> Gap(data1, Datum(r, n, m)) \/ Datum(r, n, m) = x
      BY <1>3, <1>7, GapAppend
    <3>2. Datum(r, n, m) = x <=> r = j
      BY <1>5
    <3> QED
      BY <1>9, <1>11, <3>1, <3>2
  <2> QED
    BY <1>8, <2>1, <2>2 DEF LineShows
<1> QED
  BY <1>10, <1>11 DEF times1, data1, t, x

\* The history shows the first i rows.
Shows(message, h, rows, i, C, M, aggregate) ==
  /\ h \in HistoryOf(message, C, M) /\ ~ h.thrown /\ Even(h, C, M)
  /\ \A n \in 1 .. C, m \in 1 .. M : LineShows(h.times, h.values[n][m], rows, i, n, m, aggregate)

LEMMA EvenLines ==
  ASSUME NEW message, NEW C \in Nat, NEW M \in Nat, NEW h \in HistoryOf(message, C, M),
         Even(h, C, M), ~ h.thrown, NEW n \in 1 .. C, NEW m \in 1 .. M
  PROVE  /\ Len(h.times) = Len(h.values[n][m])
         /\ IsSequence(h.times) /\ IsSequence(h.values[n][m])
<1>1. h.times \in Seq(Times(message)) /\ h.values[n][m] \in Seq(Data(message))
  BY DEF HistoryOf
<1>2. n < C + 1
  OBVIOUS
<1>3. Len(h.values[n][m]) = Len(h.times)
  BY <1>2 DEF Even, Filled
<1> QED
  BY <1>1, <1>3 DEF IsSequence

\* One more row.
LEMMA ShowsMore ==
  ASSUME NEW layout, NEW aggregate, NEW message, NEW C, NEW M, Reading(layout, aggregate, message, C, M),
         NEW rows \in Rows, NEW i \in Nat, NEW j \in DOMAIN rows, j = i + 1, NEW h,
         Shows(message, h, rows, i, C, M, aggregate), NEW g,
         Part(message, h, g, C, M, j, rows[j].time, C + 1, 0), NEW last,
         last = IF Ends(rows, j, aggregate) THEN startNewEpoch(g) ELSE g
  PROVE  Shows(message, last, rows, j, C, M, aggregate) /\ last.pointer = g.pointer
<1> DEFINE t == rows[j].time
           line(n, m) == Append(h.values[n][m], Datum(j, n, m))
<1>1. C \in Nat /\ M \in Nat
  BY DEF Reading
<1>2. /\ h \in HistoryOf(message, C, M) /\ ~ h.thrown /\ Even(h, C, M)
      /\ \A n \in 1 .. C, m \in 1 .. M : LineShows(h.times, h.values[n][m], rows, i, n, m, aggregate)
  BY DEF Shows
<1>3. /\ g \in HistoryOf(message, C, M) /\ ~ g.thrown /\ g.times = Append(h.times, t)
      /\ \A n \in 1 .. C, m \in 1 .. M : g.values[n][m] = line(n, m)
  <2>1. \A n \in 1 .. C : n < C + 1
    BY <1>1
  <2>2. ASSUME NEW n \in 1 .. C, NEW m \in 1 .. M PROVE g.values[n][m] = line(n, m)
    <3>1. g.values[n][m] = IF n < C + 1 \/ (n = C + 1 /\ m <= 0)
                           THEN Append(h.values[n][m], Datum(j, n, m)) ELSE h.values[n][m]
      BY DEF Part
    <3> QED
      BY <2>1, <3>1, Zenon
  <2>3. g \in HistoryOf(message, C, M) /\ ~ g.thrown /\ g.times = Append(h.times, t)
    BY DEF Part
  <2> QED
    BY <2>2, <2>3
<1>4. /\ h.times \in Seq(Times(message)) /\ g.times \in Seq(Times(message))
      /\ h.values \in [1 .. C -> [1 .. M -> Seq(Data(message))]]
      /\ g.values \in [1 .. C -> [1 .. M -> Seq(Data(message))]]
      /\ g.pointer \in Int
  BY <1>2, <1>3 DEF HistoryOf
<1> HIDE DEF t
<1>5. IsSequence(h.times) /\ Len(Append(h.times, t)) = Len(h.times) + 1
  BY <1>4 DEF IsSequence
<1>6. ASSUME NEW n \in 1 .. C, NEW m \in 1 .. M
      PROVE  /\ Len(h.times) = Len(h.values[n][m])
             /\ IsSequence(h.times) /\ IsSequence(h.values[n][m])
             /\ Len(line(n, m)) = Len(h.values[n][m]) + 1
  <2>1. /\ Len(h.times) = Len(h.values[n][m])
        /\ IsSequence(h.times) /\ IsSequence(h.values[n][m])
    BY <1>1, <1>2, EvenLines
  <2>2. h.values[n][m] \in Seq(Data(message))
    BY <1>4
  <2>3. Len(line(n, m)) = Len(h.values[n][m]) + 1
    <3> DEFINE x == Datum(j, n, m)
               s == h.values[n][m]
    <3> HIDE DEF x, s
    <3>1. s \in Seq(Data(message))
      BY <2>2 DEF s
    <3>2. Len(Append(s, x)) = Len(s) + 1
      BY <3>1
    <3> QED
      BY <3>2 DEF x, s
  <2> QED
    BY <2>1, <2>3
<1> HIDE DEF line
<1>7. Even(g, C, M)
  <2>1. ASSUME NEW n \in 1 .. C, NEW m \in 1 .. M
        PROVE  Len(g.values[n][m]) = Len(g.times) /\ n < C + 1
    <3>1. Len(g.values[n][m]) = Len(g.times)
      BY <1>3, <1>5, <1>6
    <3> QED
      BY <1>1, <3>1
  <2> QED
    BY <2>1 DEF Even, Filled
<1>8. CASE ~ Ends(rows, j, aggregate)
  <2>1. last = g
    BY <1>8
  <2>2. ASSUME NEW n \in 1 .. C, NEW m \in 1 .. M
        PROVE  LineShows(g.times, g.values[n][m], rows, j, n, m, aggregate)
    <3>1. n \in Int /\ m \in Int
      OBVIOUS
    <3>2. LineShows(h.times, h.values[n][m], rows, i, n, m, aggregate)
      BY <1>2
    <3>3. LineShows(Append(h.times, rows[j].time), Append(h.values[n][m], Datum(j, n, m)), rows, j, n, m, aggregate)
      BY <1>6, <1>8, <3>1, <3>2, LineGrows
    <3> QED
      BY <1>3, <3>3 DEF line, t
  <2> QED
    BY <1>3, <1>7, <2>1, <2>2 DEF Shows
<1>9. CASE Ends(rows, j, aggregate)
  <2> DEFINE u == Last(g.times)
  <2>1. last = startNewEpoch(g)
    BY <1>9
  <2>2. g.times # <<>>
    <3> DEFINE s == h.times
    <3> HIDE DEF s
    <3>1. s \in Seq(Times(message))
      BY <1>4 DEF s
    <3>2. Append(s, t) # <<>>
      BY <3>1
    <3> QED
      BY <1>3, <3>2 DEF s
  <2>3. /\ last \in HistoryOf(message, C, M) /\ Even(last, C, M)
    BY <1>1, <1>3, <1>7, <2>1, GapStep
  <2>4. last = [g EXCEPT !.times = Append(@, u),
                         !.values = [n \in DOMAIN g.values |->
                                       [m \in DOMAIN g.values[n] |-> Append(g.values[n][m], Null)]]]
    BY <2>1, <2>2 DEF startNewEpoch
  <2> HIDE DEF u
  <2>5. /\ last.times = Append(g.times, u) /\ last.pointer = g.pointer /\ last.thrown = g.thrown
        /\ last.values = [n \in DOMAIN g.values |->
                            [m \in DOMAIN g.values[n] |-> Append(g.values[n][m], Null)]]
    BY <1>3, <2>4 DEF HistoryOf
  <2>6. ASSUME NEW n \in 1 .. C, NEW m \in 1 .. M
        PROVE  last.values[n][m] = Append(g.values[n][m], Null)
    <3> DEFINE v == g.values
               w == last.values
    <3>1. DOMAIN v = 1 .. C /\ DOMAIN v[n] = 1 .. M
      BY <1>4
    <3>2. w = [a \in DOMAIN v |-> [b \in DOMAIN v[a] |-> Append(v[a][b], Null)]]
      BY <2>5
    <3> HIDE DEF v, w
    <3>3. w[n] = [b \in DOMAIN v[n] |-> Append(v[n][b], Null)]
      BY <3>1, <3>2
    <3>4. w[n][m] = Append(v[n][m], Null)
      BY <3>1, <3>3
    <3> QED
      BY <3>4 DEF v, w
  <2>7. ASSUME NEW n \in 1 .. C, NEW m \in 1 .. M
        PROVE  LineShows(last.times, last.values[n][m], rows, j, n, m, aggregate)
    <3>1. n \in Int /\ m \in Int
      OBVIOUS
    <3>2. LineShows(h.times, h.values[n][m], rows, i, n, m, aggregate)
      BY <1>2
    <3>3. LineShows(Append(Append(h.times, rows[j].time), u),
                    Append(Append(h.values[n][m], Datum(j, n, m)), Null), rows, j, n, m, aggregate)
      BY <1>6, <1>9, <3>1, <3>2, LineGrows
    <3> QED
      BY <1>3, <2>5, <2>6, <3>3 DEF line, t
  <2> QED
    BY <1>3, <2>3, <2>5, <2>7 DEF Shows
<1> QED
  BY <1>8, <1>9

\* Nothing is shown at first.
LEMMA ShowsNone ==
  ASSUME NEW layout, NEW aggregate, NEW message, NEW C, NEW M, Reading(layout, aggregate, message, C, M),
         NEW rows
  PROVE  /\ Shows(message, NewHistory(layout, aggregate), rows, 0, C, M, aggregate)
         /\ NewHistory(layout, aggregate).pointer = 0
<1> DEFINE h == NewHistory(layout, aggregate)
<1>1. /\ C = ColumnCount(layout) /\ layout \in Layout /\ M = Copies(aggregate) /\ C \in Nat
      /\ aggregate \in BOOLEAN
  BY DEF Reading, Understood
<1>2. h \in HistoryOf(message, C, M) /\ Even(h, C, M)
  BY <1>1, NewHistoryType
<1>3. /\ ~ h.thrown /\ h.pointer = 0 /\ h.times = <<>>
      /\ \A n \in 1 .. C, m \in 1 .. M : h.values[n][m] = <<>>
  BY <1>1 DEF NewHistory
<1> HIDE DEF h
<1>4. ASSUME NEW n \in 1 .. C, NEW m \in 1 .. M
      PROVE  LineShows(h.times, h.values[n][m], rows, 0, n, m, aggregate)
  <2>1. Line(h.times, h.values[n][m]) = <<>>
    BY <1>3, LineEmpty
  <2>2. <<>> = [r \in 1 .. 0 |-> Point(rows, r, n, m)]
    <3> DEFINE s == [r \in 1 .. 0 |-> Point(rows, r, n, m)]
    <3>1. s \in [1 .. 0 -> {}]
      OBVIOUS
    <3> HIDE DEF s
    <3>2. s \in Seq({}) /\ Len(s) = 0
      BY <3>1
    <3> QED
      BY <3>2 DEF s
  <2>3. \A d : ~ Gap(<<>>, d)
    BY DEF Gap
  <2>4. \A r : r \notin 1 .. 0
    OBVIOUS
  <2> QED
    BY <1>3, <2>1, <2>2, <2>3, <2>4 DEF LineShows
<1> QED
  BY <1>2, <1>3, <1>4 DEF Shows, h

LEMMA RowType ==
  ASSUME NEW rows \in Rows, NEW r \in 1 .. Len(rows)
  PROVE  rows[r].time \in Int64 /\ rows[r].end_of_epoch \in BOOLEAN
<1> DEFINE S == [time : Int64, end_of_epoch : BOOLEAN]
<1>1. rows \in Seq(S)
  BY DEF Rows
<1>2. rows[r] \in S
  <2> HIDE DEF S
  <2> QED
    BY <1>1
<1> QED
  BY <1>2

\* The entries are in the message, one behind the other.
LaidEntries(pos, layout, rows, message, aggregate) ==
  /\ pos \in [0 .. Len(rows) -> Nat] /\ pos[0] = 0 /\ pos[Len(rows)] = Len(message)
  /\ \A r \in 1 .. Len(rows) :
       /\ pos[r] = pos[r - 1] + Len(Entry(layout, rows[r], r, aggregate))
       /\ Holds(message, pos[r - 1], Entry(layout, rows[r], r, aggregate))

LEMMA EntriesLaid ==
  ASSUME NEW layout, NEW aggregate, NEW message, NEW C, NEW M, Reading(layout, aggregate, message, C, M),
         NEW rows \in Rows, message = getHistory(layout, rows, aggregate)
  PROVE  \E pos : LaidEntries(pos, layout, rows, message, aggregate)
<1> DEFINE R == Len(rows)
           entry(r) == Entry(layout, rows[r], r, aggregate)
           seqs == [r \in DOMAIN rows |-> entry(r)]
<1>1. R \in Nat /\ DOMAIN rows = 1 .. R
  BY DEF Rows
<1>2. /\ layout \in Layout /\ ColumnCount(layout) \in Nat /\ aggregate \in BOOLEAN
      /\ IsSequence(message) /\ Len(message) \in Nat
  BY DEF Reading, Understood, IsSequence
<1>3. \A r \in 1 .. R : IsSequence(entry(r))
  BY <1>2, EntrySequence
<1> HIDE DEF entry
<1>4. Pieces(seqs, R)
  BY <1>1, <1>3 DEF Pieces
<1>5. message = FlattenSeq(seqs)
  BY DEF getHistory, entry
<1>6. \A r \in 1 .. R : seqs[r] = entry(r)
  BY <1>1
<1> HIDE DEF seqs, R
<1> DEFINE p == 0
<1>7. Holds(message, p, FlattenSeq(seqs)) /\ p \in Nat
  <2>1. \A k \in 1 .. Len(message) : 0 + k = k
    BY <1>2
  <2>2. 0 + Len(message) <= Len(message)
    BY <1>2
  <2> QED
    BY <1>5, <2>1, <2>2 DEF Holds
<1> HIDE DEF p
<1>8. PICK pos : Laid(message, seqs, pos, p, R) /\ pos[R] = p + Len(FlattenSeq(seqs))
  BY <1>1, <1>2, <1>4, <1>7, PartsLaid
<1>9. /\ pos \in [0 .. R -> Nat] /\ pos[0] = 0
      /\ \A r \in 1 .. R : pos[r] = pos[r - 1] + Len(entry(r)) /\ Holds(message, pos[r - 1], entry(r))
  BY <1>6, <1>8 DEF Laid, p
<1>10. pos[R] = Len(message)
  BY <1>2, <1>5, <1>8 DEF p
<1>11. LaidEntries(pos, layout, rows, message, aggregate)
  BY <1>9, <1>10 DEF LaidEntries, R, entry
<1> QED
  BY <1>11

\* The browser reads no fewer times than there are entries.
LEMMA EntriesCounted ==
  ASSUME NEW layout, NEW aggregate, NEW message, NEW C, NEW M, Reading(layout, aggregate, message, C, M),
         NEW rows \in Rows, NEW pos, LaidEntries(pos, layout, rows, message, aggregate)
  PROVE  Len(rows) \in 0 .. EntriesAtMost(message)
<1> DEFINE R == Len(rows)
           N == Len(message)
<1>1. R \in Nat /\ DOMAIN rows = 1 .. R
  BY DEF Rows
<1>2. N \in Nat
  BY DEF Reading, IsSequence
<1>3. /\ pos \in [0 .. R -> Nat] /\ pos[0] = 0 /\ pos[R] = N
      /\ \A r \in 1 .. R : /\ pos[r] = pos[r - 1] + Len(Entry(layout, rows[r], r, aggregate))
                           /\ Holds(message, pos[r - 1], Entry(layout, rows[r], r, aggregate))
  BY DEF LaidEntries
<1>4. ASSUME NEW r \in 1 .. R PROVE pos[r - 1] \in Nat /\ pos[r] \in Nat /\ pos[r] >= pos[r - 1] + 8
  <2> DEFINE row == rows[r]
             p == pos[r - 1]
             n == Len(Entry(layout, row, r, aggregate))
  <2>1. row.time \in Int64
    BY RowType
  <2>2. p \in Nat /\ pos[r] \in Nat
    <3>1. r - 1 \in 0 .. R /\ r \in 0 .. R
      BY <1>1
    <3> QED
      BY <1>3, <3>1
  <2>3. Holds(message, p, Entry(layout, row, r, aggregate)) /\ pos[r] = p + n
    BY <1>3
  <2> HIDE DEF row, p
  <2>4. n \in Nat /\ n >= 8
    BY <2>1, <2>2, <2>3, EntryParts
  <2> HIDE DEF n
  <2>5. p \in Nat /\ pos[r] \in Nat /\ pos[r] >= p + 8
    BY <2>2, <2>3, <2>4
  <2> QED
    BY <2>5 DEF p
<1> HIDE DEF R, N
<1> DEFINE Good == {k \in Nat : k <= R => pos[k] >= 8 * k}
<1>5. 0 \in Good
  BY <1>3
<1>6. ASSUME NEW k \in Nat, k \in Good PROVE k + 1 \in Good
  <2> SUFFICES ASSUME k + 1 <= R PROVE pos[k + 1] >= 8 * (k + 1)
    OBVIOUS
  <2>1. k + 1 \in 1 .. R /\ (k + 1) - 1 = k /\ k <= R
    BY <1>1
  <2>2. pos[k] >= 8 * k
    BY <1>6, <2>1
  <2>3. pos[k] \in Nat /\ pos[k + 1] \in Nat /\ pos[k + 1] >= pos[k] + 8
    BY <1>4, <2>1
  <2> QED
    BY <2>2, <2>3
<1>7. \A k \in Nat : k \in Good
  <2> HIDE DEF Good
  <2> QED
    BY <1>5, <1>6, Induction
<1>8. N >= 8 * R
  <2>1. R \in Good
    BY <1>1, <1>7
  <2> QED
    BY <1>1, <1>3, <2>1
<1>9. R <= N \div 8 + 1
  BY <1>1, <1>2, <1>8
<1>10. N \div 8 + 1 \in Nat
  BY <1>2
<1> QED
  BY <1>1, <1>9, <1>10 DEF EntriesAtMost, R, N

\* The browser shows the rows that the Center wrote.
LEMMA HistoryReads ==
  ASSUME NEW layout, NEW aggregate, NEW message, NEW C, NEW M, Reading(layout, aggregate, message, C, M),
         NEW rows \in Rows, message = getHistory(layout, rows, aggregate), NEW odd \in BOOLEAN
  PROVE  Shows(message, processEntries(layout, message, aggregate, odd), rows, Len(rows), C, M, aggregate)
<1> DEFINE R == Len(rows)
           N == EntriesAtMost(message)
           Shown(h, i) == Shows(message, h, rows, i, C, M, aggregate)
<1>1. R \in Nat /\ DOMAIN rows = 1 .. R
  BY DEF Rows
<1>2. /\ layout \in Layout /\ C \in Nat /\ C = ColumnCount(layout) /\ aggregate \in BOOLEAN
      /\ IsSequence(message) /\ Len(message) \in Nat
  BY DEF Reading, Understood, IsSequence
<1>3. PICK pos : LaidEntries(pos, layout, rows, message, aggregate)
  BY EntriesLaid
<1>4. R \in 0 .. N /\ N \in Nat
  BY <1>2, <1>3, EntriesCounted, EntriesBound
<1>5. PICK f : /\ ReadsHistory(f, layout, message, aggregate, odd)
               /\ processEntries(layout, message, aggregate, odd) = f[EntriesAtMost(message)]
  BY <1>2, HistorySteps
<1>6. /\ f[0] = NewHistory(layout, aggregate)
      /\ \A i \in 1 .. N : f[i] = ReadMore(layout, message, f[i - 1], aggregate, odd)
      /\ processEntries(layout, message, aggregate, odd) = f[N]
  BY <1>5 DEF ReadsHistory
<1>7. /\ pos \in [0 .. R -> Nat] /\ pos[0] = 0 /\ pos[R] = Len(message)
      /\ \A r \in 1 .. R : /\ pos[r] = pos[r - 1] + Len(Entry(layout, rows[r], r, aggregate))
                           /\ Holds(message, pos[r - 1], Entry(layout, rows[r], r, aggregate))
  BY <1>3 DEF LaidEntries
<1> HIDE DEF R, N
<1> DEFINE Good == {k \in Nat : k <= R => Shown(f[k], k) /\ f[k].pointer = pos[k]}
<1>8. 0 \in Good
  BY <1>6, <1>7, ShowsNone
<1>9. ASSUME NEW k \in Nat, k \in Good PROVE k + 1 \in Good
  <2> DEFINE j == k + 1
  <2> SUFFICES ASSUME j <= R PROVE Shown(f[j], j) /\ f[j].pointer = pos[j]
    OBVIOUS
  <2>1. j \in 1 .. R /\ j \in 1 .. N /\ j - 1 = k /\ k <= R /\ k \in 0 .. R
    BY <1>1, <1>4
  <2>2. Shown(f[k], k) /\ f[k].pointer = pos[k]
    BY <1>9, <2>1
  <2> DEFINE row == rows[j]
             p == pos[k]
             h == f[k]
             n == Len(Entry(layout, row, j, aggregate))
  <2>3. row.time \in Int64 /\ row.end_of_epoch \in BOOLEAN
    BY <2>1, RowType DEF R
  <2>4. p \in Nat /\ pos[j] = p + n /\ Holds(message, p, Entry(layout, row, j, aggregate))
    BY <1>7, <2>1
  <2>5. f[j] = ReadMore(layout, message, h, aggregate, odd)
    BY <1>6, <2>1
  <2>6. j = k + 1
    OBVIOUS
  <2>7. h \in HistoryOf(message, C, M) /\ ~ h.thrown /\ h.pointer = p
    BY <2>2 DEF Shows
  <2> HIDE DEF j, h, p
  <2>8. n \in Nat /\ n >= 8
    BY <2>3, <2>4, EntryParts
  <2>9. p + n <= Len(message)
    BY <2>4 DEF Holds
  <2> HIDE DEF n
  <2>10. ~ (h.pointer >= Len(message))
    BY <1>2, <2>4, <2>7, <2>8, <2>9
  <2>11. f[j] = ReadEntry(layout, message, h, aggregate, odd)
    BY <2>5, <2>7, <2>10 DEF ReadMore
  <2>12. PICK g : /\ At(message, h, g, C, M, j, row.time, C + 1, 0, p + n)
                  /\ ReadEntry(layout, message, h, aggregate, odd) =
                       IF ~ aggregate /\ row.end_of_epoch THEN startNewEpoch(g) ELSE g
    <3> HIDE DEF row
    <3> QED
      BY <2>3, <2>4, <2>7, EntryReads DEF n
  <2>13. Part(message, h, g, C, M, j, rows[j].time, C + 1, 0) /\ g.pointer = p + n
    BY <2>12 DEF At
  <2>14. f[j] = IF Ends(rows, j, aggregate) THEN startNewEpoch(g) ELSE g
    BY <2>11, <2>12 DEF Ends
  <2>15. j \in DOMAIN rows
    BY <1>1, <2>1
  <2>16. Shows(message, h, rows, k, C, M, aggregate)
    BY <2>2 DEF h
  <2>17. Shows(message, f[j], rows, j, C, M, aggregate) /\ f[j].pointer = g.pointer
    BY <2>6, <2>13, <2>14, <2>15, <2>16, ShowsMore
  <2> QED
    BY <2>4, <2>13, <2>17
<1>10. \A k \in Nat : k \in Good
  <2> HIDE DEF Good
  <2> QED
    BY <1>8, <1>9, Induction
<1>11. Shown(f[R], R) /\ f[R].pointer = Len(message)
  <2>1. R \in Good
    BY <1>1, <1>10
  <2> QED
    BY <1>1, <1>7, <2>1
<1> DEFINE Rest == {d \in Nat : R + d <= N => f[R + d] = f[R]}
<1>12. 0 \in Rest
  <2>1. R + 0 = R
    BY <1>1
  <2> QED
    BY <2>1
<1>13. ASSUME NEW d \in Nat, d \in Rest PROVE d + 1 \in Rest
  <2> DEFINE i == R + d
  <2> SUFFICES ASSUME i + 1 <= N PROVE f[i + 1] = f[R]
    <3>1. R + (d + 1) = i + 1
      BY <1>1
    <3> QED
      BY <3>1
  <2>1. i + 1 \in 1 .. N /\ (i + 1) - 1 = i /\ i <= N
    BY <1>1, <1>4
  <2>2. f[i] = f[R]
    BY <1>13, <2>1
  <2> HIDE DEF i
  <2>3. f[i + 1] = ReadMore(layout, message, f[R], aggregate, odd)
    BY <1>6, <2>1, <2>2
  <2>4. f[R].pointer >= Len(message)
    BY <1>2, <1>11
  <2> QED
    BY <2>3, <2>4 DEF ReadMore
<1>14. \A d \in Nat : d \in Rest
  <2> HIDE DEF Rest
  <2> QED
    BY <1>12, <1>13, Induction
<1>15. f[N] = f[R]
  <2>1. N - R \in Nat /\ R + (N - R) = N
    BY <1>1, <1>4
  <2>2. N - R \in Rest
    BY <1>14, <2>1
  <2> QED
    BY <1>4, <2>1, <2>2
<1> QED
  BY <1>6, <1>11, <1>15 DEF R

-----------------------------------------------------------------------------
(* The values of a system (Description).                                     *)

\* The places of the values that system s has.
ValuesOf(nodes, s) == {k \in 1 .. Len(nodes) : nodes[k].kind \in ValueKinds /\ Holder(nodes)[k] = s}

\* The values found among the first nodes.
FindsValues(f, nodes, s) ==
  /\ f[0] = <<>>
  /\ \A k \in 1 .. Len(nodes) : f[k] = (IF nodes[k].kind \in ValueKinds /\ Holder(nodes)[k] = s THEN Append(f[k - 1], k) ELSE f[k - 1])

LEMMA NestedSteps ==
  ASSUME NEW nodes, Len(nodes) \in Nat, NEW s
  PROVE  \E f : FindsValues(f, nodes, s) /\ NestedIOValues(nodes, s) = f[Len(nodes)]
<1> DEFINE N == Len(nodes)
           S == Seq(ValuesOf(nodes, s))
           base == <<>>
           step == [x \in Nat \X S |->
                      IF x[1] \in 1 .. N THEN (IF nodes[x[1]].kind \in ValueKinds /\ Holder(nodes)[x[1]] = s THEN Append(x[2], x[1]) ELSE x[2]) ELSE x[2]]
           Defines(g) == g = [k \in 0 .. N |-> IF k = 0 THEN base
                                ELSE (IF nodes[k].kind \in ValueKinds /\ Holder(nodes)[k] = s THEN Append(g[k - 1], k) ELSE g[k - 1])]
<1>1. N \in Nat
  OBVIOUS
<1>2. base \in S
  OBVIOUS
<1>3. \A g \in S, k \in 1 .. N :
        (IF nodes[k].kind \in ValueKinds /\ Holder(nodes)[k] = s THEN Append(g, k) ELSE g) \in S
  <2> TAKE g \in S, k \in 1 .. N
  <2>1. CASE nodes[k].kind \in ValueKinds /\ Holder(nodes)[k] = s
    <3> DEFINE T == ValuesOf(nodes, s)
    <3>1. k \in T
      BY <2>1 DEF ValuesOf
    <3> HIDE DEF T
    <3>2. Append(g, k) \in Seq(T)
      BY <3>1 DEF T
    <3> QED
      BY <2>1, <3>2 DEF T
  <2> QED
    BY <2>1
<1> HIDE DEF base
<1>4. step \in [Nat \X S -> S]
  <2>1. ASSUME NEW x \in Nat \X S
        PROVE  (IF x[1] \in 1 .. N THEN (IF nodes[x[1]].kind \in ValueKinds /\ Holder(nodes)[x[1]] = s THEN Append(x[2], x[1]) ELSE x[2]) ELSE x[2]) \in S
    <3>1. x[2] \in S /\ x[1] \in Nat
      OBVIOUS
    <3> HIDE DEF N, S
    <3> QED
      BY <1>3, <3>1
  <2> QED
    BY <2>1
<1>5. \E f : Goes(f, S, base, step, N)
  <2> HIDE DEF step, N, S, base
  <2> QED
    BY <1>1, <1>2, <1>4, Defined, Zenon
<1>6. PICK f : Goes(f, S, base, step, N)
  BY <1>5
<1> HIDE DEF S
<1>7. f \in [0 .. N -> S] /\ f[0] = base
  BY <1>6 DEF Goes
<1>8. ASSUME NEW k \in 1 .. N PROVE f[k] = (IF nodes[k].kind \in ValueKinds /\ Holder(nodes)[k] = s THEN Append(f[k - 1], k) ELSE f[k - 1])
  <2>1. k - 1 \in 0 .. N /\ k \in Nat
    BY <1>1
  <2>2. <<k, f[k - 1]>> \in Nat \X S
    BY <1>7, <2>1
  <2>3. step[<<k, f[k - 1]>>] = (IF nodes[k].kind \in ValueKinds /\ Holder(nodes)[k] = s THEN Append(f[k - 1], k) ELSE f[k - 1])
    BY <2>2
  <2> HIDE DEF step
  <2> QED
    BY <1>6, <2>3 DEF Goes
<1>9. Defines(f)
  <2>1. f = [k \in 0 .. N |-> f[k]]
    BY <1>7
  <2>2. ASSUME NEW k \in 0 .. N
        PROVE  f[k] = IF k = 0 THEN base ELSE (IF nodes[k].kind \in ValueKinds /\ Holder(nodes)[k] = s THEN Append(f[k - 1], k) ELSE f[k - 1])
    <3>1. k = 0 \/ (k # 0 /\ k \in 1 .. N)
      BY <1>1
    <3> QED
      BY <1>7, <1>8, <3>1, Zenon
  <2> QED
    BY <2>1, <2>2
<1> DEFINE p == CHOOSE g : Defines(g)
<1>10. Defines(p)
  <2> HIDE DEF Defines
  <2> QED
    BY <1>9, Zenon
<1>11. NestedIOValues(nodes, s) = p[N]
  BY Zenon DEF NestedIOValues, N, base
<1>12. FindsValues(p, nodes, s)
  <2> HIDE DEF p
  <2>1. p[0] = base
    BY <1>1, <1>10
  <2>2. ASSUME NEW k \in 1 .. N PROVE p[k] = (IF nodes[k].kind \in ValueKinds /\ Holder(nodes)[k] = s THEN Append(p[k - 1], k) ELSE p[k - 1])
    <3>1. k \in 0 .. N /\ k # 0
      BY <1>1
    <3> QED
      BY <1>10, <3>1
  <2> QED
    BY <2>1, <2>2 DEF FindsValues, base, N
<1> HIDE DEF p
<1> QED
  BY <1>11, <1>12 DEF N

LEMMA NestedValues ==
  ASSUME NEW nodes, Len(nodes) \in Nat, NEW s
  PROVE  NestedIOValues(nodes, s) \in Seq(ValuesOf(nodes, s))
<1> DEFINE N == Len(nodes)
           T == ValuesOf(nodes, s)
<1>1. PICK f : FindsValues(f, nodes, s) /\ NestedIOValues(nodes, s) = f[Len(nodes)]
  BY NestedSteps
<1>2. /\ f[0] = <<>>
      /\ \A k \in 1 .. N : f[k] = IF nodes[k].kind \in ValueKinds /\ Holder(nodes)[k] = s
                                  THEN Append(f[k - 1], k) ELSE f[k - 1]
  BY <1>1 DEF FindsValues
<1>3. N \in Nat
  OBVIOUS
<1>4. \A k \in 1 .. N : nodes[k].kind \in ValueKinds /\ Holder(nodes)[k] = s => k \in T
  BY DEF ValuesOf
<1>5. NestedIOValues(nodes, s) = f[N]
  BY <1>1
<1> HIDE DEF N, T
<1> DEFINE Good == {k \in Nat : k <= N => f[k] \in Seq(T)}
<1>6. 0 \in Good
  <2>1. <<>> \in Seq(T)
    OBVIOUS
  <2> QED
    BY <1>2, <2>1
<1>7. ASSUME NEW k \in Nat, k \in Good PROVE k + 1 \in Good
  <2> SUFFICES ASSUME k + 1 <= N PROVE f[k + 1] \in Seq(T)
    OBVIOUS
  <2>1. k + 1 \in 1 .. N /\ (k + 1) - 1 = k /\ k <= N
    BY <1>3
  <2>2. f[k] \in Seq(T)
    BY <1>7, <2>1
  <2>3. CASE nodes[k + 1].kind \in ValueKinds /\ Holder(nodes)[k + 1] = s
    <3>1. f[k + 1] = Append(f[k], k + 1) /\ k + 1 \in T
      BY <1>2, <1>4, <2>1, <2>3
    <3> QED
      BY <2>2, <3>1
  <2>4. CASE ~ (nodes[k + 1].kind \in ValueKinds /\ Holder(nodes)[k + 1] = s)
    BY <1>2, <2>1, <2>2, <2>4
  <2> QED
    BY <2>3, <2>4
<1>8. \A k \in Nat : k \in Good
  <2> HIDE DEF Good
  <2> QED
    BY <1>6, <1>7, Induction
<1> QED
  BY <1>3, <1>5, <1>8 DEF T

\* The first value of a system is behind it, and the other values follow in turn.
LEMMA NestedInTurn ==
  ASSUME NEW nodes, Shape(nodes), NEW s \in SystemsOf(nodes)
  PROVE  LET nested == NestedIOValues(nodes, s)
         IN  /\ Len(nested) \in Nat /\ Len(nested) >= 1
             /\ \A v : v \in ValuesOf(nodes, s) /\ v # s + 1 <=> \E n \in 2 .. Len(nested) : nested[n] = v
<1> DEFINE N == Len(nodes)
           H == Holder(nodes)
           Value(k) == nodes[k].kind \in ValueKinds /\ H[k] = s
           nested == NestedIOValues(nodes, s)
<1>1. /\ N \in Nat /\ DOMAIN nodes = 1 .. N
      /\ \A j \in 1 .. N :
           /\ nodes[j].kind = "device" <=> j = 1
           /\ nodes[j].kind = "system" =>
                j < N /\ nodes[j + 1].parent = j /\ nodes[j + 1].kind \in ValueKinds
  BY DEF Shape
<1>2. s \in 1 .. N /\ nodes[s].kind = "system" /\ s + 1 \in 1 .. N /\ s # 0
  BY <1>1 DEF SystemsOf
<1>3. Value(s + 1)
  <2>1. nodes[s + 1].parent = s /\ nodes[s + 1].kind \in ValueKinds
    BY <1>1, <1>2
  <2>2. H[s + 1] = s
    BY <1>2, <2>1, HolderSteps
  <2> QED
    BY <2>1, <2>2
<1>4. ASSUME NEW k \in 1 .. N, Value(k) PROVE k > s
  <2>1. nodes[k].kind \in ValueKinds
    BY <1>4
  <2>2. nodes[k].kind # "system" /\ nodes[k].kind # "device"
    BY <2>1 DEF ValueKinds
  <2>3. k \in 2 .. N
    BY <1>1, <2>2
  <2>4. H[k] \in 1 .. k - 1
    BY <2>2, <2>3, HolderIsSystem
  <2> QED
    BY <1>2, <1>4, <2>4
<1>5. \E f : FindsValues(f, nodes, s) /\ nested = f[N]
  BY <1>1, NestedSteps
<1>6. PICK f : FindsValues(f, nodes, s) /\ nested = f[N]
  BY <1>5
<1>7. f[0] = <<>> /\ \A k \in 1 .. N : f[k] = IF Value(k) THEN Append(f[k - 1], k) ELSE f[k - 1]
  BY <1>6 DEF FindsValues
<1>8. \A k : k \in ValuesOf(nodes, s) <=> k \in 1 .. N /\ Value(k)
  BY DEF ValuesOf
<1>9. nested = f[N]
  BY <1>6
<1> HIDE DEF N, H, Value, nested
\* Before the first value there are none.
<1> DEFINE Early == {k \in Nat : k <= s => f[k] = <<>>}
<1>10. 0 \in Early
  BY <1>7
<1>11. ASSUME NEW k \in Nat, k \in Early PROVE k + 1 \in Early
  <2> SUFFICES ASSUME k + 1 <= s PROVE f[k + 1] = <<>>
    OBVIOUS
  <2>1. k + 1 \in 1 .. N /\ (k + 1) - 1 = k /\ k <= s
    BY <1>1, <1>2
  <2>2. ~ Value(k + 1)
    BY <1>2, <1>4, <2>1
  <2> QED
    BY <1>7, <1>11, <2>1, <2>2
<1>12. \A k \in Nat : k \in Early
  <2> HIDE DEF Early
  <2> QED
    BY <1>10, <1>11, Induction
<1>13. f[s] = <<>>
  BY <1>2, <1>12
<1>14. f[s + 1] = <<s + 1>>
  <2>1. (s + 1) - 1 = s
    BY <1>2
  <2>2. f[s + 1] = Append(f[s], s + 1)
    BY <1>2, <1>3, <1>7, <2>1
  <2> QED
    BY <1>13, <2>2
\* Behind it, the places are found one by one.
<1> DEFINE Found(g, k) ==
             /\ g \in Seq(Nat) /\ Len(g) >= 1
             /\ \A v : v \in s + 2 .. k /\ Value(v) <=> \E n \in 2 .. Len(g) : g[n] = v
           Late == {k \in Nat : s + 1 + k <= N => Found(f[s + 1 + k], s + 1 + k)}
<1>15. 0 \in Late
  <2>1. <<s + 1>> \in Seq(Nat) /\ Len(<<s + 1>>) = 1
    BY <1>2
  <2>2. Found(<<s + 1>>, s + 1)
    BY <1>2, <2>1
  <2>3. s + 1 + 0 = s + 1
    BY <1>2
  <2> HIDE DEF Found
  <2>4. Found(f[s + 1 + 0], s + 1 + 0)
    BY <1>14, <2>2, <2>3
  <2> QED
    BY <2>4
<1>16. ASSUME NEW g, NEW k \in s + 1 .. N, k + 1 \in 1 .. N, Found(g, k)
       PROVE  Found(IF Value(k + 1) THEN Append(g, k + 1) ELSE g, k + 1)
  <2>1. s \in Nat /\ N \in Nat /\ k \in Nat /\ k + 1 \in Nat
    BY <1>1, <1>2
  <2>2. g \in Seq(Nat) /\ Len(g) \in Nat /\ Len(g) >= 1
    BY <1>16
  <2>3. CASE Value(k + 1)
    <3> DEFINE h == Append(g, k + 1)
    <3>1. /\ h \in Seq(Nat) /\ Len(h) = Len(g) + 1
          /\ \A n \in 1 .. Len(g) : h[n] = g[n]
          /\ h[Len(g) + 1] = k + 1
      BY <2>1, <2>2, Behind
    <3> HIDE DEF h
    <3>2. ASSUME NEW v, v \in s + 2 .. k + 1, Value(v)
          PROVE  \E n \in 2 .. Len(h) : h[n] = v
      <4>1. CASE v = k + 1
        <5>1. Len(g) + 1 \in 2 .. Len(h)
          BY <2>2, <3>1
        <5> QED
          BY <3>1, <4>1, <5>1
      <4>2. CASE v # k + 1
        <5>1. v \in s + 2 .. k
          BY <2>1, <3>2, <4>2
        <5>2. PICK n \in 2 .. Len(g) : g[n] = v
          BY <1>16, <3>2, <5>1
        <5>3. n \in 2 .. Len(h) /\ n \in 1 .. Len(g)
          BY <2>2, <3>1
        <5> QED
          BY <3>1, <5>2, <5>3
      <4> QED
        BY <4>1, <4>2
    <3>3. ASSUME NEW n \in 2 .. Len(h)
          PROVE  h[n] \in s + 2 .. k + 1 /\ Value(h[n])
      <4>1. CASE n = Len(g) + 1
        BY <2>1, <2>3, <3>1, <4>1
      <4>2. CASE n # Len(g) + 1
        <5>1. n \in 2 .. Len(g) /\ n \in 1 .. Len(g)
          BY <2>2, <3>1, <4>2
        <5>2. g[n] \in s + 2 .. k /\ Value(g[n])
          BY <1>16, <5>1
        <5> QED
          BY <2>1, <3>1, <5>1, <5>2
      <4> QED
        BY <4>1, <4>2
    <3>4. \A v : v \in s + 2 .. k + 1 /\ Value(v) <=> \E n \in 2 .. Len(h) : h[n] = v
      BY <3>2, <3>3
    <3>5. Found(h, k + 1)
      BY <2>2, <3>1, <3>4
    <3> QED
      BY <2>3, <3>5 DEF h
  <2>4. CASE ~ Value(k + 1)
    <3>1. \A v : v \in s + 2 .. k + 1 /\ Value(v) <=> v \in s + 2 .. k /\ Value(v)
      <4> TAKE v
      <4>1. v = k + 1 => ~ Value(v)
        BY <2>4
      <4>2. v # k + 1 => (v \in s + 2 .. k + 1 <=> v \in s + 2 .. k)
        BY <2>1
      <4>3. v \in s + 2 .. k => v \in s + 2 .. k + 1
        BY <2>1
      <4> QED
        BY <4>1, <4>2, <4>3
    <3>2. Found(g, k + 1)
      BY <1>16, <3>1
    <3> QED
      BY <2>4, <3>2
  <2> QED
    BY <2>3, <2>4
<1>17. ASSUME NEW k \in Nat, k \in Late PROVE k + 1 \in Late
  <2> DEFINE j == s + 1 + k
  <2> SUFFICES ASSUME s + 1 + (k + 1) <= N PROVE Found(f[s + 1 + (k + 1)], s + 1 + (k + 1))
    OBVIOUS
  <2>1. j \in s + 1 .. N /\ j + 1 \in 1 .. N /\ (j + 1) - 1 = j /\ s + 1 + (k + 1) = j + 1
    BY <1>1, <1>2
  <2>2. Found(f[j], j)
    BY <1>17, <2>1
  <2> HIDE DEF Found, j
  <2>3. f[j + 1] = IF Value(j + 1) THEN Append(f[j], j + 1) ELSE f[j]
    BY <1>7, <2>1
  <2>4. Found(f[j + 1], j + 1)
    BY <1>16, <2>1, <2>2, <2>3
  <2> QED
    BY <2>1, <2>4
<1>18. \A k \in Nat : k \in Late
  <2> HIDE DEF Late
  <2> QED
    BY <1>15, <1>17, Induction
<1>19. Found(nested, N)
  <2>1. PICK k \in Nat : s + 1 + k = N
    <3>1. N - (s + 1) \in Nat /\ s + 1 + (N - (s + 1)) = N
      BY <1>1, <1>2
    <3> QED
      BY <3>1
  <2>2. s + 1 + k <= N
    BY <1>1, <2>1
  <2> HIDE DEF Found
  <2>3. Found(f[s + 1 + k], s + 1 + k)
    BY <1>18, <2>2
  <2> QED
    BY <1>9, <2>1, <2>3
<1>20. ASSUME NEW v
       PROVE  v \in ValuesOf(nodes, s) /\ v # s + 1 <=> v \in s + 2 .. N /\ Value(v)
  <2>1. ASSUME v \in 1 .. N, Value(v), v # s + 1 PROVE v \in s + 2 .. N
    BY <1>1, <1>2, <1>4, <2>1
  <2>2. v \in s + 2 .. N => v \in 1 .. N /\ v # s + 1
    BY <1>1, <1>2
  <2> QED
    BY <1>8, <2>1, <2>2
<1>21. Len(nested) \in Nat /\ Len(nested) >= 1
  BY <1>19
<1> QED
  BY <1>19, <1>20, <1>21 DEF nested

LEMMA LayoutType ==
  ASSUME NEW nodes \in Seq(ParsedNode), NEW s
  PROVE  /\ LayoutOf(nodes, s) \in Layout
         /\ Len(LayoutOf(nodes, s)) = Len(NestedIOValues(nodes, s))
         /\ Len(NestedIOValues(nodes, s)) \in Nat
<1> DEFINE nested == NestedIOValues(nodes, s)
           T == ValuesOf(nodes, s)
           N == Len(nested)
<1>1. Len(nodes) \in Nat
  OBVIOUS
<1>2. nested \in Seq(T)
  BY <1>1, NestedValues
<1> HIDE DEF nested, T
<1>3. N \in Nat /\ DOMAIN nested = 1 .. N /\ \A n \in 1 .. N : nested[n] \in T
  BY <1>2
<1>4. ASSUME NEW n \in 1 .. N
      PROVE  [type |-> nodes[nested[n]].type, size |-> nodes[nested[n]].size] \in LayoutEntry
  <2>1. nested[n] \in 1 .. Len(nodes)
    BY <1>3 DEF T, ValuesOf
  <2>2. nodes[nested[n]] \in ParsedNode
    BY <2>1
  <2> QED
    BY <2>2 DEF ParsedNode, LayoutEntry
<1>5. LayoutOf(nodes, s) = [n \in 1 .. N |-> [type |-> nodes[nested[n]].type,
                                             size |-> nodes[nested[n]].size]]
  BY <1>3 DEF LayoutOf, nested
<1> HIDE DEF N
<1>6. LayoutOf(nodes, s) \in [1 .. N -> LayoutEntry]
  BY <1>4, <1>5
<1>7. LayoutOf(nodes, s) \in Seq(LayoutEntry) /\ Len(LayoutOf(nodes, s)) = N
  BY <1>3, <1>6
<1> QED
  BY <1>3, <1>7 DEF Layout, N, nested

-----------------------------------------------------------------------------
(* The page.                                                                 *)

\* All descriptions that the page may be told of.
Told == UNION {Range(plan) : plan \in Plans}

LEMMA ToldType ==
  /\ \A d \in Told : WellFormed(d.description)
  /\ \A plan \in Plans : plan \in Seq(Told)
<1>1. ASSUME NEW plan \in Plans
      PROVE  /\ plan \in Seq([index : Int, description : Seq(Node)])
             /\ Range(plan) = {plan[n] : n \in DOMAIN plan}
             /\ \A n \in DOMAIN plan : WellFormed(plan[n].description)
  BY WebPageAssumption DEF Range
<1>2. ASSUME NEW d \in Told PROVE WellFormed(d.description)
  <2>1. PICK plan \in Plans : d \in Range(plan)
    BY DEF Told
  <2> QED
    BY <1>1, <2>1
<1>3. ASSUME NEW plan \in Plans PROVE plan \in Seq(Told)
  <2>1. Range(plan) \subseteq Told
    BY DEF Told
  <2>2. Len(plan) \in Nat /\ DOMAIN plan = 1 .. Len(plan) /\ plan = [n \in 1 .. Len(plan) |-> plan[n]]
    <3>1. plan \in Seq([index : Int, description : Seq(Node)])
      BY <1>1
    <3> DEFINE S == [index : Int, description : Seq(Node)]
    <3> HIDE DEF S
    <3> QED
      BY <3>1 DEF S
  <2>3. \A n \in 1 .. Len(plan) : plan[n] \in Told
    BY <1>1, <2>1, <2>2
  <2>4. plan \in [1 .. Len(plan) -> Told]
    BY <2>2, <2>3
  <2> QED
    BY <2>2, <2>4
<1> QED
  BY <1>2, <1>3

\* Every device on the page has come out of a description.
Described(devs) == \A i \in DOMAIN devs : \E d \in Told : devs[i] = Parse(d.description)

LEMMA DeviceFacts ==
  ASSUME NEW devs, Described(devs), NEW i \in DOMAIN devs
  PROVE  /\ devs[i] \in Seq(ParsedNode)
         /\ Len(devs[i]) \in Nat
         /\ DOMAIN devs[i] = 1 .. Len(devs[i])
         /\ \A k \in DOMAIN devs[i] :
              /\ devs[i][k].kind \in Kinds
              /\ devs[i][k].parent \in 0 .. k - 1
              /\ Cardinality(Members(devs[i], k)) = devs[i][k].members
<1> DEFINE nodes == devs[i]
<1>1. PICK d \in Told : nodes = Parse(d.description)
  BY DEF Described
<1>2. WellFormed(d.description)
  BY ToldType
<1>3. /\ nodes \in Seq(ParsedNode)
      /\ Len(nodes) = Len(d.description)
      /\ \A k \in 1 .. Len(d.description) :
           /\ nodes[k].parent \in 0 .. k - 1
           /\ Cardinality(Members(nodes, k)) = nodes[k].members
  BY <1>1, <1>2, ParseResult
<1> HIDE DEF nodes
<1>4. Len(nodes) \in Nat /\ DOMAIN nodes = 1 .. Len(nodes)
      /\ \A k \in 1 .. Len(nodes) : nodes[k] \in ParsedNode
  BY <1>3
<1>5. \A k \in 1 .. Len(nodes) : nodes[k].kind \in Kinds
  BY <1>4 DEF ParsedNode
<1> QED
  BY <1>3, <1>4, <1>5 DEF nodes

\* A system is a device's, and a chart is of one system.
LEMMA SystemPairs ==
  ASSUME NEW devs, NEW y \in Systems(devs)
  PROVE  y = <<y[1], y[2]>> /\ y[1] \in DOMAIN devs /\ y[2] \in SystemsOf(devs[y[1]])
BY DEF Systems

LEMMA ChartOfSystem ==
  ASSUME NEW devs, Described(devs), NEW y \in Systems(devs), NEW c \in Charted(devs, y)
  PROVE  /\ c[1] = y[1]
         /\ Holder(devs[y[1]])[c[2]] = y[2]
         /\ Place(devs, y, c) \in 1 .. Len(Nested(devs, y)) - 1
         /\ Len(Nested(devs, y)) \in Nat
         /\ c \in Charts(devs)
<1> DEFINE nodes == devs[y[1]]
           T == ValuesOf(nodes, y[2])
           nested == Nested(devs, y)
<1>1. Len(nodes) \in Nat
  BY SystemPairs, DeviceFacts
<1>2. nested \in Seq(T)
  BY <1>1, NestedValues DEF Nested
<1>3. PICK n \in 2 .. Len(nested) : c = <<y[1], nested[n]>>
  BY DEF Charted
<1> HIDE DEF nested, T
<1>4. Len(nested) \in Nat /\ nested[n] \in T
  BY <1>2, <1>3
<1>5. c[1] = y[1] /\ c[2] = nested[n]
  BY <1>3
<1>6. Holder(nodes)[c[2]] = y[2]
  BY <1>4, <1>5 DEF T, ValuesOf
<1>7. Place(devs, y, c) \in 1 .. Len(nested) - 1
  <2>1. n - 1 \in 1 .. Len(nested) - 1 /\ (n - 1) + 1 = n
    BY <1>4
  <2>2. \E k \in 1 .. Len(nested) - 1 : nested[k + 1] = c[2]
    BY <1>5, <2>1
  <2> QED
    BY <2>2 DEF Place, nested
<1>8. c \in Charts(devs)
  BY DEF Charts
<1> QED
  BY <1>4, <1>5, <1>6, <1>7, <1>8 DEF nested

LEMMA OneSystem ==
  ASSUME NEW devs, Described(devs), NEW y \in Systems(devs), NEW z \in Systems(devs),
         NEW c, c \in Charted(devs, y), c \in Charted(devs, z)
  PROVE  y = z
<1>1. c[1] = y[1] /\ Holder(devs[y[1]])[c[2]] = y[2]
  BY ChartOfSystem
<1>2. c[1] = z[1] /\ Holder(devs[z[1]])[c[2]] = z[2]
  BY ChartOfSystem
<1>3. y[1] = z[1] /\ y[2] = z[2]
  BY <1>1, <1>2
<1> QED
  BY <1>3, SystemPairs

LEMMA DeviceShape ==
  ASSUME NEW devs, Described(devs), NEW i \in DOMAIN devs
  PROVE  Shape(devs[i])
<1>1. PICK d \in Told : devs[i] = Parse(d.description)
  BY DEF Described
<1>2. WellFormed(d.description)
  BY ToldType
<1> QED
  BY <1>1, <1>2, WellShaped

\* All values have charts but the timestamps.
LEMMA ChartsAre ==
  ASSUME NEW devs, Described(devs), NEW i \in DOMAIN devs, NEW k \in DOMAIN devs[i]
  PROVE  <<i, k>> \in Charts(devs) <=> devs[i][k].kind \in ValueKinds /\ k \notin Timestamps(devs[i])
<1> DEFINE nodes == devs[i]
           H == Holder(nodes)
           c == <<i, k>>
<1>1. Shape(nodes)
  BY DeviceShape
<1> HIDE DEF nodes
<1>2. DOMAIN nodes = 1 .. Len(nodes) /\ Len(nodes) \in Nat /\ k \in 1 .. Len(nodes)
  BY <1>1 DEF Shape, nodes
<1>3. Timestamps(nodes) = {s + 1 : s \in SystemsOf(nodes)}
  BY <1>1, TimestampsOf
<1>4. \A s \in SystemsOf(nodes) : s \in Nat /\ H[s + 1] = s
  <2> TAKE s \in SystemsOf(nodes)
  <2>1. s \in 1 .. Len(nodes) /\ nodes[s].kind = "system" /\ s # 0
    BY <1>2 DEF SystemsOf
  <2>2. s + 1 \in 1 .. Len(nodes) /\ nodes[s + 1].parent = s
    BY <1>1, <1>2, <2>1 DEF Shape
  <2>3. H[s + 1] = s
    BY <1>1, <2>1, <2>2, HolderSteps
  <2> QED
    BY <2>1, <2>3
<1>5. \A v : v \in ValuesOf(nodes, H[k]) => v \in 1 .. Len(nodes) /\ nodes[v].kind \in ValueKinds
  BY DEF ValuesOf
<1>6. ASSUME c \in Charts(devs)
      PROVE  nodes[k].kind \in ValueKinds /\ k \notin Timestamps(nodes)
  <2>1. PICK y \in Systems(devs) : c \in Charted(devs, y)
    BY <1>6 DEF Charts
  <2>2. y[2] \in SystemsOf(devs[y[1]])
    BY <2>1, SystemPairs
  <2>3. PICK n \in 2 .. Len(Nested(devs, y)) : c = <<y[1], Nested(devs, y)[n]>>
    BY <2>1 DEF Charted
  <2>4. y[1] = i /\ Nested(devs, y)[n] = k
    BY <2>3
  <2>5. Nested(devs, y) = NestedIOValues(nodes, y[2])
    BY <2>4 DEF Nested, nodes
  <2> DEFINE s == y[2]
             nested == NestedIOValues(nodes, s)
  <2>6. s \in SystemsOf(nodes)
    BY <2>2, <2>4 DEF nodes
  <2>7. n \in 2 .. Len(nested) /\ nested[n] = k
    BY <2>3, <2>4, <2>5
  <2> HIDE DEF s
  <2>8. k \in ValuesOf(nodes, s) /\ k # s + 1
    BY <1>1, <2>6, <2>7, NestedInTurn
  <2>9. nodes[k].kind \in ValueKinds /\ H[k] = s
    BY <2>8 DEF ValuesOf
  <2>10. ASSUME NEW t \in SystemsOf(nodes), k = t + 1 PROVE FALSE
    <3>1. H[k] = t
      BY <1>4, <2>10
    <3> QED
      BY <2>8, <2>9, <2>10, <3>1
  <2> QED
    BY <1>3, <2>9, <2>10
<1>7. ASSUME nodes[k].kind \in ValueKinds, k \notin Timestamps(nodes)
      PROVE  c \in Charts(devs)
  <2> DEFINE s == H[k]
             nested == NestedIOValues(nodes, s)
             y == <<i, s>>
  <2>1. nodes[k].kind # "system" /\ nodes[k].kind # "device"
    BY <1>7 DEF ValueKinds
  <2>2. k # 1
    BY <1>1, <1>2, <2>1 DEF Shape
  <2>3. k \in 2 .. Len(nodes)
    BY <1>2, <2>2
  <2>4. s \in SystemsOf(nodes)
    BY <1>1, <2>1, <2>3, HolderIsSystem
  <2>5. k \in ValuesOf(nodes, s)
    BY <1>2, <1>7 DEF ValuesOf
  <2>6. k # s + 1
    BY <1>3, <1>7, <2>4
  <2> HIDE DEF s
  <2>7. PICK n \in 2 .. Len(nested) : nested[n] = k
    BY <1>1, <2>4, <2>5, <2>6, NestedInTurn
  <2>8. y \in Systems(devs)
    BY <2>4 DEF Systems, nodes
  <2>9. Nested(devs, y) = nested /\ y[1] = i
    BY DEF Nested, nodes
  <2>10. c \in Charted(devs, y)
    BY <2>7, <2>9 DEF Charted
  <2> QED
    BY <2>8, <2>10 DEF Charts
<1> QED
  BY <1>6, <1>7 DEF nodes

\* The tree's nodes and the dashboards, which are the same.
LEMMA PanelsAre ==
  ASSUME NEW devs, Described(devs)
  PROVE  /\ Panels(devs) = TreeIds(devs)
         /\ \A x : x \in TreeIds(devs) <=>
              \E i \in DOMAIN devs : \E k \in DOMAIN devs[i] :
                x = <<i, k>> /\ k \notin Timestamps(devs[i])
<1>1. ASSUME NEW i \in DOMAIN devs PROVE DashboardNodes(devs[i]) = TreeNodes(devs[i])
  BY DeviceShape, SameNodes
<1>2. Panels(devs) = TreeIds(devs)
  BY <1>1 DEF Panels, TreeIds
<1> QED
  BY <1>2 DEF TreeIds, TreeNodes

\* Of the nodes in the tree, the values have charts, and the parents are in it.
LEMMA TreeOfValues ==
  ASSUME NEW devs, Described(devs)
  PROVE  /\ Charts(devs) = {x \in TreeIds(devs) : devs[x[1]][x[2]].kind \in ValueKinds}
         /\ \A x \in TreeIds(devs) :
              LET q == devs[x[1]][x[2]].parent
              IN  /\ x[1] \in DOMAIN devs /\ x = <<x[1], x[2]>>
                  /\ x[2] \in 1 .. Len(devs[x[1]])
                  /\ q \in 0 .. x[2] - 1
                  /\ q # 0 => <<x[1], q>> \in TreeIds(devs)
<1>1. ASSUME NEW x \in TreeIds(devs)
      PROVE  /\ x[1] \in DOMAIN devs /\ x[2] \in DOMAIN devs[x[1]] /\ x = <<x[1], x[2]>>
             /\ x[2] \notin Timestamps(devs[x[1]])
  <2>1. PICK i \in DOMAIN devs : \E k \in DOMAIN devs[i] :
                                                  x = <<i, k>> /\ k \notin Timestamps(devs[i])
    BY PanelsAre
  <2> QED
    BY <2>1
<1>2. ASSUME NEW x \in TreeIds(devs)
      PROVE  x \in Charts(devs) <=> devs[x[1]][x[2]].kind \in ValueKinds
  <2> DEFINE i == x[1]
             k == x[2]
  <2>1. i \in DOMAIN devs /\ k \in DOMAIN devs[i] /\ x = <<i, k>> /\ k \notin Timestamps(devs[i])
    BY <1>1
  <2> HIDE DEF i, k
  <2>2. <<i, k>> \in Charts(devs) <=> devs[i][k].kind \in ValueKinds /\ k \notin Timestamps(devs[i])
    BY <2>1, ChartsAre
  <2> QED
    BY <2>1, <2>2 DEF i, k
<1>3. ASSUME NEW c \in Charts(devs) PROVE c \in TreeIds(devs)
  <2>1. PICK y \in Systems(devs) : c \in Charted(devs, y)
    BY DEF Charts
  <2>2. PICK n \in 2 .. Len(Nested(devs, y)) : c = <<y[1], Nested(devs, y)[n]>>
    BY <2>1 DEF Charted
  <2> DEFINE i == y[1]
             k == Nested(devs, y)[n]
             nodes == devs[i]
  <2>3. i \in DOMAIN devs /\ y[2] \in SystemsOf(nodes)
    BY <2>1, SystemPairs
  <2>4. Shape(nodes)
    BY <2>3, DeviceShape
  <2>5. \E m \in 2 .. Len(NestedIOValues(nodes, y[2])) : NestedIOValues(nodes, y[2])[m] = k
    BY <2>2 DEF Nested
  <2> HIDE DEF nodes, k
  <2>6. k \in ValuesOf(nodes, y[2])
    BY <2>3, <2>4, <2>5, NestedInTurn
  <2>7. k \in DOMAIN nodes
    BY <2>4, <2>6 DEF ValuesOf, Shape
  <2>8. c = <<i, k>>
    BY <2>2 DEF k
  <2> HIDE DEF i
  <2>9. k \notin Timestamps(devs[i])
    BY <2>3, <2>7, <2>8, ChartsAre DEF nodes
  <2> QED
    BY <2>3, <2>7, <2>8, <2>9, PanelsAre DEF nodes
<1>4. Charts(devs) = {x \in TreeIds(devs) : devs[x[1]][x[2]].kind \in ValueKinds}
  BY <1>2, <1>3
<1>5. ASSUME NEW x \in TreeIds(devs)
      PROVE  LET q == devs[x[1]][x[2]].parent
             IN  /\ x[1] \in DOMAIN devs /\ x = <<x[1], x[2]>>
                 /\ x[2] \in 1 .. Len(devs[x[1]])
                 /\ q \in 0 .. x[2] - 1
                 /\ q # 0 => <<x[1], q>> \in TreeIds(devs)
  <2> DEFINE i == x[1]
             k == x[2]
             nodes == devs[i]
             q == nodes[k].parent
  <2>1. i \in DOMAIN devs /\ k \in DOMAIN nodes /\ x = <<i, k>>
    BY <1>1
  <2>2. Shape(nodes)
    BY <2>1, DeviceShape
  <2> HIDE DEF nodes, i, k
  <2>3. /\ DOMAIN nodes = 1 .. Len(nodes) /\ Len(nodes) \in Nat
        /\ k \in 1 .. Len(nodes) /\ q \in 0 .. k - 1
    BY <2>1, <2>2 DEF Shape
  <2>4. q \notin Timestamps(nodes)
    BY <2>2, <2>3, TimestampsOf
  <2> HIDE DEF q
  <2>5. q # 0 => q \in DOMAIN nodes
    BY <2>3
  <2>6. q # 0 => <<i, q>> \in TreeIds(devs)
    BY <2>1, <2>4, <2>5, PanelsAre DEF nodes
  <2> QED
    BY <2>1, <2>3, <2>6 DEF i, k, nodes, q
<1> QED
  BY <1>4, <1>5

\* What a history shows on a chart of its system.
LEMMA HistoryOnChart ==
  ASSUME NEW devs, Described(devs), NEW y \in Systems(devs), NEW c \in Charted(devs, y),
         NEW rows \in RowSets, NEW aggregate \in BOOLEAN, NEW odd \in BOOLEAN,
         NEW history, history = Histories[LayoutOf(devs[y[1]], y[2])][rows][aggregate][odd],
         ~ history.thrown
  PROVE  LET datasets == setChartDatasets(history, Place(devs, y, c))
         IN  /\ Len(datasets) = Copies(aggregate)
             /\ DOMAIN datasets = 1 .. Copies(aggregate)
             /\ \A m \in 1 .. Copies(aggregate) : Len(datasets[m]) = Len(history.times)
<1> DEFINE nodes == devs[y[1]]
           layout == LayoutOf(nodes, y[2])
           message == getHistory(layout, rows, aggregate)
           C == ColumnCount(layout)
           M == Copies(aggregate)
           place == Place(devs, y, c)
<1>1. nodes \in Seq(ParsedNode) /\ y[1] \in DOMAIN devs /\ y[2] \in SystemsOf(nodes)
  BY SystemPairs, DeviceFacts
<1>2. /\ layout \in Layout /\ Len(layout) = Len(Nested(devs, y))
      /\ Len(layout) \in Nat
  <2> HIDE DEF nodes
  <2>1. /\ layout \in Layout /\ Len(layout) = Len(NestedIOValues(nodes, y[2]))
        /\ Len(NestedIOValues(nodes, y[2])) \in Nat
    BY <1>1, LayoutType
  <2> QED
    BY <2>1 DEF Nested, nodes
<1>3. C \in Nat /\ place \in 1 .. C
  <2>1. place \in 1 .. Len(Nested(devs, y)) - 1 /\ Len(Nested(devs, y)) \in Nat
    BY ChartOfSystem
  <2> HIDE DEF layout, place
  <2> QED
    BY <1>2, <2>1 DEF ColumnCount
<1>4. layout \in Layouts
  <2>1. PICK d \in Told : nodes = Parse(d.description)
    BY <1>1 DEF Described
  <2> HIDE DEF nodes
  <2>2. nodes \in {Parse(e.description) : e \in UNION {Range(plan) : plan \in Plans}}
    BY <2>1 DEF Told
  <2> QED
    BY <1>1, <2>2 DEF Layouts
<1>5. rows \in Rows
  BY WebPageAssumption DEF Rows
<1>6. history = processEntries(layout, message, aggregate, odd)
  <2> HIDE DEF layout
  <2>1. history = Histories[layout][rows][aggregate][odd]
    BY DEF layout
  <2> QED
    BY <1>4, <2>1, Zenon DEF Histories, message
<1> HIDE DEF layout
<1>7. Len(message) \in Nat
  <2>1. IsSequence(message)
    BY <1>2, <1>3, <1>5, MessageSequence
  <2> HIDE DEF message
  <2>2. PICK S : message \in Seq(S)
    BY <2>1 DEF IsSequence
  <2> QED
    BY <2>2
<1>8. history \in HistoryOf(message, C, M) /\ Even(history, C, M)
  <2> HIDE DEF message
  <2> QED
    BY <1>2, <1>3, <1>6, <1>7, HistoryResult
<1>9. M \in Nat
  BY DEF Copies, aggregates_per_value
<1> HIDE DEF message, C, M, place
<1>10. history.values[place] \in [1 .. M -> Seq(Data(message))]
  BY <1>3, <1>8 DEF HistoryOf
<1>11. Len(history.values[place]) = M /\ DOMAIN history.values[place] = 1 .. M
  <2> DEFINE v == history.values[place]
             S == Seq(Data(message))
  <2>1. v \in [1 .. M -> S]
    BY <1>10
  <2> HIDE DEF v, S
  <2>2. DOMAIN v = 1 .. M
    BY <2>1
  <2>3. Len(v) = M
    BY <1>9, <2>1, SMT
  <2> QED
    BY <2>2, <2>3 DEF v
<1>12. ASSUME NEW m \in 1 .. M PROVE Len(history.values[place][m]) = Len(history.times)
  <2>1. place < C + 1
    BY <1>3
  <2> QED
    BY <1>3, <1>8, <2>1 DEF Even, Filled
<1> QED
  BY <1>11, <1>12 DEF setChartDatasets, M, place

\* The first and the only piece.
LEMMA OnePiece ==
  ASSUME NEW s, IsSequence(s), NEW seqs, DOMAIN seqs = 1 .. 1, seqs = [i \in 1 .. 1 |-> seqs[i]], seqs[1] = s
  PROVE  FlattenSeq(seqs) = s
<1>1. PICK S : s \in Seq(S)
  BY DEF IsSequence
<1>2. seqs \in Seq(Seq(S)) /\ Len(seqs) = 1
  <2> DEFINE T == Seq(S)
  <2>1. \A i \in 1 .. 1 : seqs[i] \in T
    BY <1>1
  <2> HIDE DEF T
  <2>2. seqs \in [1 .. 1 -> T]
    BY <2>1
  <2>3. seqs \in Seq(T) /\ Len(seqs) = 1
    BY <2>2
  <2> QED
    BY <2>3 DEF T
<1>3. PICK f : Joins(f, seqs, S) /\ FlattenSeq(seqs) = f[Len(seqs)]
  BY <1>2, FlattenSteps
<1>4. f[0] = <<>> /\ f[1] = f[0] \o s /\ FlattenSeq(seqs) = f[1]
  <2>1. 1 \in 1 .. Len(seqs) /\ 1 - 1 = 0
    BY <1>2
  <2>2. f[1] = f[1 - 1] \o seqs[1]
    BY <1>3, <2>1 DEF Joins
  <2> QED
    BY <1>2, <1>3, <2>1, <2>2 DEF Joins
<1>5. <<>> \o s = s
  BY <1>1
<1> QED
  BY <1>4, <1>5

\* The types and sizes of a system's values are those that devices send.
LEMMA SystemLayout ==
  ASSUME NEW devs, Described(devs), NEW y \in Systems(devs), NEW layout,
         layout = LayoutOf(devs[y[1]], y[2])
  PROVE  /\ layout \in Layout
         /\ \A n \in DOMAIN layout : <<layout[n].type, layout[n].size>> \in Formats
<1> DEFINE nodes == devs[y[1]]
           T == ValuesOf(nodes, y[2])
           nested == NestedIOValues(nodes, y[2])
<1>1. y[1] \in DOMAIN devs
  BY SystemPairs
<1>2. PICK d \in Told : nodes = Parse(d.description)
  BY <1>1 DEF Described
<1> DEFINE b == d.description
<1>3. WellFormed(b)
  BY ToldType
<1> HIDE DEF b
<1>4. /\ nodes \in Seq(ParsedNode) /\ Len(nodes) = Len(b) /\ DOMAIN b = 1 .. Len(b)
      /\ \A k \in 1 .. Len(b) : nodes[k].kind = b[k].kind /\ nodes[k].type = b[k].type
                                /\ nodes[k].size = b[k].size
  <2>1. b \in Seq(Node)
    BY <1>3, Zenon DEF WellFormed
  <2> QED
    BY <1>2, <1>3, <2>1, ParseResult DEF b
<1>5. \A k \in DOMAIN b : b[k].kind \in ValueKinds => <<b[k].type, b[k].size>> \in Formats
  BY <1>3, Zenon DEF WellFormed
<1> HIDE DEF nodes
<1>6. layout \in Layout
  BY <1>4, LayoutType DEF nodes
<1>7. nested \in Seq(T)
  BY <1>4, NestedValues
<1> HIDE DEF nested
<1>8. ASSUME NEW n \in DOMAIN layout PROVE <<layout[n].type, layout[n].size>> \in Formats
  <2>1. layout = [k \in DOMAIN nested |-> [type |-> nodes[nested[k]].type, size |-> nodes[nested[k]].size]]
    BY Zenon DEF LayoutOf, nodes, nested
  <2>2. n \in DOMAIN nested
    BY <2>1
  <2>3. nested[n] \in T
    BY <1>7, <2>2
  <2> DEFINE k == nested[n]
  <2>4. k \in 1 .. Len(b) /\ nodes[k].kind \in ValueKinds
    BY <1>4, <2>3 DEF T, ValuesOf
  <2>5. layout[n].type = nodes[k].type /\ layout[n].size = nodes[k].size
    BY <2>1, <2>2
  <2> HIDE DEF k
  <2> QED
    BY <1>4, <1>5, <2>4, <2>5
<1> QED
  BY <1>6, <1>8

\* The chart shows the rows in the lines of the value that is in this place.
ChartShows(chart, rows, aggregate, place) ==
  /\ chart.datasets = [m \in 1 .. Copies(aggregate) |-> chart.datasets[m]]
  /\ \A m \in 1 .. Copies(aggregate) :
       /\ IsSequence(chart.datasets[m])
       /\ LineShows(chart.labels, chart.datasets[m], rows, Len(rows), place, m, aggregate)

\* A history whose layout both sides understand alike.
LEMMA HistoryShown ==
  ASSUME NEW devs, Described(devs), NEW y \in Systems(devs),
         NEW rows \in RowSets, NEW aggregate \in BOOLEAN, NEW odd \in BOOLEAN,
         NEW layout, layout = LayoutOf(devs[y[1]], y[2]),
         aggregate => \A n \in DOMAIN layout : layout[n].type # "bool", Readable(layout, aggregate),
         NEW history, history = Histories[layout][rows][aggregate][odd],
         NEW c \in Charted(devs, y)
  PROVE  /\ ~ history.thrown
         /\ LET place == Place(devs, y, c)
            IN  ChartShows([labels |-> history.times, datasets |-> setChartDatasets(history, place)],
                           rows, aggregate, place)
<1> DEFINE nodes == devs[y[1]]
           message == getHistory(layout, rows, aggregate)
           C == ColumnCount(layout)
           M == Copies(aggregate)
           place == Place(devs, y, c)
<1>1. nodes \in Seq(ParsedNode) /\ y[1] \in DOMAIN devs /\ y[2] \in SystemsOf(nodes)
  BY SystemPairs, DeviceFacts
<1>2. /\ layout \in Layout
      /\ \A n \in DOMAIN layout : <<layout[n].type, layout[n].size>> \in Formats
  BY SystemLayout
<1>3. C \in Nat /\ place \in 1 .. C
  <2>1. place \in 1 .. Len(Nested(devs, y)) - 1 /\ Len(Nested(devs, y)) \in Nat
    BY ChartOfSystem
  <2>2. Len(layout) = Len(Nested(devs, y))
    BY <1>1, LayoutType DEF Nested
  <2> HIDE DEF place
  <2> QED
    BY <2>1, <2>2 DEF ColumnCount
<1>4. layout \in Layouts
  <2>1. PICK d \in Told : nodes = Parse(d.description)
    BY <1>1 DEF Described
  <2>2. layout = LayoutOf(nodes, y[2])
    OBVIOUS
  <2> HIDE DEF nodes
  <2>3. nodes \in {Parse(e.description) : e \in UNION {Range(plan) : plan \in Plans}}
    BY <2>1 DEF Told
  <2> QED
    BY <1>1, <2>2, <2>3 DEF Layouts
<1>5. rows \in Rows
  BY WebPageAssumption DEF Rows
<1>6. history = processEntries(layout, message, aggregate, odd)
  BY <1>4, Zenon DEF Histories, message
<1>7. Reading(layout, aggregate, message, C, M)
  <2>1. IsSequence(message)
    BY <1>2, <1>3, <1>5, MessageSequence
  <2>2. M \in Nat
    BY DEF Copies, aggregates_per_value
  <2>3. Understood(layout, aggregate)
    BY <1>2 DEF Understood
  <2> HIDE DEF message, M, C
  <2>4. C = ColumnCount(layout) /\ M = Copies(aggregate)
    BY DEF C, M
  <2> QED
    BY <1>3, <2>1, <2>2, <2>3, <2>4 DEF Reading
<1>8. Shows(message, history, rows, Len(rows), C, M, aggregate)
  <2>1. message = getHistory(layout, rows, aggregate)
    BY DEF message
  <2> HIDE DEF message, M, C
  <2> QED
    BY <1>5, <1>6, <1>7, <2>1, HistoryReads
<1> HIDE DEF message, M, C, place
<1>9. /\ history \in HistoryOf(message, C, M) /\ ~ history.thrown
      /\ \A m \in 1 .. M : LineShows(history.times, history.values[place][m], rows, Len(rows), place, m, aggregate)
  BY <1>3, <1>8 DEF Shows
<1> DEFINE datasets == history.values[place]
<1>10. datasets \in [1 .. M -> Seq(Data(message))]
  BY <1>3, <1>9 DEF HistoryOf
<1>11. datasets = [m \in 1 .. M |-> datasets[m]]
  <2> HIDE DEF datasets
  <2> QED
    BY <1>10
<1>12. \A m \in 1 .. M : IsSequence(datasets[m])
  <2> HIDE DEF datasets
  <2> QED
    BY <1>10 DEF IsSequence
<1> DEFINE chart == [labels |-> history.times, datasets |-> datasets]
<1>13. chart.labels = history.times /\ chart.datasets = datasets
  OBVIOUS
<1>14. ChartShows(chart, rows, aggregate, place)
  <2>1. \A m \in 1 .. M : LineShows(history.times, datasets[m], rows, Len(rows), place, m, aggregate)
    BY <1>9
  <2> HIDE DEF chart, datasets
  <2> QED
    BY <1>11, <1>12, <1>13, <2>1, Zenon DEF ChartShows, M
<1>15. datasets = setChartDatasets(history, place)
  BY DEF setChartDatasets
<1> QED
  BY <1>9, <1>14, <1>15 DEF place

-----------------------------------------------------------------------------
(* What the tree displays: a tree is the parent of each of its nodes, and a  *)
(* node is deeper than its parent and less high.                             *)

Deeper(t, depth) ==
  /\ depth \in [DOMAIN t -> Nat]
  /\ \A x \in DOMAIN t : t[x] \in DOMAIN t => depth[t[x]] < depth[x]

\* Below, for any tree.
Under(t, x) ==
  LET b[y \in DOMAIN t] == x = y \/ (t[y] \in DOMAIN t /\ b[t[y]])
  IN  {y \in DOMAIN t : b[y]}

\* The nodes at or below one are itself and those whose parent is.
LEMMA UnderSteps ==
  ASSUME NEW t, NEW x, NEW y \in DOMAIN t
  PROVE  y \in Under(t, x) <=> x = y \/ (t[y] \in DOMAIN t /\ t[y] \in Under(t, x))
<1> DEFINE D == DOMAIN t
           Closed(S) == /\ x \in D => x \in S
                        /\ \A z \in D : t[z] \in D /\ t[z] \in S => z \in S
           Reached == {z \in D : \A S \in SUBSET D : Closed(S) => z \in S}
           Value(b, z) == x = z \/ (t[z] \in D /\ b[t[z]])
           Defines(b) == b = [z \in D |-> Value(b, z)]
           g == [z \in D |-> z \in Reached]
           p == CHOOSE b : Defines(b)
<1>1. Closed(Reached)
  <2>1. x \in D => x \in Reached
    OBVIOUS
  <2>2. ASSUME NEW z \in D, t[z] \in D, t[z] \in Reached PROVE z \in Reached
    <3>1. ASSUME NEW S \in SUBSET D, Closed(S) PROVE z \in S
      <4>1. t[z] \in S
        BY <2>2, <3>1
      <4> QED
        BY <2>2, <3>1, <4>1
    <3> HIDE DEF Closed
    <3> QED
      BY <3>1
  <2> HIDE DEF Reached
  <2> QED
    BY <2>1, <2>2
<1>2. ASSUME NEW z \in Reached PROVE x = z \/ (t[z] \in D /\ t[z] \in Reached)
  <2> DEFINE S == {u \in D : x = u \/ (t[u] \in D /\ t[u] \in Reached)}
  <2>1. ASSUME NEW u \in D, t[u] \in D, t[u] \in S PROVE u \in S
    <3>1. t[u] \in Reached
      <4>1. CASE x = t[u]
        BY <1>1, <2>1, <4>1
      <4>2. CASE t[t[u]] \in D /\ t[t[u]] \in Reached
        <5> HIDE DEF Reached
        <5> QED
          BY <1>1, <2>1, <4>2
      <4> QED
        BY <2>1, <4>1, <4>2
    <3> HIDE DEF Reached
    <3> QED
      BY <2>1, <3>1
  <2>2. Closed(S) /\ S \in SUBSET D
    <3> HIDE DEF Reached
    <3> QED
      BY <2>1
  <2>3. z \in S
    <3> HIDE DEF S, Closed
    <3> QED
      BY <2>2
  <2> QED
    BY <2>3
<1>3. Defines(g)
  <2>1. ASSUME NEW z \in D PROVE (z \in Reached) = Value(g, z)
    <3>1. t[z] \in D => (g[t[z]] <=> t[z] \in Reached)
      <4> HIDE DEF Reached
      <4> QED
        OBVIOUS
    <3>2. z \in Reached <=> x = z \/ (t[z] \in D /\ t[z] \in Reached)
      <4> HIDE DEF Reached
      <4> QED
        BY <1>1, <1>2, <2>1
    <3> HIDE DEF Reached, g
    <3>3. Value(g, z) <=> x = z \/ (t[z] \in D /\ g[t[z]])
      BY Zenon
    <3>4. Value(g, z) <=> z \in Reached
      BY <3>1, <3>2, <3>3, Zenon
    <3>5. Value(g, z) \in BOOLEAN
      BY Zenon
    <3> HIDE DEF Value
    <3> QED
      BY <3>4, <3>5
  <2> HIDE DEF Reached, Value
  <2> QED
    BY <2>1, Zenon
<1>4. Defines(p)
  <2> HIDE DEF Defines
  <2> QED
    BY <1>3, Zenon
<1>5. Under(t, x) = {z \in D : p[z]}
  BY Zenon DEF Under
<1> HIDE DEF p
<1>6. \A z \in D : p[z] = Value(p, z)
  BY <1>4, Zenon
<1>7. p[y] = (x = y \/ (t[y] \in D /\ p[t[y]]))
  BY <1>6, Zenon
<1> QED
  BY <1>5, <1>7, Zenon

LEMMA UnderWithin ==
  ASSUME NEW t, NEW x
  PROVE  Under(t, x) \subseteq DOMAIN t
BY Zenon DEF Under

\* Below a node are the nodes below its children.
LEMMA UnderChild ==
  ASSUME NEW t, NEW depth, Deeper(t, depth), NEW x \in DOMAIN t, NEW y \in DOMAIN t, t[y] = x
  PROVE  Under(t, y) \subseteq Under(t, x)
<1> DEFINE D == DOMAIN t
           Bad == {z \in D : z \in Under(t, y) /\ z \notin Under(t, x)}
           T == {depth[z] : z \in Bad}
<1>1. Bad = {}
  <2> SUFFICES ASSUME Bad # {} PROVE FALSE
    OBVIOUS
  <2>1. T \subseteq Nat /\ T # {}
    BY DEF Deeper
  <2>2. PICK n \in T : \A m \in T : n <= m
    <3> HIDE DEF T
    <3> QED
      BY <2>1, Least
  <2>3. PICK z \in Bad : n = depth[z]
    OBVIOUS
  <2>4. z \in D /\ z \in Under(t, y) /\ z \notin Under(t, x)
    OBVIOUS
  <2>5. z # y
    <3>1. x \in Under(t, x)
      BY UnderSteps
    <3>2. y \in Under(t, x)
      BY <3>1, UnderSteps
    <3> QED
      BY <2>4, <3>2
  <2>6. t[z] \in D /\ t[z] \in Under(t, y)
    BY <2>4, <2>5, UnderSteps
  <2>7. t[z] \notin Under(t, x)
    BY <2>4, <2>6, UnderSteps
  <2>8. t[z] \in Bad
    BY <2>6, <2>7
  <2>9. depth[t[z]] < depth[z] /\ depth[t[z]] \in Nat /\ depth[z] \in Nat
    BY <2>4, <2>6 DEF Deeper
  <2>10. depth[t[z]] \in T
    BY <2>8
  <2>11. n <= depth[t[z]]
    BY <2>2, <2>10
  <2> QED
    BY <2>3, <2>9, <2>11
<1> QED
  BY <1>1, UnderWithin

\* A node below another is below one of its children.
LEMMA UnderOneChild ==
  ASSUME NEW t, NEW depth, Deeper(t, depth), NEW x \in DOMAIN t,
         NEW w \in Under(t, x), w # x
  PROVE  \E y \in DOMAIN t : t[y] = x /\ w \in Under(t, y)
<1> DEFINE D == DOMAIN t
           Child(z) == \E y \in D : t[y] = x /\ z \in Under(t, y)
           Bad == {z \in D : z \in Under(t, x) /\ z # x /\ ~ Child(z)}
           T == {depth[z] : z \in Bad}
<1>1. Bad = {}
  <2> SUFFICES ASSUME Bad # {} PROVE FALSE
    OBVIOUS
  <2>1. T \subseteq Nat /\ T # {}
    <3> HIDE DEF Child
    <3> QED
      BY DEF Deeper
  <2>2. PICK n \in T : \A m \in T : n <= m
    <3> HIDE DEF T
    <3> QED
      BY <2>1, Least
  <2>3. PICK z \in Bad : n = depth[z]
    OBVIOUS
  <2>4. z \in D /\ z \in Under(t, x) /\ z # x /\ ~ Child(z)
    OBVIOUS
  <2>5. t[z] \in D /\ t[z] \in Under(t, x)
    BY <2>4, UnderSteps
  <2>6. t[z] # x
    <3>1. z \in Under(t, z)
      BY <2>4, UnderSteps
    <3> QED
      BY <2>4, <3>1
  <2>7. ~ Child(t[z])
    <3> SUFFICES ASSUME NEW y \in D, t[y] = x, t[z] \in Under(t, y) PROVE FALSE
      OBVIOUS
    <3>1. z \in Under(t, y)
      BY <2>4, <2>5, UnderSteps
    <3> QED
      BY <2>4, <3>1
  <2> HIDE DEF Child
  <2>8. t[z] \in Bad
    BY <2>5, <2>6, <2>7
  <2>9. depth[t[z]] < depth[z] /\ depth[t[z]] \in Nat /\ depth[z] \in Nat
    BY <2>4, <2>5 DEF Deeper
  <2>10. depth[t[z]] \in T
    BY <2>8
  <2>11. n <= depth[t[z]]
    BY <2>2, <2>10
  <2> QED
    BY <2>3, <2>9, <2>11
<1>2. w \in D
  BY UnderWithin
<1> QED
  BY <1>1, <1>2

\* The height of a node that is below another.
Higher(t, height) ==
  /\ height \in [DOMAIN t -> Nat]
  /\ \A x \in DOMAIN t : t[x] \in DOMAIN t => height[x] < height[t[x]]

\* What has a dashboard is displayed when it is chosen or a child is displayed.
LEMMA VisibleSteps ==
  ASSUME NEW t, NEW depth, Deeper(t, depth), NEW panels, DOMAIN t \subseteq panels,
         NEW chosen, NEW x \in DOMAIN t
  PROVE  Visible(t, panels, chosen)[x] <=>
           x \in chosen \/ \E y \in DOMAIN t : t[y] = x /\ Visible(t, panels, chosen)[y]
<1> DEFINE D == DOMAIN t
           Value(v, z) == /\ z \in panels
                          /\ z \in chosen \/ \E y \in D : t[y] = z /\ v[y]
           Defines(v) == v = [z \in D |-> Value(v, z)]
           Shown == {z \in D : \E w \in Under(t, z) : w \in chosen}
           g == [z \in D |-> z \in Shown]
           p == CHOOSE v : Defines(v)
<1>1. ASSUME NEW z \in D
      PROVE  z \in Shown <=> z \in chosen \/ \E y \in D : t[y] = z /\ y \in Shown
  <2>1. ASSUME z \in Shown, z \notin chosen PROVE \E y \in D : t[y] = z /\ y \in Shown
    <3>1. PICK w \in Under(t, z) : w \in chosen
      BY <2>1
    <3>2. w # z
      BY <2>1, <3>1
    <3>3. PICK y \in D : t[y] = z /\ w \in Under(t, y)
      BY <3>2, UnderOneChild
    <3> QED
      BY <3>1, <3>3
  <2>2. ASSUME z \in chosen PROVE z \in Shown
    <3>1. z \in Under(t, z)
      BY UnderSteps
    <3> QED
      BY <2>2, <3>1
  <2>3. ASSUME NEW y \in D, t[y] = z, y \in Shown PROVE z \in Shown
    <3>1. PICK w \in Under(t, y) : w \in chosen
      BY <2>3
    <3>2. w \in Under(t, z)
      BY <2>3, <3>1, UnderChild
    <3> QED
      BY <3>1, <3>2
  <2> QED
    BY <2>1, <2>2, <2>3
<1>2. Defines(g)
  <2>1. ASSUME NEW z \in D PROVE (z \in Shown) = Value(g, z)
    <3>1. \A y \in D : g[y] <=> y \in Shown
      <4> HIDE DEF Shown
      <4> QED
        OBVIOUS
    <3>2. z \in panels
      OBVIOUS
    <3> HIDE DEF Shown, g
    <3>3. Value(g, z) <=> z \in Shown
      BY <1>1, <3>1, <3>2, Zenon
    <3>4. Value(g, z) \in BOOLEAN
      BY Zenon
    <3> HIDE DEF Value
    <3> QED
      BY <3>3, <3>4
  <2> HIDE DEF Shown, Value
  <2> QED
    BY <2>1, Zenon
<1>3. Defines(p)
  <2> HIDE DEF Defines
  <2> QED
    BY <1>2, Zenon
<1>4. Visible(t, panels, chosen) = p
  BY Zenon DEF Visible
<1> HIDE DEF p
<1>5. \A z \in D : p[z] = Value(p, z)
  BY <1>3, Zenon
<1>6. x \in panels
  OBVIOUS
<1>7. p[x] <=> x \in chosen \/ \E y \in D : t[y] = x /\ p[y]
  BY <1>5, <1>6, Zenon
<1> QED
  BY <1>4, <1>7, Zenon

\* Then a node is displayed when one at or below it is chosen, and only then.
LEMMA VisibleBelow ==
  ASSUME NEW t, NEW depth, Deeper(t, depth), NEW height, Higher(t, height),
         NEW panels, DOMAIN t \subseteq panels,
         NEW chosen, chosen \subseteq DOMAIN t, NEW x \in DOMAIN t
  PROVE  Visible(t, panels, chosen)[x] <=> \E w \in Under(t, x) : w \in chosen
<1> DEFINE D == DOMAIN t
           Shown == {z \in D : Visible(t, panels, chosen)[z]}
           Chosen(z) == \E w \in Under(t, z) : w \in chosen
<1>1. \A z \in D : z \in Shown <=> z \in chosen \/ \E y \in D : t[y] = z /\ y \in Shown
  <2> TAKE z \in D
  <2>1. Visible(t, panels, chosen)[z] <=>
          z \in chosen \/ \E y \in D : t[y] = z /\ Visible(t, panels, chosen)[y]
    BY VisibleSteps
  <2> QED
    BY <2>1, Zenon
<1>2. x \in Shown <=> Visible(t, panels, chosen)[x]
  BY Zenon
<1> HIDE DEF Shown
\* Upwards from a chosen node, all are displayed.
<1>3. ASSUME Chosen(x) PROVE x \in Shown
  <2> DEFINE Way == {z \in D : z \in Under(t, x) /\ z \in Shown}
             T == {depth[z] : z \in Way}
  <2>1. PICK w \in Under(t, x) : w \in chosen
    BY <1>3
  <2>2. w \in Way
    BY <1>1, <2>1
  <2>3. T \subseteq Nat /\ T # {}
    BY <2>2 DEF Deeper
  <2>4. PICK n \in T : \A m \in T : n <= m
    <3> HIDE DEF T
    <3> QED
      BY <2>3, Least
  <2>5. PICK z \in Way : n = depth[z]
    OBVIOUS
  <2>6. ASSUME z # x PROVE FALSE
    <3>1. t[z] \in D /\ t[z] \in Under(t, x)
      BY <2>6, UnderSteps
    <3>2. t[z] \in Shown
      BY <1>1, <3>1
    <3>3. t[z] \in Way
      BY <3>1, <3>2
    <3>4. depth[t[z]] < depth[z] /\ depth[t[z]] \in Nat /\ depth[z] \in Nat
      BY <3>1 DEF Deeper
    <3>5. depth[t[z]] \in T
      BY <3>3
    <3>6. n <= depth[t[z]]
      BY <2>4, <3>5
    <3> QED
      BY <2>5, <3>4, <3>6
  <2> QED
    BY <2>5, <2>6
\* Downwards from a node that is displayed, one is chosen.
<1>4. ASSUME x \in Shown PROVE Chosen(x)
  <2> SUFFICES ASSUME ~ Chosen(x) PROVE FALSE
    OBVIOUS
  <2> DEFINE Bad == {z \in D : z \in Shown /\ ~ Chosen(z)}
             T == {height[z] : z \in Bad}
  <2>1. x \in Bad
    BY <1>4
  <2>2. T \subseteq Nat /\ T # {}
    <3> HIDE DEF Chosen
    <3> QED
      BY <2>1 DEF Higher
  <2>3. PICK n \in T : \A m \in T : n <= m
    <3> HIDE DEF T
    <3> QED
      BY <2>2, Least
  <2>4. PICK z \in Bad : n = height[z]
    OBVIOUS
  <2>5. z \in D /\ z \in Shown /\ ~ Chosen(z)
    OBVIOUS
  <2>6. z \notin chosen
    <3>1. z \in Under(t, z)
      BY <2>5, UnderSteps
    <3> QED
      BY <2>5, <3>1
  <2>7. PICK y \in D : t[y] = z /\ y \in Shown
    BY <1>1, <2>5, <2>6
  <2>8. ~ Chosen(y)
    <3>1. Under(t, y) \subseteq Under(t, z)
      BY <2>5, <2>7, UnderChild
    <3> QED
      BY <2>5, <3>1
  <2> HIDE DEF Chosen
  <2>9. y \in Bad
    BY <2>7, <2>8
  <2>10. height[y] < height[z] /\ height[y] \in Nat /\ height[z] \in Nat
    BY <2>5, <2>7 DEF Higher
  <2>11. height[y] \in T
    BY <2>9
  <2>12. n <= height[y]
    BY <2>3, <2>11
  <2> QED
    BY <2>4, <2>10, <2>12
<1> QED
  BY <1>2, <1>3, <1>4

-----------------------------------------------------------------------------
(* The invariant.                                                            *)

\* What holds of the page after every event. What its charts and axes show is
\* only right because the devices on it have come out of descriptions.
PageInv ==
  /\ inbox \in Seq(Told)
  /\ Described(devices)
  /\ TypeOK
  /\ LabelsMatchData
  /\ AxesAgree

LEMMA TreeOfDevices ==
  ASSUME Described(devices)
  PROVE  /\ \A i \in DOMAIN devices : \A k \in DOMAIN devices[i] :
              devices[i][k].kind \in Kinds /\ devices[i][k].parent \in 0 .. k - 1
         /\ GroupsComplete
BY DeviceFacts DEF GroupsComplete

LEMMA InitPage == Init => PageInv
<1> SUFFICES ASSUME Init PROVE PageInv
  OBVIOUS
<1>1. inbox \in Seq(Told)
  BY ToldType DEF Init
<1>2. DOMAIN devices = {} /\ DOMAIN charts = {} /\ DOMAIN axis = {} /\ DOMAIN chartmeta = {}
      /\ DOMAIN sent = {} /\ DOMAIN tree = {}
  BY DEF Init
<1>3. Described(devices)
  BY <1>2 DEF Described
<1>4. Systems(devices) = {}
  BY <1>2 DEF Systems
<1>5. Charts(devices) = {}
  BY <1>4 DEF Charts
<1>6. TypeOK
  BY <1>2, <1>3, <1>4, <1>5, TreeOfDevices DEF TypeOK, Init
<1>7. LabelsMatchData /\ AxesAgree
  BY <1>2, <1>4 DEF LabelsMatchData, AxesAgree
<1> QED
  BY <1>1, <1>3, <1>6, <1>7 DEF PageInv

LEMMA ReceiveDescriptionPage == PageInv /\ ReceiveDescription => PageInv'
<1> SUFFICES ASSUME PageInv, ReceiveDescription PROVE PageInv'
  OBVIOUS
<1> DEFINE d == Head(inbox)
           i == Head(inbox).index
           new == [j \in DOMAIN devices \cup {i} |->
                     IF j = i THEN Parse(Head(inbox).description) ELSE devices[j]]
<1>1. /\ inbox # <<>>
      /\ inbox' = Tail(inbox)
      /\ devices' = new
      /\ charts' = [c \in Charts(new) |-> Blank]
      /\ axis' = [c \in Charts(new) |-> [min |-> 0, max |-> 0]]
      /\ chartmeta' = [y \in Systems(new) |-> IF y[1] = i THEN Extent(<<>>) ELSE chartmeta[y]]
      /\ dashboards' = Panels(new)
      /\ sent' = [y \in Systems(new) |-> Null]
      /\ tree' = <<>>
      /\ selected' = {}
      /\ refreshing' = TRUE
  BY Zenon DEF ReceiveDescription
<1>2. d \in Told /\ inbox' \in Seq(Told)
  <2>1. inbox \in Seq(Told)
    BY DEF PageInv
  <2> HIDE DEF new
  <2> QED
    BY <1>1, <2>1
<1>3. Described(new)
  <2>1. ASSUME NEW j \in DOMAIN new PROVE \E e \in Told : new[j] = Parse(e.description)
    <3>1. CASE j = i
      <4>1. new[j] = Parse(d.description)
        BY <3>1
      <4> QED
        BY <1>2, <4>1
    <3>2. CASE j # i
      <4>1. j \in DOMAIN devices /\ new[j] = devices[j]
        BY <3>2
      <4> QED
        BY <4>1 DEF PageInv, Described
    <3> QED
      BY <3>1, <3>2
  <2> HIDE DEF new
  <2> QED
    BY <2>1 DEF Described
<1> HIDE DEF new, i
<1>4. Described(devices)'
  BY <1>1, <1>3 DEF Described
<1>5. DOMAIN charts' = Charts(devices') /\ DOMAIN axis' = Charts(devices')
      /\ DOMAIN chartmeta' = Systems(devices') /\ DOMAIN sent' = Systems(devices')
      /\ DOMAIN tree' = {} /\ dashboards' = Panels(devices')
  BY <1>1
<1>6. ASSUME NEW c \in Charts(devices')
      PROVE  charts'[c] = Blank /\ axis'[c] = [min |-> 0, max |-> 0]
  BY <1>1
<1>7. Blank.datasets = <<>> /\ Len(Blank.datasets) = 0 /\ DOMAIN Blank.datasets = {}
  BY DEF Blank
<1>8. (/\ \A j \in DOMAIN devices : \A k \in DOMAIN devices[j] :
            devices[j][k].kind \in Kinds /\ devices[j][k].parent \in 0 .. k - 1
       /\ GroupsComplete)'
  <2>1. ASSUME NEW j \in DOMAIN devices', NEW k \in DOMAIN devices'[j]
        PROVE  /\ devices'[j][k].kind \in Kinds
               /\ devices'[j][k].parent \in 0 .. k - 1
               /\ Cardinality(Members(devices'[j], k)) = devices'[j][k].members
    BY <1>1, <1>3, DeviceFacts
  <2> QED
    BY <2>1 DEF GroupsComplete
<1>9. TypeOK'
  BY <1>1, <1>5, <1>6, <1>7, <1>8 DEF TypeOK
<1>10. LabelsMatchData'
  BY <1>5, <1>6, <1>7 DEF LabelsMatchData
<1>11. AxesAgree'
  <2>1. ASSUME NEW y \in Systems(devices'), NEW c \in Charted(devices', y)
        PROVE  c \in Charts(devices')
    BY DEF Charts
  <2> QED
    BY <1>6, <2>1 DEF AxesAgree
<1> QED
  BY <1>2, <1>4, <1>9, <1>10, <1>11 DEF PageInv

LEMMA AfterChangeWithin ==
  ASSUME NEW nodes, NEW panels, NEW chosen, NEW before
  PROVE  AfterChange(nodes, panels, chosen, before) \subseteq panels
BY DEF AfterChange

LEMMA RefreshPage == PageInv /\ Refresh => PageInv'
<1> SUFFICES ASSUME PageInv, Refresh PROVE PageInv'
  OBVIOUS
<1>1. /\ refreshing' = FALSE
      /\ tree' = TreeData(devices)
      /\ selected' = DOMAIN tree'
      /\ dashboards' = AfterChange(tree', Panels(devices), selected', dashboards)
      /\ UNCHANGED <<inbox, devices, charts, axis, chartmeta, request, sent>>
  BY DEF Refresh
<1>2. DOMAIN tree' = TreeIds(devices')
  BY <1>1 DEF TreeData
<1>3. dashboards' \subseteq Panels(devices')
  BY <1>1, AfterChangeWithin
<1>4. TypeOK'
  BY <1>1, <1>2, <1>3 DEF PageInv, TypeOK, GroupsComplete
<1> QED
  BY <1>1, <1>4 DEF PageInv, Described, LabelsMatchData, AxesAgree

LEMMA SelectPage ==
  ASSUME PageInv, NEW chosen, Select(chosen)
  PROVE  PageInv'
<1>1. /\ selected' = Checked(chosen)
      /\ dashboards' = AfterChange(tree, Panels(devices), selected', dashboards)
      /\ UNCHANGED <<inbox, devices, charts, axis, chartmeta, tree, refreshing, request, sent>>
  BY DEF Select
<1>2. selected' \subseteq DOMAIN tree'
  BY <1>1 DEF Checked
<1>3. dashboards' \subseteq Panels(devices')
  BY <1>1, AfterChangeWithin
<1>4. TypeOK'
  BY <1>1, <1>2, <1>3 DEF PageInv, TypeOK, GroupsComplete
<1> QED
  BY <1>1, <1>4 DEF PageInv, Described, LabelsMatchData, AxesAgree

\* Charts get their ranges system by system, so that those of one system have
\* the same.
LEMMA SameRange ==
  ASSUME PageInv, NEW y \in Systems(devices), NEW z,
         axis' = [c \in Charts(devices) |-> IF c \in Charted(devices, y) THEN z ELSE axis[c]],
         devices' = devices
  PROVE  AxesAgree'
<1>1. Described(devices)
  BY DEF PageInv
<1>2. ASSUME NEW x \in Systems(devices), NEW c \in Charted(devices, x), NEW d \in Charted(devices, x)
      PROVE  axis'[c] = axis'[d]
  <2>1. c \in Charts(devices) /\ d \in Charts(devices)
    BY DEF Charts
  <2>2. CASE x = y
    BY <2>1, <2>2
  <2>3. CASE x # y
    <3>1. c \notin Charted(devices, y) /\ d \notin Charted(devices, y)
      BY <1>1, <2>3, OneSystem
    <3>2. axis[c] = axis[d]
      BY DEF PageInv, AxesAgree
    <3> QED
      BY <2>1, <3>1, <3>2
  <2> QED
    BY <2>2, <2>3
<1> QED
  BY <1>2 DEF AxesAgree

LEMMA ZoomPage ==
  ASSUME PageInv, NEW c, NEW z, Zoom(c, z)
  PROVE  PageInv'
<1>1. PICK y \in Systems(devices) : updateChartXAxis(y, z)
  BY DEF Zoom
<1>2. /\ axis' = [d \in Charts(devices) |-> IF d \in Charted(devices, y) THEN z ELSE axis[d]]
      /\ UNCHANGED <<inbox, devices, charts, chartmeta, tree, refreshing, selected, dashboards, sent>>
  BY <1>1 DEF updateChartXAxis, Zoom
<1>3. AxesAgree'
  BY <1>2, SameRange
<1>4. DOMAIN axis' = Charts(devices')
  BY <1>2
<1>5. TypeOK'
  BY <1>2, <1>4 DEF PageInv, TypeOK, GroupsComplete
<1> QED
  BY <1>2, <1>3, <1>5 DEF PageInv, Described, LabelsMatchData

LEMMA ResetXPage == PageInv /\ ResetX => PageInv'
<1> SUFFICES ASSUME PageInv, ResetX PROVE PageInv'
  OBVIOUS
<1>1. /\ axis' = [c \in Charts(devices) |-> resetChartXAxis(c)]
      /\ UNCHANGED <<inbox, devices, charts, chartmeta, tree, refreshing, selected, dashboards, sent>>
  BY DEF ResetX
<1>2. Described(devices)
  BY DEF PageInv
<1>3. ASSUME NEW y \in Systems(devices), NEW c \in Charted(devices, y)
      PROVE  axis'[c] = chartmeta[y]
  <2>1. c \in Charts(devices)
    BY DEF Charts
  <2> DEFINE x == CHOOSE x \in Systems(devices) : c \in Charted(devices, x)
  <2>2. x \in Systems(devices) /\ c \in Charted(devices, x)
    OBVIOUS
  <2>3. axis'[c] = chartmeta[x]
    BY <1>1, <2>1 DEF resetChartXAxis
  <2> HIDE DEF x
  <2>4. x = y
    BY <1>2, <2>2, OneSystem
  <2> QED
    BY <2>3, <2>4
<1>4. AxesAgree'
  BY <1>1, <1>3 DEF AxesAgree
<1>5. DOMAIN axis' = Charts(devices')
  BY <1>1
<1>6. TypeOK'
  BY <1>1, <1>5 DEF PageInv, TypeOK, GroupsComplete
<1> QED
  BY <1>1, <1>4, <1>6 DEF PageInv, Described, LabelsMatchData

LEMMA ReceiveHistoryPage ==
  ASSUME PageInv, NEW y \in Systems(devices), NEW rows \in RowSets,
         NEW aggregate \in BOOLEAN, NEW odd \in BOOLEAN, ReceiveHistory(y, rows, aggregate, odd)
  PROVE  PageInv'
<1> DEFINE layout == LayoutOf(devices[y[1]], y[2])
           history == Histories[layout][rows][aggregate][odd]
           ends == Extent(history.times)
           shown == Charted(devices, y)
<1>1. /\ IF history.thrown THEN UNCHANGED <<chartmeta, axis, charts>> ELSE setChart(y, history)
      /\ sent' = [sent EXCEPT ![y] = [rows |-> rows, aggregate |-> aggregate]]
      /\ UNCHANGED <<inbox, devices, tree, refreshing, selected, dashboards, request>>
  BY DEF ReceiveHistory
<1>2. Described(devices)
  BY DEF PageInv
<1> HIDE DEF layout
<1>3. CASE history.thrown
  <2> HIDE DEF history
  <2>1. UNCHANGED <<chartmeta, axis, charts>>
    BY <1>1, <1>3
  <2>2. DOMAIN sent' = DOMAIN sent
    BY <1>1
  <2>3. TypeOK'
    BY <1>1, <2>1, <2>2 DEF PageInv, TypeOK, GroupsComplete
  <2> QED
    BY <1>1, <2>1, <2>3 DEF PageInv, Described, LabelsMatchData, AxesAgree
<1>4. CASE ~ history.thrown
  <2>1. /\ chartmeta' = [chartmeta EXCEPT ![y] = ends]
        /\ axis' = [c \in Charts(devices) |-> IF c \in shown THEN ends ELSE axis[c]]
        /\ charts' = [c \in Charts(devices) |->
                        IF c \in shown
                        THEN [labels |-> history.times,
                              datasets |-> setChartDatasets(history, Place(devices, y, c))]
                        ELSE charts[c]]
    <3> HIDE DEF history
    <3>1. setChart(y, history)
      BY <1>1, <1>4
    <3> QED
      BY <3>1, Zenon DEF setChart
  <2>2. ASSUME NEW c \in shown
        PROVE  LET datasets == setChartDatasets(history, Place(devices, y, c))
               IN  /\ Len(datasets) = Copies(aggregate)
                   /\ DOMAIN datasets = 1 .. Copies(aggregate)
                   /\ \A m \in 1 .. Copies(aggregate) : Len(datasets[m]) = Len(history.times)
    <3>1. history = Histories[LayoutOf(devices[y[1]], y[2])][rows][aggregate][odd]
      BY Zenon DEF layout
    <3>2. c \in Charted(devices, y) /\ ~ history.thrown
      BY <1>4, Zenon
    <3> HIDE DEF history
    <3> QED
      BY <1>2, <3>1, <3>2, HistoryOnChart
  <2> HIDE DEF history
  <2>3. ASSUME NEW c \in Charts(devices), c \in shown
        PROVE  /\ Len(charts'[c].datasets) \in {0, 1, aggregates_per_value}
               /\ \A m \in DOMAIN charts'[c].datasets :
                    Len(charts'[c].datasets[m]) = Len(charts'[c].labels)
    <3> DEFINE datasets == setChartDatasets(history, Place(devices, y, c))
    <3>1. charts'[c].labels = history.times /\ charts'[c].datasets = datasets
      BY <2>1, <2>3
    <3>2. /\ Len(datasets) = Copies(aggregate)
          /\ DOMAIN datasets = 1 .. Copies(aggregate)
          /\ \A m \in 1 .. Copies(aggregate) : Len(datasets[m]) = Len(history.times)
      BY <2>2, <2>3
    <3> HIDE DEF datasets
    <3> QED
      BY <3>1, <3>2 DEF Copies
  <2>4. ASSUME NEW c \in Charts(devices), c \notin shown
        PROVE  charts'[c] = charts[c]
    BY <2>1, <2>4
  <2>5. DOMAIN charts' = Charts(devices) /\ DOMAIN axis' = Charts(devices)
        /\ DOMAIN chartmeta' = DOMAIN chartmeta /\ DOMAIN sent' = DOMAIN sent
    BY <1>1, <2>1
  <2>6. ASSUME NEW c \in Charts(devices)
        PROVE  /\ Len(charts'[c].datasets) \in {0, 1, aggregates_per_value}
               /\ \A m \in DOMAIN charts'[c].datasets :
                    Len(charts'[c].datasets[m]) = Len(charts'[c].labels)
    BY <2>3, <2>4 DEF PageInv, TypeOK, LabelsMatchData
  <2>7. LabelsMatchData'
    BY <2>5, <2>6 DEF LabelsMatchData
  <2>8. AxesAgree'
    <3> HIDE DEF ends
    <3> QED
      BY <1>1, <2>1, SameRange
  <2>9. TypeOK'
    BY <1>1, <2>5, <2>6 DEF PageInv, TypeOK, GroupsComplete
  <2> QED
    BY <1>1, <2>7, <2>8, <2>9 DEF PageInv, Described
<1> QED
  BY <1>3, <1>4

LEMMA PageStep == PageInv /\ [Next]_vars => PageInv'
<1> SUFFICES ASSUME PageInv, [Next]_vars PROVE PageInv'
  OBVIOUS
<1>1. CASE ReceiveDescription
  BY <1>1, ReceiveDescriptionPage
<1>2. CASE Refresh
  BY <1>2, RefreshPage
<1>3. CASE \E chosen \in SUBSET Leaves : Select(chosen)
  BY <1>3, SelectPage
<1>4. CASE \E c \in Charts(devices), z \in Zooms : Zoom(c, z)
  BY <1>4, ZoomPage
<1>5. CASE ResetX
  BY <1>5, ResetXPage
<1>6. CASE \E y \in Systems(devices), rows \in RowSets, aggregate, odd \in BOOLEAN :
             ReceiveHistory(y, rows, aggregate, odd)
  BY <1>6, ReceiveHistoryPage
<1>7. CASE UNCHANGED vars
  BY <1>7 DEF vars, PageInv, Described, TypeOK, GroupsComplete, LabelsMatchData, AxesAgree
<1> QED
  BY <1>1, <1>2, <1>3, <1>4, <1>5, <1>6, <1>7 DEF Next

LEMMA PageInvariant == Spec => []PageInv
<1> QED
  BY InitPage, PageStep, PTL DEF Spec

\* The page keeps its types: exactly the values of the devices on it have charts,
\* and every group of the nodes that receivePassthrough has made of any
\* description has the members it was announced with.
THEOREM TypeCorrect == Spec => []TypeOK
<1>1. PageInv => TypeOK
  BY DEF PageInv
<1> QED
  BY <1>1, PageInvariant, PTL

\* A chart has a label for each entry of its data (AggregateHistory, RawHistory
\* and startNewEpoch in uDAQC_IO.js), whatever the layout of the system, the rows
\* of the history and the bytes that are misread.
THEOREM LabelsMatch == Spec => []LabelsMatchData
<1>1. PageInv => LabelsMatchData
  BY DEF PageInv
<1> QED
  BY <1>1, PageInvariant, PTL

\* The charts of one system keep the same range (updateChartXAxis, resetX and
\* setChart in uDAQC_charts.js and uDAQC_IO.js).
THEOREM AxesStayTogether == Spec => []AxesAgree
<1>1. PageInv => AxesAgree
  BY DEF PageInv
<1> QED
  BY <1>1, PageInvariant, PTL

-----------------------------------------------------------------------------
(* The rows on the charts.                                                   *)

\* What the last history of each system has left on its charts.
Charting ==
  \A y \in Systems(devices) : Legible(y) =>
    LET rows == sent[y].rows
        aggregate == sent[y].aggregate
    IN  /\ rows \in Rows /\ aggregate \in BOOLEAN
        /\ \A c \in Charted(devices, y) : ChartShows(charts[c], rows, aggregate, Place(devices, y, c))

ChartInv == PageInv /\ Charting

LEMMA InitCharts == Init => Charting
<1> SUFFICES ASSUME Init PROVE Charting
  OBVIOUS
<1>1. DOMAIN devices = {}
  BY DEF Init
<1>2. Systems(devices) = {}
  BY <1>1 DEF Systems
<1> QED
  BY <1>2 DEF Charting

\* A new description leaves no history.
LEMMA ReceiveDescriptionCharts == ReceiveDescription => Charting'
<1> SUFFICES ASSUME ReceiveDescription PROVE Charting'
  OBVIOUS
<1>1. sent' = [y \in Systems(devices') |-> Null]
  BY Zenon DEF ReceiveDescription
<1>2. ASSUME NEW y \in Systems(devices') PROVE sent'[y] = Null
  BY <1>1, <1>2
<1> QED
  BY <1>2, Zenon DEF Charting, Legible

LEMMA ReceiveHistoryCharts ==
  ASSUME ChartInv, NEW y \in Systems(devices), NEW rows \in RowSets,
         NEW aggregate \in BOOLEAN, NEW odd \in BOOLEAN, ReceiveHistory(y, rows, aggregate, odd)
  PROVE  Charting'
<1> DEFINE layout == LayoutOf(devices[y[1]], y[2])
           history == Histories[layout][rows][aggregate][odd]
<1>1. /\ aggregate => \A n \in DOMAIN layout : layout[n].type # "bool"
      /\ IF history.thrown THEN UNCHANGED <<chartmeta, axis, charts>> ELSE setChart(y, history)
      /\ sent' = [sent EXCEPT ![y] = [rows |-> rows, aggregate |-> aggregate]]
      /\ devices' = devices
  BY Zenon DEF ReceiveHistory
<1>2. Described(devices) /\ DOMAIN sent = Systems(devices)
  BY DEF ChartInv, PageInv, TypeOK
<1>3. history = Histories[layout][rows][aggregate][odd] /\ layout = LayoutOf(devices[y[1]], y[2])
  OBVIOUS
<1> HIDE DEF history, layout
<1>4. /\ sent'[y] = [rows |-> rows, aggregate |-> aggregate]
      /\ \A x \in Systems(devices) : x # y => sent'[x] = sent[x]
  BY <1>1, <1>2
<1>5. sent'[y].rows = rows /\ sent'[y].aggregate = aggregate
  BY <1>4
\* The charts of the other systems stay as they are.
<1>6. ASSUME NEW x \in Systems(devices), x # y, NEW c \in Charted(devices, x)
      PROVE  charts'[c] = charts[c]
  <2>1. CASE history.thrown
    BY <1>1, <2>1
  <2>2. CASE ~ history.thrown
    <3>1. setChart(y, history)
      BY <1>1, <2>2
    <3>2. c \in Charts(devices)
      BY DEF Charts
    <3>3. c \notin Charted(devices, y)
      BY <1>2, <1>6, OneSystem
    <3>4. charts' = [d \in Charts(devices) |->
                       IF d \in Charted(devices, y)
                       THEN [labels |-> history.times,
                             datasets |-> setChartDatasets(history, Place(devices, y, d))]
                       ELSE charts[d]]
      BY <3>1, Zenon DEF setChart
    <3> QED
      BY <3>2, <3>3, <3>4
  <2> QED
    BY <2>1, <2>2
<1>7. ASSUME Readable(layout, aggregate), NEW c \in Charted(devices, y)
      PROVE  ChartShows(charts'[c], rows, aggregate, Place(devices, y, c))
  <2> DEFINE place == Place(devices, y, c)
             chart == [labels |-> history.times, datasets |-> setChartDatasets(history, place)]
  <2>1. ~ history.thrown /\ ChartShows(chart, rows, aggregate, place)
    BY <1>1, <1>2, <1>3, <1>7, HistoryShown
  <2>2. setChart(y, history)
    BY <1>1, <2>1
  <2>3. charts' = [d \in Charts(devices) |->
                     IF d \in Charted(devices, y)
                     THEN [labels |-> history.times,
                           datasets |-> setChartDatasets(history, Place(devices, y, d))]
                     ELSE charts[d]]
    BY <2>2, Zenon DEF setChart
  <2>4. c \in Charts(devices)
    BY DEF Charts
  <2>5. charts'[c] = chart
    BY <1>7, <2>3, <2>4
  <2> HIDE DEF chart, place
  <2> QED
    BY <2>1, <2>5 DEF place
<1>8. rows \in Rows
  BY WebPageAssumption DEF Rows
<1>9. ASSUME NEW x \in Systems(devices'), Legible(x)'
      PROVE  /\ sent'[x].rows \in Rows /\ sent'[x].aggregate \in BOOLEAN
             /\ \A c \in Charted(devices', x) :
                  ChartShows(charts'[c], sent'[x].rows, sent'[x].aggregate, Place(devices', x, c))
  <2>1. x \in Systems(devices)
    BY <1>1
  <2>2. sent'[x] # Null /\ Readable(LayoutOf(devices[x[1]], x[2]), sent'[x].aggregate)
    BY <1>1, <1>9, Zenon DEF Legible
  <2>3. CASE x = y
    <3>1. Readable(layout, aggregate)
      BY <1>3, <1>5, <2>2, <2>3
    <3>2. \A c \in Charted(devices, y) : ChartShows(charts'[c], rows, aggregate, Place(devices, y, c))
      BY <1>7, <3>1
    <3> QED
      BY <1>1, <1>5, <1>8, <2>3, <3>2
  <2>4. CASE x # y
    <3>1. sent'[x] = sent[x]
      BY <1>4, <2>1, <2>4
    <3>2. Legible(x)
      BY <2>2, <3>1 DEF Legible
    <3>3. /\ sent[x].rows \in Rows /\ sent[x].aggregate \in BOOLEAN
          /\ \A c \in Charted(devices, x) :
               ChartShows(charts[c], sent[x].rows, sent[x].aggregate, Place(devices, x, c))
      BY <2>1, <3>2, Zenon DEF ChartInv, Charting
    <3>4. \A c \in Charted(devices, x) : charts'[c] = charts[c]
      BY <1>6, <2>1, <2>4
    <3> QED
      BY <1>1, <3>1, <3>3, <3>4
  <2> QED
    BY <2>3, <2>4
<1> QED
  BY <1>9, Zenon DEF Charting

LEMMA SameCharts ==
  ASSUME Charting, UNCHANGED <<devices, charts, sent>>
  PROVE  Charting'
BY DEF Charting, Legible

LEMMA ChartStep == ChartInv /\ [Next]_vars => ChartInv'
<1> SUFFICES ASSUME ChartInv, [Next]_vars PROVE Charting'
  BY PageStep DEF ChartInv
<1>1. CASE ReceiveDescription
  BY <1>1, ReceiveDescriptionCharts
<1>2. CASE Refresh
  BY <1>2, SameCharts DEF Refresh, ChartInv
<1>3. CASE \E chosen \in SUBSET Leaves : Select(chosen)
  BY <1>3, SameCharts DEF Select, ChartInv
<1>4. CASE \E c \in Charts(devices), z \in Zooms : Zoom(c, z)
  BY <1>4, SameCharts DEF Zoom, ChartInv
<1>5. CASE ResetX
  BY <1>5, SameCharts DEF ResetX, ChartInv
<1>6. CASE \E y \in Systems(devices), rows \in RowSets, aggregate, odd \in BOOLEAN :
             ReceiveHistory(y, rows, aggregate, odd)
  BY <1>6, ReceiveHistoryCharts
<1>7. CASE UNCHANGED vars
  BY <1>7, SameCharts DEF vars, ChartInv
<1> QED
  BY <1>1, <1>2, <1>3, <1>4, <1>5, <1>6, <1>7 DEF Next

LEMMA ChartInvariant == Spec => []ChartInv
<1>1. Init => ChartInv
  BY InitPage, InitCharts DEF ChartInv
<1> QED
  BY <1>1, ChartStep, PTL DEF Spec

\* What getHistory wrote for a value is on that value's chart, row for row at its
\* time: whatever the description of the device, the history and its aggregation,
\* RawHistory and AggregateHistory find the bytes of each value, provided that the
\* layout is one that peek reads as it was written.
THEOREM RowsArrive == Spec => []RowsShown
<1>1. ASSUME ChartInv PROVE RowsShown
  <2> SUFFICES ASSUME NEW y \in Systems(devices), Legible(y), NEW c \in Charted(devices, y)
               PROVE  [m \in DOMAIN charts[c].datasets |-> Line(charts[c].labels, charts[c].datasets[m])]
                        = [m \in 1 .. Copies(sent[y].aggregate) |->
                             [r \in DOMAIN sent[y].rows |->
                                [time |-> sent[y].rows[r].time, datum |-> Datum(r, Place(devices, y, c), m)]]]
    BY Zenon DEF RowsShown
  <2> DEFINE rows == sent[y].rows
             aggregate == sent[y].aggregate
             place == Place(devices, y, c)
             chart == charts[c]
             M == Copies(aggregate)
  <2>1. rows \in Rows /\ ChartShows(chart, rows, aggregate, place)
    BY <1>1, Zenon DEF ChartInv, Charting
  <2> HIDE DEF rows, aggregate, place, chart
  <2>2. DOMAIN rows = 1 .. Len(rows)
    BY <2>1 DEF Rows
  <2>3. /\ DOMAIN chart.datasets = 1 .. M
        /\ \A m \in 1 .. M :
             Line(chart.labels, chart.datasets[m]) = [r \in 1 .. Len(rows) |-> Point(rows, r, place, m)]
    <3>1. chart.datasets = [m \in 1 .. M |-> chart.datasets[m]]
      BY <2>1 DEF ChartShows
    <3> QED
      BY <2>1, <3>1 DEF ChartShows, LineShows
  <2> HIDE DEF M
  <2>4. [m \in DOMAIN chart.datasets |-> Line(chart.labels, chart.datasets[m])]
          = [m \in 1 .. M |-> [r \in DOMAIN rows |-> Point(rows, r, place, m)]]
    BY <2>2, <2>3
  <2> QED
    BY <2>4, Zenon DEF Point, rows, aggregate, place, chart, M
<1> QED
  BY <1>1, ChartInvariant, PTL

\* A line of raw data is interrupted behind the rows that end an epoch and behind
\* no others (RawHistory and startNewEpoch in uDAQC_IO.js), under the same proviso.
THEOREM EpochsStayApart == Spec => []EpochsApart
<1>1. ASSUME ChartInv PROVE EpochsApart
  <2> SUFFICES ASSUME NEW y \in Systems(devices), Legible(y), ~ sent[y].aggregate,
                      NEW c \in Charted(devices, y), NEW r \in DOMAIN sent[y].rows
               PROVE  Gap(FlattenSeq(charts[c].datasets), Datum(r, Place(devices, y, c), 1))
                        <=> sent[y].rows[r].end_of_epoch
    BY Zenon DEF EpochsApart, Gap
  <2> DEFINE rows == sent[y].rows
             aggregate == sent[y].aggregate
             place == Place(devices, y, c)
             datasets == charts[c].datasets
  <2>1. rows \in Rows /\ ChartShows(charts[c], rows, aggregate, place) /\ ~ aggregate
    BY <1>1, Zenon DEF ChartInv, Charting
  <2>2. r \in DOMAIN rows
    OBVIOUS
  <2> HIDE DEF rows, aggregate, place
  <2>3. Copies(aggregate) = 1 /\ r \in 1 .. Len(rows)
    BY <2>1, <2>2 DEF Copies, Rows
  <2>4. /\ datasets = [m \in 1 .. 1 |-> datasets[m]]
        /\ IsSequence(datasets[1])
        /\ LineShows(charts[c].labels, datasets[1], rows, Len(rows), place, 1, aggregate)
    BY <2>1, <2>3 DEF ChartShows
  <2>5. FlattenSeq(datasets) = datasets[1]
    <3> HIDE DEF datasets
    <3>1. DOMAIN datasets = 1 .. 1
      BY <2>4
    <3> QED
      BY <2>4, <3>1, OnePiece
  <2>6. Gap(datasets[1], Datum(r, place, 1)) <=> rows[r].end_of_epoch
    BY <2>1, <2>2, <2>3, <2>4, Zenon DEF LineShows, Ends
  <2> QED
    BY <2>5, <2>6 DEF rows, place, datasets
<1> QED
  BY <1>1, ChartInvariant, PTL

-----------------------------------------------------------------------------
(* The tree and the dashboards.                                              *)

\* The tree has the parents that changeNodes gave it.
Loads(t, devs) ==
  /\ DOMAIN t = TreeIds(devs)
  /\ \A x \in DOMAIN t : t[x] = <<x[1], devs[x[1]][x[2]].parent>>

\* A tree has depths and heights, when it has been loaded and when it is empty.
Measured(t) == (\E depth : Deeper(t, depth)) /\ (\E height : Higher(t, height))

LEMMA LoadedMeasured ==
  ASSUME NEW devs, Described(devs), NEW t, Loads(t, devs)
  PROVE  Measured(t)
<1> DEFINE D == DOMAIN t
           depth == [x \in D |-> x[2]]
           height == [x \in D |-> Len(devs[x[1]]) - x[2]]
<1>1. ASSUME NEW x \in D
      PROVE  /\ x[2] \in Nat /\ Len(devs[x[1]]) - x[2] \in Nat
             /\ t[x][1] = x[1] /\ t[x][2] < x[2]
             /\ Len(devs[x[1]]) - x[2] < Len(devs[t[x][1]]) - t[x][2]
  <2> DEFINE N == Len(devs[x[1]])
             q == devs[x[1]][x[2]].parent
  <2>1. x[1] \in DOMAIN devs /\ x[2] \in 1 .. N /\ q \in 0 .. x[2] - 1
    BY TreeOfValues DEF Loads
  <2>2. N \in Nat
    BY <2>1, DeviceFacts
  <2>3. t[x] = <<x[1], q>>
    BY DEF Loads
  <2>4. t[x][1] = x[1] /\ t[x][2] = q
    BY <2>3
  <2> HIDE DEF q, N
  <2>5. x[2] \in Nat /\ N - x[2] \in Nat /\ q < x[2] /\ N - x[2] < N - q
    BY <2>1, <2>2
  <2> QED
    BY <2>4, <2>5 DEF N
<1>2. Deeper(t, depth)
  <2>1. depth \in [D -> Nat]
    BY <1>1
  <2>2. ASSUME NEW x \in D, t[x] \in D PROVE depth[t[x]] < depth[x]
    <3>1. depth[t[x]] = t[x][2] /\ depth[x] = x[2]
      BY <2>2
    <3> QED
      BY <1>1, <3>1
  <2> HIDE DEF depth
  <2> QED
    BY <2>1, <2>2 DEF Deeper
<1>3. Higher(t, height)
  <2>1. height \in [D -> Nat]
    BY <1>1
  <2>2. ASSUME NEW x \in D, t[x] \in D PROVE height[x] < height[t[x]]
    <3>1. height[t[x]] = Len(devs[t[x][1]]) - t[x][2] /\ height[x] = Len(devs[x[1]]) - x[2]
      BY <2>2
    <3> QED
      BY <1>1, <3>1
  <2> HIDE DEF height
  <2> QED
    BY <2>1, <2>2 DEF Higher
<1> QED
  BY <1>2, <1>3 DEF Measured

LEMMA EmptyMeasured ==
  ASSUME NEW t, DOMAIN t = {}
  PROVE  Measured(t)
<1> DEFINE f == [x \in DOMAIN t |-> 0]
<1>1. Deeper(t, f) /\ Higher(t, f)
  BY DEF Deeper, Higher
<1> QED
  BY <1>1, Zenon DEF Measured

\* What a change of the selection displays (setDashboardVisibilityFromNodeID).
Displays(t, chosen, shown) ==
  \A x \in DOMAIN t : x \in shown <=> \E w \in Under(t, x) : w \in chosen

LEMMA ChangeDisplays ==
  ASSUME NEW t, Measured(t), NEW panels, DOMAIN t \subseteq panels,
         NEW chosen, chosen \subseteq DOMAIN t, NEW before
  PROVE  Displays(t, chosen, AfterChange(t, panels, chosen, before))
<1>1. PICK depth : Deeper(t, depth)
  BY DEF Measured
<1>2. PICK height : Higher(t, height)
  BY DEF Measured
<1> SUFFICES ASSUME NEW x \in DOMAIN t
             PROVE  x \in AfterChange(t, panels, chosen, before)
                      <=> \E w \in Under(t, x) : w \in chosen
  BY DEF Displays
<1>3. Visible(t, panels, chosen)[x] <=> \E w \in Under(t, x) : w \in chosen
  BY <1>1, <1>2, VisibleBelow
<1>4. x \in AfterChange(t, panels, chosen, before) <=> Visible(t, panels, chosen)[x]
  <2>1. x \in panels
    OBVIOUS
  <2> QED
    BY <2>1, Zenon DEF AfterChange
<1> QED
  BY <1>3, <1>4, Zenon

LEMMA BelowIsUnder == ASSUME NEW x PROVE Below(x) = Under(tree, x)
BY Zenon DEF Below, Under

\* What holds of tree and dashboards: the tree is empty while it is loaded again,
\* and what is displayed was made from the tree and the selection there are now.
TreeInv ==
  /\ PageInv
  /\ refreshing => DOMAIN tree = {}
  /\ ~ refreshing => Loads(tree, devices)
  /\ Displays(tree, selected, dashboards)

LEMMA InitTree == Init => TreeInv
<1> SUFFICES ASSUME Init PROVE TreeInv
  OBVIOUS
<1>1. DOMAIN devices = {} /\ DOMAIN tree = {} /\ refreshing = FALSE
  BY DEF Init
<1>2. TreeIds(devices) = {}
  BY <1>1 DEF TreeIds
<1> QED
  BY <1>1, <1>2, InitPage DEF TreeInv, Loads, Displays

LEMMA RefreshTree == TreeInv /\ Refresh => TreeInv'
<1> SUFFICES ASSUME TreeInv, Refresh PROVE TreeInv'
  OBVIOUS
<1>1. /\ refreshing' = FALSE
      /\ tree' = TreeData(devices)
      /\ selected' = DOMAIN tree'
      /\ dashboards' = AfterChange(tree', Panels(devices), selected', dashboards)
      /\ devices' = devices
  BY DEF Refresh
<1>2. Described(devices)
  BY DEF TreeInv, PageInv
<1>3. Loads(tree', devices)
  BY <1>1 DEF Loads, TreeData
<1>4. Panels(devices) = DOMAIN tree'
  BY <1>2, <1>3, PanelsAre DEF Loads
<1>5. Measured(tree')
  BY <1>2, <1>3, LoadedMeasured
<1>6. Displays(tree', selected', dashboards')
  BY <1>1, <1>4, <1>5, ChangeDisplays
<1> QED
  BY <1>1, <1>3, <1>6, RefreshPage DEF TreeInv

LEMMA SelectTree ==
  ASSUME TreeInv, NEW chosen, Select(chosen)
  PROVE  TreeInv'
<1>1. /\ selected' = Checked(chosen)
      /\ dashboards' = AfterChange(tree, Panels(devices), selected', dashboards)
      /\ devices' = devices /\ tree' = tree /\ refreshing' = refreshing
  BY DEF Select
<1>2. Described(devices)
  BY DEF TreeInv, PageInv
<1>3. Measured(tree) /\ DOMAIN tree \subseteq Panels(devices)
  <2>1. CASE refreshing
    BY <2>1, EmptyMeasured DEF TreeInv
  <2>2. CASE ~ refreshing
    <3>1. Loads(tree, devices)
      BY <2>2 DEF TreeInv
    <3>2. DOMAIN tree \subseteq Panels(devices)
      BY <1>2, <3>1, PanelsAre DEF Loads
    <3> QED
      BY <1>2, <3>1, <3>2, LoadedMeasured
  <2> QED
    BY <2>1, <2>2
<1>4. selected' \subseteq DOMAIN tree
  BY <1>1 DEF Checked
<1>5. Displays(tree, selected', dashboards')
  BY <1>1, <1>3, <1>4, ChangeDisplays
<1>6. PageInv'
  BY SelectPage DEF TreeInv
<1> QED
  BY <1>1, <1>5, <1>6 DEF TreeInv

LEMMA TreeStep == TreeInv /\ [Next]_vars => TreeInv'
<1> SUFFICES ASSUME TreeInv, [Next]_vars PROVE TreeInv'
  OBVIOUS
<1>1. PageInv'
  BY PageStep DEF TreeInv
<1>2. CASE ReceiveDescription
  <2>1. tree' = <<>> /\ refreshing' = TRUE
    BY <1>2 DEF ReceiveDescription
  <2>2. DOMAIN tree' = {}
    BY <2>1
  <2> QED
    BY <1>1, <2>1, <2>2 DEF TreeInv, Displays
<1>3. CASE Refresh
  BY <1>3, RefreshTree
<1>4. CASE \E chosen \in SUBSET Leaves : Select(chosen)
  BY <1>4, SelectTree
<1>5. ASSUME UNCHANGED <<devices, tree, refreshing, selected, dashboards>>
      PROVE  TreeInv'
  BY <1>1, <1>5 DEF TreeInv
<1>6. CASE \E c \in Charts(devices), z \in Zooms : Zoom(c, z)
  BY <1>5, <1>6 DEF Zoom
<1>7. CASE ResetX
  BY <1>5, <1>7 DEF ResetX
<1>8. CASE \E y \in Systems(devices), rows \in RowSets, aggregate, odd \in BOOLEAN :
             ReceiveHistory(y, rows, aggregate, odd)
  BY <1>5, <1>8 DEF ReceiveHistory
<1>9. CASE UNCHANGED vars
  BY <1>5, <1>9 DEF vars
<1> QED
  BY <1>2, <1>3, <1>4, <1>6, <1>7, <1>8, <1>9 DEF Next

LEMMA TreeInvariant == Spec => []TreeInv
<1> QED
  BY InitTree, TreeStep, PTL DEF Spec

LEMMA TreeAgreement == TreeInv => TreeAndDashboardsAgree
<1> SUFFICES ASSUME TreeInv PROVE TreeAndDashboardsAgree
  OBVIOUS
<1>1. Described(devices)
  BY DEF TreeInv, PageInv
<1>2. ASSUME ~ refreshing
      PROVE  /\ DOMAIN tree = Panels(devices)
             /\ Charts(devices) = {x \in DOMAIN tree : devices[x[1]][x[2]].kind \in ValueKinds}
             /\ \A x \in DOMAIN tree : tree[x][2] # 0 => tree[x] \in DOMAIN tree
  <2>1. Loads(tree, devices)
    BY <1>2 DEF TreeInv
  <2>2. DOMAIN tree = TreeIds(devices)
    BY <2>1 DEF Loads
  <2>3. DOMAIN tree = Panels(devices)
    BY <1>1, <2>2, PanelsAre
  <2>4. Charts(devices) = {x \in DOMAIN tree : devices[x[1]][x[2]].kind \in ValueKinds}
    BY <1>1, <2>2, TreeOfValues
  <2>5. ASSUME NEW x \in DOMAIN tree, tree[x][2] # 0 PROVE tree[x] \in DOMAIN tree
    <3> DEFINE q == devices[x[1]][x[2]].parent
    <3>1. tree[x] = <<x[1], q>>
      BY <2>1 DEF Loads
    <3>2. q # 0 => <<x[1], q>> \in TreeIds(devices)
      BY <1>1, <2>2, TreeOfValues
    <3>3. q # 0
      BY <2>5, <3>1
    <3> HIDE DEF q
    <3> QED
      BY <2>2, <3>1, <3>2, <3>3
  <2> QED
    BY <2>3, <2>4, <2>5
<1>3. TreeMatchesDashboards
  BY <1>2 DEF TreeMatchesDashboards
<1>4. DisplayMatchesSelection
  <2> SUFFICES ASSUME NEW x \in DOMAIN tree
               PROVE  x \in dashboards <=> Below(x) \cap selected # {}
    BY DEF DisplayMatchesSelection
  <2>1. x \in dashboards <=> \E w \in Under(tree, x) : w \in selected
    BY DEF TreeInv, Displays
  <2>2. Below(x) = Under(tree, x)
    BY BelowIsUnder
  <2> QED
    BY <2>1, <2>2
<1> QED
  BY <1>3, <1>4 DEF TreeAndDashboardsAgree

\* The tree and the dashboards agree (toTreeNode and createDashboard in uDAQC_IO.js,
\* changeNodes and setDashboardVisibilityFromNodeID in uDAQC_tree.js): both have exactly the nodes that are no timestamps, and
\* those displayed are those with a selected node at or below them, however deep
\* the groups and systems of the devices are nested.
THEOREM TreeAgrees == Spec => []TreeAndDashboardsAgree
<1> QED
  BY TreeInvariant, TreeAgreement, PTL
=============================================================================
