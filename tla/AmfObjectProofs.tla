-------------------------- MODULE AmfObjectProofs ---------------------------
(***************************************************************************)
(* For objects of any size and depth and any values: however the push      *)
(* functions are called, and whichever of them fail, an open container is  *)
(* found for each level of depth, only the last name waits for a value,    *)
(* and what was given stays, but for what amf_push_assoc_end does to an    *)
(* ordinal name.  One lemma for each push function says what it makes of a *)
(* well-shaped object.                                                     *)
(***************************************************************************)
EXTENDS AmfObject, FiniteSetTheorems, SequenceTheorems, WellFoundedInduction, TLAPS

Kinds == Plain \cup {"undefined", "string", "xml", "reference", "object", "array"}
Labels == Names \cup {NoName, ""}
Item == [type : Kinds, arg : Nat, to : Nat]
Entry == [depth : Nat, slot : {"item", "member", "assoc", "ordinal", "gone"},
          name : Labels, value : Item, given : BOOLEAN]
Amf == [nodes : Seq(Entry), depth : Nat, ready : BOOLEAN, refs : Seq(Nat)]

\* i is the open container of depth d: what lies behind it lies in it.
Opened(nodes, d, i) ==
    /\ i \in 1..Len(nodes) /\ nodes[i].depth = d
    /\ nodes[i].given /\ IsContainer(nodes[i].value)
    /\ \A j \in i + 1..Len(nodes) : nodes[j].depth > d

\* Each level of depth has an open container; the last node may wait for a value,
\* as a member of the innermost, and otherwise only ordinal ones have none; and
\* references are to what was given.
Levels(nodes, depth) ==
    \A d \in 0..(depth - 1) : \E i \in 1..Len(nodes) : Opened(nodes, d, i)
Waits(nodes, depth, ready) ==
    /\ ready => /\ depth > 0 /\ Len(nodes) > 0 /\ nodes[Len(nodes)].depth = depth
                /\ ~nodes[Len(nodes)].given
                /\ \A i : Opened(nodes, depth - 1, i) /\ nodes[i].value.type = "array"
                            => nodes[Len(nodes)].slot \in {"assoc", "ordinal"}
    /\ \A i \in 1..Len(nodes) :
          nodes[i].given \/ (ready /\ i = Len(nodes)) \/ nodes[i].slot = "ordinal"
Refers(nodes, refs) ==
    \A k \in DOMAIN refs : refs[k] \in 1..Len(nodes) /\ nodes[refs[k]].given
Shape(a) ==
    /\ a \in Amf
    /\ Levels(a.nodes, a.depth) /\ Waits(a.nodes, a.depth, a.ready)
    /\ Refers(a.nodes, a.refs)

IndInv ==
    /\ Shape(amf)
    /\ amf.depth <= MaxDepth /\ Len(amf.nodes) <= MaxNodes
    /\ list \in Outside..MaxDepth /\ list <= amf.depth

\* What was given is there, but for the count of an array.
Alike(x, y) ==
    /\ x.depth = y.depth /\ x.name = y.name /\ x.given = y.given
    /\ x.value.type = y.value.type /\ x.value.to = y.value.to
Same(x, y) == Alike(x, y) /\ x.slot = y.slot
Stands(s, t) ==
    \A i \in 1..Len(s) : s[i].given => i \in 1..Len(t) /\ Alike(s[i], t[i])
Kept(s, t) ==
    \A i \in 1..Len(s) : s[i].given => i \in 1..Len(t) /\ Same(s[i], t[i])

\* What a push function is to make of a: an object of this depth with at most so
\* many nodes.
Makes(a, b, depth, size) ==
    Shape(b) /\ Kept(a.nodes, b.nodes) /\ b.depth = depth /\ Len(b.nodes) <= size

\* What amf_push_assoc_end makes of a when it leaves a name: all stays but the last
\* associative member.
LastAssoc(a) == Latest(Slotted(a.nodes, Open(a), "assoc"))
Leaves(a, b) ==
    /\ Shape(b) /\ b.depth = a.depth /\ Len(b.nodes) = Len(a.nodes)
    /\ a.ready /\ ~b.ready /\ ~b.nodes[Len(a.nodes)].given
    /\ \A i \in 1..Len(a.nodes) :
          a.nodes[i].given /\ ~Same(a.nodes[i], b.nodes[i]) =>
             /\ i = LastAssoc(a) /\ Alike(a.nodes[i], b.nodes[i])
             /\ b.nodes[i].slot = "gone"
-----------------------------------------------------------------------------
(* The innermost open container. *)

\* Any set of numbers has a least one.
LEMMA Least ==
  ASSUME NEW T \in SUBSET Nat, T # {}
  PROVE  \E n \in T : \A m \in T : n <= m
<1> DEFINE R == OpToRel(<, Nat)
<1>1. IsWellFoundedOn(R, Nat)
  BY NatLessThanWellFounded
<1>2. \A m, n \in Nat : <<m, n>> \in R <=> m < n
  BY DEF OpToRel
<1> HIDE DEF R
<1>3. PICK x \in T : \A y \in T : ~ (<<y, x>> \in R)
  BY <1>1, WFMin
<1>4. \A y \in T : ~ (y < x)
  <2> TAKE y \in T
  <2>1. y \in Nat /\ x \in Nat
    OBVIOUS
  <2> QED BY <2>1, <1>2, <1>3
<1>5. \A y \in T : y \in Nat /\ x \in Nat
  OBVIOUS
<1> QED BY <1>4, <1>5

\* The latest is the one after which there is none.
LEMMA LatestIs ==
  ASSUME NEW S \in SUBSET Nat, NEW i \in S, \A j \in S : j <= i
  PROVE  Latest(S) = i
<1>1. \A k \in S : (\A j \in S : j <= k) => k = i
  <2> TAKE k \in S
  <2>1. k \in Nat /\ i \in Nat /\ k <= i
    OBVIOUS
  <2>2. (\A j \in S : j <= k) => i <= k
    OBVIOUS
  <2> QED BY <2>1, <2>2
<1> QED BY <1>1 DEF Latest

\* The open container of depth 0 is the last item.
LEMMA First ==
  ASSUME NEW nodes \in Seq(Entry), NEW i, Opened(nodes, 0, i)
  PROVE  Latest({k \in 1..Len(nodes) : nodes[k].depth = 0}) = i
<1> DEFINE S == {k \in 1..Len(nodes) : nodes[k].depth = 0}
<1>1. S \in SUBSET Nat /\ i \in S
  BY DEF Opened
<1>2. \A j \in S : j <= i
  BY DEF Opened
<1> HIDE DEF S
<1>3. Latest(S) = i
  BY <1>1, <1>2, LatestIs
<1> QED BY <1>3 DEF S

\* The last child of an open container is the open container in it.
LEMMA Inner ==
  ASSUME NEW nodes \in Seq(Entry), NEW d \in Nat, NEW i, NEW j \in 1..Len(nodes),
         Opened(nodes, d, i), nodes[j].depth = d + 1,
         \A k \in j + 1..Len(nodes) : nodes[k].depth # d + 1,
         j > i
  PROVE  Latest(Children(nodes, i)) = j
<1>1. i \in 1..Len(nodes) /\ nodes[i].depth = d
  BY DEF Opened
<1>2. \A k \in i + 1..Len(nodes) : nodes[k].depth > d
  BY DEF Opened
<1>3. j \in Children(nodes, i)
  <2>1. j \in i + 1..Len(nodes)
    BY <1>1
  <2>2. \A k \in i + 1..j : nodes[k].depth > nodes[i].depth
    BY <1>1, <1>2
  <2> QED BY <1>1, <2>1, <2>2 DEF Children
<1>4. Children(nodes, i) \in SUBSET Nat
  BY <1>1 DEF Children
<1>5. \A k \in Children(nodes, i) : k <= j
  <2> TAKE k \in Children(nodes, i)
  <2>1. k \in 1..Len(nodes) /\ nodes[k].depth = d + 1
    BY <1>1 DEF Children
  <2> QED BY <2>1
<1> QED BY <1>3, <1>4, <1>5, LatestIs

\* Open, by the recursion down from the last item.
Goes(a, g) ==
    g = [d \in 1..a.depth |->
            IF d = 1 THEN Latest({i \in 1..Len(a.nodes) : a.nodes[i].depth = 0})
            ELSE Latest(Children(a.nodes, g[d - 1]))]

\* A function that goes this way ends at the open container, if there is one.
LEMMA OpenIs ==
  ASSUME NEW a, NEW f, a.depth \in Nat, a.depth > 0, Goes(a, f)
  PROVE  \E g : Goes(a, g) /\ Open(a) = g[a.depth]
BY DEF Open, Goes

\* Going down, one is at the open container of each depth.
LEMMA OpenOK ==
  ASSUME NEW a, Shape(a), a.depth > 0
  PROVE  Opened(a.nodes, a.depth - 1, Open(a))
<1> DEFINE n == a.depth
           s == a.nodes
           L == [d \in 1..n |-> CHOOSE i : Opened(s, d - 1, i)]
<1>1. n \in Nat /\ n > 0 /\ s \in Seq(Entry)
  BY DEF Shape, Amf
<1>2. \A d \in 0..(n - 1) : \E i \in 1..Len(s) : Opened(s, d, i)
  BY DEF Shape, Levels
<1> HIDE DEF n, s
<1>3. ASSUME NEW d \in 1..n PROVE Opened(s, d - 1, L[d])
  <2>1. d - 1 \in 0..(n - 1)
    BY <1>1
  <2>2. \E i : Opened(s, d - 1, i)
    BY <2>1, <1>2
  <2> QED BY <2>2
<1> HIDE DEF L
<1>4. ASSUME NEW d \in 1..n
      PROVE  L[d] = IF d = 1 THEN Latest({i \in 1..Len(s) : s[i].depth = 0})
                    ELSE Latest(Children(s, L[d - 1]))
  <2>1. CASE d = 1
    <3>1. Opened(s, 0, L[d])
      BY <2>1, <1>3
    <3> QED BY <3>1, <2>1, <1>1, First
  <2>2. CASE d # 1
    <3> DEFINE e == d - 2
               i == L[d - 1]
               j == L[d]
    <3>1. e \in Nat /\ d - 1 \in 1..n /\ (d - 1) - 1 = e /\ d - 1 = e + 1
      BY <2>2, <1>1
    <3>2. Opened(s, e, i) /\ Opened(s, e + 1, j)
      BY <3>1, <1>3
    <3> HIDE DEF e, i, j
    <3>3. /\ i \in 1..Len(s) /\ s[i].depth = e
          /\ j \in 1..Len(s) /\ s[j].depth = e + 1
          /\ \A k \in j + 1..Len(s) : s[k].depth > e + 1
      BY <3>2 DEF Opened
    <3>n. Len(s) \in Nat
      BY <1>1
    <3>4. j > i
      <4>1. SUFFICES ASSUME ~(j > i) PROVE FALSE
        OBVIOUS
      <4>2. i # j
        BY <3>1, <3>3
      <4>3. i \in j + 1..Len(s)
        BY <3>3, <3>n, <4>1, <4>2
      <4>4. s[i].depth > e + 1
        BY <3>3, <4>3
      <4>5. e > e + 1
        BY <3>3, <4>4, Zenon
      <4> QED BY <4>5, <3>1
    <3>5. \A k \in j + 1..Len(s) : s[k].depth # e + 1
      BY <3>1, <3>3
    <3>6. Latest(Children(s, i)) = j
      BY <3>1, <3>2, <3>3, <3>4, <3>5, <1>1, Inner
    <3> QED BY <3>6, <2>2 DEF i, j
  <2> QED BY <2>1, <2>2
<1>5. L = [d \in 1..n |-> L[d]]
  BY DEF L
<1>6. Goes(a, L)
  <2> DEFINE F(d) == IF d = 1 THEN Latest({i \in 1..Len(s) : s[i].depth = 0})
                     ELSE Latest(Children(s, L[d - 1]))
  <2>1. \A d \in 1..n : L[d] = F(d)
    BY <1>4
  <2> HIDE DEF F
  <2>2. [d \in 1..n |-> L[d]] = [d \in 1..n |-> F(d)]
    BY <2>1
  <2>3. L = [d \in 1..n |-> F(d)]
    BY <2>2, <1>5
  <2> QED BY <2>3 DEF Goes, n, s, F
<1>7. PICK g : Goes(a, g) /\ Open(a) = g[n]
  BY <1>1, <1>6, OpenIs DEF n
<1>8. \A d \in 1..n : g[d] = IF d = 1 THEN Latest({i \in 1..Len(s) : s[i].depth = 0})
                             ELSE Latest(Children(s, g[d - 1]))
  BY <1>7 DEF Goes, n, s
<1>9. \A d \in 1..n : g[d] = L[d]
  <2> DEFINE T == {d \in 1..n : g[d] # L[d]}
  <2>1. SUFFICES ASSUME T # {} PROVE FALSE
    OBVIOUS
  <2>2. T \in SUBSET Nat
    BY <1>1
  <2>3. PICK d \in T : \A e \in T : d <= e
    BY <2>1, <2>2, Least
  <2>4. d \in 1..n /\ g[d] # L[d]
    OBVIOUS
  <2>5. CASE d = 1
    BY <2>4, <2>5, <1>4, <1>8
  <2>6. CASE d # 1
    <3>1. d - 1 \in 1..n /\ ~(d <= d - 1)
      BY <2>4, <2>6, <1>1
    <3>2. g[d - 1] = L[d - 1]
      BY <3>1, <2>3
    <3> QED BY <3>2, <2>4, <2>6, <1>4, <1>8
  <2> QED BY <2>5, <2>6
<1>a. n \in 1..n /\ Open(a) = L[n]
  BY <1>1, <1>7, <1>9
<1> QED BY <1>a, <1>3 DEF n, s

\* The member that waits for its value is the last node.
LEMMA LastChild ==
  ASSUME NEW a, Shape(a), a.ready
  PROVE  Latest(Children(a.nodes, Open(a))) = Len(a.nodes)
<1> DEFINE d == a.depth - 1
           s == a.nodes
           i == Open(a)
           j == Len(s)
<1>1. /\ s \in Seq(Entry) /\ a.depth \in Nat /\ a.depth > 0 /\ j > 0
      /\ s[j].depth = a.depth
  BY DEF Shape, Waits, Amf
<1>2. d \in Nat /\ s[j].depth = d + 1 /\ j \in 1..Len(s)
  BY <1>1
<1>3. Opened(s, d, i)
  BY <1>1, OpenOK
<1>4. i # j
  BY <1>2, <1>3 DEF Opened
<1>5. j > i
  BY <1>1, <1>2, <1>3, <1>4 DEF Opened
<1>6. \A k \in j + 1..Len(s) : s[k].depth # d + 1
  BY <1>1
<1> HIDE DEF d, s, i, j
<1>7. Latest(Children(s, i)) = j
  BY <1>1, <1>2, <1>3, <1>5, <1>6, Inner
<1> QED BY <1>7 DEF s, i, j
-----------------------------------------------------------------------------
(* Nodes that were given stay. *)

\* Nothing changed.
LEMMA KeptSelf == ASSUME NEW s PROVE Kept(s, s)
  BY DEF Kept, Same, Alike

\* What is kept stands.
LEMMA KeptStands == ASSUME NEW s, NEW t, Kept(s, t) PROVE Stands(s, t)
  BY DEF Kept, Stands, Same

\* One change after the other.
LEMMA KeptBoth ==
  ASSUME NEW s, NEW t, NEW u, Kept(s, t), Kept(t, u)
  PROVE  Kept(s, u)
<1> SUFFICES ASSUME NEW i \in 1..Len(s), s[i].given PROVE i \in 1..Len(u) /\ Same(s[i], u[i])
  BY DEF Kept
<1>1. i \in 1..Len(t) /\ Same(s[i], t[i])
  BY DEF Kept
<1>2. t[i].given
  BY <1>1 DEF Same, Alike
<1>3. i \in 1..Len(u) /\ Same(t[i], u[i])
  BY <1>1, <1>2 DEF Kept
<1> QED BY <1>1, <1>3 DEF Same, Alike

\* Open containers stay open while what is added lies in them.
LEMMA LevelsStand ==
  ASSUME NEW s \in Seq(Entry), NEW t \in Seq(Entry), NEW n \in Nat, NEW m \in Nat, m <= n,
         Levels(s, n), Stands(s, t),
         \A j \in 1..Len(t) : IF j <= Len(s) THEN t[j].depth = s[j].depth ELSE t[j].depth >= m
  PROVE  Levels(t, m)
<1> SUFFICES ASSUME NEW d \in 0..(m - 1)
             PROVE  \E i \in 1..Len(t) : Opened(t, d, i)
  BY DEF Levels
<1>1. PICK i \in 1..Len(s) : Opened(s, d, i)
  BY DEF Levels
<1>2. /\ s[i].depth = d /\ s[i].given /\ IsContainer(s[i].value)
      /\ \A j \in i + 1..Len(s) : s[j].depth > d
  BY <1>1 DEF Opened
<1>3. i \in 1..Len(t) /\ Alike(s[i], t[i])
  BY <1>2 DEF Stands
<1>4. t[i].depth = d /\ t[i].given /\ IsContainer(t[i].value)
  BY <1>2, <1>3 DEF Alike, IsContainer
<1>5. ASSUME NEW j \in i + 1..Len(t) PROVE t[j].depth > d
  <2>0. j \in 1..Len(t)
    BY <1>3
  <2>a. t[j] \in Entry
    BY <2>0
  <2>1. j \in 1..Len(t) /\ t[j].depth \in Nat
    BY <2>0, <2>a DEF Entry
  <2>2. CASE j <= Len(s)
    <3>1. j \in i + 1..Len(s)
      BY <2>2
    <3>2. s[j].depth > d /\ t[j].depth = s[j].depth
      BY <1>2, <2>1, <2>2, <3>1
    <3> QED BY <3>2
  <2>3. CASE ~(j <= Len(s))
    BY <2>1, <2>3
  <2> QED BY <2>2, <2>3
<1>6. Opened(t, d, i)
  BY <1>3, <1>4, <1>5 DEF Opened
<1> QED BY <1>3, <1>6

LEMMA LevelsOK ==
  ASSUME NEW s \in Seq(Entry), NEW t \in Seq(Entry), NEW n \in Nat, NEW m \in Nat, m <= n,
         Levels(s, n), Kept(s, t),
         \A j \in 1..Len(t) : IF j <= Len(s) THEN t[j].depth = s[j].depth ELSE t[j].depth >= m
  PROVE  Levels(t, m)
  BY KeptStands, LevelsStand

\* A depth has one open container.
LEMMA OneOpened ==
  ASSUME NEW s \in Seq(Entry), NEW d \in Nat, NEW i, NEW j, Opened(s, d, i), Opened(s, d, j)
  PROVE  i = j
<1>1. i \in 1..Len(s) /\ s[i].depth = d /\ \A k \in i + 1..Len(s) : s[k].depth > d
  BY DEF Opened
<1>2. j \in 1..Len(s) /\ s[j].depth = d /\ \A k \in j + 1..Len(s) : s[k].depth > d
  BY DEF Opened
<1>3. ~(i < j)
  <2> SUFFICES ASSUME i < j PROVE FALSE
    OBVIOUS
  <2>1. j \in i + 1..Len(s)
    BY <1>1, <1>2
  <2> QED BY <1>1, <1>2, <2>1
<1>4. ~(j < i)
  <2> SUFFICES ASSUME j < i PROVE FALSE
    OBVIOUS
  <2>1. i \in j + 1..Len(s)
    BY <1>1, <1>2
  <2> QED BY <1>1, <1>2, <2>1
<1> QED BY <1>1, <1>2, <1>3, <1>4

\* References stay good.
LEMMA RefersStand ==
  ASSUME NEW s, NEW t, NEW refs, Refers(s, refs), Stands(s, t)
  PROVE  Refers(t, refs)
<1> SUFFICES ASSUME NEW k \in DOMAIN refs
             PROVE  refs[k] \in 1..Len(t) /\ t[refs[k]].given
  BY DEF Refers
<1>1. refs[k] \in 1..Len(s) /\ s[refs[k]].given
  BY DEF Refers
<1>2. refs[k] \in 1..Len(t) /\ Alike(s[refs[k]], t[refs[k]])
  BY <1>1 DEF Stands
<1> QED BY <1>1, <1>2 DEF Alike

LEMMA RefersOK ==
  ASSUME NEW s, NEW t, NEW refs, Refers(s, refs), Kept(s, t)
  PROVE  Refers(t, refs)
  BY KeptStands, RefersStand

\* A node more.
LEMMA Added ==
  ASSUME NEW s \in Seq(Entry), NEW x \in Entry
  PROVE  /\ Append(s, x) \in Seq(Entry) /\ Len(Append(s, x)) = Len(s) + 1
         /\ \A i \in 1..Len(s) : Append(s, x)[i] = s[i]
         /\ Append(s, x)[Len(s) + 1] = x
         /\ Kept(s, Append(s, x))
<1>1. /\ Append(s, x) \in Seq(Entry) /\ Len(Append(s, x)) = Len(s) + 1
      /\ \A i \in 1..Len(s) : Append(s, x)[i] = s[i]
      /\ Append(s, x)[Len(s) + 1] = x
  BY AppendProperties
<1>2. \A i \in 1..Len(s) : i \in 1..Len(Append(s, x)) /\ Same(s[i], Append(s, x)[i])
  BY <1>1 DEF Same, Alike
<1> QED BY <1>1, <1>2 DEF Kept

\* The last node gets its value.
Fill(s, v) == [s EXCEPT ![Len(s)].value = v, ![Len(s)].given = TRUE]
LEMMA Valued ==
  ASSUME NEW s \in Seq(Entry), Len(s) > 0, NEW v \in Item, NEW t, ~s[Len(s)].given,
         t = Fill(s, v)
  PROVE  /\ t \in Seq(Entry) /\ Len(t) = Len(s)
         /\ \A i \in 1..Len(s) : i # Len(s) => t[i] = s[i]
         /\ t[Len(s)].depth = s[Len(s)].depth
         /\ t[Len(s)].value = v /\ t[Len(s)].given
         /\ Kept(s, t)
<1> DEFINE n == Len(s)
           x == [s[n] EXCEPT !.value = v, !.given = TRUE]
<1>1. n \in 1..Len(s) /\ s[n] \in Entry
  OBVIOUS
<1>2. x \in Entry /\ x.value = v /\ x.given /\ x.depth = s[n].depth
  BY <1>1 DEF Entry
<1>3. t = [s EXCEPT ![n] = x]
  BY <1>1 DEF Fill
<1> HIDE DEF x
<1>4. /\ t \in Seq(Entry) /\ Len(t) = Len(s)
      /\ \A i \in 1..Len(s) : i # n => t[i] = s[i]
      /\ t[n] = x
  <2>1. x \in Entry /\ n \in 1..Len(s)
    BY <1>1, <1>2
  <2> HIDE DEF n
  <2> DEFINE u == [s EXCEPT ![n] = x]
  <2>2. u \in Seq(Entry) /\ Len(u) = Len(s)
    BY <2>1, ExceptSeq
  <2>3. \A i \in 1..Len(s) : u[i] = IF i = n THEN x ELSE s[i]
    BY <2>1, ExceptSeq
  <2> HIDE DEF u
  <2>4. t = u
    BY <1>3, Zenon DEF u
  <2> QED BY <2>1, <2>2, <2>3, <2>4
<1>5. \A i \in 1..Len(s) : s[i].given => i \in 1..Len(t) /\ Same(s[i], t[i])
  BY <1>4 DEF Same, Alike
<1> QED BY <1>2, <1>4, <1>5 DEF Kept

\* The last node goes.
LEMMA Popped ==
  ASSUME NEW s \in Seq(Entry), Len(s) > 0, ~s[Len(s)].given
  PROVE  /\ Front(s) \in Seq(Entry) /\ Len(Front(s)) = Len(s) - 1
         /\ \A i \in 1..Len(s) - 1 : Front(s)[i] = s[i]
         /\ Kept(s, Front(s))
<1>1. /\ Front(s) \in Seq(Entry) /\ Len(Front(s)) = Len(s) - 1
      /\ \A i \in 1..Len(s) - 1 : Front(s)[i] = s[i]
  <2> DEFINE n == Len(s) - 1
  <2>1. n \in Nat /\ 1 \in 1..Len(s) + 1 /\ n \in 0..Len(s) /\ n \in 1 - 1..Len(s)
    OBVIOUS
  <2>2. \A i \in 1..n : s[i] \in Entry
    OBVIOUS
  <2> HIDE DEF n
  <2> DEFINE f == SubSeq(s, 1, n)
  <2>3. f \in Seq(Entry) /\ Len(f) = n
    BY <2>1, <2>2
  <2>4. \A i \in 1..n : f[i] = s[i]
    BY <2>1
  <2> QED BY <2>3, <2>4 DEF Front, n
<1>2. ASSUME NEW i \in 1..Len(s), s[i].given
      PROVE  i \in 1..Len(Front(s)) /\ Same(s[i], Front(s)[i])
  <2>1. i \in 1..Len(s) - 1
    BY <1>2
  <2>2. Front(s)[i] = s[i] /\ i \in 1..Len(Front(s))
    BY <1>1, <2>1
  <2> QED BY <2>2 DEF Same, Alike
<1> QED BY <1>1, <1>2 DEF Kept
-----------------------------------------------------------------------------
(* The push functions. *)

\* What Shape says, typed for arithmetic.
LEMMA Parts ==
  ASSUME NEW a, Shape(a)
  PROVE  /\ a.nodes \in Seq(Entry) /\ a.depth \in Nat /\ a.ready \in BOOLEAN
         /\ a.refs \in Seq(Nat) /\ Len(a.nodes) \in Nat
         /\ Levels(a.nodes, a.depth) /\ Waits(a.nodes, a.depth, a.ready)
         /\ Refers(a.nodes, a.refs)
  BY DEF Shape, Amf

\* amf_push_member: the name waits behind everything else.
LEMMA PushMemberOK ==
  ASSUME NEW a, Shape(a), a.depth > 0, NEW name \in Labels
  PROVE  LET r == PushMember(a, name)
         IN  /\ r.err = "none" <=> ~a.ready
             /\ r.err # "none" => r.obj = a
             /\ Makes(a, r.obj, a.depth, Len(a.nodes) + 1)
             /\ r.obj.ready /\ r.obj.refs = a.refs
<1> DEFINE r == PushMember(a, name)
           s == a.nodes
<1>1. /\ s \in Seq(Entry) /\ a.depth \in Nat /\ a.ready \in BOOLEAN
      /\ a.refs \in Seq(Nat) /\ Len(s) \in Nat
      /\ Levels(s, a.depth) /\ Waits(s, a.depth, a.ready) /\ Refers(s, a.refs)
  BY Parts
<1>2. CASE a.ready
  <2>1. r.obj = a /\ r.err = "incomplete"
    BY <1>2 DEF PushMember, Fails
  <2>2. Kept(s, s)
    BY KeptSelf
  <2> QED BY <2>1, <2>2, <1>1, <1>2 DEF Makes
<1>3. CASE ~a.ready
  <2> DEFINE x == Node(a.depth, SlotOf(s, Open(a)), name, Of("undefined"), FALSE)
             t == Append(s, x)
             b == [a EXCEPT !.ready = TRUE, !.nodes = t]
  <2>1. r.obj = b /\ r.err = "none"
    BY <1>3 DEF PushMember, Done
  <2>2. x \in Entry /\ x.depth = a.depth /\ x.given = FALSE
    <3>1. SlotOf(s, Open(a)) \in {"member", "assoc", "ordinal"}
      BY DEF SlotOf
    <3>2. Of("undefined") \in Item
      BY DEF Item, Kinds, Of, Value
    <3> QED BY <3>1, <3>2, <1>1 DEF Entry, Node
  <2>3. /\ b.ready = TRUE /\ b.nodes = t /\ b.depth = a.depth /\ b.refs = a.refs
        /\ b \in [nodes : {t}, depth : {a.depth}, ready : {TRUE}, refs : {a.refs}]
    BY DEF Shape, Amf
  <2> HIDE DEF x, b, r
  <2>d. /\ t \in Seq(Entry) /\ Len(t) = Len(s) + 1
        /\ \A i \in 1..Len(s) : t[i] = s[i]
        /\ t[Len(s) + 1] = x /\ Kept(s, t)
    BY <1>1, <2>2, Added
  <2>4. t \in Seq(Entry) /\ Kept(s, t)
    BY <2>d
  <2>e. Len(t) = Len(s) + 1
    BY <2>d
  <2>f. \A i \in 1..Len(s) : t[i] = s[i]
    BY <2>d
  <2>g. t[Len(s) + 1] = x
    BY <2>d
  <2>h. Len(s) \in Nat
    BY <1>1
  <2> HIDE DEF t
  <2>5. b \in Amf
    BY <1>1, <2>3, <2>4 DEF Amf
  <2>6. \A j \in 1..Len(t) : IF j <= Len(s) THEN t[j].depth = s[j].depth ELSE t[j].depth >= a.depth
    BY <1>1, <2>2, <2>e, <2>f, <2>g, <2>h
  <2>7. Levels(t, a.depth)
    BY <1>1, <2>4, <2>6, LevelsOK
  <2>8. Waits(t, a.depth, TRUE)
    <3>1. \A i \in 1..Len(s) : s[i].given \/ s[i].slot = "ordinal"
      BY <1>1, <1>3 DEF Waits
    <3>2. Len(t) > 0 /\ t[Len(t)].depth = a.depth /\ t[Len(t)].given = FALSE
      BY <2>2, <2>e, <2>g, <2>h
    <3>3. ASSUME NEW i \in 1..Len(t)
          PROVE  t[i].given \/ (TRUE /\ i = Len(t)) \/ t[i].slot = "ordinal"
      <4>1. i # Len(t) => i \in 1..Len(s)
        BY <2>e, <2>h
      <4> QED BY <4>1, <3>1, <2>f
    <3>4. ASSUME NEW i, Opened(t, a.depth - 1, i), t[i].value.type = "array"
          PROVE  t[Len(t)].slot \in {"assoc", "ordinal"}
      <4>1. Opened(s, a.depth - 1, Open(a)) /\ a.depth - 1 \in Nat
        BY <1>1, OpenOK DEF s
      <4>2. i \in 1..Len(t) /\ t[i].given
        BY <3>4 DEF Opened
      <4>3. i \in 1..Len(s)
        BY <4>2, <3>2, <2>e, <2>h
      <4>4. Opened(s, a.depth - 1, i)
        <5>1. \A k \in i + 1..Len(s) : k \in i + 1..Len(t) /\ k \in 1..Len(s)
          BY <4>3, <2>e, <2>h
        <5> QED BY <3>4, <4>3, <5>1, <2>f DEF Opened
      <4>5. i = Open(a)
        BY <1>1, <4>1, <4>4, OneOpened
      <4>6. s[Open(a)].value.type = "array"
        BY <4>3, <4>5, <3>4, <2>f
      <4>7. x.slot = SlotOf(s, Open(a)) /\ SlotOf(s, Open(a)) \in {"assoc", "ordinal"}
        BY <4>6 DEF SlotOf, x, Node
      <4> QED BY <4>7, <2>e, <2>g
    <3> QED BY <1>1, <3>2, <3>3, <3>4, Zenon DEF Waits
  <2>9. Refers(t, a.refs)
    BY <1>1, <2>4, RefersOK
  <2>a. Shape(b)
    BY <2>3, <2>5, <2>7, <2>8, <2>9 DEF Shape
  <2>b. Len(t) <= Len(s) + 1
    BY <2>e, <2>h
  <2>c. Makes(a, b, a.depth, Len(s) + 1)
    BY <2>3, <2>4, <2>a, <2>b DEF Makes, s
  <2> QED BY <2>1, <2>3, <2>c, <1>3 DEF r, s
<1> QED BY <1>1, <1>2, <1>3

\* The node that a value is put in.
Target(a) == IF a.depth = 0 THEN Len(a.nodes) + 1 ELSE Latest(Children(a.nodes, Open(a)))

\* PUSH_PREP and amf_push_item: the value is in the last node, and no name waits.
Holds(a, b, v) ==
    /\ Makes(a, b, a.depth, Len(a.nodes) + 1)
    /\ a.ready => Len(b.nodes) = Len(a.nodes)
    /\ b.ready = FALSE /\ b.refs = a.refs
    /\ Len(b.nodes) = Target(a) /\ Target(a) > 0
    /\ b.nodes[Target(a)].depth = a.depth /\ b.nodes[Target(a)].value = v
    /\ b.nodes[Target(a)].given

\* A value behind the last item, outside of all containers.
LEMMA PushItemOK ==
  ASSUME NEW a, Shape(a), a.depth = 0, NEW v \in Item
  PROVE  Push(a, v).err = "none" /\ Holds(a, Push(a, v).obj, v)
<1> DEFINE r == Push(a, v)
           s == a.nodes
           x == Node(0, "item", NoName, v, TRUE)
           t == Append(s, x)
           b == [a EXCEPT !.nodes = t]
<1>1. s \in Seq(Entry) /\ a.depth = 0 /\ a.refs \in Seq(Nat) /\ Len(s) \in Nat
  BY Parts
<1>2. Levels(s, a.depth) /\ Waits(s, a.depth, a.ready) /\ Refers(s, a.refs)
  BY Parts
<1>3. a.ready = FALSE
  BY <1>1, <1>2, Parts DEF Waits
<1>4. r.obj = b /\ r.err = "none"
  BY <1>1 DEF Push, Done
<1>5. x \in Entry /\ x.depth = 0 /\ x.given = TRUE /\ x.value = v
  <2>1. NoName \in Labels
    BY Zenon DEF Labels
  <2> QED BY <2>1 DEF Entry, Node
<1>6. /\ b.ready = FALSE /\ b.nodes = t /\ b.depth = 0 /\ b.refs = a.refs
      /\ b \in [nodes : {t}, depth : {a.depth}, ready : {FALSE}, refs : {a.refs}]
  BY <1>1, <1>3 DEF Shape, Amf
<1> HIDE DEF x, b, r
<1>7. /\ t \in Seq(Entry) /\ Len(t) = Len(s) + 1
      /\ \A i \in 1..Len(s) : t[i] = s[i]
      /\ t[Len(s) + 1] = x /\ Kept(s, t)
  BY <1>1, <1>5, Added
<1> HIDE DEF t
<1>t. t \in Seq(Entry) /\ a.refs \in Seq(Nat) /\ a.depth \in Nat
  BY <1>1, <1>7
<1>8. b \in Amf
  BY <1>6, <1>t DEF Amf
<1>9. \A j \in 1..Len(t) : IF j <= Len(s) THEN t[j].depth = s[j].depth ELSE t[j].depth >= 0
  BY <1>1, <1>5, <1>7
<1>a. Levels(t, 0)
  BY <1>1, <1>2, <1>7, <1>9, LevelsOK
<1>b. Waits(t, 0, FALSE)
  BY <1>1, <1>2, <1>3, <1>5, <1>7 DEF Waits
<1>c. Refers(t, a.refs)
  BY <1>2, <1>7, RefersOK
<1>d. Shape(b)
  BY <1>6, <1>8, <1>a, <1>b, <1>c DEF Shape
<1>e. Len(t) <= Len(s) + 1 /\ Target(a) = Len(s) + 1 /\ Target(a) > 0
  BY <1>1, <1>7 DEF Target
<1>f. Makes(a, b, a.depth, Len(s) + 1)
  BY <1>1, <1>6, <1>7, <1>d, <1>e DEF Makes
<1>g. Holds(a, b, v)
  BY <1>1, <1>3, <1>5, <1>6, <1>7, <1>e, <1>f DEF Holds
<1> QED BY <1>4, <1>g DEF r

\* The value of a member that has its name.
LEMMA PushValueOK ==
  ASSUME NEW a, Shape(a), a.ready, NEW v \in Item
  PROVE  Push(a, v).err = "none" /\ Holds(a, Push(a, v).obj, v)
<1> DEFINE r == Push(a, v)
           s == a.nodes
           n == Len(s)
           t == Fill(s, v)
           b == [a EXCEPT !.ready = FALSE, !.nodes = t]
<1>1. s \in Seq(Entry) /\ a.depth \in Nat /\ a.refs \in Seq(Nat) /\ n \in Nat
  BY Parts
<1>2. Levels(s, a.depth) /\ Waits(s, a.depth, a.ready) /\ Refers(s, a.refs)
  BY Parts
<1>3. /\ a.depth > 0 /\ n > 0 /\ s[n].depth = a.depth
      /\ ~s[n].given /\ \A i \in 1..n : s[i].given \/ i = n \/ s[i].slot = "ordinal"
  BY <1>2 DEF Waits
<1>4. Target(a) = n
  BY <1>1, <1>3, LastChild DEF Target
<1>5. r.obj = b /\ r.err = "none"
  <2>1. Latest(Children(a.nodes, Open(a))) = n
    BY LastChild
  <2>2. [a EXCEPT !.ready = FALSE, !.nodes[n].value = v, !.nodes[n].given = TRUE] = b
    BY DEF Shape, Amf, Fill
  <2> QED BY <1>1, <1>3, <2>1, <2>2 DEF Push, Done
<1>6. /\ b.ready = FALSE /\ b.nodes = t /\ b.depth = a.depth /\ b.refs = a.refs
      /\ b \in [nodes : {t}, depth : {a.depth}, ready : {FALSE}, refs : {a.refs}]
  BY DEF Shape, Amf
<1>7. ~s[n].given
  BY <1>3
<1> HIDE DEF b, r
<1>8. /\ t \in Seq(Entry) /\ Len(t) = n
      /\ \A i \in 1..n : i # n => t[i] = s[i]
      /\ t[n].depth = s[n].depth /\ t[n].value = v /\ t[n].given /\ Kept(s, t)
  BY <1>1, <1>3, <1>7, Valued
<1> HIDE DEF t
<1>9. b \in Amf
  BY <1>1, <1>6, <1>8 DEF Amf
<1>h. \A j \in 1..Len(t) : IF j <= n THEN t[j].depth = s[j].depth ELSE t[j].depth >= a.depth
  BY <1>1, <1>8
<1>a. Levels(t, a.depth)
  BY <1>1, <1>2, <1>8, <1>h, LevelsOK
<1>b. Waits(t, a.depth, FALSE)
  BY <1>1, <1>3, <1>8 DEF Waits
<1>c. Refers(t, a.refs)
  BY <1>2, <1>8, RefersOK
<1>d. Shape(b)
  BY <1>6, <1>9, <1>a, <1>b, <1>c DEF Shape
<1>e. Len(t) <= n + 1
  BY <1>1, <1>8
<1>f. Makes(a, b, a.depth, n + 1)
  BY <1>6, <1>8, <1>d, <1>e DEF Makes
<1>g. Holds(a, b, v)
  BY <1>3, <1>4, <1>6, <1>8, <1>f DEF Holds
<1> QED BY <1>5, <1>g DEF r

\* In a container without a name, nothing is pushed.
LEMMA PushOK ==
  ASSUME NEW a, Shape(a), NEW v \in Item
  PROVE  \/ Push(a, v).err = "none" /\ Holds(a, Push(a, v).obj, v)
         \/ Push(a, v).err = "need_name" /\ Push(a, v).obj = a
<1>1. CASE a.depth = 0
  BY <1>1, PushItemOK
<1>2. CASE a.ready
  BY <1>2, PushValueOK
<1>3. CASE a.depth # 0 /\ ~a.ready
  <2>1. a.depth > 0
    BY <1>3, Parts
  <2> QED BY <2>1, <1>3 DEF Push, Fails
<1> QED BY <1>1, <1>2, <1>3

\* amf_push_object_start and its like: the value is a container, and open.
LEMMA PushStartOK ==
  ASSUME NEW a, Shape(a), NEW v \in Item, IsContainer(v)
  PROVE  \/ /\ PushStart(a, v).err = "none"
            /\ Makes(a, PushStart(a, v).obj, a.depth + 1, Len(a.nodes) + 1)
            /\ a.ready => Len(PushStart(a, v).obj.nodes) = Len(a.nodes)
         \/ PushStart(a, v).err = "need_name" /\ PushStart(a, v).obj = a
<1> DEFINE p == Push(a, v)
           r == PushStart(a, v)
           b == p.obj
           t == b.nodes
           n == Target(a)
           f == Append(b.refs, n)
           c == [b EXCEPT !.depth = @ + 1, !.refs = f]
<1>1. \/ p.err = "none" /\ Holds(a, b, v)
      \/ p.err = "need_name" /\ b = a
  BY PushOK
<1>2. CASE p.err = "need_name" /\ b = a
  <2>1. r = p
    BY <1>2 DEF PushStart
  <2> QED BY <2>1, <1>2
<1>3. CASE p.err = "none" /\ Holds(a, b, v)
  <2>1. /\ Makes(a, b, a.depth, Len(a.nodes) + 1)
        /\ a.ready => Len(t) = Len(a.nodes)
        /\ b.ready = FALSE /\ Len(t) = n /\ n > 0
        /\ t[n].depth = a.depth /\ t[n].value = v /\ t[n].given
    BY <1>3 DEF Holds
  <2>2. Shape(b) /\ Kept(a.nodes, t) /\ b.depth = a.depth /\ Len(t) <= Len(a.nodes) + 1
    BY <2>1 DEF Makes
  <2>3. n = IF a.depth = 0 THEN Len(t) ELSE Latest(Children(a.nodes, Open(a)))
    BY <2>1 DEF Target
  <2>4. r.obj = c /\ r.err = "none"
    BY <1>3, <2>3 DEF PushStart, Done
  <2>5. /\ t \in Seq(Entry) /\ a.depth \in Nat /\ b.refs \in Seq(Nat) /\ n \in Nat
        /\ Levels(t, a.depth) /\ Waits(t, a.depth, FALSE) /\ Refers(t, b.refs)
    <3>1. Len(t) \in Nat
      BY <2>2, Parts
    <3> QED BY <2>1, <2>2, <3>1, Parts
  <2>6. /\ c.nodes = t /\ c.depth = a.depth + 1 /\ c.ready = FALSE /\ c.refs = f
        /\ c \in [nodes : {t}, depth : {a.depth + 1}, ready : {FALSE}, refs : {f}]
    BY <2>1, <2>2 DEF Shape, Amf
  <2> HIDE DEF c, b, r, p, n
  <2>7. /\ f \in Seq(Nat) /\ Len(f) = Len(b.refs) + 1
        /\ \A k \in 1..Len(b.refs) : f[k] = b.refs[k]
        /\ f[Len(b.refs) + 1] = n
    BY <2>5, AppendProperties
  <2> HIDE DEF f
  <2>8. t \in Seq(Entry) /\ f \in Seq(Nat) /\ a.depth + 1 \in Nat
    BY <2>5, <2>7
  <2>9. c \in Amf
    BY <2>6, <2>8 DEF Amf
  <2>b. n \in 1..Len(t)
    BY <2>1, <2>5
  <2>c. Opened(t, a.depth, n)
    <3>1. \A j \in n + 1..Len(t) : t[j].depth > a.depth
      BY <2>1, <2>5
    <3> QED BY <2>1, <2>b, <3>1 DEF Opened
  <2>d. Levels(t, a.depth + 1)
    <3>1. ASSUME NEW d \in 0..((a.depth + 1) - 1)
          PROVE  \E i \in 1..Len(t) : Opened(t, d, i)
      <4>1. CASE d = a.depth
        BY <4>1, <2>b, <2>c
      <4>2. CASE d # a.depth
        <5>1. d \in 0..(a.depth - 1)
          BY <4>2, <2>5
        <5> QED BY <5>1, <2>5 DEF Levels
      <4> QED BY <4>1, <4>2
    <3> QED BY <3>1, Zenon DEF Levels
  <2>e. Waits(t, a.depth + 1, FALSE)
    BY <2>5 DEF Waits
  <2>f. Refers(t, f)
    <3> SUFFICES ASSUME NEW k \in DOMAIN f
                 PROVE  f[k] \in 1..Len(t) /\ t[f[k]].given
      BY DEF Refers
    <3>a. b.refs \in Seq(Nat)
      BY <2>5
    <3>b. Len(b.refs) \in Nat /\ DOMAIN b.refs = 1..Len(b.refs)
      BY <3>a
    <3>0. Len(b.refs) \in Nat /\ DOMAIN b.refs = 1..Len(b.refs) /\ k \in 1..Len(b.refs) + 1
      BY <3>b, <2>7
    <3>1. CASE k = Len(b.refs) + 1
      BY <3>1, <2>1, <2>7, <2>b
    <3>2. CASE k # Len(b.refs) + 1
      <4>1. k \in DOMAIN b.refs /\ f[k] = b.refs[k]
        BY <3>0, <3>2, <2>7
      <4> QED BY <4>1, <2>5 DEF Refers
    <3> QED BY <3>1, <3>2
  <2>g. Shape(c)
    BY <2>6, <2>9, <2>d, <2>e, <2>f DEF Shape
  <2>h. Makes(a, c, a.depth + 1, Len(a.nodes) + 1)
    BY <2>2, <2>6, <2>g DEF Makes
  <2> QED BY <2>1, <2>4, <2>6, <2>h DEF r
<1> QED BY <1>1, <1>2, <1>3

\* amf_push_object_end: one level up, without the name that waited.
LEMMA PushEndOK ==
  ASSUME NEW a, Shape(a), a.depth > 0
  PROVE  /\ PushEnd(a).err = "none"
         /\ Makes(a, PushEnd(a).obj, a.depth - 1, Len(a.nodes))
         /\ a.ready => Len(PushEnd(a).obj.nodes) = Len(a.nodes) - 1
<1> DEFINE s == a.nodes
           t == IF a.ready THEN Front(s) ELSE s
           b == [a EXCEPT !.depth = @ - 1, !.ready = FALSE, !.nodes = t]
           r == PushEnd(a)
<1>1. /\ s \in Seq(Entry) /\ a.depth \in Nat /\ a.refs \in Seq(Nat) /\ Len(s) \in Nat
      /\ a.ready \in BOOLEAN
  BY Parts
<1>2. Levels(s, a.depth) /\ Waits(s, a.depth, a.ready) /\ Refers(s, a.refs)
  BY Parts
<1>3. r.obj = b /\ r.err = "none"
  BY DEF PushEnd, Done
<1>4. /\ b.nodes = t /\ b.depth = a.depth - 1 /\ b.ready = FALSE /\ b.refs = a.refs
      /\ b \in [nodes : {t}, depth : {a.depth - 1}, ready : {FALSE}, refs : {a.refs}]
  BY DEF Shape, Amf
<1>5. /\ t \in Seq(Entry) /\ Kept(s, t)
      /\ Len(t) = IF a.ready THEN Len(s) - 1 ELSE Len(s)
      /\ \A i \in 1..Len(t) : i \in 1..Len(s) /\ t[i] = s[i]
  <2>1. CASE a.ready
    <3>1. Len(s) > 0 /\ ~s[Len(s)].given
      BY <1>1, <1>2, <2>1 DEF Waits
    <3>2. /\ Front(s) \in Seq(Entry) /\ Len(Front(s)) = Len(s) - 1
          /\ \A i \in 1..Len(s) - 1 : Front(s)[i] = s[i]
          /\ Kept(s, Front(s))
      BY <1>1, <3>1, Popped
    <3> QED BY <1>1, <2>1, <3>2
  <2>2. CASE ~a.ready
    BY <1>1, <2>2, KeptSelf
  <2> QED BY <2>1, <2>2
<1> HIDE DEF t, b, r
<1>6. t \in Seq(Entry) /\ a.refs \in Seq(Nat) /\ a.depth - 1 \in Nat /\ a.depth - 1 <= a.depth
  BY <1>1, <1>5
<1>7. b \in Amf
  BY <1>4, <1>6 DEF Amf
<1>8. Levels(t, a.depth - 1)
  <2>1. \A j \in 1..Len(t) : IF j <= Len(s) THEN t[j].depth = s[j].depth
                             ELSE t[j].depth >= a.depth - 1
    BY <1>1, <1>5
  <2> QED BY <1>1, <1>2, <1>5, <1>6, <2>1, LevelsOK
<1>9. Waits(t, a.depth - 1, FALSE)
  <2>1. ASSUME NEW i \in 1..Len(t) PROVE t[i].given \/ t[i].slot = "ordinal"
    <3>1. i \in 1..Len(s) /\ t[i] = s[i] /\ ~(a.ready /\ i = Len(s))
      BY <1>1, <1>5
    <3> QED BY <1>2, <3>1 DEF Waits
  <2> QED BY <2>1 DEF Waits
<1>a. Refers(t, a.refs)
  BY <1>2, <1>5, RefersOK
<1>b. Shape(b)
  BY <1>4, <1>7, <1>8, <1>9, <1>a DEF Shape
<1>c. Len(t) <= Len(s) /\ (a.ready => Len(t) = Len(s) - 1)
  BY <1>1, <1>5
<1>d. Makes(a, b, a.depth - 1, Len(s))
  BY <1>4, <1>5, <1>b, <1>c DEF Makes
<1> QED BY <1>3, <1>4, <1>c, <1>d DEF r

\* Members of a container are counted.
LEMMA SlottedOK ==
  ASSUME NEW s \in Seq(Entry), NEW i \in Nat, NEW slot
  PROVE  Cardinality(Slotted(s, i, slot)) \in Nat
<1>1. Slotted(s, i, slot) \subseteq i + 1..Len(s)
  BY DEF Slotted, Children
<1>2. IsFiniteSet(i + 1..Len(s))
  BY FS_Interval
<1>3. IsFiniteSet(Slotted(s, i, slot))
  BY <1>1, <1>2, FS_Subset
<1> QED BY <1>3, FS_CardinalityType

\* The count of an array changes.
LEMMA Counted ==
  ASSUME NEW s \in Seq(Entry), NEW n \in 1..Len(s), NEW count \in Nat
  PROVE  /\ [s EXCEPT ![n].value.arg = count] \in Seq(Entry)
         /\ Len([s EXCEPT ![n].value.arg = count]) = Len(s)
         /\ \A i \in 1..Len(s) : Same(s[i], [s EXCEPT ![n].value.arg = count][i])
<1> DEFINE v == [s[n].value EXCEPT !.arg = count]
           x == [s[n] EXCEPT !.value = v]
           t == [s EXCEPT ![n] = x]
<1>1. s[n] \in Entry
  OBVIOUS
<1>2. s[n].value \in Item
  BY <1>1 DEF Entry
<1>3. v \in Item /\ v.type = s[n].value.type /\ v.to = s[n].value.to
  BY <1>2 DEF Item
<1> HIDE DEF v
<1>4. x \in Entry /\ Same(s[n], x)
  BY <1>1, <1>3 DEF Entry, Same, Alike
<1>5. [s EXCEPT ![n].value.arg = count] = t
  BY <1>1 DEF v
<1> HIDE DEF x
<1>6. t \in Seq(Entry) /\ Len(t) = Len(s)
  BY <1>4, ExceptSeq
<1>7. \A i \in 1..Len(s) : t[i] = IF i = n THEN x ELSE s[i]
  BY <1>4, ExceptSeq
<1> HIDE DEF t
<1>8. \A i \in 1..Len(s) : Same(s[i], t[i])
  BY <1>4, <1>7 DEF Same, Alike
<1> QED BY <1>5, <1>6, <1>8

\* The associative members lie in the container.
LEMMA SlottedIn ==
  ASSUME NEW s \in Seq(Entry), NEW i \in Nat, NEW slot
  PROVE  /\ Slotted(s, i, slot) \in SUBSET Nat
         /\ \A j \in Slotted(s, i, slot) : j \in 1..Len(s) /\ s[j].slot = slot
  BY DEF Slotted, Children

\* The latest of some numbers up to a bound is one of them.
LEMMA LatestIn ==
  ASSUME NEW S \in SUBSET Nat, S # {}, NEW n \in Nat, \A j \in S : j <= n
  PROVE  Latest(S) \in S /\ \A j \in S : j <= Latest(S)
<1> DEFINE T == {n - j : j \in S}
<1>1. T \in SUBSET Nat /\ T # {}
  <2>1. \A j \in S : n - j \in Nat
    <3> TAKE j \in S
    <3>1. j \in Nat /\ n \in Nat /\ j <= n
      OBVIOUS
    <3> QED BY <3>1
  <2> QED BY <2>1
<1>2. PICK m \in T : \A k \in T : m <= k
  BY <1>1, Least
<1>3. PICK i \in S : m = n - i
  OBVIOUS
<1>4. \A j \in S : j <= i
  <2> TAKE j \in S
  <2>1. n - j \in T /\ i \in Nat /\ j \in Nat
    OBVIOUS
  <2> QED BY <2>1, <1>2, <1>3
<1>5. Latest(S) = i
  BY <1>4, LatestIs
<1> QED BY <1>4, <1>5

\* The container that is open is before the name that waits in it.
LEMMA OpenBefore ==
  ASSUME NEW a, Shape(a), a.ready
  PROVE  /\ Opened(a.nodes, a.depth - 1, Open(a)) /\ Open(a) < Len(a.nodes)
         /\ Len(a.nodes) \in Children(a.nodes, Open(a))
<1> DEFINE s == a.nodes
           n == Open(a)
<1>1. s \in Seq(Entry) /\ a.depth \in Nat /\ Waits(s, a.depth, a.ready)
  BY Parts
<1>2. a.depth > 0 /\ Len(s) > 0 /\ s[Len(s)].depth = a.depth
  BY <1>1 DEF Waits
<1>3. Opened(s, a.depth - 1, n)
  BY <1>2, OpenOK
<1> HIDE DEF s, n
<1>4. n \in 1..Len(s) /\ s[n].depth = a.depth - 1 /\ \A j \in n + 1..Len(s) : s[j].depth > a.depth - 1
  BY <1>3 DEF Opened
<1>5. n < Len(s)
  BY <1>1, <1>2, <1>4
<1>6. Len(s) \in n + 1..Len(s) /\ s[Len(s)].depth = s[n].depth + 1
  BY <1>1, <1>2, <1>4, <1>5
<1>7. Len(s) \in Children(s, n)
  BY <1>1, <1>4, <1>6 DEF Children
<1> QED BY <1>3, <1>5, <1>7 DEF s, n

\* WithoutLast: a name that waits goes, unless it is an ordinal one.
LEMMA WithoutLastOK ==
  ASSUME NEW a, Shape(a), a.ready, a.nodes[Open(a)].value.type = "array",
         NEW u, u = WithoutLast(a.nodes, Open(a))
  PROVE  /\ u \in Seq(Entry) /\ Open(a) \in 1..Len(u) /\ Stands(a.nodes, u)
         /\ \A i \in 1..Len(u) : i \in 1..Len(a.nodes) /\ Alike(a.nodes[i], u[i])
         /\ \A i \in 1..Len(u) : u[i].given \/ u[i].slot = "ordinal"
         /\ \/ Kept(a.nodes, u)
            \/ /\ Len(u) = Len(a.nodes) /\ ~u[Len(u)].given
               /\ \A i \in 1..Len(u) :
                     ~Same(a.nodes[i], u[i]) => i = LastAssoc(a) /\ u[i].slot = "gone"
<1> DEFINE s == a.nodes
           n == Open(a)
           z == Len(s)
           A == Slotted(s, n, "assoc")
           last == Latest(A)
<1>1. s \in Seq(Entry) /\ a.depth \in Nat /\ z \in Nat /\ Waits(s, a.depth, a.ready)
  BY Parts
<1>2. /\ z > 0 /\ ~s[z].given
      /\ \A i \in 1..z : s[i].given \/ i = z \/ s[i].slot = "ordinal"
  BY <1>1 DEF Waits
<1>3. Opened(s, a.depth - 1, n) /\ n < z /\ z \in Children(s, n)
  BY OpenBefore
<1>4. n \in 1..z /\ s[n].given
  BY <1>3 DEF Opened
<1>5. s[z].slot \in {"assoc", "ordinal"}
  BY <1>1, <1>3 DEF Waits
<1>6. A \in SUBSET Nat /\ \A j \in A : j \in 1..z /\ s[j].slot = "assoc"
  BY <1>1, <1>4, SlottedIn
<1>7. z \in A <=> s[z].slot = "assoc"
  BY <1>3 DEF Slotted
<1>8. A # {} => last \in A /\ \A j \in A : j <= last
  <2>1. z \in Nat /\ A \in SUBSET Nat /\ \A j \in A : j <= z
    BY <1>1, <1>6
  <2> HIDE DEF A, z
  <2> QED BY <2>1, LatestIn
<1>9. u = CASE last = 0 -> s
            [] last = z -> Front(s)
            [] OTHER -> [s EXCEPT ![last].slot = "gone"]
  BY Zenon DEF WithoutLast
<1> HIDE DEF s, n, z, A, last
<1>10. CASE last = 0
  <2>1. A = {}
    <3>1. A # {} => last \in 1..z
      BY <1>6, <1>8
    <3> QED BY <1>10, <3>1
  <2>a. u = s
    BY <1>1, <1>2, <1>9, <1>10
  <2>b. s[z].slot # "assoc"
    BY <2>1, <1>7
  <2>2. s[z].slot = "ordinal" /\ u = s
    BY <2>a, <2>b, <1>5
  <2>3. Kept(s, u) /\ Stands(s, u)
    BY <2>2, KeptSelf, KeptStands
  <2>4. \A i \in 1..z : Alike(s[i], s[i])
    BY DEF Alike
  <2> QED BY <1>1, <1>2, <1>4, <2>2, <2>3, <2>4 DEF s, n, z
<1>11. CASE last = z
  <2>1. u = Front(s)
    BY <1>2, <1>9, <1>11
  <2>2. /\ u \in Seq(Entry) /\ Len(u) = z - 1
        /\ \A i \in 1..z - 1 : u[i] = s[i]
        /\ Kept(s, u)
    BY <1>1, <1>2, <2>1, Popped DEF z
  <2>3. n \in 1..Len(u)
    BY <1>1, <1>3, <1>4, <2>2
  <2>4. \A i \in 1..Len(u) : i \in 1..z /\ i # z /\ u[i] = s[i]
    BY <1>1, <2>2
  <2>5. \A i \in 1..Len(u) : Alike(s[i], u[i])
    BY <2>4 DEF Alike
  <2>6. Stands(s, u)
    BY <2>2, KeptStands
  <2> QED BY <1>2, <2>2, <2>3, <2>4, <2>5, <2>6 DEF s, n, z
<1>12. CASE last # 0 /\ last # z
  <2> DEFINE x == [s[last] EXCEPT !.slot = "gone"]
  <2>0. A # {}
    <3>1. Latest({}) = 0
      BY DEF Latest
    <3> QED BY <3>1, <1>12 DEF last
  <2>a. last \in A /\ \A j \in A : j <= last
    BY <1>8, <2>0
  <2>b. last \in 1..z /\ s[last].slot = "assoc"
    BY <1>6, <2>a
  <2>c. ~(z \in A)
    BY <1>1, <1>12, <2>a, <2>b
  <2>1. last \in 1..z /\ s[last].slot = "assoc" /\ ~(z \in A)
    BY <2>b, <2>c
  <2>2. s[z].slot = "ordinal"
    BY <1>5, <1>7, <2>1
  <2>3. s[last] \in Entry /\ s[last].given
    BY <1>1, <1>2, <1>12, <2>1 DEF z
  <2>4. x \in Entry /\ Alike(s[last], x) /\ x.slot = "gone" /\ x.given
    BY <2>3 DEF Entry, Alike
  <2>5. u = [s EXCEPT ![last] = x]
    BY <1>9, <1>12
  <2> HIDE DEF x
  <2>6. /\ u \in Seq(Entry) /\ Len(u) = z
        /\ \A i \in 1..z : u[i] = IF i = last THEN x ELSE s[i]
    BY <1>1, <2>1, <2>4, <2>5, ExceptSeq DEF z
  <2>7. \A i \in 1..z : Alike(s[i], u[i])
    BY <2>4, <2>6 DEF Alike
  <2>8. Stands(s, u)
    BY <2>6, <2>7 DEF Stands, z
  <2>9. ASSUME NEW i \in 1..z PROVE u[i].given \/ u[i].slot = "ordinal"
    BY <1>2, <2>2, <2>4, <2>6
  <2>10. ~u[z].given
    BY <1>1, <1>2, <1>12, <2>6
  <2>11. ASSUME NEW i \in 1..z, ~Same(s[i], u[i]) PROVE i = last /\ u[i].slot = "gone"
    <3>1. i # last => u[i] = s[i]
      BY <2>6
    <3>2. i # last => Same(s[i], u[i])
      BY <3>1 DEF Same, Alike
    <3> QED BY <2>4, <2>6, <2>11, <3>2
  <2> QED BY <1>4, <2>6, <2>7, <2>8, <2>9, <2>10, <2>11 DEF s, n, z, last, A, LastAssoc
<1> QED BY <1>10, <1>11, <1>12

\* amf_push_assoc_end: a name that waited goes, the array is told its count; but an
\* ordinal name is left, and the last associative member goes.
LEMMA PushAssocEndOK ==
  ASSUME NEW a, Shape(a)
  PROVE  \/ /\ PushAssocEnd(a).err = "none"
            /\ \/ Makes(a, PushAssocEnd(a).obj, a.depth, Len(a.nodes))
               \/ Leaves(a, PushAssocEnd(a).obj)
         \/ PushAssocEnd(a).err = "invalid" /\ PushAssocEnd(a).obj = a
<1> DEFINE r == PushAssocEnd(a)
           s == a.nodes
           n == Open(a)
           u == IF a.ready THEN WithoutLast(s, n) ELSE s
           k == Cardinality(Slotted(u, n, "assoc"))
           t == [u EXCEPT ![n].value.arg = k]
           b == [a EXCEPT !.ready = FALSE, !.nodes = t]
<1>1. /\ s \in Seq(Entry) /\ a.depth \in Nat /\ a.refs \in Seq(Nat) /\ Len(s) \in Nat
      /\ a.ready \in BOOLEAN
  BY Parts
<1>2. Levels(s, a.depth) /\ Waits(s, a.depth, a.ready) /\ Refers(s, a.refs)
  BY Parts
<1>3. CASE a.depth = 0 \/ s[n].value.type # "array"
  BY <1>3 DEF PushAssocEnd, Fails
<1>4. CASE a.depth # 0 /\ s[n].value.type = "array"
  <2>1. r.err = "none" /\ r.obj = b
    BY <1>4 DEF PushAssocEnd, Done
  <2>2. n \in 1..Len(s)
    BY <1>1, <1>4, OpenOK DEF Opened
  <2>3. /\ u \in Seq(Entry) /\ n \in 1..Len(u) /\ Stands(s, u)
        /\ \A i \in 1..Len(u) : i \in 1..Len(s) /\ Alike(s[i], u[i])
        /\ \A i \in 1..Len(u) : u[i].given \/ u[i].slot = "ordinal"
        /\ \/ Kept(s, u)
           \/ /\ a.ready /\ Len(u) = Len(s) /\ ~u[Len(u)].given
              /\ \A i \in 1..Len(u) : ~Same(s[i], u[i]) => i = LastAssoc(a) /\ u[i].slot = "gone"
    <3>1. CASE a.ready
      BY <3>1, <1>4, WithoutLastOK
    <3>2. CASE ~a.ready
      <4>1. u = s
        BY <3>2
      <4>2. Kept(s, s) /\ Stands(s, s)
        BY KeptSelf, KeptStands
      <4>3. \A i \in 1..Len(s) : Alike(s[i], s[i])
        BY DEF Alike
      <4>4. \A i \in 1..Len(s) : s[i].given \/ s[i].slot = "ordinal"
        BY <1>2, <3>2 DEF Waits
      <4> QED BY <1>1, <2>2, <4>1, <4>2, <4>3, <4>4
    <3> QED BY <3>1, <3>2
  <2>4. /\ b.nodes = t /\ b.depth = a.depth /\ b.ready = FALSE /\ b.refs = a.refs
        /\ b \in [nodes : {t}, depth : {a.depth}, ready : {FALSE}, refs : {a.refs}]
    BY DEF Shape, Amf
  <2> HIDE DEF r, b, u
  <2>5. k \in Nat
    BY <2>3, SlottedOK
  <2> HIDE DEF k
  <2>6. /\ t \in Seq(Entry) /\ Len(t) = Len(u)
        /\ \A i \in 1..Len(u) : Same(u[i], t[i])
    BY <2>3, <2>5, Counted
  <2> HIDE DEF t
  <2>7. \A i \in 1..Len(t) : i \in 1..Len(s) /\ Alike(s[i], t[i]) /\ t[i].slot = u[i].slot
    BY <2>3, <2>6 DEF Same, Alike
  <2>8. Stands(s, t)
    BY <2>3, <2>6, <2>7 DEF Stands
  <2>9. t \in Seq(Entry) /\ a.refs \in Seq(Nat) /\ a.depth \in Nat
    BY <1>1, <2>6
  <2>10. b \in Amf
    BY <2>4, <2>9 DEF Amf
  <2>11. Levels(t, a.depth)
    <3>1. \A j \in 1..Len(t) : t[j].depth = s[j].depth /\ j <= Len(s)
      BY <2>7 DEF Alike
    <3>2. \A j \in 1..Len(t) : IF j <= Len(s) THEN t[j].depth = s[j].depth
                               ELSE t[j].depth >= a.depth
      BY <3>1
    <3>3. s \in Seq(Entry) /\ t \in Seq(Entry) /\ a.depth \in Nat /\ a.depth <= a.depth
      BY <1>1, <2>9
    <3>4. Levels(s, a.depth)
      BY <1>2
    <3> QED BY ONLY <2>8, <3>2, <3>3, <3>4, LevelsStand
  <2>12. Waits(t, a.depth, FALSE)
    <3>1. \A i \in 1..Len(t) : t[i].given \/ t[i].slot = "ordinal"
      BY <2>3, <2>6 DEF Same, Alike
    <3> QED BY <3>1 DEF Waits
  <2>13. Refers(t, a.refs)
    BY <1>2, <2>8, RefersStand
  <2>14. Shape(b)
    BY <2>4, <2>10, <2>11, <2>12, <2>13 DEF Shape
  <2>15. CASE Kept(s, u)
    <3>1. Kept(u, t)
      BY <2>6 DEF Kept
    <3>2. Kept(s, t)
      BY <2>15, <3>1, KeptBoth
    <3>3. Len(t) <= Len(s)
      <4>1. Len(t) \in Nat /\ (Len(t) > 0 => Len(t) \in 1..Len(t))
        BY <2>6
      <4> QED BY <4>1, <2>7, <1>1
    <3>4. Makes(a, b, a.depth, Len(s))
      BY <2>4, <2>14, <3>2, <3>3 DEF Makes
    <3> QED BY <2>1, <3>4 DEF r
  <2>16. CASE /\ a.ready /\ Len(u) = Len(s) /\ ~u[Len(u)].given
              /\ \A i \in 1..Len(u) : ~Same(s[i], u[i]) => i = LastAssoc(a) /\ u[i].slot = "gone"
    <3>1. Len(t) = Len(s) /\ Len(s) \in 1..Len(s)
      BY <1>1, <2>2, <2>6, <2>16
    <3>2. ~t[Len(s)].given
      BY <2>6, <2>16, <3>1 DEF Same, Alike
    <3>3. ASSUME NEW i \in 1..Len(s), ~Same(s[i], t[i])
          PROVE  i = LastAssoc(a) /\ Alike(s[i], t[i]) /\ t[i].slot = "gone"
      <4>1. i \in 1..Len(u) /\ i \in 1..Len(t)
        BY <2>16, <3>1
      <4>2. Same(u[i], t[i]) /\ Alike(s[i], t[i])
        BY <4>1, <2>6, <2>7
      <4>3. ~Same(s[i], u[i])
        BY <4>2, <3>3 DEF Same, Alike
      <4> QED BY <2>16, <4>1, <4>2, <4>3 DEF Same
    <3>4. Leaves(a, b)
      BY <2>4, <2>14, <2>16, <3>1, <3>2, <3>3 DEF Leaves, s
    <3> QED BY <2>1, <3>4 DEF r
  <2> QED BY <2>3, <2>15, <2>16
<1> QED BY <1>3, <1>4
-----------------------------------------------------------------------------
(* The calls of an application. *)

USE AmfAssumption

\* What a step keeps, and what it must not take away.
Good == IndInv' /\ (Kept(amf.nodes, amf'.nodes) \/ Leaves(amf, amf'))

\* The invariant, typed for arithmetic.
LEMMA State ==
  ASSUME IndInv
  PROVE  /\ Shape(amf) /\ amf.depth \in Nat /\ Len(amf.nodes) \in Nat
         /\ amf.depth <= MaxDepth /\ Len(amf.nodes) <= MaxNodes
         /\ list \in Int /\ Outside <= list /\ list <= amf.depth
         /\ MaxDepth \in Nat /\ MaxNodes \in Nat
<1>1. Shape(amf) /\ amf.depth <= MaxDepth /\ Len(amf.nodes) <= MaxNodes
  BY DEF IndInv
<1>2. amf.depth \in Nat /\ Len(amf.nodes) \in Nat
  BY <1>1, Parts
<1>3. list \in Outside..MaxDepth /\ list <= amf.depth
  BY DEF IndInv
<1> QED BY <1>1, <1>2, <1>3 DEF Outside

\* A step that makes a well-shaped object within the bounds is good.
LEMMA GoodStep ==
  ASSUME IndInv, NEW d \in Nat, NEW n \in Nat, d <= MaxDepth, n <= MaxNodes,
         Makes(amf, amf', d, n), list' \in Int, Outside <= list', list' <= d
  PROVE  Good
<1>1. /\ Shape(amf') /\ Kept(amf.nodes, amf'.nodes) /\ amf'.depth = d
      /\ Len(amf'.nodes) <= n
  BY DEF Makes
<1>2. Len(amf'.nodes) \in Nat
  <2> DEFINE b == amf'
  <2>1. Shape(b)
    BY <1>1
  <2> HIDE DEF b
  <2>2. Len(b.nodes) \in Nat
    BY <2>1, Parts
  <2> QED BY <2>2 DEF b
<1>3. MaxDepth \in Nat /\ MaxNodes \in Nat
  OBVIOUS
<1>4. Len(amf'.nodes) <= MaxNodes
  BY <1>1, <1>2, <1>3
<1>5. list' \in Outside..MaxDepth
  BY <1>3 DEF Outside
<1>6. amf'.depth <= MaxDepth /\ list' <= amf'.depth
  BY <1>1
<1> QED BY <1>1, <1>4, <1>5, <1>6 DEF Good, IndInv

\* A call that changes nothing.
LEMMA MakesSelf ==
  ASSUME NEW a, Shape(a)
  PROVE  Makes(a, a, a.depth, Len(a.nodes))
<1>1. Len(a.nodes) \in Nat
  BY Parts
<1> QED BY <1>1, KeptSelf DEF Makes

\* One call after the other.
LEMMA MakesBoth ==
  ASSUME NEW a, NEW b, NEW c, NEW d, NEW e, NEW n, NEW m,
         Makes(a, b, d, n), Makes(b, c, e, m)
  PROVE  Makes(a, c, e, m)
  BY KeptBoth DEF Makes

\* The size a call makes may be told in another way.
LEMMA MakesWithin ==
  ASSUME NEW a, NEW b, NEW d, NEW n, NEW m, Makes(a, b, d, n), Len(b.nodes) <= m
  PROVE  Makes(a, b, d, m)
  BY DEF Makes

\* Push, whether or not it fails.
LEMMA PushMakes ==
  ASSUME NEW a, Shape(a), NEW v \in Item
  PROVE  /\ Makes(a, Push(a, v).obj, a.depth, Len(a.nodes) + 1)
         /\ a.ready => Len(Push(a, v).obj.nodes) = Len(a.nodes)
<1>1. CASE Push(a, v).err = "none" /\ Holds(a, Push(a, v).obj, v)
  BY <1>1 DEF Holds
<1>2. CASE Push(a, v).obj = a
  <2>1. Len(a.nodes) \in Nat
    BY Parts
  <2>2. Len(a.nodes) <= Len(a.nodes) + 1
    BY <2>1
  <2>3. Makes(a, a, a.depth, Len(a.nodes) + 1)
    BY <2>2, MakesSelf, MakesWithin
  <2> QED BY <1>2, <2>3
<1> QED BY <1>1, <1>2, PushOK

\* The values that are pushed.
LEMMA Items ==
  /\ \A type \in Plain : Of(type) \in Item
  /\ Of("undefined") \in Item
  /\ \A n \in Lengths : Value("string", n, 0) \in Item /\ Value("xml", n, 0) \in Item
  /\ Of("object") \in Item /\ IsContainer(Of("object"))
  /\ \A n \in Nat : Value("array", n, 0) \in Item /\ IsContainer(Value("array", n, 0))
  /\ \A ref \in Nat, to \in Nat : Value("reference", ref, to) \in Item
<1>1. \A type \in Kinds, arg \in Nat, to \in Nat : Value(type, arg, to) \in Item
  BY DEF Value, Item
<1>2. /\ Plain \subseteq Kinds
      /\ {"undefined", "string", "xml", "reference", "object", "array"} \subseteq Kinds
  BY DEF Kinds
<1>3. \A type \in Kinds : Of(type) \in Item
  BY <1>1 DEF Of
<1>4. Lengths \subseteq Nat
  OBVIOUS
<1>5. IsContainer(Of("object")) /\ \A n \in Nat : IsContainer(Value("array", n, 0))
  BY DEF IsContainer, Of, Value
<1> QED BY <1>1, <1>2, <1>3, <1>4, <1>5

\* A name of the application is one.
LEMMA NamesOK == Names \subseteq Labels
  BY Zenon DEF Labels

\* The name an argument of amf_push_simple has, or none outside of containers.
LEMMA NamedOK ==
  ASSUME IndInv, list # Outside, NEW name \in Labels
  PROVE  /\ Makes(amf, Named(name).obj, amf.depth, Len(amf.nodes) + 1)
         /\ Len(Named(name).obj.nodes) = Len(amf.nodes) \/ Named(name).obj.ready
<1>1. /\ Shape(amf) /\ amf.depth \in Nat /\ Len(amf.nodes) \in Nat
      /\ list \in Int /\ Outside <= list /\ list <= amf.depth
  BY State
<1>2. CASE list = 0
  <2>1. Named(name).obj = amf
    BY <1>2 DEF Named, Done
  <2>2. Len(amf.nodes) <= Len(amf.nodes) + 1
    BY <1>1
  <2>3. Makes(amf, amf, amf.depth, Len(amf.nodes) + 1)
    BY <1>1, <2>2, MakesSelf, MakesWithin
  <2> QED BY <2>1, <2>3
<1>3. CASE list # 0
  <2>1. amf.depth > 0
    BY <1>1, <1>3 DEF Outside
  <2>2. Named(name) = PushMember(amf, name)
    BY <1>3 DEF Named
  <2>3. /\ Makes(amf, PushMember(amf, name).obj, amf.depth, Len(amf.nodes) + 1)
        /\ PushMember(amf, name).obj.ready
    BY <1>1, <2>1, PushMemberOK
  <2> QED BY <2>2, <2>3
<1> QED BY <1>2, <1>3

\* A value behind the name.
LEMMA NamedValueOK ==
  ASSUME IndInv, list # Outside, NEW name \in Labels, NEW v \in Item
  PROVE  Makes(amf, Push(Named(name).obj, v).obj, amf.depth, Len(amf.nodes) + 1)
<1> DEFINE b == Named(name).obj
           c == Push(b, v).obj
           n == Len(amf.nodes)
<1>1. Makes(amf, b, amf.depth, n + 1) /\ (Len(b.nodes) = n \/ b.ready) /\ n \in Nat
  BY NamedOK, State
<1>2. Shape(b) /\ b.depth = amf.depth /\ Len(b.nodes) <= n + 1
  BY <1>1 DEF Makes
<1>3. /\ Makes(b, c, b.depth, Len(b.nodes) + 1)
      /\ b.ready => Len(c.nodes) = Len(b.nodes)
  BY <1>2, PushMakes
<1>4. Len(c.nodes) <= Len(b.nodes) + 1
  BY <1>3 DEF Makes
<1> HIDE DEF b, c, n
<1>5. Makes(amf, c, amf.depth, Len(b.nodes) + 1)
  BY <1>1, <1>2, <1>3, MakesBoth
<1>6. Len(c.nodes) <= n + 1
  BY <1>1, <1>2, <1>3, <1>4
<1>7. Makes(amf, c, amf.depth, n + 1)
  BY <1>5, <1>6, MakesWithin
<1> QED BY <1>7 DEF b, c, n

\* A container behind the name.
LEMMA NamedStartOK ==
  ASSUME IndInv, list # Outside, NEW name \in Labels, NEW v \in Item, IsContainer(v)
  PROVE  LET r == PushStart(Named(name).obj, v)
         IN  \/ r.err = "none" /\ Makes(amf, r.obj, amf.depth + 1, Len(amf.nodes) + 1)
             \/ r.err = "need_name" /\ Makes(amf, r.obj, amf.depth, Len(amf.nodes) + 1)
<1> DEFINE b == Named(name).obj
           r == PushStart(b, v)
           n == Len(amf.nodes)
<1>1. Makes(amf, b, amf.depth, n + 1) /\ (Len(b.nodes) = n \/ b.ready) /\ n \in Nat
  BY NamedOK, State
<1>2. Shape(b) /\ b.depth = amf.depth /\ Len(b.nodes) <= n + 1
  BY <1>1 DEF Makes
<1>3. \/ /\ r.err = "none" /\ Makes(b, r.obj, b.depth + 1, Len(b.nodes) + 1)
         /\ b.ready => Len(r.obj.nodes) = Len(b.nodes)
      \/ r.err = "need_name" /\ r.obj = b
  BY <1>2, PushStartOK
<1> HIDE DEF b, n
<1>4. CASE r.err = "need_name" /\ r.obj = b
  BY <1>1, <1>4 DEF b, n
<1>5. CASE /\ r.err = "none" /\ Makes(b, r.obj, b.depth + 1, Len(b.nodes) + 1)
           /\ b.ready => Len(r.obj.nodes) = Len(b.nodes)
  <2> DEFINE c == r.obj
  <2>1. Len(c.nodes) <= Len(b.nodes) + 1
    BY <1>5 DEF Makes
  <2>2. Makes(amf, c, amf.depth + 1, Len(b.nodes) + 1)
    BY <1>1, <1>2, <1>5, MakesBoth
  <2> HIDE DEF c
  <2>3. Len(c.nodes) <= n + 1
    BY <1>1, <1>2, <1>5, <2>1 DEF c
  <2>4. Makes(amf, c, amf.depth + 1, n + 1)
    BY <2>2, <2>3, MakesWithin
  <2> QED BY <1>5, <2>4 DEF b, n, c
<1> QED BY <1>3, <1>4, <1>5

\* A value that is pushed directly.
LEMMA DirectPushOK ==
  ASSUME IndInv, Room, NEW v \in Item, Direct(Push(amf, v))
  PROVE  Good
<1>1. /\ Shape(amf) /\ amf.depth \in Nat /\ Len(amf.nodes) \in Nat
      /\ amf.depth <= MaxDepth /\ MaxNodes \in Nat
      /\ list \in Int /\ Outside <= list /\ list <= amf.depth
  BY State
<1>2. amf' = Push(amf, v).obj /\ list' = list
  BY DEF Direct
<1>3. Makes(amf, amf', amf.depth, Len(amf.nodes) + 1)
  BY <1>1, <1>2, PushMakes
<1>4. Len(amf.nodes) + 1 \in Nat /\ Len(amf.nodes) + 1 <= MaxNodes
  BY <1>1 DEF Room
<1> QED BY <1>1, <1>2, <1>3, <1>4, GoodStep

\* A container that is started directly.
LEMMA DirectStartOK ==
  ASSUME IndInv, Room, Deeper, NEW v \in Item, IsContainer(v), Direct(PushStart(amf, v))
  PROVE  Good
<1>1. /\ Shape(amf) /\ amf.depth \in Nat /\ Len(amf.nodes) \in Nat
      /\ amf.depth <= MaxDepth /\ Len(amf.nodes) <= MaxNodes /\ MaxNodes \in Nat /\ MaxDepth \in Nat
      /\ list \in Int /\ Outside <= list /\ list <= amf.depth
  BY State
<1>2. amf' = PushStart(amf, v).obj /\ list' = list
  BY DEF Direct
<1>3. \/ Makes(amf, amf', amf.depth + 1, Len(amf.nodes) + 1)
      \/ amf' = amf
  BY <1>1, <1>2, PushStartOK
<1>4. CASE Makes(amf, amf', amf.depth + 1, Len(amf.nodes) + 1)
  <2>1. /\ Len(amf.nodes) + 1 \in Nat /\ Len(amf.nodes) + 1 <= MaxNodes
        /\ amf.depth + 1 \in Nat /\ amf.depth + 1 <= MaxDepth /\ list <= amf.depth + 1
    BY <1>1 DEF Room, Deeper
  <2> QED BY <1>1, <1>2, <1>4, <2>1, GoodStep
<1>5. CASE amf' = amf
  <2>1. Makes(amf, amf', amf.depth, Len(amf.nodes))
    BY <1>1, <1>5, MakesSelf
  <2> QED BY <1>1, <1>2, <2>1, GoodStep
<1> QED BY <1>3, <1>4, <1>5

\* A member's name that is pushed directly.
LEMMA AddMemberOK == ASSUME IndInv, AddMember PROVE Good
<1>1. /\ Shape(amf) /\ amf.depth \in Nat /\ Len(amf.nodes) \in Nat
      /\ amf.depth <= MaxDepth /\ MaxNodes \in Nat
      /\ list \in Int /\ Outside <= list /\ list <= amf.depth
  BY State
<1>2. PICK name \in Names : Direct(PushMember(amf, name))
  BY DEF AddMember
<1>3. amf.depth > 0 /\ Room /\ name \in Labels
  BY NamesOK DEF AddMember
<1>4. amf' = PushMember(amf, name).obj /\ list' = list
  BY <1>2 DEF Direct
<1>5. Makes(amf, amf', amf.depth, Len(amf.nodes) + 1)
  BY <1>1, <1>3, <1>4, PushMemberOK
<1>6. Len(amf.nodes) + 1 \in Nat /\ Len(amf.nodes) + 1 <= MaxNodes
  BY <1>1, <1>3 DEF Room
<1> QED BY <1>1, <1>4, <1>5, <1>6, GoodStep

\* A reference to one of the containers, or to none.
LEMMA AddReferenceOK == ASSUME IndInv, AddReference PROVE Good
<1>1. PICK ref \in 0..Len(amf.refs) : Room /\ Direct(PushReference(amf, ref))
  BY DEF AddReference
<1> DEFINE to == IF ref < Len(amf.refs) THEN amf.refs[ref + 1] ELSE 0
<1>2. amf.refs \in Seq(Nat)
  BY State, Parts
<1>3. ref \in Nat /\ to \in Nat
  <2>1. Len(amf.refs) \in Nat /\ ref \in Nat
    BY <1>2
  <2>2. ref < Len(amf.refs) => ref + 1 \in 1..Len(amf.refs)
    BY <2>1
  <2> QED BY <1>2, <2>1, <2>2
<1>4. Direct(Push(amf, Value("reference", ref, to)))
  BY <1>1 DEF PushReference
<1>5. Value("reference", ref, to) \in Item
  BY <1>3, Items
<1> QED BY <1>1, <1>4, <1>5, DirectPushOK

\* The end of a container.
LEMMA EndOK == ASSUME IndInv, End PROVE Good
<1>1. /\ Shape(amf) /\ amf.depth \in Nat /\ Len(amf.nodes) \in Nat
      /\ amf.depth <= MaxDepth /\ Len(amf.nodes) <= MaxNodes /\ MaxDepth \in Nat
      /\ list \in Int
  BY State
<1>2. amf.depth > 0 /\ list = Outside /\ amf' = PushEnd(amf).obj /\ list' = list
  BY DEF End, Direct
<1>3. Makes(amf, amf', amf.depth - 1, Len(amf.nodes))
  BY <1>1, <1>2, PushEndOK
<1>4. amf.depth - 1 \in Nat /\ amf.depth - 1 <= MaxDepth /\ Outside <= list' /\ list' <= amf.depth - 1
  BY <1>1, <1>2 DEF Outside
<1> QED BY <1>1, <1>2, <1>3, <1>4, GoodStep

\* The position in a list moves, the object stays.
LEMMA ListedNothing ==
  ASSUME IndInv, amf' = amf, list' \in Int, Outside <= list', list' <= amf.depth
  PROVE  Good
<1>1. /\ Shape(amf) /\ amf.depth \in Nat /\ Len(amf.nodes) \in Nat
      /\ amf.depth <= MaxDepth /\ Len(amf.nodes) <= MaxNodes
  BY State
<1>2. Makes(amf, amf', amf.depth, Len(amf.nodes))
  BY <1>1, MakesSelf
<1> QED BY <1>1, <1>2, GoodStep

\* An argument of a list that leaves the depth as it is.
LEMMA ListedOK ==
  ASSUME IndInv, NEW r, Listed(r, list), NEW n \in Nat, n <= MaxNodes,
         Makes(amf, r.obj, amf.depth, n)
  PROVE  Good
<1>1. /\ Shape(amf) /\ amf.depth \in Nat /\ Len(amf.nodes) \in Nat /\ amf.depth <= MaxDepth
      /\ list \in Int /\ Outside <= list /\ list <= amf.depth
  BY State
<1>2. amf' = r.obj /\ (list' = list \/ list' = Outside)
  BY DEF Listed
<1>3. list' \in Int /\ Outside <= list' /\ list' <= amf.depth
  BY <1>1, <1>2 DEF Outside
<1>4. Makes(amf, amf', amf.depth, n)
  BY <1>2
<1> QED BY <1>1, <1>3, <1>4, GoodStep

\* A value in a list.
LEMMA ListValueOK ==
  ASSUME IndInv, list # Outside, Room, NEW name \in Labels, NEW v \in Item,
         \/ Listed(After(Named(name), Push(Named(name).obj, v)), list)
         \/ Listed(Push(Named(name).obj, v), list)
  PROVE  Good
<1>1. Len(amf.nodes) \in Nat /\ MaxNodes \in Nat
  BY State
<1>2. Len(amf.nodes) + 1 \in Nat /\ Len(amf.nodes) + 1 <= MaxNodes
  BY <1>1 DEF Room
<1>3. /\ Makes(amf, Named(name).obj, amf.depth, Len(amf.nodes) + 1)
      /\ Makes(amf, Push(Named(name).obj, v).obj, amf.depth, Len(amf.nodes) + 1)
  BY NamedOK, NamedValueOK
<1>4. \/ Listed(Named(name), list)
      \/ Listed(Push(Named(name).obj, v), list)
  BY DEF After
<1> QED BY <1>2, <1>3, <1>4, ListedOK

\* A container in a list.
LEMMA ListStartOK ==
  ASSUME IndInv, list # Outside, Room, Deeper, NEW name \in Labels, NEW v \in Item, IsContainer(v),
         Listed(After(Named(name), PushStart(Named(name).obj, v)), list + 1)
  PROVE  Good
<1> DEFINE r == Named(name)
           t == PushStart(r.obj, v)
           n == Len(amf.nodes) + 1
<1>1. /\ amf.depth \in Nat /\ Len(amf.nodes) \in Nat /\ MaxNodes \in Nat /\ MaxDepth \in Nat
      /\ amf.depth <= MaxDepth
      /\ list \in Int /\ Outside <= list /\ list <= amf.depth
  BY State
<1>2. n \in Nat /\ n <= MaxNodes /\ amf.depth + 1 \in Nat /\ amf.depth + 1 <= MaxDepth
  BY <1>1 DEF Room, Deeper
<1>3. Makes(amf, r.obj, amf.depth, n)
  BY NamedOK
<1>4. \/ t.err = "none" /\ Makes(amf, t.obj, amf.depth + 1, n)
      \/ t.err = "need_name" /\ Makes(amf, t.obj, amf.depth, n)
  BY NamedStartOK
<1>5. \/ r.err # "none" /\ Listed(r, list + 1)
      \/ Listed(t, list + 1)
  BY DEF After
<1> HIDE DEF r, t, n
<1>6. /\ \A x : Listed(x, list + 1) => /\ amf' = x.obj
                                       /\ list' = IF x.err = "none" THEN list + 1 ELSE Outside
      /\ Outside \in Int /\ Outside <= amf.depth
  BY <1>1 DEF Listed, Outside
<1>7. CASE r.err # "none" /\ Listed(r, list + 1)
  <2>1. amf' = r.obj /\ list' = Outside
    BY <1>6, <1>7
  <2> QED BY <1>1, <1>2, <1>3, <1>6, <2>1, GoodStep
<1>8. CASE Listed(t, list + 1) /\ t.err = "none" /\ Makes(amf, t.obj, amf.depth + 1, n)
  <2>1. amf' = t.obj /\ list' = list + 1
    BY <1>6, <1>8
  <2>2. list' \in Int /\ Outside <= list' /\ list' <= amf.depth + 1
    BY <1>1, <2>1 DEF Outside
  <2>3. Makes(amf, amf', amf.depth + 1, n)
    BY <1>8, <2>1
  <2> QED BY <1>2, <2>2, <2>3, GoodStep
<1>9. CASE Listed(t, list + 1) /\ t.err = "need_name" /\ Makes(amf, t.obj, amf.depth, n)
  <2>1. amf' = t.obj /\ list' = Outside
    BY <1>6, <1>9
  <2> QED BY <1>1, <1>2, <1>6, <1>9, <2>1, GoodStep
<1> QED BY <1>4, <1>5, <1>7, <1>8, <1>9

\* The end of the associative part, in a list.
LEMMA ListOrdinalsOK == ASSUME IndInv, ListOrdinals PROVE Good
<1>1. /\ Shape(amf) /\ Len(amf.nodes) \in Nat /\ Len(amf.nodes) <= MaxNodes
  BY State
<1>2. Listed(PushAssocEnd(amf), list)
  BY DEF ListOrdinals
<1>3. \/ Makes(amf, PushAssocEnd(amf).obj, amf.depth, Len(amf.nodes))
      \/ Leaves(amf, PushAssocEnd(amf).obj)
  BY <1>1, PushAssocEndOK, MakesSelf
<1>4. CASE Makes(amf, PushAssocEnd(amf).obj, amf.depth, Len(amf.nodes))
  BY <1>1, <1>2, <1>4, ListedOK
<1>5. CASE Leaves(amf, PushAssocEnd(amf).obj)
  <2>1. Leaves(amf, amf') /\ (list' = list \/ list' = Outside)
    BY <1>2, <1>5 DEF Listed
  <2>2. Shape(amf') /\ amf'.depth = amf.depth /\ Len(amf'.nodes) = Len(amf.nodes)
    BY <2>1 DEF Leaves
  <2>3. /\ list' \in Outside..MaxDepth /\ list' <= amf'.depth
        /\ amf'.depth <= MaxDepth /\ Len(amf'.nodes) <= MaxNodes
    BY <2>1, <2>2, State DEF Outside
  <2> QED BY <2>1, <2>2, <2>3 DEF Good, IndInv
<1> QED BY <1>3, <1>4, <1>5

\* The end of a container, in a list.
LEMMA ListEndOK == ASSUME IndInv, ListEnd PROVE Good
<1> DEFINE e == ""
           r == PushMember(amf, e)
           t == PushEnd(r.obj)
           n == Len(amf.nodes)
<1>1. /\ Shape(amf) /\ amf.depth \in Nat /\ n \in Nat /\ MaxDepth \in Nat
      /\ amf.depth <= MaxDepth /\ n <= MaxNodes
      /\ list \in Int /\ Outside <= list /\ list <= amf.depth
  BY State
<1>2. e \in Labels
  BY Zenon DEF Labels
<1>3. list > 0 /\ Listed(After(r, t), list - 1)
  BY Zenon DEF ListEnd
<1> HIDE DEF e
<1>4. /\ r.err = "none" <=> ~amf.ready
      /\ r.err # "none" => r.obj = amf
      /\ Makes(amf, r.obj, amf.depth, n + 1) /\ r.obj.ready
      /\ amf.depth > 0
  <2>1. amf.depth > 0
    BY <1>1, <1>3
  <2> QED BY <1>1, <1>2, <2>1, PushMemberOK
<1>5. Shape(r.obj) /\ r.obj.depth = amf.depth /\ Len(r.obj.nodes) <= n + 1
  BY <1>4 DEF Makes
<1>6. /\ t.err = "none" /\ Makes(r.obj, t.obj, r.obj.depth - 1, Len(r.obj.nodes))
      /\ Len(t.obj.nodes) = Len(r.obj.nodes) - 1
  BY <1>4, <1>5, PushEndOK
<1>7. Len(r.obj.nodes) \in Nat
  BY <1>5, Parts
<1>8. Makes(amf, t.obj, amf.depth - 1, Len(r.obj.nodes))
  BY <1>4, <1>5, <1>6, MakesBoth
<1>9. Len(t.obj.nodes) <= n
  BY <1>1, <1>5, <1>6, <1>7
<1>a. Makes(amf, t.obj, amf.depth - 1, n)
  BY <1>8, <1>9, MakesWithin
<1> HIDE DEF r, t, n
<1>b. CASE r.err = "none"
  <2>1. amf' = t.obj /\ list' = list - 1
    BY <1>3, <1>6, <1>b DEF After, Listed
  <2>2. /\ list' \in Int /\ Outside <= list' /\ list' <= amf.depth - 1
        /\ amf.depth - 1 \in Nat /\ amf.depth - 1 <= MaxDepth
    BY <1>1, <1>3, <1>4, <2>1 DEF Outside
  <2>3. Makes(amf, amf', amf.depth - 1, n)
    BY <1>a, <2>1
  <2> QED BY <1>1, <2>2, <2>3, GoodStep
<1>c. CASE r.err # "none"
  <2>1. amf' = amf /\ list' = Outside
    BY <1>3, <1>4, <1>c DEF After, Listed
  <2>2. list' \in Int /\ Outside <= list' /\ list' <= amf.depth
    BY <1>1, <2>1 DEF Outside
  <2> QED BY <2>1, <2>2, ListedNothing
<1> QED BY <1>b, <1>c

\* Every step keeps the invariant, and what was given.
LEMMA GoodNext == ASSUME IndInv, [Next]_vars PROVE Good
<1>1. CASE AddMember
  BY <1>1, AddMemberOK
<1>2. CASE AddPlain
  <2>1. PICK type \in Plain : Room /\ Direct(Push(amf, Of(type)))
    BY <1>2 DEF AddPlain
  <2>2. Of(type) \in Item
    BY Items
  <2> QED BY <2>1, <2>2, DirectPushOK
<1>3. CASE AddString
  <2>1. PICK n \in Lengths : Room /\ Direct(Push(amf, Value("string", n, 0)))
    BY <1>3 DEF AddString
  <2>2. Value("string", n, 0) \in Item
    BY Items
  <2> QED BY <2>1, <2>2, DirectPushOK
<1>4. CASE AddXml
  <2>1. PICK n \in Lengths : Room /\ Direct(Push(amf, Value("xml", n, 0)))
    BY <1>4 DEF AddXml
  <2>2. Value("xml", n, 0) \in Item
    BY Items
  <2> QED BY <2>1, <2>2, DirectPushOK
<1>5. CASE AddReference
  BY <1>5, AddReferenceOK
<1>6. CASE StartObject
  <2>1. Room /\ Deeper /\ Direct(PushStart(amf, Of("object")))
    BY <1>6 DEF StartObject
  <2>2. Of("object") \in Item /\ IsContainer(Of("object"))
    BY Items
  <2> QED BY <2>1, <2>2, DirectStartOK
<1>7. CASE StartArray
  <2>1. PICK n \in Counts : Room /\ Deeper /\ Direct(PushStart(amf, Value("array", n, 0)))
    BY <1>7 DEF StartArray
  <2>2. n \in Nat
    OBVIOUS
  <2>3. Value("array", n, 0) \in Item /\ IsContainer(Value("array", n, 0))
    BY <2>2, Items
  <2> QED BY <2>1, <2>3, DirectStartOK
<1>8. CASE End
  BY <1>8, EndOK
<1>9. CASE BeginList
  <2>1. amf' = amf /\ list' = 0
    BY <1>9 DEF BeginList
  <2>2. list' \in Int /\ Outside <= list' /\ list' <= amf.depth
    BY <2>1, State DEF Outside
  <2> QED BY <2>1, <2>2, ListedNothing
<1>10. CASE ListPlain
  <2>1. PICK name \in Names, type \in Plain :
             Room /\ Listed(After(Named(name), Push(Named(name).obj, Of(type))), list)
    BY <1>10 DEF ListPlain
  <2>2. Of(type) \in Item /\ name \in Labels /\ list # Outside
    BY <2>1, Items, NamesOK DEF Listed
  <2> QED BY <2>1, <2>2, ListValueOK
<1>11. CASE ListString
  <2>1. PICK name \in Names, n \in Lengths :
             Room /\ Listed(Push(Named(name).obj, Value("string", n, 0)), list)
    BY <1>11 DEF ListString
  <2>2. Value("string", n, 0) \in Item /\ name \in Labels /\ list # Outside
    BY <2>1, Items, NamesOK DEF Listed
  <2> QED BY <2>1, <2>2, ListValueOK
<1>12. CASE ListUndefined
  <2>1. Room /\ Listed(Push(amf, Of("undefined")), list)
    BY <1>12 DEF ListUndefined
  <2>2. Makes(amf, Push(amf, Of("undefined")).obj, amf.depth, Len(amf.nodes) + 1)
    BY State, Items, PushMakes
  <2>3. Len(amf.nodes) + 1 \in Nat /\ Len(amf.nodes) + 1 <= MaxNodes
    BY <2>1, State DEF Room
  <2> QED BY <2>1, <2>2, <2>3, ListedOK
<1>13. CASE ListObject
  <2>1. PICK name \in Names :
             /\ Room /\ Deeper
             /\ Listed(After(Named(name), PushStart(Named(name).obj, Of("object"))), list + 1)
    BY <1>13 DEF ListObject
  <2>2. /\ Of("object") \in Item /\ IsContainer(Of("object"))
        /\ name \in Labels /\ list # Outside
    BY <2>1, Items, NamesOK DEF Listed
  <2> QED BY <2>1, <2>2, ListStartOK
<1>14. CASE ListArray
  <2> DEFINE v == Value("array", Unlimited, 0)
  <2>1. PICK name \in Names :
             /\ Room /\ Deeper
             /\ Listed(After(Named(name), PushStart(Named(name).obj, v)), list + 1)
    BY <1>14 DEF ListArray
  <2>2. v \in Item /\ IsContainer(v)
    BY Items DEF Unlimited
  <2> HIDE DEF v
  <2>3. name \in Labels /\ list # Outside
    BY <2>1, NamesOK DEF Listed
  <2> QED BY <2>1, <2>2, <2>3, ListStartOK
<1>15. CASE ListOrdinals
  BY <1>15, ListOrdinalsOK
<1>16. CASE ListEnd
  BY <1>16, ListEndOK
<1>17. CASE StopList
  <2>1. amf' = amf /\ list' = Outside
    BY <1>17 DEF StopList
  <2>2. list' \in Int /\ Outside <= list' /\ list' <= amf.depth
    BY <2>1, State DEF Outside
  <2> QED BY <2>1, <2>2, ListedNothing
<1>18. CASE UNCHANGED vars
  <2>1. amf' = amf /\ list' = list
    BY <1>18 DEF vars
  <2>2. list' \in Int /\ Outside <= list' /\ list' <= amf.depth
    BY <2>1, State
  <2> QED BY <2>1, <2>2, ListedNothing
<1> QED BY <1>1, <1>2, <1>3, <1>4, <1>5, <1>6, <1>7, <1>8, <1>9, <1>10, <1>11, <1>12, <1>13,
           <1>14, <1>15, <1>16, <1>17, <1>18 DEF Next

\* The object without values, outside of all containers.
LEMMA GoodInit == Init => IndInv
<1> SUFFICES ASSUME Init PROVE IndInv
  OBVIOUS
<1>1. amf = Empty /\ list = Outside
  BY DEF Init
<1>2. /\ Empty.nodes = <<>> /\ Empty.depth = 0 /\ Empty.ready = FALSE /\ Empty.refs = <<>>
      /\ Empty \in Amf
  BY DEF Empty, Amf
<1>3. Levels(<<>>, 0) /\ Waits(<<>>, 0, FALSE) /\ Refers(<<>>, <<>>)
  BY DEF Levels, Waits, Refers
<1>4. Shape(Empty)
  BY <1>2, <1>3 DEF Shape
<1>5. 0 <= MaxDepth /\ Len(<<>>) <= MaxNodes /\ Outside \in Outside..MaxDepth /\ Outside <= 0
  BY DEF Outside
<1> QED BY <1>1, <1>2, <1>4, <1>5 DEF IndInv
-----------------------------------------------------------------------------
\* What a step leaves of the values that were given.
Step == Kept(amf.nodes, amf'.nodes) \/ Leaves(amf, amf')

\* The invariant holds, and what was given is taken only with an ordinal name left.
LEMMA Inductive == Spec => []IndInv /\ [][Step]_vars
<1>1. Init => IndInv
  BY GoodInit
<1>2. IndInv /\ [Next]_vars => IndInv'
  BY GoodNext DEF Good
<1>3. IndInv /\ [Next]_vars => [Step]_vars
  BY GoodNext DEF Good, Step
<1> QED BY <1>1, <1>2, <1>3, PTL DEF Spec

\* TypeOK: however the push functions are called, amf_v_get_object finds an open
\* container for every level of depth.
THEOREM TypeCorrect == Spec => []TypeOK
<1>1. ASSUME IndInv PROVE TypeOK
  <2>1. /\ Shape(amf) /\ amf.depth \in Nat /\ amf.depth <= MaxDepth
        /\ Len(amf.nodes) <= MaxNodes /\ list \in Outside..MaxDepth
    BY <1>1, State DEF IndInv
  <2>2. amf.ready \in BOOLEAN /\ amf.refs \in Seq(Nat) /\ Refers(amf.nodes, amf.refs)
    BY <2>1, Parts
  <2>3. amf.refs \in Seq(1..Len(amf.nodes))
    <3>1. \A k \in 1..Len(amf.refs) : amf.refs[k] \in 1..Len(amf.nodes)
      BY <2>2 DEF Refers
    <3> QED BY <2>2, <3>1
  <2>4. amf.depth > 0 => Open(amf) > 0 /\ IsContainer(amf.nodes[Open(amf)].value)
    <3> SUFFICES ASSUME amf.depth > 0
                 PROVE  Open(amf) > 0 /\ IsContainer(amf.nodes[Open(amf)].value)
      OBVIOUS
    <3>1. Opened(amf.nodes, amf.depth - 1, Open(amf))
      BY <2>1, OpenOK
    <3> QED BY <3>1 DEF Opened
  <2>5. amf.depth \in 0..MaxDepth
    BY <2>1
  <2> QED BY <2>1, <2>2, <2>3, <2>4, <2>5 DEF TypeOK
<1> QED BY <1>1, Inductive, PTL

\* OnlyOrdinalsAreLeft: whichever of the pushes fail, and wherever a list ends, a
\* member without its value is the last node, with member_ready set, or an ordinal
\* member of an array.
THEOREM NoOtherNameIsLeft == Spec => []OnlyOrdinalsAreLeft
<1>1. ASSUME IndInv PROVE OnlyOrdinalsAreLeft
  <2>1. Waits(amf.nodes, amf.depth, amf.ready)
    BY <1>1 DEF IndInv, Shape
  <2> QED BY <2>1 DEF Waits, OnlyOrdinalsAreLeft
<1> QED BY <1>1, Inductive, PTL

\* GivenStays: a value that was pushed stays, under its name and in its place, but
\* for the last associative member of an array in which amf_push_assoc_end leaves
\* the name of an ordinal one.
THEOREM NothingElseIsTaken == Spec => GivenStays
<1> DEFINE Was(i) == [amf.nodes[i] EXCEPT !.value.arg = 0]
           Is(i) == [amf'.nodes[i] EXCEPT !.value.arg = 0]
           Stays ==
      \A i \in 1..Len(amf.nodes) :
          amf.nodes[i].given =>
              /\ i \in 1..Len(amf'.nodes)
              /\ \/ Is(i) = Was(i)
                 \/ /\ LeavesName /\ i = Latest(Slotted(amf.nodes, Open(amf), "assoc"))
                    /\ Is(i) = [Was(i) EXCEPT !.slot = "gone"]
<1>1. ASSUME NEW x \in Entry, NEW y \in Entry, Alike(x, y)
      PROVE  [y EXCEPT !.value.arg = 0] = [[x EXCEPT !.value.arg = 0] EXCEPT !.slot = y.slot]
  <2>1. x.value \in Item /\ y.value \in Item
    BY DEF Entry
  <2>2. [y.value EXCEPT !.arg = 0] = [x.value EXCEPT !.arg = 0]
    BY <1>1, <2>1 DEF Item, Alike
  <2> DEFINE v == [x.value EXCEPT !.arg = 0]
  <2>3. /\ [y EXCEPT !.value.arg = 0] = [y EXCEPT !.value = v]
        /\ [x EXCEPT !.value.arg = 0] = [x EXCEPT !.value = v]
    BY <2>2 DEF Entry
  <2> HIDE DEF v
  <2>4. [y EXCEPT !.value = v] = [[x EXCEPT !.value = v] EXCEPT !.slot = y.slot]
    BY <1>1 DEF Entry, Alike
  <2> QED BY <2>3, <2>4
<1>2. ASSUME NEW x \in Entry, NEW y \in Entry, Same(x, y)
      PROVE  [y EXCEPT !.value.arg = 0] = [x EXCEPT !.value.arg = 0]
  <2> DEFINE w == [x EXCEPT !.value.arg = 0]
  <2>1. Alike(x, y) /\ y.slot = x.slot
    BY <1>2 DEF Same
  <2>2. w = [w EXCEPT !.slot = y.slot]
    BY <2>1 DEF Entry
  <2>3. [y EXCEPT !.value.arg = 0] = [w EXCEPT !.slot = y.slot]
    BY <2>1, <1>1
  <2> QED BY <2>2, <2>3
<1>3. ASSUME IndInv, IndInv', Step PROVE Stays
  <2> SUFFICES ASSUME NEW i \in 1..Len(amf.nodes), amf.nodes[i].given
               PROVE  /\ i \in 1..Len(amf'.nodes)
                      /\ \/ Is(i) = Was(i)
                         \/ /\ LeavesName /\ i = Latest(Slotted(amf.nodes, Open(amf), "assoc"))
                            /\ Is(i) = [Was(i) EXCEPT !.slot = "gone"]
    OBVIOUS
  <2>1. amf.nodes \in Seq(Entry) /\ amf'.nodes \in Seq(Entry)
    BY <1>3 DEF IndInv, Shape, Amf
  <2>2. CASE Kept(amf.nodes, amf'.nodes)
    <3>1. i \in 1..Len(amf'.nodes) /\ Same(amf.nodes[i], amf'.nodes[i])
      BY <2>2 DEF Kept
    <3>2. amf.nodes[i] \in Entry /\ amf'.nodes[i] \in Entry
      BY <2>1, <3>1
    <3> QED BY <3>1, <3>2, <1>2
  <2>3. CASE Leaves(amf, amf')
    <3>1. Len(amf'.nodes) = Len(amf.nodes) /\ i \in 1..Len(amf'.nodes)
      BY <2>3 DEF Leaves
    <3>2. amf.nodes[i] \in Entry /\ amf'.nodes[i] \in Entry
      BY <2>1, <3>1
    <3>3. LeavesName
      BY <2>3 DEF Leaves, LeavesName
    <3>4. CASE Same(amf.nodes[i], amf'.nodes[i])
      BY <3>1, <3>2, <3>4, <1>2
    <3>5. CASE ~Same(amf.nodes[i], amf'.nodes[i])
      <4>1. /\ i = LastAssoc(amf) /\ Alike(amf.nodes[i], amf'.nodes[i])
            /\ amf'.nodes[i].slot = "gone"
        BY <2>3, <3>5 DEF Leaves
      <4>2. Is(i) = [Was(i) EXCEPT !.slot = "gone"]
        <5>1. Is(i) = [Was(i) EXCEPT !.slot = amf'.nodes[i].slot]
          BY <3>2, <4>1, <1>1
        <5> QED BY <4>1, <5>1
      <4> QED BY <3>1, <3>3, <4>1, <4>2 DEF LastAssoc
    <3> QED BY <3>4, <3>5
  <2> QED BY <1>3, <2>2, <2>3 DEF Step
<1> HIDE DEF Stays
<1>4. IndInv /\ IndInv' /\ [Step]_vars => [Stays]_vars
  BY <1>3
<1>5. Spec => [][Stays]_vars
  BY <1>4, Inductive, PTL
<1> QED BY <1>5 DEF GivenStays, Stays
=============================================================================
