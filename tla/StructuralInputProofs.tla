------------------------ MODULE StructuralInputProofs ------------------------
(***************************************************************************)
(* Proofs about StructuralInputBuilder of input/native.rs, for all limits  *)
(* and every sequence of events: the arena is ordered, each of its nodes   *)
(* has one holder, what is accepted is within the limits, and sets and     *)
(* mappings are in the order of compare_input_ids.                         *)
(***************************************************************************)
EXTENDS StructuralInput, SequenceTheorems, FiniteSetTheorems, TLAPS

(* What an open aggregate may be: its kind is supported, the members of a  *)
(* mapping come in pairs and an optional value has at most one.            *)
FramesFit ==
  \A f \in 1 .. Len(frames) :
    /\ frames[f].kind # "union"
    /\ frames[f].kind = "mapping"  => frames[f].childCount % 2 = 0
    /\ frames[f].kind = "optional" => frames[f].childCount <= 1

NoChildrenFrom(first) == \A g \in first .. Len(frames) : frames[g].children = << >>

(* The newest node is what the innermost aggregate with children has       *)
(* received last, or, when there is none, the root.                        *)
NewestHeld ==
  /\ \A f \in 1 .. Len(frames) :
       (frames[f].children # << >> /\ NoChildrenFrom(f + 1)) =>
         Top(frames[f].children).id = Len(values)
  /\ (root # 0 /\ NoChildrenFrom(1)) => root = Len(values)

(* A node held below n open aggregates descends no more than what is left  *)
(* of max_depth, and one level more.                                       *)
Depths ==
  /\ Len(frames) <= MaxDepth + 1
  /\ \A f \in 1 .. Len(frames) : \A id \in ChildIds(frames[f]) :
       ~Descends(values, id, MaxDepth + 2 - f)
  /\ root # 0 => ~Descends(values, root, MaxDepth + 2)

(* The arena and its text stay within the limits; the end has a root.      *)
Amounts ==
  /\ Len(values) <= MaxNodes
  /\ stringBytes <= MaxStringBytes
  /\ status = "finished" => frames = << >> /\ root # 0

IInv ==
  /\ TypeOK /\ ChildrenFirst /\ FramesFit /\ NewestHeld
  /\ OneHolder /\ Depths /\ Amounts

Child == [edge : Edges, id : Nat]

-----------------------------------------------------------------------------
(* What the last element of a sequence is and what is left without it.     *)
LEMMA TopAndPop ==
  ASSUME NEW S, NEW s \in Seq(S), s # << >>
  PROVE  /\ Len(s) \in Nat \ {0} /\ Top(s) \in S
         /\ Pop(s) \in Seq(S) /\ Len(Pop(s)) = Len(s) - 1
         /\ \A i \in 1 .. Len(s) - 1 : Pop(s)[i] = s[i]
  <1>1. Len(s) \in Nat \ {0} /\ \A i \in 1 .. Len(s) : s[i] \in S
    BY EmptySeq, ElementOfSeq
  <1> DEFINE n == Len(s) - 1
  <1>2. n \in Int /\ 1 \in Int /\ \A i \in 1 .. n : s[i] \in S
    BY <1>1
  <1>3. /\ SubSeq(s, 1, n) \in Seq(S)
        /\ Len(SubSeq(s, 1, n)) = IF 1 <= n THEN n - 1 + 1 ELSE 0
        /\ \A i \in 1 .. n - 1 + 1 : SubSeq(s, 1, n)[i] = s[1 + i - 1]
    BY <1>2, SubSeqProperties
  <1>4. n \in Nat
    BY <1>1
  <1> HIDE DEF n
  <1>5. \A i \in 1 .. n : SubSeq(s, 1, n)[i] = s[i]
    BY <1>3, <1>4
  <1>6. Len(SubSeq(s, 1, n)) = n
    BY <1>3, <1>4
  <1>7. s[Len(s)] \in S
    BY <1>1
  <1> QED BY <1>1, <1>3, <1>5, <1>6, <1>7 DEF Top, Pop, n

(* A set of naturals with a member has a least one.                        *)
LEMMA LeastMember ==
  ASSUME NEW T \in SUBSET Nat, T # {}
  PROVE  \E least \in T : \A t \in T : least <= t
  <1>1. \E least \in T : \A t \in T : ~(<<t, least>> \in OpToRel(<, Nat))
    BY NatLessThanWellFounded, WFMin
  <1>2. PICK least \in T : \A t \in T : ~(<<t, least>> \in OpToRel(<, Nat))
    BY <1>1
  <1>3. \A t \in T : ~(t < least)
    BY <1>2 DEF OpToRel
  <1> QED BY <1>3

-----------------------------------------------------------------------------
(* Nodes whose children come before them.                                  *)
Ordered(nodes) ==
  /\ nodes \in Seq(Node)
  /\ \A v \in 1 .. Len(nodes) : Below(nodes, v) \subseteq 1 .. v - 1

(* Appending a node leaves the others and what is below them alone.        *)
LEMMA AppendKeepsBelow ==
  ASSUME NEW nodes \in Seq(Node), NEW node \in Node
  PROVE  /\ Append(nodes, node) \in Seq(Node) /\ Len(nodes) \in Nat
         /\ Len(Append(nodes, node)) = Len(nodes) + 1
         /\ Append(nodes, node)[Len(nodes) + 1] = node
         /\ \A v \in 1 .. Len(nodes) : /\ Append(nodes, node)[v] = nodes[v]
                                       /\ Below(Append(nodes, node), v) = Below(nodes, v)
  <1> DEFINE more == Append(nodes, node)
  <1>1. /\ more \in Seq(Node) /\ Len(nodes) \in Nat /\ Len(more) = Len(nodes) + 1
        /\ more[Len(nodes) + 1] = node
        /\ \A v \in 1 .. Len(nodes) : more[v] = nodes[v]
    BY AppendProperties, LenProperties
  <1> HIDE DEF more
  <1>2. ASSUME NEW v \in 1 .. Len(nodes) PROVE Below(more, v) = Below(nodes, v)
    <2>1. more[v] = nodes[v]
      BY <1>1
    <2> QED BY <2>1 DEF Below
  <1> QED BY <1>1, <1>2 DEF more

(* A walk down from an old node stays among the old nodes.                 *)
LEMMA DescentStays ==
  ASSUME NEW nodes, Ordered(nodes), NEW node \in Node, NEW v \in 1 .. Len(nodes), NEW n \in Nat,
         NEW walk \in [1 .. n + 1 -> 1 .. Len(nodes) + 1],
         IsDescent(Append(nodes, node), v, n, walk)
  PROVE  walk \in [1 .. n + 1 -> 1 .. Len(nodes)] /\ IsDescent(nodes, v, n, walk)
  <1> DEFINE more == Append(nodes, node)
             T == {level \in 1 .. n + 1 : walk[level] = Len(nodes) + 1}
  <1>1. /\ nodes \in Seq(Node) /\ Len(nodes) \in Nat
        /\ \A w \in 1 .. Len(nodes) : Below(more, w) = Below(nodes, w)
    BY AppendKeepsBelow DEF Ordered
  <1>2. walk[1] = v /\ \A level \in 1 .. n : walk[level + 1] \in Below(more, walk[level])
    BY DEF IsDescent
  <1> HIDE DEF more
  <1>3. ASSUME T # {} PROVE FALSE
    <2>1. T \in SUBSET Nat
      OBVIOUS
    <2> HIDE DEF T
    <2>2. PICK least \in T : \A t \in T : least <= t
      BY <1>3, <2>1, LeastMember
    <2> USE DEF T
    <2>3. least \in 1 .. n + 1 /\ walk[least] = Len(nodes) + 1 /\ least # 1
      BY <1>1, <1>2, <2>2
    <2> DEFINE level == least - 1
    <2>4. level \in 1 .. n /\ level + 1 = least /\ level \in 1 .. n + 1 /\ ~(least <= level)
      BY <2>3
    <2>5. walk[level] \in 1 .. Len(nodes)
      BY <1>1, <2>2, <2>4
    <2>6. walk[least] \in Below(more, walk[level])
      BY <1>2, <2>4
    <2> HIDE DEF level, T
    <2>7. walk[least] \in Below(nodes, walk[level])
      BY <1>1, <2>5, <2>6
    <2>8. walk[least] \in 1 .. walk[level] - 1
      BY <2>5, <2>7 DEF Ordered
    <2> QED BY <1>1, <2>3, <2>5, <2>8
  <1>4. \A level \in 1 .. n + 1 : walk[level] \in 1 .. Len(nodes)
    <2> SUFFICES ASSUME NEW level \in 1 .. n + 1 PROVE walk[level] \in 1 .. Len(nodes)
      OBVIOUS
    <2>1. walk[level] # Len(nodes) + 1
      <3>1. level \notin T
        BY <1>3, Zenon
      <3> QED BY <3>1
    <2> DEFINE below == walk[level]
               last == Len(nodes)
    <2>2. below \in 1 .. last + 1 /\ below # last + 1 /\ last \in Nat
      BY <1>1, <2>1
    <2> HIDE DEF below, last
    <2>3. below \in 1 .. last
      BY <2>2
    <2> QED BY <2>3 DEF below, last
  <1>5. walk \in [1 .. n + 1 -> 1 .. Len(nodes)]
    BY <1>4
  <1>6. \A level \in 1 .. n : walk[level + 1] \in Below(nodes, walk[level])
    <2> SUFFICES ASSUME NEW level \in 1 .. n PROVE walk[level + 1] \in Below(nodes, walk[level])
      OBVIOUS
    <2>1. walk[level] \in 1 .. Len(nodes)
      BY <1>4
    <2> QED BY <1>1, <1>2, <2>1
  <1> QED BY <1>2, <1>5, <1>6 DEF IsDescent

(* A new node takes nothing from how far one can go down from the others.  *)
LEMMA OldNodesDescend ==
  ASSUME NEW nodes, Ordered(nodes), NEW node \in Node, NEW v \in 1 .. Len(nodes), NEW n \in Nat,
         ~Descends(nodes, v, n)
  PROVE  ~Descends(Append(nodes, node), v, n)
  <1> SUFFICES ASSUME Descends(Append(nodes, node), v, n) PROVE FALSE
    OBVIOUS
  <1>1. Len(Append(nodes, node)) = Len(nodes) + 1
    BY AppendKeepsBelow DEF Ordered
  <1>2. PICK walk \in [1 .. n + 1 -> 1 .. Len(nodes) + 1] : IsDescent(Append(nodes, node), v, n, walk)
    BY <1>1 DEF Descends
  <1> QED BY <1>2, DescentStays DEF Descends

(* One goes down from a new node by one level more than from its children. *)
LEMMA NewNodeDescends ==
  ASSUME NEW nodes, Ordered(nodes), NEW node \in Node, NEW n \in Nat,
         \A id \in Below(Append(nodes, node), Len(nodes) + 1) :
           id \in 1 .. Len(nodes) /\ ~Descends(nodes, id, n)
  PROVE  ~Descends(Append(nodes, node), Len(nodes) + 1, n + 1)
  <1> DEFINE more == Append(nodes, node)
             v == Len(nodes) + 1
  <1>1. Len(more) = Len(nodes) + 1 /\ Len(nodes) \in Nat
    BY AppendKeepsBelow DEF Ordered
  <1> SUFFICES ASSUME Descends(more, v, n + 1) PROVE FALSE
    OBVIOUS
  <1> HIDE DEF more
  <1>2. PICK walk \in [1 .. (n + 1) + 1 -> 1 .. Len(nodes) + 1] : IsDescent(more, v, n + 1, walk)
    BY <1>1 DEF Descends
  <1>3. walk[1] = v /\ \A level \in 1 .. n + 1 : walk[level + 1] \in Below(more, walk[level])
    BY <1>2 DEF IsDescent
  <1> DEFINE w == walk[2]
             rest == [level \in 1 .. n + 1 |-> walk[level + 1]]
  <1>4. w \in Below(more, v)
    <2>1. 1 \in 1 .. n + 1 /\ 1 + 1 = 2
      OBVIOUS
    <2> QED BY <1>3, <2>1
  <1>5. w \in 1 .. Len(nodes) /\ ~Descends(nodes, w, n)
    BY <1>4 DEF more
  <1>6. rest \in [1 .. n + 1 -> 1 .. Len(nodes) + 1]
    <2>1. \A level \in 1 .. n + 1 : level + 1 \in 1 .. (n + 1) + 1
      OBVIOUS
    <2> QED BY <1>2, <2>1
  <1>7. IsDescent(more, w, n, rest)
    <2>1. rest[1] = w
      <3>1. 1 \in 1 .. n + 1 /\ 1 + 1 = 2
        OBVIOUS
      <3> QED BY <3>1
    <2>2. ASSUME NEW level \in 1 .. n PROVE rest[level + 1] \in Below(more, rest[level])
      <3>1. level \in 1 .. n + 1 /\ level + 1 \in 1 .. n + 1
        OBVIOUS
      <3>2. walk[(level + 1) + 1] \in Below(more, walk[level + 1])
        BY <1>3, <3>1
      <3> QED BY <3>1, <3>2
    <2> HIDE DEF rest, w
    <2> QED BY <2>1, <2>2 DEF IsDescent
  <1> HIDE DEF rest, w
  <1>8. IsDescent(nodes, w, n, rest) /\ rest \in [1 .. n + 1 -> 1 .. Len(nodes)]
    BY <1>5, <1>6, <1>7, DescentStays DEF more
  <1> QED BY <1>5, <1>8 DEF Descends

(* Where one cannot go down n levels, one cannot go down one more.         *)
LEMMA ShorterDescent ==
  ASSUME NEW nodes, NEW v, NEW n \in Nat, ~Descends(nodes, v, n)
  PROVE  ~Descends(nodes, v, n + 1)
  <1> SUFFICES ASSUME Descends(nodes, v, n + 1) PROVE Descends(nodes, v, n)
    OBVIOUS
  <1>1. PICK walk \in [1 .. (n + 1) + 1 -> 1 .. Len(nodes)] : IsDescent(nodes, v, n + 1, walk)
    BY DEF Descends
  <1> DEFINE shorter == [level \in 1 .. n + 1 |-> walk[level]]
  <1>2. shorter \in [1 .. n + 1 -> 1 .. Len(nodes)]
    BY <1>1
  <1>3. IsDescent(nodes, v, n, shorter)
    <2>1. shorter[1] = v /\ \A level \in 1 .. n : shorter[level] = walk[level]
                                                   /\ shorter[level + 1] = walk[level + 1]
      BY <1>1 DEF IsDescent
    <2>2. \A level \in 1 .. n : walk[level + 1] \in Below(nodes, walk[level])
      BY <1>1 DEF IsDescent
    <2> HIDE DEF shorter
    <2> QED BY <2>1, <2>2 DEF IsDescent
  <1> QED BY <1>2, <1>3 DEF Descends

-----------------------------------------------------------------------------
(* All ids in the items of a node.                                         *)
AllIds(items) == UNION {Ids(items[i]) : i \in 1 .. Len(items)}

(* An item of one id and an item of two.                                   *)
LEMMA AnItem ==
  ASSUME NEW name \in Nat, NEW a \in Nat, NEW b \in Nat
  PROVE  /\ [name |-> name, ids |-> <<a>>] \in ItemType
         /\ [name |-> name, ids |-> <<a, b>>] \in ItemType
         /\ Len(<<a>>) = 1 /\ <<a>>[1] = a
         /\ Len(<<a, b>>) = 2 /\ <<a, b>>[1] = a /\ <<a, b>>[2] = b
  <1>1. <<a>> \in Seq(Nat) /\ <<a, b>> \in Seq(Nat)
    OBVIOUS
  <1> QED BY <1>1 DEF ItemType

(* What is known of children.                                              *)
LEMMA ChildFacts ==
  ASSUME NEW children \in Seq(Child)
  PROVE  /\ Len(children) \in Nat
         /\ \A c \in 1 .. Len(children) :
              /\ children[c].id \in Nat
              /\ children[c].edge \in Edges
              /\ children[c].edge[1] = "field" => children[c].edge[2] \in Nat
  <1>1. Len(children) \in Nat
    BY LenProperties
  <1>2. ASSUME NEW c \in 1 .. Len(children)
        PROVE  /\ children[c].id \in Nat
               /\ children[c].edge \in Edges
               /\ children[c].edge[1] = "field" => children[c].edge[2] \in Nat
    <2>1. children[c] \in Child
      BY ElementOfSeq
    <2>2. children[c].id \in Nat /\ children[c].edge \in Edges
      BY <2>1 DEF Child
    <2>3. children[c].edge[1] = "field" => children[c].edge[2] \in Fields
      BY <2>2 DEF Edges
    <2> QED BY <2>2, <2>3, FieldsAssumption
  <1> QED BY <1>1, <1>2

(* An item for each child.                                                 *)
LEMMA SingleItems ==
  ASSUME NEW children \in Seq(Child), NEW items,
         NEW names \in [1 .. Len(children) -> Nat],
         items = [i \in 1 .. Len(children) |-> [name |-> names[i], ids |-> <<children[i].id>>]]
  PROVE  /\ items \in Seq(ItemType)
         /\ AllIds(items) = {children[c].id : c \in 1 .. Len(children)}
         /\ HoldsOnce(children) => NamesOnce(items)
  <1> DEFINE n == Len(children)
  <1>1. n \in Nat /\ \A c \in 1 .. n : children[c].id \in Nat
    BY ChildFacts
  <1>2. \A i \in 1 .. n : items[i] = [name |-> names[i], ids |-> <<children[i].id>>]
    OBVIOUS
  <1>3. ASSUME NEW i \in 1 .. n
        PROVE  items[i] \in ItemType /\ items[i].ids = <<children[i].id>>
    <2>1. items[i] = [name |-> names[i], ids |-> <<children[i].id>>]
      BY <1>2
    <2>2. names[i] \in Nat /\ children[i].id \in Nat
      BY <1>1
    <2> QED BY <2>1, <2>2, AnItem
  <1>4. items \in Seq(ItemType) /\ Len(items) = n
    <2>1. items \in [1 .. n -> ItemType]
      BY <1>3
    <2> QED BY <1>1, <2>1, SeqDef, LenProperties
  <1>5. \A i \in 1 .. n : Len(items[i].ids) = 1 /\ items[i].ids[1] = children[i].id
    BY <1>3
  <1>6. \A i \in 1 .. n : Ids(items[i]) = {children[i].id}
    BY <1>5 DEF Ids
  <1>7. AllIds(items) = {children[c].id : c \in 1 .. n}
    BY <1>4, <1>6 DEF AllIds
  <1>8. HoldsOnce(children) => NamesOnce(items)
    BY <1>4, <1>5 DEF HoldsOnce, NamesOnce
  <1> QED BY <1>4, <1>7, <1>8

(* An item for each pair of children.                                      *)
LEMMA PairedItems ==
  ASSUME NEW children \in Seq(Child), NEW items, Len(children) % 2 = 0,
         items = [i \in 1 .. Len(children) \div 2 |->
                    [name |-> 0, ids |-> <<children[2 * i - 1].id, children[2 * i].id>>]]
  PROVE  /\ items \in Seq(ItemType)
         /\ AllIds(items) = {children[c].id : c \in 1 .. Len(children)}
         /\ HoldsOnce(children) => NamesOnce(items)
  <1> DEFINE n == Len(children)
             m == n \div 2
  <1>1. n \in Nat /\ \A c \in 1 .. n : children[c].id \in Nat
    BY ChildFacts
  <1>2. m \in Nat /\ n = 2 * m
    BY <1>1
  <1>3. \A i \in 1 .. m : items[i] = [name |-> 0, ids |-> <<children[2 * i - 1].id, children[2 * i].id>>]
    OBVIOUS
  <1> HIDE DEF m
  <1>4. \A i \in 1 .. m : 2 * i - 1 \in 1 .. n /\ 2 * i \in 1 .. n
    BY <1>2
  <1> HIDE DEF n
  <1>5. ASSUME NEW i \in 1 .. m
        PROVE  /\ items[i] \in ItemType
               /\ items[i].ids = <<children[2 * i - 1].id, children[2 * i].id>>
               /\ Len(items[i].ids) = 2
               /\ items[i].ids[1] = children[2 * i - 1].id
               /\ items[i].ids[2] = children[2 * i].id
    <2> DEFINE a == children[2 * i - 1].id
               b == children[2 * i].id
    <2>1. items[i] = [name |-> 0, ids |-> <<a, b>>]
      BY <1>3
    <2>2. a \in Nat /\ b \in Nat
      BY <1>1, <1>4
    <2> HIDE DEF a, b
    <2>3. /\ [name |-> 0, ids |-> <<a, b>>] \in ItemType
          /\ Len(<<a, b>>) = 2 /\ <<a, b>>[1] = a /\ <<a, b>>[2] = b
      BY <2>2, AnItem
    <2> DEFINE item == items[i]
    <2>4. item.ids = <<a, b>>
      <3>1. item = [name |-> 0, ids |-> <<a, b>>]
        BY <2>1
      <3> HIDE DEF item
      <3> QED BY <3>1
    <2> QED BY <2>1, <2>3, <2>4 DEF a, b
  <1>6. items \in Seq(ItemType) /\ Len(items) = m
    <2>1. items \in [1 .. m -> ItemType]
      BY <1>5 DEF m, n
    <2> QED BY <1>2, <2>1, SeqDef, LenProperties
  <1>7. ASSUME NEW i \in 1 .. m, NEW id
        PROVE  id \in Ids(items[i]) <=> id = children[2 * i - 1].id \/ id = children[2 * i].id
    <2>1. 1 .. Len(items[i].ids) = {1, 2}
      <3>1. Len(items[i].ids) = 2
        BY <1>5
      <3>2. 1 .. 2 = {1, 2}
        OBVIOUS
      <3> QED BY <3>1, <3>2
    <2>2. id \in Ids(items[i]) <=> \E j \in {1, 2} : id = items[i].ids[j]
      BY <2>1 DEF Ids
    <2> QED BY <1>5, <2>2
  <1>8. \A c \in 1 .. n : \E i \in 1 .. m : c = 2 * i - 1 \/ c = 2 * i
    <2> TAKE c \in 1 .. n
    <2>1. CASE c % 2 = 0
      <3>1. c \div 2 \in 1 .. m /\ c = 2 * (c \div 2)
        BY <1>1, <1>2, <2>1
      <3> QED BY <3>1
    <2>2. CASE c % 2 = 1
      <3>1. c \in Nat
        BY <1>1
      <3>2. c \div 2 \in Nat /\ c = 2 * (c \div 2) + 1
        BY <2>2, <3>1
      <3> DEFINE i == c \div 2 + 1
      <3>3. i \in Nat /\ c = 2 * i - 1
        BY <3>2
      <3> HIDE DEF i
      <3>4. i \in 1 .. m
        BY <1>2, <3>3
      <3> QED BY <3>3, <3>4
    <2> QED BY <1>1, <2>1, <2>2
  <1>9. AllIds(items) = {children[c].id : c \in 1 .. n}
    <2>1. ASSUME NEW id
          PROVE  id \in AllIds(items) <=> \E i \in 1 .. m : id = children[2 * i - 1].id \/ id = children[2 * i].id
      <3>1. id \in AllIds(items) <=> \E i \in 1 .. m : id \in Ids(items[i])
        BY <1>6 DEF AllIds
      <3> QED BY <1>7, <3>1
    <2>2. ASSUME NEW id PROVE id \in AllIds(items) <=> \E c \in 1 .. n : id = children[c].id
      BY <1>4, <1>8, <2>1
    <2> QED BY <2>2
  <1>10. ASSUME HoldsOnce(children) PROVE NamesOnce(items)
    <2> SUFFICES ASSUME NEW i \in 1 .. Len(items), NEW k \in 1 .. Len(items),
                        NEW j \in 1 .. Len(items[i].ids), NEW l \in 1 .. Len(items[k].ids),
                        items[i].ids[j] = items[k].ids[l]
                 PROVE  i = k /\ j = l
      BY Zenon DEF NamesOnce
    <2>1. i \in 1 .. m /\ k \in 1 .. m /\ j \in 1 .. 2 /\ l \in 1 .. 2
      <3>1. i \in 1 .. m /\ k \in 1 .. m
        BY <1>6
      <3>2. Len(items[i].ids) = 2 /\ Len(items[k].ids) = 2
        BY <1>5, <3>1
      <3> QED BY <3>1, <3>2
    <2> DEFINE place(a, b) == IF b = 1 THEN 2 * a - 1 ELSE 2 * a
    <2>2. \A a \in 1 .. m, b \in 1 .. 2 : place(a, b) \in 1 .. n /\ items[a].ids[b] = children[place(a, b)].id
      <3> TAKE a \in 1 .. m, b \in 1 .. 2
      <3>1. CASE b = 1
        BY <1>4, <1>5, <3>1
      <3>2. CASE b = 2
        BY <1>4, <1>5, <3>2
      <3> QED BY <3>1, <3>2
    <2>3. place(i, j) \in 1 .. n /\ place(k, l) \in 1 .. n
          /\ children[place(i, j)].id = children[place(k, l)].id
      <3> HIDE DEF place
      <3> QED BY <2>2, <2>1
    <2> HIDE DEF place
    <2>4. place(i, j) = place(k, l)
      BY <1>10, <2>3 DEF HoldsOnce, n
    <2> QED BY <1>2, <2>4, <2>1 DEF place
  <1> QED BY <1>6, <1>9, <1>10 DEF n

(* The items of an aggregate name its children, as often as it holds them. *)
LEMMA ItemsHoldChildren ==
  ASSUME NEW kind \in Kinds, NEW children \in Seq(Child), EdgesFit(kind, children),
         kind = "mapping" => Len(children) % 2 = 0
  PROVE  /\ ItemsOf(kind, children) \in Seq(ItemType)
         /\ AllIds(ItemsOf(kind, children)) = {children[c].id : c \in 1 .. Len(children)}
         /\ HoldsOnce(children) => NamesOnce(ItemsOf(kind, children))
  <1> DEFINE items == ItemsOf(kind, children)
  <1>1. CASE kind = "record"
    <2> DEFINE names == [i \in 1 .. Len(children) |-> children[i].edge[2]]
    <2>1. \A i \in 1 .. Len(children) : children[i].edge[1] = "field"
      BY <1>1 DEF EdgesFit
    <2>2. names \in [1 .. Len(children) -> Nat]
      BY <2>1, ChildFacts
    <2>3. items = [i \in 1 .. Len(children) |-> [name |-> names[i], ids |-> <<children[i].id>>]]
      BY <1>1 DEF ItemsOf
    <2> HIDE DEF names
    <2> QED BY <2>2, <2>3, SingleItems
  <1>2. CASE kind = "mapping"
    <2>1. items = [i \in 1 .. Len(children) \div 2 |->
                     [name |-> 0, ids |-> <<children[2 * i - 1].id, children[2 * i].id>>]]
      BY <1>2 DEF ItemsOf
    <2> QED BY <1>2, <2>1, PairedItems
  <1>3. CASE kind # "record" /\ kind # "mapping"
    <2> DEFINE names == [i \in 1 .. Len(children) |-> 0]
    <2>1. names \in [1 .. Len(children) -> Nat]
      OBVIOUS
    <2>2. items = [i \in 1 .. Len(children) |-> [name |-> names[i], ids |-> <<children[i].id>>]]
      BY <1>3 DEF ItemsOf
    <2> HIDE DEF names
    <2> QED BY <2>1, <2>2, SingleItems
  <1> QED BY <1>1, <1>2, <1>3

(* An injection of 1 .. n into itself reaches every number.                *)
LEMMA InjectionReachesAll ==
  ASSUME NEW n \in Nat, NEW p \in [1 .. n -> 1 .. n],
         \A i, j \in 1 .. n : p[i] = p[j] => i = j
  PROVE  \A k \in 1 .. n : \E i \in 1 .. n : p[i] = k
  <1>1. IsFiniteSet(1 .. n)
    BY FS_Interval
  <1>2. p \in Injection(1 .. n, 1 .. n)
    BY DEF Injection, IsInjective
  <1>3. p \in Surjection(1 .. n, 1 .. n)
    BY <1>1, <1>2, FS_Injection
  <1> QED BY <1>3 DEF Surjection

(* Rearranging items loses none of them and repeats none.                  *)
LEMMA RearrangedKeeps ==
  ASSUME NEW items \in Seq(ItemType), NEW p \in [1 .. Len(items) -> 1 .. Len(items)],
         \A i, j \in 1 .. Len(items) : p[i] = p[j] => i = j
  PROVE  /\ Rearranged(items, p) \in Seq(ItemType)
         /\ AllIds(Rearranged(items, p)) = AllIds(items)
         /\ NamesOnce(items) => NamesOnce(Rearranged(items, p))
  <1> DEFINE n == Len(items)
             other == Rearranged(items, p)
  <1>1. n \in Nat /\ \A i \in 1 .. n : items[i] \in ItemType
    BY LenProperties, ElementOfSeq
  <1>2. \A i \in 1 .. n : other[i] = items[p[i]]
    BY DEF Rearranged
  <1>3. other \in Seq(ItemType) /\ Len(other) = n
    <2>1. other \in [1 .. n -> ItemType]
      BY <1>1 DEF Rearranged
    <2> QED BY <1>1, <2>1, SeqDef, LenProperties
  <1> HIDE DEF other
  <1>4. \A k \in 1 .. n : \E i \in 1 .. n : p[i] = k
    BY <1>1, InjectionReachesAll
  <1>5. AllIds(other) = AllIds(items)
    <2>1. \A id : id \in AllIds(other) <=> \E i \in 1 .. n : id \in Ids(items[p[i]])
      BY <1>2, <1>3 DEF AllIds
    <2>2. \A id : id \in AllIds(items) <=> \E k \in 1 .. n : id \in Ids(items[k])
      BY DEF AllIds
    <2>3. \A id : id \in AllIds(other) <=> id \in AllIds(items)
      BY <1>4, <2>1, <2>2
    <2> QED BY <2>3
  <1>6. ASSUME NamesOnce(items) PROVE NamesOnce(other)
    <2> SUFFICES ASSUME NEW i \in 1 .. n, NEW k \in 1 .. n,
                        NEW j \in 1 .. Len(other[i].ids), NEW l \in 1 .. Len(other[k].ids),
                        other[i].ids[j] = other[k].ids[l]
                 PROVE  i = k /\ j = l
      BY <1>3 DEF NamesOnce
    <2>1. other[i] = items[p[i]] /\ other[k] = items[p[k]] /\ p[i] \in 1 .. n /\ p[k] \in 1 .. n
      BY <1>2
    <2>2. p[i] = p[k] /\ j = l
      BY <1>6, <2>1 DEF NamesOnce
    <2> QED BY <2>2
  <1> QED BY <1>3, <1>5, <1>6 DEF other

LEMMA OrderedItemsHoldChildren ==
  ASSUME NEW kind \in Kinds, NEW children \in Seq(Child), EdgesFit(kind, children),
         kind = "mapping" => Len(children) % 2 = 0
  PROVE  /\ ItemsInOrder(kind, children) \in Seq(ItemType)
         /\ AllIds(ItemsInOrder(kind, children)) = {children[c].id : c \in 1 .. Len(children)}
         /\ HoldsOnce(children) => NamesOnce(ItemsInOrder(kind, children))
  <1> DEFINE items == ItemsOf(kind, children)
             n == Len(items)
             sorting == {p \in [1 .. n -> 1 .. n] :
                           /\ \A i, j \in 1 .. n : p[i] = p[j] => i = j
                           /\ InOrder(values, Rearranged(items, p))}
  <1>1. /\ items \in Seq(ItemType)
        /\ AllIds(items) = {children[c].id : c \in 1 .. Len(children)}
        /\ HoldsOnce(children) => NamesOnce(items)
    BY ItemsHoldChildren
  <1>2. CASE ItemsInOrder(kind, children) = items
    BY <1>1, <1>2
  <1>3. CASE ItemsInOrder(kind, children) # items
    <2>1. /\ sorting # {}
          /\ ItemsInOrder(kind, children) = Rearranged(items, CHOOSE p \in sorting : TRUE)
      BY <1>3, Zenon DEF ItemsInOrder, Sorted
    <2> DEFINE p == CHOOSE p \in sorting : TRUE
    <2>2. p \in sorting
      BY <2>1, Zenon
    <2>3. p \in [1 .. n -> 1 .. n] /\ \A i, j \in 1 .. n : p[i] = p[j] => i = j
      BY <2>2, Zenon
    <2>4. ItemsInOrder(kind, children) = Rearranged(items, p)
      BY <2>1, Zenon
    <2> HIDE DEF p, items
    <2> QED BY <1>1, <2>3, <2>4, RearrangedKeeps
  <1> QED BY <1>2, <1>3

-----------------------------------------------------------------------------
(* OneHolder by what nodes and frames hold: each id is held somewhere, and *)
(* in no two places.                                                       *)
HeldExactly(n, k, below, held, r) ==
  \A id \in 1 .. n :
    /\ (\E v \in 1 .. n : id \in below[v]) \/ (\E f \in 1 .. k : id \in held[f]) \/ r = id
    /\ \A v, w \in 1 .. n : (id \in below[v] /\ id \in below[w]) => v = w
    /\ \A f, g \in 1 .. k : (id \in held[f] /\ id \in held[g]) => f = g
    /\ \A v \in 1 .. n, f \in 1 .. k : ~(id \in below[v] /\ id \in held[f])
    /\ r = id => /\ \A v \in 1 .. n : id \notin below[v]
                 /\ \A f \in 1 .. k : id \notin held[f]

HoldersOf(n, k) == ({"node"} \X (1 .. n)) \cup ({"frame"} \X (1 .. k)) \cup {<<"root", 0>>}

Contents(below, held, r, holder) ==
  CASE holder[1] = "node"  -> below[holder[2]]
    [] holder[1] = "frame" -> held[holder[2]]
    [] OTHER               -> {r} \ {0}

LEMMA HoldersAreExact ==
  ASSUME NEW n \in Nat, NEW k \in Nat, NEW below, NEW held, NEW r
  PROVE  (\A id \in 1 .. n : \E holder \in HoldersOf(n, k) :
            {h \in HoldersOf(n, k) : id \in Contents(below, held, r, h)} = {holder})
         <=> HeldExactly(n, k, below, held, r)
  <1> DEFINE H == HoldersOf(n, k)
             C(h) == Contents(below, held, r, h)
  <1>1. /\ \A v \in 1 .. n : <<"node", v>> \in H /\ C(<<"node", v>>) = below[v]
        /\ \A f \in 1 .. k : <<"frame", f>> \in H /\ C(<<"frame", f>>) = held[f]
        /\ <<"root", 0>> \in H /\ C(<<"root", 0>>) = {r} \ {0}
    BY DEF HoldersOf, Contents
  <1>2. \A h \in H : \/ \E v \in 1 .. n : h = <<"node", v>>
                     \/ \E f \in 1 .. k : h = <<"frame", f>>
                     \/ h = <<"root", 0>>
    BY DEF HoldersOf
  <1> HIDE DEF H, C
  <1> DEFINE Once(id) == (\E h \in H : id \in C(h)) /\ \A g, h \in H : (id \in C(g) /\ id \in C(h)) => g = h
             Exact(id) ==
               /\ (\E v \in 1 .. n : id \in below[v]) \/ (\E f \in 1 .. k : id \in held[f]) \/ r = id
               /\ \A v, w \in 1 .. n : (id \in below[v] /\ id \in below[w]) => v = w
               /\ \A f, g \in 1 .. k : (id \in held[f] /\ id \in held[g]) => f = g
               /\ \A v \in 1 .. n, f \in 1 .. k : ~(id \in below[v] /\ id \in held[f])
               /\ r = id => /\ \A v \in 1 .. n : id \notin below[v]
                            /\ \A f \in 1 .. k : id \notin held[f]
  <1>3. \A id : (\E holder \in H : {h \in H : id \in C(h)} = {holder}) <=> Once(id)
    OBVIOUS
  <1>4. ASSUME NEW id \in 1 .. n PROVE Once(id) <=> Exact(id)
    <2>1. id \in {r} \ {0} <=> r = id
      OBVIOUS
    <2>2. /\ \A v, w \in 1 .. n : <<"node", v>> = <<"node", w>> <=> v = w
          /\ \A f, g \in 1 .. k : <<"frame", f>> = <<"frame", g>> <=> f = g
          /\ \A v \in 1 .. n, f \in 1 .. k : <<"node", v>> # <<"frame", f>>
          /\ \A v \in 1 .. n : <<"node", v>> # <<"root", 0>>
          /\ \A f \in 1 .. k : <<"frame", f>> # <<"root", 0>>
      OBVIOUS
    <2>3. Once(id) => Exact(id)
      <3> SUFFICES ASSUME Once(id) PROVE Exact(id)
        OBVIOUS
      <3>1. (\E v \in 1 .. n : id \in below[v]) \/ (\E f \in 1 .. k : id \in held[f]) \/ r = id
        <4>1. PICK h \in H : id \in C(h)
          OBVIOUS
        <4> QED BY <1>1, <1>2, <2>1, <4>1
      <3>2. \A g, h \in H : (id \in C(g) /\ id \in C(h)) => g = h
        OBVIOUS
      <3>3. ASSUME NEW v \in 1 .. n, NEW w \in 1 .. n, id \in below[v], id \in below[w] PROVE v = w
        <4>1. <<"node", v>> = <<"node", w>>
          BY <1>1, <3>3, <3>2
        <4> QED BY <4>1
      <3>4. ASSUME NEW f \in 1 .. k, NEW g \in 1 .. k, id \in held[f], id \in held[g] PROVE f = g
        <4>1. <<"frame", f>> = <<"frame", g>>
          BY <1>1, <3>4, <3>2
        <4> QED BY <4>1
      <3>5. ASSUME NEW v \in 1 .. n, NEW f \in 1 .. k, id \in below[v], id \in held[f] PROVE FALSE
        <4>1. <<"node", v>> = <<"frame", f>>
          BY <1>1, <3>5, <3>2
        <4> QED BY <2>2, <4>1
      <3>6. r = id => /\ \A v \in 1 .. n : id \notin below[v]
                      /\ \A f \in 1 .. k : id \notin held[f]
        <4> SUFFICES ASSUME r = id PROVE /\ \A v \in 1 .. n : id \notin below[v]
                                         /\ \A f \in 1 .. k : id \notin held[f]
          OBVIOUS
        <4>1. id \in C(<<"root", 0>>) /\ <<"root", 0>> \in H
          BY <1>1, <2>1
        <4>2. ASSUME NEW v \in 1 .. n, id \in below[v] PROVE FALSE
          <5>1. <<"node", v>> = <<"root", 0>>
            BY <1>1, <3>2, <4>1, <4>2
          <5> QED BY <2>2, <5>1
        <4>3. ASSUME NEW f \in 1 .. k, id \in held[f] PROVE FALSE
          <5>1. <<"frame", f>> = <<"root", 0>>
            BY <1>1, <3>2, <4>1, <4>3
          <5> QED BY <2>2, <5>1
        <4> QED BY <4>2, <4>3
      <3> QED BY <3>1, <3>3, <3>4, <3>5, <3>6
    <2>4. Exact(id) => Once(id)
      <3> SUFFICES ASSUME Exact(id) PROVE Once(id)
        OBVIOUS
      <3>1. \E h \in H : id \in C(h)
        BY <1>1, <2>1
      <3>2. ASSUME NEW g \in H, NEW h \in H, id \in C(g), id \in C(h) PROVE g = h
        <4>1. CASE \E v \in 1 .. n : g = <<"node", v>>
          BY <1>1, <1>2, <2>1, <3>2, <4>1
        <4>2. CASE \E f \in 1 .. k : g = <<"frame", f>>
          BY <1>1, <1>2, <2>1, <3>2, <4>2
        <4>3. CASE g = <<"root", 0>>
          BY <1>1, <1>2, <2>1, <3>2, <4>3
        <4> QED BY <1>2, <4>1, <4>2, <4>3
      <3> QED BY <3>1, <3>2
    <2> QED BY <2>3, <2>4
  <1>5. (\A id \in 1 .. n : \E holder \in H : {h \in H : id \in C(h)} = {holder})
        <=> \A id \in 1 .. n : Exact(id)
    BY <1>3, <1>4
  <1>6. HeldExactly(n, k, below, held, r) <=> \A id \in 1 .. n : Exact(id)
    BY DEF HeldExactly
  <1> HIDE DEF Exact
  <1> QED BY <1>5, <1>6 DEF H, C

Belows == [v \in 1 .. Len(values) |-> Below(values, v)]
Helds == [f \in 1 .. Len(frames) |-> ChildIds(frames[f])]
EachOnce ==
  /\ \A v \in 1 .. Len(values) : NamesOnce(values[v].items)
  /\ \A f \in 1 .. Len(frames) : HoldsOnce(frames[f].children)

(* That each node has one holder, in this state and in the next one.       *)
LEMMA OneHolderNow ==
  ASSUME Len(values) \in Nat, Len(frames) \in Nat, status = "open"
  PROVE  OneHolder <=> /\ HeldExactly(Len(values), Len(frames), Belows, Helds, root)
                       /\ EachOnce
  <1> DEFINE H == HoldersOf(Len(values), Len(frames))
             C(h) == Contents(Belows, Helds, root, h)
  <1>1. Holders = H
    BY DEF Holders, HoldersOf
  <1>2. \A h \in H : HeldBy(h) = C(h)
    BY DEF HeldBy, HoldersOf, Contents, Belows, Helds
  <1>3. (\A id \in 1 .. Len(values) : \E holder \in H : {h \in H : id \in C(h)} = {holder})
        <=> HeldExactly(Len(values), Len(frames), Belows, Helds, root)
    BY HoldersAreExact
  <1> HIDE DEF H, C
  <1>4. \A id : {h \in H : id \in HeldBy(h)} = {h \in H : id \in C(h)}
    BY <1>2
  <1> QED BY <1>1, <1>3, <1>4 DEF OneHolder, EachOnce

LEMMA OneHolderNext ==
  ASSUME Len(values') \in Nat, Len(frames') \in Nat,
         HeldExactly(Len(values'), Len(frames'), Belows', Helds', root'), EachOnce'
  PROVE  OneHolder'
  <1> DEFINE H == HoldersOf(Len(values'), Len(frames'))
             C(h) == Contents(Belows', Helds', root', h)
  <1>1. Holders' = H
    BY DEF Holders, HoldersOf
  <1>2. \A h \in H : HeldBy(h)' = C(h)
    BY DEF HeldBy, HoldersOf, Contents, Belows, Helds
  <1>3. \A id \in 1 .. Len(values') : \E holder \in H : {h \in H : id \in C(h)} = {holder}
    BY HoldersAreExact
  <1> HIDE DEF H, C
  <1>4. \A id : {h \in H : id \in HeldBy(h)'} = {h \in H : id \in C(h)}
    BY <1>2
  <1> QED BY <1>1, <1>3, <1>4 DEF OneHolder, EachOnce

(* A new node takes over what the innermost aggregate held, or nothing,    *)
(* and is held by the aggregate around it, or is the root.                 *)
Pushed(n, k, s, below, held, r, below2, held2, r2) ==
  /\ \A v \in 1 .. n : below[v] \subseteq 1 .. n
  /\ \A f \in 1 .. k : held[f] \subseteq 1 .. n
  /\ \A v \in 1 .. n : below2[v] = below[v]
  /\ \/ s = k /\ below2[n + 1] = {}
     \/ k = s + 1 /\ below2[n + 1] = held[k]
  /\ \A f \in 1 .. s : held2[f] = IF f = s THEN held[f] \cup {n + 1} ELSE held[f]
  /\ s = 0 => r = 0
  /\ r2 = IF s = 0 THEN n + 1 ELSE r

LEMMA PushHolds ==
  ASSUME NEW n \in Nat, NEW k \in Nat, NEW s \in Nat, NEW below, NEW held, NEW r \in 0 .. n,
         NEW below2, NEW held2, NEW r2,
         HeldExactly(n, k, below, held, r), Pushed(n, k, s, below, held, r, below2, held2, r2)
  PROVE  HeldExactly(n + 1, s, below2, held2, r2)
  <1> SUFFICES ASSUME NEW id \in 1 .. n + 1
               PROVE  /\ \/ \E v \in 1 .. n + 1 : id \in below2[v]
                         \/ \E f \in 1 .. s : id \in held2[f]
                         \/ r2 = id
                      /\ \A v, w \in 1 .. n + 1 : (id \in below2[v] /\ id \in below2[w]) => v = w
                      /\ \A f, g \in 1 .. s : (id \in held2[f] /\ id \in held2[g]) => f = g
                      /\ \A v \in 1 .. n + 1, f \in 1 .. s : ~(id \in below2[v] /\ id \in held2[f])
                      /\ r2 = id => /\ \A v \in 1 .. n + 1 : id \notin below2[v]
                                    /\ \A f \in 1 .. s : id \notin held2[f]
    BY Zenon DEF HeldExactly
  <1> USE DEF Pushed
  <1>1. n + 1 \in 1 .. n + 1 /\ \A v \in 1 .. n + 1 : v \in 1 .. n \/ v = n + 1
    OBVIOUS
  <1>2. 1 .. s \subseteq 1 .. k /\ \A f \in 1 .. k : f \in 1 .. s \/ (f = k /\ k = s + 1)
    OBVIOUS
  <1>3. ASSUME NEW f \in 1 .. s
        PROVE  id \in held2[f] <=> id \in held[f] \/ (f = s /\ id = n + 1)
    <2>1. CASE f = s
      BY <2>1
    <2>2. CASE f # s
      BY <2>2
    <2> QED BY <2>1, <2>2
  <1>4. CASE id = n + 1
    <2>1. \A v \in 1 .. n + 1 : id \notin below2[v]
      BY <1>1, <1>2, <1>4
    <2>2. \A f \in 1 .. s : id \in held2[f] <=> f = s
      <3>1. \A f \in 1 .. s : id \notin held[f]
        BY <1>2, <1>4
      <3> QED BY <1>4, <1>3, <3>1
    <2>3. r2 = id <=> s = 0
      BY <1>4
    <2>4. s # 0 => s \in 1 .. s
      OBVIOUS
    <2>5. s = 0 => ~\E f \in 1 .. s : TRUE
      OBVIOUS
    <2> QED BY <2>1, <2>2, <2>3, <2>4, <2>5
  <1>5. CASE id \in 1 .. n
    <2>1. /\ (\E v \in 1 .. n : id \in below[v]) \/ (\E f \in 1 .. k : id \in held[f]) \/ r = id
          /\ \A v, w \in 1 .. n : (id \in below[v] /\ id \in below[w]) => v = w
          /\ \A f, g \in 1 .. k : (id \in held[f] /\ id \in held[g]) => f = g
          /\ \A v \in 1 .. n, f \in 1 .. k : ~(id \in below[v] /\ id \in held[f])
          /\ r = id => /\ \A v \in 1 .. n : id \notin below[v]
                       /\ \A f \in 1 .. k : id \notin held[f]
      BY <1>5 DEF HeldExactly
    <2>2. \A f \in 1 .. s : id \in held2[f] <=> id \in held[f]
      <3>1. id # n + 1
        BY <1>5
      <3> QED BY <1>3, <3>1
    <2>3. \A v \in 1 .. n : id \in below2[v] <=> id \in below[v]
      OBVIOUS
    <2>4. r2 = id <=> r = id
      BY <1>5
    <2>5. id \in below2[n + 1] <=> k = s + 1 /\ id \in held[k]
      BY <1>2
    <2>6. k = s + 1 => k \in 1 .. k /\ k \notin 1 .. s
      OBVIOUS
    <2> QED BY <1>1, <1>2, <2>1, <2>2, <2>3, <2>4, <2>5, <2>6
  <1> QED BY <1>1, <1>4, <1>5

(* The only child of an optional value moves to the aggregate around it.   *)
Moved(s, x, held, r, held2, r2) ==
  /\ held[s + 1] = {x}
  /\ \A f \in 1 .. s : held2[f] = IF f = s THEN held[f] \cup {x} ELSE held[f]
  /\ s = 0 => r = 0
  /\ r2 = IF s = 0 THEN x ELSE r

LEMMA MoveHolds ==
  ASSUME NEW n \in Nat, NEW s \in Nat, NEW below, NEW held, NEW r \in 0 .. n, NEW x \in 1 .. n,
         NEW held2, NEW r2,
         HeldExactly(n, s + 1, below, held, r), Moved(s, x, held, r, held2, r2)
  PROVE  HeldExactly(n, s, below, held2, r2)
  <1> SUFFICES ASSUME NEW id \in 1 .. n
               PROVE  /\ \/ \E v \in 1 .. n : id \in below[v]
                         \/ \E f \in 1 .. s : id \in held2[f]
                         \/ r2 = id
                      /\ \A v, w \in 1 .. n : (id \in below[v] /\ id \in below[w]) => v = w
                      /\ \A f, g \in 1 .. s : (id \in held2[f] /\ id \in held2[g]) => f = g
                      /\ \A v \in 1 .. n, f \in 1 .. s : ~(id \in below[v] /\ id \in held2[f])
                      /\ r2 = id => /\ \A v \in 1 .. n : id \notin below[v]
                                    /\ \A f \in 1 .. s : id \notin held2[f]
    BY Zenon DEF HeldExactly
  <1> USE DEF Moved
  <1> DEFINE k == s + 1
  <1>1. /\ (\E v \in 1 .. n : id \in below[v]) \/ (\E f \in 1 .. k : id \in held[f]) \/ r = id
        /\ \A v, w \in 1 .. n : (id \in below[v] /\ id \in below[w]) => v = w
        /\ \A f, g \in 1 .. k : (id \in held[f] /\ id \in held[g]) => f = g
        /\ \A v \in 1 .. n, f \in 1 .. k : ~(id \in below[v] /\ id \in held[f])
        /\ r = id => /\ \A v \in 1 .. n : id \notin below[v]
                     /\ \A f \in 1 .. k : id \notin held[f]
    BY DEF HeldExactly
  <1>2. 1 .. s \subseteq 1 .. k /\ k \in 1 .. k /\ k \notin 1 .. s
        /\ \A f \in 1 .. k : f \in 1 .. s \/ f = k
    OBVIOUS
  <1> HIDE DEF k
  <1>3. id \in held[k] <=> id = x
    BY DEF k
  <1>4. CASE id # x
    <2>1. \A f \in 1 .. s : id \in held2[f] <=> id \in held[f]
      BY <1>4
    <2>2. r2 = id <=> r = id
      BY <1>4
    <2> QED BY <1>1, <1>2, <1>3, <1>4, <2>1, <2>2
  <1>5. CASE id = x
    <2>1. \A f \in 1 .. s : id \in held2[f] <=> f = s
      BY <1>1, <1>2, <1>3, <1>5
    <2>2. r2 = id <=> s = 0
      BY <1>1, <1>2, <1>3, <1>5
    <2>3. \A v \in 1 .. n : id \notin below[v]
      BY <1>1, <1>2, <1>3, <1>5
    <2>4. s # 0 => s \in 1 .. s
      OBVIOUS
    <2> QED BY <2>1, <2>2, <2>3, <2>4
  <1> QED BY <1>4, <1>5

-----------------------------------------------------------------------------
LEMMA Limits ==
  ASSUME TypeOK
  PROVE  /\ MaxDepth \in Nat \ {0} /\ MaxItems \in Nat \ {0} /\ MaxStringBytes \in Nat \ {0}
         /\ NameBytes \in Nat /\ MaxNodes \in Nat \ {0}
  BY LimitsAssumption DEF TypeOK, NativeLimits, MaxNodes

(* A list of children with one more.                                       *)
LEMMA OneMoreChild ==
  ASSUME NEW children \in Seq(Child), NEW child \in Child
  PROVE  /\ Append(children, child) # << >>
         /\ Top(Append(children, child)).id = child.id
         /\ {Append(children, child)[c].id : c \in 1 .. Len(Append(children, child))}
              = {children[c].id : c \in 1 .. Len(children)} \cup {child.id}
         /\ (HoldsOnce(children) /\ child.id \notin {children[c].id : c \in 1 .. Len(children)}) =>
              HoldsOnce(Append(children, child))
  <1> DEFINE more == Append(children, child)
             n == Len(children)
  <1>1. /\ more # << >> /\ Len(more) = n + 1 /\ n \in Nat
        /\ \A c \in 1 .. n : more[c] = children[c]
        /\ more[n + 1] = child
    BY AppendProperties, LenProperties
  <1> HIDE DEF more, n
  <1>2. \A c \in 1 .. n + 1 : c \in 1 .. n \/ c = n + 1
    BY <1>1
  <1>3. n + 1 \in 1 .. n + 1 /\ 1 .. n \subseteq 1 .. n + 1
    BY <1>1
  <1>4. {more[c].id : c \in 1 .. Len(more)} = {children[c].id : c \in 1 .. n} \cup {child.id}
    BY <1>1, <1>2, <1>3
  <1>5. ASSUME HoldsOnce(children), child.id \notin {children[c].id : c \in 1 .. n}
        PROVE  HoldsOnce(more)
    <2> SUFFICES ASSUME NEW c \in 1 .. n + 1, NEW d \in 1 .. n + 1, more[c].id = more[d].id
                 PROVE  c = d
      BY <1>1 DEF HoldsOnce
    <2>1. CASE c \in 1 .. n /\ d \in 1 .. n
      BY <1>1, <1>5, <2>1 DEF HoldsOnce, n
    <2>2. CASE c = n + 1 /\ d \in 1 .. n
      BY <1>1, <1>5, <2>2
    <2>3. CASE c \in 1 .. n /\ d = n + 1
      BY <1>1, <1>5, <2>3
    <2> QED BY <1>2, <2>1, <2>2, <2>3
  <1> QED BY <1>1, <1>4, <1>5 DEF more, n, Top

LEMMA FrameFacts ==
  ASSUME TypeOK
  PROVE  /\ Len(frames) \in Nat /\ Len(values) \in Nat
         /\ \A f \in 1 .. Len(frames) : frames[f] \in Frame /\ frames[f].children \in Seq(Child)
  <1>1. Len(frames) \in Nat /\ Len(values) \in Nat
    BY LenProperties DEF TypeOK
  <1>2. \A f \in 1 .. Len(frames) : frames[f] \in Frame
    BY ElementOfSeq DEF TypeOK
  <1> QED BY <1>1, <1>2 DEF Frame, Child

(* What attaching changes: the aggregate around gets the child, or the     *)
(* root, that there was not, is set.                                       *)
LEMMA AttachChanges ==
  ASSUME TypeOK, NEW stack \in Seq(Frame), NEW id \in Nat, NEW nodes, NEW bytes,
         Attach(stack, id, nodes, bytes), ~Refuse
  PROVE  /\ values' = nodes /\ stringBytes' = bytes /\ projection' = projection /\ status' = status
         /\ frames' \in Seq(Frame) /\ Len(frames') = Len(stack) /\ Len(stack) \in Nat
         /\ Len(stack) = 0 => root = 0 /\ frames' = << >>
         /\ root' = IF Len(stack) = 0 THEN id ELSE root
         /\ \A f \in 1 .. Len(stack) :
              /\ frames'[f].kind = stack[f].kind
              /\ frames'[f].childCount = stack[f].childCount
              /\ f # Len(stack) => frames'[f].children = stack[f].children
              /\ f = Len(stack) => \E child \in Child :
                   child.id = id /\ frames'[f].children = Append(stack[f].children, child)
  <1>1. Len(stack) \in Nat /\ (stack = << >> <=> Len(stack) = 0)
    BY LenProperties, EmptySeq
  <1>2. CASE stack = << >>
    <2>1. /\ root = 0 /\ root' = id /\ frames' = << >>
          /\ values' = nodes /\ stringBytes' = bytes /\ projection' = projection /\ status' = status
      BY <1>2 DEF Attach, Keep
    <2>2. Len(stack) = 0 /\ ~\E f \in 1 .. Len(stack) : TRUE
      BY <1>1, <1>2
    <2>3. frames' \in Seq(Frame) /\ Len(frames') = Len(stack)
      BY <1>2, <2>1
    <2> QED BY <2>1, <2>2, <2>3
  <1>3. CASE stack # << >>
    <2> DEFINE n == Len(stack)
               child == [edge |-> stack[n].pending, id |-> id]
               frame == Received(stack[n], id)
               longer == [stack EXCEPT ![n] = frame]
    <2>1. n \in 1 .. Len(stack) /\ stack[n] \in Frame
      BY <1>1, <1>3, ElementOfSeq
    <2>2. /\ stack[n].pending # NoEdge
          /\ frames' = longer /\ root' = root
          /\ values' = nodes /\ stringBytes' = bytes /\ projection' = projection /\ status' = status
      BY <1>3 DEF Attach, Keep, Top
    <2>3. child \in Child
      BY <2>1, <2>2 DEF Frame, Child
    <2>4. /\ frame \in Frame
          /\ frame.kind = stack[n].kind /\ frame.childCount = stack[n].childCount
          /\ frame.children = Append(stack[n].children, child)
      <3>1. stack[n].children \in Seq(Child)
        BY <2>1 DEF Frame, Child
      <3>2. Append(stack[n].children, child) \in Seq(Child)
        BY <2>3, <3>1, AppendProperties
      <3>3. frame = [stack[n] EXCEPT !.pending = NoEdge, !.children = Append(@, child)]
        BY DEF Received
      <3> HIDE DEF child, frame, n
      <3> QED BY <2>1, <3>2, <3>3 DEF Frame, Child
    <2>5. child.id = id
      OBVIOUS
    <2> HIDE DEF n, frame, child
    <2>6. /\ longer \in Seq(Frame) /\ Len(longer) = Len(stack)
          /\ \A f \in 1 .. Len(stack) : longer[f] = IF f = n THEN frame ELSE stack[f]
      BY <2>1, <2>4, ExceptSeq
    <2> HIDE DEF longer
    <2>7. Len(stack) # 0
      BY <1>1, <1>3
    <2> QED BY <1>1, <2>2, <2>3, <2>4, <2>5, <2>6, <2>7 DEF n
  <1> QED BY <1>2, <1>3

(* A refused event changes nothing but the status.                         *)
LEMMA RefuseKeeps == IInv /\ status = "open" /\ Refuse => IInv'
  <1> SUFFICES ASSUME IInv, status = "open", Refuse PROVE IInv'
    OBVIOUS
  <1>1. /\ status' = "refused" /\ projection' = projection /\ values' = values
        /\ stringBytes' = stringBytes /\ frames' = frames /\ root' = root
    BY DEF Refuse
  <1>2. TypeOK'
    BY <1>1 DEF IInv, TypeOK
  <1>3. ChildrenFirst'
    BY <1>1 DEF IInv, ChildrenFirst
  <1>4. FramesFit' /\ NewestHeld'
    BY <1>1 DEF IInv, FramesFit, NewestHeld, NoChildrenFrom
  <1>5. OneHolder'
    BY <1>1 DEF OneHolder
  <1>6. Depths' /\ Amounts'
    BY <1>1 DEF IInv, Depths, Amounts, MaxNodes
  <1> QED BY <1>2, <1>3, <1>4, <1>5, <1>6 DEF IInv

(* What the aggregates around an attached child have in common, for a new  *)
(* node and for the member of an optional value: they fit, and hold what   *)
(* they held and the child.                                                *)
LEMMA AttachKeepsFrames ==
  ASSUME IInv, NEW stack \in Seq(Frame), NEW id \in Nat \ {0}, NEW nodes, NEW bytes,
         Len(stack) <= Len(frames), \A f \in 1 .. Len(stack) : stack[f] = frames[f],
         Attach(stack, id, nodes, bytes), ~Refuse, id = Len(nodes)
  PROVE  /\ FramesFit' /\ NewestHeld'
         /\ \A f \in 1 .. Len(stack) :
              /\ f = Len(stack) => ChildIds(frames'[f]) = ChildIds(frames[f]) \cup {id}
              /\ f # Len(stack) => ChildIds(frames'[f]) = ChildIds(frames[f])
              /\ HoldsOnce(frames[f].children)
                   /\ (f = Len(stack) => id \notin ChildIds(frames[f])) =>
                 HoldsOnce(frames'[f].children)
  <1> DEFINE s == Len(stack)
  <1>1. /\ values' = nodes /\ Len(frames') = s /\ s \in Nat
        /\ root' = IF s = 0 THEN id ELSE root
        /\ \A f \in 1 .. s :
             /\ frames'[f].kind = stack[f].kind
             /\ frames'[f].childCount = stack[f].childCount
             /\ f # s => frames'[f].children = stack[f].children
             /\ f = s => \E child \in Child :
                  child.id = id /\ frames'[f].children = Append(stack[f].children, child)
    BY AttachChanges DEF IInv
  <1>2. Len(frames) \in Nat /\ \A f \in 1 .. s : f \in 1 .. Len(frames) /\ stack[f] = frames[f]
    BY <1>1, FrameFacts DEF IInv
  <1>3. \A f \in 1 .. s : stack[f].children \in Seq(Child)
    BY <1>2, FrameFacts DEF IInv
  <1>4. FramesFit'
    BY <1>1, <1>2 DEF IInv, FramesFit
  <1>5. s # 0 => /\ s \in 1 .. s /\ frames'[s].children # << >>
                 /\ Top(frames'[s].children).id = id
    <2> SUFFICES ASSUME s # 0
                 PROVE  /\ s \in 1 .. s /\ frames'[s].children # << >>
                        /\ Top(frames'[s].children).id = id
      OBVIOUS
    <2>1. s \in 1 .. s
      BY <1>1
    <2>2. PICK child \in Child : child.id = id /\ frames'[s].children = Append(stack[s].children, child)
      BY <1>1, <2>1
    <2>3. stack[s].children \in Seq(Child)
      BY <1>3, <2>1
    <2> QED BY <2>1, <2>2, <2>3, OneMoreChild
  <1> HIDE DEF s
  <1>6. NewestHeld'
    <2>1. ASSUME NEW f \in 1 .. s, NoChildrenFrom(f + 1)' PROVE f = s
      <3>1. f # s => s \in f + 1 .. s /\ s # 0
        BY <1>1
      <3>2. \A g \in f + 1 .. s : frames'[g].children = << >>
        BY <1>1, <2>1 DEF NoChildrenFrom
      <3> QED BY <1>5, <3>1, <3>2
    <2>2. \A f \in 1 .. s : NoChildrenFrom(f + 1)' => Top(frames'[f].children).id = id
      <3> TAKE f \in 1 .. s
      <3> HAVE NoChildrenFrom(f + 1)'
      <3>1. f = s /\ s # 0
        BY <1>1, <2>1
      <3> QED BY <1>5, <3>1
    <2>3. NoChildrenFrom(1)' => s = 0
      BY <1>1, <1>5 DEF NoChildrenFrom
    <2> QED BY <1>1, <2>2, <2>3 DEF NewestHeld
  <1>7. ASSUME NEW f \in 1 .. s
        PROVE  /\ f = s => ChildIds(frames'[f]) = ChildIds(frames[f]) \cup {id}
               /\ f # s => ChildIds(frames'[f]) = ChildIds(frames[f])
               /\ HoldsOnce(frames[f].children) /\ (f = s => id \notin ChildIds(frames[f])) =>
                  HoldsOnce(frames'[f].children)
    <2>1. CASE f # s
      <3>1. frames'[f].children = frames[f].children
        BY <1>1, <1>2, <2>1
      <3> QED BY <2>1, <3>1 DEF ChildIds
    <2>2. CASE f = s
      <3>1. PICK child \in Child : child.id = id /\ frames'[f].children = Append(frames[f].children, child)
        BY <1>1, <1>2, <2>2
      <3>2. frames[f].children \in Seq(Child)
        BY <1>2, <1>3
      <3> DEFINE old == frames[f].children
      <3>3. frames'[f].children = Append(old, child) /\ old \in Seq(Child)
        BY <3>1, <3>2
      <3>4. ChildIds(frames[f]) = {old[c].id : c \in 1 .. Len(old)}
        BY DEF ChildIds
      <3> HIDE DEF old
      <3>5. /\ {Append(old, child)[c].id : c \in 1 .. Len(Append(old, child))}
                 = {old[c].id : c \in 1 .. Len(old)} \cup {id}
            /\ (HoldsOnce(old) /\ id \notin {old[c].id : c \in 1 .. Len(old)}) =>
                 HoldsOnce(Append(old, child))
        BY <3>1, <3>3, OneMoreChild
      <3>6. ChildIds(frames'[f]) = {old[c].id : c \in 1 .. Len(old)} \cup {id}
        BY <3>3, <3>5 DEF ChildIds
      <3>7. (HoldsOnce(old) /\ id \notin {old[c].id : c \in 1 .. Len(old)}) =>
              HoldsOnce(frames'[f].children)
        BY <3>3, <3>5
      <3> QED BY <2>2, <3>4, <3>6, <3>7 DEF old
    <2> QED BY <2>1, <2>2
  <1> QED BY <1>4, <1>6, <1>7 DEF s

(* A new node with the innermost aggregate's children, or with none,       *)
(* attached to the aggregate around it, keeps the invariant.               *)
LEMMA PushKeeps ==
  ASSUME IInv, status = "open",
         NEW stack \in Seq(Frame), Len(stack) <= Len(frames),
         \A f \in 1 .. Len(stack) : stack[f] = frames[f],
         NEW node \in Node, NamesOnce(node.items), NEW bytes \in 0 .. MaxStringBytes,
         \/ Len(stack) = Len(frames) /\ AllIds(node.items) = {}
         \/ /\ Len(frames) = Len(stack) + 1
            /\ AllIds(node.items) = ChildIds(frames[Len(frames)]),
         PushAndAttach(stack, node, bytes), ~Refuse
  PROVE  IInv'
  <1> DEFINE n == Len(values)
             s == Len(stack)
             k == Len(frames)
             more == Append(values, node)
  <1>1. n < MaxNodes /\ Attach(stack, n + 1, more, bytes)
    BY LenProperties, Limits DEF PushAndAttach, IInv, TypeOK
  <1>2. /\ n \in Nat /\ k \in Nat /\ s \in Nat /\ n + 1 \in Nat \ {0}
        /\ \A f \in 1 .. s : f \in 1 .. k
    BY LenProperties, FrameFacts DEF IInv
  <1>3. /\ more \in Seq(Node) /\ Len(more) = n + 1 /\ more[n + 1] = node
        /\ \A v \in 1 .. n : more[v] = values[v] /\ Below(more, v) = Below(values, v)
    BY AppendKeepsBelow DEF IInv, TypeOK
  <1>4. /\ values' = more /\ stringBytes' = bytes /\ projection' = projection /\ status' = "open"
        /\ frames' \in Seq(Frame) /\ Len(frames') = s
        /\ s = 0 => root = 0
        /\ root' = IF s = 0 THEN n + 1 ELSE root
    BY <1>1, <1>2, AttachChanges DEF IInv
  <1>5. /\ FramesFit' /\ NewestHeld'
        /\ \A f \in 1 .. s :
             /\ f = s => ChildIds(frames'[f]) = ChildIds(frames[f]) \cup {n + 1}
             /\ f # s => ChildIds(frames'[f]) = ChildIds(frames[f])
             /\ HoldsOnce(frames[f].children) /\ (f = s => n + 1 \notin ChildIds(frames[f])) =>
                HoldsOnce(frames'[f].children)
    <2> DEFINE id == n + 1
    <2>1. id \in Nat \ {0} /\ id = Len(more) /\ Attach(stack, id, more, bytes)
      BY <1>1, <1>2, <1>3
    <2> HIDE DEF id, more
    <2>2. /\ FramesFit' /\ NewestHeld'
          /\ \A f \in 1 .. Len(stack) :
               /\ f = Len(stack) => ChildIds(frames'[f]) = ChildIds(frames[f]) \cup {id}
               /\ f # Len(stack) => ChildIds(frames'[f]) = ChildIds(frames[f])
               /\ HoldsOnce(frames[f].children)
                    /\ (f = Len(stack) => id \notin ChildIds(frames[f])) =>
                  HoldsOnce(frames'[f].children)
      BY <2>1, AttachKeepsFrames
    <2> QED BY <2>2 DEF id
  <1>6. Below(more, n + 1) = AllIds(node.items)
    BY <1>3, Zenon DEF Below, AllIds
  <1> HIDE DEF n, s, k, more
  <1>7. /\ \A v \in 1 .. n : Below(values, v) \subseteq 1 .. v - 1
        /\ \A f \in 1 .. k : ChildIds(frames[f]) \subseteq 1 .. n
        /\ root \in 0 .. n
    BY DEF IInv, ChildrenFirst, n, k
  <1>8. AllIds(node.items) = {} \/ (k = s + 1 /\ AllIds(node.items) = ChildIds(frames[k]))
    BY DEF s, k
  <1>9. AllIds(node.items) \subseteq 1 .. n
    BY <1>2, <1>7, <1>8
  <1>10. TypeOK'
    <2>1. stringBytes' \in Nat
      BY <1>4, Limits DEF IInv
    <2>2. root' \in Nat
      BY <1>2, <1>4, <1>7
    <2> QED BY <1>3, <1>4, <2>1, <2>2 DEF IInv, TypeOK
  <1>11. ChildrenFirst'
    <2>1. ASSUME NEW v \in 1 .. n + 1 PROVE Below(more, v) \subseteq 1 .. v - 1
      <3>1. CASE v = n + 1
        BY <1>2, <1>6, <1>9, <3>1
      <3>2. CASE v \in 1 .. n
        BY <1>3, <1>7, <3>2
      <3> QED BY <1>2, <3>1, <3>2
    <2>2. ASSUME NEW f \in 1 .. s PROVE ChildIds(frames'[f]) \subseteq 1 .. n + 1
      <3>1. ChildIds(frames[f]) \subseteq 1 .. n
        BY <1>2, <1>7
      <3> QED BY <1>2, <1>5, <3>1
    <2>3. root' \in 0 .. n + 1
      BY <1>2, <1>4, <1>7
    <2> QED BY <1>3, <1>4, <2>1, <2>2, <2>3 DEF ChildrenFirst
  <1>12. OneHolder'
    <2>1. HeldExactly(n, k, Belows, Helds, root) /\ EachOnce
      BY <1>2, OneHolderNow DEF IInv, n, k
    <2>2. /\ \A v \in 1 .. n : Belows[v] = Below(values, v)
          /\ \A f \in 1 .. k : Helds[f] = ChildIds(frames[f])
          /\ \A v \in 1 .. n + 1 : Belows'[v] = Below(more, v)
          /\ \A f \in 1 .. s : Helds'[f] = ChildIds(frames'[f])
      BY <1>3, <1>4 DEF Belows, Helds, n, k
    <2>3. HeldExactly(n + 1, s, Belows', Helds', root')
      <3> DEFINE below == Belows
                 held == Helds
                 below2 == Belows'
                 held2 == Helds'
                 r2 == root'
      <3>1. HeldExactly(n, k, below, held, root)
        BY <2>1
      <3>2. /\ \A v \in 1 .. n : below[v] \subseteq 1 .. n
            /\ \A f \in 1 .. k : held[f] \subseteq 1 .. n
        <4>1. \A v \in 1 .. n : 1 .. v - 1 \subseteq 1 .. n
          BY <1>2
        <4> QED BY <1>7, <2>2, <4>1
      <3>3. \A v \in 1 .. n : below2[v] = below[v]
        BY <1>2, <1>3, <2>2
      <3>4. (s = k /\ below2[n + 1] = {}) \/ (k = s + 1 /\ below2[n + 1] = held[k])
        <4>1. n + 1 \in 1 .. n + 1 /\ (k = s + 1 => k \in 1 .. k)
          BY <1>2
        <4>2. below2[n + 1] = AllIds(node.items)
          BY <1>6, <2>2, <4>1
        <4>3. (s = k /\ AllIds(node.items) = {})
                \/ (k = s + 1 /\ AllIds(node.items) = ChildIds(frames[k]))
          BY DEF s, k
        <4> QED BY <2>2, <4>1, <4>2, <4>3
      <3>5. \A f \in 1 .. s : held2[f] = IF f = s THEN held[f] \cup {n + 1} ELSE held[f]
        <4> TAKE f \in 1 .. s
        <4>1. held2[f] = ChildIds(frames'[f]) /\ held[f] = ChildIds(frames[f])
          BY <1>2, <2>2
        <4>2. CASE f = s
          BY <1>5, <4>1, <4>2
        <4>3. CASE f # s
          BY <1>5, <4>1, <4>3
        <4> QED BY <4>2, <4>3
      <3>6. (s = 0 => root = 0) /\ r2 = IF s = 0 THEN n + 1 ELSE root
        BY <1>4
      <3> HIDE DEF below, held, below2, held2, r2
      <3>7. Pushed(n, k, s, below, held, root, below2, held2, r2)
        BY <3>2, <3>3, <3>4, <3>5, <3>6 DEF Pushed
      <3>8. HeldExactly(n + 1, s, below2, held2, r2)
        BY <1>2, <1>7, <3>1, <3>7, PushHolds
      <3> QED BY <3>8 DEF below2, held2, r2
    <2>4. \A v \in 1 .. n + 1 : NamesOnce(more[v].items)
      <3>1. \A v \in 1 .. n : NamesOnce(more[v].items)
        BY <1>3, <2>1 DEF EachOnce, n
      <3> QED BY <1>2, <1>3, <3>1
    <2>5. \A f \in 1 .. s : HoldsOnce(frames'[f].children)
      <3> TAKE f \in 1 .. s
      <3>1. HoldsOnce(frames[f].children)
        BY <1>2, <2>1 DEF EachOnce, k
      <3>2. n + 1 \notin ChildIds(frames[f])
        <4>1. n + 1 \notin 1 .. n
          BY <1>2
        <4>2. ChildIds(frames[f]) \subseteq 1 .. n
          <5>1. f \in 1 .. k
            BY <1>2
          <5> QED BY <1>7, <5>1
        <4> QED BY <4>1, <4>2
      <3> QED BY <1>5, <3>1, <3>2
    <2>6. EachOnce'
      BY <1>3, <1>4, <2>4, <2>5 DEF EachOnce
    <2>7. Len(values') = n + 1 /\ Len(frames') = s
      BY <1>3, <1>4
    <2> QED BY <1>2, <2>3, <2>6, <2>7, OneHolderNext
  <1>13. Depths'
    <2>1. /\ k <= MaxDepth + 1 /\ MaxDepth \in Nat
          /\ \A f \in 1 .. k : \A id \in ChildIds(frames[f]) : ~Descends(values, id, MaxDepth + 2 - f)
          /\ root # 0 => ~Descends(values, root, MaxDepth + 2)
      BY Limits DEF IInv, Depths, k
    <2>2. Ordered(values)
      BY <1>7 DEF Ordered, IInv, TypeOK, n
    <2>3. ~Descends(more, n + 1, MaxDepth + 2 - s)
      <3> DEFINE m == MaxDepth + 1 - s
      <3>1. m \in Nat /\ m + 1 = MaxDepth + 2 - s
        BY <1>2, <2>1 DEF s, k
      <3>2. ASSUME NEW id \in AllIds(node.items) PROVE id \in 1 .. n /\ ~Descends(values, id, m)
        <4>1. k = s + 1 /\ id \in ChildIds(frames[k])
          BY <1>8, <3>2
        <4>2. k \in 1 .. k /\ MaxDepth + 2 - k = m
          BY <1>2, <2>1, <4>1
        <4>3. ~Descends(values, id, MaxDepth + 2 - k)
          BY <2>1, <4>1, <4>2
        <4> QED BY <1>9, <3>2, <4>2, <4>3
      <3> HIDE DEF m
      <3>3. ~Descends(more, n + 1, m + 1)
        BY <1>6, <2>2, <3>1, <3>2, NewNodeDescends DEF more, n
      <3> QED BY <3>1, <3>3
    <2>4. ASSUME NEW id \in 1 .. n, NEW m \in Nat, ~Descends(values, id, m)
          PROVE  ~Descends(more, id, m)
      BY <2>2, <2>4, OldNodesDescend DEF more, n
    <2>5. ASSUME NEW f \in 1 .. s, NEW id \in ChildIds(frames'[f])
          PROVE  ~Descends(more, id, MaxDepth + 2 - f)
      <3>1. CASE id \in ChildIds(frames[f])
        <4> DEFINE m == MaxDepth + 2 - f
        <4>1. m \in Nat /\ f \in 1 .. k
          BY <1>2, <2>1
        <4>2. ~Descends(values, id, m) /\ id \in 1 .. n
          BY <1>7, <2>1, <3>1, <4>1
        <4> HIDE DEF m
        <4>3. ~Descends(more, id, m)
          BY <2>4, <4>1, <4>2
        <4> QED BY <4>3 DEF m
      <3>2. CASE id \notin ChildIds(frames[f])
        <4>1. f = s /\ id = n + 1
          BY <1>5, <2>5, <3>2
        <4> QED BY <2>3, <4>1
      <3> QED BY <3>1, <3>2
    <2>6. root' # 0 => ~Descends(more, root', MaxDepth + 2)
      <3>1. CASE s = 0
        <4>1. MaxDepth + 2 - s = MaxDepth + 2
          BY <2>1, <3>1
        <4> QED BY <1>4, <2>3, <3>1, <4>1
      <3>2. CASE s # 0
        <4>1. root # 0 => root \in 1 .. n /\ MaxDepth + 2 \in Nat
          BY <1>7, <2>1
        <4> QED BY <1>4, <2>1, <2>4, <3>2, <4>1
      <3> QED BY <3>1, <3>2
    <2>7. Len(frames') <= MaxDepth + 1
      BY <1>2, <1>4, <2>1 DEF s, k
    <2> QED BY <1>4, <2>5, <2>6, <2>7 DEF Depths
  <1>14. Amounts'
    <2>1. Len(values') <= MaxNodes'
      BY <1>1, <1>2, <1>3, <1>4, Limits DEF MaxNodes, IInv, n
    <2>2. stringBytes' <= MaxStringBytes
      BY <1>4, Limits DEF IInv
    <2> QED BY <1>4, <2>1, <2>2 DEF Amounts
  <1> QED BY <1>5, <1>10, <1>11, <1>12, <1>13, <1>14 DEF IInv

(* The member of an optional value moves to the aggregate around it.       *)
LEMMA MoveKeeps ==
  ASSUME IInv, status = "open",
         NEW s \in Nat, Len(frames) = s + 1,
         NEW stack \in Seq(Frame), Len(stack) = s, \A f \in 1 .. s : stack[f] = frames[f],
         NEW id, id = Len(values), ChildIds(frames[s + 1]) = {id},
         Attach(stack, id, values, stringBytes), ~Refuse
  PROVE  IInv'
  <1> DEFINE n == Len(values)
             k == s + 1
  <1>1. /\ n \in Nat /\ k \in Nat /\ k \in 1 .. k /\ 1 .. s \subseteq 1 .. k /\ k \notin 1 .. s
        /\ Len(frames) = k
    BY FrameFacts DEF IInv
  <1> HIDE DEF k
  <1>2. ChildIds(frames[k]) = {id}
    BY DEF k
  <1>3. /\ \A v \in 1 .. n : Below(values, v) \subseteq 1 .. v - 1
        /\ \A f \in 1 .. k : ChildIds(frames[f]) \subseteq 1 .. n
        /\ root \in 0 .. n
    BY <1>1 DEF IInv, ChildrenFirst
  <1>4. id \in 1 .. n /\ id \in Nat \ {0} /\ id = n
    BY <1>1, <1>2, <1>3
  <1>5. /\ values' = values /\ stringBytes' = stringBytes /\ projection' = projection
        /\ status' = "open"
        /\ frames' \in Seq(Frame) /\ Len(frames') = s
        /\ s = 0 => root = 0
        /\ root' = IF s = 0 THEN id ELSE root
    BY <1>4, AttachChanges DEF IInv
  <1>6. /\ FramesFit' /\ NewestHeld'
        /\ \A f \in 1 .. s :
             /\ f = s => ChildIds(frames'[f]) = ChildIds(frames[f]) \cup {id}
             /\ f # s => ChildIds(frames'[f]) = ChildIds(frames[f])
             /\ HoldsOnce(frames[f].children) /\ (f = s => id \notin ChildIds(frames[f])) =>
                HoldsOnce(frames'[f].children)
    <2>1. Len(stack) <= Len(frames) /\ \A f \in 1 .. Len(stack) : stack[f] = frames[f]
      OBVIOUS
    <2>2. /\ FramesFit' /\ NewestHeld'
          /\ \A f \in 1 .. Len(stack) :
               /\ f = Len(stack) => ChildIds(frames'[f]) = ChildIds(frames[f]) \cup {id}
               /\ f # Len(stack) => ChildIds(frames'[f]) = ChildIds(frames[f])
               /\ HoldsOnce(frames[f].children)
                    /\ (f = Len(stack) => id \notin ChildIds(frames[f])) =>
                  HoldsOnce(frames'[f].children)
      BY <1>4, <2>1, AttachKeepsFrames
    <2> QED BY <2>2
  <1>7. TypeOK'
    BY <1>1, <1>3, <1>4, <1>5 DEF IInv, TypeOK
  <1>8. ChildrenFirst'
    <2>1. ASSUME NEW f \in 1 .. s PROVE ChildIds(frames'[f]) \subseteq 1 .. n
      <3>1. ChildIds(frames[f]) \subseteq 1 .. n
        BY <1>1, <1>3
      <3>2. CASE f = s
        BY <1>4, <1>6, <3>1, <3>2
      <3>3. CASE f # s
        BY <1>6, <3>1, <3>3
      <3> QED BY <3>2, <3>3
    <2>2. root' \in 0 .. n
      BY <1>1, <1>3, <1>4, <1>5
    <2> QED BY <1>3, <1>5, <2>1, <2>2 DEF ChildrenFirst
  <1>9. OneHolder'
    <2>1. HeldExactly(n, k, Belows, Helds, root) /\ EachOnce
      BY <1>1, OneHolderNow DEF IInv
    <2>2. /\ \A f \in 1 .. k : Helds[f] = ChildIds(frames[f])
          /\ Belows' = Belows
          /\ \A f \in 1 .. s : Helds'[f] = ChildIds(frames'[f])
      BY <1>1, <1>5 DEF Belows, Helds
    <2>3. HeldExactly(n, s, Belows, Helds', root')
      <3> DEFINE held == Helds
                 held2 == Helds'
                 r2 == root'
                 below == Belows
      <3>1. HeldExactly(n, s + 1, below, held, root)
        BY <2>1 DEF k
      <3>2. held[s + 1] = {id}
        BY <1>1, <1>2, <2>2 DEF k
      <3>3. \A f \in 1 .. s : held2[f] = IF f = s THEN held[f] \cup {id} ELSE held[f]
        <4> TAKE f \in 1 .. s
        <4>1. held2[f] = ChildIds(frames'[f]) /\ held[f] = ChildIds(frames[f])
          BY <1>1, <2>2
        <4>2. CASE f = s
          BY <1>6, <4>1, <4>2
        <4>3. CASE f # s
          BY <1>6, <4>1, <4>3
        <4> QED BY <4>2, <4>3
      <3>4. (s = 0 => root = 0) /\ r2 = IF s = 0 THEN id ELSE root
        BY <1>5
      <3> HIDE DEF held, held2, r2, below
      <3>5. Moved(s, id, held, root, held2, r2)
        BY <3>2, <3>3, <3>4 DEF Moved
      <3>6. HeldExactly(n, s, below, held2, r2)
        BY <1>1, <1>3, <1>4, <3>1, <3>5, MoveHolds
      <3> QED BY <3>6 DEF held2, r2, below
    <2>4. \A f \in 1 .. s : HoldsOnce(frames'[f].children)
      <3> TAKE f \in 1 .. s
      <3>1. f \in 1 .. k /\ f # k
        BY <1>1
      <3>2. HoldsOnce(frames[f].children)
        BY <1>1, <2>1, <3>1 DEF EachOnce
      <3>3. id \notin ChildIds(frames[f])
        <4>1. \A g, h \in 1 .. k : (id \in Helds[g] /\ id \in Helds[h]) => g = h
          BY <1>4, <2>1 DEF HeldExactly
        <4>2. id \in Helds[k] /\ Helds[f] = ChildIds(frames[f])
          BY <1>1, <1>2, <2>2, <3>1
        <4> QED BY <1>1, <3>1, <4>1, <4>2
      <3> QED BY <1>6, <3>2, <3>3
    <2>5. EachOnce'
      BY <1>5, <2>1, <2>4 DEF EachOnce
    <2>6. Len(values') = n /\ Len(frames') = s
      BY <1>5
    <2>7. HeldExactly(Len(values'), Len(frames'), Belows', Helds', root')
      BY <2>2, <2>3, <2>6
    <2> QED BY <1>1, <2>5, <2>6, <2>7, OneHolderNext
  <1>10. Depths'
    <2>1. /\ k <= MaxDepth + 1 /\ MaxDepth \in Nat
          /\ \A f \in 1 .. k : \A i \in ChildIds(frames[f]) : ~Descends(values, i, MaxDepth + 2 - f)
          /\ root # 0 => ~Descends(values, root, MaxDepth + 2)
      BY <1>1, Limits DEF IInv, Depths
    <2>2. ~Descends(values, id, MaxDepth + 2 - s)
      <3> DEFINE m == MaxDepth + 2 - k
      <3>1. m \in Nat /\ m + 1 = MaxDepth + 2 - s
        BY <2>1 DEF k
      <3>2. ~Descends(values, id, m)
        BY <1>1, <1>2, <2>1
      <3> HIDE DEF m
      <3>3. ~Descends(values, id, m + 1)
        BY <3>1, <3>2, ShorterDescent
      <3> QED BY <3>1, <3>3
    <2>3. ASSUME NEW f \in 1 .. s, NEW i \in ChildIds(frames'[f])
          PROVE  ~Descends(values, i, MaxDepth + 2 - f)
      <3>1. CASE i \in ChildIds(frames[f])
        BY <1>1, <2>1, <3>1
      <3>2. CASE i \notin ChildIds(frames[f])
        <4>1. f = s /\ i = id
          BY <1>6, <2>3, <3>2
        <4> QED BY <2>2, <4>1
      <3> QED BY <3>1, <3>2
    <2>4. root' # 0 => ~Descends(values, root', MaxDepth + 2)
      <3>1. CASE s = 0
        <4>1. MaxDepth + 2 - s = MaxDepth + 2
          BY <2>1, <3>1
        <4> QED BY <1>5, <2>2, <3>1, <4>1
      <3>2. CASE s # 0
        BY <1>5, <2>1, <3>2
      <3> QED BY <3>1, <3>2
    <2>5. Len(frames') <= MaxDepth + 1
      BY <1>5, <2>1 DEF k
    <2> QED BY <1>5, <2>3, <2>4, <2>5 DEF Depths
  <1>11. Amounts'
    BY <1>5 DEF IInv, Amounts, MaxNodes
  <1> QED BY <1>6, <1>7, <1>8, <1>9, <1>10, <1>11 DEF IInv

-----------------------------------------------------------------------------
(* An aggregate that has just been opened holds nothing.                   *)
LEMMA OpenHolds ==
  ASSUME NEW n \in Nat, NEW k \in Nat, NEW below, NEW held, NEW held2, NEW r,
         HeldExactly(n, k, below, held, r),
         \A f \in 1 .. k : held2[f] = held[f], held2[k + 1] = {}
  PROVE  HeldExactly(n, k + 1, below, held2, r)
  <1> DEFINE last == k + 1
  <1>1. /\ \A f \in 1 .. last : f \in 1 .. k \/ f = last
        /\ 1 .. k \subseteq 1 .. last
    OBVIOUS
  <1>2. held2[last] = {}
    OBVIOUS
  <1> HIDE DEF last
  <1>3. \A id : \A f \in 1 .. last : id \in held2[f] => f \in 1 .. k /\ id \in held[f]
    BY <1>1, <1>2
  <1>4. \A id : \A f \in 1 .. k : id \in held[f] => f \in 1 .. last /\ id \in held2[f]
    BY <1>1
  <1>5. HeldExactly(n, last, below, held2, r)
    BY <1>3, <1>4 DEF HeldExactly
  <1> QED BY <1>5 DEF last

LEMMA InitInv == Init => IInv
  <1> SUFFICES ASSUME Init PROVE IInv
    OBVIOUS
  <1>1. /\ projection \in Projections /\ status = "open" /\ values = << >> /\ stringBytes = 0
        /\ frames = << >> /\ root = 0
    BY DEF Init
  <1>2. Len(values) = 0 /\ Len(frames) = 0 /\ ~\E v \in 1 .. 0 : TRUE
    BY <1>1
  <1>3. TypeOK
    BY <1>1 DEF TypeOK
  <1>4. MaxDepth \in Nat /\ MaxStringBytes \in Nat /\ MaxNodes \in Nat
    BY <1>3, Limits
  <1>5. ChildrenFirst /\ FramesFit /\ NewestHeld
    BY <1>1, <1>2 DEF ChildrenFirst, FramesFit, NewestHeld
  <1>6. OneHolder
    BY <1>1, <1>2 DEF OneHolder
  <1>7. Depths /\ Amounts
    BY <1>1, <1>2, <1>4 DEF Depths, Amounts
  <1> QED BY <1>3, <1>5, <1>6, <1>7 DEF IInv

(* Opening an aggregate.                                                   *)
LEMMA EnterKeeps ==
  ASSUME IInv, NEW kind \in Kinds, NEW count \in Nat, Enter(kind, count)
  PROVE  IInv'
  <1>1. status = "open"
    BY DEF Enter
  <1>2. CASE Refuse
    BY <1>1, <1>2, RefuseKeeps
  <1>3. CASE ~Refuse
    <2> DEFINE k == Len(frames)
               frame == Opened(kind, count)
    <2>1. /\ ~(k > MaxDepth) /\ EnterFits(kind, count) /\ frames' = Append(frames, frame)
          /\ UNCHANGED <<projection, status, values, stringBytes, root>>
      BY <1>3 DEF Enter
    <2>2. /\ frame \in Frame /\ frame.children = << >>
          /\ frame.kind = kind /\ frame.childCount = count
      BY DEF Opened, Frame
    <2> HIDE DEF frame
    <2>3. /\ frames' \in Seq(Frame) /\ k \in Nat /\ Len(frames') = k + 1
          /\ frames'[k + 1] = frame
          /\ \A f \in 1 .. k : frames'[f] = frames[f]
      BY <2>1, <2>2, AppendProperties, LenProperties DEF IInv, TypeOK
    <2> HIDE DEF k
    <2>4. /\ \A f \in 1 .. k + 1 : f \in 1 .. k \/ f = k + 1
          /\ k + 1 \in 1 .. k + 1 /\ 1 .. k \subseteq 1 .. k + 1
      BY <2>3
    <2>5. TypeOK'
      BY <2>1, <2>3 DEF IInv, TypeOK
    <2>6. ChildIds(frames'[k + 1]) = {} /\ \A f \in 1 .. k : ChildIds(frames'[f]) = ChildIds(frames[f])
      BY <2>2, <2>3 DEF ChildIds
    <2>7. ChildrenFirst'
      <3>1. \A f \in 1 .. k : ChildIds(frames[f]) \subseteq 1 .. Len(values)
        BY DEF IInv, ChildrenFirst, k
      <3>2. \A f \in 1 .. k + 1 : ChildIds(frames'[f]) \subseteq 1 .. Len(values)
        BY <2>4, <2>6, <3>1
      <3> QED BY <1>1, <2>1, <2>3, <3>2 DEF IInv, ChildrenFirst
    <2>8. FramesFit'
      <3>1. /\ kind # "union"
            /\ kind = "mapping" => count % 2 = 0
            /\ kind = "optional" => count <= 1
        BY <2>1 DEF EnterFits
      <3> QED BY <2>2, <2>3, <2>4, <3>1 DEF IInv, FramesFit, k
    <2>9. NewestHeld'
      <3>1. ASSUME NEW first \in Nat \ {0}, NoChildrenFrom(first)' PROVE NoChildrenFrom(first)
        <4>1. \A g \in first .. k + 1 : frames'[g].children = << >>
          BY <2>3, <3>1 DEF NoChildrenFrom
        <4> SUFFICES ASSUME NEW g \in first .. k PROVE frames[g].children = << >>
          BY DEF NoChildrenFrom, k
        <4>2. g \in first .. k + 1 /\ g \in 1 .. k
          BY <2>3
        <4> QED BY <2>3, <4>1, <4>2
      <3>2. ASSUME NEW f \in 1 .. k, frames'[f].children # << >>, NoChildrenFrom(f + 1)'
            PROVE  Top(frames'[f].children).id = Len(values)
        <4>1. f + 1 \in Nat \ {0}
          BY <2>3
        <4> QED BY <2>3, <3>1, <3>2, <4>1 DEF IInv, NewestHeld, k
      <3>3. (root # 0 /\ NoChildrenFrom(1)') => root = Len(values)
        BY <3>1 DEF IInv, NewestHeld
      <3>4. frames'[k + 1].children = << >>
        BY <2>2, <2>3
      <3> QED BY <2>1, <2>3, <2>4, <3>2, <3>3, <3>4 DEF NewestHeld
    <2>10. OneHolder'
      <3>1. Len(values) \in Nat /\ HeldExactly(Len(values), k, Belows, Helds, root) /\ EachOnce
        BY <1>1, FrameFacts, OneHolderNow DEF IInv, k
      <3>2. /\ \A f \in 1 .. k : Helds[f] = ChildIds(frames[f])
            /\ \A f \in 1 .. k + 1 : Helds'[f] = ChildIds(frames'[f])
            /\ Belows' = Belows
        BY <2>1, <2>3 DEF Helds, Belows, k
      <3> DEFINE n == Len(values)
                 below == Belows
                 held == Helds
                 held2 == Helds'
      <3>3. (\A f \in 1 .. k : held2[f] = held[f]) /\ held2[k + 1] = {}
        BY <2>4, <2>6, <3>2
      <3>4. n \in Nat /\ HeldExactly(n, k, below, held, root)
        BY <3>1
      <3> HIDE DEF n, below, held, held2
      <3>5. HeldExactly(n, k + 1, below, held2, root)
        BY <2>3, <3>3, <3>4, OpenHolds
      <3> USE DEF n, below, held, held2
      <3>6. HeldExactly(Len(values'), Len(frames'), Belows', Helds', root')
        BY <2>1, <2>3, <3>2, <3>5
      <3>7. EachOnce'
        <4>1. \A f \in 1 .. k + 1 : HoldsOnce(frames'[f].children)
          <5>1. \A f \in 1 .. k : HoldsOnce(frames[f].children)
            BY <3>1 DEF EachOnce, k
          <5>2. HoldsOnce(<< >>)
            BY DEF HoldsOnce
          <5> QED BY <2>2, <2>3, <2>4, <5>1, <5>2
        <4> QED BY <2>1, <2>3, <3>1, <4>1 DEF EachOnce
      <3> QED BY <2>1, <2>3, <3>1, <3>6, <3>7, OneHolderNext
    <2>11. Depths'
      <3>1. \A f \in 1 .. k + 1 : \A id \in ChildIds(frames'[f]) : ~Descends(values, id, MaxDepth + 2 - f)
        BY <2>4, <2>6 DEF IInv, Depths, k
      <3>2. k + 1 <= MaxDepth + 1
        BY <2>1, <2>3, Limits DEF IInv
      <3> QED BY <2>1, <2>3, <3>1, <3>2 DEF IInv, Depths
    <2>12. Amounts'
      BY <1>1, <2>1 DEF IInv, Amounts, MaxNodes
    <2> QED BY <2>5, <2>7, <2>8, <2>9, <2>10, <2>11, <2>12 DEF IInv
  <1> QED BY <1>2, <1>3

(* Announcing an edge.                                                     *)
LEMMA EdgeKeeps ==
  ASSUME IInv, NEW edge \in Edges, Edge(edge)
  PROVE  IInv'
  <1>1. status = "open"
    BY DEF Edge
  <1>2. CASE Refuse
    BY <1>1, <1>2, RefuseKeeps
  <1>3. CASE ~Refuse
    <2> DEFINE k == Len(frames)
               frame == [frames[k] EXCEPT !.pending = edge]
    <2>1. /\ frames # << >> /\ frames' = [frames EXCEPT ![k] = frame]
          /\ UNCHANGED <<projection, status, values, stringBytes, root>>
      BY <1>3 DEF Edge
    <2>2. /\ frames \in Seq(Frame) /\ k \in 1 .. Len(frames) /\ frames[k] \in Frame /\ k \in Nat
      <3>1. Len(frames) # 0
        BY <2>1, EmptySeq DEF IInv, TypeOK
      <3>2. k \in 1 .. Len(frames)
        BY <3>1, FrameFacts DEF IInv
      <3> QED BY <3>2, FrameFacts DEF IInv, TypeOK
    <2>3. /\ frame \in Frame /\ frame.children = frames[k].children
          /\ frame.kind = frames[k].kind /\ frame.childCount = frames[k].childCount
      BY <2>2 DEF Frame
    <2> HIDE DEF frame
    <2>4. /\ frames' \in Seq(Frame) /\ Len(frames') = Len(frames)
          /\ \A f \in 1 .. Len(frames) : frames'[f] = IF f = k THEN frame ELSE frames[f]
      BY <2>1, <2>2, <2>3, ExceptSeq
    <2>5. \A f \in 1 .. Len(frames) :
            /\ frames'[f].children = frames[f].children
            /\ frames'[f].kind = frames[f].kind /\ frames'[f].childCount = frames[f].childCount
      BY <2>3, <2>4
    <2>6. \A f \in 1 .. Len(frames) : ChildIds(frames'[f]) = ChildIds(frames[f])
      BY <2>5 DEF ChildIds
    <2> HIDE DEF k
    <2>7. TypeOK'
      BY <2>1, <2>4 DEF IInv, TypeOK
    <2>8. ChildrenFirst'
      BY <2>1, <2>4, <2>6 DEF IInv, ChildrenFirst
    <2>9. FramesFit'
      BY <2>4, <2>5 DEF IInv, FramesFit
    <2>10. NewestHeld'
      <3>1. ASSUME NEW first \in Nat \ {0}, NoChildrenFrom(first)' PROVE NoChildrenFrom(first)
        <4> SUFFICES ASSUME NEW g \in first .. Len(frames) PROVE frames[g].children = << >>
          BY DEF NoChildrenFrom
        <4>1. frames'[g].children = << >>
          BY <2>4, <3>1 DEF NoChildrenFrom
        <4>2. g \in 1 .. Len(frames)
          BY FrameFacts DEF IInv
        <4> QED BY <2>5, <4>1, <4>2
      <3>2. ASSUME NEW f \in 1 .. Len(frames), frames'[f].children # << >>, NoChildrenFrom(f + 1)'
            PROVE  Top(frames'[f].children).id = Len(values)
        <4>1. f + 1 \in Nat \ {0}
          BY FrameFacts DEF IInv
        <4> QED BY <2>5, <3>1, <3>2, <4>1 DEF IInv, NewestHeld
      <3>3. (root # 0 /\ NoChildrenFrom(1)') => root = Len(values)
        BY <3>1 DEF IInv, NewestHeld
      <3> QED BY <2>1, <2>4, <3>2, <3>3 DEF NewestHeld
    <2>11. OneHolder'
      <3>1. /\ Len(values) \in Nat /\ Len(frames) \in Nat
            /\ HeldExactly(Len(values), Len(frames), Belows, Helds, root) /\ EachOnce
        BY <1>1, FrameFacts, OneHolderNow DEF IInv
      <3>2. Belows' = Belows
        BY <2>1 DEF Belows
      <3>3. Helds' = Helds
        BY <2>4, <2>6 DEF Helds
      <3>4. EachOnce'
        BY <2>1, <2>4, <2>5, <3>1 DEF EachOnce
      <3>5. HeldExactly(Len(values'), Len(frames'), Belows', Helds', root')
        BY <2>1, <2>4, <3>1, <3>2, <3>3
      <3> QED BY <2>1, <2>4, <3>1, <3>4, <3>5, OneHolderNext
    <2>12. Depths'
      BY <2>1, <2>4, <2>6 DEF IInv, Depths
    <2>13. Amounts'
      BY <1>1, <2>1 DEF IInv, Amounts, MaxNodes
    <2> QED BY <2>7, <2>8, <2>9, <2>10, <2>11, <2>12, <2>13 DEF IInv
  <1> QED BY <1>2, <1>3

(* A node without items.                                                   *)
LEMMA ALeaf ==
  ASSUME NEW rank \in Nat
  PROVE  LET node == [rank |-> rank, items |-> << >>]
         IN  node \in Node /\ NamesOnce(node.items) /\ AllIds(node.items) = {}
  <1>1. << >> \in Seq(ItemType) /\ Len(<< >>) = 0
    OBVIOUS
  <1>2. NamesOnce(<< >>) /\ AllIds(<< >>) = {}
    BY <1>1 DEF NamesOnce, AllIds
  <1> QED BY <1>1, <1>2 DEF Node

(* A scalar.                                                               *)
LEMMA ScalarKeeps ==
  ASSUME IInv, NEW scalar \in Scalars, Scalar(scalar, 1)
  PROVE  IInv'
  <1>1. status = "open"
    BY DEF Scalar
  <1>2. CASE Refuse
    BY <1>1, <1>2, RefuseKeeps
  <1>3. CASE ~Refuse
    <2> DEFINE total == stringBytes + (IF scalar = "string" THEN 1 ELSE 0)
               node == [rank |-> Rank[scalar], items |-> << >>]
    <2>1. /\ scalar \notin {"long_integer", "unsupported"}
          /\ ~(scalar = "string" /\ total > MaxStringBytes)
          /\ PushAndAttach(frames, node, total)
      BY <1>3 DEF Scalar
    <2>2. Rank[scalar] \in Nat
      BY <2>1 DEF Scalars, Rank
    <2>3. node \in Node /\ NamesOnce(node.items) /\ AllIds(node.items) = {}
      BY <2>2, ALeaf
    <2>4. total \in 0 .. MaxStringBytes
      BY <2>1, Limits DEF IInv, TypeOK, Amounts
    <2>5. frames \in Seq(Frame) /\ Len(frames) \in Nat
      BY FrameFacts DEF IInv, TypeOK
    <2>6. Len(frames) <= Len(frames)
      BY <2>5
    <2> HIDE DEF total, node
    <2> QED BY <1>1, <1>3, <2>1, <2>3, <2>4, <2>5, <2>6, PushKeeps
  <1> QED BY <1>2, <1>3

(* Closing the innermost aggregate: what is left around it, and its        *)
(* children.                                                               *)
LEMMA ClosedFrame ==
  ASSUME IInv, status = "open", frames # << >>
  PROVE  LET frame == Top(frames)
             stack == Pop(frames)
         IN  /\ stack \in Seq(Frame) /\ Len(stack) \in Nat /\ Len(frames) = Len(stack) + 1
             /\ \A f \in 1 .. Len(stack) : stack[f] = frames[f]
             /\ frame = frames[Len(frames)] /\ frame \in Frame /\ frame.children \in Seq(Child)
             /\ ChildIds(frame) = {frame.children[c].id : c \in 1 .. Len(frame.children)}
             /\ HoldsOnce(frame.children)
             /\ frame.kind # "union"
             /\ frame.kind = "mapping"  => frame.childCount % 2 = 0
             /\ frame.kind = "optional" => frame.childCount <= 1
  <1> DEFINE k == Len(frames)
             frame == Top(frames)
             stack == Pop(frames)
  <1>1. /\ k \in Nat \ {0} /\ frame \in Frame /\ stack \in Seq(Frame) /\ Len(stack) = k - 1
        /\ \A i \in 1 .. k - 1 : stack[i] = frames[i]
    BY TopAndPop DEF IInv, TypeOK
  <1>2. frame = frames[k] /\ k \in 1 .. Len(frames)
    BY <1>1 DEF Top
  <1>3. EachOnce
    BY <1>1, FrameFacts, OneHolderNow DEF IInv
  <1>4. /\ HoldsOnce(frame.children)
        /\ frame.children \in Seq(Child)
        /\ frame.kind # "union"
        /\ frame.kind = "mapping"  => frame.childCount % 2 = 0
        /\ frame.kind = "optional" => frame.childCount <= 1
    BY <1>2, <1>3, FrameFacts DEF EachOnce, FramesFit, IInv
  <1> HIDE DEF frame, stack
  <1>5. ChildIds(frame) = {frame.children[c].id : c \in 1 .. Len(frame.children)}
    BY DEF ChildIds
  <1>6. Len(stack) \in Nat /\ k = Len(stack) + 1
    BY <1>1
  <1>7. \A f \in 1 .. Len(stack) : stack[f] = frames[f]
    BY <1>1
  <1> QED BY <1>1, <1>2, <1>4, <1>5, <1>6, <1>7 DEF frame, stack

LEMMA AggregateKeeps ==
  ASSUME IInv, status = "open", frames # << >>, ~Refuse,
         Top(frames).kind # "optional", Len(Top(frames).children) = Top(frames).childCount,
         FinishAggregate(Pop(frames), Top(frames))
  PROVE  IInv'
  <1> DEFINE frame == Top(frames)
             stack == Pop(frames)
             kind == frame.kind
             children == frame.children
             items == ItemsInOrder(kind, children)
             node == [rank |-> Rank[kind], items |-> items]
             total == stringBytes + (IF kind = "record" THEN NameBytes * Len(children) ELSE 0)
  <1>1. /\ stack \in Seq(Frame) /\ Len(stack) \in Nat /\ Len(frames) = Len(stack) + 1
        /\ \A f \in 1 .. Len(stack) : stack[f] = frames[f]
        /\ frame = frames[Len(frames)] /\ frame \in Frame /\ children \in Seq(Child)
        /\ ChildIds(frame) = {children[c].id : c \in 1 .. Len(children)}
        /\ HoldsOnce(children)
        /\ kind # "union"
        /\ kind = "mapping" => frame.childCount % 2 = 0
    BY ClosedFrame
  <1>2. kind \in Kinds /\ kind # "union" /\ kind # "optional"
    BY <1>1 DEF Frame
  <1>3. /\ EdgesFit(kind, children)
        /\ ~(kind = "record" /\ Len(children) > 0 /\ total > MaxStringBytes)
        /\ PushAndAttach(stack, node, total)
    BY DEF FinishAggregate
  <1>4. /\ items \in Seq(ItemType)
        /\ AllIds(items) = {children[c].id : c \in 1 .. Len(children)}
        /\ NamesOnce(items)
    BY <1>1, <1>2, <1>3, OrderedItemsHoldChildren
  <1>5. Rank[kind] \in Nat
    BY <1>2 DEF Kinds, Rank
  <1>6. total \in 0 .. MaxStringBytes
    <2>1. Len(children) \in Nat /\ NameBytes \in Nat /\ MaxStringBytes \in Nat
          /\ stringBytes \in 0 .. MaxStringBytes
      BY <1>1, ChildFacts, Limits DEF IInv, Amounts, TypeOK
    <2> DEFINE names == NameBytes * Len(children)
               isRecord == kind = "record"
    <2>2. names \in Nat /\ (Len(children) = 0 => names = 0)
      BY <2>1
    <2>3. total = IF isRecord THEN stringBytes + names ELSE stringBytes
      BY <2>1
    <2>4. isRecord /\ Len(children) > 0 => ~(total > MaxStringBytes)
      BY <1>3
    <2> HIDE DEF total, names, isRecord
    <2> QED BY <2>1, <2>2, <2>3, <2>4
  <1> HIDE DEF items, total
  <1>7. node \in Node /\ node.items = items
    BY <1>4, <1>5 DEF Node
  <1>8. NamesOnce(node.items) /\ AllIds(node.items) = ChildIds(frames[Len(frames)])
    BY <1>1, <1>4, <1>7
  <1>9. Len(stack) <= Len(frames)
    BY <1>1
  <1> HIDE DEF node, stack, frame
  <1> QED BY <1>1, <1>3, <1>6, <1>7, <1>8, <1>9, PushKeeps

LEMMA OptionalKeeps ==
  ASSUME IInv, status = "open", frames # << >>, ~Refuse,
         Top(frames).kind = "optional", Len(Top(frames).children) = Top(frames).childCount,
         FinishOptional(Pop(frames), Top(frames))
  PROVE  IInv'
  <1> DEFINE frame == Top(frames)
             stack == Pop(frames)
             children == frame.children
             s == Len(stack)
  <1>1. /\ stack \in Seq(Frame) /\ s \in Nat /\ Len(frames) = s + 1
        /\ \A f \in 1 .. s : stack[f] = frames[f]
        /\ frame = frames[Len(frames)] /\ frame \in Frame /\ children \in Seq(Child)
        /\ ChildIds(frame) = {children[c].id : c \in 1 .. Len(children)}
        /\ frame.childCount <= 1
    BY ClosedFrame
  <1>2. CASE children = << >>
    <2> DEFINE node == [rank |-> Rank["null"], items |-> << >>]
    <2>1. PushAndAttach(stack, node, stringBytes)
      BY <1>2 DEF FinishOptional
    <2>2. Rank["null"] \in Nat
      BY DEF Rank
    <2>3. node \in Node /\ NamesOnce(node.items) /\ AllIds(node.items) = {}
      BY <2>2, ALeaf
    <2>4. ChildIds(frames[Len(frames)]) = {}
      BY <1>1, <1>2
    <2>5. stringBytes \in 0 .. MaxStringBytes /\ Len(stack) <= Len(frames)
      BY <1>1, Limits DEF IInv, TypeOK, Amounts
    <2> HIDE DEF node, stack
    <2> QED BY <1>1, <2>1, <2>3, <2>4, <2>5, PushKeeps
  <1>3. CASE children # << >>
    <2> DEFINE id == children[1].id
    <2>1. Attach(stack, id, values, stringBytes)
      BY <1>3 DEF FinishOptional
    <2>2. Len(children) = 1
      <3>1. Len(children) # 0 /\ Len(children) \in Nat
        BY <1>1, <1>3, EmptySeq, LenProperties
      <3>2. Len(children) <= 1
        BY <1>1
      <3> QED BY <3>1, <3>2
    <2>3. ChildIds(frames[s + 1]) = {id}
      <3>1. \A c : c \in 1 .. Len(children) <=> c = 1
        BY <2>2
      <3>2. ChildIds(frames[s + 1]) = {children[c].id : c \in 1 .. Len(children)}
        BY <1>1
      <3> QED BY <3>1, <3>2
    <2>4. id = Len(values)
      <3>1. Len(frames) \in 1 .. Len(frames) /\ frames[Len(frames)].children = children
        BY <1>1
      <3>2. NoChildrenFrom(Len(frames) + 1)
        BY <1>1 DEF NoChildrenFrom
      <3>3. Top(children).id = Len(values)
        BY <1>3, <3>1, <3>2 DEF IInv, NewestHeld
      <3> QED BY <2>2, <3>3 DEF Top
    <2> HIDE DEF id
    <2>5. Len(frames) = s + 1 /\ s \in Nat
      BY <1>1
    <2> DEFINE around == s
               outer == stack
    <2>6. /\ around \in Nat /\ Len(frames) = around + 1 /\ outer \in Seq(Frame)
          /\ Len(outer) = around /\ \A f \in 1 .. around : outer[f] = frames[f]
          /\ ChildIds(frames[around + 1]) = {id} /\ Attach(outer, id, values, stringBytes)
      BY <1>1, <2>1, <2>3
    <2> HIDE DEF around, outer
    <2> QED BY <2>4, <2>6, MoveKeeps
  <1> QED BY <1>2, <1>3

(* Closing an aggregate.                                                   *)
LEMMA ExitKeeps ==
  ASSUME IInv, NEW kind \in Kinds, Exit(kind)
  PROVE  IInv'
  <1>1. status = "open"
    BY DEF Exit
  <1>2. CASE Refuse
    BY <1>1, <1>2, RefuseKeeps
  <1>3. CASE ~Refuse
    <2>1. /\ frames # << >> /\ Top(frames).kind = kind
          /\ Len(Top(frames).children) = Top(frames).childCount
          /\ IF kind = "optional" THEN FinishOptional(Pop(frames), Top(frames))
             ELSE FinishAggregate(Pop(frames), Top(frames))
      BY <1>3 DEF Exit
    <2>2. CASE kind = "optional"
      BY <1>1, <1>3, <2>1, <2>2, OptionalKeeps
    <2>3. CASE kind # "optional"
      BY <1>1, <1>3, <2>1, <2>3, AggregateKeeps
    <2> QED BY <2>2, <2>3
  <1> QED BY <1>2, <1>3

(* What only changes the status to the one of an end that is due.          *)
LEMMA SameArenaKeeps ==
  ASSUME IInv, UNCHANGED <<projection, values, stringBytes, frames, root>>,
         \/ status' = status
         \/ status = "open" /\ status' = "finished" /\ frames = << >> /\ root # 0
  PROVE  IInv'
  <1>1. /\ projection' = projection /\ values' = values /\ stringBytes' = stringBytes
        /\ frames' = frames /\ root' = root
    OBVIOUS
  <1>2. TypeOK'
    BY <1>1 DEF IInv, TypeOK
  <1>3. ChildrenFirst'
    <2>1. CASE status' = status
      BY <1>1, <2>1 DEF IInv, ChildrenFirst
    <2>2. CASE frames = << >> /\ root # 0
      <3>1. Len(frames) = 0 /\ Len(values) \in Nat
        BY <2>2, FrameFacts DEF IInv
      <3>2. root = Len(values)
        BY <2>2, <3>1 DEF IInv, NewestHeld, NoChildrenFrom
      <3>3. values # << >>
        BY <2>2, <3>2
      <3> QED BY <1>1, <3>2, <3>3 DEF IInv, ChildrenFirst
    <2> QED BY <2>1, <2>2
  <1>4. FramesFit' /\ NewestHeld'
    BY <1>1 DEF IInv, FramesFit, NewestHeld, NoChildrenFrom
  <1>5. OneHolder'
    BY <1>1 DEF IInv, OneHolder, Holders, HeldBy
  <1>6. Depths' /\ Amounts'
    BY <1>1 DEF IInv, Depths, Amounts, MaxNodes
  <1> QED BY <1>2, <1>3, <1>4, <1>5, <1>6 DEF IInv

(* Every step of the builder keeps the invariant.                          *)
LEMMA NextInv == IInv /\ [Next]_vars => IInv'
  <1> SUFFICES ASSUME IInv, [Next]_vars PROVE IInv'
    OBVIOUS
  <1>1. /\ projection.kinds \subseteq Kinds /\ projection.edges \subseteq Edges
        /\ projection.scalars \subseteq Scalars /\ projection.maxCount \in Nat
    BY ProjectionsAssumption, LimitsAssumption DEF IInv, TypeOK
  <1>2. ASSUME NEW kind \in projection.kinds, NEW count \in 0 .. projection.maxCount, Enter(kind, count)
        PROVE  IInv'
    BY <1>1, <1>2, EnterKeeps
  <1>3. ASSUME NEW edge \in projection.edges, Edge(edge) PROVE IInv'
    BY <1>1, <1>3, EdgeKeeps
  <1>4. ASSUME NEW scalar \in projection.scalars, Scalar(scalar, 1) PROVE IInv'
    BY <1>1, <1>4, ScalarKeeps
  <1>5. ASSUME NEW kind \in projection.kinds, Exit(kind) PROVE IInv'
    BY <1>1, <1>5, ExitKeeps
  <1>6. CASE Finish
    <2>1. CASE Refuse
      BY <1>6, <2>1, RefuseKeeps DEF Finish
    <2>2. CASE ~Refuse
      BY <1>6, <2>2, SameArenaKeeps DEF Finish
    <2> QED BY <2>1, <2>2
  <1>7. CASE UNCHANGED vars
    BY <1>7, SameArenaKeeps DEF vars
  <1> QED BY <1>2, <1>3, <1>4, <1>5, <1>6, <1>7 DEF Next

(* The invariant holds whatever events come, in whatever order.            *)
THEOREM BuilderInvariant == Spec => []IInv
  BY InitInv, NextInv, PTL DEF Spec

(* Ids point backwards only: children come before the node that holds      *)
(* them, and the root of a finished arena is its last node, so nothing in  *)
(* an arena leads back to where one came from.                             *)
THEOREM ArenaIsOrdered == Spec => []ChildrenFirst
  <1>1. IInv => ChildrenFirst
    BY DEF IInv
  <1> QED BY <1>1, BuilderInvariant, PTL

(* No node is lost and none is shared: each is held exactly once, by its   *)
(* parent, by an open aggregate or as the root.                            *)
THEOREM EachNodeHasOneHolder == Spec => []OneHolder
  <1>1. IInv => OneHolder
    BY DEF IInv
  <1> QED BY <1>1, BuilderInvariant, PTL

(* An arena that is accepted is within the limits on nodes and text, and   *)
(* no deeper than one level more than max_depth.                           *)
THEOREM AcceptedIsWithinLimits == Spec => []WithinLimits
  <1>1. IInv => WithinLimits
    BY DEF IInv, WithinLimits, Depths, Amounts
  <1> QED BY <1>1, BuilderInvariant, PTL

-----------------------------------------------------------------------------
(* A set of numbers that has 0 and, with each number, the next has them    *)
(* all.                                                                    *)
LEMMA AllNaturals ==
  ASSUME NEW S \in SUBSET Nat, 0 \in S, \A n \in S : n + 1 \in S
  PROVE  S = Nat
  <1> SUFFICES ASSUME Nat \ S # {} PROVE FALSE
    OBVIOUS
  <1>1. PICK n \in Nat \ S : \A m \in Nat \ S : n <= m
    BY LeastMember
  <1>2. n - 1 \in Nat /\ n - 1 \in S
    BY <1>1
  <1> QED BY <1>1, <1>2

(* Relations that order the members of a set up to equivalence: what is    *)
(* neither less nor greater is the same for all others.                    *)
Orders(R, X) ==
  /\ \A x, y \in X : <<x, y>> \in R => <<y, x>> \notin R
  /\ \A x, y, z \in X : <<x, z>> \in R => <<x, y>> \in R \/ <<y, z>> \in R

(* Lexicographic, for a relation.                                          *)
Before(s, t, R) ==
  \E k \in 1 .. Len(s) + 1 :
    /\ k <= Len(t)
    /\ \A j \in 1 .. k - 1 : <<s[j], t[j]>> \notin R /\ <<t[j], s[j]>> \notin R
    /\ k <= Len(s) => <<s[k], t[k]>> \in R

LEMMA BeforeIsAsymmetric ==
  ASSUME NEW R, NEW X, Orders(R, X), NEW s \in Seq(X), NEW t \in Seq(X), Before(s, t, R)
  PROVE  ~Before(t, s, R)
  <1> SUFFICES ASSUME Before(t, s, R) PROVE FALSE
    OBVIOUS
  <1>1. PICK k \in 1 .. Len(s) + 1 :
          /\ k <= Len(t)
          /\ \A j \in 1 .. k - 1 : <<s[j], t[j]>> \notin R /\ <<t[j], s[j]>> \notin R
          /\ k <= Len(s) => <<s[k], t[k]>> \in R
    BY DEF Before
  <1>2. PICK l \in 1 .. Len(t) + 1 :
          /\ l <= Len(s)
          /\ \A j \in 1 .. l - 1 : <<t[j], s[j]>> \notin R /\ <<s[j], t[j]>> \notin R
          /\ l <= Len(t) => <<t[l], s[l]>> \in R
    BY DEF Before
  <1>3. Len(s) \in Nat /\ Len(t) \in Nat
    BY LenProperties
  <1>4. CASE k < l
    <2>1. k \in 1 .. l - 1 /\ k <= Len(s)
      BY <1>2, <1>3, <1>4
    <2> QED BY <1>1, <1>2, <2>1
  <1>5. CASE l < k
    <2>1. l \in 1 .. k - 1 /\ l <= Len(t)
      BY <1>1, <1>3, <1>5
    <2> QED BY <1>1, <1>2, <2>1
  <1>6. CASE k = l
    <2>1. k \in 1 .. Len(s) /\ k \in 1 .. Len(t)
      BY <1>1, <1>2, <1>3, <1>6
    <2>2. s[k] \in X /\ t[k] \in X
      BY <2>1, ElementOfSeq
    <2> QED BY <1>1, <1>2, <1>6, <2>1, <2>2 DEF Orders
  <1> QED BY <1>3, <1>4, <1>5, <1>6

(* What is between two sequences is behind the one or before the other.    *)
LEMMA BeforeIsDivided ==
  ASSUME NEW R, NEW X, Orders(R, X), NEW s \in Seq(X), NEW t \in Seq(X), NEW u \in Seq(X),
         Before(s, u, R)
  PROVE  Before(s, t, R) \/ Before(t, u, R)
  <1>1. PICK k \in 1 .. Len(s) + 1 :
          /\ k <= Len(u)
          /\ \A j \in 1 .. k - 1 : <<s[j], u[j]>> \notin R /\ <<u[j], s[j]>> \notin R
          /\ k <= Len(s) => <<s[k], u[k]>> \in R
    BY DEF Before
  <1>2. Len(s) \in Nat /\ Len(t) \in Nat /\ Len(u) \in Nat /\ k \in Nat
    BY LenProperties
  <1>3. /\ \A j \in 1 .. Len(s) : s[j] \in X
        /\ \A j \in 1 .. Len(t) : t[j] \in X
        /\ \A j \in 1 .. Len(u) : u[j] \in X
    BY ElementOfSeq
  <1> DEFINE Same(j) == <<s[j], t[j]>> \notin R /\ <<t[j], s[j]>> \notin R
             Parting == {i \in 1 .. k - 1 : Len(t) < i \/ ~Same(i)}
  <1>4. ASSUME NEW i \in 1 .. k - 1, i <= Len(t), Same(i)
        PROVE  <<t[i], u[i]>> \notin R /\ <<u[i], t[i]>> \notin R
    <2>1. i \in 1 .. Len(s) /\ i \in 1 .. Len(t) /\ i \in 1 .. Len(u)
      BY <1>1, <1>2, <1>4
    <2>2. s[i] \in X /\ t[i] \in X /\ u[i] \in X
      BY <1>3, <2>1
    <2>3. <<s[i], u[i]>> \notin R /\ <<u[i], s[i]>> \notin R
      BY <1>1
    <2> QED BY <1>4, <2>2, <2>3 DEF Orders
  <1>5. CASE Parting = {}
    <2>1. \A i \in 1 .. k - 1 : i <= Len(t) /\ Same(i)
      BY <1>2, <1>5
    <2> HIDE DEF Same, Parting
    <2>2. \A i \in 1 .. k - 1 : <<t[i], u[i]>> \notin R /\ <<u[i], t[i]>> \notin R
      BY <1>4, <2>1
    <2>3. k - 1 <= Len(t)
      <3>1. CASE k = 1  BY <1>2, <3>1
      <3>2. CASE k # 1
        <4>1. k - 1 \in 1 .. k - 1
          BY <1>2, <3>2
        <4> QED BY <2>1, <4>1
      <3> QED BY <3>1, <3>2
    <2>4. CASE Len(t) < k
      <3>1. k \in 1 .. Len(t) + 1 /\ ~(k <= Len(t))
        BY <1>2, <2>3, <2>4
      <3> QED BY <1>1, <2>2, <3>1 DEF Before
    <2>5. CASE k <= Len(t) /\ Len(s) < k
      <3>1. ~(k <= Len(s))
        BY <1>2, <2>5
      <3>2. Before(s, t, R)
        BY <2>1, <2>5, <3>1 DEF Before, Same
      <3> QED BY <3>2
    <2>6. CASE k <= Len(t) /\ k <= Len(s)
      <3>1. k \in 1 .. Len(s) /\ k \in 1 .. Len(t) /\ k \in 1 .. Len(u) /\ k \in 1 .. Len(t) + 1
        BY <1>1, <1>2, <2>6
      <3>2. s[k] \in X /\ t[k] \in X /\ u[k] \in X
        BY <1>3, <3>1
      <3>3. <<s[k], t[k]>> \in R \/ <<t[k], u[k]>> \in R
        BY <1>1, <2>6, <3>2 DEF Orders
      <3>4. <<s[k], t[k]>> \in R => Before(s, t, R)
        BY <2>1, <2>6 DEF Before, Same
      <3>5. <<t[k], u[k]>> \in R => Before(t, u, R)
        BY <1>1, <2>2, <3>1 DEF Before
      <3> QED BY <3>3, <3>4, <3>5
    <2> QED BY <1>2, <2>4, <2>5, <2>6
  <1>6. CASE Parting # {}
    <2>1. PICK i \in Parting : \A j \in Parting : i <= j
      <3>1. Parting \in SUBSET Nat
        OBVIOUS
      <3> HIDE DEF Parting
      <3> QED BY <1>6, <3>1, LeastMember
    <2>2. i \in 1 .. k - 1 /\ i \in Nat /\ (Len(t) < i \/ ~Same(i))
      OBVIOUS
    <2>3. \A j \in 1 .. i - 1 : j \in 1 .. k - 1 /\ j <= Len(t) /\ Same(j)
      BY <1>2, <2>1, <2>2
    <2> HIDE DEF Same, Parting
    <2>4. \A j \in 1 .. i - 1 : <<t[j], u[j]>> \notin R /\ <<u[j], t[j]>> \notin R
      BY <1>4, <2>3
    <2>5. i \in 1 .. Len(s) /\ i \in 1 .. Len(u) /\ i \in 1 .. Len(s) + 1
      BY <1>1, <1>2, <2>2
    <2>6. CASE Len(t) < i
      <3>1. i - 1 <= Len(t)
        <4>1. CASE i = 1  BY <1>2, <4>1
        <4>2. CASE i # 1
          <5>1. i - 1 \in 1 .. i - 1
            BY <2>2, <4>2
          <5> QED BY <2>3, <5>1
        <4> QED BY <4>1, <4>2
      <3>2. i \in 1 .. Len(t) + 1 /\ i <= Len(u) /\ ~(i <= Len(t))
        BY <1>2, <2>2, <2>5, <2>6, <3>1
      <3> QED BY <2>4, <3>2 DEF Before
    <2>7. CASE i <= Len(t) /\ <<s[i], t[i]>> \in R
      BY <2>3, <2>5, <2>7 DEF Before, Same
    <2>8. CASE i <= Len(t) /\ <<t[i], s[i]>> \in R
      <3>1. i \in 1 .. Len(t) /\ i \in 1 .. Len(t) + 1 /\ i <= Len(u)
        BY <1>2, <2>2, <2>5, <2>8
      <3>2. s[i] \in X /\ t[i] \in X /\ u[i] \in X
        BY <1>3, <2>5, <3>1
      <3>3. <<u[i], s[i]>> \notin R
        BY <1>1, <2>2
      <3>4. <<t[i], u[i]>> \in R
        BY <2>8, <3>2, <3>3 DEF Orders
      <3> QED BY <2>4, <3>1, <3>4 DEF Before
    <2> QED BY <1>2, <2>2, <2>6, <2>7, <2>8 DEF Same
  <1> QED BY <1>5, <1>6

(* So sequences are ordered as their elements are.                         *)
Sequenced(R, X) == {p \in Seq(X) \X Seq(X) : Before(p[1], p[2], R)}

LEMMA SequencesOrdered ==
  ASSUME NEW R, NEW X, Orders(R, X)
  PROVE  Orders(Sequenced(R, X), Seq(X))
  <1>1. ASSUME NEW s \in Seq(X), NEW t \in Seq(X)
        PROVE  <<s, t>> \in Sequenced(R, X) <=> Before(s, t, R)
    BY DEF Sequenced
  <1>2. \A s, t \in Seq(X) : Before(s, t, R) => ~Before(t, s, R)
    BY BeforeIsAsymmetric
  <1>3. \A s, t, u \in Seq(X) : Before(s, u, R) => Before(s, t, R) \/ Before(t, u, R)
    BY BeforeIsDivided
  <1> QED BY <1>1, <1>2, <1>3 DEF Orders

-----------------------------------------------------------------------------
(* What is ordered can be sorted: one more element goes before the first   *)
(* one that is greater.                                                    *)
Sorts(p, n, items, R) ==
  /\ p \in [1 .. n -> 1 .. n]
  /\ \A i, j \in 1 .. n : p[i] = p[j] => i = j
  /\ \A i, j \in 1 .. n : i < j => <<items[p[j]], items[p[i]]>> \notin R

LEMMA OneMoreSorted ==
  ASSUME NEW R, NEW X, Orders(R, X), NEW items, NEW n \in Nat,
         \A i \in 1 .. n + 1 : items[i] \in X, NEW p, Sorts(p, n, items, R)
  PROVE  \E r : Sorts(r, n + 1, items, R)
  <1> DEFINE x == items[n + 1]
             Q == {i \in 1 .. n + 1 : i = n + 1 \/ <<x, items[p[i]]>> \in R}
  <1>1. PICK q \in Q : \A i \in Q : q <= i
    <2>1. Q \in SUBSET Nat /\ n + 1 \in Q
      OBVIOUS
    <2> HIDE DEF Q
    <2> QED BY <2>1, LeastMember
  <1>2. /\ q \in 1 .. n + 1 /\ (q = n + 1 \/ <<x, items[p[q]]>> \in R)
        /\ \A i \in 1 .. q - 1 : <<x, items[p[i]]>> \notin R
    BY <1>1
  <1>3. /\ p \in [1 .. n -> 1 .. n]
        /\ \A i, j \in 1 .. n : p[i] = p[j] => i = j
        /\ \A i, j \in 1 .. n : i < j => <<items[p[j]], items[p[i]]>> \notin R
    BY DEF Sorts
  <1>4. x \in X /\ \A i \in 1 .. n : items[p[i]] \in X /\ p[i] \in 1 .. n
    BY <1>3
  <1> HIDE DEF x, Q
  <1> DEFINE r == [i \in 1 .. n + 1 |-> IF i < q THEN p[i] ELSE IF i = q THEN n + 1 ELSE p[i - 1]]
  <1>5. /\ \A i \in 1 .. n + 1 : i < q => i \in 1 .. n /\ r[i] = p[i]
        /\ r[q] = n + 1
        /\ \A i \in 1 .. n + 1 : q < i => i - 1 \in 1 .. n /\ r[i] = p[i - 1]
    BY <1>2
  <1>6. r \in [1 .. n + 1 -> 1 .. n + 1]
    <2>1. \A i \in 1 .. n + 1 : r[i] \in 1 .. n + 1
      <3> TAKE i \in 1 .. n + 1
      <3> HIDE DEF r
      <3>1. i < q \/ i = q \/ q < i
        BY <1>2
      <3> QED BY <1>4, <1>5, <3>1
    <2>2. r = [i \in 1 .. n + 1 |-> r[i]]
      OBVIOUS
    <2> HIDE DEF r
    <2> QED BY <2>1, <2>2
  <1> HIDE DEF r
  <1>7. ASSUME NEW i \in 1 .. n + 1, NEW j \in 1 .. n + 1, r[i] = r[j] PROVE i = j
    <2>1. (i < q \/ i = q \/ q < i) /\ (j < q \/ j = q \/ q < j)
      BY <1>2
    <2>2. \A k \in 1 .. n : p[k] # n + 1
      BY <1>4
    <2>3. CASE i = q \/ j = q
      BY <1>5, <1>7, <2>1, <2>2, <2>3
    <2>4. CASE i < q /\ j < q
      BY <1>3, <1>5, <1>7, <2>4
    <2>5. CASE i < q /\ q < j
      <3>1. i = j - 1
        BY <1>3, <1>5, <1>7, <2>5
      <3> QED BY <1>2, <2>5, <3>1
    <2>6. CASE q < i /\ j < q
      <3>1. i - 1 = j
        BY <1>3, <1>5, <1>7, <2>6
      <3> QED BY <1>2, <2>6, <3>1
    <2>7. CASE q < i /\ q < j
      <3>1. i - 1 = j - 1
        BY <1>3, <1>5, <1>7, <2>7
      <3> QED BY <3>1
    <2> QED BY <2>1, <2>3, <2>4, <2>5, <2>6, <2>7
  <1>8. ASSUME NEW i \in 1 .. n + 1, NEW j \in 1 .. n + 1, i < j
        PROVE  <<items[r[j]], items[r[i]]>> \notin R
    <2>1. (i < q \/ i = q \/ q < i) /\ (j < q \/ j = q \/ q < j)
      BY <1>2
    <2>2. CASE j < q
      <3>1. i < q
        BY <1>2, <1>8, <2>2
      <3>2. i \in 1 .. n /\ j \in 1 .. n /\ r[i] = p[i] /\ r[j] = p[j]
        BY <1>5, <2>2, <3>1
      <3> QED BY <1>3, <1>8, <3>2
    <2>3. CASE j = q
      <3>1. i \in 1 .. q - 1 /\ r[i] = p[i] /\ items[r[j]] = x
        BY <1>2, <1>5, <1>8, <2>3 DEF x
      <3> QED BY <1>2, <3>1
    <2>4. CASE i < q /\ q < j
      <3>1. i \in 1 .. n /\ j - 1 \in 1 .. n /\ i < j - 1 /\ r[i] = p[i] /\ r[j] = p[j - 1]
        BY <1>2, <1>5, <2>4
      <3> QED BY <1>3, <3>1
    <2>5. CASE i = q
      <3> DEFINE y == items[p[j - 1]]
                 z == items[p[q]]
      <3>1. /\ j - 1 \in 1 .. n /\ q \in 1 .. n /\ r[j] = p[j - 1] /\ items[r[i]] = x
            /\ q = j - 1 \/ q < j - 1
        BY <1>2, <1>5, <1>8, <2>5 DEF x
      <3>2. <<x, z>> \in R
        BY <1>2, <3>1
      <3>3. y \in X /\ z \in X /\ x \in X
        BY <1>4, <3>1
      <3>4. <<y, z>> \notin R
        <4>1. CASE q = j - 1
          BY <3>3, <4>1 DEF Orders
        <4>2. CASE q < j - 1
          BY <1>3, <3>1, <4>2
        <4> QED BY <3>1, <4>1, <4>2
      <3>5. items[r[j]] = y
        BY <3>1
      <3> HIDE DEF y, z
      <3>6. <<y, x>> \notin R
        BY <3>2, <3>3, <3>4 DEF Orders
      <3> QED BY <3>1, <3>5, <3>6
    <2>6. CASE q < i
      <3>1. i - 1 \in 1 .. n /\ j - 1 \in 1 .. n /\ i - 1 < j - 1 /\ r[i] = p[i - 1] /\ r[j] = p[j - 1]
        BY <1>2, <1>5, <1>8, <2>6
      <3> QED BY <1>3, <3>1
    <2> QED BY <1>2, <1>8, <2>1, <2>2, <2>3, <2>4, <2>5, <2>6
  <1> QED BY <1>6, <1>7, <1>8 DEF Sorts

LEMMA SortingExists ==
  ASSUME NEW R, NEW X, Orders(R, X), NEW items \in Seq(X)
  PROVE  \E p : Sorts(p, Len(items), items, R)
  <1> DEFINE S == {n \in Nat : n <= Len(items) => \E p : Sorts(p, n, items, R)}
  <1>1. Len(items) \in Nat /\ \A i \in 1 .. Len(items) : items[i] \in X
    BY LenProperties, ElementOfSeq
  <1>2. 0 \in S
    <2> DEFINE none == [i \in 1 .. 0 |-> i]
    <2>1. Sorts(none, 0, items, R)
      BY DEF Sorts
    <2> QED BY <2>1
  <1>3. ASSUME NEW n \in S PROVE n + 1 \in S
    <2> SUFFICES ASSUME n + 1 <= Len(items) PROVE \E p : Sorts(p, n + 1, items, R)
      OBVIOUS
    <2>1. n \in Nat /\ n <= Len(items) /\ \A i \in 1 .. n + 1 : i \in 1 .. Len(items)
      BY <1>1
    <2>2. PICK p : Sorts(p, n, items, R)
      BY <2>1
    <2>3. \A i \in 1 .. n + 1 : items[i] \in X
      BY <1>1, <2>1
    <2> HIDE DEF S
    <2> QED BY <2>1, <2>2, <2>3, OneMoreSorted
  <1>4. S = Nat
    <2> HIDE DEF S
    <2>1. S \in SUBSET Nat
      BY DEF S
    <2> QED BY <1>2, <1>3, <2>1, AllNaturals
  <1> QED BY <1>1, <1>4

-----------------------------------------------------------------------------
(* Items and nodes by the order of the ids in them.                        *)
ItemLess(a, b, R) == a.name < b.name \/ (a.name = b.name /\ Before(a.ids, b.ids, R))

Itemized(R) == {p \in ItemType \X ItemType : ItemLess(p[1], p[2], R)}

NodeLess(x, y, R) == x.rank < y.rank \/ (x.rank = y.rank /\ Before(x.items, y.items, Itemized(R)))

(* Items and nodes that name ids up to k.                                  *)
ItemsUpTo(k) == {item \in ItemType : item.ids \in Seq(1 .. k)}

NodesUpTo(k) == {x \in Node : x.items \in Seq(ItemsUpTo(k))}

LEMMA ItemsOrdered ==
  ASSUME NEW R, NEW k \in Nat, Orders(R, 1 .. k)
  PROVE  Orders(Itemized(R), ItemsUpTo(k))
  <1>1. ASSUME NEW a \in ItemsUpTo(k), NEW b \in ItemsUpTo(k)
        PROVE  /\ <<a, b>> \in Itemized(R) <=> ItemLess(a, b, R)
               /\ a.name \in Nat /\ a.ids \in Seq(1 .. k)
    BY DEF ItemsUpTo, Itemized, ItemType
  <1> DEFINE X == 1 .. k
  <1>2. \A s, t \in Seq(X) : Before(s, t, R) => ~Before(t, s, R)
    <2> HIDE DEF X
    <2> QED BY BeforeIsAsymmetric DEF X
  <1>3. \A s, t, u \in Seq(X) : Before(s, u, R) => Before(s, t, R) \/ Before(t, u, R)
    <2> HIDE DEF X
    <2> QED BY BeforeIsDivided DEF X
  <1>4. ASSUME NEW a \in ItemsUpTo(k), NEW b \in ItemsUpTo(k), ItemLess(a, b, R)
        PROVE  ~ItemLess(b, a, R)
    <2>1. a.name \in Nat /\ b.name \in Nat /\ a.ids \in Seq(X) /\ b.ids \in Seq(X)
      BY <1>1
    <2> HIDE DEF X
    <2>2. Before(a.ids, b.ids, R) => ~Before(b.ids, a.ids, R)
      BY <1>2, <2>1
    <2> QED BY <1>4, <2>1, <2>2 DEF ItemLess
  <1>5. ASSUME NEW a \in ItemsUpTo(k), NEW b \in ItemsUpTo(k), NEW c \in ItemsUpTo(k),
               ItemLess(a, c, R)
        PROVE  ItemLess(a, b, R) \/ ItemLess(b, c, R)
    <2>1. /\ a.name \in Nat /\ b.name \in Nat /\ c.name \in Nat
          /\ a.ids \in Seq(X) /\ b.ids \in Seq(X) /\ c.ids \in Seq(X)
      BY <1>1
    <2> HIDE DEF X
    <2>2. Before(a.ids, c.ids, R) => Before(a.ids, b.ids, R) \/ Before(b.ids, c.ids, R)
      BY <1>3, <2>1
    <2> QED BY <1>5, <2>1, <2>2 DEF ItemLess
  <1> QED BY <1>1, <1>4, <1>5 DEF Orders

LEMMA NodesOrdered ==
  ASSUME NEW R, NEW k \in Nat, Orders(R, 1 .. k), NEW x \in NodesUpTo(k), NEW y \in NodesUpTo(k)
  PROVE  /\ NodeLess(x, y, R) => ~NodeLess(y, x, R)
         /\ \A z \in NodesUpTo(k) : NodeLess(x, z, R) => NodeLess(x, y, R) \/ NodeLess(y, z, R)
  <1> DEFINE Q == Itemized(R)
             I == ItemsUpTo(k)
  <1>1. Orders(Q, I)
    BY ItemsOrdered
  <1>2. \A z \in NodesUpTo(k) : z.rank \in Nat /\ z.items \in Seq(I)
    BY DEF NodesUpTo, Node
  <1> HIDE DEF Q, I
  <1>3. \A s, t \in Seq(I) : Before(s, t, Q) => ~Before(t, s, Q)
    BY <1>1, BeforeIsAsymmetric
  <1>4. \A s, t, u \in Seq(I) : Before(s, u, Q) => Before(s, t, Q) \/ Before(t, u, Q)
    BY <1>1, BeforeIsDivided
  <1>5. NodeLess(x, y, R) => ~NodeLess(y, x, R)
    BY <1>2, <1>3 DEF NodeLess, Q
  <1>6. ASSUME NEW z \in NodesUpTo(k), NodeLess(x, z, R)
        PROVE  NodeLess(x, y, R) \/ NodeLess(y, z, R)
    BY <1>2, <1>4, <1>6 DEF NodeLess, Q
  <1> QED BY <1>5, <1>6

(* Only the ids that are named matter.                                     *)
Agree(R, Q, X) == \A x, y \in X : <<x, y>> \in R <=> <<x, y>> \in Q

LEMMA BeforeAgrees ==
  ASSUME NEW R, NEW Q, NEW X, Agree(R, Q, X), NEW s \in Seq(X), NEW t \in Seq(X), Before(s, t, R)
  PROVE  Before(s, t, Q)
  <1>1. PICK k \in 1 .. Len(s) + 1 :
          /\ k <= Len(t)
          /\ \A j \in 1 .. k - 1 : <<s[j], t[j]>> \notin R /\ <<t[j], s[j]>> \notin R
          /\ k <= Len(s) => <<s[k], t[k]>> \in R
    BY DEF Before
  <1>2. Len(s) \in Nat /\ Len(t) \in Nat
    BY LenProperties
  <1>3. (\A j \in 1 .. Len(s) : s[j] \in X) /\ (\A j \in 1 .. Len(t) : t[j] \in X)
    BY ElementOfSeq
  <1>4. \A j \in 1 .. k - 1 : <<s[j], t[j]>> \notin Q /\ <<t[j], s[j]>> \notin Q
    <2> TAKE j \in 1 .. k - 1
    <2>1. j \in 1 .. Len(s) /\ j \in 1 .. Len(t)
      BY <1>1, <1>2
    <2> QED BY <1>1, <1>3, <2>1 DEF Agree
  <1>5. ASSUME k <= Len(s) PROVE <<s[k], t[k]>> \in Q
    <2>1. k \in 1 .. Len(s) /\ k \in 1 .. Len(t)
      BY <1>1, <1>2, <1>5
    <2> QED BY <1>1, <1>3, <1>5, <2>1 DEF Agree
  <1> QED BY <1>1, <1>4, <1>5 DEF Before

LEMMA NodesAgree ==
  ASSUME NEW R, NEW Q, NEW k \in Nat, Agree(R, Q, 1 .. k), NEW x \in NodesUpTo(k), NEW y \in NodesUpTo(k)
  PROVE  NodeLess(x, y, R) <=> NodeLess(x, y, Q)
  <1> DEFINE X == 1 .. k
             I == ItemsUpTo(k)
  <1>1. Agree(R, Q, X) /\ Agree(Q, R, X)
    BY DEF Agree
  <1> HIDE DEF X
  <1>2. \A s, t \in Seq(X) : Before(s, t, R) <=> Before(s, t, Q)
    BY <1>1, BeforeAgrees
  <1>3. \A a, b \in I : ItemLess(a, b, R) <=> ItemLess(a, b, Q)
    BY <1>2 DEF ItemLess, ItemsUpTo, X
  <1>4. \A a, b \in I : <<a, b>> \in Itemized(R) <=> <<a, b>> \in Itemized(Q)
    BY <1>3 DEF Itemized, ItemsUpTo
  <1>5. Agree(Itemized(R), Itemized(Q), I) /\ Agree(Itemized(Q), Itemized(R), I)
    BY <1>4 DEF Agree
  <1>6. x.items \in Seq(I) /\ y.items \in Seq(I)
    BY DEF NodesUpTo
  <1> HIDE DEF I
  <1>7. Before(x.items, y.items, Itemized(R)) <=> Before(x.items, y.items, Itemized(Q))
    BY <1>5, <1>6, BeforeAgrees
  <1> QED BY <1>7 DEF NodeLess

-----------------------------------------------------------------------------
LEMMA SequenceOf ==
  ASSUME NEW T, NEW S, NEW s \in Seq(T), \A j \in 1 .. Len(s) : s[j] \in S
  PROVE  s \in Seq(S)
  <1>1. Len(s) \in Nat /\ s = [j \in 1 .. Len(s) |-> s[j]]
    BY LenProperties
  <1>2. s \in [1 .. Len(s) -> S]
    BY <1>1
  <1> QED BY <1>1, <1>2, SeqDef

(* Items that name old nodes.                                              *)
LEMMA ItemsNameOld ==
  ASSUME NEW k \in Nat, NEW items \in Seq(ItemType), AllIds(items) \subseteq 1 .. k
  PROVE  items \in Seq(ItemsUpTo(k))
  <1>1. Len(items) \in Nat /\ \A i \in 1 .. Len(items) : items[i] \in ItemType
    BY LenProperties, ElementOfSeq
  <1>2. ASSUME NEW i \in 1 .. Len(items) PROVE items[i] \in ItemsUpTo(k)
    <2> DEFINE ids == items[i].ids
    <2>1. items[i] \in ItemType /\ ids \in Seq(Nat) /\ Len(ids) \in Nat
      BY <1>1, LenProperties DEF ItemType
    <2>2. ASSUME NEW j \in 1 .. Len(ids) PROVE ids[j] \in 1 .. k
      BY DEF AllIds, Ids
    <2>3. ids \in Seq(1 .. k)
      <3> HIDE DEF ids
      <3> QED BY <2>1, <2>2, SequenceOf
    <2> QED BY <2>1, <2>3 DEF ItemsUpTo
  <1> QED BY <1>2, SequenceOf

(* The nodes of an arena name only ids before their own.                   *)
LEMMA NodesNameOlder ==
  ASSUME NEW nodes, Ordered(nodes), NEW k \in Nat
  PROVE  \A v \in 1 .. Len(nodes) : v <= k + 1 => nodes[v] \in NodesUpTo(k)
  <1> TAKE v \in 1 .. Len(nodes)
  <1> HAVE v <= k + 1
  <1>1. nodes[v] \in Node /\ Below(nodes, v) \subseteq 1 .. v - 1
    BY ElementOfSeq DEF Ordered
  <1>2. nodes[v].items \in Seq(ItemType) /\ AllIds(nodes[v].items) = Below(nodes, v)
    BY <1>1 DEF Node, AllIds, Below
  <1>3. 1 .. v - 1 \subseteq 1 .. k
    OBVIOUS
  <1>4. nodes[v].items \in Seq(ItemsUpTo(k))
    BY <1>1, <1>2, <1>3, ItemsNameOld
  <1> QED BY <1>1, <1>4 DEF NodesUpTo

(* Positions compared by a function over pairs of ids, and by itsrelation. *)
LEMMA PositionsBefore ==
  ASSUME NEW X, NEW f, NEW R, \A i, j \in X : f[<<i, j>>] <=> <<i, j>> \in R,
         NEW s \in Seq(X), NEW t \in Seq(X)
  PROVE  Before(s, t, R) <=>
           \E m \in 1 .. Len(s) + 1 :
             /\ m <= Len(t)
             /\ \A j \in 1 .. m - 1 : ~f[<<s[j], t[j]>>] /\ ~f[<<t[j], s[j]>>]
             /\ m <= Len(s) => f[<<s[m], t[m]>>]
  <1>1. /\ Len(s) \in Nat /\ Len(t) \in Nat
        /\ \A i \in 1 .. Len(s) : s[i] \in X
        /\ \A i \in 1 .. Len(t) : t[i] \in X
    BY LenProperties, ElementOfSeq
  <1>2. ASSUME NEW m \in 1 .. Len(s) + 1, m <= Len(t)
        PROVE  /\ \A j \in 1 .. m - 1 : /\ f[<<s[j], t[j]>>] <=> <<s[j], t[j]>> \in R
                                        /\ f[<<t[j], s[j]>>] <=> <<t[j], s[j]>> \in R
               /\ m <= Len(s) => (f[<<s[m], t[m]>>] <=> <<s[m], t[m]>> \in R)
    <2>1. ASSUME NEW j \in 1 .. m - 1 PROVE s[j] \in X /\ t[j] \in X
      <3>1. j \in 1 .. Len(s) /\ j \in 1 .. Len(t)
        BY <1>1, <1>2
      <3> QED BY <1>1, <3>1
    <2>2. ASSUME m <= Len(s) PROVE s[m] \in X /\ t[m] \in X
      <3>1. m \in 1 .. Len(s) /\ m \in 1 .. Len(t)
        BY <1>1, <1>2, <2>2
      <3> QED BY <1>1, <3>1
    <2> QED BY <2>1, <2>2
  <1> QED BY <1>2 DEF Before

Pairs(nodes) == (1 .. Len(nodes)) \X (1 .. Len(nodes))

Holding(f, D) == {pair \in D : f[pair]}

(* compare_input_ids, with what it asks of the children given.             *)
Comparison(nodes, f, pair) ==
  LET left  == nodes[pair[1]]
      right == nodes[pair[2]]
      lessId(i, j)   == f[<<i, j>>]
      lessItem(a, b) == \/ a.name < b.name
                        \/ a.name = b.name /\ Lexicographic(a.ids, b.ids, lessId)
  IN  \/ left.rank < right.rank
      \/ left.rank = right.rank /\ Lexicographic(left.items, right.items, lessItem)

LEMMA ComparisonIs ==
  ASSUME NEW nodes, Ordered(nodes), NEW f, NEW pair \in Pairs(nodes)
  PROVE  Comparison(nodes, f, pair) <=>
           NodeLess(nodes[pair[1]], nodes[pair[2]], Holding(f, Pairs(nodes)))
  <1> DEFINE k == Len(nodes)
             R == Holding(f, Pairs(nodes))
             x == nodes[pair[1]]
             y == nodes[pair[2]]
             LessItem(a, b) == \/ a.name < b.name
                               \/ a.name = b.name /\ Lexicographic(a.ids, b.ids, LAMBDA i, j : f[<<i, j>>])
  <1>1. k \in Nat /\ x \in NodesUpTo(k) /\ y \in NodesUpTo(k)
    BY NodesNameOlder, LenProperties DEF Ordered, Pairs
  <1>2. x.items \in Seq(ItemsUpTo(k)) /\ y.items \in Seq(ItemsUpTo(k))
    BY <1>1 DEF NodesUpTo
  <1>3. ASSUME NEW a \in ItemsUpTo(k), NEW b \in ItemsUpTo(k)
        PROVE  LessItem(a, b) <=> <<a, b>> \in Itemized(R)
    <2>1. a.ids \in Seq(1 .. k) /\ b.ids \in Seq(1 .. k) /\ a \in ItemType /\ b \in ItemType
      BY DEF ItemsUpTo
    <2>2. \A i, j \in 1 .. k : f[<<i, j>>] <=> <<i, j>> \in R
      BY DEF Holding, Pairs
    <2> DEFINE s == a.ids
               t == b.ids
               X == 1 .. k
    <2>3. s \in Seq(X) /\ t \in Seq(X) /\ \A i, j \in X : f[<<i, j>>] <=> <<i, j>> \in R
      BY <2>1, <2>2
    <2> HIDE DEF R, k, s, t, X
    <2>4. Before(s, t, R) <=>
            \E m \in 1 .. Len(s) + 1 :
              /\ m <= Len(t)
              /\ \A j \in 1 .. m - 1 : ~f[<<s[j], t[j]>>] /\ ~f[<<t[j], s[j]>>]
              /\ m <= Len(s) => f[<<s[m], t[m]>>]
      BY <2>3, PositionsBefore
    <2>5. Lexicographic(s, t, LAMBDA i, j : f[<<i, j>>]) <=> Before(s, t, R)
      BY <2>4 DEF Lexicographic
    <2>6. LessItem(a, b) <=> ItemLess(a, b, R)
      BY <2>5 DEF ItemLess, s, t
    <2> HIDE DEF LessItem
    <2> QED BY <2>1, <2>6 DEF Itemized
  <1>4. /\ Len(x.items) \in Nat /\ Len(y.items) \in Nat
        /\ \A i \in 1 .. Len(x.items) : x.items[i] \in ItemsUpTo(k)
        /\ \A i \in 1 .. Len(y.items) : y.items[i] \in ItemsUpTo(k)
    BY <1>2, LenProperties, ElementOfSeq
  <1>5. Comparison(nodes, f, pair) <=>
           \/ x.rank < y.rank
           \/ x.rank = y.rank /\ Lexicographic(x.items, y.items, LessItem)
    BY DEF Comparison
  <1> HIDE DEF LessItem
  <1>6. Lexicographic(x.items, y.items, LessItem) <=> Before(x.items, y.items, Itemized(R))
    <2> DEFINE s == x.items
               t == y.items
               Q == Itemized(R)
    <2>1. Lexicographic(s, t, LessItem) <=>
            \E m \in 1 .. Len(s) + 1 :
              /\ m <= Len(t)
              /\ \A j \in 1 .. m - 1 : ~LessItem(s[j], t[j]) /\ ~LessItem(t[j], s[j])
              /\ m <= Len(s) => LessItem(s[m], t[m])
      BY DEF Lexicographic
    <2> HIDE DEF s, t, Q, R, k, x, y
    <2>2. ASSUME NEW m \in 1 .. Len(s) + 1, m <= Len(t)
          PROVE  /\ \A j \in 1 .. m - 1 : /\ LessItem(s[j], t[j]) <=> <<s[j], t[j]>> \in Q
                                          /\ LessItem(t[j], s[j]) <=> <<t[j], s[j]>> \in Q
                 /\ m <= Len(s) => (LessItem(s[m], t[m]) <=> <<s[m], t[m]>> \in Q)
      <3>1. ASSUME NEW j \in 1 .. m - 1
            PROVE  s[j] \in ItemsUpTo(k) /\ t[j] \in ItemsUpTo(k)
        <4>1. j \in 1 .. Len(s) /\ j \in 1 .. Len(t)
          BY <1>4, <2>2 DEF s, t
        <4> QED BY <1>4, <4>1 DEF s, t
      <3>2. ASSUME m <= Len(s) PROVE s[m] \in ItemsUpTo(k) /\ t[m] \in ItemsUpTo(k)
        <4>1. m \in 1 .. Len(s) /\ m \in 1 .. Len(t)
          BY <1>4, <2>2, <3>2 DEF s, t
        <4> QED BY <1>4, <4>1 DEF s, t
      <3> QED BY <1>3, <3>1, <3>2 DEF Q
    <2> QED BY <2>1, <2>2 DEF Before, s, t, Q
  <1> QED BY <1>5, <1>6 DEF NodeLess

(* So the comparison has an answer for every two nodes: it asks of older   *)
(* ones only.                                                              *)
LEMMA LessIdsIs ==
  ASSUME NEW nodes, Ordered(nodes)
  PROVE  LessIds(nodes) = [pair \in Pairs(nodes) |-> Comparison(nodes, LessIds(nodes), pair)]
  <1> DEFINE D == Pairs(nodes)
             N == Len(nodes)
             Rule(f, pair) == Comparison(nodes, f, pair)
             Good(k, f) == \A a, b \in 1 .. k : f[<<a, b>>] = Rule(f, <<a, b>>)
             S == {k \in Nat : k <= N => \E f : f = [pair \in D |-> f[pair]] /\ Good(k, f)}
  <1>1. N \in Nat
    BY LenProperties DEF Ordered
  <1>2. 0 \in S
    <2> DEFINE f == [pair \in D |-> FALSE]
    <2>1. f = [pair \in D |-> f[pair]] /\ Good(0, f)
      OBVIOUS
    <2> QED BY <2>1
  <1>3. ASSUME NEW k \in S PROVE k + 1 \in S
    <2> SUFFICES ASSUME k + 1 <= N
                 PROVE  \E f : f = [pair \in D |-> f[pair]] /\ Good(k + 1, f)
      OBVIOUS
    <2>1. k \in Nat /\ \A a \in 1 .. k + 1 : a \in 1 .. N
      BY <1>1
    <2>2. PICK f : f = [pair \in D |-> f[pair]] /\ Good(k, f)
      BY <1>1, <2>1
    <2> DEFINE g == [pair \in D |-> Rule(f, pair)]
    <2>3. g = [pair \in D |-> g[pair]] /\ \A pair \in D : g[pair] = Rule(f, pair)
      OBVIOUS
    <2>4. \A a, b \in 1 .. k + 1 : <<a, b>> \in D
      BY <2>1 DEF Pairs
    <2> HIDE DEF g, Rule
    <2>5. \A a, b \in 1 .. k : a \in 1 .. k + 1 /\ b \in 1 .. k + 1
      BY <2>1
    <2>6. \A a, b \in 1 .. k : g[<<a, b>>] = f[<<a, b>>]
      BY <2>2, <2>3, <2>4, <2>5
    <2>7. Agree(Holding(f, D), Holding(g, D), 1 .. k)
      BY <2>6 DEF Agree, Holding
    <2>8. ASSUME NEW a \in 1 .. k + 1, NEW b \in 1 .. k + 1
          PROVE  g[<<a, b>>] = Rule(g, <<a, b>>)
      <3> DEFINE x == nodes[a]
                 y == nodes[b]
      <3>1. x \in NodesUpTo(k) /\ y \in NodesUpTo(k)
        BY <2>1, NodesNameOlder
      <3>2. <<a, b>> \in D /\ <<a, b>>[1] = a /\ <<a, b>>[2] = b
        BY <2>4
      <3>3. Rule(f, <<a, b>>) <=> NodeLess(x, y, Holding(f, D))
        BY <3>2, ComparisonIs DEF Rule
      <3>4. Rule(g, <<a, b>>) <=> NodeLess(x, y, Holding(g, D))
        BY <3>2, ComparisonIs DEF Rule
      <3>5. NodeLess(x, y, Holding(f, D)) <=> NodeLess(x, y, Holding(g, D))
        <4> HIDE DEF x, y, D
        <4> QED BY <2>1, <2>7, <3>1, NodesAgree
      <3>6. Rule(f, <<a, b>>) \in BOOLEAN /\ Rule(g, <<a, b>>) \in BOOLEAN
        BY DEF Rule, Comparison
      <3>7. Rule(f, <<a, b>>) = Rule(g, <<a, b>>)
        BY <3>3, <3>4, <3>5, <3>6
      <3> QED BY <2>3, <3>2, <3>7
    <2> QED BY <2>3, <2>8
  <1>4. S = Nat
    <2> HIDE DEF S
    <2>1. S \in SUBSET Nat
      BY DEF S
    <2> QED BY <1>2, <1>3, <2>1, AllNaturals
  <1>5. PICK f : f = [pair \in D |-> f[pair]] /\ Good(N, f)
    BY <1>1, <1>4
  <1>6. f = [pair \in D |-> Rule(f, pair)]
    <2>1. ASSUME NEW pair \in D PROVE f[pair] = Rule(f, pair)
      <3>1. PICK a \in 1 .. N, b \in 1 .. N : pair = <<a, b>>
        BY DEF Pairs
      <3> QED BY <1>5, <3>1
    <2> HIDE DEF Rule, D
    <2> QED BY <1>5, <2>1
  <1>7. LessIds(nodes) = CHOOSE h : h = [pair \in D |-> Rule(h, pair)]
    BY Zenon DEF LessIds, Pairs, Comparison
  <1> HIDE DEF Rule, D
  <1>8. LessIds(nodes) = [pair \in D |-> Rule(LessIds(nodes), pair)]
    BY <1>6, <1>7
  <1> QED BY <1>8 DEF Rule, D

(* The order of the ids of an arena.                                       *)
Lower(nodes) == Holding(LessIds(nodes), Pairs(nodes))

LEMMA LowerIs ==
  ASSUME NEW nodes, Ordered(nodes), NEW a \in 1 .. Len(nodes), NEW b \in 1 .. Len(nodes)
  PROVE  <<a, b>> \in Lower(nodes) <=> NodeLess(nodes[a], nodes[b], Lower(nodes))
  <1> DEFINE less == LessIds(nodes)
  <1>1. <<a, b>> \in Pairs(nodes) /\ <<a, b>>[1] = a /\ <<a, b>>[2] = b
    BY DEF Pairs
  <1>2. less[<<a, b>>] = Comparison(nodes, less, <<a, b>>)
    BY <1>1, LessIdsIs
  <1>3. Comparison(nodes, less, <<a, b>>) <=> NodeLess(nodes[a], nodes[b], Lower(nodes))
    BY <1>1, ComparisonIs DEF Lower
  <1>4. <<a, b>> \in Lower(nodes) <=> less[<<a, b>>]
    BY <1>1 DEF Lower, Holding
  <1> QED BY <1>2, <1>3, <1>4

LEMMA LowerOrders ==
  ASSUME NEW nodes, Ordered(nodes)
  PROVE  Orders(Lower(nodes), 1 .. Len(nodes))
  <1> DEFINE N == Len(nodes)
             R == Lower(nodes)
             S == {k \in Nat : k <= N => Orders(R, 1 .. k)}
  <1>1. N \in Nat
    BY LenProperties DEF Ordered
  <1>2. 0 \in S
    BY DEF Orders
  <1>3. ASSUME NEW k \in S PROVE k + 1 \in S
    <2> SUFFICES ASSUME k + 1 <= N PROVE Orders(R, 1 .. k + 1)
      OBVIOUS
    <2>1. k \in Nat /\ Orders(R, 1 .. k) /\ \A a \in 1 .. k + 1 : a \in 1 .. N
      BY <1>1
    <2>2. \A a \in 1 .. k + 1 : nodes[a] \in NodesUpTo(k)
      BY <2>1, NodesNameOlder
    <2>3. \A a, b \in 1 .. k + 1 : <<a, b>> \in R <=> NodeLess(nodes[a], nodes[b], R)
      BY <2>1, LowerIs
    <2> HIDE DEF R, N, S
    <2>4. \A x, y \in NodesUpTo(k) : NodeLess(x, y, R) => ~NodeLess(y, x, R)
      BY <2>1, NodesOrdered
    <2>5. \A x, y, z \in NodesUpTo(k) : NodeLess(x, z, R) => NodeLess(x, y, R) \/ NodeLess(y, z, R)
      BY <2>1, NodesOrdered
    <2> DEFINE X == 1 .. k + 1
    <2>6. /\ \A a \in X : nodes[a] \in NodesUpTo(k)
          /\ \A a, b \in X : <<a, b>> \in R <=> NodeLess(nodes[a], nodes[b], R)
      BY <2>2, <2>3
    <2> HIDE DEF X
    <2>7. \A a, b \in X : <<a, b>> \in R => <<b, a>> \notin R
      BY <2>4, <2>6
    <2>8. \A a, b, c \in X : <<a, c>> \in R => <<a, b>> \in R \/ <<b, c>> \in R
      BY <2>5, <2>6
    <2>9. Orders(R, X)
      BY <2>7, <2>8 DEF Orders
    <2> QED BY <2>9 DEF X
  <1>4. S = Nat
    <2> HIDE DEF S
    <2>1. S \in SUBSET Nat
      BY DEF S
    <2> QED BY <1>2, <1>3, <2>1, AllNaturals
  <1> QED BY <1>1, <1>4

(* A node more leaves the order of the others alone.                       *)
LEMMA LowerStays ==
  ASSUME NEW nodes, Ordered(nodes), NEW more, Ordered(more), Len(nodes) <= Len(more),
         \A v \in 1 .. Len(nodes) : more[v] = nodes[v]
  PROVE  Agree(Lower(nodes), Lower(more), 1 .. Len(nodes))
  <1> DEFINE N == Len(nodes)
             R == Lower(nodes)
             Q == Lower(more)
             S == {k \in Nat : k <= N => Agree(R, Q, 1 .. k)}
  <1>1. N \in Nat /\ Len(more) \in Nat
    BY LenProperties DEF Ordered
  <1>2. 0 \in S
    BY DEF Agree
  <1>3. ASSUME NEW k \in S PROVE k + 1 \in S
    <2> SUFFICES ASSUME k + 1 <= N PROVE Agree(R, Q, 1 .. k + 1)
      OBVIOUS
    <2>1. /\ k \in Nat /\ Agree(R, Q, 1 .. k)
          /\ \A a \in 1 .. k + 1 : a \in 1 .. N /\ a \in 1 .. Len(more)
      BY <1>1
    <2>2. \A a \in 1 .. k + 1 : nodes[a] \in NodesUpTo(k)
      BY <2>1, NodesNameOlder
    <2>3. \A a, b \in 1 .. k + 1 : <<a, b>> \in R <=> NodeLess(nodes[a], nodes[b], R)
      BY <2>1, LowerIs
    <2>4. \A a, b \in 1 .. k + 1 : <<a, b>> \in Q <=> NodeLess(more[a], more[b], Q)
      BY <2>1, LowerIs
    <2>5. \A a \in 1 .. k + 1 : more[a] = nodes[a]
      BY <2>1
    <2> HIDE DEF R, Q, N, S
    <2>6. \A x, y \in NodesUpTo(k) : NodeLess(x, y, R) <=> NodeLess(x, y, Q)
      BY <2>1, NodesAgree
    <2> DEFINE X == 1 .. k + 1
    <2>7. /\ \A a \in X : nodes[a] \in NodesUpTo(k) /\ more[a] = nodes[a]
          /\ \A a, b \in X : <<a, b>> \in R <=> NodeLess(nodes[a], nodes[b], R)
          /\ \A a, b \in X : <<a, b>> \in Q <=> NodeLess(more[a], more[b], Q)
      BY <2>2, <2>3, <2>4, <2>5
    <2> HIDE DEF X
    <2>8. Agree(R, Q, X)
      BY <2>6, <2>7 DEF Agree
    <2> QED BY <2>8 DEF X
  <1>4. S = Nat
    <2> HIDE DEF S
    <2>1. S \in SUBSET Nat
      BY DEF S
    <2> QED BY <1>2, <1>3, <2>1, AllNaturals
  <1> QED BY <1>1, <1>4

-----------------------------------------------------------------------------
(* The keys items are sorted by.                                           *)
LEMMA ItemBeforeIs ==
  ASSUME NEW nodes, Len(nodes) \in Nat,
         NEW a \in ItemsUpTo(Len(nodes)), NEW b \in ItemsUpTo(Len(nodes))
  PROVE  ItemBefore(nodes, a, b) <=> Before(a.ids, b.ids, Lower(nodes))
  <1> DEFINE less == LessIds(nodes)
             R == Lower(nodes)
             X == 1 .. Len(nodes)
             s == a.ids
             t == b.ids
  <1>1. s \in Seq(X) /\ t \in Seq(X)
    BY DEF ItemsUpTo
  <1>2. \A i, j \in X : less[<<i, j>>] <=> <<i, j>> \in R
    BY DEF Lower, Holding, Pairs
  <1> HIDE DEF less, R, X, s, t
  <1>3. Before(s, t, R) <=>
          \E m \in 1 .. Len(s) + 1 :
            /\ m <= Len(t)
            /\ \A j \in 1 .. m - 1 : ~less[<<s[j], t[j]>>] /\ ~less[<<t[j], s[j]>>]
            /\ m <= Len(s) => less[<<s[m], t[m]>>]
    BY <1>1, <1>2, PositionsBefore
  <1> QED BY <1>3 DEF ItemBefore, Lexicographic, less, s, t, R

(* The order found exists, and is one.                                     *)
LEMMA SortedIsInOrder ==
  ASSUME NEW nodes, Ordered(nodes), NEW items \in Seq(ItemsUpTo(Len(nodes)))
  PROVE  /\ InOrder(nodes, Sorted(nodes, items))
         /\ Sorted(nodes, items) \in Seq(ItemsUpTo(Len(nodes)))
  <1> DEFINE k == Len(nodes)
             n == Len(items)
             I == ItemsUpTo(k)
             X == 1 .. k
             R == Lower(nodes)
             Q == Sequenced(R, X)
             keys == [i \in 1 .. n |-> items[i].ids]
             sorting == {p \in [1 .. n -> 1 .. n] :
                           /\ \A i, j \in 1 .. n : p[i] = p[j] => i = j
                           /\ InOrder(nodes, Rearranged(items, p))}
  <1>1. k \in Nat /\ n \in Nat /\ \A i \in 1 .. n : items[i] \in I
    BY LenProperties, ElementOfSeq DEF Ordered
  <1>2. \A i \in 1 .. n : items[i].ids \in Seq(X)
    BY <1>1 DEF ItemsUpTo
  <1>3. Orders(Q, Seq(X))
    <2>1. Orders(R, X)
      BY LowerOrders
    <2> HIDE DEF R, X
    <2> QED BY <2>1, SequencesOrdered
  <1>4. keys \in Seq(Seq(X)) /\ Len(keys) = n /\ \A i \in 1 .. n : keys[i] = items[i].ids
    <2> HIDE DEF n, X
    <2>1. keys \in [1 .. n -> Seq(X)]
      BY <1>2
    <2>2. keys \in Seq(Seq(X))
      BY <1>1, <2>1, SeqDef
    <2>3. Len(keys) = n
      BY <1>1, <2>1, <2>2, LenProperties
    <2> QED BY <2>2, <2>3
  <1>5. PICK p : Sorts(p, n, keys, Q)
    <2> HIDE DEF keys, Q, X, n
    <2> QED BY <1>3, <1>4, SortingExists
  <1>6. ASSUME NEW i \in 1 .. n, NEW j \in 1 .. n
        PROVE  ItemBefore(nodes, items[i], items[j]) <=> <<keys[i], keys[j]>> \in Q
    <2>1. ItemBefore(nodes, items[i], items[j]) <=> Before(items[i].ids, items[j].ids, R)
      BY <1>1, ItemBeforeIs
    <2>2. keys[i] = items[i].ids /\ keys[j] = items[j].ids /\ keys[i] \in Seq(X) /\ keys[j] \in Seq(X)
      BY <1>2, <1>4
    <2> HIDE DEF keys, X, R
    <2> QED BY <2>1, <2>2 DEF Sequenced
  <1>7. ASSUME NEW r \in [1 .. n -> 1 .. n]
        PROVE  /\ Len(Rearranged(items, r)) = n
               /\ Rearranged(items, r) \in Seq(I)
               /\ \A i \in 1 .. n : Rearranged(items, r)[i] = items[r[i]]
    <2>1. Rearranged(items, r) \in [1 .. n -> I] /\ \A i \in 1 .. n : Rearranged(items, r)[i] = items[r[i]]
      BY <1>1 DEF Rearranged
    <2> HIDE DEF I, n
    <2>2. Rearranged(items, r) \in Seq(I)
      BY <1>1, <2>1, SeqDef
    <2> QED BY <1>1, <2>1, <2>2, LenProperties
  <1>8. p \in sorting
    <2>1. /\ p \in [1 .. n -> 1 .. n]
          /\ \A i, j \in 1 .. n : p[i] = p[j] => i = j
          /\ \A i, j \in 1 .. n : i < j => <<keys[p[j]], keys[p[i]]>> \notin Q
      BY <1>5 DEF Sorts
    <2> HIDE DEF n, Q, keys
    <2>2. \A i, j \in 1 .. n : i < j => ~ItemBefore(nodes, items[p[j]], items[p[i]])
      BY <1>6, <2>1
    <2>3. InOrder(nodes, Rearranged(items, p))
      BY <1>7, <2>1, <2>2 DEF InOrder
    <2> QED BY <2>1, <2>3
  <1>9. Sorted(nodes, items) = Rearranged(items, CHOOSE r \in sorting : TRUE)
    BY <1>8, Zenon DEF Sorted
  <1>10. (CHOOSE r \in sorting : TRUE) \in sorting
    BY <1>8, Zenon
  <1> DEFINE r == CHOOSE r \in sorting : TRUE
  <1>11. r \in [1 .. n -> 1 .. n] /\ InOrder(nodes, Rearranged(items, r))
    BY <1>10, Zenon
  <1>12. Sorted(nodes, items) = Rearranged(items, r)
    BY <1>9, Zenon
  <1> HIDE DEF r
  <1> QED BY <1>7, <1>11, <1>12

(* What is in order stays in order when the arena grows.                   *)
LEMMA InOrderStays ==
  ASSUME NEW nodes, Ordered(nodes), NEW more, Ordered(more), Len(nodes) <= Len(more),
         \A v \in 1 .. Len(nodes) : more[v] = nodes[v],
         NEW items \in Seq(ItemsUpTo(Len(nodes))), InOrder(nodes, items)
  PROVE  InOrder(more, items)
  <1> DEFINE X == 1 .. Len(nodes)
             R == Lower(nodes)
             Q == Lower(more)
  <1>1. Len(nodes) \in Nat /\ Len(more) \in Nat
    BY LenProperties DEF Ordered
  <1>2. Agree(Q, R, X)
    BY LowerStays DEF Agree
  <1>3. \A i \in 1 .. Len(items) :
          /\ items[i] \in ItemsUpTo(Len(nodes)) /\ items[i] \in ItemsUpTo(Len(more))
          /\ items[i].ids \in Seq(X)
    <2> TAKE i \in 1 .. Len(items)
    <2>1. items[i] \in ItemsUpTo(Len(nodes))
      BY ElementOfSeq
    <2>2. items[i] \in ItemType /\ items[i].ids \in Seq(X)
      BY <2>1 DEF ItemsUpTo
    <2>3. items[i].ids \in Seq(1 .. Len(more))
      <3>1. X \subseteq 1 .. Len(more)
        BY <1>1
      <3> HIDE DEF X
      <3> DEFINE ids == items[i].ids
      <3>2. ids \in Seq(X) /\ \A j \in 1 .. Len(ids) : ids[j] \in 1 .. Len(more)
        BY <2>2, <3>1, ElementOfSeq
      <3> HIDE DEF ids
      <3>3. ids \in Seq(1 .. Len(more))
        BY <3>2, SequenceOf
      <3> QED BY <3>3 DEF ids
    <2> QED BY <2>1, <2>2, <2>3 DEF ItemsUpTo
  <1>4. ASSUME NEW i \in 1 .. Len(items), NEW j \in 1 .. Len(items),
               ItemBefore(more, items[j], items[i])
        PROVE  ItemBefore(nodes, items[j], items[i])
    <2>1. Before(items[j].ids, items[i].ids, Q)
      BY <1>1, <1>3, <1>4, ItemBeforeIs
    <2>2. items[j].ids \in Seq(X) /\ items[i].ids \in Seq(X)
      BY <1>3
    <2> HIDE DEF X, Q, R
    <2>3. Before(items[j].ids, items[i].ids, R)
      BY <1>2, <2>1, <2>2, BeforeAgrees
    <2> QED BY <1>1, <1>3, <2>3, ItemBeforeIs DEF R
  <1> QED BY <1>4 DEF InOrder

-----------------------------------------------------------------------------
(* A step leaves the arena alone or pushes a node, and the sets and        *)
(* mappings it pushes are sorted.                                          *)
NodePushed(node) ==
  /\ values' = Append(values, node)
  /\ node.rank \in {Rank["set"], Rank["mapping"]} =>
       \E items \in Seq(ItemsUpTo(Len(values))) : node.items = Sorted(values, items)

LEMMA PushAndAttachPushes ==
  ASSUME NEW stack, NEW node, NEW bytes, PushAndAttach(stack, node, bytes)
  PROVE  values' = values \/ values' = Append(values, node)
  BY DEF PushAndAttach, Attach, Refuse, Keep

LEMMA AggregatePushes ==
  ASSUME IInv, status = "open", frames # << >>,
         Top(frames).kind # "optional", Len(Top(frames).children) = Top(frames).childCount,
         FinishAggregate(Pop(frames), Top(frames))
  PROVE  values' = values \/ \E node : NodePushed(node)
  <1> DEFINE frame == Top(frames)
             stack == Pop(frames)
             kind == frame.kind
             children == frame.children
             node == [rank |-> Rank[kind], items |-> ItemsInOrder(kind, children)]
             total == stringBytes + (IF kind = "record" THEN NameBytes * Len(children) ELSE 0)
  <1>1. /\ Len(stack) \in Nat /\ Len(frames) = Len(stack) + 1
        /\ frame = frames[Len(frames)] /\ frame \in Frame /\ children \in Seq(Child)
        /\ ChildIds(frame) = {children[c].id : c \in 1 .. Len(children)}
        /\ kind # "union"
        /\ kind = "mapping" => frame.childCount % 2 = 0
    BY ClosedFrame
  <1>2. kind \in Kinds /\ kind # "union" /\ kind # "optional"
    BY <1>1 DEF Frame
  <1>3. \/ values' = values
        \/ EdgesFit(kind, children) /\ PushAndAttach(stack, node, total)
    BY DEF FinishAggregate, Refuse
  <1>4. CASE EdgesFit(kind, children) /\ PushAndAttach(stack, node, total)
    <2> DEFINE items == ItemsOf(kind, children)
    <2>1. values' = values \/ values' = Append(values, node)
      BY <1>4, PushAndAttachPushes
    <2>2. ASSUME node.rank \in {Rank["set"], Rank["mapping"]}
          PROVE  /\ items \in Seq(ItemsUpTo(Len(values)))
                 /\ node.items = Sorted(values, items)
      <3>1. kind \in {"set", "mapping"}
        BY <1>2, <2>2 DEF Kinds, Rank
      <3>2. node.items = Sorted(values, items)
        BY <3>1 DEF ItemsInOrder
      <3>3. kind = "mapping" => Len(children) % 2 = 0
        BY <1>1
      <3>4. items \in Seq(ItemType) /\ AllIds(items) = {children[c].id : c \in 1 .. Len(children)}
        BY <1>1, <1>2, <1>4, <3>3, ItemsHoldChildren
      <3>5. ChildIds(frame) \subseteq 1 .. Len(values) /\ Len(values) \in Nat
        BY <1>1, LenProperties DEF IInv, ChildrenFirst, TypeOK
      <3> HIDE DEF items
      <3>6. items \in Seq(ItemsUpTo(Len(values)))
        BY <1>1, <3>4, <3>5, ItemsNameOld
      <3> QED BY <3>2, <3>6
    <2> HIDE DEF node, items
    <2> QED BY <2>1, <2>2 DEF NodePushed
  <1> QED BY <1>3, <1>4

LEMMA PlainPushes ==
  ASSUME NEW stack, NEW bytes, NEW rank, rank \notin {Rank["set"], Rank["mapping"]},
         PushAndAttach(stack, [rank |-> rank, items |-> << >>], bytes)
  PROVE  values' = values \/ \E node : NodePushed(node)
  <1> DEFINE node == [rank |-> rank, items |-> << >>]
  <1>1. values' = values \/ values' = Append(values, node)
    BY PushAndAttachPushes
  <1>2. node.rank \notin {Rank["set"], Rank["mapping"]}
    OBVIOUS
  <1> HIDE DEF node
  <1> QED BY <1>1, <1>2 DEF NodePushed

LEMMA StepPushes == IInv /\ [Next]_vars => values' = values \/ \E node : NodePushed(node)
  <1> SUFFICES ASSUME IInv, [Next]_vars PROVE values' = values \/ \E node : NodePushed(node)
    OBVIOUS
  <1>1. projection.scalars \subseteq Scalars
    BY ProjectionsAssumption DEF IInv, TypeOK
  <1>2. ASSUME NEW kind \in projection.kinds, NEW count \in 0 .. projection.maxCount, Enter(kind, count)
        PROVE  values' = values
    BY <1>2 DEF Enter, Refuse
  <1>3. ASSUME NEW edge \in projection.edges, Edge(edge) PROVE values' = values
    BY <1>3 DEF Edge, Refuse
  <1>4. ASSUME NEW scalar \in projection.scalars, Scalar(scalar, 1)
        PROVE  values' = values \/ \E node : NodePushed(node)
    <2> DEFINE total == stringBytes + (IF scalar = "string" THEN 1 ELSE 0)
    <2>1. \/ values' = values
          \/ /\ scalar \notin {"long_integer", "unsupported"}
             /\ PushAndAttach(frames, [rank |-> Rank[scalar], items |-> << >>], total)
      BY <1>4 DEF Scalar, Refuse
    <2>2. scalar \notin {"long_integer", "unsupported"} => Rank[scalar] \notin {Rank["set"], Rank["mapping"]}
      BY <1>1 DEF Scalars, Rank
    <2> HIDE DEF total
    <2> QED BY <2>1, <2>2, PlainPushes
  <1>5. ASSUME NEW kind \in projection.kinds, Exit(kind)
        PROVE  values' = values \/ \E node : NodePushed(node)
    <2>1. status = "open"
      BY <1>5 DEF Exit
    <2>2. \/ values' = values
          \/ /\ frames # << >> /\ Top(frames).kind = kind
             /\ Len(Top(frames).children) = Top(frames).childCount
             /\ IF kind = "optional" THEN FinishOptional(Pop(frames), Top(frames))
                ELSE FinishAggregate(Pop(frames), Top(frames))
      BY <1>5 DEF Exit, Refuse
    <2>3. CASE FinishOptional(Pop(frames), Top(frames))
      <3>1. \/ values' = values
            \/ PushAndAttach(Pop(frames), [rank |-> Rank["null"], items |-> << >>], stringBytes)
        BY <2>3 DEF FinishOptional, Attach, Keep, Refuse
      <3>2. Rank["null"] \notin {Rank["set"], Rank["mapping"]}
        BY DEF Rank
      <3> QED BY <3>1, <3>2, PlainPushes
    <2> QED BY <2>1, <2>2, <2>3, AggregatePushes
  <1>6. CASE Finish
    BY <1>6 DEF Finish, Refuse
  <1>7. CASE UNCHANGED vars
    BY <1>7 DEF vars
  <1> QED BY <1>2, <1>3, <1>4, <1>5, <1>6, <1>7 DEF Next

LEMMA ArenaOrdered == IInv => Ordered(values)
  BY DEF IInv, TypeOK, ChildrenFirst, Ordered

LEMMA ArenaOrderedNext == IInv' => Ordered(values')
  BY DEF IInv, TypeOK, ChildrenFirst, Ordered, Below, Ids

LEMMA SetsStaySorted ==
  ASSUME IInv, SetsAreSorted, [Next]_vars
  PROVE  SetsAreSorted'
  <1> DEFINE n == Len(values)
  <1>1. IInv'
    BY NextInv
  <1>2. Ordered(values) /\ Ordered(values') /\ n \in Nat
    BY <1>1, ArenaOrdered, ArenaOrderedNext, LenProperties DEF Ordered
  <1>3. CASE values' = values
    BY <1>3 DEF SetsAreSorted
  <1>4. CASE \E node : NodePushed(node)
    <2>1. PICK node : NodePushed(node)
      BY <1>4
    <2> DEFINE more == Append(values, node)
               S == Node \cup {node}
    <2>2. values' = more
      BY <2>1 DEF NodePushed
    <2>3. /\ Len(more) = n + 1 /\ more[n + 1] = node
          /\ \A v \in 1 .. n : more[v] = values[v]
      <3>1. values \in [1 .. n -> Node]
        BY <1>2, LenProperties DEF Ordered
      <3>2. values \in [1 .. n -> S]
        BY <3>1
      <3>3. values \in Seq(S) /\ node \in S
        BY <1>2, <3>2, SeqDef
      <3> HIDE DEF S
      <3> QED BY <3>3, AppendProperties
    <2>4. Ordered(more)
      BY <1>2, <2>2
    <2> HIDE DEF more
    <2>5. n <= Len(more)
      BY <1>2, <2>3
    <2>6. ASSUME NEW items \in Seq(ItemsUpTo(n)), InOrder(values, items)
          PROVE  InOrder(more, items)
      BY <1>2, <2>3, <2>4, <2>5, <2>6, InOrderStays
    <2>7. ASSUME NEW v \in 1 .. Len(more), more[v].rank \in {Rank["set"], Rank["mapping"]}
          PROVE  InOrder(more, more[v].items)
      <3>1. CASE v \in 1 .. n
        <4>1. more[v] = values[v]
          BY <2>3, <3>1
        <4>2. InOrder(values, values[v].items)
          BY <2>7, <3>1, <4>1 DEF SetsAreSorted
        <4>3. values[v].items \in Seq(ItemsUpTo(n))
          <5>1. v <= n + 1
            BY <1>2, <3>1
          <5>2. values[v] \in NodesUpTo(n)
            BY <1>2, <3>1, <5>1, NodesNameOlder
          <5> QED BY <5>2 DEF NodesUpTo
        <4> QED BY <2>6, <4>1, <4>2, <4>3
      <3>2. CASE v = n + 1
        <4>1. PICK items \in Seq(ItemsUpTo(n)) : node.items = Sorted(values, items)
          BY <2>1, <2>3, <2>7, <3>2 DEF NodePushed
        <4>2. InOrder(values, node.items) /\ node.items \in Seq(ItemsUpTo(n))
          BY <1>2, <4>1, SortedIsInOrder
        <4> QED BY <2>3, <2>6, <3>2, <4>2
      <3> QED BY <1>2, <2>3, <3>1, <3>2
    <2>8. SetsAreSorted' <=> \A v \in 1 .. Len(more) :
            more[v].rank \in {Rank["set"], Rank["mapping"]} => InOrder(more, more[v].items)
      BY <2>2 DEF SetsAreSorted
    <2> QED BY <2>7, <2>8
  <1> QED BY <1>3, <1>4, StepPushes

(* Every set and mapping of an arena is in the order of its values: the    *)
(* comparison of nodes orders what an arena can hold, so that there is an  *)
(* order to sort by, and no later push disturbs it.                        *)
THEOREM SetsStayInOrder == Spec => []SetsAreSorted
  <1>1. Init => SetsAreSorted
    <2>1. Len(<< >>) = 0
      OBVIOUS
    <2> QED BY <2>1 DEF Init, SetsAreSorted
  <1>2. IInv /\ SetsAreSorted /\ [Next]_vars => SetsAreSorted'
    BY SetsStaySorted
  <1> QED BY <1>1, <1>2, BuilderInvariant, PTL DEF Spec
=============================================================================
