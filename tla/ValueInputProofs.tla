--------------------------- MODULE ValueInputProofs ---------------------------
(***************************************************************************)
(* Proofs about the recursive adapters of input/json.rs and of             *)
(* input/native.rs, for all limits and every value: the arena is ordered,  *)
(* an object names no key twice, the path is the position, and the limits  *)
(* hold as WithinLimits says.                                              *)
(***************************************************************************)
EXTENDS ValueInput, SequenceTheorems, WellFoundedInduction, TLAPS

(* No two places hold the same.                                            *)
Distinct(s) == \A i, j \in 1 .. Len(s) : s[i] = s[j] => i = j

(* The keys of the objects that are still open are distinct, too.          *)
OpenKeysDistinct ==
  adapter = "json" =>
    \A f \in 1 .. Len(frames) : Distinct(frames[f].keys)

(* A node below n open aggregates descends no more than what is left of    *)
(* max_depth; the last frame may be one too deep as long as it is empty.   *)
Depths ==
  /\ Len(frames) <= MaxDepth + 1
  /\ \A f \in 1 .. Len(frames) : \A i \in 1 .. Len(frames[f].children) :
       f <= MaxDepth /\ ~Descends(values, frames[f].children[i], MaxDepth - f + 1)
  /\ root # 0 => ~Descends(values, root, MaxDepth + 1)

(* What the entry of a call checks of the amounts, and what the ends of    *)
(* the walk have.                                                          *)
Amounts ==
  /\ Len(values) + Len(frames) <= MaxNodes + MaxDepth
  /\ stringBytes <= MaxStringBytes
  /\ status = "finished" => root # 0
  /\ status = "source" => path = << >> /\ frames = << >>

IInv ==
  /\ TypeOK /\ ChildrenFirst /\ OpenKeysDistinct /\ KeysDistinct
  /\ Depths /\ Amounts /\ PathIsPosition

-----------------------------------------------------------------------------
(* What the last element of a sequence is and what is left without it.     *)
LEMMA LastAndPop ==
  ASSUME NEW S, NEW s \in Seq(S), s # << >>
  PROVE  /\ Len(s) \in Nat \ {0} /\ Last(s) \in S
         /\ Pop(s) \in Seq(S) /\ Len(Pop(s)) = Len(s) - 1
         /\ \A i \in 1 .. Len(s) - 1 : Pop(s)[i] = s[i]
  <1>1. Len(s) \in Nat \ {0} /\ \A i \in 1 .. Len(s) : s[i] \in S
    BY EmptySeq, ElementOfSeq
  <1> DEFINE n == Len(s) - 1
  <1>2. n \in Int /\ 1 \in Int /\ \A i \in 1 .. n : s[i] \in S
    BY <1>1
  <1>3. /\ SubSeq(s, 1, n) \in Seq(S)
        /\ Len(SubSeq(s, 1, n)) = IF 1 <= n THEN n - 1 + 1 ELSE 0
        /\ \A i \in 1 .. n - 1 + 1 : SubSeq(s, 1, n)[i] = s[1 + i - 1]
    BY <1>2, SubSeqProperties
  <1>4. n \in Nat
    BY <1>1
  <1> HIDE DEF n
  <1>5. \A i \in 1 .. n : SubSeq(s, 1, n)[i] = s[i]
    BY <1>3, <1>4
  <1>6. Len(SubSeq(s, 1, n)) = n
    BY <1>3, <1>4
  <1>7. s[Len(s)] \in S
    BY <1>1
  <1> QED BY <1>1, <1>3, <1>5, <1>6, <1>7 DEF Last, Pop, n

(* A set of naturals with a member has a least one.                        *)
LEMMA LeastMember ==
  ASSUME NEW T \in SUBSET Nat, T # {}
  PROVE  \E least \in T : \A t \in T : least <= t
  <1>1. \E least \in T : \A t \in T : ~(<<t, least>> \in OpToRel(<, Nat))
    BY NatLessThanWellFounded, WFMin
  <1>2. PICK least \in T : \A t \in T : ~(<<t, least>> \in OpToRel(<, Nat))
    BY <1>1
  <1>3. \A t \in T : ~(t < least)
    BY <1>2 DEF OpToRel
  <1> QED BY <1>3

-----------------------------------------------------------------------------
(* Nodes whose children come before them.                                  *)
Ordered(nodes) ==
  /\ nodes \in Seq(Node)
  /\ \A v \in 1 .. Len(nodes) : \A i \in 1 .. Len(nodes[v].children) :
       nodes[v].children[i] \in 1 .. v - 1

(* A walk down from an old node stays among the old nodes.                 *)
LEMMA DescentStays ==
  ASSUME NEW nodes, Ordered(nodes), NEW node \in Node, NEW v \in 1 .. Len(nodes), NEW n \in Nat,
         NEW walk \in [1 .. n + 1 -> 1 .. Len(nodes) + 1],
         IsDescent(Append(nodes, node), v, n, walk)
  PROVE  walk \in [1 .. n + 1 -> 1 .. Len(nodes)] /\ IsDescent(nodes, v, n, walk)
  <1> DEFINE more == Append(nodes, node)
             T == {level \in 1 .. n + 1 : walk[level] = Len(nodes) + 1}
  <1>1. /\ nodes \in Seq(Node) /\ Len(nodes) \in Nat
        /\ \A w \in 1 .. Len(nodes) : more[w] = nodes[w]
    BY AppendProperties, LenProperties DEF Ordered
  <1>2. walk[1] = v /\ \A level \in 1 .. n : walk[level + 1] \in Below(more, walk[level])
    BY DEF IsDescent
  <1> HIDE DEF more
  <1>3. ASSUME T # {} PROVE FALSE
    <2>1. T \in SUBSET Nat
      OBVIOUS
    <2> HIDE DEF T
    <2>2. PICK least \in T : \A t \in T : least <= t
      BY <1>3, <2>1, LeastMember
    <2> USE DEF T
    <2>3. least \in 1 .. n + 1 /\ walk[least] = Len(nodes) + 1 /\ least # 1
      BY <1>1, <1>2, <2>2
    <2> DEFINE level == least - 1
    <2>4. level \in 1 .. n /\ level + 1 = least /\ level \in 1 .. n + 1 /\ ~(least <= level)
      BY <2>3
    <2>5. walk[level] \in 1 .. Len(nodes)
      BY <1>1, <2>2, <2>4
    <2>6. walk[least] \in Below(more, walk[level])
      BY <1>2, <2>4
    <2> HIDE DEF level, T
    <2>7. walk[least] \in Below(nodes, walk[level])
      BY <1>1, <2>5, <2>6 DEF Below
    <2>8. walk[least] \in 1 .. walk[level] - 1
      BY <2>5, <2>7 DEF Below, Ordered
    <2> QED BY <1>1, <2>3, <2>5, <2>8
  <1>4. \A level \in 1 .. n + 1 : walk[level] \in 1 .. Len(nodes)
    <2> SUFFICES ASSUME NEW level \in 1 .. n + 1 PROVE walk[level] \in 1 .. Len(nodes)
      OBVIOUS
    <2>1. walk[level] # Len(nodes) + 1
      <3>1. level \notin T
        BY <1>3, Zenon
      <3> QED BY <3>1
    <2> DEFINE below == walk[level]
               last == Len(nodes)
    <2>2. below \in 1 .. last + 1 /\ below # last + 1 /\ last \in Nat
      BY <1>1, <2>1
    <2> HIDE DEF below, last
    <2>3. below \in 1 .. last
      BY <2>2
    <2> QED BY <2>3 DEF below, last
  <1>5. walk \in [1 .. n + 1 -> 1 .. Len(nodes)]
    BY <1>4
  <1>6. \A level \in 1 .. n : walk[level + 1] \in Below(nodes, walk[level])
    <2> SUFFICES ASSUME NEW level \in 1 .. n PROVE walk[level + 1] \in Below(nodes, walk[level])
      OBVIOUS
    <2>1. walk[level] \in 1 .. Len(nodes)
      BY <1>4
    <2> QED BY <1>1, <1>2, <2>1 DEF Below
  <1> QED BY <1>2, <1>5, <1>6 DEF IsDescent

(* A new node takes nothing from how far one can go down from the others.  *)
LEMMA OldNodesDescend ==
  ASSUME NEW nodes, Ordered(nodes), NEW node \in Node, NEW v \in 1 .. Len(nodes), NEW n \in Nat,
         ~Descends(nodes, v, n)
  PROVE  ~Descends(Append(nodes, node), v, n)
  <1> SUFFICES ASSUME Descends(Append(nodes, node), v, n) PROVE FALSE
    OBVIOUS
  <1>1. Len(Append(nodes, node)) = Len(nodes) + 1
    BY AppendProperties DEF Ordered
  <1>2. PICK walk \in [1 .. n + 1 -> 1 .. Len(nodes) + 1] : IsDescent(Append(nodes, node), v, n, walk)
    BY <1>1 DEF Descends
  <1> QED BY <1>2, DescentStays DEF Descends

(* One goes down from a new node by one level more than from its children. *)
LEMMA NewNodeDescends ==
  ASSUME NEW nodes, Ordered(nodes), NEW node \in Node, NEW n \in Nat,
         \A i \in 1 .. Len(node.children) :
           /\ node.children[i] \in 1 .. Len(nodes)
           /\ n > 0 /\ ~Descends(nodes, node.children[i], n)
  PROVE  ~Descends(Append(nodes, node), Len(nodes) + 1, n + 1)
  <1> DEFINE more == Append(nodes, node)
             v == Len(nodes) + 1
  <1>1. /\ Len(more) = Len(nodes) + 1 /\ Len(nodes) \in Nat /\ more[v] = node
    BY AppendProperties, LenProperties DEF Ordered
  <1> SUFFICES ASSUME Descends(more, v, n + 1) PROVE FALSE
    OBVIOUS
  <1> HIDE DEF more
  <1>2. PICK walk \in [1 .. (n + 1) + 1 -> 1 .. Len(nodes) + 1] : IsDescent(more, v, n + 1, walk)
    BY <1>1 DEF Descends
  <1>3. walk[1] = v /\ \A level \in 1 .. n + 1 : walk[level + 1] \in Below(more, walk[level])
    BY <1>2 DEF IsDescent
  <1>4. walk[2] \in Below(more, v)
    <2>1. 1 \in 1 .. n + 1 /\ 1 + 1 = 2
      OBVIOUS
    <2> QED BY <1>3, <2>1
  <1>5. PICK i \in 1 .. Len(node.children) : walk[2] = node.children[i]
    BY <1>1, <1>4 DEF Below
  <1> DEFINE w == node.children[i]
             rest == [level \in 1 .. n + 1 |-> walk[level + 1]]
  <1>6. w \in 1 .. Len(nodes) /\ ~Descends(nodes, w, n)
    OBVIOUS
  <1>7. rest \in [1 .. n + 1 -> 1 .. Len(nodes) + 1]
    <2>1. \A level \in 1 .. n + 1 : level + 1 \in 1 .. (n + 1) + 1
      OBVIOUS
    <2> QED BY <1>2, <2>1
  <1>8. IsDescent(more, w, n, rest)
    <2>1. rest[1] = w
      <3>1. 1 \in 1 .. n + 1 /\ 1 + 1 = 2
        OBVIOUS
      <3> QED BY <1>5, <3>1
    <2>2. ASSUME NEW level \in 1 .. n PROVE rest[level + 1] \in Below(more, rest[level])
      <3>1. level \in 1 .. n + 1 /\ level + 1 \in 1 .. n + 1
        OBVIOUS
      <3>2. walk[(level + 1) + 1] \in Below(more, walk[level + 1])
        BY <1>3, <3>1
      <3> QED BY <3>1, <3>2
    <2> HIDE DEF rest, w
    <2> QED BY <2>1, <2>2 DEF IsDescent
  <1> HIDE DEF rest, w
  <1>9. IsDescent(nodes, w, n, rest) /\ rest \in [1 .. n + 1 -> 1 .. Len(nodes)]
    BY <1>6, <1>7, <1>8, DescentStays DEF more
  <1> QED BY <1>6, <1>9 DEF Descends

-----------------------------------------------------------------------------
(* The limits are positive, the amounts natural numbers.                   *)
LEMMA Limits ==
  /\ MaxDepth \in Nat \ {0} /\ MaxNodes \in Nat \ {0} /\ MaxItems \in Nat \ {0}
  /\ MaxStringBytes \in Nat \ {0} /\ MaxCount \in Nat /\ KeyBytes \in Nat /\ TextBytes \in Nat
  BY LimitsAssumption

(* Noting the next key changes the keys of the innermost object only.      *)
LEMMA NotedKeeps ==
  ASSUME TypeOK, NEW key \in Keys
  PROVE  /\ Noted(key) \in Seq(Frame) /\ Len(Noted(key)) = Len(frames)
         /\ (Noted(key) = << >>) <=> (frames = << >>)
         /\ \A f \in 1 .. Len(frames) :
              /\ Noted(key)[f].kind = frames[f].kind
              /\ Noted(key)[f].count = frames[f].count
              /\ Noted(key)[f].children = frames[f].children
              /\ Noted(key)[f].keys = IF InObject /\ f = Len(frames)
                                      THEN Append(frames[f].keys, key) ELSE frames[f].keys
  <1>1. frames \in Seq(Frame) /\ Len(frames) \in Nat
    BY LenProperties DEF TypeOK
  <1>2. CASE ~InObject
    BY <1>1, <1>2 DEF Noted
  <1>3. CASE InObject
    <2> DEFINE n == Len(frames)
               frame == [frames[n] EXCEPT !.keys = Append(@, key)]
               noted == [frames EXCEPT ![n] = frame]
    <2>1. n \in 1 .. Len(frames) /\ frames[n] \in Frame
      BY <1>1, <1>3, EmptySeq, ElementOfSeq DEF InObject
    <2>2. frame \in Frame
      <3>1. Append(frames[n].keys, key) \in Seq(Keys)
        BY <2>1, AppendProperties DEF Frame
      <3> QED BY <2>1, <3>1 DEF Frame
    <2>3. frame.kind = frames[n].kind /\ frame.count = frames[n].count
          /\ frame.children = frames[n].children /\ frame.keys = Append(frames[n].keys, key)
      BY <2>1 DEF Frame
    <2>4. Noted(key) = noted
      BY <1>3 DEF Noted
    <2> HIDE DEF n, frame
    <2>5. /\ noted \in Seq(Frame) /\ Len(noted) = Len(frames)
          /\ \A f \in 1 .. Len(frames) : noted[f] = IF f = n THEN frame ELSE frames[f]
      BY <1>1, <2>1, <2>2, ExceptSeq
    <2> HIDE DEF noted
    <2>6. noted # << >> /\ frames # << >>
      BY <2>1, <2>5, EmptySeq
    <2> QED BY <1>3, <2>3, <2>4, <2>5, <2>6 DEF n
  <1> QED BY <1>2, <1>3

(* Delivering a node adds it to the innermost frame only, or it is the root. *)
LEMMA DeliverKeeps ==
  ASSUME TypeOK, NEW stack \in Seq(Frame), Deliver(stack)
  PROVE  /\ frames' \in Seq(Frame) /\ Len(frames') = Len(stack) /\ Len(stack) \in Nat
         /\ root' = IF stack = << >> THEN NewId ELSE root
         /\ stack = << >> <=> Len(stack) = 0
         /\ \A f \in 1 .. Len(stack) :
              /\ frames'[f].kind = stack[f].kind
              /\ frames'[f].count = stack[f].count
              /\ frames'[f].keys = stack[f].keys
              /\ frames'[f].children = IF f = Len(stack)
                                       THEN Append(stack[f].children, NewId) ELSE stack[f].children
  <1>1. Len(stack) \in Nat /\ (stack = << >> <=> Len(stack) = 0)
    BY LenProperties, EmptySeq
  <1>2. CASE stack = << >>
    BY <1>1, <1>2 DEF Deliver
  <1>3. CASE stack # << >>
    <2> DEFINE n == Len(stack)
               frame == [stack[n] EXCEPT !.children = Append(@, NewId)]
               longer == [stack EXCEPT ![n] = frame]
    <2>1. n \in 1 .. Len(stack) /\ stack[n] \in Frame
      BY <1>1, <1>3, ElementOfSeq
    <2>2. NewId \in Nat
      BY LenProperties DEF TypeOK, NewId
    <2>3. frame \in Frame
      <3>1. Append(stack[n].children, NewId) \in Seq(Nat)
        BY <2>1, <2>2, AppendProperties DEF Frame
      <3> QED BY <2>1, <3>1 DEF Frame
    <2>4. frame.kind = stack[n].kind /\ frame.count = stack[n].count
          /\ frame.keys = stack[n].keys /\ frame.children = Append(stack[n].children, NewId)
      BY <2>1 DEF Frame
    <2>5. frames' = longer /\ root' = root
      BY <1>3 DEF Deliver
    <2> HIDE DEF n, frame
    <2>6. /\ longer \in Seq(Frame) /\ Len(longer) = Len(stack)
          /\ \A f \in 1 .. Len(stack) : longer[f] = IF f = n THEN frame ELSE stack[f]
      BY <2>1, <2>3, ExceptSeq
    <2> HIDE DEF longer
    <2> QED BY <1>1, <1>3, <2>4, <2>5, <2>6 DEF n
  <1> QED BY <1>2, <1>3

(* A longer list of children.                                              *)
LEMMA OneMoreChild ==
  ASSUME NEW children \in Seq(Nat), NEW id \in Nat
  PROVE  \A i \in 1 .. Len(Append(children, id)) :
           Append(children, id)[i] = id
             \/ (i \in 1 .. Len(children) /\ Append(children, id)[i] = children[i])
  <1> DEFINE more == Append(children, id)
  <1>1. /\ Len(more) = Len(children) + 1 /\ Len(children) \in Nat
        /\ \A i \in 1 .. Len(children) : more[i] = children[i]
        /\ more[Len(children) + 1] = id
    BY AppendProperties, LenProperties
  <1> HIDE DEF more
  <1>2. \A i \in 1 .. Len(more) : i \in 1 .. Len(children) \/ i = Len(children) + 1
    BY <1>1
  <1>3. \A i \in 1 .. Len(more) : more[i] = id \/ (i \in 1 .. Len(children) /\ more[i] = children[i])
    BY <1>1, <1>2
  <1> QED BY <1>3 DEF more

(* A node whose children fit one level deeper is pushed and delivered:     *)
(* what leaves and closed aggregates have in common.                       *)
LEMMA PushKeeps ==
  ASSUME TypeOK, ChildrenFirst, Depths,
         NEW node \in Node, NEW stack \in Seq(Frame), values' = Append(values, node), Deliver(stack),
         Len(stack) <= Len(frames), Len(stack) <= MaxDepth,
         \A f \in 1 .. Len(stack) : stack[f].children = frames[f].children,
         \A i \in 1 .. Len(node.children) :
           /\ node.children[i] \in 1 .. Len(values)
           /\ MaxDepth - Len(stack) > 0
           /\ ~Descends(values, node.children[i], MaxDepth - Len(stack))
  PROVE  ChildrenFirst' /\ Depths'
  <1> DEFINE n == Len(values)
             d == Len(stack)
  <1>1. /\ values \in Seq(Node) /\ n \in Nat /\ Len(values') = n + 1 /\ values'[n + 1] = node
        /\ \A v \in 1 .. n : values'[v] = values[v]
    BY AppendProperties, LenProperties DEF TypeOK
  <1>2. Ordered(values)
    BY <1>1 DEF Ordered, ChildrenFirst
  <1>3. NewId = n + 1 /\ MaxDepth \in Nat
    BY Limits DEF NewId
  <1>4. /\ frames' \in Seq(Frame) /\ Len(frames') = d /\ d \in Nat
        /\ root' = IF d = 0 THEN n + 1 ELSE root
        /\ \A f \in 1 .. d : frames'[f].children =
             IF f = d THEN Append(frames[f].children, n + 1) ELSE frames[f].children
    <2>1. /\ frames' \in Seq(Frame) /\ Len(frames') = d /\ d \in Nat
          /\ root' = IF stack = << >> THEN NewId ELSE root
          /\ stack = << >> <=> d = 0
          /\ \A f \in 1 .. d : frames'[f].children =
               IF f = d THEN Append(stack[f].children, NewId) ELSE stack[f].children
      BY DeliverKeeps
    <2>2. root' = IF d = 0 THEN n + 1 ELSE root
      BY <1>3, <2>1
    <2>3. \A f \in 1 .. d : stack[f].children = frames[f].children
      OBVIOUS
    <2> HIDE DEF d, n
    <2>4. \A f \in 1 .. d : frames'[f].children =
            IF f = d THEN Append(frames[f].children, n + 1) ELSE frames[f].children
      BY <1>3, <2>1, <2>3
    <2> QED BY <2>1, <2>2, <2>4
  <1>5. Len(frames) \in Nat /\ \A f \in 1 .. d : f \in 1 .. Len(frames) /\ frames[f].children \in Seq(Nat)
    <2>1. frames \in Seq(Frame) /\ Len(frames) \in Nat
      BY LenProperties DEF TypeOK
    <2>2. d \in Nat /\ d <= Len(frames)
      BY <1>4
    <2> HIDE DEF d
    <2>3. \A f \in 1 .. d : f \in 1 .. Len(frames)
      BY <2>1, <2>2
    <2>4. \A f \in 1 .. Len(frames) : frames[f] \in Frame
      BY <2>1, ElementOfSeq
    <2> QED BY <2>1, <2>3, <2>4 DEF Frame
  <1>6. ASSUME NEW f \in 1 .. d, NEW i \in 1 .. Len(frames'[f].children)
        PROVE  \/ f = d /\ frames'[f].children[i] = n + 1
               \/ i \in 1 .. Len(frames[f].children) /\ frames'[f].children[i] = frames[f].children[i]
    <2>1. frames[f].children \in Seq(Nat) /\ n + 1 \in Nat
      BY <1>1, <1>5
    <2> DEFINE children == frames[f].children
               more == Append(children, n + 1)
    <2>2. \A k \in 1 .. Len(more) : more[k] = n + 1 \/ (k \in 1 .. Len(children) /\ more[k] = children[k])
      BY <2>1, OneMoreChild
    <2>3. frames'[f].children = IF f = d THEN more ELSE children
      BY <1>4
    <2> HIDE DEF n, more, children
    <2>4. CASE f = d
      BY <2>2, <2>3, <2>4 DEF children
    <2>5. CASE f # d
      BY <2>3, <2>5 DEF children
    <2> QED BY <2>4, <2>5
  <1>7. ~Descends(values', n + 1, MaxDepth - d + 1)
    <2> DEFINE room == MaxDepth - d
    <2>1. room \in Nat
      BY <1>3, <1>4
    <2>2. \A i \in 1 .. Len(node.children) :
            /\ node.children[i] \in 1 .. Len(values)
            /\ room > 0 /\ ~Descends(values, node.children[i], room)
      OBVIOUS
    <2> HIDE DEF room
    <2>3. ~Descends(Append(values, node), Len(values) + 1, room + 1)
      BY <1>2, <2>1, <2>2, NewNodeDescends
    <2> QED BY <2>3 DEF room
  <1>8. ASSUME NEW v \in 1 .. n, NEW room \in Nat, ~Descends(values, v, room)
        PROVE  ~Descends(values', v, room)
    BY <1>2, <1>8, OldNodesDescend
  <1>9. ChildrenFirst'
    <2>1. \A v \in 1 .. n + 1 : \A i \in 1 .. Len(values'[v].children) :
            values'[v].children[i] \in 1 .. v - 1
      <3> SUFFICES ASSUME NEW v \in 1 .. n + 1, NEW i \in 1 .. Len(values'[v].children)
                   PROVE  values'[v].children[i] \in 1 .. v - 1
        OBVIOUS
      <3>1. CASE v = n + 1
        <4>1. values'[v] = node /\ v - 1 = n
          BY <1>1, <3>1
        <4> QED BY <4>1
      <3>2. CASE v # n + 1
        <4>1. v \in 1 .. n /\ values'[v] = values[v]
          BY <1>1, <3>2
        <4> QED BY <4>1 DEF ChildrenFirst
      <3> QED BY <3>1, <3>2
    <2>2. \A f \in 1 .. d : \A i \in 1 .. Len(frames'[f].children) :
            frames'[f].children[i] \in 1 .. n + 1
      <3> SUFFICES ASSUME NEW f \in 1 .. d, NEW i \in 1 .. Len(frames'[f].children)
                   PROVE  frames'[f].children[i] \in 1 .. n + 1
        OBVIOUS
      <3>1. CASE frames'[f].children[i] = n + 1
        BY <1>1, <3>1
      <3>2. CASE i \in 1 .. Len(frames[f].children) /\ frames'[f].children[i] = frames[f].children[i]
        <4>1. frames[f].children[i] \in 1 .. n
          BY <1>5, <3>2 DEF ChildrenFirst
        <4> QED BY <1>1, <3>2, <4>1
      <3> QED BY <1>6, <3>1, <3>2
    <2>3. root' \in 0 .. n + 1
      BY <1>1, <1>4 DEF ChildrenFirst
    <2> QED BY <1>1, <1>4, <2>1, <2>2, <2>3 DEF ChildrenFirst
  <1>10. ASSUME NEW f \in 1 .. d, NEW i \in 1 .. Len(frames'[f].children)
         PROVE  f <= MaxDepth /\ ~Descends(values', frames'[f].children[i], MaxDepth - f + 1)
    <2>1. f <= MaxDepth /\ MaxDepth - f + 1 \in Nat
      BY <1>3, <1>4
    <2>2. CASE f = d /\ frames'[f].children[i] = n + 1
      BY <1>7, <2>1, <2>2
    <2>3. CASE i \in 1 .. Len(frames[f].children) /\ frames'[f].children[i] = frames[f].children[i]
      <3>1. frames[f].children[i] \in 1 .. n /\ ~Descends(values, frames[f].children[i], MaxDepth - f + 1)
        BY <1>5, <2>3 DEF ChildrenFirst, Depths
      <3> QED BY <1>8, <2>1, <2>3, <3>1
    <2> QED BY <1>6, <2>2, <2>3
  <1>11. root' # 0 => ~Descends(values', root', MaxDepth + 1)
    <2>1. CASE d = 0
      BY <1>3, <1>4, <1>7, <2>1
    <2>2. CASE d # 0 /\ root # 0
      <3>1. root \in 1 .. n /\ ~Descends(values, root, MaxDepth + 1) /\ MaxDepth + 1 \in Nat
        BY <1>1, <1>3, <2>2 DEF ChildrenFirst, Depths
      <3> QED BY <1>4, <1>8, <2>2, <3>1
    <2>3. CASE d # 0 /\ root = 0
      BY <1>4, <2>3
    <2> QED BY <2>1, <2>2, <2>3
  <1>12. Len(frames') <= MaxDepth + 1
    BY <1>3, <1>4
  <1> QED BY <1>4, <1>9, <1>10, <1>11, <1>12 DEF Depths

-----------------------------------------------------------------------------
(* A key that was not seen keeps the keys distinct.                        *)
LEMMA NotedDistinct ==
  ASSUME TypeOK, OpenKeysDistinct, adapter = "json", NEW key \in Keys, KeyAccepted(key)
  PROVE  \A f \in 1 .. Len(frames) : Distinct(Noted(key)[f].keys)
  <1> SUFFICES ASSUME NEW f \in 1 .. Len(frames) PROVE Distinct(Noted(key)[f].keys)
    OBVIOUS
  <1> DEFINE keys == frames[f].keys
             more == Append(keys, key)
  <1>1. Distinct(keys) /\ keys \in Seq(Keys)
    <2>1. frames \in Seq(Frame)
      BY DEF TypeOK
    <2>2. frames[f] \in Frame
      BY <2>1, ElementOfSeq
    <2> QED BY <2>2 DEF OpenKeysDistinct, Frame
  <1>2. CASE ~(InObject /\ f = Len(frames))
    BY <1>1, <1>2, NotedKeeps
  <1>3. CASE InObject /\ f = Len(frames)
    <2>1. \A i \in 1 .. Len(keys) : keys[i] # key
      BY <1>3 DEF KeyAccepted, SeenKeys, Last
    <2>2. /\ Len(more) = Len(keys) + 1 /\ Len(keys) \in Nat
          /\ \A i \in 1 .. Len(keys) : more[i] = keys[i]
          /\ more[Len(keys) + 1] = key
      BY <1>1, AppendProperties, LenProperties
    <2>3. Noted(key)[f].keys = more
      BY <1>3, NotedKeeps
    <2> HIDE DEF keys, more
    <2>4. \A i \in 1 .. Len(more) : i \in 1 .. Len(keys) \/ i = Len(keys) + 1
      BY <2>2
    <2>5. Distinct(more)
      BY <1>1, <2>1, <2>2, <2>4 DEF Distinct
    <2> QED BY <2>3, <2>5
  <1> QED BY <1>2, <1>3

(* A path is the position of a stack when it has its edges.                *)
Inside(stack) == IF stack = << >> THEN 0 ELSE Len(stack) - 1

LEMMA PositionMeans ==
  ASSUME NEW S, NEW p \in Seq(S), NEW stack \in Seq(Frame)
  PROVE  /\ Inside(stack) \in Nat
         /\ p = [f \in 1 .. Inside(stack) |-> EdgeInProgress(stack[f])]
              <=> /\ Len(p) = Inside(stack)
                  /\ \A f \in 1 .. Inside(stack) : p[f] = EdgeInProgress(stack[f])
  <1>1. Inside(stack) \in Nat
    BY EmptySeq, LenProperties DEF Inside
  <1>2. Len(p) \in Nat /\ p \in [1 .. Len(p) -> S] /\ DOMAIN p = 1 .. Len(p)
    BY LenProperties
  <1> DEFINE n == Inside(stack)
             position == [f \in 1 .. n |-> EdgeInProgress(stack[f])]
  <1>3. ASSUME p = position PROVE Len(p) = n /\ \A f \in 1 .. n : p[f] = EdgeInProgress(stack[f])
    <2>1. 1 .. Len(p) = 1 .. n
      BY <1>2, <1>3
    <2> HIDE DEF n
    <2>2. Len(p) = n
      <3> DEFINE l == Len(p)
      <3>1. n \in Nat /\ l \in Nat /\ 1 .. l = 1 .. n
        BY <1>1, <1>2, <2>1 DEF n
      <3> HIDE DEF l
      <3>2. (l > 0 => l \in 1 .. l) /\ (n > 0 => n \in 1 .. n)
        BY <3>1
      <3>3. (l > 0 => l <= n) /\ (n > 0 => n <= l)
        BY <3>1, <3>2
      <3>4. l = n
        BY <3>1, <3>3
      <3> QED BY <3>4 DEF l
    <2> QED BY <1>3, <2>2
  <1>4. ASSUME Len(p) = n, \A f \in 1 .. n : p[f] = EdgeInProgress(stack[f]) PROVE p = position
    BY <1>2, <1>4
  <1> QED BY <1>1, <1>3, <1>4

(* The path of a call is a path, and leads below its aggregate.            *)
LEMMA PathToKeeps ==
  ASSUME TypeOK, NEW key \in Keys
  PROVE  /\ path \in Seq(Keys \cup Nat) /\ PathTo(key) \in Seq(Keys \cup Nat)
         /\ adapter = "json" /\ frames # << >> =>
              /\ Len(PathTo(key)) = Len(path) + 1
              /\ \A f \in 1 .. Len(path) : PathTo(key)[f] = path[f]
              /\ PathTo(key)[Len(path) + 1] = IF InObject THEN key ELSE Len(Last(frames).children)
  <1> DEFINE edge == IF InObject THEN key ELSE Len(Last(frames).children)
  <1>1. path \in Seq(Keys \cup Nat)
    BY DEF TypeOK
  <1>2. CASE frames = << >> \/ adapter = "native"
    BY <1>1, <1>2 DEF PathTo
  <1>3. CASE ~(frames = << >> \/ adapter = "native")
    <2>1. frames \in Seq(Frame)
      BY DEF TypeOK
    <2>2. Last(frames) \in Frame
      BY <1>3, <2>1, LastAndPop
    <2>3. edge \in Keys \cup Nat
      <3>1. Len(Last(frames).children) \in Nat
        BY <2>2, LenProperties DEF Frame
      <3> QED BY <3>1
    <2>4. PathTo(key) = Append(path, edge)
      BY <1>3 DEF PathTo
    <2> HIDE DEF edge
    <2>5. /\ Append(path, edge) \in Seq(Keys \cup Nat) /\ Len(Append(path, edge)) = Len(path) + 1
          /\ \A f \in 1 .. Len(path) : Append(path, edge)[f] = path[f]
          /\ Append(path, edge)[Len(path) + 1] = edge
      BY <1>1, <2>3, AppendProperties
    <2> QED BY <1>1, <2>4, <2>5 DEF edge
  <1> QED BY <1>2, <1>3

-----------------------------------------------------------------------------
(* Before the walk there is nothing.                                       *)
LEMMA InitIInv == Init => IInv
  <1> SUFFICES ASSUME Init PROVE IInv
    OBVIOUS
  <1>1. TypeOK
    <2>1. << >> \in Seq(Node) /\ << >> \in Seq(Frame) /\ << >> \in Seq(Keys \cup Nat)
      BY EmptySeq
    <2> QED BY <2>1 DEF Init, TypeOK
  <1>2. Len(values) = 0 /\ Len(frames) = 0 /\ root = 0 /\ status = "source" /\ stringBytes = 0
    BY EmptySeq DEF Init
  <1> QED BY <1>1, <1>2, Limits
        DEF IInv, Init, ChildrenFirst, OpenKeysDistinct, KeysDistinct, Depths, Amounts, PathIsPosition

(* A refused value changes the path only.                                  *)
LEMMA RefuseKeeps ==
  ASSUME IInv, NEW p \in Seq(Keys \cup Nat), RefuseAt(p)
  PROVE  IInv'
  <1>1. /\ status' = "refused" /\ path' = p
        /\ UNCHANGED <<adapter, values, stringBytes, frames, root>>
    BY DEF RefuseAt
  <1> QED BY <1>1 DEF IInv, TypeOK, ChildrenFirst, OpenKeysDistinct, KeysDistinct, Depths, Amounts,
                      PathIsPosition

(* Opening, and finishing when the root is there.                          *)
LEMMA OpenKeeps == IInv /\ Open => IInv'
  <1> SUFFICES ASSUME IInv, Open PROVE IInv'
    OBVIOUS
  <1>1. /\ status = "source" /\ status' \in {"open", "refused"}
        /\ UNCHANGED <<adapter, values, stringBytes, frames, path, root>>
    BY DEF Open
  <1>2. PathIsPosition'
    <2>1. path = << >> /\ frames = << >>
      BY <1>1 DEF IInv, Amounts
    <2>2. path \in Seq(Keys \cup Nat) /\ frames \in Seq(Frame) /\ Inside(frames) = 0 /\ Len(path) = 0
      BY <2>1, EmptySeq DEF Inside
    <2>3. path = [f \in 1 .. Inside(frames) |-> EdgeInProgress(frames[f])]
      BY <2>2, PositionMeans
    <2> QED BY <1>1, <2>3 DEF PathIsPosition, Inside, EdgeInProgress, Last
  <1> QED BY <1>1, <1>2 DEF IInv, TypeOK, ChildrenFirst, OpenKeysDistinct, KeysDistinct, Depths, Amounts

(* The walk ends with the root.                                            *)
LEMMA FinishKeeps == IInv /\ Finish => IInv'
  <1> SUFFICES ASSUME IInv, Finish PROVE IInv'
    OBVIOUS
  <1>1. /\ status' = "finished" /\ root # 0
        /\ UNCHANGED <<adapter, values, stringBytes, frames, path, root>>
    BY DEF Finish
  <1> QED BY <1>1 DEF IInv, TypeOK, ChildrenFirst, OpenKeysDistinct, KeysDistinct, Depths, Amounts,
                      PathIsPosition

(* A leaf is refused, or pushed and delivered below the noted key.         *)
LEMMA PushLeafKeeps ==
  ASSUME IInv, NEW key \in Keys, NEW leaf \in Leaves, PushLeaf(key, leaf)
  PROVE  IInv'
  <1> DEFINE total == stringBytes + KeyAmount + (IF leaf = "text" THEN TextBytes ELSE 0)
             node == [keys |-> << >>, children |-> << >>]
             stack == Noted(key)
             fits == Admitted /\ leaf # "long_number" /\ total <= MaxStringBytes
  <1>1. TypeOK /\ status = "open" /\ KeyAmount \in Nat /\ total \in Nat
    BY Limits DEF IInv, TypeOK, PushLeaf, Due, KeyAmount
  <1>2. path \in Seq(Keys \cup Nat) /\ PathTo(key) \in Seq(Keys \cup Nat)
    BY <1>1, PathToKeeps
  <1>3. CASE RefuseAt(path) \/ RefuseAt(PathTo(key))
    BY <1>2, <1>3, RefuseKeeps
  <1>4. CASE /\ KeyAccepted(key) /\ fits
             /\ values' = Append(values, node) /\ stringBytes' = total
             /\ Deliver(stack) /\ UNCHANGED <<adapter, status, path>>
    <2>1. /\ stack \in Seq(Frame) /\ Len(stack) = Len(frames) /\ (stack = << >> <=> frames = << >>)
          /\ \A f \in 1 .. Len(frames) :
               /\ stack[f].kind = frames[f].kind /\ stack[f].count = frames[f].count
               /\ stack[f].children = frames[f].children
               /\ f < Len(frames) => stack[f].keys = frames[f].keys
      BY <1>1, NotedKeeps
    <2>2. frames \in Seq(Frame) /\ values \in Seq(Node) /\ Len(frames) \in Nat /\ Len(values) \in Nat
      BY <1>1, LenProperties DEF TypeOK
    <2>3. node \in Node /\ Len(node.children) = 0 /\ Len(node.keys) = 0
      BY EmptySeq DEF Node
    <2>4. Len(frames) <= MaxDepth /\ Len(values) < MaxNodes
      BY <1>4 DEF Admitted
    <2> HIDE DEF node, stack
    <2>5. ChildrenFirst' /\ Depths'
      <3>1. /\ values' = Append(values, node) /\ Deliver(stack) /\ Len(stack) <= Len(frames)
            /\ Len(stack) <= MaxDepth /\ \A f \in 1 .. Len(stack) : stack[f].children = frames[f].children
        BY <1>4, <2>1, <2>2, <2>4
      <3>2. \A i \in 1 .. Len(node.children) :
              /\ node.children[i] \in 1 .. Len(values)
              /\ MaxDepth - Len(stack) > 0
              /\ ~Descends(values, node.children[i], MaxDepth - Len(stack))
        BY <2>3
      <3>3. TypeOK /\ ChildrenFirst /\ Depths
        BY DEF IInv
      <3> QED BY <2>1, <2>3, <3>1, <3>2, <3>3, PushKeeps
    <2>6. /\ frames' \in Seq(Frame) /\ Len(frames') = Len(frames)
          /\ root' = IF stack = << >> THEN NewId ELSE root
          /\ \A f \in 1 .. Len(frames) :
               /\ frames'[f].kind = stack[f].kind /\ frames'[f].keys = stack[f].keys
               /\ f # Len(frames) => frames'[f].children = stack[f].children
      BY <1>1, <1>4, <2>1, DeliverKeeps
    <2>7. /\ values' \in Seq(Node) /\ Len(values') = Len(values) + 1 /\ values'[Len(values) + 1] = node
          /\ \A v \in 1 .. Len(values) : values'[v] = values[v]
      BY <1>4, <2>2, <2>3, AppendProperties
    <2>8. TypeOK'
      <3>1. root' \in Nat
        BY <1>1, <2>2, <2>6 DEF TypeOK, NewId
      <3> QED BY <1>1, <1>4, <2>6, <2>7, <3>1 DEF TypeOK
    <2>9. OpenKeysDistinct'
      <3> SUFFICES ASSUME adapter = "json" PROVE \A f \in 1 .. Len(frames) : Distinct(frames'[f].keys)
        BY <1>4, <2>6 DEF OpenKeysDistinct
      <3>1. \A f \in 1 .. Len(frames) : Distinct(stack[f].keys)
        BY <1>1, <1>4, NotedDistinct DEF stack, IInv
      <3> QED BY <2>6, <3>1
    <2>10. KeysDistinct'
      <3> SUFFICES ASSUME adapter = "json", NEW v \in 1 .. Len(values) + 1
                   PROVE  Distinct(values'[v].keys)
        BY <1>4, <2>7 DEF KeysDistinct, Distinct
      <3>1. CASE v = Len(values) + 1
        BY <2>3, <2>7, <3>1 DEF Distinct
      <3>2. CASE v # Len(values) + 1
        <4>1. v \in 1 .. Len(values)
          BY <2>2, <3>2
        <4> QED BY <2>7, <4>1 DEF IInv, KeysDistinct, Distinct
      <3> QED BY <3>1, <3>2
    <2>11. Amounts'
      <3>1. Len(values') + Len(frames') <= MaxNodes + MaxDepth
        BY <2>2, <2>4, <2>6, <2>7, Limits
      <3> QED BY <1>1, <1>4, <3>1 DEF Amounts
    <2>12. PathIsPosition'
      <3> SUFFICES ASSUME adapter = "json"
                   PROVE  path = [f \in 1 .. Inside(frames') |-> EdgeInProgress(frames'[f])]
        BY <1>4 DEF PathIsPosition, Inside, EdgeInProgress, Last
      <3>1. path = [f \in 1 .. Inside(frames) |-> EdgeInProgress(frames[f])]
        BY <1>1 DEF IInv, PathIsPosition, Inside
      <3>2. Inside(frames') = Inside(frames)
        BY <2>2, <2>6, EmptySeq DEF Inside
      <3>3. ASSUME NEW f \in 1 .. Inside(frames)
            PROVE  EdgeInProgress(frames'[f]) = EdgeInProgress(frames[f])
        <4>1. f \in 1 .. Len(frames) /\ f < Len(frames)
          BY <2>2, <3>3, EmptySeq DEF Inside
        <4> QED BY <2>1, <2>6, <4>1 DEF EdgeInProgress
      <3> QED BY <3>1, <3>2, <3>3
    <2> QED BY <2>5, <2>8, <2>9, <2>10, <2>11, <2>12 DEF IInv
  <1>5. total > MaxStringBytes <=> ~(total <= MaxStringBytes)
    BY <1>1, Limits
  <1> QED BY <1>3, <1>4, <1>5 DEF PushLeaf

(* An aggregate is refused, or opened as the innermost one.                *)
LEMMA OpenAggregateKeeps ==
  ASSUME IInv, NEW key \in Keys, NEW kind \in AggregateKinds, NEW n \in 0 .. MaxCount,
         OpenAggregate(key, kind, n)
  PROVE  IInv'
  <1> DEFINE frame == [kind |-> kind, keys |-> << >>, children |-> << >>,
                       count |-> IF kind = "mapping" THEN 2 * n ELSE n]
             stack == Noted(key)
  <1>1. TypeOK /\ status = "open" /\ n \in Nat /\ KeyAmount \in Nat
    BY Limits DEF IInv, OpenAggregate, Due, KeyAmount
  <1>2. path \in Seq(Keys \cup Nat) /\ PathTo(key) \in Seq(Keys \cup Nat)
    BY <1>1, PathToKeeps
  <1>3. CASE RefuseAt(path) \/ RefuseAt(PathTo(key))
    BY <1>2, <1>3, RefuseKeeps
  <1>4. CASE /\ KeyAccepted(key) /\ Admitted
             /\ frames' = Append(stack, frame) /\ stringBytes' = stringBytes + KeyAmount
             /\ path' = PathTo(key) /\ UNCHANGED <<adapter, status, values, root>>
    <2>1. /\ stack \in Seq(Frame) /\ Len(stack) = Len(frames) /\ (stack = << >> <=> frames = << >>)
          /\ \A f \in 1 .. Len(frames) :
               /\ stack[f].kind = frames[f].kind /\ stack[f].children = frames[f].children
               /\ stack[f].keys = IF InObject /\ f = Len(frames)
                                  THEN Append(frames[f].keys, key) ELSE frames[f].keys
      BY <1>1, NotedKeeps
    <2>2. frames \in Seq(Frame) /\ values \in Seq(Node) /\ Len(frames) \in Nat /\ Len(values) \in Nat
      BY <1>1, LenProperties DEF TypeOK
    <2>3. frame \in Frame /\ Len(frame.children) = 0 /\ Len(frame.keys) = 0
      <3>1. << >> \in Seq(Keys) /\ << >> \in Seq(Nat) /\ Len(<< >>) = 0
        BY EmptySeq
      <3>2. kind \in {"sequence", "object", "mapping"} /\ 2 * n \in Nat
        BY <1>1 DEF AggregateKinds
      <3> QED BY <1>1, <3>1, <3>2 DEF Frame
    <2>4. Len(frames) <= MaxDepth /\ Len(values) < MaxNodes
      BY <1>4 DEF Admitted
    <2> HIDE DEF frame, stack
    <2>5. /\ frames' \in Seq(Frame) /\ Len(frames') = Len(frames) + 1 /\ frames' # << >>
          /\ frames'[Len(frames) + 1] = frame
          /\ \A f \in 1 .. Len(frames) : frames'[f] = stack[f]
      BY <1>4, <2>1, <2>3, AppendProperties
    <2>6. \A f \in 1 .. Len(frames') : f = Len(frames) + 1 \/ f \in 1 .. Len(frames)
      BY <2>2, <2>5
    <2>7. TypeOK'
      BY <1>1, <1>2, <1>4, <2>5 DEF TypeOK
    <2>8. ChildrenFirst'
      <3>1. \A f \in 1 .. Len(frames') : \A i \in 1 .. Len(frames'[f].children) :
              frames'[f].children[i] \in 1 .. Len(values)
        <4> SUFFICES ASSUME NEW f \in 1 .. Len(frames'), NEW i \in 1 .. Len(frames'[f].children)
                     PROVE  frames'[f].children[i] \in 1 .. Len(values)
          OBVIOUS
        <4>1. CASE f = Len(frames) + 1
          BY <2>3, <2>5, <4>1
        <4>2. CASE f \in 1 .. Len(frames)
          <5>1. frames'[f].children = frames[f].children
            BY <2>1, <2>5, <4>2
          <5> QED BY <4>2, <5>1 DEF IInv, ChildrenFirst
        <4> QED BY <2>6, <4>1, <4>2
      <3> QED BY <1>4, <3>1 DEF IInv, ChildrenFirst
    <2>9. Depths'
      <3>1. \A f \in 1 .. Len(frames') : \A i \in 1 .. Len(frames'[f].children) :
              f <= MaxDepth /\ ~Descends(values, frames'[f].children[i], MaxDepth - f + 1)
        <4> SUFFICES ASSUME NEW f \in 1 .. Len(frames'), NEW i \in 1 .. Len(frames'[f].children)
                     PROVE  f <= MaxDepth /\ ~Descends(values, frames'[f].children[i], MaxDepth - f + 1)
          OBVIOUS
        <4>1. CASE f = Len(frames) + 1
          BY <2>3, <2>5, <4>1
        <4>2. CASE f \in 1 .. Len(frames)
          <5>1. frames'[f].children = frames[f].children
            BY <2>1, <2>5, <4>2
          <5> QED BY <4>2, <5>1 DEF IInv, Depths
        <4> QED BY <2>6, <4>1, <4>2
      <3>2. Len(frames') <= MaxDepth + 1
        BY <2>2, <2>4, <2>5, Limits
      <3> QED BY <1>4, <3>1, <3>2 DEF IInv, Depths
    <2>10. OpenKeysDistinct'
      <3> SUFFICES ASSUME adapter = "json", NEW f \in 1 .. Len(frames') PROVE Distinct(frames'[f].keys)
        BY <1>4 DEF OpenKeysDistinct
      <3>1. CASE f = Len(frames) + 1
        BY <2>3, <2>5, <3>1 DEF Distinct
      <3>2. CASE f \in 1 .. Len(frames)
        <4>1. Distinct(stack[f].keys)
          BY <1>1, <1>4, <3>2, NotedDistinct DEF stack, IInv
        <4> QED BY <2>5, <3>2, <4>1
      <3> QED BY <2>6, <3>1, <3>2
    <2>11. KeysDistinct'
      BY <1>4 DEF IInv, KeysDistinct
    <2>12. Amounts'
      <3>1. Len(values) + Len(frames') <= MaxNodes + MaxDepth
        BY <2>2, <2>4, <2>5, Limits
      <3>2. stringBytes + KeyAmount <= MaxStringBytes
        BY <1>1, <1>4, Limits DEF KeyAccepted, KeyAmount, IInv, Amounts, TypeOK
      <3> QED BY <1>1, <1>4, <3>1, <3>2 DEF Amounts
    <2>13. PathIsPosition'
      <3> SUFFICES ASSUME adapter = "json"
                   PROVE  path' = [f \in 1 .. Inside(frames') |-> EdgeInProgress(frames'[f])]
        BY <1>4 DEF PathIsPosition, Inside, EdgeInProgress, Last
      <3>1. Inside(frames') = Len(frames)
        BY <2>2, <2>5 DEF Inside
      <3>2. /\ Len(path) = Inside(frames)
            /\ \A f \in 1 .. Inside(frames) : path[f] = EdgeInProgress(frames[f])
        <4>1. path = [f \in 1 .. Inside(frames) |-> EdgeInProgress(frames[f])]
          BY <1>1 DEF IInv, PathIsPosition, Inside
        <4> QED BY <1>2, <2>2, <4>1, PositionMeans
      <3>3. Len(path') = Len(frames) /\ \A f \in 1 .. Len(frames) : path'[f] = EdgeInProgress(frames'[f])
        <4>1. CASE frames = << >>
          BY <1>4, <2>2, <3>2, <4>1, EmptySeq DEF PathTo, Inside
        <4>2. CASE frames # << >>
          <5>1. Len(path) = Len(frames) - 1 /\ Len(frames) \in Nat \ {0}
            BY <2>2, <3>2, <4>2, EmptySeq DEF Inside
          <5>2. /\ Len(path') = Len(path) + 1
                /\ \A f \in 1 .. Len(path) : path'[f] = path[f]
                /\ path'[Len(path) + 1] = IF InObject THEN key ELSE Len(Last(frames).children)
            BY <1>1, <1>4, <4>2, PathToKeeps
          <5>3. path'[Len(frames)] = EdgeInProgress(frames'[Len(frames)])
            <6> DEFINE last == Len(frames)
            <6>1. last \in 1 .. Len(frames) /\ frames[last] \in Frame /\ Last(frames) = frames[last]
              BY <2>2, <5>1, ElementOfSeq DEF Last
            <6>2. frames'[last] = stack[last]
              BY <2>5, <6>1
            <6>3. CASE InObject
              <7>1. frames[last].keys \in Seq(Keys)
                BY <6>1 DEF Frame
              <7>2. Last(Append(frames[last].keys, key)) = key
                BY <7>1, AppendProperties DEF Last
              <7>3. frames'[last].keys = Append(frames[last].keys, key) /\ frames'[last].kind = "object"
                BY <2>1, <6>1, <6>2, <6>3 DEF InObject
              <7> QED BY <5>1, <5>2, <6>3, <7>2, <7>3 DEF EdgeInProgress
            <6>4. CASE ~InObject
              <7>1. frames'[last].children = Last(frames).children /\ frames'[last].kind # "object"
                BY <2>1, <4>2, <6>1, <6>2, <6>4 DEF InObject
              <7> QED BY <5>1, <5>2, <6>4, <7>1 DEF EdgeInProgress
            <6> QED BY <6>3, <6>4
          <5>4. ASSUME NEW f \in 1 .. Len(frames), f # Len(frames)
                PROVE  path'[f] = EdgeInProgress(frames'[f])
            <6>1. f \in 1 .. Len(path) /\ f \in 1 .. Inside(frames)
              BY <3>2, <5>1, <5>4
            <6>2. /\ frames'[f] = stack[f] /\ stack[f].keys = frames[f].keys
                  /\ stack[f].kind = frames[f].kind /\ stack[f].children = frames[f].children
              BY <2>1, <2>5, <5>4
            <6>3. EdgeInProgress(frames'[f]) = EdgeInProgress(frames[f])
              BY <6>2 DEF EdgeInProgress
            <6> QED BY <3>2, <5>2, <6>1, <6>3
          <5> QED BY <5>1, <5>2, <5>3, <5>4
        <4> QED BY <4>1, <4>2
      <3>4. path' \in Seq(Keys \cup Nat)
        BY <1>2, <1>4
      <3> QED BY <2>5, <3>1, <3>3, <3>4, PositionMeans
    <2> QED BY <2>7, <2>8, <2>9, <2>10, <2>11, <2>12, <2>13 DEF IInv
  <1> QED BY <1>3, <1>4 DEF OpenAggregate

(* The innermost aggregate becomes a node of the frame below it.           *)
LEMMA CloseAggregateKeeps == IInv /\ CloseAggregate => IInv'
  <1> SUFFICES ASSUME IInv, CloseAggregate PROVE IInv'
    OBVIOUS
  <1> DEFINE m == Len(frames)
             last == frames[m]
             node == [keys |-> last.keys, children |-> last.children]
             stack == Pop(frames)
  <1>1. /\ TypeOK /\ status = "open" /\ frames # << >> /\ Last(frames) = last
        /\ values' = Append(values, node) /\ path' = PathAfterReturn /\ Deliver(stack)
        /\ UNCHANGED <<adapter, status, stringBytes>>
    BY DEF IInv, CloseAggregate, Last
  <1>2. frames \in Seq(Frame) /\ values \in Seq(Node) /\ Len(values) \in Nat
        /\ path \in Seq(Keys \cup Nat)
    BY <1>1, LenProperties DEF TypeOK
  <1>3. /\ m \in Nat \ {0} /\ stack \in Seq(Frame) /\ Len(stack) = m - 1
        /\ \A f \in 1 .. m - 1 : stack[f] = frames[f]
    BY <1>1, <1>2, LastAndPop
  <1>4. m \in 1 .. Len(frames) /\ last \in Frame /\ node \in Node
    <2>1. m \in 1 .. Len(frames)
      BY <1>3
    <2>2. last \in Frame
      BY <1>2, <2>1, ElementOfSeq
    <2> QED BY <2>1, <2>2 DEF Frame, Node
  <1>5. node.keys = last.keys /\ node.children = last.children
    OBVIOUS
  <1> HIDE DEF node, stack, last
  <1>6. ChildrenFirst' /\ Depths'
    <2>1. Len(stack) <= Len(frames) /\ Len(stack) <= MaxDepth
      BY <1>3, Limits DEF IInv, Depths
    <2>2. \A f \in 1 .. Len(stack) : stack[f].children = frames[f].children
      BY <1>3
    <2>3. \A i \in 1 .. Len(node.children) :
            /\ node.children[i] \in 1 .. Len(values)
            /\ MaxDepth - Len(stack) > 0
            /\ ~Descends(values, node.children[i], MaxDepth - Len(stack))
      <3> SUFFICES ASSUME NEW i \in 1 .. Len(last.children)
                   PROVE  /\ last.children[i] \in 1 .. Len(values)
                          /\ MaxDepth - Len(stack) > 0
                          /\ ~Descends(values, last.children[i], MaxDepth - Len(stack))
        BY <1>5
      <3>1. /\ last.children[i] \in 1 .. Len(values)
            /\ m <= MaxDepth /\ ~Descends(values, last.children[i], MaxDepth - m + 1)
        BY <1>4 DEF IInv, ChildrenFirst, Depths, last
      <3>2. MaxDepth - Len(stack) = MaxDepth - m + 1 /\ MaxDepth - Len(stack) > 0
        BY <1>3, <3>1, Limits
      <3> QED BY <3>1, <3>2
    <2>4. TypeOK /\ ChildrenFirst /\ Depths
      BY DEF IInv
    <2> QED BY <1>1, <1>3, <1>4, <2>1, <2>2, <2>3, <2>4, PushKeeps
  <1>7. /\ frames' \in Seq(Frame) /\ Len(frames') = m - 1
        /\ root' = IF stack = << >> THEN NewId ELSE root
        /\ \A f \in 1 .. m - 1 :
             /\ frames'[f].kind = frames[f].kind /\ frames'[f].keys = frames[f].keys
             /\ f # m - 1 => frames'[f].children = frames[f].children
    <2>1. /\ frames' \in Seq(Frame) /\ Len(frames') = Len(stack)
          /\ root' = IF stack = << >> THEN NewId ELSE root
          /\ \A f \in 1 .. Len(stack) :
               /\ frames'[f].kind = stack[f].kind /\ frames'[f].keys = stack[f].keys
               /\ f # Len(stack) => frames'[f].children = stack[f].children
      BY <1>1, <1>3, DeliverKeeps
    <2> HIDE DEF m
    <2> QED BY <1>3, <2>1
  <1>8. /\ values' \in Seq(Node) /\ Len(values') = Len(values) + 1 /\ values'[Len(values) + 1] = node
        /\ \A v \in 1 .. Len(values) : values'[v] = values[v]
    BY <1>1, <1>2, <1>4, AppendProperties
  <1>9. path' \in Seq(Keys \cup Nat) /\ (path = << >> => path' = path)
        /\ (path # << >> => Len(path) \in Nat \ {0} /\ Len(path') = Len(path) - 1
                            /\ \A f \in 1 .. Len(path) - 1 : path'[f] = path[f])
    <2>1. CASE path = << >>
      BY <1>1, <1>2, <2>1 DEF PathAfterReturn
    <2>2. CASE path # << >>
      BY <1>1, <1>2, <2>2, LastAndPop DEF PathAfterReturn
    <2> QED BY <2>1, <2>2
  <1>10. TypeOK'
    <2>1. root' \in Nat
      BY <1>1, <1>2, <1>7 DEF TypeOK, NewId
    <2> QED BY <1>1, <1>7, <1>8, <1>9, <2>1 DEF TypeOK
  <1>11. OpenKeysDistinct'
    <2> SUFFICES ASSUME adapter = "json", NEW f \in 1 .. m - 1 PROVE Distinct(frames'[f].keys)
      BY <1>1, <1>7 DEF OpenKeysDistinct
    <2>1. f \in 1 .. Len(frames)
      BY <1>3
    <2> QED BY <1>7, <2>1 DEF IInv, OpenKeysDistinct
  <1>12. KeysDistinct'
    <2> SUFFICES ASSUME adapter = "json", NEW v \in 1 .. Len(values) + 1
                 PROVE  Distinct(values'[v].keys)
      BY <1>1, <1>8 DEF KeysDistinct, Distinct
    <2>1. CASE v = Len(values) + 1
      <3>1. Distinct(last.keys)
        BY <1>4 DEF IInv, OpenKeysDistinct, last
      <3> QED BY <1>5, <1>8, <2>1, <3>1
    <2>2. CASE v # Len(values) + 1
      <3>1. v \in 1 .. Len(values)
        BY <1>2, <2>2
      <3> QED BY <1>8, <3>1 DEF IInv, KeysDistinct, Distinct
    <2> QED BY <2>1, <2>2
  <1>13. Amounts'
    <2>1. Len(values') + Len(frames') <= MaxNodes + MaxDepth
      BY <1>2, <1>3, <1>7, <1>8, Limits DEF IInv, Amounts
    <2> QED BY <1>1, <2>1 DEF IInv, Amounts
  <1>14. PathIsPosition'
    <2> SUFFICES ASSUME adapter = "json"
                 PROVE  path' = [f \in 1 .. Inside(frames') |-> EdgeInProgress(frames'[f])]
      BY <1>1 DEF PathIsPosition, Inside, EdgeInProgress, Last
    <2>1. Len(path) = m - 1 /\ \A f \in 1 .. m - 1 : path[f] = EdgeInProgress(frames[f])
      <3>1. path = [f \in 1 .. Inside(frames) |-> EdgeInProgress(frames[f])]
        BY <1>1 DEF IInv, PathIsPosition, Inside
      <3>2. Inside(frames) = m - 1
        BY <1>1 DEF Inside
      <3>3. Len(path) = Inside(frames) /\ \A f \in 1 .. Inside(frames) : path[f] = EdgeInProgress(frames[f])
        BY <1>2, <3>1, PositionMeans
      <3> QED BY <3>2, <3>3
    <2>2. Len(path') = Inside(frames') /\ \A f \in 1 .. Inside(frames') : path'[f] = EdgeInProgress(frames'[f])
      <3>1. CASE m = 1
        <4>1. path = << >> /\ path' = << >> /\ Len(<< >>) = 0
          BY <1>2, <1>9, <2>1, <3>1, EmptySeq
        <4>2. Inside(frames') = 0
          BY <1>7, <3>1, EmptySeq DEF Inside
        <4> QED BY <4>1, <4>2
      <3>2. CASE m # 1
        <4>1. Inside(frames') = m - 2 /\ m - 2 \in Nat
          <5>1. Len(frames') # 0
            BY <1>3, <1>7, <3>2
          <5>2. frames' # << >>
            BY <5>1, EmptySeq
          <5> QED BY <1>3, <1>7, <3>2, <5>2 DEF Inside
        <4>2. path # << >>
          BY <1>3, <2>1, <3>2, EmptySeq
        <4>3. Len(path') = m - 2 /\ \A f \in 1 .. m - 2 : path'[f] = path[f]
          BY <1>3, <1>9, <2>1, <4>2
        <4>4. ASSUME NEW f \in 1 .. m - 2 PROVE path'[f] = EdgeInProgress(frames'[f])
          <5>1. f \in 1 .. m - 1 /\ f # m - 1
            BY <1>3
          <5>2. EdgeInProgress(frames'[f]) = EdgeInProgress(frames[f])
            BY <1>7, <5>1 DEF EdgeInProgress
          <5> QED BY <2>1, <4>3, <5>1, <5>2
        <4> QED BY <4>1, <4>3, <4>4
      <3> QED BY <3>1, <3>2
    <2> QED BY <1>7, <1>9, <2>2, PositionMeans
  <1> QED BY <1>6, <1>10, <1>11, <1>12, <1>13, <1>14 DEF IInv

(* Every step keeps the invariant.                                         *)
LEMMA NextIInv == IInv /\ [Next]_vars => IInv'
  <1> SUFFICES ASSUME IInv, [Next]_vars PROVE IInv'
    OBVIOUS
  <1>1. CASE Open
    BY <1>1, OpenKeeps
  <1>2. ASSUME NEW key \in Keys, NEW leaf \in Leaves, PushLeaf(key, leaf) PROVE IInv'
    BY <1>2, PushLeafKeeps
  <1>3. ASSUME NEW key \in Keys, NEW kind \in AggregateKinds, NEW n \in 0 .. MaxCount,
               OpenAggregate(key, kind, n)
        PROVE  IInv'
    BY <1>3, OpenAggregateKeeps
  <1>4. CASE CloseAggregate
    BY <1>4, CloseAggregateKeeps
  <1>5. CASE Finish
    BY <1>5, FinishKeeps
  <1>6. CASE UNCHANGED vars
    BY <1>6 DEF vars, IInv, TypeOK, ChildrenFirst, OpenKeysDistinct, KeysDistinct, Depths, Amounts,
                PathIsPosition, EdgeInProgress, Last
  <1> QED BY <1>1, <1>2, <1>3, <1>4, <1>5, <1>6 DEF Next

-----------------------------------------------------------------------------
(* Nodes are pushed below their parents and JSON objects name no key       *)
(* twice, whatever the value and wherever it is refused.                   *)
THEOREM ArenaIsWellFormed == Spec => []WellFormed
  <1>1. IInv => WellFormed
    BY DEF IInv, WellFormed
  <1> QED BY <1>1, InitIInv, NextIInv, PTL DEF Spec

(* Accepted values are no deeper than max_depth, and the arena exceeds     *)
(* max_nodes by no more than max_depth, for all limits: the depth of every *)
(* call is checked, the number of nodes only at the calls.                 *)
THEOREM LimitsHold == Spec => []WithinLimits
  <1>1. IInv => WithinLimits
    BY DEF IInv, Depths, Amounts, WithinLimits
  <1> QED BY <1>1, InitIInv, NextIInv, PTL DEF Spec

(* The path that is pushed and popped is the position of the walk.         *)
THEOREM PathFollowsWalk == Spec => []PathIsPosition
  <1>1. IInv => PathIsPosition
    BY DEF IInv
  <1> QED BY <1>1, InitIInv, NextIInv, PTL DEF Spec
=============================================================================
