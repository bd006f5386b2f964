------------------------------ MODULE ValueInput ------------------------------
(***************************************************************************)
(* The recursive adapters of the input boundary, as a machine with an      *)
(* explicit stack: parse_json and BuildState::push_value of input/json.rs, *)
(* and NativeBuilder::push of input/native.rs.  Both walk a value that is  *)
(* there as a whole and push its nodes into the arena, children first.     *)
(* The value is chosen as the walk meets it.  Node ids count from 1.       *)
(***************************************************************************)
EXTENDS Integers, Sequences

CONSTANTS
  Adapters,    \* of "json" and "native"
  MaxDepth, MaxNodes, MaxItems, MaxStringBytes,  \* limits: JsonLimits
  MaxCount,    \* the aggregates of the value have at most this many items
  Keys,        \* the keys of objects
  KeyBytes, TextBytes  \* the lengths of a key and of a text

ASSUME AdaptersAssumption == Adapters \subseteq {"json", "native"}
ASSUME LimitsAssumption ==
  /\ {MaxDepth, MaxNodes, MaxItems, MaxStringBytes} \subseteq Nat \ {0}
  /\ {MaxCount, KeyBytes, TextBytes} \subseteq Nat

(* An aggregate whose items are being pushed.  The two values of a mapping *)
(* entry are two items.  An object has a key for each pushed item and for  *)
(* the one being pushed.                                                   *)
Frame == [kind : {"sequence", "object", "mapping"}, count : Nat, keys : Seq(Keys), children : Seq(Nat)]

Node == [keys : Seq(Keys), children : Seq(Nat)]

VARIABLES adapter, status, values, stringBytes, frames, path, root
vars == <<adapter, status, values, stringBytes, frames, path, root>>

AggregateKinds == IF adapter = "json" THEN {"sequence", "object"}
                  ELSE {"sequence", "object", "mapping"}

(* Leaves by what the adapters do with them: numbers with too many digits  *)
(* are refused by push in a native value, before parsing in a document.    *)
Leaves == IF adapter = "json" THEN {"scalar", "text"} ELSE {"scalar", "text", "long_number"}

TypeOK ==
  /\ adapter \in Adapters
  /\ status \in {"source", "open", "refused", "finished"}
  /\ values \in Seq(Node)
  /\ stringBytes \in Nat
  /\ frames \in Seq(Frame)
  /\ path \in Seq(Keys \cup Nat)
  /\ root \in Nat

Init ==
  /\ adapter \in Adapters
  /\ status = "source"
  /\ values = << >>
  /\ stringBytes = 0
  /\ frames = << >>
  /\ path = << >>
  /\ root = 0

Last(s) == s[Len(s)]

Pop(s) == SubSeq(s, 1, Len(s) - 1)

-----------------------------------------------------------------------------
(* Before the walk: a document may be too long, have an integer of too     *)
(* many digits or fail to parse.                                           *)
Open ==
  /\ status = "source"
  /\ \E acceptable \in (IF adapter = "json" THEN BOOLEAN ELSE {TRUE}) :
       status' = IF acceptable THEN "open" ELSE "refused"
  /\ UNCHANGED <<adapter, values, stringBytes, frames, path, root>>

(* A call of push is due: for the value itself or for the next item.       *)
Due ==
  /\ status = "open"
  /\ IF frames = << >> THEN root = 0 ELSE Len(Last(frames).children) < Last(frames).count

InObject == frames # << >> /\ Last(frames).kind = "object"

SeenKeys == {Last(frames).keys[i] : i \in 1 .. Len(Last(frames).keys)}

KeyAmount == IF InObject THEN KeyBytes ELSE 0

(* The key of the next entry is new to the object and fits the limit.      *)
(* Native objects are not checked for duplicates.                          *)
KeyAccepted(key) ==
  InObject =>
    /\ adapter = "json" => key \notin SeenKeys
    /\ stringBytes + KeyBytes <= MaxStringBytes

(* The path of the call; the native adapter keeps none.                    *)
PathTo(key) ==
  IF frames = << >> \/ adapter = "native" THEN path
  ELSE Append(path, IF InObject THEN key ELSE Len(Last(frames).children))

(* The frames with the key of the next entry noted. *)
Noted(key) ==
  IF InObject THEN [frames EXCEPT ![Len(frames)].keys = Append(@, key)] ELSE frames

AdmittedOneMore == Len(frames) <= MaxDepth /\ Len(values) <= MaxNodes

(* The checks at the entry of push_value. *)
Admitted == Len(frames) <= MaxDepth /\ Len(values) < MaxNodes

NewIdAhead == Len(values) + 2

NewId == Len(values) + 1

(* The new node goes to the aggregate that called for it, or is the root.  *)
Deliver(stack) ==
  IF stack = << >> THEN root' = NewId /\ frames' = stack
  ELSE /\ frames' = [stack EXCEPT ![Len(stack)].children = Append(@, NewId)]
       /\ UNCHANGED root

RefuseAt(p) == status' = "refused" /\ path' = p /\ UNCHANGED <<adapter, values, stringBytes, frames, root>>

-----------------------------------------------------------------------------
(* A leaf: the call pushes its node and returns. *)
PushLeaf(key, leaf) ==
  LET total == stringBytes + KeyAmount + (IF leaf = "text" THEN TextBytes ELSE 0)
  IN  /\ Due
      /\ IF ~KeyAccepted(key) THEN RefuseAt(path)
         ELSE IF ~Admitted \/ leaf = "long_number" \/ total > MaxStringBytes
         THEN RefuseAt(PathTo(key))
         ELSE /\ values' = Append(values, [keys |-> << >>, children |-> << >>])
              /\ stringBytes' = total
              /\ Deliver(Noted(key))
              /\ UNCHANGED <<adapter, status, path>>

(* An aggregate of n items, or entries: its items are next.                *)
OpenAggregate(key, kind, n) ==
  /\ Due
  /\ IF ~KeyAccepted(key) THEN RefuseAt(path)
     ELSE IF ~Admitted \/ n > MaxItems THEN RefuseAt(PathTo(key))
     ELSE /\ frames' = Append(Noted(key), [kind |-> kind, keys |-> << >>, children |-> << >>,
                                           count |-> IF kind = "mapping" THEN 2 * n ELSE n])
          /\ stringBytes' = stringBytes + KeyAmount
          /\ path' = PathTo(key)
          /\ UNCHANGED <<adapter, status, values, root>>

PathKept == path

(* The caller takes the edge of the returned aggregate off the path.       *)
PathAfterReturn == IF path = << >> THEN path ELSE Pop(path)

(* The items of the innermost aggregate are pushed: so is its own node,    *)
(* whatever the number of nodes now is.                                    *)
CloseAggregate ==
  /\ status = "open"
  /\ frames # << >>
  /\ Len(Last(frames).children) = Last(frames).count
  /\ values' = Append(values, [keys |-> Last(frames).keys, children |-> Last(frames).children])
  /\ path' = PathAfterReturn
  /\ Deliver(Pop(frames))
  /\ UNCHANGED <<adapter, status, stringBytes>>

Finish ==
  /\ status = "open"
  /\ root # 0
  /\ status' = "finished"
  /\ UNCHANGED <<adapter, values, stringBytes, frames, path, root>>

Next ==
  \/ Open
  \/ \E key \in Keys, leaf \in Leaves : PushLeaf(key, leaf)
  \/ \E key \in Keys, kind \in AggregateKinds, n \in 0 .. MaxCount : OpenAggregate(key, kind, n)
  \/ CloseAggregate
  \/ Finish

Spec == Init /\ [][Next]_vars

-----------------------------------------------------------------------------
(* Ids point backwards only: push_value pushes children before parents.    *)
ChildrenFirst ==
  /\ \A v \in 1 .. Len(values) : \A i \in 1 .. Len(values[v].children) :
       values[v].children[i] \in 1 .. v - 1
  /\ \A f \in 1 .. Len(frames) : \A i \in 1 .. Len(frames[f].children) :
       frames[f].children[i] \in 1 .. Len(values)
  /\ root \in 0 .. Len(values)

(* The children of a node.                                                 *)
Below(nodes, v) == {nodes[v].children[i] : i \in 1 .. Len(nodes[v].children)}

(* One can go down n levels from a node.                                   *)
IsDescent(nodes, v, n, walk) ==
  walk[1] = v /\ \A level \in 1 .. n : walk[level + 1] \in Below(nodes, walk[level])

Descends(nodes, v, n) ==
  \E walk \in [1 .. n + 1 -> 1 .. Len(nodes)] : IsDescent(nodes, v, n, walk)

(* An accepted value is no deeper than max_depth: push_value counts the    *)
(* depth of scalars too.  max_nodes is checked before the items of an      *)
(* aggregate are pushed, not when the aggregate's own node is: the arena   *)
(* may exceed the limit, by one node for each level of nesting and no more.*)
WithinLimits ==
  /\ Len(values) + Len(frames) <= MaxNodes + MaxDepth
  /\ stringBytes <= MaxStringBytes
  /\ status = "finished" => ~Descends(values, root, MaxDepth + 1)

(* A JSON object in the arena names each entry once: duplicates are        *)
(* refused, in nested objects too.                                         *)
KeysDistinct ==
  adapter = "json" =>
    \A v \in 1 .. Len(values) : \A i, j \in 1 .. Len(values[v].keys) :
      values[v].keys[i] = values[v].keys[j] => i = j

(* What readers of the arena rely on, wherever the walk is or was refused. *)
WellFormed == ChildrenFirst /\ KeysDistinct

(* The edge of the item of a frame that is being pushed. *)
EdgeInProgress(frame) ==
  IF frame.kind = "object" THEN Last(frame.keys) ELSE Len(frame.children)

(* The path push_value keeps by push and pop is the position of the        *)
(* innermost open aggregate; it locates the error when one is refused.     *)
PathIsPosition ==
  (adapter = "json" /\ status = "open") =>
    path = [f \in 1 .. (IF frames = << >> THEN 0 ELSE Len(frames) - 1) |-> EdgeInProgress(frames[f])]
=============================================================================
