--------------------------- MODULE ValidationResult ---------------------------
(***************************************************************************)
(* What a successful validation means: the arena it returns mirrors the    *)
(* input, node by node, along the schema.  The schema g and the mode md    *)
(* are those of the entry.                                                 *)
(***************************************************************************)
EXTENDS ValidationEngine

(* More than the calls that can be open at once.                           *)
Steps == 3 * MaxDepth + 7

(* Below a schema no callback replaces a value.                            *)
KeepsInput(g, md, s) ==
  \E below \in SUBSET DOMAIN g.kind :
    /\ s \in below
    /\ \A t \in below :
         /\ g.kind[t] \in Functions => md = "serialization"
         /\ \A k \in 1 .. Len(g.kids[t]) : g.kids[t][k] \in below

(* The last step of a chain validates a mirror of the chain's own input.   *)
HandsOnInput(g, md, s) == \A k \in 1 .. Len(g.kids[s]) - 1 : KeepsInput(g, md, g.kids[s][k])

(* A claim: the value conforms to the schema at a node of an input.        *)
Claim(value, schema, arena, input) ==
  [value |-> value, schema |-> schema, arena |-> arena, input |-> input]

Claims(g, values, arena) ==
  [value : 1 .. Len(values), schema : DOMAIN g.kind, arena : {arena} \cup Outputs, input : Nat]

(* What a claim says of the value, its parts conforming as far as known.   *)
(* The wrapper of a sum within a sum is its own and the outer one's.  A    *)
(* chain in which a callback replaces a value before the last step is not  *)
(* followed.                                                               *)
Mirrors(g, md, values, known, x) ==
  LET value == values[x.value]
      mine == x.arena.nodes[x.input]
      child(k) == g.kids[x.schema][k]
      below(k) == known[Claim(x.value, child(k), x.arena, x.input)]
      member(k) ==
        \/ value.kids # << >> /\ known[Claim(value.kids[1], child(k), x.arena, x.input)]
        \/ below(k)
      part(s, k) == known[Claim(value.kids[k], s, x.arena, mine.kids[k])]
      output(k) == \E o \in Outputs : known[Claim(x.value, child(k), o, o.root)]
      kindOf == g.kind[x.schema]
  IN  CASE kindOf = "scalar" ->
             /\ mine.kind # "sequence" /\ value.kids = << >>
             /\ value.kind = mine.kind /\ value.label = mine.label
        [] kindOf \in {"sequence", "model"} ->
             /\ mine.kind = "sequence" /\ value.kind = "sequence" /\ value.label = mine.label
             /\ Len(value.kids) = Len(mine.kids)
             /\ kindOf = "model" => Len(g.kids[x.schema]) = Len(mine.kids)
             /\ \A k \in 1 .. Len(value.kids) : part(child(IF kindOf = "model" THEN k ELSE 1), k)
        [] kindOf = "nullable" ->
             /\ value.kind = "wrap"
             /\ IF mine.kind = "null" THEN value.kids = << >> ELSE member(1)
        [] kindOf = "union" ->
             value.kind = "wrap" /\ \E k \in 1 .. Len(g.kids[x.schema]) : member(k)
        [] kindOf \in {"definitions", "reference", "field"} -> below(1)
        [] kindOf = "lax_or_strict" -> below(1) \/ below(2)
        [] kindOf = "json_or_structural" -> below(IF x.arena.profile = "json" THEN 1 ELSE 2)
        [] kindOf = "chain" -> HandsOnInput(g, md, x.schema) => below(Len(g.kids[x.schema]))
        [] OTHER -> IF md = "serialization" THEN below(IF kindOf = "function_after" THEN 1 ELSE 2)
                    ELSE output(2)

(* The claims that hold, by the steps it takes to tell.                    *)
Conforming(g, md, values, arena) ==
  LET known[n \in 0 .. Steps] ==
        IF n = 0 THEN [x \in Claims(g, values, arena) |-> FALSE]
        ELSE [x \in Claims(g, values, arena) |-> Mirrors(g, md, values, known[n - 1], x)]
  IN  known

(* A successful validation returns a value that mirrors the input along    *)
(* the schema, wherever branches, their imports, chains and callbacks come *)
(* between: no node of a losing branch, no id of another arena.            *)
ResultConforms ==
  (calls = << >> /\ ret.outcome = "ok") =>
    Conforming(graph, mode, ret.values, asked)[Steps][Claim(ret.id, graph.root, asked, asked.root)]
=============================================================================
