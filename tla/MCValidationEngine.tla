-------------------------- MODULE MCValidationEngine --------------------------
(* Small schemas that reach each handler and the ways they combine, over   *)
(* inputs of up to three levels.                                           *)
EXTENDS ValidationResult

Graph(kds, ks, fs, ds) ==
  [root |-> 1, kind |-> kds, kids |-> ks, flag |-> [s \in 1 .. Len(kds) |-> s \in fs],
   declares |-> [s \in 1 .. Len(kds) |-> IF s = 1 THEN ds ELSE {}],
   option |-> [s \in 1 .. Len(kds) |-> IF kds[s] = "field" THEN "lax" ELSE "none"],
   static |-> ds = {},
   errors |-> {s \in 1 .. Len(kds) : kds[s] = "union" \/ (ds = {} /\ kds[s] = "reference")}]

(* A tree: nullable references to a list of itself. *)
Tree ==
  Graph(<<"definitions", "reference", "sequence", "nullable", "reference">>,
        << <<2>>, <<3>>, <<4>>, <<5>>, <<3>> >>, {}, {3})

(* A list of scalars, or of such lists, handed over in a chain. *)
Forest ==
  Graph(<<"definitions", "chain", "reference", "sequence", "union", "reference", "scalar">>,
        << <<2>>, <<3, 4>>, <<4>>, <<5>>, <<6, 7>>, <<4>>, << >> >>, {}, {4})

(* A definition that meets itself at the same input, in a branch. *)
Loop ==
  Graph(<<"definitions", "sequence", "reference", "lax_or_strict", "scalar", "reference">>,
        << <<2>>, <<3>>, <<4>>, <<5, 6>>, << >>, <<4>> >>, {}, {4})

(* A definition that meets itself on the output of a callback. *)
Callback ==
  Graph(<<"reference", "function_before", "scalar", "union", "reference">>,
        << <<2>>, <<3, 4>>, << >>, <<5, 3>>, <<2>> >>, {}, {})

(* A strict model with sums and a callback below. *)
Strict ==
  Graph(<<"model", "lax_or_strict", "union", "scalar", "nullable", "function_after", "json_or_structural">>,
        << <<2, 6>>, <<4, 3>>, <<4, 5>>, << >>, <<4>>, <<7, 7>>, <<4, 3>> >>, {1}, {})

(* Two models with options of their fields, one in the other: the outer    *)
(* lax one covers a strict model with a strict field, and a field without  *)
(* an option has the same model in strict mode.                            *)
Options ==
  [Graph(<<"model", "field", "definitions", "model", "field", "lax_or_strict", "scalar", "nullable">>,
         << <<2, 4>>, <<3>>, <<4>>, <<5, 8>>, <<6>>, <<7, 8>>, << >>, <<6>> >>, {4}, {})
     EXCEPT !.static = FALSE, !.errors = {}, !.option[5] = "strict"]

(* A chain of sums, lists and a model with a callback. *)
Chain ==
  Graph(<<"chain", "sequence", "union", "nullable", "scalar", "function_before", "model">>,
        << <<2, 2, 7>>, <<3>>, <<5, 4>>, <<5>>, << >>, <<5, 4>>, <<3, 6>> >>, {7}, {})

(* A reference that no definitions enclose. *)
Stray ==
  [Graph(<<"sequence", "union", "reference", "scalar">>, << <<2>>, <<3, 4>>, <<4>>, << >> >>, {}, {})
     EXCEPT !.static = FALSE, !.errors = {2}]

MCGraphs == {Tree, Forest, Loop, Callback, Strict, Options, Chain, Stray}

N(kd, l, ks) == [kind |-> kd, label |-> l, kids |-> ks]

Leaf(p)   == [profile |-> p, root |-> 1, nodes |-> <<N("leaf", 1, << >>)>>]
Pair(p)   == [profile |-> p, root |-> 3,
              nodes |-> <<N("leaf", 1, << >>), N("null", 0, << >>), N("sequence", 3, <<1, 2>>)>>]
Nested(p) == [profile |-> p, root |-> 4,
              nodes |-> <<N("null", 0, << >>), N("sequence", 2, << >>), N("sequence", 3, <<2, 1>>),
                          N("sequence", 4, <<3>>)>>]

MCInputs  == {Pair("json"), Nested("json"), Pair("native"), Nested("native"), Leaf("native")}
MCOutputs == {[Leaf("native") EXCEPT !.nodes[1].label = 7], Pair("native")}
=============================================================================
