------------------------------ MODULE MCSchemaNodes ------------------------------
(* Schema nodes and the texts in their inputs, for the instances.          *)
EXTENDS JsonSchemaDocument

Bounds == [target |-> None, gt |-> None, ge |-> None, lt |-> None, le |-> None, multiple |-> None]
Free   == [min |-> None, max |-> None]
Plain  == [min |-> None, max |-> None, pattern |-> None]

Node(tag, rule, children) ==
  [tag |-> tag, root |-> FALSE, fields |-> << >>, children |-> children, rule |-> rule, keys |-> {}]
Leaf(tag)         == Node(tag, Free, << >>)
Integer(bounds)   == Node("integer", bounds, << >>)
Small             == Integer([Bounds EXCEPT !.ge = <<0>>, !.lt = <<4>>])
String            == Node("string", Plain, << >>)
Literal(values)   == Node("literal", [values |-> values], << >>)
Ref(name)         == Node("ref", [name |-> name], << >>)
Nullable(node)    == Node("nullable", Free, <<node>>)
ListOf(node)      == Node("list", Free, <<node>>)
Fn(input, output) == Node("function", Free, <<input, output>>)

Model(fields) ==
  [Node("model", [extra |-> "ignore", byName |-> FALSE], << >>) EXCEPT !.fields = fields]
RootModel(node) ==
  [Model(<<[name |-> "root", schema |-> node, excluded |-> FALSE, alias |-> None, default |-> None,
            input |-> TRUE, paths |-> << >>, required |-> TRUE]>>) EXCEPT !.root = TRUE]

Attribute(name, node) ==
  [name |-> name, schema |-> node, excluded |-> FALSE, alias |-> None, default |-> None,
   input |-> TRUE, paths |-> << >>, required |-> TRUE]
Optional(name, node) == [Attribute(name, node) EXCEPT !.required = FALSE]
Aliased(name, alias, node) ==
  [Attribute(name, node) EXCEPT !.alias = <<alias>>, !.paths = <<<<Field(alias)>>>>]

MCNumerals == "-1" :> -2 @@ "0" :> 0 @@ "1" :> 2 @@ "2" :> 4 @@ "3" :> 6 @@ "9" :> 18
                @@ "0.5" :> 1 @@ "1.5" :> 3
MCPatterns == "^a" :> {"a", "ab", "abc"}
                @@ DecimalPattern :> {"-1", "0", "1", "2", "3", "9"}
=============================================================================
