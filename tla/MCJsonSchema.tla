------------------------------ MODULE MCJsonSchema ------------------------------
(* Instances of JsonSchema: schemas of every tag, their values, and inputs. *)
EXTENDS JsonSchema, MCSchemaNodes

Static(node) ==
  [origin |-> "static", schema |-> node, definitions |-> << >>, computed |-> << >>, values |-> {}]
Owned(node)                 == [Static(node) EXCEPT !.origin = "owned"]
Valued(open, values)        == [open EXCEPT !.values = values]
Defining(open, named)        == [open EXCEPT !.definitions = named]
Computing(open, extra)       == [open EXCEPT !.computed = extra]
ComputedField(target, alias, output) ==
  [kind |-> "computed", target |-> target, alias |-> alias, output |-> output]

Scalars(texts) == {Scalar(t) : t \in texts}
Lists(texts) == {Aggregate("list", << >>)} \cup {Aggregate("list", <<Scalar(a), Scalar(b)>>) : a, b \in texts}

-----------------------------------------------------------------------------
Point ==
  [Model(<<Aliased("x", "px", Small),
           [Optional("y", Nullable(Leaf("bool"))) EXCEPT !.alias = <<"py">>],
           [Optional("z", String) EXCEPT !.excluded = TRUE]>>) EXCEPT !.rule.extra = "forbid"]
Points ==
  {Record(<<"x", "y", "z", "sum">>, <<Scalar(x), Scalar(y), Scalar("a"), Scalar(n)>>) :
     x \in {"0", "3"}, y \in {"null", "true"}, n \in {"1"}}

Cat == Model(<<Attribute("kind", Literal(<<JsonText("cat")>>)), Attribute("n", Small)>>)
Dog == Model(<<Attribute("kind", Literal(<<JsonText("dog")>>)), Optional("a", String)>>)
Pet == Node("tagged-union", [discriminator |-> "kind", tags |-> <<{JsonText("cat")}, {JsonText("dog")}>>],
            <<Cat, Dog>>)

Tree == Model(<<Attribute("n", Small), Attribute("next", Nullable(Ref("tree")))>>)
Mutual == "a" :> Model(<<Attribute("b", Ref("b")), Attribute("c", Ref("c"))>>)
           @@ "b" :> Model(<<Optional("a", Ref("a")), Attribute("b", Nullable(Ref("b")))>>)
           @@ "c" :> Small @@ "unused" :> Leaf("bool")

StaticSchemas ==
  "small"        :> Valued(Static(Small), Scalars({"0", "1", "3"}))
  @@ "fixed"     :> Valued(Static(Integer([Bounds EXCEPT !.target = <<<<-1, 9>>>>, !.gt = <<-1>>,
                                                         !.multiple = <<2>>])), Scalars({"0", "2"}))
  @@ "unbounded" :> Valued(Static(Integer([Bounds EXCEPT !.gt = <<0>>])), Scalars({"1", "9"}))
  @@ "zero"      :> Static(Integer([Bounds EXCEPT !.multiple = <<0>>]))
  @@ "half"      :> Valued(Static(Node("float", [Bounds EXCEPT !.gt = <<0>>, !.le = <<3>>,
                                                               !.multiple = <<1>>], << >>)),
                           Scalars({"0.5", "1.5"}))
  @@ "word"      :> Valued(Static([Node("string", [min |-> <<1>>, max |-> <<2>>, pattern |-> <<"^a">>],
                                        << >>) EXCEPT !.keys = {"note"}]), Scalars({"a", "ab"}))
  @@ "replaced"  :> Static([String EXCEPT !.keys = {"type"}])
  @@ "literals"  :> Valued(Static(Literal(<<JsonNumber(2), JsonText("a"), JsonNull>>)),
                           Scalars({"1", "a", "null"}))
  @@ "nine"      :> Valued(Static(Literal(<<JsonNumber(18)>>)), Scalars({"9"}))
  @@ "token"     :> Static(Literal(<<<<"bytes", "a">>>>))
  @@ "either"    :> Valued(Static(Node("union", Free, <<Small, Leaf("bool"), ListOf(String)>>)),
                           Scalars({"1", "true"}) \cup Lists({"a"}))
  @@ "pet"       :> Valued(Static(Pet), {Record(<<"kind", "n">>, <<Scalar("cat"), Scalar("1")>>),
                                         Record(<<"kind", "a">>, <<Scalar("dog"), Scalar("ab")>>)})
  @@ "point"     :> Valued(Computing(Static(Point), <<ComputedField("sum", <<"total">>, Small)>>), Points)
  @@ "clash"     :> Computing(Static(Point), <<ComputedField("sum", <<"py">>, Small)>>)
  @@ "scalar"    :> Computing(Static(Small), <<ComputedField("sum", None, Small)>>)
  @@ "rooted"    :> Computing(Static(RootModel(Point)), <<ComputedField("sum", <<"total">>, Small)>>)
  @@ "built"     :> Computing(Static(Fn(Small, Point)), <<ComputedField("x", None, Small)>>)
  @@ "blank"     :> Valued(Static(Model(<<Aliased("x", "", Small)>>)),
                           {Record(<<"x">>, <<Scalar("1")>>)})
  @@ "twice"     :> Static(Model(<<Aliased("x", "p", Small), Aliased("y", "p", String)>>))
  @@ "deeper"    :> Static(Model(<<[Attribute("x", Small) EXCEPT !.paths = <<<<Field("p"), Index(0)>>>>]>>))
  @@ "by_name"   :> Static([Model(<<Aliased("x", "p", Small)>>) EXCEPT !.rule.byName = TRUE])
  @@ "extras"    :> Static([Model(<<Attribute("x", Small)>>) EXCEPT !.rule.extra = "allow"])
  @@ "rows"      :> Valued(Static(RootModel(ListOf(Small))),
                           {Record(<<"root">>, <<l>>) : l \in Lists({"0", "1"})})
  @@ "unrooted"  :> Static([Model(<<Attribute("x", Small)>>) EXCEPT !.root = TRUE])
  @@ "scores"    :> Valued(Static(Node("mapping", [min |-> <<1>>, max |-> <<2>>], <<String, Small>>)),
                           {Aggregate("mapping", <<Scalar("a"), Scalar("1")>>),
                            Aggregate("mapping", <<Scalar("a"), Scalar("1"), Scalar("b"), Scalar("0")>>)})
  @@ "keyed"     :> Static(Node("mapping", Free, <<Small, Small>>))
  @@ "unique"    :> Valued(Static(Node("set", [min |-> None, max |-> <<2>>], <<Small>>)),
                           {Aggregate("set", <<Scalar("0"), Scalar("1")>>)})
  @@ "pair"      :> Valued(Static(Node("tuple", Free, <<Small, String>>)),
                           {Aggregate("tuple", <<Scalar("0"), Scalar("a")>>)})
  @@ "parsed"    :> Valued(Static(Fn(String, Small)), Scalars({"0"}))
  @@ "exact"     :> Static(Leaf("decimal"))
  @@ "chained"   :> Static(Node("chain", Free, <<Small, String>>))
  @@ "raw"       :> Valued(Static(Leaf("bytes")), Scalars({"bytes"}))
  @@ "raws"      :> Valued(Static(Model(<<Attribute("x", Nullable(Leaf("bytes"))), Attribute("y", Small)>>)),
                           {Record(<<"x", "y">>, <<Scalar(x), Scalar("1")>>) : x \in {"null", "bytes"}})
  @@ "real"      :> Valued(Static(Node("float", Bounds, << >>)), Scalars({"0.5", "1.5", "nan"}))
  @@ "source"    :> Static(Leaf("pattern"))
  @@ "deep"      :> Static(ListOf(ListOf(ListOf(ListOf(Small)))))
  @@ "lower"     :> Defining(Static(Ref("a")), "a" :> ListOf(ListOf(Ref("b"))) @@ "b" :> ListOf(ListOf(Small)))
  @@ "tree"      :> Defining(Computing(Static(Tree), <<ComputedField("top", None, Ref("tree"))>>),
                             "tree" :> Tree)
  @@ "mutual"    :> Defining(Static(ListOf(Ref("a"))), Mutual)
  @@ "shared"    :> Defining(Static(Node("tuple", Free, <<Ref("c"), Ref("b"), Ref("c")>>)),
                             Mutual)
  @@ "crossed"   :> Defining(Static(Fn(Ref("c"), Ref("unused"))), Mutual)
  @@ "broken"    :> Defining(Static(Ref("a")), "a" :> ListOf(Ref("b")) @@ "b" :> Leaf("decimal"))
  @@ "large"     :> Defining(Static(Node("tuple", Free, <<Small, Ref("a"), Ref("b")>>)),
                             "a" :> Node("tuple", Free, <<Small, Small, Ref("b")>>)
                               @@ "b" :> Node("tuple", Free, <<Small, Small, Small, Ref("c")>>)
                               @@ "c" :> Leaf("bool"))

OwnedSchemas ==
  "owned_small"    :> Valued(Owned(Small), Scalars({"0"}))
  @@ "owned_raw"   :> Owned(Leaf("bytes"))
  @@ "owned_when"  :> Owned(Leaf("temporal"))
  @@ "owned_open"  :> Owned([Model(<<Aliased("x", "p", Small),
                                     [Optional("more", String) EXCEPT !.input = FALSE]>>)
                               EXCEPT !.rule.extra = "allow", !.children = <<Leaf("bool")>>])
  @@ "owned_blank" :> Valued(Owned(Model(<<[Aliased("x", "", Small) EXCEPT !.paths = << >>]>>)),
                             {Record(<<"x">>, <<Scalar("1")>>)})
  @@ "owned_mode"  :> Valued(Owned(Node("lax-or-strict", Free,
                                        <<String, Literal(<<JsonText("a"), JsonText("ab")>>)>>)),
                             Scalars({"a"}))
  @@ "owned_json"  :> Owned(Node("json-or-structural", Free, <<Small, Integer(Bounds)>>))
  @@ "owned_chain" :> Owned(Node("chain", Free, <<String, Small>>))
  @@ "owned_text"  :> Owned(Node("embedded-json", Free, <<Small>>))
  @@ "owned_lazy"  :> Owned(Node("generator", [min |-> <<1>>, max |-> None], <<Small>>))
  @@ "owned_set"   :> Owned(Node("frozen-set", Free, <<String>>))
  @@ "owned_deep"  :> Owned(ListOf(ListOf(ListOf(ListOf(Small)))))
  @@ "owned_scope" :> Owned(ListOf(Leaf("definitions")))
  @@ "owned_tree"  :> Defining(Owned(Ref("tree")), "tree" :> Tree @@ "unused" :> Leaf("bool"))
  @@ "owned_break" :> Defining(Owned(Small), "b" :> Leaf("decimal"))

MCSchemas == StaticSchemas @@ OwnedSchemas

(* Two models of a union that have a field of the same name.               *)
Circle  == Model(<<Aliased("size", "radius", Small)>>)
Wording == Model(<<Aliased("size", "label", String)>>)
UnionSchemas ==
  "shape" :> Valued(Static(Node("union", Free, <<Circle, Wording>>)),
                    {Record(<<"size">>, <<Scalar("1")>>), Record(<<"size">>, <<Scalar("a")>>)})

-----------------------------------------------------------------------------
Scalars1 == {JsonNull, JsonBool(TRUE), JsonBool(FALSE)}
              \cup {JsonNumber(h) : h \in {-2, 0, 1, 2, 3, 4, 6, 8, 18}}
              \cup {JsonText(t) : t \in {"", "a", "b", "ab", "abc", "1", "true", "cat", "dog"}}

Few == {JsonNull, JsonNumber(0), JsonNumber(2), JsonNumber(8), JsonText("a"), JsonText("cat"),
        JsonText("dog"), JsonText("1")}

Objects(names) == UNION {{JsonObject(f) : f \in [n -> Few]} : n \in names}

Arrays == {JsonArray(s) : s \in UNION {[1 .. n -> Few] : n \in 0 .. 2}}

Nested ==
  LET leaf == [n |-> JsonNumber(2), next |-> JsonNull]
      b == [b |-> JsonNull]
  IN  {JsonObject([leaf EXCEPT !.next = JsonObject(leaf)]),
       JsonObject([leaf EXCEPT !.next = JsonObject([n |-> JsonText("a"), next |-> JsonNull])]),
       JsonArray(<<JsonObject([b |-> JsonObject(b), c |-> JsonNumber(2)])>>),
       JsonArray(<<JsonObject([b |-> JsonObject(b), c |-> JsonText("a")])>>),
       JsonArray(<<JsonNumber(2), JsonObject(b), JsonNumber(0)>>),
       JsonArray(<<JsonArray(<<JsonNumber(2)>>)>>)}

MCInputs ==
  Scalars1 \cup Arrays \cup Nested
    \cup Objects({{}, {"px"}, {"x"}, {"kind", "n"}, {"kind", "a"}, {"px", "y"}, {"n", "next"},
                  {"a", "b"}, {"p"}, {"p", "other"}})
=============================================================================
