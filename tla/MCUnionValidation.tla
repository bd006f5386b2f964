--------------------------- MODULE MCUnionValidation ---------------------------
(* All unions of up to three choices, ones of four valid choices, and      *)
(* unions of real schemas, each with every input below.                    *)
EXTENDS SmartUnion, MCSchemaNodes

MCCode == {"tag_missing", "tag_invalid", "declared", "resource_limit", "child"}

Child(code, n) == [i \in 1 .. n |-> [location |-> <<<<"index", i>>>>, code |-> code]]

Errors ==
  {[found |-> Child("child", n), left |-> FALSE] : n \in 1 .. 3}
    \cup {[found |-> Child("resource_limit", 1), left |-> FALSE],
          [found |-> Child("child", 2), left |-> TRUE]}

ValidChoices ==
  {[outcome |-> Fine, fields |-> f, exactness |-> e] : f \in {Uncounted, 0, 1, 2}, e \in 0 .. 2}

InvalidChoices == {[outcome |-> o, fields |-> Uncounted, exactness |-> 0] : o \in Errors}

ChoiceLists(n) == [1 .. n -> ValidChoices \cup InvalidChoices]

-----------------------------------------------------------------------------
Bool      == Leaf("bool")
Float     == Node("float", Bounds, << >>)
Whole     == Integer(Bounds)
Above1    == Integer([Bounds EXCEPT !.gt = <<1>>])
Union2(a, b)   == Node("union", Free, <<a, b>>)
Tuple1(a)      == Node("tuple", Free, <<a>>)
Map(key, item) == Node("mapping", Free, <<key, item>>)
X(node)        == Model(<<Attribute("x", node)>>)
XY(x, y)       == Model(<<Attribute("x", x), Optional("y", y)>>)
Small8         == Integer([Bounds EXCEPT !.target = <<<<-128, 127>>>>])
Control(tag, a, b) == Node(tag, Free, <<a, b>>)
OpenX(node)    == [X(node) EXCEPT !.rule.extra = "allow", !.children = <<Bool>>]
ClosedX(node)  == [X(node) EXCEPT !.rule.extra = "forbid"]

(* Unions whose branches' shapes tell their strictness, and others.        *)
Telling ==
  {<<Bool, Whole>>, <<Bool, Above1, String>>, <<Float, Whole>>, <<Whole, Float, Bool>>,
   <<Whole, String>>, <<Literal(<<JsonNumber(2), JsonText("1")>>), Bool, Whole>>,
   <<Nullable(Bool), Nullable(Whole)>>, <<X(Bool), X(Whole), X(String)>>,
   <<XY(Bool, Bool), XY(Whole, Bool), X(Whole)>>, <<ClosedX(Whole), XY(Bool, Whole)>>,
   <<X(Whole), Map(String, Whole), XY(Bool, Bool)>>, <<Map(String, Bool), XY(Bool, Bool), X(Whole)>>,
   <<Map(String, Whole), Map(String, Bool)>>, <<X(X(Bool)), X(XY(Whole, Whole)), X(Map(String, Float))>>,
   <<Ref("flag"), Ref("box"), Whole>>, <<X(Bool), Ref("box")>>}

Others ==
  {<<ListOf(Bool), ListOf(Whole)>>, <<Tuple1(Bool), Tuple1(Whole)>>, <<X(ListOf(Bool)), X(ListOf(Whole))>>,
   <<RootModel(Bool), Whole>>, <<RootModel(X(Bool)), X(Whole)>>, <<OpenX(Whole), XY(Bool, Bool)>>,
   <<Map(Whole, Whole), Map(String, Bool)>>, <<Union2(Above1, Bool), Whole>>,
   <<Union2(X(Bool), XY(Whole, Whole)), X(Whole)>>,
   <<Control("lax-or-strict", Whole, Above1), Bool>>, <<Control("json-or-structural", Above1, Whole), Float>>}

(* Sums in sums, whose members have other places in the sum around them.   *)
Nested ==
  {<<Nullable(Union2(Whole, Bool)), String>>, <<Union2(Nullable(Bool), Whole), Nullable(String)>>,
   <<Union2(String, Bool), Union2(Bool, Whole)>>, <<Union2(Bool, Leaf("none")), Leaf("none")>>,
   <<Nullable(Leaf("none")), Bool>>, <<Literal(<<JsonText("a"), JsonNull, JsonNumber(2)>>), Bool>>,
   <<Literal(<<JsonNull, JsonNumber(2)>>), Nullable(Whole)>>, <<Ref("flag"), Union2(Whole, Bool)>>,
   <<Union2(X(Bool), Map(String, Bool)), Ref("box"), X(Bool)>>, <<Union2(Whole, Above1), Whole>>,
   <<Control("lax-or-strict", Nullable(Whole), Nullable(Above1)), String>>,
   <<Control("lax-or-strict", String, Literal(<<JsonText("a")>>)), Union2(Whole, Bool)>>,
   <<Union2(Union2(String, X(Whole)), ListOf(Bool)), Union2(Bool, ListOf(Whole))>>,
   <<Small8, Union2(Float, Whole)>>}

(* The types of which there are several in one category, in some order.    *)
MCTypeOrder ==
  LET nodes == <<X(Bool), X(Whole), X(String), X(X(Bool)), X(XY(Whole, Whole)), X(Map(String, Float)),
                 X(ListOf(Bool)), X(ListOf(Whole)), XY(Bool, Bool), XY(Bool, Whole), XY(Whole, Bool),
                 XY(Whole, Whole), ClosedX(Whole), OpenX(Whole), RootModel(Bool), RootModel(X(Bool)),
                 Map(String, Bool), Map(String, Whole), Map(Whole, Whole), ListOf(Bool), ListOf(Whole),
                 Tuple1(Bool), Tuple1(Whole)>>
  IN  [n \in DOMAIN nodes |-> TypeOf(nodes[n], << >>)]

Scalars1 == {JsonNull, JsonBool(TRUE), JsonNumber(0), JsonNumber(1), JsonNumber(2), JsonNumber(4),
             JsonText("a"), JsonText("1")}
Objects(values) == UNION {{JsonObject(f) : f \in [n -> values]} : n \in {{}, {"x"}, {"x", "y"}, {"1"}}}

MCInputs ==
  Scalars1 \cup Objects(Scalars1)
    \cup {JsonObject("x" :> object) : object \in Objects({JsonBool(TRUE), JsonNumber(2), JsonText("1")})}
    \cup {JsonArray(<<item>>) : item \in Scalars1}
    \cup {JsonObject("x" :> JsonArray(<<item>>)) : item \in Scalars1}

MCSamples ==
  [origin : {"owned", "static"}, strict : BOOLEAN, branches : Telling \cup Others \cup Nested,
   definitions : {"flag" :> Bool @@ "box" :> X(Whole)}, json : MCInputs]

MCUnions ==
  [mode : {"left_to_right", "smart"}, collapses : BOOLEAN, override : BOOLEAN, tag : {0},
   choices : UNION {ChoiceLists(n) : n \in 1 .. 2} \cup [1 .. 3 -> ValidChoices]
               \cup [1 .. 3 -> InvalidChoices]]
    \cup [mode : {"tagged"}, collapses : {FALSE}, override : BOOLEAN, tag : 0 .. 3, choices : ChoiceLists(2)]
    \cup [mode : {"smart"}, collapses : {TRUE}, override : {FALSE}, tag : {0},
          choices : [1 .. 4 -> {c \in ValidChoices : c.fields # 0}]]
    \cup DOMAIN SamplesOf
=============================================================================
