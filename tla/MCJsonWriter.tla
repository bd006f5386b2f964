------------------------------ MODULE MCJsonWriter ------------------------------
(* Dumps of a few schemas under many options.                              *)
EXTENDS JsonDump

Leaf == [tag |-> "scalar", root |-> FALSE, fields |-> << >>, children |-> << >>]
Of(tag, children) == [tag |-> tag, root |-> FALSE, fields |-> << >>, children |-> children]
Model(fields) == [tag |-> "model", root |-> FALSE, fields |-> fields, children |-> << >>]
Root(schema) ==
  [Model(<<[name |-> "root", schema |-> schema, excluded |-> FALSE, alias |-> None, default |-> None]>>)
     EXCEPT !.root = TRUE]
Plain(name, schema) ==
  [name |-> name, schema |-> schema, excluded |-> FALSE, alias |-> None, default |-> None]
Defaulted(name, schema, value) == [Plain(name, schema) EXCEPT !.default = <<value>>]
Aliased(field, alias) == [field EXCEPT !.alias = <<alias>>]
Excluded(field) == [field EXCEPT !.excluded = TRUE]

One == Scalar("1")
Two == Scalar("2")
Text == Scalar("text")
Bytes == Scalar("bytes")
Some(value) == Aggregate("optional", <<value>>)
Missing == Aggregate("optional", << >>)
List(values) == Aggregate("list", values)
AB(a, b) == Record(<<"a", "b">>, <<a, b>>)

Point == Model(<<Aliased(Defaulted("a", Of("nullable", <<Leaf>>), One), "x"),
                 Defaulted("b", Of("list", <<Leaf>>), List(<<One>>))>>)
Points == {AB(a, b) : a \in {Missing, Some(One), Some(Two)},
                      b \in {List(<< >>), List(<<One>>), List(<<Two, One>>)}}

(* Pairs of a schema and a value of it. *)
Typed ==
  {<<Point, v>> : v \in Points}
    \cup {<<Model(<<Defaulted("a", Point, AB(One, List(<<One>>))),
                    Defaulted("b", Of("nullable", <<Point>>), Null)>>), AB(v, b)>> :
            v \in Points, b \in {Missing, Some(AB(Missing, List(<<One>>)))}}
    \cup {<<Of("list", <<Point>>), List(<<v, AB(Missing, List(<<Two, One>>))>>)>> : v \in Points}
    \cup {<<Of("tuple", <<Point, Leaf>>), Aggregate("tuple", <<v, Text>>)>> : v \in Points}
    \cup {<<Model(<<Plain("a", Of("mapping", <<Leaf, Point>>)), Defaulted("b", Leaf, Bytes)>>),
            AB(Aggregate("mapping", <<k, v, Scalar("more"), AB(Some(Two), List(<< >>))>>), b)>> :
            k \in {Text, One}, v \in Points, b \in {Text, Bytes}}
    \cup {<<Model(<<Excluded(Plain("a", Leaf)), Aliased(Defaulted("b", Leaf, Null), "y")>>), AB(a, b)>> :
            a \in {One, Bytes}, b \in {Null, Bytes, Text}}

Options(included, excluded) ==
  [byAlias : BOOLEAN, excludeNone : BOOLEAN, excludeDefaults : BOOLEAN,
   include : included, exclude : excluded]

FieldOptions ==
  Options({{}, {<<Field("a")>>}, {<<Field("b"), Index(0)>>}, {<<Index(1)>>}},
          {{}, {<<Field("a"), Field("b")>>}, {<<Field("b"), Index(0)>>}, {<<Index(0), Field("a")>>}})

DumpOf(schema, options, value) ==
  [schema |-> schema, options |-> options, value |-> value, events |-> Projection(value)]

RootOf(value) == Record(<<"root">>, <<value>>)

(* Roots of root models that are neither models nor mappings. *)
TypedRoots ==
  {<<Root(Leaf), RootOf(v)>> : v \in {One, Text, Bytes}}
    \cup {<<Root(Of("list", <<Leaf>>)), RootOf(List(<<One, v>>))>> : v \in {One, Text, Bytes}}
    \cup {<<Root(Leaf), RootOf(List([i \in 1 .. 12 |-> One]))>>}

ProperDumps == {DumpOf(t[1], o, t[2]) : t \in Typed \cup TypedRoots, o \in FieldOptions}

-----------------------------------------------------------------------------
(* Events that are almost a projection: one is dropped, doubled or swapped *)
(* with the next, or a count is one off.                                   *)
NoOptions == CHOOSE o \in Options({{}}, {{}}) : ~o.byAlias /\ ~o.excludeNone /\ ~o.excludeDefaults
OmitAll == [NoOptions EXCEPT !.excludeNone = TRUE, !.excludeDefaults = TRUE]

OneOff(event) ==
  IF event.on = "enter" THEN {[event EXCEPT !.count = @ + 1], [event EXCEPT !.count = IF @ = 0 THEN 2 ELSE @ - 1]}
  ELSE {}

Disturbed(events) ==
  LET all == DOMAIN events
      n == Len(events)
  IN  {events}
        \cup {RemoveAt(events, i) : i \in all}
        \cup {InsertAt(events, i, events[i]) : i \in all}
        \cup {InsertAt(events, i, events[j]) : i, j \in all}
        \cup {[events EXCEPT ![i] = events[i + 1], ![i + 1] = events[i]] : i \in 1 .. n - 1}
        \cup {SubSeq(events, 1, i) : i \in 0 .. n}
        \cup UNION {{[events EXCEPT ![i] = e] : e \in OneOff(events[i])} : i \in all}

ForeignDumps ==
  {[schema |-> t[1], options |-> o, value |-> t[2], events |-> e] :
     o \in {NoOptions, OmitAll}, t \in {<<Point, AB(Some(One), List(<<Two, One>>))>>},
     e \in Disturbed(Projection(AB(Some(One), List(<<Two, One>>))))}
    \cup {[schema |-> Of("list", <<Leaf>>), options |-> NoOptions, value |-> Null, events |-> e] :
     e \in Disturbed(Projection(List(<<Aggregate("union", <<One>>),
                                     Aggregate("mapping", <<Text, One>>)>>)))}

MCDumps == ProperDumps \cup ForeignDumps

-----------------------------------------------------------------------------
(* A model that occurs twice: the schema of its second field is a          *)
(* reference to the first.                                                 *)
Reference == Of("reference", << >>)
Shape == Model(<<Plain("a", Leaf)>>)
Repeated == Model(<<Plain("a", Shape), Plain("b", Reference)>>)
Single(value) == Record(<<"a">>, <<value>>)

MCRepeated ==
  {DumpOf(s, NoOptions, AB(Single(One), Single(v))) :
     s \in {Repeated, Model(<<Plain("a", Shape), Plain("b", Shape)>>)}, v \in {One, Two}}

MCRootModels ==
  {DumpOf(Root(Leaf), NoOptions, RootOf(v)) : v \in {One, Text, Bytes}}
    \cup {DumpOf(Root(Of("list", <<Leaf>>)), NoOptions, RootOf(List(<<One, v>>))) : v \in {One, Text}}
    \cup {DumpOf(Root(Shape), NoOptions, RootOf(Single(v))) : v \in {One, Text}}
=============================================================================
