------------------------- MODULE MCSerializerCallbacks -------------------------
(* Dumps of small models by up to two serializers, and the construction of *)
(* typed values from arenas that hold every kind of value.                 *)
EXTENDS SerializerCallbacks

Plain(name) ==
  [name |-> name, schema |-> [tag |-> "scalar", root |-> FALSE, fields |-> << >>, children |-> << >>],
   excluded |-> FALSE, alias |-> None, default |-> None]
ModelSchema(fields, root) == [tag |-> "model", root |-> root, fields |-> fields, children |-> << >>]
ScalarSchema == Plain("a").schema

One == Scalar("1")
Word == Scalar("text")
Bytes == Scalar("bytes")

(* A model of a nullable field and of an instant, which projects as text:  *)
(* schema, value and arena.                                                *)
Pair(a, arena) ==
  [schema |-> ModelSchema(<<[Plain("a") EXCEPT !.default = <<One>>], Plain("b")>>, FALSE),
   value |-> Record(<<"a", "b">>, <<a, Word>>), validated |-> arena]

Instant == [kind |-> "datetime", names |-> << >>, ids |-> << >>,
            parts |-> <<"year", "month", "day", "hour", "minute", "second", "micro", "offset">>]

Present == Pair(Aggregate("optional", <<Word>>),
  [root |-> 4, values |-> <<Atom("string", "a"), Holder("nullable", <<1>>), Instant,
                            Model("Pair", <<"a", "b">>, <<2, 3>>)>>])
Absent == Pair(Aggregate("optional", << >>),
  [root |-> 3, values |-> <<Holder("nullable", << >>), Instant, Model("Pair", <<"a", "b">>, <<1, 2>>)>>])

RootOf(value, arena) ==
  [schema |-> ModelSchema(<<Plain("root")>>, TRUE), value |-> Record(<<"root">>, <<value>>),
   validated |-> [root |-> Len(arena), values |-> arena]]
Listed == RootOf(Aggregate("list", <<One, Word>>),
  <<Atom("exact_int", "a"), Atom("decimal", "b"), Holder("sequence", <<1, 2>>), Model("Root", <<"root">>, <<3>>)>>)

(* A model that does not fit the arena twice. *)
Long == Pair(Aggregate("list", [i \in 1 .. 11 |-> One]),
  [root |-> 14, values |-> [i \in 1 .. 11 |-> Atom("string", "a")]
     \o <<Holder("sequence", [i \in 1 .. 11 |-> i]), Atom("string", "b"), Model("Pair", <<"a", "b">>, <<12, 13>>)>>])

Bare == [schema |-> ScalarSchema, value |-> Word, validated |-> [root |-> 1, values |-> <<Atom("string", "a")>>]]

When == {"always", "unless-none", "json", "json-unless-none"}

Serializer(kind, target, when, receiver) ==
  [kind |-> kind, target |-> target, when |-> when, receiver |-> receiver, slot |-> 1,
   alias |-> None, output |-> ScalarSchema]

Serializers(fields) ==
  {Serializer("field", f, w, r) : f \in fields, w \in When, r \in BOOLEAN}
    \cup {[Serializer("computed", "c", w, TRUE) EXCEPT !.alias = <<"d">>] : w \in {"always", "unless-none"}}
    \cup {[Serializer("model", "", w, TRUE) EXCEPT !.output = ModelSchema(<<Plain("m")>>, FALSE)] :
            w \in {"always", "unless-none", "json"}}
    \cup {[Serializer("field", "missing", "always", FALSE) EXCEPT !.slot = 2],
          [Serializer("computed", "c", "always", TRUE) EXCEPT !.slot = 2]}

Chosen(byAlias, excludeNone, excludeDefaults, exclude) ==
  [byAlias |-> byAlias, excludeNone |-> excludeNone, excludeDefaults |-> excludeDefaults,
   include |-> {}, exclude |-> exclude]

SomeOptions == {Chosen(FALSE, FALSE, FALSE, {}), Chosen(TRUE, TRUE, TRUE, {<<Field("b")>>})}

JobsOf(typed, serializers, options) ==
  {[schema |-> typed.schema, value |-> typed.value, validated |-> typed.validated,
    callbacks |-> c, options |-> o, json |-> j] :
     c \in UNION {[1 .. n -> serializers] : n \in 1 .. 2}, o \in options, j \in BOOLEAN}

MCJobs ==
  UNION {JobsOf(typed, Serializers({"a"}), SomeOptions) : typed \in {Present, Absent}}
    \cup JobsOf(Present, {Serializer("field", "b", "always", r) : r \in BOOLEAN}, SomeOptions)
    \cup JobsOf(Long, {Serializer("field", "a", "always", r) : r \in BOOLEAN}, SomeOptions)
    \cup UNION {JobsOf(typed, Serializers({"root"}), {Chosen(FALSE, FALSE, FALSE, {})}) :
                  typed \in {Listed, Bare}}

MCAnswers == {Null, Aggregate("optional", <<One>>), Record(<<"m", "a">>, <<One, Bytes>>)}

-----------------------------------------------------------------------------
Clock == <<"hour", "minute", "second", "micro">>

Frozen == [root |-> 4, values |-> <<Atom("url", "a"), Atom("multi_host_url", "b"), Holder("frozenset", <<1, 2>>),
                                    Model("Frozen", <<"urls">>, <<3>>)>>]

MCArenas ==
  {[root |-> 3, values |-> <<v, w, Tuple(<<1, 2>>)>>] :
     w \in {Atom("decimal", "1"), NoValue, Holder("frozenset", << >>)},
     v \in {Atom("url", "a"), Atom("uuid", "u"),
               [Atom("pattern", "p") EXCEPT !.parts = <<"p", "flags">>],
               [Atom("fraction", "1") EXCEPT !.parts = <<"1", "2">>],
               [Atom("complex", "1") EXCEPT !.parts = <<"1", "2">>],
               [Atom("date", "1") EXCEPT !.parts = <<"year", "month", "day">>],
               [Atom("time", "1") EXCEPT !.parts = Clock],
               [Atom("time", "1") EXCEPT !.parts = Clock \o <<"offset">>],
               [Atom("duration", "1") EXCEPT !.parts = Clock],
               [Instant EXCEPT !.parts = SubSeq(@, 1, 7)]}}
    \cup {Present.validated, Frozen}

MCText ==
  Specialised \cup Scalars \cup {"model", "tuple", "nullable", "set", "sequence", "value", "source", "flags",
    "_values", "Pair", "Root", "Frozen", "a", "b", "u", "p", "1", "2", "urls", "root",
    "year", "month", "day", "hour", "minute", "second", "micro", "offset"}

NoJob == CHOOSE j \in MCJobs : TRUE

(* Either a dump, or one validated arena, to be constructed or handed to a *)
(* validator.                                                              *)
MCInit ==
  \/ Init
  \/ /\ ConstructionInit
     /\ job = NoJob /\ phase = "done" /\ next = 1 /\ output = Null /\ called = << >>
     /\ result = <<"none", Null>>

Construct ==
  /\ result = <<"none", Null>>
  /\ ConstructionNext
  /\ UNCHANGED dumpVars

MCSpec == MCInit /\ [][Next \/ Construct]_vars
=============================================================================
