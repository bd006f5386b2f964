--------------------------- MODULE MCStructuralInput ---------------------------
(* Every sequence of events on a small arena, for one family of aggregates *)
(* at a time; for the sorted aggregates, on a larger arena, the sequences  *)
(* of well-formed projections.                                             *)
EXTENDS StructuralInput, SequencesExt

MCFields == {1, 2}

Of(kinds, edges, scalars, maxCount, maxNodes) ==
  [kinds |-> kinds, edges |-> edges, scalars |-> scalars, maxCount |-> maxCount, maxNodes |-> maxNodes]

Records ==
  Of({"record", "optional", "union"}, {<<"field", 1>>, <<"some", 0>>, <<"other", 0>>},
     {"string", "long_integer"}, 2, 3)

Mappings ==
  Of({"mapping"}, {<<"index", 0>>, <<"key", 0>>, <<"value", 0>>}, {"null"}, 2, 3)

Nesting == Of({"set"}, {<<"index", 0>>}, {"null", "unsupported"}, 2, 4)

Sorting ==
  Of({"record", "set", "mapping"},
     {"field"} \X {1, 2} \cup {"index"} \X {0, 1} \cup {"key", "value"} \X {0, 1},
     {"null", "string"}, 4, 6)

MCProjections == {Records, Mappings, Nesting, Sorting}
NestingOnly == {Nesting}

(* What a well-formed projection emits: the edges of each aggregate in     *)
(* their order, no more children than it announced and no more nodes than  *)
(* the arena can hold.                                                     *)
Awaited(frame) == frame.childCount - Len(frame.children)

WellFormed ==
  /\ status # "refused"
  /\ frames # << >> =>
       Len(values) + 1 + FoldSeq(LAMBDA frame, n : n + Awaited(frame), 0, frames) <= MaxNodes
  /\ \A f \in 1 .. Len(frames) :
       LET n == Len(frames[f].children)
       IN  /\ n <= frames[f].childCount
           /\ frames[f].pending # NoEdge =>
                /\ n < frames[f].childCount
                /\ frames[f].kind = "set"     => frames[f].pending = <<"index", n>>
                /\ frames[f].kind = "mapping" =>
                     frames[f].pending = <<IF n % 2 = 0 THEN "key" ELSE "value", n \div 2>>
                /\ frames[f].kind = "record"  => frames[f].pending[1] = "field"

MCSpec == Init /\ [][Next /\ (projection = Sorting => WellFormed')]_vars
=============================================================================
