------------------------ MODULE MCCollectionValidation ------------------------
(* Small instances of CollectionValidation and GeneratorIterator: all       *)
(* collections with at most MaxParts parts, every part having at most       *)
(* MaxFound errors of its own, and lists of one part more.                  *)
EXTENDS GeneratorIterator

CONSTANTS MaxParts, MaxFound

CONSTANT k1, k2

MCKeys == {k1, k2}
MCCode == {"type", "length", "duplicate", "unhashable", "too_long", "too_short", "child"}

ChildErrors(n) == [i \in 1 .. n |-> [location |-> <<<<"index", i>>>>, code |-> "child"]]

Outcomes ==
  {[found |-> ChildErrors(n), left |-> l] : n \in 0 .. MaxFound, l \in {FALSE}}
    \cup {[found |-> ChildErrors(n), left |-> TRUE] : n \in MaxErrors .. MaxFound}

(* Keys are scalars: at most one error. *)
KeyOutcomes == {Fine, [found |-> ChildErrors(1), left |-> FALSE]}

Parts(kind) ==
  [value : Outcomes,
   key : IF Keyed(kind) THEN KeyOutcomes ELSE {Fine},
   identity : IF kind = "set" \/ Keyed(kind) THEN MCKeys \cup {Unhashable} ELSE {k1}]

MCCollections ==
  UNION {[kind : {kind},
          parts : UNION {[1 .. n -> Parts(kind)] : n \in 0 .. MaxParts},
          accepted : IF kind = "list" THEN BOOLEAN ELSE {TRUE},
          fits : IF kind = "set" THEN BOOLEAN ELSE {TRUE}] : kind \in Kinds}
    \cup [kind : Kinds, parts : {<< >>}, accepted : BOOLEAN, fits : {TRUE}]
    \cup [kind : {"list"}, parts : [1 .. MaxParts + 1 -> [value : {Fine}, key : {Fine}, identity : {k1}]],
          accepted : BOOLEAN, fits : {TRUE}]

(* By itself an item may also be valid that below its list was not, for    *)
(* the depth it has there.                                                 *)
MCAlone(c) ==
  LET inList == [i \in 1 .. Len(c.parts) |-> c.parts[i].value]
  IN  {inList} \cup {[inList EXCEPT ![i] = Fine] : i \in 1 .. Len(c.parts)}

MCBounds == [min : {None, <<1>>, <<3>>}, max : {None, <<0>>, <<2>>}]
=============================================================================
