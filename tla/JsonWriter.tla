------------------------------- MODULE JsonWriter -------------------------------
(***************************************************************************)
(* serialize_json and its visitor JsonWriter of serialization/json.rs.     *)
(* The visitor writes the document while the events of a projection come   *)
(* in: it writes the prefix of a field before it knows whether the field   *)
(* is omitted, and cuts the output back when it is; and it captures fields *)
(* that have a default a second time, unselected and without aliases, to   *)
(* compare them with it.  One action is one event; the events are foreign  *)
(* and need not be a projection.  The output is measured in tokens.        *)
(***************************************************************************)
EXTENDS FieldSelection

CONSTANTS
  MaxDepth, MaxNodes, MaxItems, MaxStringBytes, MaxOutput,   \* options.limits
  Dumps,     \* the dumps: schema, options, value, and the events it is projected by
  PlanOf(_),         \* the policies of a schema: SerializationPlan
  Structural(_),     \* the native value of a dump: serialize_structural
  JsonOf(_)          \* the JSON of a native value, if it has one: native_json_bytes

ASSUME LimitsAssumption ==
  \A limit \in {MaxDepth, MaxNodes, MaxItems, MaxStringBytes, MaxOutput} : limit \in Nat \ {0}

(* What a projection may send. *)
Edges == ({"field"} \X STRING) \cup ({"index", "key", "value"} \X Nat) \cup {<<"active">>}

Events ==
  [on : {"enter"}, kind : STRING, count : Nat] \cup [on : {"exit"}, kind : STRING]
    \cup [on : {"edge"}, edge : Edges] \cup [on : {"scalar"}, scalar : STRING]

ASSUME DumpsAssumption == \A d \in Dumps : d.events \in Seq(Events)

VARIABLES
  dump,      \* the dump under way; never changes
  plan,      \* its policies
  pos,       \* events handled
  status,    \* "writing", "done", or the kind of the error
  w          \* the JsonWriter: output, raw, nodes, strings, frames, path, rootComplete

vars == <<dump, plan, pos, status, w>>

NoEdge == <<"none">>

IsRoot == dump.schema.tag = "model" /\ dump.schema.root

Init ==
  /\ dump \in Dumps
  /\ plan = PlanOf(dump.schema)
  /\ pos = 0
  /\ status = "writing"
  /\ w = [output |-> << >>, raw |-> << >>, nodes |-> 0, strings |-> 0,
          frames |-> << >>, path |-> << >>, rootComplete |-> FALSE]

Top(s) == s[Len(s)]

Pop(s) == SubSeq(s, 1, Len(s) - 1)

-----------------------------------------------------------------------------
(* The edge that a parent expects before its next child.                   *)
EdgeFits(kind, completed, edge) ==
  CASE kind = "record"      -> edge[1] = "field"
    [] kind \in Sequential  -> edge = Index(completed)
    [] kind = "mapping"     -> edge = <<IF completed % 2 = 0 THEN "key" ELSE "value", completed \div 2>>
    [] OTHER                -> edge = <<"active">>

Comma(wanted) == IF wanted THEN <<",">> ELSE << >>

(* What is written before a child, given its name and whether it is first. *)
Prefix(kind, completed, name, first) ==
  CASE kind = "record"     -> Comma(~first) \o <<name, ":">>
    [] kind \in Sequential -> Comma(~first)
    [] kind = "mapping"    -> IF completed % 2 = 0 THEN Comma(completed > 0) ELSE <<":">>
    [] OTHER               -> << >>

RootPrepared ==
  [emit |-> TRUE, prefixStart |-> Len(w.output), pathPushed |-> FALSE, capture |-> FALSE,
   owns |-> FALSE, rawStart |-> Len(w.raw), rawValueStart |-> Len(w.raw)]

(* prepare_value: the edge is taken and checked, the path extended, the    *)
(* prefix written.  It gives the error, if any, what is remembered of the  *)
(* value, and the writer.                                                  *)
PrepareValue(isString) ==
  IF w.frames = << >>
  THEN [error |-> IF w.rootComplete THEN "projection" ELSE "fine", prepared |-> RootPrepared, w |-> w]
  ELSE
    LET frame     == Top(w.frames)
        parent    == frame.prepared
        edge      == frame.pending
        inRecord  == frame.kind = "record"
        pushed    == inRecord \/ frame.kind \in Sequential
        path      == IF pushed THEN Append(w.path, edge) ELSE w.path
        emit      == /\ parent.emit
                     /\ inRecord => FieldPolicy(plan, path) # None
                     /\ pushed => Selected(dump.options, path)
        owns      == /\ inRecord /\ dump.options.excludeDefaults /\ ~parent.capture
                     /\ DefaultAt(plan, path) # None
        capture   == parent.capture \/ owns
        isKey     == frame.kind = "mapping" /\ frame.completed % 2 = 0
        strings   == w.strings + (IF inRecord THEN 1 ELSE 0)
        name      == IF inRecord THEN OutputName(plan, dump.options, path, edge[2]) ELSE "none"
        rawName   == IF inRecord THEN edge[2] ELSE "none"
        output    == IF emit THEN w.output \o Prefix(frame.kind, frame.completed, name, frame.emitted = 0)
                     ELSE w.output
        raw       == IF parent.capture
                     THEN w.raw \o Prefix(frame.kind, frame.completed, rawName, frame.completed = 0)
                     ELSE w.raw
        taken     == [frame EXCEPT !.pending = NoEdge, !.emitted = @ + (IF emit THEN 1 ELSE 0)]
        error     == IF ~EdgeFits(frame.kind, frame.completed, edge) THEN "projection"
                     ELSE IF strings > MaxStringBytes THEN "limit"
                     ELSE IF isKey /\ (emit \/ capture) /\ ~isString THEN "unsupported"
                     ELSE "fine"
    IN  IF edge = NoEdge \/ error # "fine"
        THEN [error |-> IF edge = NoEdge THEN "projection" ELSE error, prepared |-> parent, w |-> w]
        ELSE [error |-> "fine",
              prepared |-> [emit |-> emit, prefixStart |-> Len(w.output), pathPushed |-> pushed,
                            capture |-> capture, owns |-> owns, rawStart |-> Len(w.raw),
                            rawValueStart |-> Len(raw)],
              w |-> [w EXCEPT !.output = output, !.raw = raw, !.path = path, !.strings = strings,
                              !.frames = Append(Pop(@), taken)]]

(* A field is omitted when it is emitted and is None or equal to its       *)
(* default, byte by byte.                                                  *)
Omitted(v, prepared, isNone) ==
  LET default == IF dump.options.excludeDefaults THEN DefaultAt(plan, v.path) ELSE None
      matches == /\ default # None
                 /\ JsonOf(default[1]) = <<SubSeq(v.raw, prepared.rawValueStart + 1, Len(v.raw))>>
  IN  /\ prepared.emit
      /\ v.frames # << >> /\ Top(v.frames).kind = "record"
      /\ (dump.options.excludeNone /\ isNone) \/ matches

CompleteValueDangling(v, prepared, isNone) ==
  LET omit == Omitted(v, prepared, isNone)
      counted == [Top(v.frames) EXCEPT !.completed = @ + 1]
  IN  [v EXCEPT !.output = IF omit THEN SubSeq(@, 1, prepared.prefixStart) ELSE @,
                !.path = IF prepared.pathPushed THEN Pop(@) ELSE @,
                !.raw = IF prepared.owns THEN SubSeq(@, 1, prepared.rawStart) ELSE @,
                !.frames = IF @ = << >> THEN @ ELSE Append(Pop(@), counted),
                !.rootComplete = @ \/ v.frames = << >>]

(* complete_value: the field is omitted, the path and the capture restored,*)
(* the child counted.                                                      *)
CompleteValue(v, prepared, isNone) ==
  LET omit == Omitted(v, prepared, isNone)
      parent == Top(v.frames)
      counted == [parent EXCEPT !.completed = @ + 1,
                                !.emitted = IF omit THEN @ - 1 ELSE @]
  IN  [v EXCEPT !.output = IF omit THEN SubSeq(@, 1, prepared.prefixStart) ELSE @,
                !.path = IF prepared.pathPushed THEN Pop(@) ELSE @,
                !.raw = IF prepared.owns THEN SubSeq(@, 1, prepared.rawStart) ELSE @,
                !.frames = IF @ = << >> THEN @ ELSE Append(Pop(@), counted),
                !.rootComplete = @ \/ v.frames = << >>]

-----------------------------------------------------------------------------
Event == dump.events[pos + 1]

Offered(on) == status = "writing" /\ ~IsRoot /\ pos < Len(dump.events) /\ Event.on = on

Fail(error) == status' = error /\ UNCHANGED <<dump, plan, pos, w>>

WriteBoth(v) ==
  IF Len(v.output) + Len(v.raw) > MaxOutput THEN Fail("limit")
  ELSE /\ w' = v /\ pos' = pos + 1
       /\ UNCHANGED <<dump, plan, status>>

(* check_output_size ends every event but an edge. *)
Write(v) ==
  IF Len(v.output) > MaxOutput THEN Fail("limit")
  ELSE /\ w' = v /\ pos' = pos + 1
       /\ UNCHANGED <<dump, plan, status>>

(* check_aggregate: what is wrong with the count that is announced. *)
CountError(kind, count) ==
  LET items == IF kind = "mapping" THEN count \div 2 ELSE count
  IN  CASE kind = "mapping" /\ count % 2 = 1  -> "projection"
        [] kind = "optional" /\ count > 1     -> "projection"
        [] kind = "union" /\ count # 1        -> "projection"
        [] items > MaxItems                   -> "limit"
        [] OTHER                              -> "fine"

Opening(kind) ==
  CASE kind \in {"record", "mapping"} -> <<"{">>
    [] kind \in Sequential            -> <<"[">>
    [] OTHER                          -> << >>

Closing(kind, isNone) ==
  CASE kind \in {"record", "mapping"} -> <<"}">>
    [] kind \in Sequential            -> <<"]">>
    [] isNone                         -> <<"null">>
    [] OTHER                          -> << >>

(* Both outputs, each as far as the value goes to it. *)
Wrote(v, prepared, tokens) ==
  [v EXCEPT !.output = IF prepared.emit THEN @ \o tokens ELSE @,
            !.raw = IF prepared.capture THEN @ \o tokens ELSE @]

Enter ==
  /\ Offered("enter")
  /\ LET p == PrepareValue(FALSE)
         counted == CountError(Event.kind, Event.count)
         frame == [kind |-> Event.kind, count |-> Event.count, completed |-> 0, emitted |-> 0,
                   pending |-> NoEdge, prepared |-> p.prepared]
     IN  IF p.error # "fine" THEN Fail(p.error)
         ELSE IF p.w.nodes >= MaxNodes \/ Len(p.w.frames) > MaxDepth THEN Fail("limit")
         ELSE IF counted # "fine" THEN Fail(counted)
         ELSE Write([Wrote(p.w, p.prepared, Opening(Event.kind)) EXCEPT
                       !.nodes = @ + 1, !.frames = Append(@, frame)])

Edge ==
  /\ Offered("edge")
  /\ IF w.frames = << >> THEN Fail("projection")
     ELSE LET frame == Top(w.frames)
          IN  IF frame.completed >= frame.count \/ frame.pending # NoEdge THEN Fail("projection")
              ELSE /\ w' = [w EXCEPT !.frames = Append(Pop(@), [frame EXCEPT !.pending = Event.edge])]
                   /\ pos' = pos + 1
                   /\ UNCHANGED <<dump, plan, status>>

(* Texts are the scalars that are neither None, nor integers, nor bytes.   *)
IsText(scalar) == scalar \notin {"null", "bytes", "1", "2"}

VisitScalar ==
  /\ Offered("scalar")
  /\ LET p == PrepareValue(IsText(Event.scalar))
         strings == p.w.strings + (IF IsText(Event.scalar) THEN 1 ELSE 0)
         written == [Wrote(p.w, p.prepared, <<Event.scalar>>) EXCEPT
                       !.nodes = @ + 1, !.strings = strings]
     IN  IF p.error # "fine" THEN Fail(p.error)
         ELSE IF p.w.nodes >= MaxNodes \/ strings > MaxStringBytes THEN Fail("limit")
         ELSE IF Event.scalar = "bytes" /\ (p.prepared.emit \/ p.prepared.capture) THEN Fail("unsupported")
         ELSE Write(CompleteValue(written, p.prepared, Event.scalar = "null"))

Exit ==
  /\ Offered("exit")
  /\ IF w.frames = << >> THEN Fail("projection")
     ELSE LET frame == Top(w.frames)
              isNone == frame.kind = "optional" /\ frame.count = 0
              left == [w EXCEPT !.frames = Pop(@)]
          IN  IF frame.kind # Event.kind \/ frame.pending # NoEdge \/ frame.completed # frame.count
              THEN Fail("projection")
              ELSE Write(CompleteValue(Wrote(left, frame.prepared, Closing(frame.kind, isNone)),
                                       frame.prepared, isNone))

FinishWithRoot ==
  /\ status = "writing" /\ ~IsRoot /\ pos = Len(dump.events)
  /\ status' = (IF w.output # << >> THEN "done" ELSE "projection")
  /\ UNCHANGED <<dump, plan, pos, w>>

(* The projection has returned: the writer must hold one complete value.   *)
Finish ==
  /\ status = "writing" /\ ~IsRoot /\ pos = Len(dump.events)
  /\ status' = (IF w.frames = << >> /\ w.path = << >> /\ w.rootComplete THEN "done" ELSE "projection")
  /\ UNCHANGED <<dump, plan, pos, w>>

(* A root model is dumped structurally first, then written. *)
SerializeRoot ==
  LET json == JsonOf(Structural(dump))
  IN  /\ status = "writing" /\ IsRoot
      /\ IF json = None THEN Fail("unsupported")
         ELSE IF Len(json[1]) > MaxOutput THEN Fail("limit")
         ELSE /\ status' = "done" /\ w' = [w EXCEPT !.output = json[1]]
              /\ UNCHANGED <<dump, plan, pos>>

Next == Enter \/ Edge \/ VisitScalar \/ Exit \/ Finish \/ SerializeRoot

Spec == Init /\ [][Next]_vars

-----------------------------------------------------------------------------
(* How the events of a projection nest: the event after the next child of  *)
(* the aggregate that starts at event i, given where values end and the    *)
(* event at after its first c children; 0 where the child is missing.      *)
AfterChild(events, ends, i, c, at) ==
  IF /\ at \in i + 1 .. Len(events) - 1 /\ events[at].on = "edge"
     /\ EdgeFits(events[i].kind, c, events[at].edge)
  THEN ends[at + 1] ELSE 0

ChildEnds(events, ends, i) ==
  LET after[c \in 0 .. events[i].count] ==
        IF c = 0 THEN i + 1 ELSE AfterChild(events, ends, i, c - 1, after[c - 1])
  IN  after

(* The event after the value that starts at event i, 0 if none does.       *)
ValueEnd(events, ends, i) ==
  CASE events[i].on = "scalar" -> i + 1
    [] events[i].on = "enter"  ->
         LET last == ChildEnds(events, ends, i)[events[i].count]
         IN  IF /\ last \in 1 .. Len(events) /\ events[last].on = "exit"
                /\ events[last].kind = events[i].kind
             THEN last + 1 ELSE 0
    [] OTHER -> 0

ValueEnds(events) ==
  LET ends[i \in 1 .. Len(events)] == ValueEnd(events, ends, i)
  IN  ends

(* Whatever the events of a foreign projection, a document is returned     *)
(* only if they are the projection of one value.                           *)
OnlyProjectionsComplete ==
  (status = "done" /\ ~IsRoot) =>
    dump.events # << >> /\ ValueEnds(dump.events)[1] = Len(dump.events) + 1
=============================================================================
